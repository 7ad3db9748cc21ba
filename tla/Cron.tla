--------------------------------- MODULE Cron ---------------------------------
(***************************************************************************)
(* class CronScheduler of core/src/cron.ts.                                *)
(*                                                                         *)
(* `now` is the epoch minute, on a calendar whose months all have LastDay  *)
(* days.  The interval calls tick() at any time while the timer is set: it *)
(* may be called often in a minute or, when the event loop is blocked, not *)
(* at all for many.  The clock may be set back.  A handler either starts,  *)
(* whatever its promise does later, or throws before it returns one.  That *)
(* exception leaves the timer's callback, and the process is taken to      *)
(* survive it.                                                             *)
(***************************************************************************)
EXTENDS CronSchedule, FiniteSets

CONSTANTS Definitions,  \* what add() is called with, in this order:
                        \* [name, schedule, throws]
          MaxMinute,    \* bound: how far the clock runs
          MaxSkip,      \* bound: minutes that may pass between two ticks
          MaxSetBacks   \* bound: times the clock is set back

ASSUME CronAssumption ==
  /\ Len(Definitions) \in Nat /\ DOMAIN Definitions = 1..Len(Definitions)
  /\ \A i \in DOMAIN Definitions :
       \A f \in Fields : Definitions[i].schedule[f] # <<>>
  /\ {MaxMinute, MaxSkip, MaxSetBacks} \subseteq Nat

VARIABLES jobs,        \* how many definitions were added
          timer,       \* is the interval set?
          lastMinute,
          lastFired,   \* lastFiredEpochMinute
          now,
          setBacks,
          justAdded,   \* history: jobs added in this very minute
          ticked,      \* history: the minute of the last tick()
          ran,         \* history: the minute each job last ran in
          twice        \* history: jobs that ran in the minute they last ran in

history == <<justAdded, ticked, ran, twice>>
vars == <<jobs, timer, lastMinute, lastFired, now, setBacks, history>>

Never == -1
Minutes == 0..MaxMinute
Indices == DOMAIN Definitions
Names == {Definitions[i].name : i \in Indices}
Job(i) == Definitions[i]

TypeOK ==
  /\ jobs \in 0..Len(Definitions) /\ timer \in BOOLEAN
  /\ lastMinute \in Minutes \cup {Never} /\ ticked \in Minutes \cup {Never}
  /\ lastFired \in [Names -> Minutes \cup {Never}]
  /\ now \in Minutes /\ setBacks \in 0..MaxSetBacks
  /\ ran \in [Indices -> Minutes \cup {Never}]
  /\ justAdded \subseteq Indices /\ twice \subseteq Indices

Init ==
  /\ jobs = 0 /\ timer = FALSE /\ lastMinute = Never
  /\ lastFired = [n \in Names |-> Never]
  /\ now = 0 /\ setBacks = 0
  /\ ran = [i \in Indices |-> Never] /\ ticked = Never
  /\ justAdded = {} /\ twice = {}

\* The local date and time of a minute.
DateOf(minute) ==
  LET hours == minute \div (LastMinute + 1)
      days == hours \div (LastHour + 1)
  IN [minute |-> minute % (LastMinute + 1), hour |-> hours % (LastHour + 1),
      day |-> (days % LastDay) + 1, month |-> ((days \div LastDay) % LastMonth) + 1,
      weekday |-> days % (LastWeekday + 1)]

\* add() throws if the expression does not parse.
Add ==
  /\ jobs < Len(Definitions)
  /\ \A f \in Fields : FieldOk(Job(jobs + 1).schedule[f], f)
  /\ jobs' = jobs + 1
  /\ justAdded' = justAdded \cup {jobs + 1}
  /\ UNCHANGED <<timer, lastMinute, lastFired, now, setBacks, ticked, ran, twice>>

Start == /\ ~timer /\ timer' = TRUE
         /\ UNCHANGED <<jobs, lastMinute, lastFired, now, setBacks, history>>

Stop == /\ timer /\ timer' = FALSE
        /\ UNCHANGED <<jobs, lastMinute, lastFired, now, setBacks, history>>

EpochMinute(minute) == minute

\* Mutated form: no guard of its own for each job.
NotGuarded(i) == FALSE

AlreadyFired(i) == lastFired[Job(i).name] = EpochMinute(now)

\* The jobs tick() fires: those due, once per name, up to one that throws.
Due == {i \in 1..jobs : ShouldRun(Job(i).schedule, DateOf(now)) /\ ~AlreadyFired(i)}
Fired == {i \in Due : \A k \in Due : k < i => Job(k).name # Job(i).name /\ ~Job(k).throws}

Tick ==
  /\ timer
  /\ ticked' = now
  /\ IF EpochMinute(now) = lastMinute
     THEN UNCHANGED <<lastMinute, lastFired, ran, twice>>
     ELSE /\ lastMinute' = EpochMinute(now)
          /\ lastFired' = [n \in Names |-> IF \E i \in Fired : Job(i).name = n
                                           THEN EpochMinute(now) ELSE lastFired[n]]
          /\ ran' = [i \in Indices |-> IF i \in Fired THEN now ELSE ran[i]]
          /\ twice' = twice \cup {i \in Fired : ran[i] = now}
  /\ UNCHANGED <<jobs, timer, now, setBacks, justAdded>>

TimePasses ==
  /\ \E n \in 1..MaxSkip : now' = now + n
  /\ now' <= MaxMinute
  /\ justAdded' = {}
  /\ UNCHANGED <<jobs, timer, lastMinute, lastFired, setBacks, ticked, ran, twice>>

SetBack ==
  /\ now > 0 /\ setBacks < MaxSetBacks
  /\ now' = now - 1 /\ setBacks' = setBacks + 1
  /\ justAdded' = {}
  /\ UNCHANGED <<jobs, timer, lastMinute, lastFired, ticked, ran, twice>>

Next == Add \/ Start \/ Stop \/ Tick \/ TimePasses \/ SetBack

Spec == Init /\ [][Next]_vars
-----------------------------------------------------------------------------
(* Properties *)

\* In every minute in which the scheduler ticks, it has run exactly the jobs unix
\* cron would run then, across blocked ticks, restarts and days, unless the clock
\* is set back (a job added in that very minute may have missed it, and one that
\* throws before it returns a promise keeps those after it from running).
Thrown == {k \in 1..jobs : Job(k).throws /\ ran[k] = now}
OnSchedule ==
  \A i \in 1..jobs : setBacks = 0 /\ ticked = now /\ i \notin justAdded =>
    /\ ran[i] = now => UnixRun(Job(i).schedule, DateOf(now))
    /\ UnixRun(Job(i).schedule, DateOf(now)) => ran[i] = now \/ \E k \in Thrown : k < i

\* A job does not run again in the minute it last ran in: not when the scheduler
\* is restarted within it, and not when the clock comes back to it.
NeverTwice == twice = {}

=============================================================================
