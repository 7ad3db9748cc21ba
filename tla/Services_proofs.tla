---------------------------- MODULE Services_proofs ----------------------------
(***************************************************************************)
(* Proofs about the components that share no state with any other: the     *)
(* cron scheduler, the lease of a delivery in real time, the event hub,    *)
(* the query metrics, the WebSocket bridge, the edge router and the JWT    *)
(* realms.  Each part stands alone.                                        *)
(***************************************************************************)
EXTENDS Cron, TaskLease, WsBridge, Sse, QueryMetrics, EdgeRouter, Realms, SequenceTheorems,
        FiniteSetTheorems, WellFoundedInduction, TLAPS

(* Cron: CronScheduler never fires a job in the minute it last ran in, for any *)
(* jobs of distinct names, any blocked ticks and restarts, and any clock set   *)
(* back.                                                                       *)

DistinctNames == \A i, k \in Indices : Job(i).name = Job(k).name => i = k

\* The guard, which is kept by name, agrees with the history, kept by job.
Guarded ==
  /\ jobs \in 0..Len(Definitions)
  /\ lastFired \in [Names -> Int] /\ ran \in [Indices -> Int] /\ now \in Int
  /\ \A i \in Indices : ran[i] = lastFired[Job(i).name]
  /\ NeverTwice

LEMMA GuardedInit == Init => Guarded
<1> SUFFICES ASSUME Init PROVE Guarded
  OBVIOUS
<1>1. Len(Definitions) \in Nat
  BY CronAssumption
<1>2. \A i \in Indices : Job(i).name \in Names
  BY DEF Names, Job
<1> QED BY <1>1, <1>2 DEF Init, Guarded, NeverTwice, Never

\* tick() writes the minute under the names of exactly the jobs it fires, and
\* fires none whose name holds that minute.
LEMMA GuardedTick ==
  ASSUME DistinctNames, Guarded, Tick
  PROVE  Guarded'
<1>1. CASE EpochMinute(now) = lastMinute
  BY <1>1 DEF Tick, Guarded, NeverTwice
<1>2. CASE EpochMinute(now) # lastMinute
  <2>1. \A i \in Indices : Job(i).name \in Names
    BY DEF Names, Job
  <2>2. Fired \subseteq Indices /\ \A i \in Fired : lastFired[Job(i).name] # now
    <3>1. 1..jobs \subseteq Indices
      BY CronAssumption DEF Guarded, Indices
    <3> QED BY <3>1 DEF Fired, Due, AlreadyFired, EpochMinute
  <2>3. /\ lastFired' = [n \in Names |-> IF \E i \in Fired : Job(i).name = n
                                         THEN now ELSE lastFired[n]]
        /\ ran' = [i \in Indices |-> IF i \in Fired THEN now ELSE ran[i]]
        /\ twice' = twice \cup {i \in Fired : ran[i] = now}
        /\ jobs' = jobs /\ now' = now
    BY <1>2 DEF Tick, EpochMinute
  <2>4. twice' = {}
    BY <2>2, <2>3 DEF Guarded, NeverTwice
  <2>5. ASSUME NEW i \in Indices PROVE ran'[i] = lastFired'[Job(i).name]
    <3>1. i \in Fired <=> \E k \in Fired : Job(k).name = Job(i).name
      BY <2>2 DEF DistinctNames
    <3> QED BY <2>1, <2>3, <3>1 DEF Guarded
  <2>6. lastFired' \in [Names -> Int] /\ ran' \in [Indices -> Int]
    BY <2>3 DEF Guarded
  <2> QED BY <2>3, <2>4, <2>5, <2>6 DEF Guarded, NeverTwice
<1> QED BY <1>1, <1>2

LEMMA GuardedStep ==
  ASSUME DistinctNames, Guarded, [Next]_vars
  PROVE  Guarded'
<1>1. CASE Add
  BY <1>1, CronAssumption DEF Add, Guarded, NeverTwice
<1>2. CASE Start \/ Stop
  BY <1>2 DEF Start, Stop, history, Guarded, NeverTwice
<1>3. CASE Tick
  BY <1>3, GuardedTick
<1>4. CASE TimePasses \/ SetBack
  <2>1. now' \in Int
    BY <1>4, CronAssumption DEF TimePasses, SetBack, Guarded
  <2> QED BY <1>4, <2>1 DEF TimePasses, SetBack, Guarded, NeverTwice
<1>5. CASE UNCHANGED vars
  BY <1>5 DEF vars, history, Guarded, NeverTwice
<1> QED BY <1>1, <1>2, <1>3, <1>4, <1>5 DEF Next

\* For jobs of distinct names tick() fires none in the minute it last ran in,
\* whatever happened to the timer or the clock in between.
THEOREM FiredOncePerMinute ==
  ASSUME DistinctNames
  PROVE  Spec => []NeverTwice
<1>1. Guarded => NeverTwice
  BY DEF Guarded
<1>2. Guarded /\ [Next]_vars => Guarded'
  BY GuardedStep
<1> QED BY GuardedInit, <1>1, <1>2, PTL DEF Spec

(* OnSchedule: what parseField makes of a field is what unix cron means by it, but *)
(* for a step through a range with an end, whose end parseField does not look at.  *)

\* The parts of fields that the two agree on.
Part == [kind : {"star", "star/", "value", "value/", "range"}, lo : Int, hi : Int, by : Int]
\* Every job's fields consist of such parts.
PlainParts == \A i \in Indices, f \in Fields : Job(i).schedule[f] \in Seq(Part)

\* The range of a field.
LEMMA FieldBounds ==
  ASSUME NEW f \in Fields
  PROVE  Lowest(f) \in 0..1 /\ Highest(f) \in Nat \ {0} /\ InRange(f) \subseteq Nat
BY CalendarAssumption DEF Fields, Lowest, Highest, InRange

\* A value that a step lands on, as the code finds it and as a multiple of the step.
Hit(from, by, v) == v >= from /\ (v - from) % by = 0
Reached(from, by, v, top) == \E n \in 0..top : v = from + n * by

\* The two are the same.
LEMMA StepsFacts ==
  ASSUME NEW from \in Nat, NEW by \in Nat \ {0}, NEW v \in Nat, NEW top \in Nat, v <= top
  PROVE  Hit(from, by, v) <=> Reached(from, by, v, top)
<1>1. ASSUME v >= from, (v - from) % by = 0 PROVE \E n \in 0..top : v = from + n * by
  <2>1. PICK d \in Nat : d = v - from
    BY <1>1
  <2>2. PICK q \in Int : q = d \div by
    BY <2>1
  <2>3. q * by = d /\ q >= 0
    BY <1>1, <2>1, <2>2
  <2>4. q <= d
    BY <2>1, <2>3
  <2>5. v = from + q * by
    BY <2>1, <2>3
  <2>6. q \in 0..top
    BY <2>1, <2>3, <2>4
  <2> QED BY <2>5, <2>6
<1>2. ASSUME NEW n \in 0..top, v = from + n * by PROVE v >= from /\ (v - from) % by = 0
  <2>1. v - from = n * by /\ n * by >= 0
    BY <1>2
  <2>2. (n * by) % by = 0
    OBVIOUS
  <2> QED BY <2>1, <2>2
<1> QED BY <1>1, <1>2 DEF Hit, Reached

\* A part of a field matches the values unix cron has it match.
LEMMA PartAgrees ==
  ASSUME NEW f \in Fields, NEW p \in Part, PartOk(p, f), NEW v \in InRange(f)
  PROVE  v \in PartValues(p, f) <=>
           /\ Within(p, f, v)
           /\ p.kind \in {"star/", "value/", "range/"} => \E n \in 0..Highest(f) : v = Origin(p, f) + n * p.by
<1>1. /\ Lowest(f) \in Nat /\ Highest(f) \in Nat /\ v \in Nat /\ v >= Lowest(f) /\ v <= Highest(f)
      /\ p.lo \in Int /\ p.hi \in Int /\ p.by \in Int
  BY FieldBounds DEF InRange, Part
<1>2. CASE p.kind = "star"
  BY <1>2 DEF PartValues, Within
<1>3. CASE p.kind = "star/"
  <2>1. p.by \in Nat \ {0}
    BY <1>1, <1>3 DEF PartOk
  <2>2. (v - Lowest(f)) % p.by = 0 <=> \E n \in 0..Highest(f) : v = Lowest(f) + n * p.by
    <3>1. PICK low \in Nat, top \in Nat, by \in Nat \ {0} : low = Lowest(f) /\ top = Highest(f) /\ by = p.by
      BY <1>1, <2>1
    <3>2. Hit(low, by, v) <=> Reached(low, by, v, top)
      BY <1>1, <3>1, StepsFacts
    <3>3. v >= low
      BY <1>1, <3>1
    <3> QED BY <3>1, <3>2, <3>3 DEF Hit, Reached
  <2>3. v \in Steps(Lowest(f), p.by, f) <=> (v - Lowest(f)) % p.by = 0
    BY <1>1 DEF Steps
  <2>4. PartValues(p, f) = Steps(Lowest(f), p.by, f) /\ Within(p, f, v) /\ Origin(p, f) = Lowest(f)
    BY <1>3 DEF PartValues, Within, Origin
  <2> QED BY <1>3, <2>2, <2>3, <2>4
<1>4. CASE p.kind = "value/"
  <2>1. p.by \in Nat \ {0} /\ p.lo \in Nat
    BY <1>1, <1>4, FieldBounds DEF PartOk
  <2>2. (v >= p.lo /\ (v - p.lo) % p.by = 0) <=> \E n \in 0..Highest(f) : v = p.lo + n * p.by
    <3>1. PICK low \in Nat, top \in Nat, by \in Nat \ {0} : low = p.lo /\ top = Highest(f) /\ by = p.by
      BY <1>1, <2>1
    <3>2. Hit(low, by, v) <=> Reached(low, by, v, top)
      BY <1>1, <3>1, StepsFacts
    <3> QED BY <3>1, <3>2 DEF Hit, Reached
  <2>3. v \in Steps(p.lo, p.by, f) <=> v >= p.lo /\ (v - p.lo) % p.by = 0
    BY <1>1, <2>1 DEF Steps
  <2>4. PartValues(p, f) = Steps(p.lo, p.by, f) /\ (Within(p, f, v) <=> v >= p.lo) /\ Origin(p, f) = p.lo
    BY <1>4 DEF PartValues, Within, Origin
  <2> QED BY <1>4, <2>2, <2>3, <2>4
<1>5. CASE p.kind = "range"
  <2>1. v \in p.lo..p.hi <=> v >= p.lo /\ v <= p.hi
    BY <1>1
  <2> QED BY <1>5, <2>1 DEF PartValues, Within
<1>6. CASE p.kind = "value"
  BY <1>6 DEF PartValues, Within
<1> QED BY <1>2, <1>3, <1>4, <1>5, <1>6 DEF Part

\* So does a field.
LEMMA FieldAgrees ==
  ASSUME NEW schedule, NEW f \in Fields, schedule[f] \in Seq(Part), FieldOk(schedule[f], f),
         NEW date, date[f] \in InRange(f)
  PROVE  date[f] \in ParseField(schedule[f], f) <=> UnixField(schedule, date, f)
<1>1. PICK parts : parts = schedule[f]
  OBVIOUS
<1>2. PICK v : v = date[f]
  OBVIOUS
<1>3. \A i \in DOMAIN parts : parts[i] \in Part /\ PartOk(parts[i], f)
  BY <1>1, ElementOfSeq, LenProperties DEF FieldOk
<1>4. \A i \in DOMAIN parts : v \in PartValues(parts[i], f) <=>
           /\ Within(parts[i], f, v)
           /\ parts[i].kind \in {"star/", "value/", "range/"} =>
                \E n \in 0..Highest(f) : v = Origin(parts[i], f) + n * parts[i].by
  BY <1>2, <1>3, PartAgrees
<1>5. v \in ParseField(parts, f) <=> \E i \in DOMAIN parts : v \in PartValues(parts[i], f)
  BY DEF ParseField
<1> QED BY <1>1, <1>2, <1>4, <1>5 DEF UnixField

\* And so does an expression, with its two day fields.
LEMMA ScheduleAgrees ==
  ASSUME NEW schedule, \A f \in Fields : schedule[f] \in Seq(Part) /\ schedule[f] # <<>> /\ FieldOk(schedule[f], f),
         NEW date, \A f \in Fields : date[f] \in InRange(f)
  PROVE  ShouldRun(schedule, date) <=> UnixRun(schedule, date)
<1>1. \A f \in Fields : date[f] \in ParseField(schedule[f], f) <=> UnixField(schedule, date, f)
  BY FieldAgrees
<1>2. \A f \in {"day", "weekday"} : IsRestrictedDayField(schedule[f]) <=> schedule[f][1].kind \notin {"star", "star/"}
  <2>1. \A f \in {"day", "weekday"} : f \in Fields /\ Head(schedule[f]) = schedule[f][1]
    BY DEF Fields
  <2> QED BY <2>1 DEF IsRestrictedDayField
<1>3. date.day = date["day"] /\ date.weekday = date["weekday"] /\ schedule.day = schedule["day"] /\ schedule.weekday = schedule["weekday"]
  OBVIOUS
<1>4. ShouldRun(schedule, date) <=>
        /\ \A f \in {"minute", "hour", "month"} : UnixField(schedule, date, f)
        /\ IF \A f \in {"day", "weekday"} : schedule[f][1].kind \notin {"star", "star/"}
           THEN UnixField(schedule, date, "day") \/ UnixField(schedule, date, "weekday")
           ELSE UnixField(schedule, date, "day") /\ UnixField(schedule, date, "weekday")
  <2>1. {"minute", "hour", "month", "day", "weekday"} \subseteq Fields
    BY DEF Fields
  <2>2. /\ date.day \in ParseField(schedule.day, "day") <=> UnixField(schedule, date, "day")
        /\ date.weekday \in ParseField(schedule.weekday, "weekday") <=> UnixField(schedule, date, "weekday")
    BY <1>1, <1>3, <2>1
  <2>3. (IsRestrictedDayField(schedule.day) /\ IsRestrictedDayField(schedule.weekday)) <=>
          \A f \in {"day", "weekday"} : schedule[f][1].kind \notin {"star", "star/"}
    BY <1>2, <1>3
  <2>4. DayMatches(schedule, date) <=>
          IF \A f \in {"day", "weekday"} : schedule[f][1].kind \notin {"star", "star/"}
          THEN UnixField(schedule, date, "day") \/ UnixField(schedule, date, "weekday")
          ELSE UnixField(schedule, date, "day") /\ UnixField(schedule, date, "weekday")
    BY <2>2, <2>3 DEF DayMatches
  <2>5. \A f \in {"minute", "hour", "month"} : date[f] \in ParseField(schedule[f], f) <=> UnixField(schedule, date, f)
    BY <1>1, <2>1
  <2> QED BY <2>4, <2>5 DEF ShouldRun
<1>5. UnixRun(schedule, date) <=>
        /\ \A f \in {"minute", "hour", "month"} : UnixField(schedule, date, f)
        /\ IF \A f \in {"day", "weekday"} : schedule[f][1].kind \notin {"star", "star/"}
           THEN UnixField(schedule, date, "day") \/ UnixField(schedule, date, "weekday")
           ELSE UnixField(schedule, date, "day") /\ UnixField(schedule, date, "weekday")
  BY DEF UnixRun, Fields
<1> QED BY <1>4, <1>5

\* The calendar yields dates.
LEMMA DateInRange ==
  ASSUME NEW minute \in Nat
  PROVE  \A f \in Fields : DateOf(minute)[f] \in InRange(f)
<1>1. {LastMinute, LastHour, LastDay, LastMonth, LastWeekday} \subseteq Nat \ {0}
  BY CalendarAssumption
<1>2. PICK hours \in Nat : hours = minute \div (LastMinute + 1)
  BY <1>1
<1>3. PICK days \in Nat : days = hours \div (LastHour + 1)
  BY <1>1
<1>4. PICK months \in Nat : months = days \div LastDay
  BY <1>1
<1>5. DateOf(minute) = [minute |-> minute % (LastMinute + 1), hour |-> hours % (LastHour + 1),
                        day |-> (days % LastDay) + 1, month |-> (months % LastMonth) + 1,
                        weekday |-> days % (LastWeekday + 1)]
  BY <1>2, <1>3, <1>4 DEF DateOf
<1>6. minute % (LastMinute + 1) \in 0..LastMinute
  BY <1>1
<1>7. hours % (LastHour + 1) \in 0..LastHour
  BY <1>1
<1>8. (days % LastDay) + 1 \in 1..LastDay
  BY <1>1
<1>9. (months % LastMonth) + 1 \in 1..LastMonth
  BY <1>1
<1>10. days % (LastWeekday + 1) \in 0..LastWeekday
  BY <1>1
<1>11. PICK a, b, c, d, e : /\ DateOf(minute) = [minute |-> a, hour |-> b, day |-> c, month |-> d, weekday |-> e]
                            /\ a \in 0..LastMinute /\ b \in 0..LastHour /\ c \in 1..LastDay /\ d \in 1..LastMonth
                            /\ e \in 0..LastWeekday
  BY <1>5, <1>6, <1>7, <1>8, <1>9, <1>10
<1> QED BY <1>11 DEF Fields, InRange, Lowest, Highest

\* A set of numbers that is not empty has a smallest one.
LEMMA SmallestNat ==
  ASSUME NEW T, T \subseteq Nat, T # {}
  PROVE  \E n \in T : \A m \in T : n <= m
<1> DEFINE less == {ss \in Nat \X Nat : ss[1] < ss[2]}
<1>1. IsWellFoundedOn(less, Nat)
  BY NatLessThanWellFounded DEF OpToRel
<1>2. \A m, n \in Nat : m < n => <<m, n>> \in less
  OBVIOUS
<1> HIDE DEF less
<1>3. PICK n \in T : \A m \in T : <<m, n>> \notin less
  BY <1>1, WFMin
<1>4. ASSUME NEW m \in T PROVE n <= m
  <2>1. ~(m < n)
    BY <1>2, <1>3
  <2> QED BY <2>1
<1> QED BY <1>4

\* As long as the clock is not set back, nothing is recorded of a minute that has not come,
\* and nothing ran since the last tick.
OnTime ==
  /\ jobs \in 0..Len(Definitions) /\ now \in Nat /\ setBacks \in Nat
  /\ lastMinute \in Int /\ ran \in [Indices -> Int] /\ lastFired \in [Names -> Int]
  /\ \A i \in Indices : lastFired[Job(i).name] = ran[i]
  /\ \A i \in 1..jobs, f \in Fields : FieldOk(Job(i).schedule[f], f)
  /\ ticked = lastMinute
  /\ setBacks = 0 => lastMinute <= now /\ \A i \in Indices : ran[i] <= lastMinute
  /\ OnSchedule

\* A job that was added is due when unix cron would run it.
LEMMA JobAgrees ==
  ASSUME PlainParts, OnTime, NEW i \in 1..jobs
  PROVE  /\ i \in Indices
         /\ ShouldRun(Job(i).schedule, DateOf(now)) <=> UnixRun(Job(i).schedule, DateOf(now))
<1>1. i \in Indices
  BY CronAssumption DEF OnTime, Indices
<1>2. PICK schedule : schedule = Job(i).schedule
  OBVIOUS
<1>3. \A f \in Fields : schedule[f] \in Seq(Part) /\ schedule[f] # <<>> /\ FieldOk(schedule[f], f)
  BY <1>1, <1>2, CronAssumption DEF PlainParts, OnTime, Indices, Job
<1>4. PICK date : date = DateOf(now)
  OBVIOUS
<1>5. \A f \in Fields : date[f] \in InRange(f)
  BY <1>4, DateInRange DEF OnTime
<1>6. ShouldRun(schedule, date) <=> UnixRun(schedule, date)
  BY <1>3, <1>5, ScheduleAgrees
<1> QED BY <1>1, <1>2, <1>4, <1>6

\* tick() runs what is due up to the first job that throws.
LEMMA OnTimeTick ==
  ASSUME DistinctNames, PlainParts, OnTime, Tick
  PROVE  OnTime'
<1>1. CASE EpochMinute(now) = lastMinute
  <2>1. UNCHANGED <<lastMinute, lastFired, ran, twice, jobs, timer, now, setBacks, justAdded>> /\ ticked' = ticked
    BY <1>1 DEF Tick, OnTime, EpochMinute
  <2> QED BY <2>1 DEF OnTime, OnSchedule, Thrown
<1>2. CASE EpochMinute(now) # lastMinute
  <2>1. /\ lastMinute' = now /\ ticked' = now
        /\ lastFired' = [n \in Names |-> IF \E i \in Fired : Job(i).name = n THEN now ELSE lastFired[n]]
        /\ ran' = [i \in Indices |-> IF i \in Fired THEN now ELSE ran[i]]
        /\ UNCHANGED <<jobs, timer, now, setBacks, justAdded>>
    BY <1>2 DEF Tick, EpochMinute
  <2>2. \A i \in Indices : Job(i).name \in Names
    BY DEF Names, Job
  <2>3. 1..jobs \subseteq Indices /\ 1..jobs \subseteq Nat /\ Due \subseteq 1..jobs /\ Fired \subseteq Due
    BY CronAssumption DEF OnTime, Indices, Due, Fired
  <2>4. ASSUME NEW i \in Indices PROVE lastFired'[Job(i).name] = ran'[i]
    <3>1. i \in Fired <=> \E k \in Fired : Job(k).name = Job(i).name
      BY <2>3 DEF DistinctNames
    <3> QED BY <2>1, <2>2, <3>1 DEF OnTime
  <2>5. lastMinute' \in Int /\ ran' \in [Indices -> Int] /\ lastFired' \in [Names -> Int] /\ now \in Nat
    BY <2>1 DEF OnTime
  <2>6. ASSUME setBacks = 0 PROVE \A i \in Indices : ran[i] < now /\ ran'[i] <= now
    <3>1. lastMinute < now
      BY <1>2, <2>6 DEF OnTime, EpochMinute
    <3>2. \A i \in Indices : ran[i] <= lastMinute /\ ran[i] \in Int
      BY <2>6 DEF OnTime
    <3>3. lastMinute \in Int /\ now \in Nat
      BY DEF OnTime
    <3>4. \A i \in Indices : ran[i] < now
      BY <3>1, <3>2, <3>3
    <3> QED BY <2>1, <2>5, <3>4
  <2>7. ASSUME setBacks = 0, NEW i \in 1..jobs
        PROVE  i \in Due <=> UnixRun(Job(i).schedule, DateOf(now))
    <3>1. ~AlreadyFired(i)
      BY <2>3, <2>6, <2>7 DEF AlreadyFired, EpochMinute, OnTime
    <3> QED BY <3>1, JobAgrees DEF Due
  <2>8. ASSUME setBacks = 0, NEW i \in Due \ Fired
        PROVE  \E k \in Fired : k < i /\ Job(k).throws
    <3>1. PICK T : T = {k \in Due : k < i /\ Job(k).throws}
      OBVIOUS
    <3>2. T # {}
      BY <2>3, <3>1 DEF Fired, DistinctNames
    <3>3. PICK n \in T : \A m \in T : n <= m
      BY <2>3, <3>1, <3>2, SmallestNat
    <3>4. ASSUME NEW k \in Due, k < n PROVE Job(k).name # Job(n).name /\ ~Job(k).throws
      <4>1. k \in Nat /\ n \in Nat /\ i \in Nat /\ n < i
        BY <2>3, <3>1, <3>3
      <4>2. k < i /\ ~(n <= k)
        BY <3>4, <4>1
      <4>3. k \notin T
        BY <3>3, <4>2
      <4> QED BY <2>3, <3>1, <3>3, <3>4, <4>1, <4>2, <4>3 DEF DistinctNames
    <3>5. n \in Fired
      BY <3>1, <3>3, <3>4 DEF Fired
    <3> QED BY <3>1, <3>3, <3>5
  <2>9. OnSchedule'
    <3> SUFFICES ASSUME NEW i \in 1..jobs, setBacks = 0
                 PROVE  /\ ran'[i] = now => UnixRun(Job(i).schedule, DateOf(now))
                        /\ UnixRun(Job(i).schedule, DateOf(now)) => ran'[i] = now \/ \E k \in Thrown' : k < i
      BY <2>1 DEF OnSchedule
    <3>1. \A k \in Indices : ran'[k] = now <=> k \in Fired
      BY <2>1, <2>5, <2>6
    <3>2. Fired \cap {k \in Indices : Job(k).throws} \subseteq Thrown'
      BY <2>1, <2>3, <3>1 DEF Thrown
    <3>3. i \in Indices /\ (i \in Due <=> UnixRun(Job(i).schedule, DateOf(now)))
      BY <2>3, <2>7
    <3>4. ASSUME i \in Due, i \notin Fired PROVE \E k \in Thrown' : k < i
      <4>1. PICK k \in Fired : k < i /\ Job(k).throws
        BY <2>8, <3>4
      <4> QED BY <2>3, <3>2, <4>1
    <3> QED BY <2>3, <3>1, <3>3, <3>4
  <2>10. setBacks' = 0 => lastMinute' <= now' /\ \A i \in Indices : ran'[i] <= lastMinute'
    BY <2>1, <2>5, <2>6
  <2> QED BY <2>1, <2>4, <2>5, <2>9, <2>10 DEF OnTime
<1> QED BY <1>1, <1>2

\* Every step keeps to the schedule.
LEMMA OnTimeStep ==
  ASSUME DistinctNames, PlainParts, OnTime, [Next]_vars
  PROVE  OnTime'
<1>1. CASE Add
  <2>1. /\ jobs < Len(Definitions) /\ jobs' = jobs + 1 /\ justAdded' = justAdded \cup {jobs + 1}
        /\ \A f \in Fields : FieldOk(Job(jobs + 1).schedule[f], f)
        /\ UNCHANGED <<timer, lastMinute, lastFired, now, setBacks, ticked, ran, twice>>
    BY <1>1 DEF Add
  <2>2. jobs' \in 0..Len(Definitions) /\ 1..jobs' = (1..jobs) \cup {jobs + 1}
    BY <2>1, CronAssumption DEF OnTime
  <2>3. \A i \in 1..jobs', f \in Fields : FieldOk(Job(i).schedule[f], f)
    BY <2>1, <2>2 DEF OnTime
  <2>4. OnSchedule'
    BY <2>1, <2>2 DEF OnTime, OnSchedule, Thrown
  <2> QED BY <2>1, <2>2, <2>3, <2>4 DEF OnTime
<1>2. CASE Start \/ Stop \/ UNCHANGED vars
  <2>1. UNCHANGED <<jobs, lastMinute, lastFired, now, setBacks, justAdded, ticked, ran, twice>>
    BY <1>2 DEF Start, Stop, vars, history
  <2> QED BY <2>1 DEF OnTime, OnSchedule, Thrown
<1>3. CASE Tick
  BY <1>3, OnTimeTick
<1>4. CASE TimePasses
  <2>1. PICK n \in 1..MaxSkip : now' = now + n
    BY <1>4 DEF TimePasses
  <2>2. UNCHANGED <<jobs, timer, lastMinute, lastFired, setBacks, ticked, ran, twice>>
    BY <1>4 DEF TimePasses
  <2>3. now' \in Nat /\ (setBacks = 0 => lastMinute < now')
    BY <2>1, CronAssumption DEF OnTime
  <2>4. OnSchedule'
    BY <2>2, <2>3 DEF OnTime, OnSchedule
  <2> QED BY <2>2, <2>3, <2>4 DEF OnTime
<1>5. CASE SetBack
  <2>1. /\ now > 0 /\ now' = now - 1 /\ setBacks' = setBacks + 1
        /\ UNCHANGED <<jobs, timer, lastMinute, lastFired, ticked, ran, twice>>
    BY <1>5 DEF SetBack
  <2>2. now' \in Nat /\ setBacks' \in Nat /\ setBacks' # 0
    BY <2>1 DEF OnTime
  <2> QED BY <2>1, <2>2 DEF OnTime, OnSchedule
<1> QED BY <1>1, <1>2, <1>3, <1>4, <1>5 DEF Next

\* At first nothing has run.
LEMMA OnTimeInit == Init => OnTime
<1> SUFFICES ASSUME Init PROVE OnTime
  OBVIOUS
<1>1. Len(Definitions) \in Nat /\ 1..0 = {}
  BY CronAssumption
<1>2. \A i \in Indices : Job(i).name \in Names
  BY DEF Names, Job
<1> QED BY <1>1, <1>2 DEF Init, OnTime, OnSchedule, Never

\* In every minute tick() is called in, the jobs that have run are those unix cron would
\* run, for any jobs of distinct names and plain parts, any blocked event loop, restarts
\* and calendar (CronScheduler.tick, shouldRun), as long as the clock is not set back.
THEOREM RunsAsUnixCron ==
  ASSUME DistinctNames, PlainParts
  PROVE  Spec => []OnSchedule
<1>1. OnTime => OnSchedule
  BY DEF OnTime
<1>2. OnTime /\ [Next]_vars => OnTime'
  BY OnTimeStep
<1> QED BY <1>1, <1>2, OnTimeInit, PTL DEF Spec

-----------------------------------------------------------------------------
(* TaskLease: a backend whose leases the worker judges rightly hands no job to *)
(* another before the handler that has it is told to stop.                     *)

\* What the worker takes the lease for, and how often it beats, are numbers of ticks.
LEMMA LeaseNumbers ==
  ASSUME LeaseTypeOK
  PROVE  /\ lease \in Nat \ {0} /\ visibilityTimeout \in Nat \ {0} /\ Interval \in Nat
         /\ HeartbeatFloor \in Nat \ {0}
<1>1. visibilityTimeout \in Nat \ {0}
  BY LeaseAssumption DEF LeaseTypeOK, visibilityTimeout, Unset
<1> QED BY <1>1, LeaseAssumption DEF LeaseTypeOK, Interval, AtLeast

\* The heartbeat interval is shorter than the lease, max(floor, v / 3) < v, and two of
\* them are if the lease is above two floors.
LEMMA IntervalIsShort ==
  ASSUME LeaseTypeOK, Dependable
  PROVE  Interval < lease /\ (visibilityTimeout > 2 * HeartbeatFloor => 2 * Interval < lease)
<1> DEFINE v == visibilityTimeout
<1>1. v \in Nat \ {0} /\ v > HeartbeatFloor /\ v <= lease /\ lease \in Nat /\ HeartbeatFloor \in Nat
  BY LeaseNumbers DEF Dependable
<1>2. Interval = IF HeartbeatFloor > v \div 3 THEN HeartbeatFloor ELSE v \div 3
  BY DEF Interval, AtLeast
<1> HIDE DEF v
<1>3. v \div 3 \in Nat /\ 2 * (v \div 3) < v
  BY <1>1
<1>4. Interval < v /\ (v > 2 * HeartbeatFloor => 2 * Interval < v)
  BY <1>1, <1>2, <1>3
<1>5. Interval \in Nat
  BY <1>1, <1>2, <1>3
<1> QED BY <1>1, <1>4, <1>5 DEF v

\* The effective timeout of a task that is not heartbeated ends before its lease.
LEMMA TimeoutIsShort ==
  ASSUME LeaseTypeOK, Dependable, Checked, ~canHeartbeat,
         NEW longRunning \in BOOLEAN, AssertTimeoutIsSafe(longRunning)
  PROVE  ResolveTimeout < lease
<1> DEFINE v == visibilityTimeout
<1>1. v \in Nat \ {0} /\ v > 1 /\ v <= lease /\ lease \in Nat /\ DefaultTimeout \in Nat
  BY LeaseNumbers, LeaseAssumption DEF Dependable
<1>2. CASE timeout # Unset
  BY <1>1, <1>2, LeaseAssumption
  DEF AssertTimeoutIsSafe, Checked, ResolveTimeout, visibilityTimeout, LeaseTypeOK, Unset
<1>3. CASE timeout = Unset
  <2>1. ResolveTimeout = AtLeast(1, AtMost(DefaultTimeout, (v * 8) \div 10))
    BY <1>3 DEF ResolveTimeout
  <2> HIDE DEF v
  <2>2. (v * 8) \div 10 \in Nat /\ (v * 8) \div 10 < v
    BY <1>1
  <2> QED BY <1>1, <2>1, <2>2 DEF AtLeast, AtMost
<1> QED BY <1>2, <1>3

\* The effective timeout is a number of ticks.
LEMMA TimeoutType ==
  ASSUME LeaseTypeOK
  PROVE  ResolveTimeout \in Nat \ {0}
<1>1. visibilityTimeout \in Nat /\ DefaultTimeout \in Nat /\ (timeout = 0 \/ timeout \in Nat \ {0})
  BY LeaseNumbers, LeaseAssumption DEF LeaseTypeOK, Unset
<1> DEFINE share == (visibilityTimeout * 8) \div 10
<1>2. share \in Nat
  BY <1>1
<1> HIDE DEF share
<1>3. AtMost(DefaultTimeout, share) \in Nat
  BY <1>1, <1>2 DEF AtMost
<1>4. AtLeast(1, AtMost(DefaultTimeout, share)) \in Nat \ {0}
  BY <1>3 DEF AtLeast
<1> QED BY <1>1, <1>4 DEF ResolveTimeout, Unset, share

\* A job that has just been popped satisfies the invariant.
LEMMA LeaseInit == DeliveryInit => LeaseInv
<1> SUFFICES ASSUME DeliveryInit PROVE LeaseInv
  OBVIOUS
<1>1. PICK longRunning \in BOOLEAN : AssertTimeoutIsSafe(longRunning)
  BY DEF DeliveryInit
<1>2. lease \in Nat /\ Interval \in Nat /\ visibilityTimeout \in Nat
  <2>1. visibilityTimeout \in Nat
    BY LeaseAssumption DEF DeliveryInit, visibilityTimeout, Unset
  <2> QED BY <2>1, LeaseAssumption DEF DeliveryInit, Interval, AtLeast
<1>3. LeaseTypeOK
  <2>1. elapsed \in 0..MaxTime /\ missed \in 0..2 /\ expiresAt \in Nat /\ nextBeat \in Nat
    BY <1>2, LeaseAssumption DEF DeliveryInit
  <2> QED BY <2>1 DEF DeliveryInit, LeaseTypeOK
<1>4. LeaseSlack
  <2>1. CASE Beating
    BY <1>2, <2>1 DEF DeliveryInit, LeaseSlack
  <2>2. CASE ~Beating
    <3>1. Dependable => ~canHeartbeat
      BY <2>2 DEF Beating, Dependable
    <3>2. ResolveTimeout \in Nat
      BY <1>3, TimeoutType
    <3> QED BY <1>1, <1>2, <1>3, <2>2, <3>1, <3>2, TimeoutIsShort DEF DeliveryInit, LeaseSlack
  <2> QED BY <2>1, <2>2
<1> QED
  BY <1>3, <1>4 DEF DeliveryInit, LeaseInv, AbortedOnly, NoSecondRun, SettlesItsOwn

\* Every step keeps the lease alive for as long as a timer of the delivery may
\* still fire before it runs out.
LEMMA LeaseInductive == LeaseInv /\ [DeliveryNext]_leaseVars => LeaseInv'
<1> SUFFICES ASSUME LeaseInv, [DeliveryNext]_leaseVars PROVE LeaseInv'
  OBVIOUS
<1> USE LeaseAssumption DEF LeaseInv
<1>0. /\ lease' = lease /\ declared' = declared /\ canHeartbeat' = canHeartbeat
      /\ tokened' = tokened /\ timeout' = timeout
  BY DEF DeliveryNext, LeaseTick, Heartbeat, HeartbeatFails, HandlerBeats, HandlerEnds, TimesOut,
         AbortedEnds, Settle, Reclaim, Redeliver, BeatDue, leaseVars, setting
<1>1. /\ Dependable' = Dependable /\ Checked' = Checked /\ Beating' = Beating
      /\ Interval' = Interval /\ ResolveTimeout' = ResolveTimeout /\ Endured' = Endured
  BY <1>0
  DEF Dependable, Checked, Beating, Interval, ResolveTimeout, Endured, visibilityTimeout
<1>2. /\ lease \in Nat /\ Interval \in Nat /\ elapsed \in Nat /\ expiresAt \in Nat
      /\ nextBeat \in Nat /\ missed \in 0..2 /\ ResolveTimeout \in Nat
  BY LeaseNumbers, TimeoutType DEF LeaseTypeOK
<1>3. CASE LeaseTick
  BY <1>0, <1>1, <1>2, <1>3
  DEF LeaseTick, LeaseTypeOK, AbortedOnly, Runs, LeaseDue, NoSecondRun, SettlesItsOwn, LeaseSlack
<1>4. CASE Heartbeat
  BY <1>0, <1>1, <1>2, <1>4
  DEF Heartbeat, BeatDue, setting, LeaseTypeOK, AbortedOnly, Runs, LeaseDue, NoSecondRun,
      SettlesItsOwn, LeaseSlack
<1>5. CASE HeartbeatFails
  <2>1. /\ Beating /\ elapsed = nextBeat /\ nextBeat' = elapsed + Interval
        /\ missed' = (IF 2 < missed + 1 THEN 2 ELSE missed + 1)
        /\ UNCHANGED <<elapsed, expiresAt, phase, ignoring, holder>>
    BY <1>5 DEF HeartbeatFails, BeatDue, AtMost
  <2>2. missed' \in 1..2 /\ missed' >= missed /\ (missed' = 1 => missed = 0)
    BY <1>2, <2>1
  <2>3. LeaseTypeOK'
    BY <1>0, <1>2, <2>1, <2>2 DEF LeaseTypeOK
  <2>4. LeaseSlack'
    BY <1>0, <1>1, <1>2, <2>1, <2>2 DEF LeaseSlack
  <2>5. Endured \in 0..1 /\ (LeaseDue' => LeaseDue)
    BY <1>1, <1>2, <2>2 DEF LeaseDue, Endured
  <2> QED
    BY <1>1, <2>1, <2>3, <2>4, <2>5 DEF AbortedOnly, Runs, NoSecondRun, SettlesItsOwn
<1>6. CASE HandlerBeats
  BY <1>0, <1>1, <1>2, <1>6
  DEF HandlerBeats, setting, LeaseTypeOK, AbortedOnly, Runs, LeaseDue, NoSecondRun, SettlesItsOwn,
      LeaseSlack
<1>7. CASE HandlerEnds
  BY <1>0, <1>1, <1>2, <1>7
  DEF HandlerEnds, LeaseTypeOK, AbortedOnly, Runs, LeaseDue, NoSecondRun, SettlesItsOwn, LeaseSlack
<1>8. CASE TimesOut
  BY <1>0, <1>1, <1>2, <1>8
  DEF TimesOut, LeaseTypeOK, AbortedOnly, Runs, LeaseDue, NoSecondRun, SettlesItsOwn, LeaseSlack
<1>9. CASE AbortedEnds
  BY <1>0, <1>1, <1>2, <1>9
  DEF AbortedEnds, LeaseTypeOK, AbortedOnly, Runs, LeaseDue, NoSecondRun, SettlesItsOwn, LeaseSlack
<1>10. CASE Settle
  BY <1>0, <1>1, <1>2, <1>10
  DEF Settle, LeaseTypeOK, AbortedOnly, Runs, LeaseDue, NoSecondRun, SettlesItsOwn, LeaseSlack
<1>11. CASE Reclaim
  <2>1. /\ holder = "first" /\ expiresAt <= elapsed /\ holder' \in {"queue", "none"}
        /\ UNCHANGED <<elapsed, expiresAt, nextBeat, missed, phase, ignoring>>
    BY <1>11 DEF Reclaim
  <2>2. ASSUME LeaseDue, Beating, phase # "ended" PROVE FALSE
    <3>1. missed = 0 \/ (missed = 1 /\ visibilityTimeout > 2 * HeartbeatFloor)
      BY <1>2, <2>2 DEF LeaseDue, Endured
    <3>2. Interval < lease /\ (visibilityTimeout > 2 * HeartbeatFloor => 2 * Interval < lease)
      BY <2>2, IntervalIsShort DEF LeaseDue
    <3> QED BY <1>2, <2>1, <2>2, <3>1, <3>2 DEF LeaseSlack, LeaseDue
  <2>3. ASSUME LeaseDue, ~Beating, phase = "running" PROVE FALSE
    BY <1>2, <2>1, <2>3 DEF LeaseSlack, LeaseDue
  <2>4. LeaseTypeOK' /\ AbortedOnly' /\ LeaseSlack'
    BY <1>0, <1>1, <2>1 DEF LeaseTypeOK, AbortedOnly, LeaseSlack
  <2>5. NoSecondRun' /\ SettlesItsOwn'
    BY <1>1, <2>1, <2>2, <2>3 DEF NoSecondRun, SettlesItsOwn, LeaseDue, Runs
  <2> QED BY <2>4, <2>5
<1>12. CASE Redeliver
  BY <1>0, <1>1, <1>2, <1>12
  DEF Redeliver, LeaseTypeOK, AbortedOnly, Runs, LeaseDue, NoSecondRun, SettlesItsOwn, LeaseSlack
<1>13. CASE UNCHANGED leaseVars
  BY <1>0, <1>1, <1>2, <1>13
  DEF leaseVars, LeaseTypeOK, AbortedOnly, Runs, LeaseDue, NoSecondRun, SettlesItsOwn, LeaseSlack
<1> QED
  BY <1>3, <1>4, <1>5, <1>6, <1>7, <1>8, <1>9, <1>10, <1>11, <1>12, <1>13 DEF DeliveryNext

\* A task does not run beside itself before it is told to stop, if the worker judges the
\* backend's leases rightly: TaskWorker's timeout check, default timeout and heartbeats
\* together (core/src/task.ts) keep the lease for every task length, also when every
\* second heartbeat fails.  With extend(), ack, nack and deadLetter find the lease they
\* settle, whatever the failure hook took and whether or not the handler stopped.
THEOREM LeaseOutlastsRun == DeliverySpec => []LeaseKept
<1>1. LeaseInv => LeaseKept
  BY DEF LeaseInv, LeaseKept
<1> QED BY <1>1, LeaseInit, LeaseInductive, PTL DEF DeliverySpec

-----------------------------------------------------------------------------
(* Sse: the hub holds the open channels, none for longer than the sweep allows. *)

\* close() of any set of channels closes those that were open, once.
LEMMA CloseEachFacts ==
  ASSUME SseTypeOK, HubTruthful, NEW S \in SUBSET SseChannels, CloseEach(S)
  PROVE  /\ stream' \in [SseChannels -> {"none", "open", "closed"}]
         /\ onClosed' \in [SseChannels -> Nat] /\ hub' \subseteq SseChannels
         /\ HubTruthful'
         /\ hub' = hub \ S
<1>1. /\ \A c \in SseChannels : stream'[c] = IF c \in S \cap Open THEN "closed" ELSE stream[c]
      /\ \A c \in SseChannels :
           onClosed'[c] = IF c \in S \cap Open THEN onClosed[c] + 1 ELSE onClosed[c]
      /\ hub' = hub \ (S \cap Open)
  BY DEF CloseEach
<1>2. /\ stream' \in [SseChannels -> {"none", "open", "closed"}]
      /\ onClosed' \in [SseChannels -> Nat]
  BY DEF CloseEach, SseTypeOK
<1>3. hub' = Open'
  BY <1>1 DEF Open, HubTruthful
<1>4. \A c \in SseChannels : onClosed'[c] = IF stream'[c] = "closed" THEN 1 ELSE 0
  BY <1>1 DEF Open, HubTruthful
<1> QED BY <1>1, <1>2, <1>3, <1>4 DEF HubTruthful, SseTypeOK

\* A loop of closes, cut short or not.
LEMMA CloseLoopFacts ==
  ASSUME SseTypeOK, HubTruthful, NEW S \in SUBSET SseChannels, CloseLoop(S)
  PROVE  /\ stream' \in [SseChannels -> {"none", "open", "closed"}]
         /\ onClosed' \in [SseChannels -> Nat] /\ hub' \subseteq hub
         /\ HubTruthful' /\ cutShort' \in BOOLEAN
         /\ ~cutShort' => hub' = hub \ S
<1>1. CASE CloseEach(S) /\ cutShort' = FALSE
  BY <1>1, CloseEachFacts
<1>2. ASSUME NEW done \in SUBSET S, CloseEach(done), cutShort' = TRUE
      PROVE  /\ stream' \in [SseChannels -> {"none", "open", "closed"}]
             /\ onClosed' \in [SseChannels -> Nat] /\ hub' \subseteq hub
             /\ HubTruthful' /\ cutShort' = TRUE
  <2>1. done \in SUBSET SseChannels
    OBVIOUS
  <2> QED BY <1>2, <2>1, CloseEachFacts
<1> QED BY <1>1, <1>2 DEF CloseLoop

LEMMA HubInit == SseInit => HubInv
<1> SUFFICES ASSUME SseInit PROVE HubInv
  OBVIOUS
<1>1. SseTypeOK
  <2>1. SweepEvery \in 0..SweepEvery /\ 0 \in Nat
    BY SseAssumption
  <2> QED BY <2>1 DEF SseInit, SseTypeOK
<1>2. HubTruthful /\ SweepComes
  BY DEF SseInit, HubTruthful, Open, SweepComes
<1> QED BY <1>1, <1>2 DEF HubInv

LEMMA HubStep == HubInv /\ [SseNext]_sseVars => HubInv'
<1> SUFFICES ASSUME HubInv, [SseNext]_sseVars PROVE HubInv'
  OBVIOUS
<1> USE SseAssumption DEF HubInv
<1>1. ASSUME NEW c \in SseChannels, Subscribe(c) PROVE HubInv'
  <2>1. SseTypeOK'
    BY <1>1 DEF Subscribe, SseTypeOK
  <2>2. HubTruthful'
    BY <1>1 DEF Subscribe, SseTypeOK, HubTruthful, Open
  <2>3. SweepComes'
    BY <1>1 DEF Subscribe, SseTypeOK, SweepComes
  <2> QED BY <2>1, <2>2, <2>3
<1>2. ASSUME NEW c \in SseChannels, CloseOne(c) PROVE HubInv'
  <2>1. CloseEach({c}) /\ UNCHANGED <<idle, sweepIn, sweeping, cutShort>>
    BY <1>2 DEF CloseOne
  <2>2. {c} \in SUBSET SseChannels
    OBVIOUS
  <2>3. /\ stream' \in [SseChannels -> {"none", "open", "closed"}]
        /\ onClosed' \in [SseChannels -> Nat] /\ hub' \subseteq SseChannels
        /\ HubTruthful' /\ hub' = hub \ {c}
    BY <2>1, <2>2, CloseEachFacts
  <2> QED BY <2>1, <2>3 DEF SseTypeOK, SweepComes
<1>3. CASE BroadcastEvent
  <2>1. SseTypeOK'
    BY <1>3 DEF BroadcastEvent, SseTypeOK
  <2>2. HubTruthful'
    BY <1>3 DEF BroadcastEvent, HubTruthful, Open
  <2>3. \A c \in hub : idle'[c] <= idle[c] /\ idle[c] \in Nat /\ idle'[c] \in Nat
    BY <1>3 DEF BroadcastEvent, SseTypeOK
  <2>4. SweepComes'
    BY <1>3, <2>3 DEF BroadcastEvent, SseTypeOK, SweepComes
  <2> QED BY <2>1, <2>2, <2>4
<1>4. CASE Sweep
  <2>1. /\ CloseLoop(Overdue) /\ Overdue \in SUBSET SseChannels
        /\ sweepIn' = SweepEvery /\ UNCHANGED <<idle, sweeping>>
    BY <1>4 DEF Sweep, Overdue, SseTypeOK
  <2>2. /\ stream' \in [SseChannels -> {"none", "open", "closed"}]
        /\ onClosed' \in [SseChannels -> Nat] /\ hub' \subseteq hub
        /\ HubTruthful' /\ cutShort' \in BOOLEAN
        /\ ~cutShort' => hub' = hub \ Overdue
    BY <2>1, CloseLoopFacts
  <2>3. \A c \in hub \ Overdue : idle[c] <= MaxIdle /\ idle[c] \in Nat
    BY DEF Overdue, HubTruthful, SseTypeOK
  <2>4. SweepComes'
    BY <2>1, <2>2, <2>3 DEF SweepComes
  <2>5. SseTypeOK'
    BY <2>1, <2>2 DEF SseTypeOK
  <2> QED BY <2>2, <2>4, <2>5
<1>5. CASE CloseAll
  <2>1. CloseLoop(hub) /\ hub \in SUBSET SseChannels /\ sweeping' = FALSE /\ UNCHANGED <<idle, sweepIn>>
    BY <1>5 DEF CloseAll, SseTypeOK
  <2>2. /\ stream' \in [SseChannels -> {"none", "open", "closed"}]
        /\ onClosed' \in [SseChannels -> Nat] /\ hub' \subseteq hub
        /\ HubTruthful' /\ cutShort' \in BOOLEAN
    BY <2>1, CloseLoopFacts
  <2> QED BY <2>1, <2>2 DEF SseTypeOK, SweepComes
<1>6. CASE SseTick
  <2>1. SseTypeOK'
    BY <1>6 DEF SseTick, SseTypeOK
  <2>2. HubTruthful'
    BY <1>6 DEF SseTick, HubTruthful, Open
  <2>3. \A c \in hub : idle'[c] <= idle[c] + 1 /\ idle[c] \in Nat /\ idle'[c] \in Nat
    BY <1>6 DEF SseTick, SseTypeOK
  <2>4. SweepComes'
    BY <1>6, <2>3 DEF SseTick, SseTypeOK, SweepComes
  <2> QED BY <2>1, <2>2, <2>4
<1>7. CASE UNCHANGED sseVars
  BY <1>7 DEF sseVars, SseTypeOK, HubTruthful, Open, SweepComes
<1> QED BY <1>1, <1>2, <1>3, <1>4, <1>5, <1>6, <1>7 DEF SseNext

\* onClose runs once for each channel whoever closes it, the hub counts the open ones, and
\* none outlives maxIdleMs by more than an interval (sse.ts), for any number of channels,
\* any callbacks that throw and any intervals.
THEOREM HubStaysSound == SseSpec => []HubSound
<1>1. HubInv => HubSound
  <2> SUFFICES ASSUME HubInv PROVE HubSound
    OBVIOUS
  <2>1. \A c \in hub : idle[c] \in Nat
    BY DEF HubInv, SseTypeOK
  <2>2. IdleBound
    BY <2>1, SseAssumption DEF HubInv, SseTypeOK, SweepComes, IdleBound
  <2> QED BY <2>2 DEF HubInv, HubSound
<1> QED BY <1>1, HubInit, HubStep, PTL DEF SseSpec

-----------------------------------------------------------------------------
(* QueryMetrics: who has the pool alone is told of its own queries. *)

LEMMA MetricsStarts == MetricsInit => MetricsInv
<1> SUFFICES ASSUME MetricsInit PROVE MetricsInv
  OBVIOUS
<1>1. MetricsTypeOK
  BY DEF MetricsInit, MetricsTypeOK, NoMetrics, NoTiming, Phases
<1>2. Untold /\ AloneOwns /\ ToldGrows /\ AloneExact
  BY DEF MetricsInit, Untold, AloneOwns, ToldGrows, AloneExact
<1> QED BY <1>1, <1>2 DEF MetricsInv

\* A request that moves from one phase to another, without being told anything.
LEMMA MovingOn ==
  ASSUME MetricsInv, NEW u \in Users, NEW next \in Phases,
         requestPhase' = [requestPhase EXCEPT ![u] = next],
         next \in {"new", "arrived"} => u \notin alone,
         next \in {"new", "arrived", "handling"} =>
           requestPhase[u] \in {"new", "arrived", "handling"},
         next \notin {"sent", "done"},
         UNCHANGED <<metrics, running, timing, mine, due, logged, alone>>
  PROVE  MetricsInv'
<1>1. /\ \A w \in Users : w # u => requestPhase'[w] = requestPhase[w]
      /\ requestPhase'[u] = next
  BY DEF MetricsInv, MetricsTypeOK
<1>2. MetricsTypeOK'
  BY DEF MetricsInv, MetricsTypeOK
<1>3. Untold'
  BY <1>1 DEF MetricsInv, Untold
<1>4. AloneOwns' /\ ToldGrows' /\ AloneExact'
  BY <1>1 DEF MetricsInv, AloneOwns, ToldGrows, AloneExact, HeaderFor, MetricsTypeOK
<1> QED BY <1>2, <1>3, <1>4 DEF MetricsInv

LEMMA MetricsStep == MetricsInv /\ [MetricsNext]_metricVars => MetricsInv'
<1> SUFFICES ASSUME MetricsInv, [MetricsNext]_metricVars PROVE MetricsInv'
  OBVIOUS
<1>1. ASSUME NEW u \in Users, RequestArrives(u) PROVE MetricsInv'
  <2>1. requestPhase[u] = "new" /\ u \notin alone
    BY <1>1 DEF RequestArrives, MetricsInv, AloneOwns
  <2> QED BY <1>1, <2>1, MovingOn DEF RequestArrives, Phases
<1>2. ASSUME NEW u \in Users, EarlierHookThrows(u) \/ EarlierHookTimesOut(u) PROVE MetricsInv'
  BY <1>2, MovingOn DEF EarlierHookThrows, EarlierHookTimesOut, Phases
<1>3. ASSUME NEW u \in Users, PassedBy(u) PROVE MetricsInv'
  BY <1>3, MovingOn DEF PassedBy, Phases
<1> USE MetricsAssumption DEF MetricsInv
<1>4. ASSUME NEW u \in Users, OnRequest(u) PROVE MetricsInv'
  <2>1. /\ requestPhase[u] = "arrived" /\ requestPhase' = [requestPhase EXCEPT ![u] = "handling"]
        /\ metrics' = NoMetrics
        /\ mine' = [mine EXCEPT ![u] = NoTiming]
        /\ alone' = (IF PoolFree(u) THEN {u} ELSE {})
        /\ UNCHANGED <<running, issuedQueries, intransaction, timing, due, logged>>
    BY <1>4 DEF OnRequest
  <2>2. MetricsTypeOK'
    BY <2>1 DEF MetricsTypeOK, NoMetrics, NoTiming, Phases
  <2>3. Untold'
    BY <2>1 DEF MetricsTypeOK, Untold
  <2>4. requestPhase'[u] = "handling" /\ mine'[u] = NoTiming /\ timing'[u] = NoHeader
    BY <2>1 DEF MetricsTypeOK, Untold
  <2>5. metrics'.queries = {} /\ metrics'.queryCount = 0 /\ metrics'.dbTime = 0
    BY <2>1 DEF NoMetrics
  <2>6. \A w \in alone' : w = u /\ PoolFree(u)
    BY <2>1
  <2> QED
    BY <2>1, <2>2, <2>3, <2>4, <2>5, <2>6
    DEF AloneOwns, ToldGrows, AloneExact, NoTiming, PoolFree
<1>5. ASSUME NEW u \in Users, LateReset(u) PROVE MetricsInv'
  <2>1. /\ metrics' = NoMetrics /\ alone' = {}
        /\ UNCHANGED <<running, requestPhase, timing, mine, due, logged>>
    BY <1>5 DEF LateReset
  <2> QED
    BY <2>1 DEF MetricsTypeOK, NoMetrics, Untold, AloneOwns, ToldGrows, AloneExact
<1>6. ASSUME NEW u \in Users, NEW kind, StartQuery(u, kind) PROVE MetricsInv'
  <2>1. PICK q : q.of = u /\ running' = running \cup {q}
    <3> DEFINE new == [id |-> issuedQueries + 1, of |-> u, kind |-> kind]
    <3>1. new.of = u /\ running' = running \cup {new}
      BY <1>6 DEF StartQuery
    <3> QED BY <3>1
  <2>2. /\ alone' = alone \cap {u}
        /\ UNCHANGED <<metrics, requestPhase, timing, mine, due, logged>>
    BY <1>6 DEF StartQuery
  <2>3. MetricsTypeOK' /\ Untold'
    BY <2>1, <2>2 DEF MetricsTypeOK, Untold
  <2>4. AloneOwns'
    BY <2>1, <2>2 DEF AloneOwns
  <2>5. ToldGrows' /\ AloneExact'
    BY <2>2 DEF ToldGrows, AloneExact, HeaderFor
  <2> QED BY <2>3, <2>4, <2>5
<1>7. ASSUME NEW q \in running, NEW duration \in Durations, EndQuery(q, duration)
      PROVE  MetricsInv'
  <2>1. PICK r : r.of = q.of /\ metrics'.queries = metrics.queries \cup {r}
    <3> DEFINE new == [id |-> q.id, of |-> q.of, duration |-> duration]
    <3>1. new.of = q.of /\ metrics'.queries = metrics.queries \cup {new}
      BY <1>7 DEF EndQuery
    <3> QED BY <3>1
  <2> DEFINE more == [count |-> mine[q.of].count + 1, dbTime |-> mine[q.of].dbTime + duration]
  <2>2. /\ running' = running \ {q}
        /\ metrics'.dbTime = metrics.dbTime + duration
        /\ metrics'.queryCount = metrics.queryCount + 1
        /\ mine' = [mine EXCEPT ![q.of] = more]
        /\ UNCHANGED <<requestPhase, timing, due, logged, alone>>
    BY <1>7 DEF EndQuery
  <2>3. q.of \in Users /\ duration \in Nat /\ more \in [count : Nat, dbTime : Nat]
    BY DEF MetricsTypeOK
  <2>4. MetricsTypeOK'
    BY <2>2, <2>3 DEF MetricsTypeOK
  <2>5. Untold'
    BY <2>2 DEF Untold
  <2>6. ASSUME NEW u \in alone
        PROVE  mine'[u] = [count |-> metrics'.queryCount, dbTime |-> metrics'.dbTime]
    <3>1. q.of = u /\ u \in Users
      BY DEF AloneOwns, MetricsTypeOK
    <3>2. mine[u] = [count |-> metrics.queryCount, dbTime |-> metrics.dbTime]
      BY DEF AloneOwns
    <3> QED BY <2>2, <2>3, <3>1, <3>2 DEF MetricsTypeOK
  <2>7. AloneOwns'
    BY <2>1, <2>2, <2>6 DEF AloneOwns
  <2>8. ToldGrows' /\ AloneExact'
    BY <2>2 DEF ToldGrows, AloneExact, HeaderFor, MetricsTypeOK
  <2> QED BY <2>4, <2>5, <2>7, <2>8
<1>8. ASSUME NEW q \in running, BeginFails(q) PROVE MetricsInv'
  <2>1. /\ running' = running \ {q}
        /\ UNCHANGED <<metrics, requestPhase, timing, mine, due, logged, alone>>
    BY <1>8 DEF BeginFails
  <2> QED BY <2>1 DEF MetricsTypeOK, Untold, AloneOwns, ToldGrows, AloneExact, HeaderFor
<1>9. ASSUME NEW u \in Users, OnSend(u) PROVE MetricsInv'
  <2> DEFINE header == [count |-> metrics.queryCount, dbTime |-> metrics.dbTime]
  <2>1. /\ requestPhase' = [requestPhase EXCEPT ![u] = "sent"]
        /\ timing' = IF metrics.queryCount = 0 THEN timing ELSE [timing EXCEPT ![u] = header]
        /\ due' = [due EXCEPT ![u] = mine[u]]
        /\ UNCHANGED <<metrics, running, mine, logged, alone>>
    BY <1>9 DEF OnSend
  <2>2. header.count = metrics.queryCount /\ (u \in alone => mine[u] = header)
    BY DEF AloneOwns
  <2> HIDE DEF header
  <2>3. \A w \in Users : w # u => /\ requestPhase'[w] = requestPhase[w] /\ timing'[w] = timing[w]
                                  /\ due'[w] = due[w]
    BY <2>1 DEF MetricsTypeOK
  <2>4. /\ requestPhase'[u] = "sent" /\ due'[u] = mine[u]
        /\ timing'[u] = IF metrics.queryCount = 0 THEN timing[u] ELSE header
    BY <2>1 DEF MetricsTypeOK
  <2>5. MetricsTypeOK'
    BY <2>1 DEF MetricsTypeOK, Phases
  <2>6. Untold'
    BY <2>3, <2>4 DEF Untold
  <2>7. AloneOwns'
    BY <2>1, <2>3, <2>4 DEF AloneOwns, MetricsTypeOK
  <2>8. ToldGrows'
    BY <2>1, <2>3, <2>4 DEF ToldGrows, MetricsTypeOK
  <2>9. u \in alone => timing'[u] = HeaderFor(due[u])'
    BY <2>2, <2>4 DEF ToldGrows, HeaderFor, MetricsTypeOK
  <2>10. AloneExact'
    BY <2>1, <2>3, <2>4, <2>9 DEF AloneExact, HeaderFor, MetricsTypeOK
  <2> QED BY <2>5, <2>6, <2>7, <2>8, <2>10
<1>10. ASSUME NEW u \in Users, OnResponse(u) PROVE MetricsInv'
  <2>1. /\ requestPhase[u] \in {"sent", "answered"}
        /\ requestPhase' = [requestPhase EXCEPT ![u] = "done"]
        /\ logged' = [logged EXCEPT ![u] = {q \in metrics.queries : q.duration \in Slow}]
        /\ UNCHANGED <<metrics, running, timing, mine, due, alone>>
    BY <1>10 DEF OnResponse
  <2>2. \A w \in Users : w # u => requestPhase'[w] = requestPhase[w] /\ logged'[w] = logged[w]
    BY <2>1 DEF MetricsTypeOK
  <2>3. requestPhase'[u] = "done" /\ logged'[u] \subseteq metrics.queries
    BY <2>1 DEF MetricsTypeOK
  <2>4. MetricsTypeOK'
    BY <2>1 DEF MetricsTypeOK, Phases
  <2>5. Untold'
    BY <2>1, <2>2, <2>3 DEF Untold, MetricsTypeOK
  <2>6. AloneOwns' /\ ToldGrows'
    BY <2>1, <2>2, <2>3 DEF AloneOwns, ToldGrows, MetricsTypeOK
  <2>7. AloneExact'
    BY <2>1, <2>2, <2>3 DEF AloneExact, AloneOwns, HeaderFor, MetricsTypeOK
  <2> QED BY <2>4, <2>5, <2>6, <2>7
<1>11. CASE UNCHANGED metricVars
  BY <1>11 DEF metricVars, MetricsTypeOK, Untold, AloneOwns, ToldGrows, AloneExact, HeaderFor
<1> QED
  BY <1>1, <1>2, <1>3, <1>4, <1>5, <1>6, <1>7, <1>8, <1>9, <1>10, <1>11
  DEF MetricsNext, Query, BeginTransaction, EndTransaction

\* A request that has had the pool to itself since its reset is told of exactly the
\* queries that it had ended, and no slow query of another is reported for it
\* (plugins/analytics.ts), for any number of requests and queries, of any duration,
\* whichever are left running or come late, and whatever the other hooks do.
THEOREM AloneIsExact == MetricsSpec => []AloneExact
<1>1. MetricsInv => AloneExact
  BY DEF MetricsInv
<1> QED BY <1>1, MetricsStarts, MetricsStep, PTL DEF MetricsSpec
-----------------------------------------------------------------------------
(* WsBridge: broadcasts over several nodes arrive in order and once, and a node *)
(* listens where it said it does.                                               *)

\* The messages of `piece` follow one another in `whole`.
Piece(piece, whole) ==
  \E d \in Nat : \A i \in DOMAIN piece : i + d \in DOMAIN whole /\ piece[i] = whole[i + d]

\* What is left when the first message has been taken out.
LEMMA TakenOut ==
  ASSUME NEW S, NEW s \in Seq(S), s # <<>>
  PROVE  /\ Tail(s) \in Seq(S) /\ Piece(Tail(s), s)
         /\ 1 \in DOMAIN s /\ Head(s) = s[1] /\ Head(s) \in S
         /\ \A i \in DOMAIN Tail(s) : i \in Nat /\ i + 1 \in DOMAIN s /\ 1 < i + 1 /\ Tail(s)[i] = s[i + 1]
<1>1. /\ Len(s) \in Nat \ {0} /\ DOMAIN s = 1..Len(s)
  BY EmptySeq, LenProperties
<1>2. /\ Head(s) \in S /\ Tail(s) \in Seq(S) /\ Len(Tail(s)) = Len(s) - 1
      /\ \A i \in 1..Len(Tail(s)) : Tail(s)[i] = s[i + 1]
  BY HeadTailProperties
<1>3. DOMAIN Tail(s) = 1..(Len(s) - 1)
  BY <1>2, LenProperties
<1>4. \A i \in DOMAIN Tail(s) : i \in Nat /\ i + 1 \in DOMAIN s /\ 1 < i + 1 /\ Tail(s)[i] = s[i + 1]
  BY <1>1, <1>2, <1>3
<1>5. Piece(Tail(s), s)
  <2>1. \A i \in DOMAIN Tail(s) : i + 1 \in DOMAIN s /\ Tail(s)[i] = s[i + 1]
    BY <1>4
  <2> QED BY <2>1 DEF Piece
<1>6. Head(s) = s[1]
  BY <1>1
<1> QED BY <1>1, <1>2, <1>4, <1>5, <1>6

\* What is left when the last messages are lost.
LEMMA CutShort ==
  ASSUME NEW S, NEW s \in Seq(S), NEW k \in 0..Len(s)
  PROVE  SubSeq(s, 1, k) \in Seq(S) /\ Piece(SubSeq(s, 1, k), s)
<1>1. /\ Len(s) \in Nat /\ DOMAIN s = 1..Len(s) /\ \A i \in 1..k : s[i] \in S
  BY LenProperties, ElementOfSeq
<1>2. /\ SubSeq(s, 1, k) \in Seq(S) /\ Len(SubSeq(s, 1, k)) = k
      /\ \A i \in 1..k : SubSeq(s, 1, k)[i] = s[i]
  <2>1. k \in Int /\ 1 \in Int
    BY <1>1
  <2>2. /\ SubSeq(s, 1, k) \in Seq(S) /\ Len(SubSeq(s, 1, k)) = IF 1 <= k THEN k - 1 + 1 ELSE 0
        /\ \A i \in 1..(k - 1 + 1) : SubSeq(s, 1, k)[i] = s[1 + i - 1]
    BY <1>1, <2>1, SubSeqProperties
  <2> QED BY <1>1, <2>1, <2>2
<1>3. DOMAIN SubSeq(s, 1, k) = 1..k
  BY <1>2, LenProperties
<1>4. \A i \in DOMAIN SubSeq(s, 1, k) : i + 0 \in DOMAIN s /\ SubSeq(s, 1, k)[i] = s[i + 0]
  BY <1>1, <1>2, <1>3
<1> QED BY <1>2, <1>4 DEF Piece

\* A piece is in order, and older or newer, as the whole is.
LEMMA PieceOrder ==
  ASSUME NEW piece \in Seq(BroadcastMessage), NEW whole \in Seq(BroadcastMessage), Piece(piece, whole), SenderOrder(whole)
  PROVE  SenderOrder(piece)
<1>1. PICK d \in Nat : \A i \in DOMAIN piece : i + d \in DOMAIN whole /\ piece[i] = whole[i + d]
  BY DEF Piece
<1>2. DOMAIN piece \subseteq Nat
  BY LenProperties
<1>3. \A i, j \in DOMAIN piece : i < j => i + d < j + d
  BY <1>2
<1> QED BY <1>1, <1>3 DEF SenderOrder

LEMMA PieceNewer ==
  ASSUME NEW piece, NEW whole, NEW other, NEW n, Piece(piece, whole)
  PROVE  /\ Newer(whole, other, n) => Newer(piece, other, n)
         /\ Newer(other, whole, n) => Newer(other, piece, n)
<1>1. PICK d \in Nat : \A i \in DOMAIN piece : i + d \in DOMAIN whole /\ piece[i] = whole[i + d]
  BY DEF Piece
<1> QED BY <1>1 DEF Newer

LEMMA PieceIssued ==
  ASSUME NEW piece \in Seq(BroadcastMessage), NEW whole, Piece(piece, whole), Issued(whole)
  PROVE  Issued(piece)
<1>1. PICK d \in Nat : \A i \in DOMAIN piece : i + d \in DOMAIN whole /\ piece[i] = whole[i + d]
  BY DEF Piece
<1> QED BY <1>1 DEF Issued

\* A message at the end.
LEMMA AtTheEnd ==
  ASSUME NEW S, NEW s \in Seq(S), NEW m \in S
  PROVE  /\ Append(s, m) \in Seq(S) /\ DOMAIN s \subseteq Nat
         /\ \A i \in DOMAIN Append(s, m) : (i \in DOMAIN s /\ Append(s, m)[i] = s[i])
                                           \/ (Append(s, m)[i] = m /\ \A j \in DOMAIN s : j < i)
<1>1. Len(s) \in Nat /\ DOMAIN s = 1..Len(s)
  BY LenProperties
<1>2. /\ Append(s, m) \in Seq(S) /\ Len(Append(s, m)) = Len(s) + 1
      /\ \A i \in 1..Len(s) : Append(s, m)[i] = s[i]
      /\ Append(s, m)[Len(s) + 1] = m
  BY AppendProperties
<1>3. DOMAIN Append(s, m) = 1..(Len(s) + 1)
  BY <1>2, LenProperties
<1> QED BY <1>1, <1>2, <1>3

LEMMA EndOrder ==
  ASSUME NEW s \in Seq(BroadcastMessage), NEW m \in BroadcastMessage, SenderOrder(s),
         \A i \in DOMAIN s : s[i].from = m.from => s[i].number < m.number
  PROVE  SenderOrder(Append(s, m))
<1> DEFINE t == Append(s, m)
<1>1. /\ DOMAIN s \subseteq Nat /\ DOMAIN t \subseteq Nat
      /\ \A i \in DOMAIN t : (i \in DOMAIN s /\ t[i] = s[i]) \/ (t[i] = m /\ \A j \in DOMAIN s : j < i)
      /\ \A i \in DOMAIN t : t[i] = m /\ i \notin DOMAIN s => \A j \in DOMAIN t : j <= i
  <2>1. Len(s) \in Nat /\ DOMAIN s = 1..Len(s)
    BY LenProperties
  <2>2. t \in Seq(BroadcastMessage) /\ Len(t) = Len(s) + 1
    BY AppendProperties
  <2>3. DOMAIN t = 1..(Len(s) + 1)
    BY <2>2, LenProperties
  <2> QED BY <2>1, <2>3, AtTheEnd
<1> HIDE DEF t
<1>2. ASSUME NEW i \in DOMAIN t, NEW j \in DOMAIN t, i < j, t[i].from = t[j].from
      PROVE  t[i].number < t[j].number
  <2>1. i \in DOMAIN s /\ t[i] = s[i]
    BY <1>1, <1>2
  <2> QED BY <1>1, <1>2, <2>1 DEF SenderOrder
<1> QED BY <1>2 DEF SenderOrder, t

LEMMA EndNewer ==
  ASSUME NEW s \in Seq(BroadcastMessage), NEW m \in BroadcastMessage, NEW other, NEW n
  PROVE  /\ Newer(s, other, n) /\ (\A k \in DOMAIN other : m.from = n /\ other[k].from = n => other[k].number < m.number)
            => Newer(Append(s, m), other, n)
         /\ Newer(other, s, n) /\ (\A i \in DOMAIN other : other[i].from = n /\ m.from = n => m.number < other[i].number)
            => Newer(other, Append(s, m), n)
<1>1. \A i \in DOMAIN Append(s, m) : (i \in DOMAIN s /\ Append(s, m)[i] = s[i]) \/ Append(s, m)[i] = m
  BY AtTheEnd
<1> QED BY <1>1 DEF Newer

LEMMA EndIssued ==
  ASSUME NEW s, NEW m \in BroadcastMessage, Issued(s), m.number <= sent
  PROVE  Issued(Append(s, m))
BY AtTheEnd DEF Issued

\* A broadcast reaches a socket of the node that delivers it, of its room, and not the one
\* it excludes; the others are left alone.
LEMMA DeliverFacts ==
  ASSUME AtHome, NEW n \in Nodes, NEW m \in BroadcastMessage
  PROVE  /\ DOMAIN Deliver(n, m) = Sockets
         /\ \A s \in Sockets : Deliver(n, m)[s] = received[s]
              \/ /\ Home[s].node = n /\ m.room \in {Home[s].room, Everywhere} /\ m.exclude # s
                 /\ Deliver(n, m)[s] = Append(received[s], m)
<1>1. ASSUME NEW s \in Audience(n, m.room, m.exclude)
      PROVE  Home[s].node = n /\ m.room \in {Home[s].room, Everywhere} /\ m.exclude # s
  <2>1. PICK r \in DOMAIN connections[n] : s \in connections[n][r] /\ s # m.exclude
                                           /\ (m.room = Everywhere \/ r = m.room)
    BY DEF Audience
  <2>2. s \in SocketsAt(n, r)
    BY <2>1 DEF AtHome
  <2>3. Home[s].node = n /\ Home[s].room = r
    BY <2>2 DEF SocketsAt
  <2> QED BY <2>1, <2>3
<1> QED BY <1>1 DEF Deliver

\* What the parts of the invariant need of every step that delivers `m` at node n: the
\* message is newer than what a socket of the node has of its sender.
LEMMA DeliveredInOrder ==
  ASSUME AtHome, Passed, NEW n \in Nodes, NEW m \in BroadcastMessage, received' = Deliver(n, m),
         sent' \in Nat, sent <= sent', m.number <= sent',
         \A s \in Sockets : Home[s].node = n =>
           \A i \in DOMAIN received[s] : received[s][i].from = m.from => received[s][i].number < m.number
  PROVE  /\ DOMAIN received' = Sockets
         /\ \A s \in Sockets : \/ received'[s] = received[s]
                               \/ Home[s].node = n /\ received'[s] = Append(received[s], m)
         /\ \A s \in Sockets : received'[s] \in Seq(BroadcastMessage)
                               /\ \A i \in DOMAIN received'[s] : received'[s][i].number <= sent'
         /\ InOrderOnce'
<1>1. /\ DOMAIN received' = Sockets
      /\ \A s \in Sockets : \/ received'[s] = received[s]
                            \/ /\ Home[s].node = n /\ m.room \in {Home[s].room, Everywhere} /\ m.exclude # s
                               /\ received'[s] = Append(received[s], m)
  BY DeliverFacts
<1>2. ASSUME NEW s \in Sockets
      PROVE  /\ received'[s] \in Seq(BroadcastMessage)
             /\ \A i \in DOMAIN received'[s] : received'[s][i].number <= sent'
             /\ SenderOrder(received'[s])
             /\ \A i \in DOMAIN received'[s] : /\ received'[s][i].room \in {Home[s].room, Everywhere}
                                               /\ received'[s][i].exclude # s
  <2>1. /\ received[s] \in Seq(BroadcastMessage) /\ SenderOrder(received[s])
        /\ \A i \in DOMAIN received[s] : received[s][i] \in BroadcastMessage /\ received[s][i].number <= sent
        /\ \A i \in DOMAIN received[s] : /\ received[s][i].room \in {Home[s].room, Everywhere}
                                         /\ received[s][i].exclude # s
    BY ElementOfSeq, LenProperties DEF Passed, Arrived, Issued, InOrderOnce
  <2>2. \A i \in DOMAIN received[s] : received[s][i].number <= sent'
    BY <2>1 DEF Passed, BroadcastMessage
  <2>3. CASE received'[s] = received[s]
    BY <2>1, <2>2, <2>3
  <2>4. CASE /\ Home[s].node = n /\ m.room \in {Home[s].room, Everywhere} /\ m.exclude # s
             /\ received'[s] = Append(received[s], m)
    <3>1. SenderOrder(Append(received[s], m))
      BY <2>1, <2>4, EndOrder
    <3>2. /\ Append(received[s], m) \in Seq(BroadcastMessage)
          /\ \A i \in DOMAIN Append(received[s], m) :
               (i \in DOMAIN received[s] /\ Append(received[s], m)[i] = received[s][i]) \/ Append(received[s], m)[i] = m
      BY <2>1, AtTheEnd
    <3> QED BY <2>1, <2>2, <2>4, <3>1, <3>2
  <2> QED BY <1>1, <2>3, <2>4
<1>3. InOrderOnce'
  BY <1>2 DEF InOrderOnce, SenderOrder
<1> QED BY <1>1, <1>2, <1>3

\* A broadcast of node n: the newest message of all, for its own sockets and its outbox.
LEMMA BroadcastPasses ==
  ASSUME BridgeAssumption, AtHome, Passed, NEW n \in Nodes, NEW room \in Channels,
         NEW exclude \in held \cup {NoSocket}, Broadcast(n, room, exclude)
  PROVE  Passed'
<1>0. PICK number \in Nat : number = sent + 1
  BY DEF Passed
<1> DEFINE m == [from |-> n, room |-> room, exclude |-> exclude, number |-> number]
<1>1. m \in BroadcastMessage /\ m.from = n /\ m.number = number
  BY DEF BroadcastMessage, AtHome
<1>2. /\ received' = Deliver(n, m) /\ outbox' = [outbox EXCEPT ![n] = Append(@, m)]
      /\ sent' = number /\ inbox' = inbox
  BY <1>0 DEF Broadcast
<1> HIDE DEF m
<1>3. \A messages : Issued(messages) =>
        \A i \in DOMAIN messages : messages[i] \in BroadcastMessage /\ messages[i].number < number /\ messages[i].number <= number
  <2>1. ASSUME NEW messages, Issued(messages), NEW i \in DOMAIN messages
        PROVE  messages[i] \in BroadcastMessage /\ messages[i].number \in Nat /\ messages[i].number <= sent
    <3>1. messages \in Seq(BroadcastMessage) /\ messages[i].number <= sent
      BY <2>1 DEF Issued
    <3>2. messages[i] \in BroadcastMessage
      BY <3>1, ElementOfSeq, LenProperties
    <3> QED BY <3>1, <3>2 DEF BroadcastMessage
  <2> QED BY <1>0, <2>1 DEF Passed
<1>4. \A s \in Sockets : Issued(received[s])
  BY DEF Passed, Arrived
<1>5. /\ DOMAIN received' = Sockets
      /\ \A s \in Sockets : \/ received'[s] = received[s]
                            \/ Home[s].node = n /\ received'[s] = Append(received[s], m)
      /\ \A s \in Sockets : received'[s] \in Seq(BroadcastMessage)
                            /\ \A i \in DOMAIN received'[s] : received'[s][i].number <= sent'
      /\ InOrderOnce'
  <2>1. sent' \in Nat /\ sent <= sent' /\ m.number <= sent'
    BY <1>0, <1>1, <1>2 DEF Passed
  <2>2. \A s \in Sockets : \A i \in DOMAIN received[s] : received[s][i].number < m.number
    BY <1>1, <1>3, <1>4
  <2> QED BY <1>1, <1>2, <2>1, <2>2, DeliveredInOrder
<1>6. /\ DOMAIN outbox' = Nodes /\ outbox'[n] = Append(outbox[n], m)
      /\ \A w \in Nodes : w # n => outbox'[w] = outbox[w]
  BY <1>2 DEF Passed
<1>7. ASSUME NEW w \in Nodes
      PROVE  /\ outbox'[w] \in Seq(BroadcastMessage) /\ \A i \in DOMAIN outbox'[w] : outbox'[w][i].number <= number
             /\ \A i \in DOMAIN outbox'[w] : outbox'[w][i].from = w
             /\ SenderOrder(outbox'[w])
             /\ \A v \in Nodes : Newer(outbox'[w], inbox[v], w)
             /\ \A s \in Sockets : Home[s].node # w => Newer(outbox'[w], received[s], w)
  <2>1. /\ Issued(outbox[w]) /\ SenderOrder(outbox[w]) /\ \A i \in DOMAIN outbox[w] : outbox[w][i].from = w
        /\ \A v \in Nodes : Newer(outbox[w], inbox[v], w)
        /\ \A s \in Sockets : Home[s].node # w => Newer(outbox[w], received[s], w)
    BY DEF Passed, OnTheWay, Arrived
  <2>2. outbox[w] \in Seq(BroadcastMessage) /\ \A i \in DOMAIN outbox[w] : outbox[w][i].number < number /\ outbox[w][i].number <= number
    BY <1>3, <2>1 DEF Issued
  <2>3. CASE w # n
    BY <1>6, <2>1, <2>2, <2>3
  <2>4. CASE w = n
    <3>1. SenderOrder(Append(outbox[w], m))
      BY <1>1, <2>1, <2>2, EndOrder
    <3>2. /\ Append(outbox[w], m) \in Seq(BroadcastMessage)
          /\ \A i \in DOMAIN Append(outbox[w], m) :
               (i \in DOMAIN outbox[w] /\ Append(outbox[w], m)[i] = outbox[w][i]) \/ Append(outbox[w], m)[i] = m
      BY <1>1, <2>2, AtTheEnd
    <3>3. \A i \in DOMAIN Append(outbox[w], m) : Append(outbox[w], m)[i].number <= number /\ Append(outbox[w], m)[i].from = w
      BY <1>1, <2>1, <2>2, <2>4, <3>2
    <3>4. ASSUME NEW older, Issued(older), Newer(outbox[w], older, w)
          PROVE  Newer(Append(outbox[w], m), older, w)
      <4>1. \A k \in DOMAIN older : older[k].number < m.number
        BY <1>1, <1>3, <3>4
      <4> QED BY <1>1, <2>2, <3>4, <4>1, EndNewer
    <3>5. \A v \in Nodes : Newer(Append(outbox[w], m), inbox[v], w)
      BY <2>1, <3>4 DEF Passed, OnTheWay
    <3>6. \A s \in Sockets : Home[s].node # w => Newer(Append(outbox[w], m), received[s], w)
      BY <1>4, <2>1, <3>4
    <3> QED BY <1>6, <2>4, <3>1, <3>2, <3>3, <3>5, <3>6
  <2> QED BY <2>3, <2>4
<1>8. OnTheWay'
  <2>1. \A w \in Nodes : /\ inbox[w] \in Seq(BroadcastMessage) /\ SenderOrder(inbox[w])
                         /\ \A i \in DOMAIN inbox[w] : inbox[w][i].number <= number
    BY <1>3 DEF Passed, OnTheWay, Issued
  <2>2. ASSUME NEW w \in Nodes
        PROVE  /\ Issued(outbox[w])' /\ (\A i \in DOMAIN outbox[w] : outbox[w][i].from = w)'
               /\ Issued(inbox[w])'
    BY <1>2, <1>7, <2>1 DEF Issued
  <2>3. ASSUME NEW w \in Nodes PROVE SenderOrder(outbox[w])' /\ SenderOrder(inbox[w])'
    BY <1>2, <1>7, <2>1 DEF SenderOrder
  <2>4. ASSUME NEW w \in Nodes, NEW v \in Nodes PROVE Newer(outbox[w], inbox[v], w)'
    BY <1>2, <1>7, <2>1 DEF Newer
  <2> QED BY <2>2, <2>3, <2>4 DEF OnTheWay
<1>9. Arrived'
  <2>1. ASSUME NEW s \in Sockets, NEW w \in Nodes \ {Home[s].node}
        PROVE  Newer(outbox'[w], received'[s], w) /\ Newer(inbox[Home[s].node], received'[s], w)
    <3>1. Newer(outbox'[w], received[s], w) /\ Newer(inbox[Home[s].node], received[s], w)
      BY <1>7 DEF Passed, Arrived
    <3>2. CASE received'[s] = received[s]
      BY <3>1, <3>2
    <3>3. CASE Home[s].node = n /\ received'[s] = Append(received[s], m)
      BY <1>1, <1>4, <3>1, <3>3, EndNewer DEF Issued
    <3> QED BY <1>5, <3>2, <3>3
  <2>2. ASSUME NEW s \in Sockets PROVE Issued(received[s])'
    BY <1>5 DEF Issued
  <2>3. ASSUME NEW s \in Sockets, NEW w \in Nodes \ {Home[s].node}
        PROVE  Newer(outbox[w], received[s], w)' /\ Newer(inbox[Home[s].node], received[s], w)'
    BY <1>2, <2>1 DEF Newer
  <2> QED BY <2>2, <2>3 DEF Arrived
<1> QED BY <1>0, <1>2, <1>5, <1>6, <1>8, <1>9 DEF Passed


\* Typing facts of the messages under way.
LEMMA UnderWay ==
  ASSUME Passed, NEW n \in Nodes
  PROVE  /\ outbox[n] \in Seq(BroadcastMessage) /\ inbox[n] \in Seq(BroadcastMessage)
         /\ \A i \in DOMAIN outbox[n] : outbox[n][i] \in BroadcastMessage /\ outbox[n][i].number <= sent
         /\ \A i \in DOMAIN inbox[n] : inbox[n][i] \in BroadcastMessage /\ inbox[n][i].number <= sent
<1>1. Issued(outbox[n]) /\ Issued(inbox[n])
  BY DEF Passed, OnTheWay
<1> QED BY <1>1, ElementOfSeq, LenProperties DEF Issued

\* A message of another node, taken from the inbox: it is newer than what came before it.
LEMMA HandlePasses ==
  ASSUME BridgeAssumption, AtHome, Passed, NEW n \in Nodes, HandleRedisMessage(n)
  PROVE  Passed'
<1>1. /\ inbox[n] # <<>> /\ inbox' = [inbox EXCEPT ![n] = Tail(@)]
      /\ UNCHANGED <<outbox, sent>>
      /\ received' = IF Head(inbox[n]).from = n THEN received ELSE Deliver(n, Head(inbox[n]))
  BY DEF HandleRedisMessage
<1>2. PICK m : m = Head(inbox[n])
  OBVIOUS
<1>3. /\ inbox[n] \in Seq(BroadcastMessage)
      /\ \A i \in DOMAIN inbox[n] : inbox[n][i].number <= sent
  BY UnderWay
<1>4. /\ Tail(inbox[n]) \in Seq(BroadcastMessage) /\ Piece(Tail(inbox[n]), inbox[n])
      /\ 1 \in DOMAIN inbox[n] /\ m = inbox[n][1] /\ m \in BroadcastMessage /\ m.number <= sent
      /\ \A i \in DOMAIN Tail(inbox[n]) : i + 1 \in DOMAIN inbox[n] /\ 1 < i + 1 /\ Tail(inbox[n])[i] = inbox[n][i + 1]
  BY <1>1, <1>2, <1>3, TakenOut
<1>5. /\ DOMAIN inbox' = Nodes /\ inbox'[n] = Tail(inbox[n]) /\ \A w \in Nodes : w # n => inbox'[w] = inbox[w]
  BY <1>1 DEF Passed
<1>6. /\ DOMAIN received' = Sockets
      /\ \A s \in Sockets : \/ received'[s] = received[s]
                            \/ Home[s].node = n /\ m.from # n /\ received'[s] = Append(received[s], m)
      /\ \A s \in Sockets : received'[s] \in Seq(BroadcastMessage)
                            /\ \A i \in DOMAIN received'[s] : received'[s][i].number <= sent'
      /\ InOrderOnce'
  <2>1. CASE m.from = n
    <3>1. received' = received /\ sent' = sent
      BY <1>1, <1>2, <2>1
    <3> QED BY <3>1 DEF Passed, Arrived, Issued, InOrderOnce, SenderOrder
  <2>2. CASE m.from # n
    <3>1. received' = Deliver(n, m) /\ sent' = sent /\ sent \in Nat /\ sent <= sent
      BY <1>1, <1>2, <2>2 DEF Passed
    <3>2. ASSUME NEW s \in Sockets, Home[s].node = n, NEW i \in DOMAIN received[s], received[s][i].from = m.from
          PROVE  received[s][i].number < m.number
      <4>1. m.from \in Nodes \ {Home[s].node}
        BY <1>4, <2>2, <3>2 DEF BroadcastMessage
      <4>2. Newer(inbox[n], received[s], m.from)
        BY <3>2, <4>1 DEF Passed, Arrived
      <4> QED BY <1>4, <3>2, <4>2 DEF Newer
    <3> QED BY <1>4, <2>2, <3>1, <3>2, DeliveredInOrder
  <2> QED BY <2>1, <2>2
<1>7. ASSUME NEW w \in Nodes, NEW v \in Nodes
      PROVE  /\ Issued(inbox'[w]) /\ SenderOrder(inbox'[w])
             /\ Newer(outbox[v], inbox'[w], v)
             /\ \A s \in Sockets : Home[s].node = w /\ v # w => Newer(inbox'[w], received[s], v)
  <2>1. /\ Issued(inbox[w]) /\ SenderOrder(inbox[w]) /\ Newer(outbox[v], inbox[w], v)
        /\ \A s \in Sockets : Home[s].node = w /\ v # w => Newer(inbox[w], received[s], v)
    BY DEF Passed, OnTheWay, Arrived
  <2>2. CASE w # n
    BY <1>5, <2>1, <2>2
  <2>3. CASE w = n
    <3>1. /\ Issued(Tail(inbox[n])) /\ SenderOrder(Tail(inbox[n]))
          /\ Newer(outbox[v], Tail(inbox[n]), v)
      BY <1>3, <1>4, <2>1, <2>3, PieceOrder, PieceNewer, PieceIssued
    <3>2. \A s \in Sockets : Home[s].node = w /\ v # w => Newer(Tail(inbox[n]), received[s], v)
      BY <1>4, <2>1, <2>3, PieceNewer
    <3> QED BY <1>5, <2>3, <3>1, <3>2
  <2> QED BY <2>2, <2>3
<1>8. OnTheWay'
  <2>1. \A w \in Nodes : /\ Issued(outbox[w]) /\ SenderOrder(outbox[w])
                         /\ \A i \in DOMAIN outbox[w] : outbox[w][i].from = w
    BY DEF Passed, OnTheWay
  <2>2. ASSUME NEW w \in Nodes
        PROVE  /\ Issued(outbox[w])' /\ (\A i \in DOMAIN outbox[w] : outbox[w][i].from = w)'
               /\ Issued(inbox[w])'
    BY <1>1, <1>7, <2>1 DEF Issued
  <2>3. ASSUME NEW w \in Nodes PROVE SenderOrder(outbox[w])' /\ SenderOrder(inbox[w])'
    BY <1>1, <1>7, <2>1 DEF SenderOrder
  <2>4. ASSUME NEW w \in Nodes, NEW v \in Nodes PROVE Newer(outbox[w], inbox[v], w)'
    BY <1>1, <1>7, <2>1 DEF Newer
  <2> QED BY <2>2, <2>3, <2>4 DEF OnTheWay
<1>9. Arrived'
  <2>1. ASSUME NEW s \in Sockets, NEW w \in Nodes \ {Home[s].node}
        PROVE  Newer(outbox[w], received'[s], w) /\ Newer(inbox'[Home[s].node], received'[s], w)
    <3>1. Home[s].node \in Nodes /\ received[s] \in Seq(BroadcastMessage)
      BY DEF BridgeAssumption, Passed, Arrived, Issued
    <3>2. Newer(outbox[w], received[s], w) /\ Newer(inbox'[Home[s].node], received[s], w)
      BY <1>7, <3>1 DEF Passed, Arrived
    <3>3. CASE received'[s] = received[s]
      BY <3>2, <3>3
    <3>4. CASE Home[s].node = n /\ m.from # n /\ received'[s] = Append(received[s], m)
      <4>1. \A i \in DOMAIN outbox[w] : outbox[w][i].from = w /\ m.from = w => m.number < outbox[w][i].number
        <5>1. Newer(outbox[w], inbox[n], w)
          BY DEF Passed, OnTheWay
        <5> QED BY <1>4, <5>1 DEF Newer
      <4>2. \A i \in DOMAIN Tail(inbox[n]) : Tail(inbox[n])[i].from = w /\ m.from = w => m.number < Tail(inbox[n])[i].number
        <5>1. SenderOrder(inbox[n])
          BY DEF Passed, OnTheWay
        <5> QED BY <1>4, <5>1 DEF SenderOrder
      <4>3. Newer(outbox[w], Append(received[s], m), w)
        BY <1>4, <3>1, <3>2, <4>1, EndNewer
      <4>4. Newer(Tail(inbox[n]), Append(received[s], m), w)
        BY <1>4, <1>5, <3>1, <3>2, <3>4, <4>2, EndNewer
      <4> QED BY <1>5, <3>4, <4>3, <4>4
    <3> QED BY <1>6, <3>3, <3>4
  <2>2. ASSUME NEW s \in Sockets PROVE Issued(received[s])'
    BY <1>6 DEF Issued
  <2>3. ASSUME NEW s \in Sockets, NEW w \in Nodes \ {Home[s].node}
        PROVE  Newer(outbox[w], received[s], w)' /\ Newer(inbox[Home[s].node], received[s], w)'
    BY <1>1, <2>1 DEF Newer
  <2> QED BY <2>2, <2>3 DEF Arrived
<1> QED BY <1>1, <1>5, <1>6, <1>8, <1>9 DEF Passed

\* Redis passes a message on: newer than all it passed on of its sender, older than what
\* the sender has left.
LEMMA PublishPasses ==
  ASSUME BridgeAssumption, Passed, NEW n \in Nodes, Publish(n)
  PROVE  Passed'
<1>1. /\ outbox[n] # <<>> /\ outbox' = [outbox EXCEPT ![n] = Tail(@)]
      /\ inbox' = [w \in Nodes |-> IF Head(outbox[n]).room \in subscribed[w]
                                   THEN Append(inbox[w], Head(outbox[n])) ELSE inbox[w]]
      /\ UNCHANGED <<received, sent>>
  BY DEF Publish
<1>2. PICK m : m = Head(outbox[n])
  OBVIOUS
<1>3. /\ outbox[n] \in Seq(BroadcastMessage) /\ SenderOrder(outbox[n])
      /\ \A i \in DOMAIN outbox[n] : outbox[n][i].from = n /\ outbox[n][i].number <= sent
  BY UnderWay DEF Passed, OnTheWay
<1>4. /\ Tail(outbox[n]) \in Seq(BroadcastMessage) /\ Piece(Tail(outbox[n]), outbox[n])
      /\ 1 \in DOMAIN outbox[n] /\ m = outbox[n][1] /\ m \in BroadcastMessage
      /\ \A i \in DOMAIN Tail(outbox[n]) : i + 1 \in DOMAIN outbox[n] /\ 1 < i + 1 /\ Tail(outbox[n])[i] = outbox[n][i + 1]
  BY <1>1, <1>2, <1>3, TakenOut
<1>5. m.from = n /\ m.number <= sent
  BY <1>3, <1>4
<1>6. /\ DOMAIN outbox' = Nodes /\ outbox'[n] = Tail(outbox[n]) /\ \A w \in Nodes : w # n => outbox'[w] = outbox[w]
  BY <1>1 DEF Passed
<1>7. /\ DOMAIN inbox' = Nodes
      /\ \A w \in Nodes : inbox'[w] = inbox[w] \/ inbox'[w] = Append(inbox[w], m)
  BY <1>1, <1>2
<1>8. ASSUME NEW w \in Nodes
      PROVE  /\ Issued(outbox'[w]) /\ SenderOrder(outbox'[w])
             /\ \A i \in DOMAIN outbox'[w] : outbox'[w][i].from = w
             /\ \A v \in Nodes : Newer(outbox'[w], inbox[v], w)
             /\ \A s \in Sockets : Home[s].node # w => Newer(outbox'[w], received[s], w)
  <2>1. /\ Issued(outbox[w]) /\ SenderOrder(outbox[w]) /\ \A i \in DOMAIN outbox[w] : outbox[w][i].from = w
        /\ \A v \in Nodes : Newer(outbox[w], inbox[v], w)
        /\ \A s \in Sockets : Home[s].node # w => Newer(outbox[w], received[s], w)
    BY DEF Passed, OnTheWay, Arrived
  <2>2. CASE w # n
    BY <1>6, <2>1, <2>2
  <2>3. CASE w = n
    <3>1. Issued(Tail(outbox[n])) /\ SenderOrder(Tail(outbox[n]))
      BY <1>3, <1>4, <2>1, <2>3, PieceOrder, PieceIssued
    <3>2. \A i \in DOMAIN Tail(outbox[n]) : Tail(outbox[n])[i].from = w
      BY <1>3, <1>4, <2>3
    <3>3. \A v \in Nodes : Newer(Tail(outbox[n]), inbox[v], w)
      BY <1>4, <2>1, <2>3, PieceNewer
    <3>4. \A s \in Sockets : Home[s].node # w => Newer(Tail(outbox[n]), received[s], w)
      BY <1>4, <2>1, <2>3, PieceNewer
    <3> QED BY <1>6, <2>3, <3>1, <3>2, <3>3, <3>4
  <2> QED BY <2>2, <2>3
<1>9. ASSUME NEW w \in Nodes
      PROVE  /\ Issued(inbox'[w]) /\ SenderOrder(inbox'[w])
             /\ \A v \in Nodes : Newer(outbox'[v], inbox'[w], v)
             /\ \A s \in Sockets, v \in Nodes : Home[s].node = w /\ v # w => Newer(inbox'[w], received[s], v)
  <2>1. /\ Issued(inbox[w]) /\ SenderOrder(inbox[w]) /\ inbox[w] \in Seq(BroadcastMessage)
        /\ \A v \in Nodes : Newer(outbox'[v], inbox[w], v)
        /\ \A s \in Sockets, v \in Nodes : Home[s].node = w /\ v # w => Newer(inbox[w], received[s], v)
    BY <1>8 DEF Passed, OnTheWay, Arrived, Issued
  <2>2. CASE inbox'[w] = inbox[w]
    BY <2>1, <2>2
  <2>3. CASE inbox'[w] = Append(inbox[w], m)
    <3>1. Issued(Append(inbox[w], m))
      BY <1>4, <1>5, <2>1, EndIssued
    <3>2. SenderOrder(Append(inbox[w], m))
      <4>1. Newer(outbox[n], inbox[w], n)
        BY DEF Passed, OnTheWay
      <4>2. \A i \in DOMAIN inbox[w] : inbox[w][i].from = m.from => inbox[w][i].number < m.number
        BY <1>4, <1>5, <4>1 DEF Newer
      <4> QED BY <1>4, <2>1, <4>2, EndOrder
    <3>3. ASSUME NEW v \in Nodes PROVE Newer(outbox'[v], Append(inbox[w], m), v)
      <4>1. \A i \in DOMAIN outbox'[v] : outbox'[v][i].from = v /\ m.from = v => m.number < outbox'[v][i].number
        <5>1. CASE v = n
          <6>1. \A i \in DOMAIN Tail(outbox[n]) : m.number < Tail(outbox[n])[i].number
            BY <1>3, <1>4 DEF SenderOrder
          <6> QED BY <1>6, <5>1, <6>1
        <5> QED BY <1>5, <5>1
      <4> QED BY <1>4, <2>1, <4>1, EndNewer
    <3>4. ASSUME NEW s \in Sockets, NEW v \in Nodes, Home[s].node = w, v # w
          PROVE  Newer(Append(inbox[w], m), received[s], v)
      <4>1. Newer(outbox[v], received[s], v) /\ Newer(inbox[w], received[s], v)
        BY <2>1, <3>4 DEF Passed, Arrived
      <4>2. \A k \in DOMAIN received[s] : m.from = v /\ received[s][k].from = v => received[s][k].number < m.number
        BY <1>4, <1>5, <4>1 DEF Newer
      <4> QED BY <1>4, <2>1, <4>1, <4>2, EndNewer
    <3> QED BY <2>3, <3>1, <3>2, <3>3, <3>4
  <2> QED BY <1>7, <2>2, <2>3
<1>10. OnTheWay'
  <2>1. ASSUME NEW w \in Nodes
        PROVE  /\ Issued(outbox[w])' /\ (\A i \in DOMAIN outbox[w] : outbox[w][i].from = w)'
               /\ Issued(inbox[w])'
    BY <1>1, <1>8, <1>9 DEF Issued
  <2>2. ASSUME NEW w \in Nodes PROVE SenderOrder(outbox[w])' /\ SenderOrder(inbox[w])'
    BY <1>8, <1>9 DEF SenderOrder
  <2>3. ASSUME NEW w \in Nodes, NEW v \in Nodes PROVE Newer(outbox[w], inbox[v], w)'
    BY <1>9 DEF Newer
  <2> QED BY <2>1, <2>2, <2>3 DEF OnTheWay
<1>11. Arrived'
  <2>1. ASSUME NEW s \in Sockets, NEW w \in Nodes \ {Home[s].node}, Home[s].node \in Nodes
        PROVE  Newer(outbox'[w], received[s], w) /\ Newer(inbox'[Home[s].node], received[s], w)
    BY <1>8, <1>9, <2>1
  <2>2. \A s \in Sockets : Issued(received[s])
    BY DEF Passed, Arrived
  <2>3. ASSUME NEW s \in Sockets PROVE Issued(received[s])' /\ Home[s].node \in Nodes
    BY <1>1, <2>2 DEF Issued, BridgeAssumption
  <2>4. ASSUME NEW s \in Sockets, NEW w \in Nodes \ {Home[s].node}
        PROVE  Newer(outbox[w], received[s], w)' /\ Newer(inbox[Home[s].node], received[s], w)'
    BY <1>1, <2>1, <2>3 DEF Newer
  <2> QED BY <2>3, <2>4 DEF Arrived
<1>12. InOrderOnce'
  BY <1>1 DEF Passed, InOrderOnce, SenderOrder
<1> QED BY <1>1, <1>6, <1>7, <1>10, <1>11, <1>12 DEF Passed


\* A lost connection takes the last messages of the inbox with it.
LEMMA LossPasses ==
  ASSUME BridgeAssumption, Passed, NEW n \in Nodes, LoseConnection(n)
  PROVE  Passed'
<1>1. PICK k \in 0..Len(inbox[n]) : inbox' = [inbox EXCEPT ![n] = SubSeq(@, 1, k)]
  BY DEF LoseConnection
<1>2. UNCHANGED <<outbox, received, sent>>
  BY DEF LoseConnection
<1>3. inbox[n] \in Seq(BroadcastMessage)
  BY UnderWay
<1>4. SubSeq(inbox[n], 1, k) \in Seq(BroadcastMessage) /\ Piece(SubSeq(inbox[n], 1, k), inbox[n])
  BY <1>3, CutShort
<1>5. /\ DOMAIN inbox' = Nodes /\ inbox'[n] = SubSeq(inbox[n], 1, k)
      /\ \A w \in Nodes : w # n => inbox'[w] = inbox[w]
  BY <1>1 DEF Passed
<1>6. ASSUME NEW w \in Nodes
      PROVE  /\ Issued(inbox'[w]) /\ SenderOrder(inbox'[w])
             /\ \A v \in Nodes : Newer(outbox[v], inbox'[w], v)
             /\ \A s \in Sockets, v \in Nodes : Home[s].node = w /\ v # w => Newer(inbox'[w], received[s], v)
  <2>1. /\ Issued(inbox[w]) /\ SenderOrder(inbox[w])
        /\ \A v \in Nodes : Newer(outbox[v], inbox[w], v)
        /\ \A s \in Sockets, v \in Nodes : Home[s].node = w /\ v # w => Newer(inbox[w], received[s], v)
    BY DEF Passed, OnTheWay, Arrived
  <2>2. CASE w # n
    BY <1>5, <2>1, <2>2
  <2>3. CASE w = n
    <3>1. Issued(inbox'[w]) /\ SenderOrder(inbox'[w])
      BY <1>3, <1>4, <1>5, <2>1, <2>3, PieceOrder, PieceIssued
    <3>2. PICK piece : piece = SubSeq(inbox[n], 1, k)
      OBVIOUS
    <3>3. Piece(piece, inbox[n]) /\ inbox'[w] = piece
      BY <1>4, <1>5, <2>3, <3>2
    <3>4. \A v \in Nodes : Newer(outbox[v], piece, v)
      BY <2>1, <2>3, <3>3, PieceNewer
    <3>5. \A s \in Sockets, v \in Nodes : Home[s].node = w /\ v # w => Newer(piece, received[s], v)
      BY <2>1, <2>3, <3>3, PieceNewer
    <3> QED BY <3>1, <3>3, <3>4, <3>5
  <2> QED BY <2>2, <2>3
<1>7. OnTheWay'
  <2>1. ASSUME NEW w \in Nodes
        PROVE  /\ Issued(outbox[w])' /\ (\A i \in DOMAIN outbox[w] : outbox[w][i].from = w)'
               /\ Issued(inbox[w])'
    BY <1>2, <1>6 DEF Issued, Passed, OnTheWay
  <2>2. ASSUME NEW w \in Nodes PROVE SenderOrder(outbox[w])' /\ SenderOrder(inbox[w])'
    <3>1. SenderOrder(outbox[w])
      BY DEF Passed, OnTheWay
    <3> QED BY <1>2, <1>6, <3>1 DEF SenderOrder
  <2>3. ASSUME NEW w \in Nodes, NEW v \in Nodes PROVE Newer(outbox[w], inbox[v], w)'
    BY <1>2, <1>6 DEF Newer
  <2> QED BY <2>1, <2>2, <2>3 DEF OnTheWay
<1>8. Arrived'
  <2>1. ASSUME NEW s \in Sockets PROVE Issued(received[s])' /\ Home[s].node \in Nodes
    BY <1>2 DEF Passed, Arrived, Issued, BridgeAssumption
  <2>2. ASSUME NEW s \in Sockets, NEW w \in Nodes \ {Home[s].node}
        PROVE  Newer(outbox[w], received[s], w)' /\ Newer(inbox[Home[s].node], received[s], w)'
    <3>1. Newer(outbox[w], received[s], w)
      BY DEF Passed, Arrived
    <3> QED BY <1>2, <1>6, <2>1, <3>1 DEF Newer
  <2> QED BY <2>1, <2>2 DEF Arrived
<1>9. InOrderOnce'
  BY <1>2 DEF Passed, InOrderOnce, SenderOrder
<1> QED BY <1>2, <1>5, <1>7, <1>8, <1>9 DEF Passed

\* What leaves the messages alone leaves their order alone.
LEMMA PassedStays ==
  ASSUME Passed, UNCHANGED <<outbox, inbox, received, sent>>
  PROVE  Passed'
<1>1. OnTheWay'
  BY DEF Passed, OnTheWay, Issued, SenderOrder, Newer
<1>2. Arrived'
  BY DEF Passed, Arrived, Issued, Newer
<1>3. InOrderOnce'
  BY DEF Passed, InOrderOnce, SenderOrder
<1> QED BY <1>1, <1>2, <1>3 DEF Passed

\* The registry: a socket is only ever entered under its own room at its own node.
LEMMA HomeStays ==
  ASSUME BridgeAssumption, AtHome, BridgeNext
  PROVE  AtHome'
<1>1. ASSUME NEW n \in Nodes, NEW room \in Rooms, Register(n, room) PROVE AtHome'
  <2> DEFINE entry == [r \in DOMAIN connections[n] \cup {room} |-> IF r = room THEN {} ELSE connections[n][r]]
  <2>1. held' = held /\ connections' = [connections EXCEPT ![n] = entry]
    BY <1>1 DEF Register
  <2>2. PICK R \in SUBSET Rooms : connections[n] \in [R -> SUBSET Sockets]
    BY DEF AtHome
  <2>3. /\ entry \in [R \cup {room} -> SUBSET Sockets] /\ DOMAIN entry = R \cup {room}
        /\ \A r \in DOMAIN entry : entry[r] = {} \/ (r \in R /\ entry[r] = connections[n][r])
    BY <2>2
  <2> HIDE DEF entry
  <2>4. connections' \in [Nodes -> UNION {[Q -> SUBSET Sockets] : Q \in SUBSET Rooms}]
    <3>1. entry \in UNION {[Q -> SUBSET Sockets] : Q \in SUBSET Rooms}
      BY <2>3
    <3> QED BY <2>1, <3>1 DEF AtHome
  <2>5. \A w \in Nodes : w # n => connections'[w] = connections[w]
    BY <2>1 DEF AtHome
  <2>6. connections'[n] = entry
    BY <2>1 DEF AtHome
  <2>7. \A r \in DOMAIN entry : entry[r] \subseteq SocketsAt(n, r)
    BY <2>2, <2>3 DEF AtHome
  <2> QED BY <2>1, <2>4, <2>5, <2>6, <2>7 DEF AtHome, SocketsAt
<1>2. ASSUME NEW s \in Sockets, NEW n, NEW room, n = Home[s].node, room = Home[s].room,
             NEW members, room \in DOMAIN connections[n],
             members \subseteq connections[n][room] \cup {s},
             connections' = [connections EXCEPT ![n][room] = members], held' \subseteq held \cup {s}
      PROVE  AtHome'
  <2>0. n \in Nodes /\ room \in Rooms
    BY <1>2 DEF BridgeAssumption
  <2>1. PICK R \in SUBSET Rooms : connections[n] \in [R -> SUBSET Sockets]
    BY <2>0 DEF AtHome
  <2>2. PICK entry : entry = [connections[n] EXCEPT ![room] = members]
    OBVIOUS
  <2>3. /\ entry \in [R -> SUBSET Sockets] /\ entry[room] = members
        /\ \A r \in R : r # room => entry[r] = connections[n][r]
    BY <1>2, <2>1, <2>2
  <2>4. /\ connections' = [connections EXCEPT ![n] = entry]
    BY <1>2, <2>2
  <2>5. connections' \in [Nodes -> UNION {[Q -> SUBSET Sockets] : Q \in SUBSET Rooms}]
    <3>1. entry \in UNION {[Q -> SUBSET Sockets] : Q \in SUBSET Rooms}
      BY <2>3
    <3> QED BY <2>4, <3>1 DEF AtHome
  <2>6. connections'[n] = entry /\ \A w \in Nodes : w # n => connections'[w] = connections[w]
    BY <2>0, <2>4 DEF AtHome
  <2>7. \A r \in R : entry[r] \subseteq SocketsAt(n, r)
    <3>1. Home[s] = [node |-> n, room |-> room]
      BY <1>2 DEF BridgeAssumption
    <3>2. s \in SocketsAt(n, room)
      BY <3>1 DEF SocketsAt
    <3>3. \A r \in R : connections[n][r] \subseteq SocketsAt(n, r)
      BY <2>0, <2>1 DEF AtHome
    <3> QED BY <1>2, <2>1, <2>3, <3>2, <3>3
  <2> QED BY <1>2, <2>3, <2>5, <2>6, <2>7 DEF AtHome, SocketsAt
<1>3. ASSUME NEW s \in Sockets, AddConnection(s) PROVE AtHome'
  <2> PICK n, room : n = Home[s].node /\ room = Home[s].room
    OBVIOUS
  <2>1. /\ room \in DOMAIN connections[n] /\ held' = held \cup {s}
        /\ connections' = [connections EXCEPT ![n][room] = @ \cup {s}]
    BY <1>3 DEF AddConnection
  <2>2. PICK members : members = connections[n][room] \cup {s}
    OBVIOUS
  <2>3. connections' = [connections EXCEPT ![n][room] = members] /\ members \subseteq connections[n][room] \cup {s}
    BY <2>1, <2>2
  <2> QED BY <1>2, <2>1, <2>3
<1>4. ASSUME NEW s \in Sockets, RemoveConnection(s) PROVE AtHome'
  <2> PICK n, room : n = Home[s].node /\ room = Home[s].room
    OBVIOUS
  <2>1. /\ held' = held \ {s}
        /\ connections' = [connections EXCEPT ![n][room] = @ \ {s}]
    BY <1>4 DEF RemoveConnection
  <2>2. CASE room \in DOMAIN connections[n]
    <3>1. PICK members : members = connections[n][room] \ {s}
      OBVIOUS
    <3>2. connections' = [connections EXCEPT ![n][room] = members] /\ members \subseteq connections[n][room] \cup {s}
      BY <2>1, <3>1
    <3> QED BY <1>2, <2>1, <2>2, <3>2
  <2>3. CASE room \notin DOMAIN connections[n]
    <3>1. n \in Nodes
      BY DEF BridgeAssumption
    <3>2. connections' = connections
      BY <2>1, <2>3, <3>1 DEF AtHome
    <3> QED BY <2>1, <3>2 DEF AtHome, SocketsAt
  <2> QED BY <2>2, <2>3
<1>5. ASSUME UNCHANGED <<connections, held>> PROVE AtHome'
  BY <1>5 DEF AtHome, SocketsAt
<1> QED
  BY <1>1, <1>3, <1>4, <1>5
  DEF BridgeNext, SubscribePath, Close, Subscribed, Refused, Unsubscribed, LoseConnection, Reconnect,
      Broadcast, HandleRedisMessage, Publish


\* Every node's own part of the subscriptions.
LEMMA Heard ==
  ASSUME Listening, NEW n \in Nodes
  PROVE  /\ marked[n] \subseteq Channels /\ confirmed[n] \subseteq Channels
         /\ promised[n] \subseteq Channels /\ excused[n] \subseteq Channels
         /\ commands[n] \in Seq([op : {"subscribe", "unsubscribe"}, channels : SUBSET Channels])
         /\ state[n] \in {"open", "closing", "closed"}
BY DEF Listening

\* A step that leaves the other nodes alone: Listening is checked at the node it is of.
LEMMA OneNodeListens ==
  ASSUME Listening, NEW n \in Nodes,
         NEW newMarked \in SUBSET Channels, NEW newConfirmed \in SUBSET Channels,
         NEW newPromised \in SUBSET Channels, NEW newExcused \in SUBSET Channels,
         NEW newCommands \in Seq([op : {"subscribe", "unsubscribe"}, channels : SUBSET Channels]),
         NEW newState \in {"open", "closing", "closed"},
         marked' = [marked EXCEPT ![n] = newMarked], confirmed' = [confirmed EXCEPT ![n] = newConfirmed],
         promised' = [promised EXCEPT ![n] = newPromised], excused' = [excused EXCEPT ![n] = newExcused],
         commands' = [commands EXCEPT ![n] = newCommands], state' = [state EXCEPT ![n] = newState],
         newState = "open" =>
           /\ \A r \in newMarked \ newExcused :
                r \in newConfirmed \/ \E i \in DOMAIN newCommands : r \in newCommands[i].channels
           /\ newPromised \ newExcused \subseteq newConfirmed
  PROVE  Listening'
<1>1. /\ {marked, confirmed, promised, excused}' \subseteq [Nodes -> SUBSET Channels]
      /\ commands' \in [Nodes -> Seq([op : {"subscribe", "unsubscribe"}, channels : SUBSET Channels])]
      /\ state' \in [Nodes -> {"open", "closing", "closed"}]
  <2>1. marked' \in [Nodes -> SUBSET Channels] /\ confirmed' \in [Nodes -> SUBSET Channels]
    BY DEF Listening
  <2>2. promised' \in [Nodes -> SUBSET Channels] /\ excused' \in [Nodes -> SUBSET Channels]
    BY DEF Listening
  <2>3. commands' \in [Nodes -> Seq([op : {"subscribe", "unsubscribe"}, channels : SUBSET Channels])]
    BY DEF Listening
  <2>4. state' \in [Nodes -> {"open", "closing", "closed"}]
    BY DEF Listening
  <2> QED BY <2>1, <2>2, <2>3, <2>4
<1>2. /\ marked'[n] = newMarked /\ confirmed'[n] = newConfirmed /\ promised'[n] = newPromised
      /\ excused'[n] = newExcused /\ commands'[n] = newCommands /\ state'[n] = newState
  BY DEF Listening
<1>3. \A w \in Nodes : w # n => /\ marked'[w] = marked[w] /\ confirmed'[w] = confirmed[w] /\ promised'[w] = promised[w]
                                /\ excused'[w] = excused[w] /\ commands'[w] = commands[w] /\ state'[w] = state[w]
  BY DEF Listening
<1>4. MarkedIsPending'
  <2>1. ASSUME NEW w \in Nodes, state'[w] = "open", NEW r \in marked'[w] \ excused'[w]
        PROVE  r \in confirmed'[w] \/ \E i \in DOMAIN commands'[w] : r \in commands'[w][i].channels
    <3>1. CASE w = n
      BY <1>2, <2>1, <3>1
    <3>2. CASE w # n
      BY <1>3, <2>1, <3>2 DEF Listening, MarkedIsPending
    <3> QED BY <3>1, <3>2
  <2> QED BY <2>1 DEF MarkedIsPending
<1>5. ListeningAsPromised'
  <2>1. ASSUME NEW w \in Nodes, state'[w] = "open" PROVE promised'[w] \ excused'[w] \subseteq confirmed'[w]
    <3>1. CASE w = n
      BY <1>2, <2>1, <3>1
    <3>2. CASE w # n
      BY <1>3, <2>1, <3>2 DEF Listening, ListeningAsPromised
    <3> QED BY <3>1, <3>2
  <2> QED BY <2>1 DEF ListeningAsPromised
<1> QED BY <1>1, <1>4, <1>5 DEF Listening

LEMMA SubscribeListens ==
  ASSUME BridgeAssumption, Listening, NEW n \in Nodes, NEW room \in Rooms, SubscribePath(n, room)
  PROVE  Listening'
<1>0. room \in Channels
  BY DEF Channels
<1>1. UNCHANGED <<confirmed, state>>
  BY DEF SubscribePath
<1>2. confirmed' = [confirmed EXCEPT ![n] = confirmed[n]] /\ state' = [state EXCEPT ![n] = state[n]]
  BY <1>1 DEF Listening
<1>3. CASE /\ room \in marked[n]
           /\ promised' = [promised EXCEPT ![n] = @ \cup {room}]
           /\ excused' = IF \E i \in DOMAIN commands[n] : room \in commands[n][i].channels
                         THEN [excused EXCEPT ![n] = @ \cup {room}] ELSE excused
           /\ UNCHANGED <<marked, commands>>
  <2>1. marked' = [marked EXCEPT ![n] = marked[n]] /\ commands' = [commands EXCEPT ![n] = commands[n]]
    BY <1>3 DEF Listening
  <2>2. PICK newPromised : newPromised = promised[n] \cup {room}
    OBVIOUS
  <2>3. newPromised \in SUBSET Channels /\ promised' = [promised EXCEPT ![n] = newPromised]
    BY <1>0, <1>3, <2>2, Heard
  <2>4. PICK newExcused \in SUBSET Channels :
          /\ excused' = [excused EXCEPT ![n] = newExcused]
          /\ IF \E i \in DOMAIN commands[n] : room \in commands[n][i].channels
             THEN newExcused = excused[n] \cup {room} ELSE newExcused = excused[n]
    <3>1. CASE \E i \in DOMAIN commands[n] : room \in commands[n][i].channels
      BY <1>0, <1>3, <3>1, Heard
    <3>2. CASE ~\E i \in DOMAIN commands[n] : room \in commands[n][i].channels
      <4>1. excused' = [excused EXCEPT ![n] = excused[n]]
        BY <1>3, <3>2 DEF Listening
      <4> QED BY <3>2, <4>1, Heard
    <3> QED BY <3>1, <3>2
  <2>5. ASSUME state[n] = "open"
        PROVE  /\ \A r \in marked[n] \ newExcused :
                    r \in confirmed[n] \/ \E i \in DOMAIN commands[n] : r \in commands[n][i].channels
               /\ newPromised \ newExcused \subseteq confirmed[n]
    <3>1. /\ \A r \in marked[n] \ excused[n] :
               r \in confirmed[n] \/ \E i \in DOMAIN commands[n] : r \in commands[n][i].channels
          /\ promised[n] \ excused[n] \subseteq confirmed[n]
      BY <2>5 DEF Listening, MarkedIsPending, ListeningAsPromised
    <3>2. excused[n] \subseteq newExcused
      BY <2>4
    <3>3. room \in newExcused \/ room \in confirmed[n]
      BY <1>3, <2>4, <3>1
    <3> QED BY <2>2, <3>1, <3>2, <3>3
  <2> QED BY <1>2, <2>1, <2>3, <2>4, <2>5, Heard, OneNodeListens
<1>4. CASE /\ room \notin marked[n]
           /\ marked' = [marked EXCEPT ![n] = @ \cup {room}]
           /\ IF state[n] = "closed"
              THEN excused' = [excused EXCEPT ![n] = @ \cup {room}] /\ UNCHANGED commands
              ELSE /\ commands' = [commands EXCEPT ![n] = Append(@, [op |-> "subscribe", channels |-> {room}])]
                   /\ UNCHANGED excused
           /\ UNCHANGED promised
  <2>1. promised' = [promised EXCEPT ![n] = promised[n]]
    BY <1>4 DEF Listening
  <2>2. PICK newMarked : newMarked = marked[n] \cup {room}
    OBVIOUS
  <2>3. newMarked \in SUBSET Channels /\ marked' = [marked EXCEPT ![n] = newMarked]
    BY <1>0, <1>4, <2>2, Heard
  <2>4. CASE state[n] = "closed"
    <3>1. commands' = [commands EXCEPT ![n] = commands[n]]
      BY <1>4, <2>4 DEF Listening
    <3>2. PICK newExcused : newExcused = excused[n] \cup {room}
      OBVIOUS
    <3>3. newExcused \in SUBSET Channels /\ excused' = [excused EXCEPT ![n] = newExcused]
      BY <1>0, <1>4, <2>4, <3>2, Heard
    <3> QED BY <1>2, <2>1, <2>3, <2>4, <3>1, <3>3, Heard, OneNodeListens
  <2>5. CASE state[n] # "closed"
    <3>1. excused' = [excused EXCEPT ![n] = excused[n]]
      BY <1>4, <2>5 DEF Listening
    <3>2. PICK command : command = [op |-> "subscribe", channels |-> {room}]
      OBVIOUS
    <3>3. command \in [op : {"subscribe", "unsubscribe"}, channels : SUBSET Channels] /\ command.channels = {room}
      BY <1>0, <3>2
    <3>4. PICK newCommands : newCommands = Append(commands[n], command)
      OBVIOUS
    <3>5. commands' = [commands EXCEPT ![n] = newCommands]
      BY <1>4, <2>5, <3>2, <3>4
    <3>6. /\ newCommands \in Seq([op : {"subscribe", "unsubscribe"}, channels : SUBSET Channels])
          /\ \A i \in DOMAIN commands[n] : i \in DOMAIN newCommands /\ newCommands[i] = commands[n][i]
          /\ \E i \in DOMAIN newCommands : newCommands[i] = command
      <4>1. commands[n] \in Seq([op : {"subscribe", "unsubscribe"}, channels : SUBSET Channels])
        BY Heard
      <4>2. /\ newCommands \in Seq([op : {"subscribe", "unsubscribe"}, channels : SUBSET Channels])
            /\ Len(newCommands) = Len(commands[n]) + 1 /\ newCommands[Len(commands[n]) + 1] = command
            /\ \A i \in 1..Len(commands[n]) : newCommands[i] = commands[n][i]
        BY <3>3, <3>4, <4>1, AppendProperties
      <4>3. Len(commands[n]) \in Nat /\ DOMAIN commands[n] = 1..Len(commands[n]) /\ DOMAIN newCommands = 1..Len(newCommands)
        BY <4>1, <4>2, LenProperties
      <4>4. \A i \in DOMAIN commands[n] : i \in DOMAIN newCommands /\ newCommands[i] = commands[n][i]
        BY <4>2, <4>3
      <4>5. Len(commands[n]) + 1 \in DOMAIN newCommands
        BY <4>2, <4>3
      <4> QED BY <4>2, <4>4, <4>5
    <3>7. ASSUME state[n] = "open"
          PROVE  /\ \A r \in newMarked \ excused[n] :
                      r \in confirmed[n] \/ \E i \in DOMAIN newCommands : r \in newCommands[i].channels
                 /\ promised[n] \ excused[n] \subseteq confirmed[n]
      <4>1. /\ \A r \in marked[n] \ excused[n] :
                 r \in confirmed[n] \/ \E i \in DOMAIN commands[n] : r \in commands[n][i].channels
            /\ promised[n] \ excused[n] \subseteq confirmed[n]
        BY <3>7 DEF Listening, MarkedIsPending, ListeningAsPromised
      <4>2. \E i \in DOMAIN newCommands : room \in newCommands[i].channels
        BY <3>3, <3>6
      <4> QED BY <2>2, <3>6, <4>1, <4>2
    <3> QED BY <1>2, <2>1, <2>3, <3>1, <3>5, <3>6, <3>7, Heard, OneNodeListens
  <2> QED BY <2>4, <2>5
<1> QED BY <1>3, <1>4 DEF SubscribePath


\* What is left of the commands when the first has been answered.
LEMMA Answered ==
  ASSUME Listening, NEW n \in Nodes, commands[n] # <<>>
  PROVE  /\ Tail(commands[n]) \in Seq([op : {"subscribe", "unsubscribe"}, channels : SUBSET Channels])
         /\ Pending(n).channels \in SUBSET Channels
         /\ \A r : (\E i \in DOMAIN commands[n] : r \in commands[n][i].channels) =>
              r \in Pending(n).channels \/ \E i \in DOMAIN Tail(commands[n]) : r \in Tail(commands[n])[i].channels
<1>1. commands[n] \in Seq([op : {"subscribe", "unsubscribe"}, channels : SUBSET Channels])
  BY Heard
<1>2. /\ Tail(commands[n]) \in Seq([op : {"subscribe", "unsubscribe"}, channels : SUBSET Channels])
      /\ Pending(n) \in [op : {"subscribe", "unsubscribe"}, channels : SUBSET Channels]
      /\ Pending(n) = commands[n][1]
  BY <1>1, TakenOut DEF Pending
<1>3. /\ Len(commands[n]) \in Nat /\ DOMAIN commands[n] = 1..Len(commands[n])
      /\ Len(Tail(commands[n])) = Len(commands[n]) - 1
      /\ DOMAIN Tail(commands[n]) = 1..Len(Tail(commands[n]))
      /\ \A i \in 1..Len(Tail(commands[n])) : Tail(commands[n])[i] = commands[n][i + 1]
  BY <1>1, <1>2, HeadTailProperties, LenProperties
<1>4. ASSUME NEW r, NEW i \in DOMAIN commands[n], r \in commands[n][i].channels, r \notin Pending(n).channels
      PROVE  \E k \in DOMAIN Tail(commands[n]) : r \in Tail(commands[n])[k].channels
  <2>1. i # 1
    BY <1>2, <1>4
  <2>2. i - 1 \in DOMAIN Tail(commands[n]) /\ Tail(commands[n])[i - 1] = commands[n][i]
    BY <1>3, <1>4, <2>1
  <2> QED BY <1>4, <2>2
<1> QED BY <1>2, <1>4

LEMMA SubscribedListens ==
  ASSUME Listening, NEW n \in Nodes, Subscribed(n)
  PROVE  Listening'
<1>1. PICK channels, left : channels = Pending(n).channels /\ left = Tail(commands[n])
  OBVIOUS
<1>2. /\ left \in Seq([op : {"subscribe", "unsubscribe"}, channels : SUBSET Channels]) /\ channels \in SUBSET Channels
      /\ \A r : (\E i \in DOMAIN commands[n] : r \in commands[n][i].channels) =>
           r \in channels \/ \E i \in DOMAIN left : r \in left[i].channels
  BY <1>1, Answered DEF Subscribed
<1>3. PICK newConfirmed, newPromised, newExcused :
        newConfirmed = confirmed[n] \cup channels /\ newPromised = promised[n] \cup channels
        /\ newExcused = excused[n] \ channels
  OBVIOUS
<1>4. newConfirmed \in SUBSET Channels /\ newPromised \in SUBSET Channels /\ newExcused \in SUBSET Channels
  BY <1>2, <1>3, Heard
<1>5. /\ commands' = [commands EXCEPT ![n] = left] /\ confirmed' = [confirmed EXCEPT ![n] = newConfirmed]
      /\ promised' = [promised EXCEPT ![n] = newPromised] /\ excused' = [excused EXCEPT ![n] = newExcused]
  BY <1>1, <1>3 DEF Subscribed
<1>6. marked' = [marked EXCEPT ![n] = marked[n]] /\ state' = [state EXCEPT ![n] = state[n]]
  BY DEF Subscribed, Listening
<1>7. ASSUME state[n] = "open"
      PROVE  /\ \A r \in marked[n] \ newExcused : r \in newConfirmed \/ \E i \in DOMAIN left : r \in left[i].channels
             /\ newPromised \ newExcused \subseteq newConfirmed
  <2>1. /\ \A r \in marked[n] \ excused[n] :
             r \in confirmed[n] \/ \E i \in DOMAIN commands[n] : r \in commands[n][i].channels
        /\ promised[n] \ excused[n] \subseteq confirmed[n]
    BY <1>7 DEF Listening, MarkedIsPending, ListeningAsPromised
  <2> QED BY <1>2, <1>3, <2>1
<1> QED BY <1>2, <1>4, <1>5, <1>6, <1>7, Heard, OneNodeListens

LEMMA RefusedListens ==
  ASSUME Listening, NEW n \in Nodes, Refused(n)
  PROVE  Listening'
<1>1. PICK channels, left : channels = Pending(n).channels /\ left = Tail(commands[n])
  OBVIOUS
<1>2. /\ left \in Seq([op : {"subscribe", "unsubscribe"}, channels : SUBSET Channels]) /\ channels \in SUBSET Channels
      /\ \A r : (\E i \in DOMAIN commands[n] : r \in commands[n][i].channels) =>
           r \in channels \/ \E i \in DOMAIN left : r \in left[i].channels
  BY <1>1, Answered DEF Refused
<1>3. PICK newExcused : newExcused = excused[n] \cup channels
  OBVIOUS
<1>4. newExcused \in SUBSET Channels
  BY <1>2, <1>3, Heard
<1>5. commands' = [commands EXCEPT ![n] = left] /\ excused' = [excused EXCEPT ![n] = newExcused]
  BY <1>1, <1>3 DEF Refused
<1>6. /\ marked' = [marked EXCEPT ![n] = marked[n]] /\ state' = [state EXCEPT ![n] = state[n]]
      /\ confirmed' = [confirmed EXCEPT ![n] = confirmed[n]] /\ promised' = [promised EXCEPT ![n] = promised[n]]
  BY DEF Refused, Listening
<1>7. ASSUME state[n] = "open"
      PROVE  /\ \A r \in marked[n] \ newExcused : r \in confirmed[n] \/ \E i \in DOMAIN left : r \in left[i].channels
             /\ promised[n] \ newExcused \subseteq confirmed[n]
  <2>1. /\ \A r \in marked[n] \ excused[n] :
             r \in confirmed[n] \/ \E i \in DOMAIN commands[n] : r \in commands[n][i].channels
        /\ promised[n] \ excused[n] \subseteq confirmed[n]
    BY <1>7 DEF Listening, MarkedIsPending, ListeningAsPromised
  <2> QED BY <1>2, <1>3, <2>1
<1> QED BY <1>2, <1>4, <1>5, <1>6, <1>7, Heard, OneNodeListens

\* A closing adapter promises nothing.
LEMMA ClosingListens ==
  ASSUME Listening, NEW n \in Nodes, Close(n) \/ Unsubscribed(n)
  PROVE  Listening'
<1>1. promised' = [promised EXCEPT ![n] = promised[n]] /\ excused' = [excused EXCEPT ![n] = excused[n]]
  BY DEF Close, Unsubscribed, Listening
<1>2. CASE Close(n)
  <2>1. PICK command : command = [op |-> "unsubscribe", channels |-> marked[n]]
    OBVIOUS
  <2>2. PICK newCommands : newCommands = Append(commands[n], command)
    OBVIOUS
  <2>3. command \in [op : {"subscribe", "unsubscribe"}, channels : SUBSET Channels]
    BY <2>1, Heard
  <2>4. newCommands \in Seq([op : {"subscribe", "unsubscribe"}, channels : SUBSET Channels])
    BY <2>2, <2>3, Heard, AppendProperties
  <2>5. commands' = [commands EXCEPT ![n] = newCommands] /\ state' = [state EXCEPT ![n] = "closing"]
    BY <1>2, <2>1, <2>2 DEF Close
  <2>6. marked' = [marked EXCEPT ![n] = marked[n]] /\ confirmed' = [confirmed EXCEPT ![n] = confirmed[n]]
    BY <1>2 DEF Close, Listening
  <2>7. "closing" \in {"open", "closing", "closed"} /\ "closing" # "open"
    OBVIOUS
  <2> QED BY <1>1, <2>4, <2>5, <2>6, <2>7, Heard, OneNodeListens
<1>3. CASE Unsubscribed(n)
  <2>1. /\ commands' = [commands EXCEPT ![n] = <<>>] /\ state' = [state EXCEPT ![n] = "closed"]
        /\ marked' = [marked EXCEPT ![n] = {}] /\ confirmed' = [confirmed EXCEPT ![n] = {}]
    BY <1>3 DEF Unsubscribed
  <2>2. /\ "closed" \in {"open", "closing", "closed"} /\ "closed" # "open" /\ {} \in SUBSET Channels
        /\ <<>> \in Seq([op : {"subscribe", "unsubscribe"}, channels : SUBSET Channels])
    BY EmptySeq
  <2> QED BY <1>1, <2>1, <2>2, Heard, OneNodeListens
<1> QED BY <1>2, <1>3

LEMMA ListeningStays ==
  ASSUME Listening, UNCHANGED <<marked, commands, confirmed, promised, excused, state>>
  PROVE  Listening'
BY DEF Listening, MarkedIsPending, ListeningAsPromised

\* The invariant at the start: nothing has been sent, and what the steady nodes have
\* marked is confirmed.
LEMMA BridgeStarts ==
  ASSUME BridgeAssumption, BridgeInit
  PROVE  BridgeInv
<1>1. AtHome
  <2>1. ASSUME NEW n \in Nodes
        PROVE  connections[n] \in UNION {[R -> SUBSET Sockets] : R \in SUBSET Rooms}
    <3>1. CASE n \in Steady
      <4>1. connections[n] \in [Rooms -> SUBSET Sockets]
        BY <3>1 DEF BridgeInit, SocketsAt
      <4> QED BY <4>1
    <3>2. CASE n \notin Steady
      <4>1. connections[n] = << >>
        BY <3>2 DEF BridgeInit
      <4>2. connections[n] \in [{} -> SUBSET Sockets]
        BY <4>1
      <4> QED BY <4>2
    <3> QED BY <3>1, <3>2
  <2>2. connections \in [Nodes -> UNION {[R -> SUBSET Sockets] : R \in SUBSET Rooms}]
    <3>1. connections = [n \in Nodes |-> connections[n]]
      BY DEF BridgeInit
    <3> QED BY <2>1, <3>1
  <2>3. ASSUME NEW n \in Nodes, NEW r \in DOMAIN connections[n] PROVE connections[n][r] \subseteq SocketsAt(n, r)
    BY <2>3 DEF BridgeInit
  <2> QED BY <2>2, <2>3 DEF AtHome, BridgeInit
<1>2. Passed
  <2>1. /\ \A n \in Nodes : outbox[n] = <<>> /\ inbox[n] = <<>>
        /\ \A s \in Sockets : received[s] = <<>> /\ Home[s].node \in Nodes
    BY DEF BridgeInit, BridgeAssumption
  <2>2. PICK none : none = <<>>
    OBVIOUS
  <2>3. none \in Seq(BroadcastMessage) /\ DOMAIN none = {}
    BY <2>2
  <2>4. Issued(none) /\ SenderOrder(none) /\ \A n \in Nodes : Newer(none, none, n)
    BY <2>3 DEF Issued, SenderOrder, Newer
  <2>5. OnTheWay
    BY <2>1, <2>2, <2>3, <2>4 DEF OnTheWay
  <2>6. Arrived
    BY <2>1, <2>2, <2>3, <2>4 DEF Arrived
  <2>7. InOrderOnce
    BY <2>1, <2>2, <2>3, <2>4 DEF InOrderOnce
  <2> QED BY <2>5, <2>6, <2>7 DEF Passed, BridgeInit
<1>3. Listening
  <2>1. /\ {marked, confirmed, promised, excused} \subseteq [Nodes -> SUBSET Channels]
        /\ state \in [Nodes -> {"open", "closing", "closed"}]
    BY DEF BridgeInit, SteadyOr, Channels
  <2>2. commands \in [Nodes -> Seq([op : {"subscribe", "unsubscribe"}, channels : SUBSET Channels])]
    <3>1. PICK commandSet : commandSet = [op : {"subscribe", "unsubscribe"}, channels : SUBSET Channels]
      OBVIOUS
    <3>2. PICK command : command = [op |-> "subscribe", channels |-> {Everywhere}]
      OBVIOUS
    <3>3. command \in commandSet
      BY <3>1, <3>2 DEF Channels
    <3>4. <<command>> \in Seq(commandSet) /\ <<>> \in Seq(commandSet)
      BY <3>3, EmptySeq
    <3>5. commands = [n \in Nodes |-> IF n \in Steady THEN <<>> ELSE <<command>>]
      BY <3>2 DEF BridgeInit, SteadyOr
    <3>6. commands \in [Nodes -> Seq(commandSet)]
      BY <3>4, <3>5
    <3> QED BY <3>1, <3>6
  <2>3. MarkedIsPending
    <3>1. ASSUME NEW n \in Nodes, NEW r \in marked[n]
          PROVE  r \in confirmed[n] \/ \E i \in DOMAIN commands[n] : r \in commands[n][i].channels
      <4>1. CASE n \in Steady
        BY <3>1, <4>1 DEF BridgeInit, SteadyOr
      <4>2. CASE n \notin Steady
        <5>1. r = Everywhere /\ commands[n] = <<[op |-> "subscribe", channels |-> {Everywhere}]>>
          BY <3>1, <4>2 DEF BridgeInit, SteadyOr
        <5>2. 1 \in DOMAIN commands[n] /\ commands[n][1].channels = {Everywhere}
          BY <5>1
        <5> QED BY <5>1, <5>2
      <4> QED BY <4>1, <4>2
    <3> QED BY <3>1 DEF MarkedIsPending
  <2>4. ListeningAsPromised
    BY DEF ListeningAsPromised, BridgeInit
  <2> QED BY <2>1, <2>2, <2>3, <2>4 DEF Listening
<1> QED BY <1>1, <1>2, <1>3 DEF BridgeInv

LEMMA BridgeStep ==
  ASSUME BridgeAssumption, BridgeInv, [BridgeNext]_bridgeVars
  PROVE  BridgeInv'
<1>0. AtHome /\ Passed /\ Listening
  BY DEF BridgeInv
<1>1. CASE BridgeNext
  <2>1. AtHome'
    BY <1>0, <1>1, HomeStays
  <2>2. ASSUME NEW n \in Nodes, NEW room \in Rooms, Register(n, room) \/ SubscribePath(n, room)
        PROVE  Passed' /\ Listening'
    <3>1. Passed'
      BY <1>0, <2>2, PassedStays DEF Register, SubscribePath
    <3>2. Listening'
      BY <1>0, <2>2, SubscribeListens, ListeningStays DEF Register, subscription
    <3> QED BY <3>1, <3>2
  <2>3. ASSUME NEW n \in Nodes, Close(n) \/ Subscribed(n) \/ Refused(n) \/ Unsubscribed(n) \/ Reconnect(n)
        PROVE  Passed' /\ Listening'
    <3>1. Passed'
      BY <1>0, <2>3, PassedStays DEF Close, Subscribed, Refused, Unsubscribed, Reconnect
    <3>2. Listening'
      BY <1>0, <2>3, ClosingListens, SubscribedListens, RefusedListens, ListeningStays DEF Reconnect
    <3> QED BY <3>1, <3>2
  <2>4. ASSUME NEW n \in Nodes, LoseConnection(n) PROVE Passed' /\ Listening'
    <3>1. Listening'
      BY <1>0, <2>4, ListeningStays DEF LoseConnection
    <3> QED BY <1>0, <2>4, <3>1, LossPasses
  <2>5. ASSUME NEW n \in Nodes, NEW room \in Channels, NEW exclude \in held \cup {NoSocket}, Broadcast(n, room, exclude)
        PROVE  Passed' /\ Listening'
    <3>1. Listening'
      BY <1>0, <2>5, ListeningStays DEF Broadcast, subscription
    <3> QED BY <1>0, <2>5, <3>1, BroadcastPasses
  <2>6. ASSUME NEW n \in Nodes, HandleRedisMessage(n) \/ Publish(n)
        PROVE  Passed' /\ Listening'
    <3>1. Listening'
      BY <1>0, <2>6, ListeningStays DEF HandleRedisMessage, Publish, subscription
    <3> QED BY <1>0, <2>6, <3>1, HandlePasses, PublishPasses
  <2>7. ASSUME NEW s \in Sockets, AddConnection(s) \/ RemoveConnection(s) PROVE Passed' /\ Listening'
    <3>1. Listening'
      BY <1>0, <2>7, ListeningStays DEF AddConnection, RemoveConnection, subscription
    <3>2. Passed'
      BY <1>0, <2>7, PassedStays DEF AddConnection, RemoveConnection
    <3> QED BY <3>1, <3>2
  <2> QED BY <1>1, <2>1, <2>2, <2>3, <2>4, <2>5, <2>6, <2>7 DEF BridgeNext, BridgeInv
<1>2. CASE UNCHANGED bridgeVars
  <2>1. AtHome'
    BY <1>0, <1>2 DEF bridgeVars, AtHome, SocketsAt
  <2> QED BY <1>0, <1>2, <2>1, PassedStays, ListeningStays DEF bridgeVars, BridgeInv
<1> QED BY <1>1, <1>2

\* However commands, messages, refusals and lost connections interleave, a socket gets the
\* broadcasts of a node in order, once, of its own room, and a node listens where
\* subscribePath() said so (ws-redis, websocket.ts): for any nodes, rooms, sockets and
\* number of broadcasts.
THEOREM BridgeIsSound == BridgeSpec => []BridgeSound
<1>1. BridgeInv => BridgeSound
  BY DEF BridgeInv, Passed, Listening, BridgeSound
<1> QED BY <1>1, BridgeAssumption, BridgeStarts, BridgeStep, PTL DEF BridgeSpec
-----------------------------------------------------------------------------
(* Edge router: the cache of resolved routes, and the JWT realms. *)

\* A key more at the end of the queue, and the oldest taken from its front.
LEMMA Queued ==
  ASSUME NEW S, NEW s \in Seq(S), NEW k \in S, IsInjective(s), k \notin Range(s)
  PROVE  /\ Append(s, k) \in Seq(S) /\ Len(Append(s, k)) = Len(s) + 1
         /\ Range(Append(s, k)) = Range(s) \cup {k} /\ IsInjective(Append(s, k))
<1> DEFINE t == Append(s, k)
<1>1. /\ t \in Seq(S) /\ Len(t) = Len(s) + 1 /\ Len(s) \in Nat
      /\ DOMAIN s = 1..Len(s) /\ DOMAIN t = 1..(Len(s) + 1)
      /\ \A i \in 1..Len(s) : t[i] = s[i]
      /\ t[Len(s) + 1] = k
  BY AppendProperties, LenProperties
<1> HIDE DEF t
<1>2. Range(t) = Range(s) \cup {k}
  BY <1>1 DEF Range
<1>3. IsInjective(t)
  BY <1>1 DEF IsInjective, Range
<1> QED BY <1>1, <1>2, <1>3 DEF t

LEMMA Dequeued ==
  ASSUME NEW S, NEW s \in Seq(S), s # <<>>, IsInjective(s)
  PROVE  /\ Tail(s) \in Seq(S) /\ Len(Tail(s)) = Len(s) - 1 /\ Len(s) \in Nat \ {0}
         /\ Range(Tail(s)) \subseteq Range(s) /\ IsInjective(Tail(s))
<1> DEFINE t == Tail(s)
<1>1. /\ t \in Seq(S) /\ Len(t) = Len(s) - 1 /\ Len(s) \in Nat \ {0}
      /\ \A i \in 1..Len(t) : t[i] = s[i + 1]
  BY HeadTailProperties, EmptySeq
<1>2. DOMAIN s = 1..Len(s) /\ DOMAIN t = 1..(Len(s) - 1)
  BY <1>1, LenProperties
<1> HIDE DEF t
<1>3. \A i \in DOMAIN t : i + 1 \in DOMAIN s /\ t[i] = s[i + 1]
  BY <1>1, <1>2
<1>4. Range(t) \subseteq Range(s)
  BY <1>3 DEF Range
<1>5. IsInjective(t)
  <2>1. ASSUME NEW i \in DOMAIN t, NEW j \in DOMAIN t, t[i] = t[j] PROVE i = j
    <3>1. i + 1 = j + 1
      BY <1>3, <2>1 DEF IsInjective
    <3> QED BY <1>1, <1>2, <3>1
  <2> QED BY <2>1 DEF IsInjective
<1> QED BY <1>1, <1>4, <1>5 DEF t

LEMMA EdgeStarts ==
  ASSUME EdgeAssumption, EdgeInit
  PROVE  EdgeInv
<1>1. cacheKeys \in Seq(EdgeMethods \X EdgePaths) /\ Len(cacheKeys) = 0 /\ DOMAIN cacheKeys = {}
  <2>1. cacheKeys = <<>>
    BY DEF EdgeInit
  <2> QED BY <2>1, EmptySeq
<1>2. DOMAIN matchCache = {}
  BY DEF EdgeInit
<1> QED BY <1>1, <1>2 DEF EdgeInit, EdgeInv, EdgeAssumption, CacheInForce, IsInjective, Range

\* A request: the table stays, and what is remembered is what it gives.
LEMMA RouteKeeps ==
  ASSUME EdgeAssumption, EdgeInv, NEW method \in EdgeMethods, NEW path \in EdgePaths, Route(method, path)
  PROVE  EdgeInv'
<1> DEFINE key == <<method, path>>
           entry == MatchRoute(routes, path, method)
<1>1. routes' = routes /\ updating' = updating
  BY DEF Route
<1>2. CASE key \in DOMAIN matchCache \/ MatchThrows(routes, path, method)
  <2>1. UNCHANGED <<matchCache, cacheKeys>>
    BY <1>2 DEF Route
  <2> QED BY <1>1, <2>1 DEF EdgeInv, CacheInForce
<1>3. CASE key \notin DOMAIN matchCache /\ ~MatchThrows(routes, path, method)
  <2>1. PICK kept : kept = IF Len(cacheKeys) >= MaxCacheSize THEN Tail(cacheKeys) ELSE cacheKeys
    OBVIOUS
  <2>2. /\ cacheKeys' = Append(kept, key)
        /\ matchCache' = [k \in Range(kept) \cup {key} |-> IF k = key THEN entry ELSE matchCache[k]]
    BY <1>3, <2>1 DEF Route, Remembered
  <2>3. /\ kept \in Seq(EdgeMethods \X EdgePaths) /\ IsInjective(kept) /\ Range(kept) \subseteq Range(cacheKeys)
        /\ Len(kept) \in Nat /\ Len(kept) + 1 <= MaxCacheSize
    <3>1. cacheKeys \in Seq(EdgeMethods \X EdgePaths) /\ IsInjective(cacheKeys) /\ Len(cacheKeys) <= MaxCacheSize
          /\ Len(cacheKeys) \in Nat /\ MaxCacheSize \in Nat \ {0}
      BY LenProperties DEF EdgeInv, EdgeAssumption
    <3>2. CASE Len(cacheKeys) >= MaxCacheSize
      <4>1. kept = Tail(cacheKeys) /\ cacheKeys # <<>>
        BY <2>1, <3>1, <3>2, EmptySeq
      <4> QED BY <3>1, <3>2, <4>1, Dequeued
    <3>3. CASE ~(Len(cacheKeys) >= MaxCacheSize)
      BY <2>1, <3>1, <3>3
    <3> QED BY <3>2, <3>3
  <2>4. key \in EdgeMethods \X EdgePaths /\ key \notin Range(kept)
    BY <1>3, <2>3 DEF EdgeInv
  <2> HIDE DEF key, entry
  <2>5. /\ cacheKeys' \in Seq(EdgeMethods \X EdgePaths) /\ IsInjective(cacheKeys') /\ Len(cacheKeys') <= MaxCacheSize
        /\ Range(cacheKeys') = Range(kept) \cup {key}
    <3>1. /\ Append(kept, key) \in Seq(EdgeMethods \X EdgePaths) /\ Len(Append(kept, key)) = Len(kept) + 1
          /\ Range(Append(kept, key)) = Range(kept) \cup {key} /\ IsInjective(Append(kept, key))
      BY <2>3, <2>4, Queued
    <3> QED BY <2>2, <2>3, <3>1
  <2>6. /\ DOMAIN matchCache' = Range(cacheKeys') /\ matchCache'[key] = entry
        /\ \A k \in DOMAIN matchCache' : k # key => k \in DOMAIN matchCache /\ matchCache'[k] = matchCache[k]
    BY <2>2, <2>3, <2>5 DEF EdgeInv
  <2>7. CacheInForce'
    <3>1. ASSUME NEW m \in EdgeMethods, NEW p \in EdgePaths, <<m, p>> \in DOMAIN matchCache'
          PROVE  matchCache'[<<m, p>>] = MatchRoute(routes, p, m) /\ ~MatchThrows(routes, p, m)
      <4>1. CASE <<m, p>> = key
        <5>1. m = method /\ p = path
          BY <4>1 DEF key
        <5> QED BY <1>3, <2>6, <4>1, <5>1 DEF entry
      <4>2. CASE <<m, p>> # key
        BY <2>6, <3>1, <4>2 DEF EdgeInv, CacheInForce
      <4> QED BY <4>1, <4>2
    <3> QED BY <1>1, <3>1 DEF CacheInForce
  <2> QED BY <1>1, <2>5, <2>6, <2>7 DEF EdgeInv, IsInjective, Range
<1> QED BY <1>2, <1>3

LEMMA EdgeStep ==
  ASSUME EdgeAssumption, EdgeInv, [EdgeNext]_edgeVars
  PROVE  EdgeInv'
<1>1. ASSUME NEW u \in Updaters, NEW body \in EdgeTables, BeginUpdate(u, body) PROVE EdgeInv'
  BY <1>1 DEF BeginUpdate, EdgeInv, CacheInForce
<1>2. ASSUME NEW u \in Updaters, EndUpdate(u) PROVE EdgeInv'
  <2>1. CASE ValidTable(updating[u][1])
    <3>1. matchCache' = <<>> /\ cacheKeys' = <<>> /\ updating' = [updating EXCEPT ![u] = <<>>]
      BY <1>2, <2>1 DEF EndUpdate
    <3>2. cacheKeys' \in Seq(EdgeMethods \X EdgePaths) /\ Len(cacheKeys') = 0 /\ DOMAIN cacheKeys' = {} /\ DOMAIN matchCache' = {}
      BY <3>1, EmptySeq
    <3> QED BY <3>1, <3>2 DEF EdgeInv, EdgeAssumption, CacheInForce, IsInjective, Range
  <2>2. CASE ~ValidTable(updating[u][1])
    BY <1>2, <2>2 DEF EndUpdate, EdgeInv, CacheInForce
  <2> QED BY <2>1, <2>2
<1>3. ASSUME NEW u \in Updaters, BadUpdate(u) PROVE EdgeInv'
  BY <1>3 DEF BadUpdate, EdgeInv, CacheInForce
<1>4. CASE UNCHANGED edgeVars
  BY <1>4 DEF edgeVars, EdgeInv, CacheInForce
<1> QED BY <1>1, <1>2, <1>3, <1>4, RouteKeeps DEF EdgeNext

\* Whatever was routed, evicted and updated before, a request is sent where the table in
\* force says (edge-router): for any tables, paths, methods and size of the cache.
THEOREM CachingChangesNothing == EdgeSpec => []CacheIsTransparent
<1>1. EdgeInv => CacheIsTransparent
  <2> SUFFICES ASSUME EdgeInv PROVE CacheIsTransparent
    OBVIOUS
  <2>1. ASSUME NEW method \in EdgeMethods, NEW path \in EdgePaths
        PROVE  LET first == MatchRoute(routes, path, method).origin
               IN SentTo(method, path) = IF MatchThrows(routes, path, method) THEN "throws"
                                         ELSE IF first \in Internal THEN "refused" ELSE first
    <3>1. CASE <<method, path>> \in DOMAIN matchCache
      <4>1. /\ matchCache[<<method, path>>] = MatchRoute(routes, path, method)
            /\ ~MatchThrows(routes, path, method)
        BY <3>1 DEF EdgeInv, CacheInForce
      <4> QED BY <3>1, <4>1 DEF SentTo
    <3>2. CASE <<method, path>> \notin DOMAIN matchCache
      BY <3>2 DEF SentTo
    <3> QED BY <3>1, <3>2
  <2> QED BY <2>1 DEF EdgeInv, CacheIsTransparent
<1> QED BY <1>1, EdgeAssumption, EdgeStarts, EdgeStep, PTL DEF EdgeSpec

-----------------------------------------------------------------------------
LEMMA RealmsStart == RealmsInit => RealmsInv
<1> SUFFICES ASSUME RealmsInit PROVE RealmsInv
  OBVIOUS
<1> QED BY FS_EmptySet DEF RealmsInit, RealmsInv, RealmsTypeOK, SignedByItsRealm

LEMMA SignStep ==
  ASSUME RealmsInv, NEW r \in RealmHandles, NEW payload \in Payloads, NEW expiresIn, Sign(r, payload, expiresIn)
  PROVE  RealmsInv'
<1>1. PICK minted : minted = Minted(r, payload, expiresIn)
  OBVIOUS
<1>2. tokens' = tokens \cup {minted} /\ UNCHANGED <<config, realms, clock>>
  BY <1>1 DEF Sign
<1>3. /\ minted.by = r /\ minted.key = config[r].key /\ minted.iat = clock
      /\ minted.own /\ config[r].iss # <<>> => minted.iss = config[r].iss[1]
  BY <1>1 DEF Minted
<1> QED BY <1>2, <1>3 DEF RealmsInv, RealmsTypeOK, SignedByItsRealm

LEMMA RealmsStep ==
  ASSUME RealmsInv, [RealmsNext]_realmVars
  PROVE  RealmsInv'
<1>1. ASSUME NEW r \in RealmHandles, NEW where, NEW prefixed, RegisterRealm(r, where, prefixed) PROVE RealmsInv'
  <2>1. PICK e : e.id = r /\ realms' = realms \cup {e} /\ UNCHANGED <<config, tokens, clock>>
    BY <1>1 DEF RegisterRealm
  <2>2. IsFiniteSet(realms')
    BY <2>1, FS_AddElement DEF RealmsInv, RealmsTypeOK
  <2> QED BY <2>1, <2>2 DEF RealmsInv, RealmsTypeOK, SignedByItsRealm
<1>2. ASSUME NEW payload \in Payloads, NEW expiresIn, AppSign(payload, expiresIn) PROVE RealmsInv'
  <2>1. PICK r \in SoleRealm : Sign(r, payload, expiresIn)
    BY <1>2 DEF AppSign
  <2>2. r \in RealmHandles
    BY DEF SoleRealm, RealmsInv, RealmsTypeOK
  <2> QED BY <2>1, <2>2, SignStep
<1>3. ASSUME RealmTick PROVE RealmsInv'
  BY <1>3 DEF RealmTick, RealmsInv, RealmsTypeOK, SignedByItsRealm
<1>4. CASE UNCHANGED realmVars
  BY <1>4 DEF realmVars, RealmsInv, RealmsTypeOK, SignedByItsRealm
<1> QED BY <1>1, <1>2, <1>3, <1>4, SignStep DEF RealmsNext

\* Whom a guard verifies against is the only realm that covers the route, or the only one
\* of the app.
LEMMA OnlyApplicable ==
  ASSUME RealmsTypeOK, NEW ctx, NEW r \in Applicable(ctx)
  PROVE  /\ \A e \in InScope(ctx) : e.id = r
         /\ InScope(ctx) = {} => \A e \in realms : e.id = r
<1>1. IsFiniteSet(realms) /\ IsFiniteSet(InScope(ctx))
  BY FS_Subset DEF RealmsTypeOK, InScope
<1>2. CASE Cardinality(InScope(ctx)) = 1
  <2>1. PICK e : InScope(ctx) = {e}
    BY <1>1, <1>2, FS_Singleton
  <2> QED BY <1>2, <2>1 DEF Applicable
<1>3. CASE Cardinality(InScope(ctx)) # 1
  <2>1. InScope(ctx) = {} /\ r \in SoleRealm
    BY <1>3 DEF Applicable
  <2>2. Cardinality(realms) = 1
    BY <2>1 DEF SoleRealm
  <2>3. PICK e : realms = {e}
    BY <1>1, <2>2, FS_Singleton
  <2> QED BY <2>1, <2>2, <2>3 DEF SoleRealm
<1> QED BY <1>2, <1>3

\* However many realms an app has and whenever they are registered, a token is good in its
\* own realm and passes no guard of another (jwt): for any options, contexts and tokens.
THEOREM RealmsStayApart == RealmsSpec => []RealmsApart
<1>1. RealmsInv => RealmsApart
  <2> SUFFICES ASSUME RealmsInv, RealmsAssumption PROVE NoCrossover /\ RoundTrip
    BY RealmsAssumption DEF RealmsApart
  <2>1. NoCrossover
    <3>1. ASSUME NEW ctx, NEW t \in tokens, NEW r \in Applicable(ctx), VerifyWithConfig(config[r], t)
          PROVE  /\ \A e \in InScope(ctx) : config[e.id].key = t.key
                 /\ InScope(ctx) = {} => \A e \in realms : config[e.id].key = t.key
      BY <3>1, OnlyApplicable DEF RealmsInv, VerifyWithConfig
    <3> QED BY <3>1 DEF NoCrossover, Passes
  <2>2. RoundTrip
    <3>1. ASSUME NEW t \in tokens, NEW o, o = config[t.by],
                 t.own, o.sub # NoClaim => t.sub = o.sub, t.exp = Forever => ~o.requireExp,
                 t.exp # Forever => clock < t.exp, o.maxAge # Forever => clock <= t.iat + o.maxAge
          PROVE  VerifyWithConfig(o, t)
      <4>1. /\ o \in RealmOptions /\ t.key = o.key /\ t.iat \in Nat /\ clock \in Nat
            /\ o.iss # <<>> => t.iss = o.iss[1] /\ 1 \in DOMAIN o.iss
            /\ o.maxAge \in Int
        BY <3>1 DEF RealmsInv, RealmsTypeOK, SignedByItsRealm, RealmsAssumption
      <4>2. o.iss # <<>> => \E i \in DOMAIN o.iss : o.iss[i] = t.iss
        BY <4>1
      <4>3. o.maxAge # Forever => clock - t.iat <= o.maxAge
        BY <3>1, <4>1
      <4>4. /\ t.exp # Forever => t.exp > clock
            /\ o.requireExp => t.exp # Forever
        BY <3>1
      <4> QED BY <3>1, <4>1, <4>2, <4>3, <4>4 DEF VerifyWithConfig
    <3> QED BY <3>1 DEF RoundTrip
  <2> QED BY <2>1, <2>2
<1> QED BY <1>1, RealmsStart, RealmsStep, PTL DEF RealmsSpec
=============================================================================
