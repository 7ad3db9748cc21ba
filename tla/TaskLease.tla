------------------------------- MODULE TaskLease -------------------------------
(***************************************************************************)
(* One delivery of a task in real time: the lease pop() grants, the        *)
(* heartbeats that extend it or fail to, the timeout that aborts the       *)
(* handler, which may go on nevertheless, and the settling call, as class  *)
(* TaskWorker of core/src/task.ts computes them, against any other worker  *)
(* polling the same queue.                                                 *)
(*                                                                         *)
(* Timers fire on time: the handler yields to the event loop, as           *)
(* longRunning asks of it, and a call of the backend takes effect within   *)
(* the tick it is made in.  A clock tick is any unit of milliseconds.      *)
(***************************************************************************)
EXTENDS Naturals

CONSTANTS HeartbeatFloor,    \* the 250 (ms) of startHeartbeat
          DefaultTimeout,    \* DEFAULT_TASK_TIMEOUT
          DefaultVisibility, \* DEFAULT_VISIBILITY_TIMEOUT
          Leases,            \* the lengths of lease a backend may grant
          Timeouts,          \* the timeouts a task may be registered with
          MaxTime            \* bound: how long the clock runs

ASSUME LeaseAssumption ==
  /\ HeartbeatFloor \in Nat \ {0}
  /\ DefaultTimeout \in Nat \ {0}
  /\ DefaultVisibility \in Nat \ {0}
  /\ Leases \subseteq Nat \ {0}
  /\ Timeouts \subseteq Nat \ {0}
  /\ MaxTime \in Nat

VARIABLES lease,         \* what pop() and extend() of the backend grant
          declared,      \* its visibilityTimeoutMs
          canHeartbeat,  \* does it implement extend()?
          tokened,       \* do its messages have a leaseToken?
          timeout,       \* of the task's definition
          elapsed,       \* Date.now(), 0 when the job was popped
          expiresAt,     \* of the lease
          nextBeat,      \* when the heartbeat interval fires next
          missed,        \* history: heartbeats in a row that did not extend the lease
          phase,         \* of processMessage
          ignoring,      \* does the handler go on although its signal is aborted?
          holder         \* who has the job: this delivery, a later one, the queue, nobody

setting == <<lease, declared, canHeartbeat, tokened, timeout>>
leaseVars == <<setting, elapsed, expiresAt, nextBeat, missed, phase, ignoring, holder>>

AtLeast(a, b) == IF a > b THEN a ELSE b
AtMost(a, b) == IF a < b THEN a ELSE b

Unset == 0   \* undefined

\* Mutated form: a long-running task is accepted without extend().
AssertUnlessLongRunning(longRunning) ==
  declared = Unset \/ timeout = Unset \/ timeout < declared \/ longRunning

\* A backend that does not say how long its leases are has every timeout accepted.
AssertTimeoutIsSafe(longRunning) ==
  declared = Unset \/ timeout = Unset \/ timeout < declared \/ (longRunning /\ canHeartbeat)

\* What the worker takes the lease for.
visibilityTimeout == IF declared = Unset THEN DefaultVisibility ELSE declared

ResolveTimeout ==
  IF timeout # Unset THEN timeout
  ELSE AtLeast(1, AtMost(DefaultTimeout, (visibilityTimeout * 8) \div 10))

Interval == AtLeast(HeartbeatFloor, visibilityTimeout \div 3)

\* Without a token no interval is started.
Beating == canHeartbeat /\ tokened

LeaseTypeOK ==
  /\ lease \in Leases /\ declared \in {lease, Unset}
  /\ canHeartbeat \in BOOLEAN /\ tokened \in BOOLEAN
  /\ timeout \in Timeouts \cup {Unset}
  /\ elapsed \in 0..MaxTime
  /\ expiresAt \in Nat /\ nextBeat \in Nat /\ missed \in 0..2
  /\ phase \in {"running", "acking", "failing", "ended"}
  /\ ignoring \in BOOLEAN
  /\ holder \in {"first", "other", "queue", "none"}

\* The job has just been popped and its handler called.
DeliveryInit ==
  /\ lease \in Leases /\ declared \in {lease, Unset}
  /\ canHeartbeat \in BOOLEAN /\ tokened \in BOOLEAN
  /\ timeout \in Timeouts \cup {Unset}
  /\ \E longRunning \in BOOLEAN : AssertTimeoutIsSafe(longRunning)
  /\ elapsed = 0
  /\ expiresAt = lease
  /\ nextBeat = Interval /\ missed = 0
  /\ phase = "running" /\ ignoring = FALSE
  /\ holder = "first"

\* Nothing is due: a timer of a delivery that is still processed fires first.
LeaseTick ==
  /\ elapsed < MaxTime
  /\ phase = "running" => elapsed < ResolveTimeout
  /\ Beating /\ phase # "ended" => elapsed < nextBeat
  /\ elapsed' = elapsed + 1
  /\ UNCHANGED <<setting, expiresAt, nextBeat, missed, phase, ignoring, holder>>

BeatDue == Beating /\ phase # "ended" /\ elapsed = nextBeat /\ nextBeat' = elapsed + Interval

\* extend() finds the lease.
Heartbeat ==
  /\ BeatDue /\ holder = "first"
  /\ expiresAt' = elapsed + lease /\ missed' = 0
  /\ UNCHANGED <<setting, elapsed, phase, ignoring, holder>>

\* It answers false, the lease being another's, or it rejects; the worker logs either and
\* beats on.
HeartbeatFails ==
  /\ BeatDue /\ missed' = AtMost(2, missed + 1)
  /\ UNCHANGED <<setting, elapsed, expiresAt, phase, ignoring, holder>>

\* The handler's own ctx.heartbeat(), for as long as pop() grants.
HandlerBeats ==
  /\ Beating /\ (phase = "running" \/ ignoring) /\ holder = "first"
  /\ expiresAt' = elapsed + lease
  /\ UNCHANGED <<setting, elapsed, nextBeat, missed, phase, ignoring, holder>>

\* The handler ends in time; it throws, or the job is done.
HandlerEnds ==
  /\ phase = "running" /\ phase' \in {"acking", "failing"}
  /\ UNCHANGED <<setting, elapsed, expiresAt, nextBeat, missed, ignoring, holder>>

\* The timeout aborts and rejects, which ends the wait but not the handler; the onFailure
\* hook may take its time.
TimesOut ==
  /\ phase = "running" /\ elapsed >= ResolveTimeout /\ phase' = "failing" /\ ignoring' = TRUE
  /\ UNCHANGED <<setting, elapsed, expiresAt, nextBeat, missed, holder>>

\* The handler has seen the abort, or comes to its end; nobody waits for it.
AbortedEnds ==
  /\ ignoring /\ ignoring' = FALSE
  /\ UNCHANGED <<setting, elapsed, expiresAt, nextBeat, missed, phase, holder>>

\* ack, nack or deadLetter finds the entry by its token, or whoever's it is without one;
\* or it is rejected.  The interval is cleared.
Settle ==
  /\ phase \in {"acking", "failing"} /\ phase' = "ended"
  /\ \/ holder' = holder
     \/ /\ holder = "first" \/ (~tokened /\ holder = "other")
        /\ holder' \in IF phase = "acking" THEN {"none"} ELSE {"queue", "none"}
  /\ UNCHANGED <<setting, elapsed, expiresAt, nextBeat, missed, ignoring>>

\* A pop() of any worker reclaims the expired lease: the job is queued again, or dead.
Reclaim ==
  /\ holder = "first" /\ expiresAt <= elapsed
  /\ holder' \in {"queue", "none"}
  /\ UNCHANGED <<setting, elapsed, expiresAt, nextBeat, missed, phase, ignoring>>

\* The job is handed out again.
Redeliver ==
  /\ holder = "queue" /\ holder' = "other"
  /\ UNCHANGED <<setting, elapsed, expiresAt, nextBeat, missed, phase, ignoring>>

DeliveryNext ==
  \/ LeaseTick \/ Heartbeat \/ HeartbeatFails \/ HandlerBeats \/ HandlerEnds \/ TimesOut
  \/ AbortedEnds \/ Settle \/ Reclaim \/ Redeliver

DeliverySpec == DeliveryInit /\ [][DeliveryNext]_leaseVars
-----------------------------------------------------------------------------
\* A backend the worker judges rightly: its leases are above the heartbeat's floor and no
\* shorter than the worker takes them for, and it hands out tokens if it can extend.
Dependable ==
  /\ visibilityTimeout > HeartbeatFloor /\ visibilityTimeout <= lease
  /\ canHeartbeat => tokened

\* Without heartbeats it has to say how long they are, or the task's timeout is the default.
Checked == canHeartbeat \/ declared # Unset \/ timeout = Unset

\* How many heartbeats in a row may fail: one, if two intervals fit in a lease.
Endured == IF visibilityTimeout > 2 * HeartbeatFloor THEN 1 ELSE 0

LeaseDue == Dependable /\ Checked /\ missed <= Endured

\* A handler runs while it is waited for and, if it ignores its abort, on.
Runs == phase = "running" \/ ignoring

\* A task runs beside itself, or is about to, only if its handler was aborted and goes on:
\* as long as it has not been told to stop nobody else gets the job, however long it takes.
NoSecondRun == LeaseDue /\ Runs /\ ~ignoring => holder = "first"

\* And one that goes on has no rival until its failure has been handled and settled, if the
\* lease is extended meanwhile; the settling call still finds it.
SettlesItsOwn == LeaseDue /\ Beating /\ phase # "ended" => holder = "first"

\* What the lease is for.
LeaseKept == NoSecondRun /\ SettlesItsOwn

\* The heartbeat always comes before the lease it extends runs out, the one after a failed
\* one too; without heartbeats the timeout does.
LeaseSlack ==
  Dependable /\ Checked /\ phase # "ended" /\ holder = "first" =>
    IF Beating
    THEN /\ elapsed <= nextBeat /\ nextBeat <= elapsed + Interval
         /\ missed = 0 => nextBeat + lease <= expiresAt + Interval
         /\ missed = 1 => nextBeat + lease <= expiresAt + 2 * Interval
    ELSE phase = "running" => elapsed <= ResolveTimeout /\ ResolveTimeout < expiresAt

\* Only the timeout leaves a handler running, and it ends the wait.
AbortedOnly == ignoring => phase # "running"

LeaseInv == LeaseTypeOK /\ AbortedOnly /\ NoSecondRun /\ SettlesItsOwn /\ LeaseSlack

=============================================================================
