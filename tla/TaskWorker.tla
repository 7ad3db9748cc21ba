------------------------------ MODULE TaskWorker ------------------------------
(***************************************************************************)
(* class TaskWorker of core/src/task.ts draining a queue that behaves as   *)
(* MemoryQueue and whose calls may also reject (a durable backend that is  *)
(* temporarily unavailable).                                               *)
(*                                                                         *)
(* JavaScript runs to completion between awaits, so an action is the code  *)
(* from one await to the next.  The awaits modelled are those of the poll  *)
(* loop (`await this.queue.pop()`, the poll timer) and of processMessage   *)
(* (the handler, the onFailure hook, the settling call).  Every start()    *)
(* begins a poll loop of its own: a chain of tick() and timer that ends    *)
(* when a tick finds `running` false.                                      *)
(***************************************************************************)
EXTENDS MemoryQueue

CONSTANTS Concurrency,   \* options.concurrency
          Unregistered,  \* jobs whose task name has no definition
          MaxStarts,     \* bound: calls of start()
          MaxFaults      \* bound: backend calls that reject

ASSUME WorkerAssumption ==
  /\ Concurrency \in Nat \ {0}
  /\ Unregistered \subseteq Jobs
  /\ MaxStarts \in Nat
  /\ MaxFaults \in Nat

VARIABLES running,     \* this.running
          pollTimer,   \* the loop whose timer this.pollTimer holds, or 0
          activeJobs,  \* this.activeJobs
          loop,        \* loop[l]: where poll loop l is
          popped,      \* popped[l]: what its pending pop() answers
          phase,       \* phase[k]: where processMessage is for the delivery
                       \* with lease token k
          stopping,    \* the last stop(): pending, or how it returned
          starts,      \* history: calls of start()
          faults       \* history: backend calls that rejected

wvars == <<running, pollTimer, activeJobs, loop, popped, phase, stopping, starts, faults>>
allvars == <<qvars, wvars>>

Loops == 1..MaxStarts
Leases == 1..MaxLeases

\* Answers of pop() other than a lease token: null, and a rejection.
Nothing == 0
Rejected == MaxLeases + 1

DeliveryOf(k) == CHOOSE d \in deliveries : d.lease = k
Processing(k) == phase[k] \in {"handling", "failed", "settling"}

Busy == {k \in Leases : Processing(k)}

WorkerTypeOK ==
  /\ running \in BOOLEAN
  /\ pollTimer \in Loops \cup {0}
  /\ activeJobs \in Nat
  /\ loop \in [Loops -> {"ended", "popping", "sleeping"}]
  /\ popped \in [Loops -> 0..(MaxLeases + 1)]
  /\ phase \in [Leases -> {"none", "handling", "failed", "settling", "done"}]
  /\ stopping \in {"none", "waiting", "drained", "abandoned"}
  /\ starts \in 0..MaxStarts
  /\ faults \in 0..MaxFaults

WorkerInit ==
  /\ Init
  /\ running = FALSE /\ pollTimer = 0 /\ activeJobs = 0
  /\ loop = [l \in Loops |-> "ended"]
  /\ popped = [l \in Loops |-> Nothing]
  /\ phase = [k \in Leases |-> "none"]
  /\ stopping = "none" /\ starts = 0 /\ faults = 0
-----------------------------------------------------------------------------
\* A backend call that rejects has no effect here.
Reject == faults < MaxFaults /\ faults' = faults + 1 /\ UNCHANGED qvars

\* Call pop() from loop l; its answer is seen at the await.
CallPop(l) ==
  /\ loop' = [loop EXCEPT ![l] = "popping"]
  /\ \/ Pop /\ popped' = [popped EXCEPT ![l] = IF leases' > leases THEN leases' ELSE Nothing]
            /\ UNCHANGED faults
     \/ Reject /\ popped' = [popped EXCEPT ![l] = Rejected]
  /\ UNCHANGED pollTimer

\* Mutated form: a rejected pop() leaves the tick without arming the next one.
EndTickUnlessRejected(l, up) ==
  /\ loop' = [loop EXCEPT ![l] = IF up /\ popped[l] # Rejected THEN "sleeping" ELSE "ended"]
  /\ pollTimer' = IF up THEN l ELSE pollTimer
  /\ popped' = [popped EXCEPT ![l] = Nothing]
  /\ UNCHANGED <<qvars, faults>>

\* The end of a tick: arm the next one, unless the worker was stopped.
EndTick(l, up) ==
  /\ loop' = [loop EXCEPT ![l] = IF up THEN "sleeping" ELSE "ended"]
  /\ pollTimer' = IF up THEN l ELSE pollTimer
  /\ popped' = [popped EXCEPT ![l] = Nothing]
  /\ UNCHANGED <<qvars, faults>>

\* The test of the while loop, with `active` jobs and running = up.
Iterate(l, active, up) ==
  \/ up /\ active < Concurrency /\ CallPop(l)
  \/ ~(up /\ active < Concurrency) /\ EndTick(l, up)

Start ==
  /\ ~running /\ starts < MaxStarts
  /\ running' = TRUE
  /\ starts' = starts + 1
  /\ Iterate(starts + 1, activeJobs, TRUE)
  /\ stopping' = IF stopping = "waiting" THEN stopping ELSE "none"
  /\ UNCHANGED <<activeJobs, phase>>

TimerFires(l) ==
  /\ loop[l] = "sleeping"
  /\ \/ running /\ Iterate(l, activeJobs, running)
     \/ /\ ~running
        /\ loop' = [loop EXCEPT ![l] = "ended"]
        /\ UNCHANGED <<qvars, pollTimer, popped, faults>>
  /\ UNCHANGED <<running, activeJobs, phase, stopping, starts>>

\* Mutated form: looks at `running` again and drops the message.
PopAnswersUnlessStopped(l) ==
  /\ loop[l] = "popping"
  /\ IF popped[l] \in Leases /\ running
     THEN /\ activeJobs' = activeJobs + 1
          /\ phase' = [phase EXCEPT ![popped[l]] = "handling"]
          /\ Iterate(l, activeJobs + 1, running)
     ELSE EndTick(l, running) /\ UNCHANGED <<activeJobs, phase>>
  /\ UNCHANGED <<running, stopping, starts>>

\* pop() answers: a rejection or null ends the tick; a message is processed
\* whatever `running` is by now.
PopAnswers(l) ==
  /\ loop[l] = "popping"
  /\ IF popped[l] \in Leases
     THEN /\ activeJobs' = activeJobs + 1
          /\ phase' = [phase EXCEPT ![popped[l]] = "handling"]
          /\ Iterate(l, activeJobs + 1, running)
     ELSE EndTick(l, running) /\ UNCHANGED <<activeJobs, phase>>
  /\ UNCHANGED <<running, stopping, starts>>

\* stop() clears the one timer this.pollTimer refers to.
Stop ==
  /\ running' = FALSE
  /\ loop' = [l \in Loops |-> IF l = pollTimer /\ loop[l] = "sleeping"
                              THEN "ended" ELSE loop[l]]
  /\ pollTimer' = 0
  /\ stopping' = "waiting"
  /\ UNCHANGED <<qvars, activeJobs, popped, phase, starts, faults>>

\* It returns when no job is active, or at its deadline, aborting the rest.
StopReturns ==
  /\ stopping = "waiting"
  /\ stopping' = IF activeJobs = 0 THEN "drained" ELSE "abandoned"
  /\ UNCHANGED <<qvars, running, pollTimer, activeJobs, loop, popped, phase, starts, faults>>
-----------------------------------------------------------------------------
(* processMessage, for the delivery with lease token k *)

\* The settling call takes effect, finds the lease gone, or rejects; safeAck,
\* safeNack and failPermanently swallow the rejection.
Settle(k, call, ignored) ==
  /\ phase' = [phase EXCEPT ![k] = "settling"]
  /\ \/ call /\ UNCHANGED faults
     \/ ignored /\ UNCHANGED <<qvars, faults>>
     \/ Reject
  /\ UNCHANGED <<running, pollTimer, activeJobs, loop, popped, stopping, starts>>

HandlerResolves(k) ==
  LET d == DeliveryOf(k)
  IN /\ phase[k] = "handling" /\ d.id \notin Unregistered
     /\ Settle(k, Ack(d), ~Holds(d))

\* Mutated form: frees the slot as soon as the handler fails.
HandlerFailsFreeing(k) ==
  /\ phase[k] = "handling" /\ DeliveryOf(k).id \notin Unregistered
  /\ phase' = [phase EXCEPT ![k] = "failed"]
  /\ activeJobs' = activeJobs - 1
  /\ UNCHANGED <<qvars, running, pollTimer, loop, popped, stopping, starts, faults>>

\* The handler throws, times out or is aborted: onFailure is awaited.
HandlerFails(k) ==
  /\ phase[k] = "handling" /\ DeliveryOf(k).id \notin Unregistered
  /\ phase' = [phase EXCEPT ![k] = "failed"]
  /\ UNCHANGED <<qvars, running, pollTimer, activeJobs, loop, popped, stopping, starts, faults>>

\* Mutated form: retries whatever the limit.
RetryAlways(k) ==
  LET d == DeliveryOf(k)
  IN /\ phase[k] = "failed"
     /\ Settle(k, Nack(d, FALSE), ~Holds(d))

RetryLater(k) ==
  LET d == DeliveryOf(k)
  IN /\ phase[k] = "failed" /\ WillRetry(d)
     /\ Settle(k, Nack(d, FALSE), ~Holds(d))

\* An unknown task is dead-lettered without a handler.
FailPermanently(k) ==
  LET d == DeliveryOf(k)
  IN /\ \/ phase[k] = "failed" /\ ~WillRetry(d)
        \/ phase[k] = "handling" /\ d.id \in Unregistered
     /\ Settle(k, DeadLetter(d), FALSE)

\* The finally of the tick: the slot is free again.
Finish(k) ==
  /\ phase[k] = "settling"
  /\ phase' = [phase EXCEPT ![k] = "done"]
  /\ activeJobs' = activeJobs - 1
  /\ UNCHANGED <<qvars, running, pollTimer, loop, popped, stopping, starts, faults>>

\* The heartbeat interval runs until processMessage ends.
Heartbeat(k) ==
  LET d == DeliveryOf(k)
  IN Processing(k) /\ d.id \notin Unregistered /\ Extend(d) /\ UNCHANGED wvars

\* The rest of the world: enqueue(), and time.
Enqueue(j) == Push(j, TRUE) /\ UNCHANGED wvars
Tick == /\ \/ \E j \in Jobs : Lapse(j)
           \/ \E i \in DOMAIN messages : Ripen(i)
        /\ UNCHANGED wvars

WorkerNext ==
  \/ Start \/ Stop \/ StopReturns
  \/ \E l \in Loops : TimerFires(l) \/ PopAnswers(l)
  \/ \E k \in Leases : \/ HandlerResolves(k) \/ HandlerFails(k) \/ RetryLater(k)
                       \/ FailPermanently(k) \/ Finish(k) \/ Heartbeat(k)
  \/ \E j \in Jobs : Enqueue(j)
  \/ Tick

WorkerSpec == WorkerInit /\ [][WorkerNext]_allvars
-----------------------------------------------------------------------------
(* Fairness: pop() answers and timers fire; the task's own timeout ends every
   handler; hooks and settling calls return; time passes for a delayed message
   and for a lease nobody extends any more.  Starting, stopping, enqueueing and
   faults are never obliged to happen, and a heartbeat's reach is not used. *)
Orphan(j) == Leased(j) /\ phase[inFlight[j].lease] = "done"

HandlerEnds(k) == HandlerResolves(k) \/ HandlerFails(k)
Settles(k) == RetryLater(k) \/ FailPermanently(k)
OrphanLapses(j) == Orphan(j) /\ Lapse(j) /\ UNCHANGED wvars
DelayEnds == \E i \in DOMAIN messages : Ripen(i) /\ UNCHANGED wvars

WorkerFairness ==
  /\ \A l \in Loops : WF_allvars(TimerFires(l)) /\ WF_allvars(PopAnswers(l))
  /\ \A k \in Leases : /\ WF_allvars(HandlerEnds(k))
                       /\ WF_allvars(Settles(k))
                       /\ WF_allvars(Finish(k))
  /\ \A j \in Jobs : WF_allvars(OrphanLapses(j))
  /\ WF_allvars(DelayEnds)

FairWorkerSpec == WorkerSpec /\ WorkerFairness
-----------------------------------------------------------------------------
(* Properties *)

\* The worker is one of the callers MemoryQueue allows: it settles only what it
\* was handed and nacks only within the retry limit, so everything that holds
\* of the queue holds of a queue this worker drains.
KeepsQueueDiscipline == Spec

\* activeJobs counts exactly the deliveries being processed: no path through
\* processMessage leaks a slot or frees one twice.
SlotsAccounted == activeJobs = Cardinality(Busy)

\* The limit is exceeded only by restarting a worker whose earlier poll loop is
\* still waiting for pop(): each further start() can add one job above it.
ConcurrencyBound ==
  activeJobs <= Concurrency + (IF starts = 0 THEN 0 ELSE starts - 1)

\* A running worker has a poll loop that will go on: rejections, empty queues,
\* full slots, stops and restarts never leave it deaf.
NeverDeaf == running => \E l \in Loops : loop[l] # "ended"

\* Every lease is in somebody's hands: its delivery is on the way to a poll loop
\* or being processed, or a rejected settling call or a lost lease orphaned it.
LeaseHasHolder ==
  /\ \A j \in Jobs : Leased(j) /\ ~Orphan(j) =>
       \/ Processing(inFlight[j].lease)
       \/ \E l \in Loops : loop[l] = "popping" /\ popped[l] = inFlight[j].lease
  /\ Cardinality({j \in Jobs : Orphan(j)}) <= faults

\* Two executions of one job overlap only when the earlier one had let its
\* lease lapse.
OverlapNeedsLapse ==
  \A k, m \in Leases :
    (k < m /\ Processing(k) /\ Processing(m) /\ DeliveryOf(k).id = DeliveryOf(m).id)
      => k \in over

\* Nobody else runs a job that somebody holds, and nobody forgets one that he holds.
RunsExclusive == LeaseHasHolder /\ OverlapNeedsLapse

\* Once stop() was called no further message is taken until the next start().
StoppedTakesNothing == [][~running /\ ~running' => UNCHANGED leases]_allvars

\* While the worker runs, every submitted job reaches an end: acked, or in the
\* dead-letter queue (which may have dropped it), whatever fails on the way.
AtRest(j) == j \in completed \/ Dead(j) \/ j \in discarded
EveryJobSettles ==
  \A j \in Jobs : (running /\ j \in submitted) ~> (~running \/ AtRest(j))

\* The inductive invariant behind these and the discipline: a delivery
\* being processed or answered was handed out; an answer belongs to one pending
\* pop() and to no processMessage yet; a loop that was never started is not live;
\* and a pending pop() holds a place among the slots.
HandedOut ==
  /\ \A k \in Leases : phase[k] # "none" => \E d \in deliveries : d.lease = k
  /\ \A l \in Loops : popped[l] \in Leases => \E d \in deliveries : d.lease = popped[l]

AnsweredOnce ==
  /\ \A l \in Loops : popped[l] \in Leases =>
       loop[l] = "popping" /\ phase[popped[l]] = "none"
  /\ \A l, m \in Loops : popped[l] \in Leases /\ popped[l] = popped[m] => l = m

UnstartedLoops == \A l \in Loops : l > starts => loop[l] = "ended"

Popping == {l \in Loops : loop[l] = "popping"}
PlacesBound ==
  activeJobs + Cardinality(Popping) <= Concurrency + (IF starts = 0 THEN 0 ELSE starts - 1)

WorkerInv == /\ QueueInv /\ WorkerTypeOK /\ HandedOut /\ AnsweredOnce
             /\ UnstartedLoops /\ SlotsAccounted /\ PlacesBound /\ NeverDeaf

\* The inductive invariant behind RunsExclusive: since the worker re-drives no dead
\* letter, a job has one live copy even after a stale dead-letter call forked it;
\* of its deliveries only the newest can still hold it; every lease was answered
\* to a loop or reached processMessage; and those whose settling call left them
\* in place are paid for by a rejected call each.
OneLive == \A j \in Jobs : Once(Ids(messages), j) /\ (Waiting(j) => ~Leased(j))

NewestHolds ==
  \A d \in deliveries : /\ d.lease \in over \/ Holds(d)
                        /\ Leased(d.id) => d.lease <= inFlight[d.id].lease

LeaseTaken ==
  /\ leases <= MaxLeases
  /\ \A j \in Jobs : Leased(j) => \/ phase[inFlight[j].lease] # "none"
                                  \/ \E l \in Loops : popped[l] = inFlight[j].lease

Stranded == {j \in Jobs : Leased(j) /\ phase[inFlight[j].lease] \in {"settling", "done"}}
StrandedPaid == Cardinality(Stranded) <= faults

HolderInv == WorkerInv /\ OneLive /\ NewestHolds /\ LeaseTaken /\ StrandedPaid

\* Claimed by app.stopWorker ("Stop the task worker and wait for in-flight jobs
\* to finish", core/src/app.ts): after stop() returned drained nothing runs.  A
\* pop() in flight at that time still starts its job.
CleanStop == stopping = "drained" /\ ~running => activeJobs = 0
=============================================================================
