---------------------------- MODULE JobLifecycle ----------------------------
(***************************************************************************)
(* What a job queue of the framework promises about each job, whatever the *)
(* backend stores and however its deliveries interleave.  It is the        *)
(* abstract specification MemoryQueue and RedisQueue implement: the        *)
(* QueueBackend and DeadLetterCapableQueue interfaces of core/src/queue.ts,*)
(* read as the life of one job.                                            *)
(*                                                                         *)
(* A job is submitted once, waits, is leased to one delivery at a time,    *)
(* and ends acked ("done") or dead-lettered ("dead").  A dead job comes    *)
(* back only by a re-drive and disappears only when the dead-letter queue  *)
(* drops it.  Giving a job back costs one unit of its retry budget.        *)
(*                                                                         *)
(* "outside" is where the promise ends: deadLetter() records the job it is *)
(* given even when the caller's lease is no longer the current one, so     *)
(* there may be two copies of it; and a call of RedisQueue that holds the  *)
(* only copy between two commands may never make the second.               *)
(***************************************************************************)
EXTENDS Naturals

CONSTANTS Jobs,        \* the job ids
          MaxRetries   \* MaxRetries[j]: how often job j may be given back

VARIABLES status,      \* status[j]: where job j is
          tries        \* tries[j]: attempts already used while j waits or is leased

lifeVars == <<status, tries>>

Status == {"new", "waiting", "leased", "done", "dead", "discarded", "outside"}

LifeTypeOK == /\ status \in [Jobs -> Status]
              /\ tries \in [Jobs -> Nat]

LifeInit == /\ status = [j \in Jobs |-> "new"]
            /\ tries = [j \in Jobs |-> 0]

-----------------------------------------------------------------------------
\* The steps of one job, as relations between its state before and after.
\* To(j, s, n): the job ends in status s having used n attempts.

To(j, s, n) == status'[j] = s /\ tries'[j] = n

Submit(j) == status[j] = "new" /\ To(j, "waiting", 0)

Deliver(j) == status[j] = "waiting" /\ To(j, "leased", tries[j])

Complete(j) == status[j] = "leased" /\ To(j, "done", 0)

\* Given back by its holder or reclaimed from it; a reclaiming pop() may hand
\* the job out again in the same step.
GiveBack(j) == /\ status[j] = "leased"
               /\ tries[j] < MaxRetries[j]
               /\ \E s \in {"waiting", "leased"} : To(j, s, tries[j] + 1)

\* Dead-lettered; a full dead-letter queue may drop it at once.
Bury(j) == /\ status[j] = "leased"
           /\ \E s \in {"dead", "discarded"} : To(j, s, 0)

Redrive(j) == status[j] = "dead" /\ To(j, "waiting", 0)

Discard(j) == status[j] = "dead" /\ To(j, "discarded", 0)

Leave(j) == status[j] # "new" /\ To(j, "outside", 0)

Stay(j) == To(j, status[j], tries[j])

JobStep(j) ==
  \/ Submit(j) \/ Deliver(j) \/ Complete(j) \/ GiveBack(j)
  \/ Bury(j) \/ Redrive(j) \/ Discard(j) \/ Leave(j)

\* One call of the queue may move several jobs: pop() reclaims every lapsed
\* lease before it delivers, redriveDeadLetters() and purgeDeadLetters() empty
\* the dead-letter queue.
LifeNext == /\ status' \in [Jobs -> Status]
            /\ tries' \in [Jobs -> Nat]
            /\ \A j \in Jobs : JobStep(j) \/ Stay(j)

LifeSpec == LifeInit /\ [][LifeNext]_lifeVars
=============================================================================
