----------------------------- MODULE MemoryQueue -----------------------------
(***************************************************************************)
(* The in-process queue backend, class MemoryQueue of core/src/queue.ts.   *)
(* Every method body is synchronous, so one call is one action.            *)
(*                                                                         *)
(* Time is abstracted to what the code compares with Date.now(): `ready`   *)
(* is availableAt <= now, `lapsed` is expiresAt <= now; Ripen and Lapse    *)
(* are the passage of time.  A lease token is a fresh number for a fresh   *)
(* UUID.  `completed` keeps every acked id where the code keeps only the   *)
(* newest maxCompletedJobs of a list it never reads.                       *)
(*                                                                         *)
(* The callers are the most general ones the task worker can give rise to: *)
(* any delivery ever handed out, however stale, may call ack, nack, extend *)
(* or deadLetter at any time and repeatedly, except that a delivery is     *)
(* nacked only under WillRetry.                                            *)
(***************************************************************************)
EXTENDS SequencesExt

CONSTANTS Jobs,        \* job ids; each is submitted at most once (a fresh UUID)
          MaxRetries,  \* message.maxRetries of each job
          MaxDead,     \* maxDeadLetters
          MaxLeases,   \* bound: how many deliveries a behaviour makes
          MaxStored    \* bound: copies a stale dead-letter call may pile up to

ASSUME QueueAssumption ==
  /\ IsFiniteSet(Jobs)
  /\ MaxRetries \in [Jobs -> Nat]
  /\ MaxDead \in Nat
  /\ MaxLeases \in Nat
  /\ MaxStored \in Nat

VARIABLES messages,    \* the pending and delayed messages, oldest first
          inFlight,    \* the Map from job id to its leased entry
          dead,        \* ids in the dead-letter queue, oldest first
          completed,   \* ids acked
          leases,      \* how many lease tokens have been generated
          deliveries,  \* history: every delivery pop() ever returned
          over,        \* history: lease tokens that no longer hold their job
          submitted,   \* history: ids pushed
          discarded,   \* history: ids the dead-letter queue dropped
          forked       \* history: ids dead-lettered by a delivery whose lease
                       \* was not the current one

stored == <<messages, inFlight, dead, completed>>
history == <<deliveries, over, submitted, discarded, forked>>
qvars == <<messages, inFlight, dead, completed, leases, history>>

Message == [id : Jobs, attempt : Nat, ready : BOOLEAN]
Entry == [attempt : Nat, lease : Nat, lapsed : BOOLEAN]
Delivery == [id : Jobs, attempt : Nat, lease : Nat]

\* inFlight.get(j) === undefined.  Tokens start at 1.
NoEntry == [attempt |-> 0, lease |-> 0, lapsed |-> FALSE]
Leased(j) == inFlight[j].lease # 0
Ids(queue) == [i \in DOMAIN queue |-> queue[i].id]
Waiting(j) == j \in Range(Ids(messages))
Dead(j) == j \in Range(dead)
Once(ids, j) == \A i, k \in DOMAIN ids : ids[i] = j /\ ids[k] = j => i = k

\* entry.leaseToken === leaseToken, for the delivery d making the call.
Holds(d) == inFlight[d.id].lease = d.lease

TypeOK ==
  /\ messages \in Seq(Message)
  /\ inFlight \in [Jobs -> Entry]
  /\ dead \in Seq(Jobs)
  /\ completed \in SUBSET Jobs
  /\ leases \in Nat
  /\ deliveries \in SUBSET Delivery
  /\ over \in SUBSET Nat
  /\ submitted \in SUBSET Jobs
  /\ discarded \in SUBSET Jobs
  /\ forked \in SUBSET Jobs

Init == /\ messages = <<>>
        /\ inFlight = [j \in Jobs |-> NoEntry]
        /\ dead = <<>>
        /\ completed = {}
        /\ leases = 0
        /\ deliveries = {} /\ over = {}
        /\ submitted = {} /\ discarded = {} /\ forked = {}
-----------------------------------------------------------------------------
\* pushDead's cap: the newest MaxDead entries survive.
Trim(s) == IF Len(s) > MaxDead THEN SubSeq(s, Len(s) - MaxDead + 1, Len(s)) ELSE s

Fresh(j) == [id |-> j, attempt |-> 0, ready |-> TRUE]

Bury(entries) ==
  /\ dead' = Trim(entries)
  /\ discarded' = discarded \cup (Range(entries) \ Range(Trim(entries)))

\* enqueue() pushes a message available now; push() also takes delayed ones.
Push(j, ready) ==
  /\ j \notin submitted
  /\ messages' = Append(messages, [id |-> j, attempt |-> 0, ready |-> ready])
  /\ submitted' = submitted \cup {j}
  /\ UNCHANGED <<inFlight, dead, completed, leases, deliveries, over, discarded, forked>>

\* reclaimExpired(): what a lapsed lease turns into.
Expired == {j \in Jobs : Leased(j) /\ inFlight[j].lapsed}
Exhausted == {j \in Expired : inFlight[j].attempt + 1 > MaxRetries[j]}
Reclaimed(j) == [id |-> j, attempt |-> inFlight[j].attempt + 1, ready |-> TRUE]
Requeue(retried) ==
  messages \o [k \in DOMAIN retried |-> Reclaimed(retried[k])]
Unexpired == [j \in Jobs |-> IF j \in Expired THEN NoEntry ELSE inFlight[j]]

\* messages.findIndex((m) => m.availableAt <= now), when there is one.
FirstReady(queue, i) == /\ i \in DOMAIN queue
                        /\ queue[i].ready
                        /\ \A k \in 1..(i - 1) : ~queue[k].ready

\* Hand out queue[i] under a fresh lease; Map.set overwrites any entry its id has.
Deliver(queue, i) ==
  LET m == queue[i]
  IN /\ messages' = RemoveAt(queue, i)
     /\ inFlight' = [Unexpired EXCEPT ![m.id] =
          [attempt |-> m.attempt, lease |-> leases + 1, lapsed |-> FALSE]]
     /\ leases' = leases + 1
     /\ deliveries' = deliveries \cup
          {[id |-> m.id, attempt |-> m.attempt, lease |-> leases + 1]}

DeliverNothing(queue) == /\ messages' = queue
                         /\ inFlight' = Unexpired
                         /\ UNCHANGED <<leases, deliveries>>

\* pop(): reclaim, then deliver the first available message, if any.  The code
\* walks the inFlight Map in insertion order; any order is allowed here.
Pop ==
  /\ \E retried \in SetToSeqs(Expired \ Exhausted), buried \in SetToSeqs(Exhausted) :
       LET queue == Requeue(retried)
       IN /\ Bury(dead \o buried)
          /\ \/ /\ leases < MaxLeases
                /\ \E i \in DOMAIN queue : FirstReady(queue, i) /\ Deliver(queue, i)
             \/ (\A i \in DOMAIN queue : ~queue[i].ready) /\ DeliverNothing(queue)
  /\ over' = over \cup {inFlight[j].lease : j \in Expired}
  /\ UNCHANGED <<completed, submitted, forked>>
-----------------------------------------------------------------------------
\* Calls made with the lease token of delivery d.

\* Mutated form: deletes whatever entry the job has, not only its own.
AckAnyLease(d) ==
  /\ Leased(d.id)
  /\ inFlight' = [inFlight EXCEPT ![d.id] = NoEntry]
  /\ completed' = completed \cup {d.id}
  /\ over' = over \cup {d.lease}
  /\ UNCHANGED <<messages, dead, leases, deliveries, submitted, discarded, forked>>

Ack(d) ==
  /\ Holds(d)
  /\ inFlight' = [inFlight EXCEPT ![d.id] = NoEntry]
  /\ completed' = completed \cup {d.id}
  /\ over' = over \cup {d.lease}
  /\ UNCHANGED <<messages, dead, leases, deliveries, submitted, discarded, forked>>

\* The one discipline of the callers: TaskWorker.handleFailure nacks a delivery
\* only while its attempt is below the retry limit.
WillRetry(d) == d.attempt < MaxRetries[d.id]

\* Mutated form: gives the message back without counting the attempt.
NackUncounted(d, ready) ==
  /\ Holds(d)
  /\ inFlight' = [inFlight EXCEPT ![d.id] = NoEntry]
  /\ messages' = Append(messages, [id |-> d.id, attempt |-> inFlight[d.id].attempt, ready |-> ready])
  /\ over' = over \cup {d.lease}
  /\ UNCHANGED <<dead, completed, leases, deliveries, submitted, discarded, forked>>

\* ready: the delay given is 0.
Nack(d, ready) ==
  /\ Holds(d)
  /\ inFlight' = [inFlight EXCEPT ![d.id] = NoEntry]
  /\ messages' = Append(messages, [id |-> d.id,
                                   attempt |-> inFlight[d.id].attempt + 1,
                                   ready |-> ready])
  /\ over' = over \cup {d.lease}
  /\ UNCHANGED <<dead, completed, leases, deliveries, submitted, discarded, forked>>

\* extend() asks only whether the token still matches: a lease that has lapsed
\* and has not been reclaimed yet is revived.
Extend(d) ==
  /\ Holds(d)
  /\ inFlight' = [inFlight EXCEPT ![d.id].lapsed = FALSE]
  /\ UNCHANGED <<messages, dead, completed, leases, history>>

\* deadLetter(): the entry is released only if the token matches, but the job
\* is recorded as dead in either case.
DeadLetter(d) ==
  /\ Holds(d) \/ Len(messages) + Len(dead) < MaxStored
  /\ IF Holds(d)
     THEN /\ inFlight' = [inFlight EXCEPT ![d.id] = NoEntry]
          /\ over' = over \cup {d.lease}
          /\ UNCHANGED forked
     ELSE /\ forked' = forked \cup {d.id}
          /\ UNCHANGED <<inFlight, over>>
  /\ Bury(Append(dead, d.id))
  /\ UNCHANGED <<messages, completed, leases, deliveries, submitted>>
-----------------------------------------------------------------------------
\* The operator's calls on the dead-letter queue.

RedriveDeadLetter(j) ==
  /\ \E i \in DOMAIN dead :
       /\ dead[i] = j
       /\ \A k \in 1..(i - 1) : dead[k] # j
       /\ dead' = RemoveAt(dead, i)
  /\ messages' = Append(messages, Fresh(j))
  /\ UNCHANGED <<inFlight, completed, leases, history>>

\* Mutated form: empties the dead-letter queue whatever the limit.
RedriveEmptying(limit) ==
  /\ limit \in 1..Len(dead)
  /\ dead' = <<>>
  /\ messages' = messages \o [k \in 1..limit |-> Fresh(dead[k])]
  /\ UNCHANGED <<inFlight, completed, leases, history>>

RedriveDeadLetters(limit) ==
  /\ limit \in 1..Len(dead)
  /\ dead' = SubSeq(dead, limit + 1, Len(dead))
  /\ messages' = messages \o [k \in 1..limit |-> Fresh(dead[k])]
  /\ UNCHANGED <<inFlight, completed, leases, history>>

PurgeDeadLetters ==
  /\ dead # <<>>
  /\ dead' = <<>>
  /\ discarded' = discarded \cup Range(dead)
  /\ UNCHANGED <<messages, inFlight, completed, leases, deliveries, over, submitted, forked>>

\* Time passes: a delayed message becomes available, a lease runs out.
Ripen(i) ==
  /\ ~messages[i].ready
  /\ messages' = [messages EXCEPT ![i].ready = TRUE]
  /\ UNCHANGED <<inFlight, dead, completed, leases, history>>

Lapse(j) ==
  /\ Leased(j) /\ ~inFlight[j].lapsed
  /\ inFlight' = [inFlight EXCEPT ![j].lapsed = TRUE]
  /\ UNCHANGED <<messages, dead, completed, leases, history>>

Next ==
  \/ \E j \in Jobs, ready \in BOOLEAN : Push(j, ready)
  \/ Pop
  \/ \E d \in deliveries : Ack(d) \/ Extend(d) \/ DeadLetter(d)
  \/ \E d \in deliveries, ready \in BOOLEAN : WillRetry(d) /\ Nack(d, ready)
  \/ \E j \in Jobs : RedriveDeadLetter(j) \/ Lapse(j)
  \/ \E limit \in DOMAIN dead : RedriveDeadLetters(limit)
  \/ PurgeDeadLetters
  \/ \E i \in DOMAIN messages : Ripen(i)

Spec == Init /\ [][Next]_qvars
-----------------------------------------------------------------------------
(* Properties *)

\* A pushed job is always somewhere: waiting, leased, dead-lettered or acked,
\* unless the dead-letter queue itself dropped it (its cap, or a purge).
Conserved ==
  \A j \in submitted :
    Waiting(j) \/ Leased(j) \/ Dead(j) \/ j \in completed \/ j \in discarded

\* Two copies of a job exist only if a delivery that had lost its lease
\* dead-lettered it: reclaiming, nacking and re-driving move the one copy.
SingleCopy ==
  \A j \in Jobs \ forked :
    /\ Once(Ids(messages), j) /\ Once(dead, j)
    /\ Waiting(j) => ~Leased(j) /\ ~Dead(j) /\ j \notin completed \cup discarded
    /\ Leased(j) => ~Dead(j) /\ j \notin completed \cup discarded
    /\ Dead(j) => j \notin completed \cup discarded
    /\ j \in completed => j \notin discarded

\* A delivery loses its job only by its own call or by letting its lease lapse:
\* no call of another delivery, however stale, takes a lease away.
LeaseExclusive ==
  \A d \in deliveries : d.id \notin forked => Holds(d) \/ d.lease \in over

\* No delivery is made beyond the retry budget, whether the earlier attempts
\* ended in a nack or in a lapsed lease.
RetryBudget == \A d \in deliveries : d.attempt <= MaxRetries[d.id]

\* Every pushed job is in exactly one place, whatever calls are late or repeated.
JobsAccounted == Conserved /\ SingleCopy

\* Deliveries exclude one another and keep to the budget.
DeliveriesSound == LeaseExclusive /\ RetryBudget

\* The inductive invariant behind the four: tokens are fresh, a leased entry is
\* the delivery that was handed out, what waits has budget left, and only
\* submitted jobs are stored anywhere.
LeasesFresh ==
  /\ \A d \in deliveries : d.lease \in 1..leases
  /\ \A d, e \in deliveries : d.lease = e.lease => d = e
  /\ \A j \in Jobs : Leased(j) =>
       [id |-> j, attempt |-> inFlight[j].attempt, lease |-> inFlight[j].lease] \in deliveries

WithinBudget(queue) ==
  \A i \in DOMAIN queue : queue[i].attempt <= MaxRetries[queue[i].id]
WaitingBudget == WithinBudget(messages)

OnlySubmitted ==
  /\ \A j \in Jobs :
       Waiting(j) \/ Leased(j) \/ Dead(j) \/ j \in completed \cup discarded \cup forked
         => j \in submitted
  /\ \A d \in deliveries : d.id \in submitted

QueueInv == /\ TypeOK /\ Conserved /\ SingleCopy /\ LeaseExclusive /\ RetryBudget
            /\ LeasesFresh /\ WaitingBudget /\ OnlySubmitted

\* Where a job is, for JobLifecycle.
StatusOf(j) ==
  CASE j \in forked    -> "outside"
    [] j \notin forked /\ Waiting(j) -> "waiting"
    [] j \notin forked /\ ~Waiting(j) /\ Leased(j) -> "leased"
    [] OTHER -> IF j \in completed THEN "done"
                ELSE IF Dead(j) THEN "dead"
                ELSE IF j \in discarded THEN "discarded" ELSE "new"

AttemptOf(j) == messages[CHOOSE i \in DOMAIN messages : messages[i].id = j].attempt

TriesOf(j) ==
  CASE StatusOf(j) = "waiting" -> AttemptOf(j)
    [] StatusOf(j) = "leased" -> inFlight[j].attempt
    [] OTHER -> 0

Life == INSTANCE JobLifecycle WITH status <- [j \in Jobs |-> StatusOf(j)],
                                   tries <- [j \in Jobs |-> TriesOf(j)]

\* The queue implements the life of a job promised by JobLifecycle: every call
\* moves each job along it, or leaves the job alone.
ImplementsLifecycle == Life!LifeSpec

=============================================================================
