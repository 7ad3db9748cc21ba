------------------------------ MODULE RedisQueue ------------------------------
(***************************************************************************)
(* The durable backend, class RedisQueue of queue-redis/src/index.ts, as   *)
(* any number of processes use it at once.                                 *)
(*                                                                         *)
(* A Redis command or Lua script is atomic; a method that needs several is *)
(* one action per command, with what it remembers in between in call[c].   *)
(* Methods of a single command need no caller.  Abort is a process dying,  *)
(* or a command failing, between two of them.                              *)
(*                                                                         *)
(* Lists are kept oldest first.  `lapsed` and `ready` stand for the times  *)
(* compared with Date.now().  An in-flight entry, `<token>|<json>`, is a   *)
(* record; a dead-letter entry is its job and the delivery that died.      *)
(***************************************************************************)
EXTENDS SequencesExt

CONSTANTS Jobs,        \* job ids, each submitted at most once
          MaxRetries,  \* message.maxRetries, and retries in every process
          MaxDead,     \* maxDeadLetters
          Callers,     \* concurrent calls of the methods with several commands
          MaxLeases,   \* bound: how many deliveries a behaviour makes
          MaxStored,   \* bound: copies a stale dead-letter call may pile up to
          MaxFaults    \* bound: interrupted calls

ASSUME RedisAssumption ==
  /\ IsFiniteSet(Jobs) /\ IsFiniteSet(Callers)
  /\ MaxRetries \in [Jobs -> Nat]
  /\ {MaxDead, MaxLeases, MaxStored, MaxFaults} \subseteq Nat

VARIABLES pending,     \* LIST: messages to deliver
          delayed,     \* SORTED SET: messages of a later availableAt
          processing,  \* LIST and leases HASH: the in-flight entries
          reclaim,     \* LIST: entries whose lease expired
          dead,        \* LIST: dead-letter entries
          call,        \* call[c]: where caller c is, and its local variables
          leases, deliveries, over, completed,     \* history, as in MemoryQueue
          submitted, discarded, forked,
          dropped,     \* history: jobs an interrupted call held the only copy of
          faults       \* history: interrupted calls

redis == <<pending, delayed, processing, reclaim, dead>>
history == <<leases, deliveries, over, completed, submitted, discarded, forked>>
vars == <<redis, call, history, dropped, faults>>

Message == [id : Jobs, attempt : Nat, ready : BOOLEAN]
Delivery == [id : Jobs, attempt : Nat, lease : Nat]
InFlight == [id : Jobs, attempt : Nat, lease : Nat, lapsed : BOOLEAN]
DeadEntry == [id : Jobs, lease : Nat]
Call == [at : {"idle", "reaping", "listing", "draining", "popping", "removing", "pushing"},
         pops : BOOLEAN,                \* pop(), not reap() by itself
         staged : SUBSET Delivery,      \* what is left of the lrange
         handled : BOOLEAN,             \* handled > 0
         held : Seq(Message),           \* the message it took and must push
         found : Seq(DeadEntry)]        \* the entry it looked up

IdleCall == [at |-> "idle", pops |-> FALSE, staged |-> {}, handled |-> FALSE,
             held |-> <<>>, found |-> <<>>]
Idle(c) == call[c].at = "idle"

Entries(j) == {e \in processing : e.id = j}
OwnedBy(d) == {e \in processing : e.lease = d.lease}
Holds(d) == OwnedBy(d) # {}

TypeOK ==
  /\ pending \in Seq(Message) /\ delayed \in Seq(Message)
  /\ processing \in SUBSET InFlight
  /\ reclaim \in SUBSET Delivery
  /\ dead \in Seq(DeadEntry)
  /\ call \in [Callers -> Call]
  /\ leases \in Nat /\ over \in SUBSET Nat
  /\ deliveries \in SUBSET Delivery
  /\ {completed, submitted, discarded, forked, dropped} \subseteq SUBSET Jobs
  /\ faults \in 0..MaxFaults

Init ==
  /\ pending = <<>> /\ delayed = <<>> /\ processing = {} /\ reclaim = {} /\ dead = <<>>
  /\ call = [c \in Callers |-> IdleCall]
  /\ leases = 0 /\ deliveries = {} /\ over = {} /\ completed = {}
  /\ submitted = {} /\ discarded = {} /\ forked = {} /\ dropped = {} /\ faults = 0
-----------------------------------------------------------------------------
JobsOf(entries) == {entries[i].id : i \in DOMAIN entries}
Trim(s) == IF Len(s) > MaxDead THEN SubSeq(s, Len(s) - MaxDead + 1, Len(s)) ELSE s

\* LTRIM: the newest MaxDead entries survive.
KeepDead(entries) ==
  /\ dead' = Trim(entries)
  /\ discarded' = discarded \cup (JobsOf(entries) \ JobsOf(Trim(entries)))

\* push(): a message for later goes to the sorted set.
Insert(m) == IF m.ready THEN pending' = Append(pending, m) /\ UNCHANGED delayed
             ELSE delayed' = Append(delayed, m) /\ UNCHANGED pending

Push(j, ready) ==
  /\ j \notin submitted
  /\ Insert([id |-> j, attempt |-> 0, ready |-> ready])
  /\ submitted' = submitted \cup {j}
  /\ UNCHANGED <<processing, reclaim, dead, call, leases, deliveries, over,
                 completed, discarded, forked, dropped, faults>>
-----------------------------------------------------------------------------
(* pop(): promote, reap, and only then take a message *)

\* PROMOTE_SCRIPT, at most a batch of 500; the order is that of availableAt.
PromoteDelayed(c) ==
  /\ Idle(c)
  /\ call' = [call EXCEPT ![c].at = "reaping", ![c].pops = TRUE]
  /\ \E due \in SetToSeqs({i \in DOMAIN delayed : delayed[i].ready}),
        rest \in SetToSeqs({i \in DOMAIN delayed : ~delayed[i].ready}) :
       /\ pending' = pending \o [k \in DOMAIN due |-> delayed[due[k]]]
       /\ \A k, l \in DOMAIN rest : k < l => rest[k] < rest[l]
       /\ delayed' = [k \in DOMAIN rest |-> delayed[rest[k]]]
  /\ UNCHANGED <<processing, reclaim, dead, history, dropped, faults>>

\* Mutated form: drains the staging list only when this call staged something.
StageOrSkip(c) ==
  /\ Idle(c) \/ call[c].at = "reaping"
  /\ LET expired == {e \in processing : e.lapsed}
         next == IF expired # {} THEN "listing" ELSE IF call[c].pops THEN "popping" ELSE "idle"
     IN /\ call' = [call EXCEPT ![c].at = next]
        /\ processing' = processing \ expired
        /\ reclaim' = reclaim \cup
             {[id |-> e.id, attempt |-> e.attempt, lease |-> e.lease] : e \in expired}
        /\ over' = over \cup {e.lease : e \in expired}
  /\ UNCHANGED <<pending, delayed, dead, leases, deliveries, completed,
                 submitted, discarded, forked, dropped, faults>>

\* REAP_SCRIPT, within pop() or in a reap() of its own.
Stage(c) ==
  /\ Idle(c) \/ call[c].at = "reaping"
  /\ call' = [call EXCEPT ![c].at = "listing"]
  /\ LET expired == {e \in processing : e.lapsed}
     IN /\ processing' = processing \ expired
        /\ reclaim' = reclaim \cup
             {[id |-> e.id, attempt |-> e.attempt, lease |-> e.lease] : e \in expired}
        /\ over' = over \cup {e.lease : e \in expired}
  /\ UNCHANGED <<pending, delayed, dead, leases, deliveries, completed,
                 submitted, discarded, forked, dropped, faults>>

\* drainReclaimed() reads the whole staging list, whoever filled it.
List(c) ==
  /\ call[c].at = "listing"
  /\ call' = [call EXCEPT ![c].at = "draining", ![c].staged = reclaim]
  /\ UNCHANGED <<redis, history, dropped, faults>>

Exhausted(e) == e.attempt + 1 > MaxRetries[e.id]

\* Mutated form: pushes whether or not its LREM found the entry.
DrainUnguarded(c, e) ==
  /\ call[c].at = "draining" /\ e \in call[c].staged
  /\ call' = [call EXCEPT ![c].staged = @ \ {e}, ![c].handled = TRUE]
  /\ reclaim' = reclaim \ {e}
  /\ dead' = IF Exhausted(e) THEN Append(dead, [id |-> e.id, lease |-> e.lease]) ELSE dead
  /\ pending' = IF ~Exhausted(e)
                THEN Append(pending, [id |-> e.id, attempt |-> e.attempt + 1, ready |-> TRUE])
                ELSE pending
  /\ UNCHANGED <<delayed, processing, history, dropped, faults>>

\* Mutated form: drops a message whose budget is spent.
DrainDropping(c, e) ==
  /\ call[c].at = "draining" /\ e \in call[c].staged
  /\ call' = [call EXCEPT ![c].staged = @ \ {e}, ![c].handled = @ \/ e \in reclaim]
  /\ reclaim' = reclaim \ {e}
  /\ pending' = IF e \in reclaim /\ ~Exhausted(e)
                THEN Append(pending, [id |-> e.id, attempt |-> e.attempt + 1, ready |-> TRUE])
                ELSE pending
  /\ UNCHANGED <<dead, delayed, processing, history, dropped, faults>>

\* DRAIN_RECLAIM_SCRIPT: only the call whose LREM finds the entry moves it on.
Drain(c, e) ==
  /\ call[c].at = "draining" /\ e \in call[c].staged
  /\ call' = [call EXCEPT ![c].staged = @ \ {e}, ![c].handled = @ \/ e \in reclaim]
  /\ reclaim' = reclaim \ {e}
  /\ dead' = IF e \in reclaim /\ Exhausted(e)
             THEN Append(dead, [id |-> e.id, lease |-> e.lease]) ELSE dead
  /\ pending' = IF e \in reclaim /\ ~Exhausted(e)
                THEN Append(pending, [id |-> e.id, attempt |-> e.attempt + 1, ready |-> TRUE])
                ELSE pending
  /\ UNCHANGED <<delayed, processing, history, dropped, faults>>

\* The LTRIM after the loop; the cap does not hold between the two.
EndDrain(c) ==
  /\ call[c].at = "draining" /\ call[c].staged = {}
  /\ IF call[c].handled THEN KeepDead(dead) ELSE UNCHANGED <<dead, discarded>>
  /\ call' = [call EXCEPT ![c] = IF @.pops THEN [IdleCall EXCEPT !.at = "popping"]
                                 ELSE IdleCall]
  /\ UNCHANGED <<pending, delayed, processing, reclaim, leases, deliveries, over,
                 completed, submitted, forked, dropped, faults>>

\* POP_SCRIPT.
Take(c) ==
  /\ call[c].at = "popping"
  /\ call' = [call EXCEPT ![c] = IdleCall]
  /\ \/ pending = <<>> /\ UNCHANGED <<pending, processing, leases, deliveries>>
     \/ /\ pending # <<>> /\ leases < MaxLeases
        /\ LET m == Head(pending)
               d == [id |-> m.id, attempt |-> m.attempt, lease |-> leases + 1]
           IN /\ pending' = Tail(pending)
              /\ processing' = processing \cup
                   {[id |-> d.id, attempt |-> d.attempt, lease |-> d.lease, lapsed |-> FALSE]}
              /\ leases' = leases + 1
              /\ deliveries' = deliveries \cup {d}
  /\ UNCHANGED <<delayed, reclaim, dead, over, completed, submitted, discarded,
                 forked, dropped, faults>>
-----------------------------------------------------------------------------
(* The calls made with the lease token of delivery d *)

\* RELEASE_BY_LEASE_SCRIPT.
Release(d) == /\ Holds(d)
              /\ processing' = processing \ OwnedBy(d)
              /\ over' = over \cup {d.lease}

Ack(d) ==
  /\ Release(d)
  /\ completed' = completed \cup {d.id}
  /\ UNCHANGED <<pending, delayed, reclaim, dead, call, leases, deliveries,
                 submitted, discarded, forked, dropped, faults>>

WillRetry(d) == d.attempt < MaxRetries[d.id]

\* nack() releases first: from here on the message is only in this process.
Nack(c, d, ready) ==
  /\ Idle(c)
  /\ Release(d)
  /\ call' = [call EXCEPT ![c].at = "pushing",
              ![c].held = <<[id |-> d.id, attempt |-> d.attempt + 1, ready |-> ready]>>]
  /\ UNCHANGED <<pending, delayed, reclaim, dead, leases, deliveries, completed,
                 submitted, discarded, forked, dropped, faults>>

\* The ZADD or LPUSH that ends a nack or a re-drive.
PushHeld(c) ==
  /\ call[c].at = "pushing"
  /\ Insert(Head(call[c].held))
  /\ call' = [call EXCEPT ![c] = IdleCall]
  /\ UNCHANGED <<processing, reclaim, dead, history, dropped, faults>>

\* EXTEND_SCRIPT.
Extend(d) ==
  /\ Holds(d)
  /\ processing' = {IF e.lease = d.lease THEN [e EXCEPT !.lapsed = FALSE] ELSE e :
                      e \in processing}
  /\ UNCHANGED <<pending, delayed, reclaim, dead, call, history, dropped, faults>>

\* DEAD_LETTER_SCRIPT records the job whether or not the lease is still there.
DeadLetter(d) ==
  /\ Holds(d) \/ Len(pending) + Len(delayed) + Len(dead) < MaxStored
  /\ \/ Release(d) /\ UNCHANGED forked
     \/ ~Holds(d) /\ forked' = forked \cup {d.id} /\ UNCHANGED <<processing, over>>
  /\ KeepDead(Append(dead, [id |-> d.id, lease |-> d.lease]))
  /\ UNCHANGED <<pending, delayed, reclaim, call, leases, deliveries, completed,
                 submitted, dropped, faults>>
-----------------------------------------------------------------------------
(* The operator's calls on the dead-letter queue *)

Fresh(j) == [id |-> j, attempt |-> 0, ready |-> TRUE]

\* redriveDeadLetter(): the LRANGE finds the newest entry of the job ...
FindDead(c, i) ==
  /\ Idle(c)
  /\ \A k \in (i + 1)..Len(dead) : dead[k].id # dead[i].id
  /\ call' = [call EXCEPT ![c].at = "removing", ![c].found = <<dead[i]>>]
  /\ UNCHANGED <<redis, history, dropped, faults>>

\* Mutated form: re-queues the job even when another caller removed the entry.
RemoveDeadUnguarded(c) ==
  /\ call[c].at = "removing"
  /\ LET e == Head(call[c].found)
     IN /\ dead' = SelectSeq(dead, LAMBDA x : x # e)
        /\ call' = [call EXCEPT ![c] =
             [IdleCall EXCEPT !.at = "pushing", !.held = <<Fresh(e.id)>>]]
  /\ UNCHANGED <<pending, delayed, processing, reclaim, history, dropped, faults>>

\* ... and only the caller whose LREM removes that entry re-queues the job.
RemoveDead(c) ==
  /\ call[c].at = "removing"
  /\ LET e == Head(call[c].found)
         at == {i \in DOMAIN dead : dead[i] = e}
     IN \/ /\ at = {} /\ UNCHANGED dead
           /\ call' = [call EXCEPT ![c] = IdleCall]
        \/ \E i \in at :
             /\ \A k \in at : k <= i
             /\ dead' = RemoveAt(dead, i)
             /\ call' = [call EXCEPT ![c] =
                  [IdleCall EXCEPT !.at = "pushing", !.held = <<Fresh(e.id)>>]]
  /\ UNCHANGED <<pending, delayed, processing, reclaim, history, dropped, faults>>

\* One round of redriveDeadLetters(): RPOP takes the oldest, PushHeld follows.
\* Rounds share nothing but a counter, so each is a call of its own here.
TakeDead(c) ==
  /\ Idle(c) /\ dead # <<>>
  /\ dead' = Tail(dead)
  /\ call' = [call EXCEPT ![c].at = "pushing", ![c].held = <<Fresh(Head(dead).id)>>]
  /\ UNCHANGED <<pending, delayed, processing, reclaim, history, dropped, faults>>

PurgeDeadLetters ==
  /\ dead # <<>>
  /\ dead' = <<>>
  /\ discarded' = discarded \cup JobsOf(dead)
  /\ UNCHANGED <<pending, delayed, processing, reclaim, call, leases, deliveries,
                 over, completed, submitted, forked, dropped, faults>>
-----------------------------------------------------------------------------
\* The process of c dies, or its next command is rejected: what it held is gone.
\* redriveDeadLetters() swallows a rejected LPUSH and goes on; the job is gone too.
Abort(c) ==
  /\ ~Idle(c) /\ faults < MaxFaults
  /\ faults' = faults + 1
  /\ dropped' = dropped \cup JobsOf(call[c].held)
  /\ call' = [call EXCEPT ![c] = IdleCall]
  /\ UNCHANGED <<redis, history>>

\* Time passes.
Ripen(i) ==
  /\ ~delayed[i].ready
  /\ delayed' = [delayed EXCEPT ![i].ready = TRUE]
  /\ UNCHANGED <<pending, processing, reclaim, dead, call, history, dropped, faults>>

Lapse(e) ==
  /\ ~e.lapsed
  /\ processing' = (processing \ {e}) \cup {[e EXCEPT !.lapsed = TRUE]}
  /\ UNCHANGED <<pending, delayed, reclaim, dead, call, history, dropped, faults>>

PopStep(c) == \/ PromoteDelayed(c) \/ Stage(c) \/ List(c)
              \/ \E e \in call[c].staged : Drain(c, e)
              \/ EndDrain(c) \/ Take(c)

Next ==
  \/ \E j \in Jobs, ready \in BOOLEAN : Push(j, ready)
  \/ \E c \in Callers : PopStep(c) \/ PushHeld(c) \/ RemoveDead(c) \/ TakeDead(c) \/ Abort(c)
  \/ \E c \in Callers, i \in DOMAIN dead : FindDead(c, i)
  \/ \E c \in Callers, d \in deliveries, ready \in BOOLEAN : WillRetry(d) /\ Nack(c, d, ready)
  \/ \E d \in deliveries : Ack(d) \/ Extend(d) \/ DeadLetter(d)
  \/ PurgeDeadLetters
  \/ \E i \in DOMAIN delayed : Ripen(i)
  \/ \E e \in processing : Lapse(e)

Spec == Init /\ [][Next]_vars
-----------------------------------------------------------------------------
(* Properties *)

Waiting(j) == j \in JobsOf(pending) \cup JobsOf(delayed)
Staged(j) == \E e \in reclaim : e.id = j
Dead(j) == j \in JobsOf(dead)
InHand(j) == \E c \in Callers : j \in JobsOf(call[c].held)

\* A submitted job is in one of the Redis structures, acked, or dropped by the
\* dead-letter queue; between the two commands of a nack or a re-drive it is in
\* the process that makes them, and it is lost only if that is interrupted.
LostOnlyInHand ==
  \A j \in submitted :
    \/ Waiting(j) \/ Entries(j) # {} \/ Staged(j) \/ Dead(j) \/ InHand(j)
    \/ j \in completed \cup discarded \cup dropped

\* However many processes promote, reap, drain and re-drive at once, and wherever
\* they are interrupted, a job has one copy in all the structures together,
\* unless a delivery that had lost its lease dead-lettered it.
Copies(j) ==
    Cardinality({i \in DOMAIN pending : pending[i].id = j})
  + Cardinality({i \in DOMAIN delayed : delayed[i].id = j})
  + Cardinality(Entries(j))
  + Cardinality({e \in reclaim : e.id = j})
  + Cardinality({i \in DOMAIN dead : dead[i].id = j})
  + Cardinality({c \in Callers : j \in JobsOf(call[c].held)})
  + Cardinality({j} \cap completed)
SingleCopy == \A j \in Jobs \ forked : Copies(j) <= 1

\* A delivery keeps its job until its own call or its lapsed lease ends it.
LeaseExclusive ==
  \A d \in deliveries : d.id \notin forked => Holds(d) \/ d.lease \in over

\* Lapses and nacks draw down one budget, whichever process counts them.
RetryBudget == \A d \in deliveries : d.attempt <= MaxRetries[d.id]

\* The cap is exceeded only by what reapers that have not trimmed yet (or were
\* interrupted before they could) added.
Untrimmed == Cardinality({c \in Callers : call[c].handled}) + faults
DeadCapped == Len(dead) > MaxDead => Untrimmed > 0

\* One copy of each job, held by one delivery, in queues that keep their cap.
CopiesSound == SingleCopy /\ LeaseExclusive /\ DeadCapped

\* The durable queue implements the life of a job too.  A staged entry and the
\* message a nack holds are still leased, the one a re-drive holds still dead.
HeldFor(j) == CHOOSE m \in {Head(call[c].held) : c \in {x \in Callers : call[x].held # <<>>}} :
                m.id = j
StatusOf(j) ==
  CASE j \in forked \cup dropped -> "outside"
    [] j \notin forked \cup dropped /\ Waiting(j) -> "waiting"
    [] j \notin forked \cup dropped /\ InHand(j) ->
         IF HeldFor(j).attempt = 0 THEN "dead" ELSE "leased"
    [] OTHER -> IF Entries(j) # {} \/ Staged(j) THEN "leased"
                ELSE IF j \in completed THEN "done"
                ELSE IF Dead(j) THEN "dead"
                ELSE IF j \in discarded THEN "discarded" ELSE "new"

Stored(j) == {m \in Range(pending) \cup Range(delayed) : m.id = j}
Leased(j) == Entries(j) \cup {e \in reclaim : e.id = j}
AttemptIn(S) == (CHOOSE m \in S : TRUE).attempt
TriesOf(j) ==
  CASE StatusOf(j) = "waiting" -> AttemptIn(Stored(j))
    [] StatusOf(j) = "leased" -> IF InHand(j) THEN HeldFor(j).attempt - 1
                                 ELSE AttemptIn(Leased(j))
    [] OTHER -> 0

Life == INSTANCE JobLifecycle WITH status <- [j \in Jobs |-> StatusOf(j)],
                                   tries <- [j \in Jobs |-> TriesOf(j)]
ImplementsLifecycle == Life!LifeSpec

\* What the worker relies on ("A failed nack leaves the message in-flight to be
\* reclaimed", safeNack in core/src/task.ts): an interrupted call loses nothing.
InterruptionsAreSafe == dropped = {}

\* Redis answers, and every process goes on polling: its other calls, in flows of
\* their own in the code, cannot keep a caller of the model from pop() for ever.
PollFairness == \A c \in Callers : SF_vars(PopStep(c)) /\ WF_vars(PushHeld(c) \/ RemoveDead(c))

FairSpec == Spec /\ PollFairness

\* What an interrupted reaper left in the staging list is picked up by a later one.
StagingDrains == \A j \in Jobs : Staged(j) ~> ~Staged(j)
=============================================================================
