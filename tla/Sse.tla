---------------------------------- MODULE Sse ----------------------------------
(***************************************************************************)
(* Server-sent events: the channels and the hub of sse.ts.  Streams, abort *)
(* signals and timers are external.                                        *)
(***************************************************************************)
EXTENDS Naturals, FiniteSets

CONSTANTS SseChannels,     \* connections that clients make to the hub
          Throwing,     \* those whose onClose callback throws
          MaxIdle,      \* maxIdleMs
          SweepEvery    \* cleanupIntervalMs

ASSUME SseAssumption == Throwing \subseteq SseChannels /\ MaxIdle \in Nat /\ SweepEvery \in Nat \ {0}

VARIABLES stream,   \* stream[c]: "none", "open" or "closed", which is isOpen
          onClosed, \* onClosed[c]: calls of onClose
          hub,      \* the hub's set of channels
          idle,     \* idle[c]: since lastActivity
          sweepIn,  \* until the cleanup timer fires
          sweeping, \* the timer is set
          cutShort  \* a callback ended the last sweep, or closeAll(), in the middle

sseVars == <<stream, onClosed, hub, idle, sweepIn, sweeping, cutShort>>

SseInit ==
  /\ stream = [c \in SseChannels |-> "none"]
  /\ onClosed = [c \in SseChannels |-> 0]
  /\ hub = {} /\ idle = [c \in SseChannels |-> 0]
  /\ sweepIn = SweepEvery /\ sweeping = TRUE /\ cutShort = FALSE
-----------------------------------------------------------------------------
Open == {c \in SseChannels : stream[c] = "open"}

\* close() of every channel of S, each of which its onClose takes out of the hub.
CloseEach(S) ==
  /\ stream' = [c \in SseChannels |-> IF c \in S \cap Open THEN "closed" ELSE stream[c]]
  /\ onClosed' = [c \in SseChannels |-> IF c \in S \cap Open THEN onClosed[c] + 1 ELSE onClosed[c]]
  /\ hub' = hub \ (S \cap Open)

\* Mutated form: the channel is added whether it is open or not.
SubscribeUnchecked(c) ==
  /\ stream[c] = "none"
  /\ \/ stream' = [stream EXCEPT ![c] = "open"] /\ UNCHANGED onClosed
     \/ /\ stream' = [stream EXCEPT ![c] = "closed"]
        /\ onClosed' = [onClosed EXCEPT ![c] = 1]
  /\ hub' = hub \cup {c} /\ idle' = [idle EXCEPT ![c] = 0]
  /\ UNCHANGED <<sweepIn, sweeping, cutShort>>

\* subscribe(): a request that was aborted before closes the stream while it is made.
Subscribe(c) ==
  /\ stream[c] = "none"
  /\ \/ /\ stream' = [stream EXCEPT ![c] = "open"]
        /\ hub' = hub \cup {c} /\ idle' = [idle EXCEPT ![c] = 0]
        /\ UNCHANGED onClosed
     \/ /\ stream' = [stream EXCEPT ![c] = "closed"]
        /\ onClosed' = [onClosed EXCEPT ![c] = 1]
        /\ UNCHANGED <<hub, idle>>
  /\ UNCHANGED <<sweepIn, sweeping, cutShort>>

\* broadcast(): a channel that is open writes; nothing is known of the write yet.
BroadcastEvent ==
  /\ idle' = [c \in SseChannels |-> IF c \in hub \cap Open THEN 0 ELSE idle[c]]
  /\ UNCHANGED <<stream, onClosed, hub, sweepIn, sweeping, cutShort>>

\* close(): a client that leaves is noticed by the abort event, by writer.closed, and by a
\* ping or a write that fails; each calls it, in any order, and so may the handler; only
\* the first call counts.
CloseOne(c) ==
  /\ stream[c] \in {"open", "closed"} /\ CloseEach({c})
  /\ UNCHANGED <<idle, sweepIn, sweeping, cutShort>>

\* A loop over the channels of S that closes each: a callback that throws ends it.
CloseLoop(S) ==
  \/ S \cap Throwing \cap Open = {} /\ CloseEach(S) /\ cutShort' = FALSE
  \/ \E done \in SUBSET S : /\ Cardinality(done \cap Throwing \cap Open) = 1
                            /\ CloseEach(done) /\ cutShort' = TRUE

Overdue == {c \in hub \cap Open : idle[c] > MaxIdle}

\* The cleanup timer.
Sweep ==
  /\ sweeping /\ sweepIn = 0
  /\ CloseLoop(Overdue)
  /\ sweepIn' = SweepEvery
  /\ UNCHANGED <<idle, sweeping>>

\* closeAll() stops the timer first.
CloseAll ==
  /\ sweeping' = FALSE
  /\ CloseLoop(hub)
  /\ UNCHANGED <<idle, sweepIn>>

\* Time; an idle channel is counted up to where nothing is left to tell apart.
SseTick ==
  /\ sweeping => sweepIn > 0
  /\ sweepIn' = IF sweeping THEN sweepIn - 1 ELSE sweepIn
  /\ idle' = [c \in SseChannels |-> IF c \in Open /\ idle[c] <= MaxIdle + 2 * SweepEvery THEN idle[c] + 1 ELSE idle[c]]
  /\ UNCHANGED <<stream, onClosed, hub, sweeping, cutShort>>

SseNext ==
  \/ \E c \in SseChannels : Subscribe(c) \/ CloseOne(c)
  \/ BroadcastEvent \/ Sweep \/ CloseAll \/ SseTick

SseSpec == SseInit /\ [][SseNext]_sseVars
-----------------------------------------------------------------------------
\* Whoever closes a channel first, and however many do, its onClose runs exactly once and
\* it leaves the hub with it: what the hub counts are the open channels and no others,
\* also when the request was over before its stream was made.
HubTruthful ==
  /\ hub = Open
  /\ \A c \in SseChannels : onClosed[c] = (IF stream[c] = "closed" THEN 1 ELSE 0)

\* While the cleanup timer runs, no channel stays open without an event for longer than
\* maxIdleMs and one interval, unless a callback that threw ended the last sweep early.
IdleBound ==
  sweeping /\ ~cutShort => \A c \in hub : idle[c] <= MaxIdle + SweepEvery

\* Nothing stays in the hub that is closed, or open for too long.
HubSound == HubTruthful /\ IdleBound

\* The inductive invariant behind IdleBound: what is left of the interval is left to
\* every channel before it is overdue.
SseTypeOK ==
  /\ stream \in [SseChannels -> {"none", "open", "closed"}]
  /\ onClosed \in [SseChannels -> Nat]
  /\ hub \subseteq SseChannels /\ idle \in [SseChannels -> Nat]
  /\ sweepIn \in 0..SweepEvery /\ sweeping \in BOOLEAN /\ cutShort \in BOOLEAN

SweepComes ==
  sweeping /\ ~cutShort => \A c \in hub : idle[c] + sweepIn <= MaxIdle + SweepEvery

HubInv == SseTypeOK /\ HubTruthful /\ SweepComes
=============================================================================
