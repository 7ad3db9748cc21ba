---------------------------- MODULE Process_proofs ----------------------------
(***************************************************************************)
(* Proofs about the parts of one process between a client and a handler,   *)
(* each of them a component MCProcess runs: the server and its shutdown,   *)
(* sockets on Bun, the gates a request passes, the request's transaction,  *)
(* the reply on its way out, the cron invocations and exchanges of a       *)
(* platform, the application's worker, the jar of its cookies, a remote    *)
(* call.                                                                   *)
(***************************************************************************)
EXTENDS Server, AppWorker, BunSockets, Cookies, Gates, Platforms, Reply, Requests, Rpc,
        FiniteSetTheorems, WellFoundedInduction, TLAPS

(* The server: its counters are the numbers of handlers and of slots held. *)

Handling == {c \in Conns : work[c] = "handling"}
Held == {c \in Conns : slot[c] = "held"}

Counted == /\ inFlightRequests = Cardinality(Handling)
           /\ count = Cardinality(Held) /\ count <= Cap

\* A slot is held by a live socket, and a WebSocket on a live socket holds one; an
\* upgrade being authorized has none yet.
Placed(c) ==
  /\ slot[c] = "held" => socket[c] \in {"open", "destroyed"}
  /\ ws[c] \in {"open", "closing"} /\ socket[c] # "closed" => slot[c] = "held"
  /\ work[c] = "authorizing" => slot[c] = "none" /\ ws[c] = "none"
  /\ slot[c] # "none" /\ ws[c] = "none" => socket[c] \in {"destroyed", "closed"}
  /\ work[c] = "flushing" => socket[c] \in {"open", "destroyed"}

Staged == /\ shuttingDown <=> stage # "up"
          /\ stage = "destroying" => expired
          /\ DrainedFirst
          /\ NotCutShort

\* The inductive invariant.
SInv == ServerTypeOK /\ Counted /\ (\A c \in Conns : Placed(c)) /\ Staged

LEMMA Finite ==
  ASSUME NEW S \in SUBSET Conns
  PROVE  /\ IsFiniteSet(S) /\ Cardinality(S) \in Nat
         /\ Cardinality(S) = 0 => S = {}
         /\ \A c \in Conns \ S : Cardinality(S \cup {c}) = Cardinality(S) + 1
         /\ \A c \in S : Cardinality(S \ {c}) = Cardinality(S) - 1 /\ Cardinality(S) >= 1
<1>1. IsFiniteSet(S)
  BY ServerAssumption, FS_Subset
<1>2. Cardinality(S) \in Nat /\ (Cardinality(S) = 0 => S = {})
  BY <1>1, FS_CardinalityType, FS_EmptySet
<1>3. \A c \in Conns \ S : Cardinality(S \cup {c}) = Cardinality(S) + 1
  BY <1>1, FS_AddElement
<1>4. ASSUME NEW c \in S
      PROVE  Cardinality(S \ {c}) = Cardinality(S) - 1 /\ Cardinality(S) >= 1
  <2>1. Cardinality(S \ {c}) = Cardinality(S) - 1
    BY <1>1, FS_RemoveElement
  <2>2. Cardinality(S) # 0
    BY <1>2
  <2> QED BY <1>2, <2>1, <2>2
<1> QED BY <1>1, <1>2, <1>3, <1>4

LEMMA InvariantInit == ServerInit => SInv
<1> SUFFICES ASSUME ServerInit PROVE SInv
  OBVIOUS
<1>1. ServerTypeOK
  BY DEF ServerInit, ServerTypeOK
<1>2. Handling = {} /\ Held = {}
  BY DEF ServerInit, Handling, Held
<1>3. Counted
  BY <1>2, FS_EmptySet, ServerAssumption DEF ServerInit, Counted
<1>4. \A c \in Conns : Placed(c)
  BY DEF ServerInit, Placed
<1>5. Staged
  BY DEF ServerInit, Staged, DrainedFirst, NotCutShort
<1> QED BY <1>1, <1>3, <1>4, <1>5 DEF SInv
-----------------------------------------------------------------------------
(* One lemma for each step of a connection *)

\* What such a step does not touch.
Aside == UNCHANGED <<boot, shuttingDown, stage, expired, fatal, exited, cut>>

LEMMA RequestKeeps ==
  ASSUME SInv, NEW c \in Conns, Request(c)
  PROVE  SInv'
<1> USE DEF SInv
<1>1. Handling' = Handling \cup {c} /\ c \notin Handling /\ Held' = Held
  BY DEF Request, Idle, Handling, Held, ServerTypeOK
<1>2. Counted'
  BY <1>1, Finite DEF Request, Counted, Handling
<1>3. ServerTypeOK'
  BY DEF Request, ServerTypeOK
<1>4. \A q \in Conns : Placed(q)'
  BY DEF Request, Idle, Placed, ServerTypeOK
<1>5. Staged'
  BY DEF Request, Staged, DrainedFirst, NotCutShort
<1> QED BY <1>2, <1>3, <1>4, <1>5

LEMMA HandlerEndsKeeps ==
  ASSUME SInv, NEW c \in Conns, HandlerEnds(c)
  PROVE  SInv'
<1> USE DEF SInv
<1>1. Handling' = Handling \ {c} /\ c \in Handling /\ Held' = Held
  BY DEF HandlerEnds, Handling, Held, ServerTypeOK
<1>2. Counted' /\ inFlightRequests' \in Nat
  BY <1>1, Finite DEF HandlerEnds, Counted, Handling
<1>3. ServerTypeOK'
  BY <1>2 DEF HandlerEnds, ServerTypeOK
<1>4. \A q \in Conns : Placed(q)'
  BY DEF HandlerEnds, Placed, ServerTypeOK
<1>5. Staged'
  BY DEF HandlerEnds, Staged, DrainedFirst, NotCutShort, ServerTypeOK
<1> QED BY <1>2, <1>3, <1>4, <1>5

LEMMA PlainStepKeeps ==
  ASSUME SInv, NEW c \in Conns, Connect(c) \/ Flushed(c) \/ Upgrade(c)
  PROVE  SInv'
<1> USE DEF SInv
<1>1. Handling' = Handling /\ Held' = Held
  BY DEF Connect, Flushed, Upgrade, Idle, Handling, Held, ServerTypeOK
<1>2. Counted'
  BY <1>1 DEF Connect, Flushed, Upgrade, Counted
<1>3. ServerTypeOK'
  BY DEF Connect, Flushed, Upgrade, ServerTypeOK
<1>4. \A q \in Conns : Placed(q)'
  BY DEF Connect, Flushed, Upgrade, Idle, Placed, ServerTypeOK
<1>5. Staged'
  BY DEF Connect, Flushed, Upgrade, Staged, DrainedFirst, NotCutShort, ServerTypeOK
<1> QED BY <1>2, <1>3, <1>4, <1>5

LEMMA RefuseKeeps ==
  ASSUME SInv, NEW c \in Conns, Authorized(c), Refuse(c)
  PROVE  SInv'
<1> USE DEF SInv
<1>1. Handling' = Handling /\ Held' = Held
  BY DEF Authorized, Refuse, Handling, Held, ServerTypeOK
<1>2. Counted'
  BY <1>1 DEF Authorized, Refuse, Counted
<1>3. ServerTypeOK'
  BY DEF Authorized, Refuse, ServerTypeOK
<1>4. \A q \in Conns : Placed(q)'
  BY DEF Authorized, Refuse, Placed, ServerTypeOK
<1>5. Staged'
  BY DEF Authorized, Refuse, Staged, DrainedFirst, NotCutShort, ServerTypeOK
<1> QED BY <1>2, <1>3, <1>4, <1>5

LEMMA OpenKeeps ==
  ASSUME SInv, NEW c \in Conns, Authorized(c), socket[c] = "open", ~shuttingDown,
         count < Cap, Open(c)
  PROVE  SInv'
<1> USE DEF SInv
<1>1. Handling' = Handling /\ Held' = Held \cup {c} /\ c \notin Held
  BY DEF Authorized, Open, Handling, Held, Placed, ServerTypeOK
<1>2. Counted'
  BY <1>1, Finite, ServerAssumption DEF Authorized, Open, Counted, Held, ServerTypeOK
<1>3. ServerTypeOK'
  BY DEF Authorized, Open, ServerTypeOK
<1>4. \A q \in Conns : Placed(q)'
  BY DEF Authorized, Open, Placed, ServerTypeOK
<1>5. Staged'
  BY DEF Authorized, Staged, DrainedFirst, NotCutShort, ServerTypeOK
<1> QED BY <1>2, <1>3, <1>4, <1>5

LEMMA CloseKeeps ==
  ASSUME SInv, NEW c \in Conns, SocketCloses(c) \/ WebSocketCloses(c)
  PROVE  SInv'
<1> USE DEF SInv
<1>1. Handling' = Handling
  BY DEF SocketCloses, WebSocketCloses, Handling, ServerTypeOK
<1>2. /\ Held' = Held \ {c}
      /\ count' = IF c \in Held THEN count - 1 ELSE count
      /\ slot' = [slot EXCEPT ![c] = IF @ = "held" THEN "released" ELSE @]
  BY DEF SocketCloses, WebSocketCloses, Release, Held, ServerTypeOK
<1>3. Counted' /\ count' \in Nat
  <2>1. CASE c \in Held
    <3>0. IsFiniteSet(Held) /\ Held \in SUBSET Conns
      BY Finite DEF Held
    <3>1. Cardinality(Held \ {c}) = Cardinality(Held) - 1
      BY <2>1, <3>0, FS_RemoveElement
    <3>2. /\ Cardinality(Held) \in Nat /\ Cardinality(Held) > 0
          /\ Cardinality(Held) <= Cap /\ Cap \in Nat
      BY <2>1, <3>0, FS_CardinalityType, FS_EmptySet, ServerAssumption DEF Counted
    <3>3. count' = Cardinality(Held') /\ count' <= Cap /\ count' \in Nat
      BY <1>2, <2>1, <3>1, <3>2 DEF Counted
    <3>4. inFlightRequests' = Cardinality(Handling')
      BY <1>1 DEF SocketCloses, WebSocketCloses, Counted
    <3> QED BY <3>3, <3>4 DEF Counted
  <2>2. CASE c \notin Held
    <3>1. Held' = Held
      BY <1>2, <2>2
    <3> QED BY <1>1, <1>2, <2>2, <3>1 DEF SocketCloses, WebSocketCloses, Counted, ServerTypeOK
  <2> QED BY <2>1, <2>2
<1>4. ServerTypeOK'
  BY <1>2, <1>3 DEF SocketCloses, WebSocketCloses, ServerTypeOK
<1>5. \A q \in Conns : Placed(q)'
  BY <1>2 DEF SocketCloses, WebSocketCloses, Placed, ServerTypeOK
<1>6. Staged'
  BY DEF SocketCloses, WebSocketCloses, Staged, DrainedFirst, NotCutShort, ServerTypeOK
<1> QED BY <1>3, <1>4, <1>5, <1>6
-----------------------------------------------------------------------------
(* The steps of the boot, of the shutdown and of the fatal-error handler *)

LEMMA ShutdownKeeps ==
  ASSUME SInv, Shutdown, fatal' \in {"no", "drains", "exits"}
  PROVE  SInv'
<1> USE DEF SInv
<1>1. PICK idle \in SUBSET {c \in Conns : Idle(c)} :
        socket' = [c \in Conns |-> IF c \in idle THEN "destroyed" ELSE socket[c]]
  BY DEF Shutdown
<1>2. Handling' = Handling /\ Held' = Held
  BY DEF Shutdown, Handling, Held
<1>3. Counted'
  BY <1>2 DEF Shutdown, Counted
<1>4. ServerTypeOK'
  BY <1>1 DEF Shutdown, ServerTypeOK
<1>5. \A q \in Conns : Placed(q)'
  BY <1>1 DEF Shutdown, Idle, Placed, ServerTypeOK
<1>6. Staged'
  BY DEF Shutdown, Staged, DrainedFirst, NotCutShort
<1> QED BY <1>3, <1>4, <1>5, <1>6

\* Drained says that nothing is in progress.
LEMMA DrainedIsQuiet ==
  ASSUME SInv, Drained
  PROVE  \A c \in Conns : work[c] = "none" /\ ws[c] \in {"none", "closed"}
<1> USE DEF SInv
<1>1. Handling = {}
  <2>1. Cardinality(Handling) = 0
    BY DEF Drained, Counted
  <2> QED BY <2>1, Finite DEF Handling
<1> QED BY <1>1 DEF Drained, webSockets, pendingUpgradeSockets, sockets, Handling, Placed, ServerTypeOK

LEMMA EndDrainKeeps ==
  ASSUME SInv, EndDrain
  PROVE  SInv'
<1> USE DEF SInv
<1>1. Handling' = Handling /\ Held' = Held
  BY DEF EndDrain, Handling, Held
<1>2. Counted'
  BY <1>1 DEF EndDrain, Counted
<1>3. ServerTypeOK'
  BY DEF EndDrain, ServerTypeOK, Answering
<1>4. \A q \in Conns : Placed(q)'
  BY DEF EndDrain, Placed, ServerTypeOK
<1>5. Staged'
  <2>1. CASE Drained
    BY <2>1, DrainedIsQuiet DEF EndDrain, Staged, DrainedFirst, NotCutShort
  <2>2. CASE ~Drained
    BY <2>2 DEF EndDrain, Staged, DrainedFirst, NotCutShort
  <2> QED BY <2>1, <2>2
<1> QED BY <1>2, <1>3, <1>4, <1>5

LEMMA OtherStepKeeps ==
  ASSUME SInv, Listen \/ Deadline \/ Teardown \/ Exit
               \/ (shuttingDown /\ fatal' = "exits"
                   /\ UNCHANGED <<boot, accepting, conns, shuttingDown, stage, expired,
                                  exited, cut>>)
  PROVE  SInv'
<1> USE DEF SInv
<1>1. UNCHANGED conns
  BY DEF Listen, Deadline, Teardown, Exit
<1>2. Handling' = Handling /\ Held' = Held
  BY <1>1 DEF conns, Handling, Held
<1>3. Counted'
  BY <1>1, <1>2 DEF conns, Counted
<1>4. ServerTypeOK'
  BY <1>1 DEF Listen, Deadline, Teardown, Exit, conns, ServerTypeOK
<1>5. \A q \in Conns : Placed(q)'
  BY <1>1 DEF conns, Placed
<1>6. Staged'
  BY <1>1 DEF Listen, Deadline, Teardown, Exit, conns, Staged, DrainedFirst, NotCutShort
<1> QED BY <1>3, <1>4, <1>5, <1>6

LEMMA ServerStep == SInv /\ [ServerNext]_serverVars => SInv'
<1> SUFFICES ASSUME SInv, [ServerNext]_serverVars PROVE SInv'
  OBVIOUS
<1>1. CASE UNCHANGED serverVars
  BY <1>1 DEF serverVars, conns, SInv, ServerTypeOK, Counted, Handling, Held, Placed, Staged,
     DrainedFirst, NotCutShort
<1>2. ASSUME NEW c \in Conns, ConnStep(c) PROVE SInv'
  BY <1>2, RequestKeeps, HandlerEndsKeeps, PlainStepKeeps, RefuseKeeps, OpenKeeps, CloseKeeps
     DEF ConnStep, Authorized
<1>3. CASE Shutdown /\ UNCHANGED fatal
  BY <1>3, ShutdownKeeps DEF SInv, ServerTypeOK
<1>4. CASE Fatal
  BY <1>4, ShutdownKeeps, OtherStepKeeps DEF Fatal
<1>5. CASE Listen \/ ShutdownStep \/ Exit
  BY <1>5, OtherStepKeeps, EndDrainKeeps DEF ShutdownStep
<1> QED BY <1>1, <1>2, <1>3, <1>4, <1>5 DEF ServerNext

LEMMA ServerAlways == ServerSpec => []SInv
BY InvariantInit, ServerStep, PTL DEF ServerSpec
-----------------------------------------------------------------------------
\* The types of the server's state hold of every behaviour; inFlightRequests and the limiter's
\* count stay natural numbers.
THEOREM TypeCorrect == ServerSpec => []ServerTypeOK
<1>1. SInv => ServerTypeOK
  BY DEF SInv
<1> QED BY <1>1, ServerAlways, PTL

\* For any number of connections the teardown finds nothing in progress, before the
\* deadline.
\* Before it the shutdown cuts no response either.
THEOREM TeardownWaits == ServerSpec => []DrainsBeforeExit
<1>1. SInv => DrainsBeforeExit
  BY DEF SInv, Staged, DrainsBeforeExit
<1> QED BY <1>1, ServerAlways, PTL

\* For any cap and any number of connections the limiter's count is right and the cap
\* is kept.
THEOREM SlotsAreRight == ServerSpec => []SlotsMatch
<1>1. ASSUME SInv PROVE SlotsMatch
  <2> USE <1>1 DEF SInv
  <2> DEFINE live == {c \in Conns : ws[c] \in {"open", "closing"} /\ socket[c] # "closed"}
  <2>1. live \subseteq Held
    BY DEF Placed, Held
  <2>2. Cardinality(live) <= Cardinality(Held)
    BY <2>1, Finite, FS_Subset DEF Held
  <2>3. Cardinality(live) <= Cap
    <3>1. live \in SUBSET Conns
      OBVIOUS
    <3>2. Cardinality(live) \in Nat /\ Cardinality(Held) \in Nat
      BY <3>1, Finite DEF Held
    <3> QED BY <2>2, <3>2, ServerAssumption DEF Counted
  <2> QED BY <2>3 DEF SlotsMatch, Counted, Held, Placed
<1> QED BY <1>1, ServerAlways, PTL

\* Once a shutdown has begun no handler starts and no WebSocket opens.
THEOREM ShutdownAdmitsNothing == ServerSpec => NothingStartsLate
<1>1. ASSUME ServerTypeOK, [ServerNext]_serverVars
      PROVE  [shuttingDown => inFlightRequests' <= inFlightRequests /\ webSockets' \subseteq webSockets]_serverVars
  <2> SUFFICES ASSUME ServerNext, shuttingDown
               PROVE  inFlightRequests' <= inFlightRequests /\ webSockets' \subseteq webSockets
    BY <1>1
  <2>1. inFlightRequests \in Nat
    BY <1>1 DEF ServerTypeOK
  <2>2. ASSUME NEW c \in Conns, ConnStep(c)
        PROVE  inFlightRequests' <= inFlightRequests /\ webSockets' \subseteq webSockets
    <3>1. CASE Connect(c) \/ Request(c) \/ Flushed(c) \/ Upgrade(c) \/ SocketCloses(c)
      <4>1. inFlightRequests' = inFlightRequests /\ ws' = ws
        BY <2>2, <3>1 DEF Connect, Request, Flushed, Upgrade, SocketCloses
      <4> QED BY <2>1, <4>1 DEF webSockets
    <3>2. CASE HandlerEnds(c)
      BY <2>1, <3>2 DEF HandlerEnds, webSockets
    <3>3. CASE Authorized(c)
      BY <2>1, <3>3 DEF Authorized, Refuse, webSockets
    <3>4. CASE WebSocketCloses(c)
      BY <2>1, <3>4, <1>1 DEF WebSocketCloses, webSockets, ServerTypeOK
    <3> QED BY <2>2, <3>1, <3>2, <3>3, <3>4 DEF ConnStep
  <2>3. CASE Listen \/ ShutdownStep \/ Fatal \/ Exit
    <3>1. inFlightRequests' = inFlightRequests /\ ws' = ws
      <4>1. CASE Fatal
        BY <4>1 DEF Fatal, conns
      <4>2. CASE Listen \/ Exit
        BY <4>2 DEF Listen, Exit, conns
      <4>3. CASE ShutdownStep
        BY <4>3 DEF ShutdownStep, Deadline, EndDrain, Teardown, conns
      <4> QED BY <2>3, <4>1, <4>2, <4>3
    <3> QED BY <2>1, <3>1 DEF webSockets
  <2> QED BY <2>2, <2>3 DEF ServerNext, Shutdown
<1> QED BY <1>1, TypeCorrect, PTL DEF ServerSpec, NothingStartsLate
-----------------------------------------------------------------------------
(* BunSockets: a socket on Bun is counted once, and told of in order. *)

BunStates == {"new", "authorizing", "refused", "upgraded", "open", "closing", "closed"}
Callbacks == {"open", "message", "close"}

BunTyped ==
  /\ bunState \in [Sockets -> BunStates] /\ bunAddress \in [Sockets -> Clients]
  /\ slots \in [Clients -> Nat] /\ bridged \subseteq Sockets
  /\ handled \in [Sockets -> Seq(Callbacks)]

\* What the handler heard of a socket with a connection: it opened and frames came.
HeardSoFar(heard) == heard[1] = "open" /\ \A i \in 2..Len(heard) : heard[i] = "message"

\* And of one that is over: it closed last.
HeardAll(heard) ==
  /\ Len(heard) >= 2 /\ heard[1] = "open" /\ heard[Len(heard)] = "close"
  /\ \A i \in 2..(Len(heard) - 1) : heard[i] = "message"

\* A socket has a connection from open() to close(), unless it was refused a slot.
SocketSound(s) ==
  /\ s \in bridged => /\ bunState[s] \in {"open", "closing"} /\ handled[s] # <<>>
                      /\ HeardSoFar(handled[s])
  /\ bunState[s] = "open" => s \in bridged
  /\ handled[s] # <<>> /\ s \notin bridged => bunState[s] = "closed" /\ HeardAll(handled[s])

SlotsSound ==
  /\ PerAddress = 0 => \A c \in Clients : slots[c] = 0
  /\ \A c \in Clients : slots[c] <= Cardinality(Live(c))

BunInv == BunTyped /\ (\A s \in Sockets : SocketSound(s)) /\ SlotsSound

\* A socket more or less in a set, counted.
LEMMA SocketsCounted ==
  ASSUME NEW S \in SUBSET Sockets
  PROVE  /\ Cardinality(S) \in Nat
         /\ \A s \in Sockets \ S : Cardinality(S \cup {s}) = Cardinality(S) + 1
         /\ \A s \in S : Cardinality(S \ {s}) = Cardinality(S) - 1
<1>1. IsFiniteSet(S)
  BY BunAssumption, FS_Subset
<1> QED BY <1>1, FS_CardinalityType, FS_AddElement, FS_RemoveElement

LEMMA BunStarts == BunInit => BunInv
<1> SUFFICES ASSUME BunInit PROVE BunInv
  OBVIOUS
<1>1. \A s \in Sockets : bunState[s] = "new" /\ handled[s] = <<>> /\ s \notin bridged
  BY DEF BunInit
<1>2. BunTyped
  <2>1. <<>> \in Seq(Callbacks) /\ "new" \in BunStates
    BY DEF BunStates
  <2> QED BY <2>1 DEF BunInit, BunTyped
<1>3. \A s \in Sockets : SocketSound(s)
  BY <1>1 DEF SocketSound
<1>4. SlotsSound
  <2>1. \A c \in Clients : Live(c) = {}
    BY DEF BunInit, Live
  <2>2. \A c \in Clients : slots[c] = 0
    BY DEF BunInit
  <2>3. \A c \in Clients : Cardinality(Live(c)) = 0
    BY <2>1, FS_EmptySet
  <2> QED BY <2>2, <2>3 DEF SlotsSound
<1> QED BY <1>2, <1>3, <1>4 DEF BunInv

\* A step of one socket leaves the others as they are.
Others(s) ==
  \A o \in Sockets \ {s} : /\ bunState'[o] = bunState[o] /\ handled'[o] = handled[o]
                           /\ o \in bridged' <=> o \in bridged

LEMMA OthersKeep ==
  ASSUME NEW s \in Sockets, Others(s), \A o \in Sockets : SocketSound(o), SocketSound(s)'
  PROVE  \A o \in Sockets : SocketSound(o)'
BY DEF Others, SocketSound

\* A callback is heard after those before it.
LEMMA CallAppended ==
  ASSUME NEW heard \in Seq(Callbacks), NEW callback \in Callbacks
  PROVE  /\ Append(heard, callback) \in Seq(Callbacks) /\ Append(heard, callback) # <<>>
         /\ heard = <<>> /\ callback = "open" => HeardSoFar(Append(heard, callback))
         /\ heard # <<>> /\ HeardSoFar(heard) /\ callback = "message" =>
              HeardSoFar(Append(heard, callback))
         /\ heard # <<>> /\ HeardSoFar(heard) /\ callback = "close" =>
              HeardAll(Append(heard, callback))
<1>1. PICK t : t = Append(heard, callback)
  OBVIOUS
<1>2. /\ t \in Seq(Callbacks) /\ Len(t) = Len(heard) + 1 /\ Len(heard) \in Nat
      /\ \A i \in 1..Len(heard) : t[i] = heard[i]
      /\ t[Len(heard) + 1] = callback /\ t # <<>>
  BY <1>1
<1>3. heard = <<>> => Len(heard) = 0
  OBVIOUS
<1>4. heard # <<>> => Len(heard) >= 1
  OBVIOUS
<1>5. CASE heard = <<>> /\ callback = "open"
  BY <1>1, <1>2, <1>3, <1>5 DEF HeardSoFar
<1>6. CASE heard # <<>> /\ HeardSoFar(heard) /\ callback = "message"
  BY <1>1, <1>2, <1>4, <1>6 DEF HeardSoFar
<1>7. CASE heard # <<>> /\ HeardSoFar(heard) /\ callback = "close"
  BY <1>1, <1>2, <1>4, <1>7 DEF HeardSoFar, HeardAll
<1> QED BY <1>1, <1>2, <1>5, <1>6, <1>7

\* A step of a socket that the application does not see.
Unseen(s, state) ==
  /\ state \in {"authorizing", "refused", "upgraded", "closing"}
  /\ bunState' = [bunState EXCEPT ![s] = state] /\ UNCHANGED <<bunAddress, slots, bridged, handled>>
  /\ bunState[s] \in {"new", "authorizing", "upgraded"} \/ (bunState[s] = "open" /\ state = "closing")

LEMMA UnseenKeeps ==
  ASSUME NEW s \in Sockets, NEW state, BunInv, Unseen(s, state)
  PROVE  BunInv'
<1> USE DEF BunInv, BunTyped
<1>1. /\ bunAddress' = bunAddress /\ slots' = slots /\ bridged' = bridged /\ handled' = handled
      /\ bunState' = [bunState EXCEPT ![s] = state]
      /\ state \in {"authorizing", "refused", "upgraded", "closing"}
      /\ bunState[s] \in {"new", "authorizing", "upgraded"} \/ (bunState[s] = "open" /\ state = "closing")
  BY DEF Unseen
<1>2. BunTyped'
  BY <1>1 DEF BunStates
<1>3. \A o \in Sockets : SocketSound(o)'
  <2>1. bunState'[s] = state
    BY <1>1
  <2>2. SocketSound(s)'
    BY <1>1, <2>1 DEF SocketSound
  <2>3. Others(s)
    BY <1>1 DEF Others
  <2> QED BY <2>2, <2>3, OthersKeep
<1>4. SlotsSound'
  BY <1>1 DEF SlotsSound, Live
<1> QED BY <1>2, <1>3, <1>4

LEMMA QuietKeeps ==
  ASSUME NEW s \in Sockets, BunInv, Handshake(s) \/ Decide(s) \/ OpenRefused(s) \/ BeginClose(s)
  PROVE  BunInv'
<1>1. ASSUME Handshake(s) PROVE Unseen(s, "authorizing")
  BY <1>1 DEF Handshake, BunTo, Unseen
<1>2. ASSUME Decide(s) PROVE \E state \in {"refused", "upgraded"} : Unseen(s, state)
  BY <1>2 DEF Decide, BunTo, Unseen
<1>3. ASSUME OpenRefused(s) \/ BeginClose(s) PROVE Unseen(s, "closing")
  BY <1>3 DEF OpenRefused, BeginClose, BunTo, Unseen
<1> QED BY <1>1, <1>2, <1>3, UnseenKeeps

LEMMA FrameKeeps ==
  ASSUME NEW s \in Sockets, BunInv, Frame(s)
  PROVE  BunInv'
<1> USE DEF BunInv, BunTyped
<1>1. /\ bunAddress' = bunAddress /\ slots' = slots /\ bridged' = bridged /\ bunState' = bunState
      /\ handled' = [handled EXCEPT ![s] = Append(handled[s], "message")] /\ s \in bridged
  BY DEF Frame, Called
<1>2. "message" \in Callbacks /\ handled[s] \in Seq(Callbacks)
  BY DEF Callbacks
<1>3. BunTyped'
  BY <1>1, <1>2, CallAppended
<1>4. \A o \in Sockets : SocketSound(o)'
  <2>1. handled'[s] = Append(handled[s], "message")
    BY <1>1
  <2>2. SocketSound(s)'
    BY <1>1, <1>2, <2>1, CallAppended DEF SocketSound
  <2>3. Others(s)
    BY <1>1 DEF Others
  <2> QED BY <2>2, <2>3, OthersKeep
<1>5. SlotsSound'
  BY <1>1 DEF SlotsSound, Live
<1> QED BY <1>3, <1>4, <1>5

LEMMA OpenKeepsBun ==
  ASSUME NEW s \in Sockets, BunInv, OpenAccepted(s)
  PROVE  BunInv'
<1> USE DEF BunInv, BunTyped
<1>0. PICK a : a = bunAddress[s]
  OBVIOUS
<1>1. /\ bunAddress' = bunAddress /\ slots' = Acquired(a) /\ bridged' = bridged \cup {s}
      /\ bunState' = [bunState EXCEPT ![s] = "open"] /\ bunState[s] = "upgraded"
      /\ handled' = [handled EXCEPT ![s] = Append(handled[s], "open")]
  BY <1>0 DEF OpenAccepted, Called, BunTo
<1>2. "open" \in Callbacks /\ "open" \in BunStates /\ handled[s] \in Seq(Callbacks) /\ a \in Clients
  BY <1>0 DEF Callbacks, BunStates
<1>3. s \notin bridged /\ handled[s] = <<>>
  BY <1>1 DEF SocketSound
<1>4. slots' \in [Clients -> Nat]
  BY <1>1, <1>2 DEF Acquired
<1>5. BunTyped'
  BY <1>1, <1>2, <1>4, CallAppended
<1>6. \A o \in Sockets : SocketSound(o)'
  <2>1. handled'[s] = Append(handled[s], "open") /\ bunState'[s] = "open" /\ s \in bridged'
    BY <1>1
  <2>2. SocketSound(s)'
    BY <1>2, <1>3, <2>1, CallAppended DEF SocketSound
  <2>3. Others(s)
    BY <1>1 DEF Others
  <2> QED BY <2>2, <2>3, OthersKeep
<1>7. SlotsSound'
  <2>1. ASSUME NEW c \in Clients, c # a
        PROVE  slots'[c] = slots[c] /\ Live(c)' = Live(c)
    BY <1>0, <1>1, <2>1 DEF Acquired, Live
  <2>2. Live(a)' = Live(a) \cup {s} /\ s \notin Live(a) /\ Live(a) \in SUBSET Sockets
    BY <1>0, <1>1, <1>3 DEF Live
  <2>3. Cardinality(Live(a)') = Cardinality(Live(a)) + 1 /\ Cardinality(Live(a)) \in Nat
    BY <2>2, SocketsCounted
  <2>4. slots'[a] <= slots[a] + 1 /\ (PerAddress = 0 => slots' = slots)
    BY <1>1, <1>2 DEF Acquired
  <2>5. slots'[a] <= Cardinality(Live(a)')
    BY <1>2, <1>4, <2>3, <2>4 DEF SlotsSound
  <2> QED BY <2>1, <2>4, <2>5 DEF SlotsSound
<1> QED BY <1>5, <1>6, <1>7

LEMMA CloseKeepsBun ==
  ASSUME NEW s \in Sockets, BunInv, CloseCallback(s)
  PROVE  BunInv'
<1> USE DEF BunInv, BunTyped
<1>0. PICK a : a = bunAddress[s]
  OBVIOUS
<1>1. /\ bunAddress' = bunAddress /\ slots' = ReleaseSlot(a) /\ bridged' = bridged \ {s}
      /\ bunState' = [bunState EXCEPT ![s] = "closed"] /\ bunState[s] = "closing"
  BY <1>0 DEF CloseCallback, BunTo
<1>2. \/ s \in bridged /\ handled' = [handled EXCEPT ![s] = Append(handled[s], "close")]
      \/ s \notin bridged /\ handled' = handled
  BY DEF CloseCallback, Called
<1>3. "close" \in Callbacks /\ "closed" \in BunStates /\ handled[s] \in Seq(Callbacks) /\ a \in Clients
  BY <1>0 DEF Callbacks, BunStates
<1>4. slots' \in [Clients -> Nat]
  BY <1>1, <1>3 DEF ReleaseSlot
<1>5. handled' \in [Sockets -> Seq(Callbacks)]
  BY <1>2, <1>3, CallAppended
<1>6. BunTyped'
  BY <1>1, <1>3, <1>4, <1>5
<1>7. \A o \in Sockets : SocketSound(o)'
  <2>1. bunState'[s] = "closed" /\ s \notin bridged'
    BY <1>1
  <2>2. SocketSound(s)'
    <3>1. CASE s \in bridged
      <4>1. handled'[s] = Append(handled[s], "close") /\ handled[s] # <<>> /\ HeardSoFar(handled[s])
        BY <1>2, <3>1 DEF SocketSound
      <4> QED BY <1>3, <2>1, <4>1, CallAppended DEF SocketSound
    <3>2. CASE s \notin bridged
      <4>1. handled'[s] = <<>>
        BY <1>1, <1>2, <3>2 DEF SocketSound
      <4> QED BY <2>1, <4>1 DEF SocketSound
    <3> QED BY <3>1, <3>2
  <2>3. Others(s)
    BY <1>1, <1>2 DEF Others
  <2> QED BY <2>2, <2>3, OthersKeep
<1>8. SlotsSound'
  <2>1. ASSUME NEW c \in Clients, c # a
        PROVE  slots'[c] = slots[c] /\ Live(c)' = Live(c)
    BY <1>0, <1>1, <2>1 DEF ReleaseSlot, Live
  <2>2. Live(a)' = Live(a) \ {s} /\ Live(a) \in SUBSET Sockets /\ Live(a)' \in SUBSET Sockets
    BY <1>0, <1>1 DEF Live
  <2>3. /\ Cardinality(Live(a)') >= Cardinality(Live(a)) - 1
        /\ Cardinality(Live(a)) \in Nat /\ Cardinality(Live(a)') \in Nat
    <3>1. CASE s \in Live(a)
      BY <2>2, <3>1, SocketsCounted
    <3>2. CASE s \notin Live(a)
      <4>1. Live(a)' = Live(a)
        BY <2>2, <3>2
      <4>2. Cardinality(Live(a)) \in Nat
        BY <2>2, SocketsCounted
      <4> HIDE DEF BunInv
      <4> QED BY <4>1, <4>2
    <3> QED BY <3>1, <3>2
  <2>4. PerAddress = 0 => slots' = slots
    BY <1>1 DEF ReleaseSlot
  <2>5. PerAddress # 0 => slots'[a] = IF slots[a] <= 1 THEN 0 ELSE slots[a] - 1
    BY <1>1, <1>3 DEF ReleaseSlot
  <2>6. slots'[a] <= Cardinality(Live(a)')
    BY <1>3, <2>3, <2>4, <2>5 DEF SlotsSound
  <2> QED BY <2>1, <2>4, <2>6 DEF SlotsSound
<1> QED BY <1>6, <1>7, <1>8

\* On Bun the handler hears of the sockets that were accepted, in order and to the end,
\* and the limiter never counts more than there are.
THEOREM BunCallbacksSound == BunSpec => []BunSound
<1>1. BunInv /\ [BunNext]_bunVars => BunInv'
  <2> SUFFICES ASSUME BunInv, [BunNext]_bunVars PROVE BunInv'
    OBVIOUS
  <2>1. CASE UNCHANGED bunVars
    BY <2>1 DEF bunVars, BunInv, BunTyped, SocketSound, SlotsSound, Live
  <2> QED BY <2>1, QuietKeeps, FrameKeeps, OpenKeepsBun, CloseKeepsBun DEF BunNext
<1>2. ASSUME BunInv PROVE BunSound
  <2>1. ASSUME NEW s \in Sockets
        PROVE  /\ handled[s] # <<>> =>
                    /\ handled[s][1] = "open"
                    /\ \A i \in 2..Len(handled[s]) :
                         handled[s][i] = IF i = Len(handled[s]) /\ s \notin bridged THEN "close" ELSE "message"
               /\ s \in bridged => bunState[s] \in {"open", "closing"} /\ handled[s] # <<>>
               /\ bunState[s] = "refused" => handled[s] = <<>>
               /\ bunState[s] = "closed" /\ handled[s] # <<>> => Last(handled[s]) = "close"
    <3>1. SocketSound(s) /\ handled[s] \in Seq(Callbacks)
      BY <1>2 DEF BunInv, BunTyped
    <3>2. bunState[s] = "closed" /\ handled[s] # <<>> => Last(handled[s]) = "close"
      BY <3>1 DEF SocketSound, HeardAll, Last
    <3> QED BY <3>1, <3>2 DEF SocketSound, HeardSoFar, HeardAll
  <2> QED BY <1>2, <2>1 DEF BunInv, SlotsSound, BunSound
<1> QED BY <1>1, <1>2, BunStarts, PTL DEF BunSpec
-----------------------------------------------------------------------------
(* Gates: CORS, CSRF and the gates of an upgrade decide from the request at hand. *)

\* What became of the mutating request just checked is what the hook says now: whatever
\* it depends on changes only when the check is forgotten.
CsrfInv ==
  \A m \in {mutation[i] : i \in DOMAIN mutation} : m.admitted <=> Admits(m.site, m.origin, m.header)

\* A response holds the headers made for the origin that asked for it.
CorsInv ==
  /\ settings.origin = "*" => gate # "cors" \/ ~settings.credentials
  /\ cached # {} \/ obtained # <<>> => gate = "cors"
  /\ \A r \in cached : r.headers = CorsHeaders(r.origin)
  /\ \A o \in {obtained[i] : i \in DOMAIN obtained} : o.response.headers = CorsHeaders(o.by)

Optional(check, asked) == IF asked THEN {check} ELSE {}

\* What an upgrade has passed where it is.
UpgradeInv ==
  CASE upgradeAt = "origin" -> passed = {}
    [] upgradeAt = "onUpgrade" -> settings.onUpgrade /\ passed = {"origin"}
    [] upgradeAt = "hooks" ->
         settings.runRequestHooks /\ passed = {"origin"} \cup Optional("onUpgrade", settings.onUpgrade)
    [] upgradeAt = "allowed" ->
         passed = {"origin"} \cup Optional("onUpgrade", settings.onUpgrade)
                             \cup Optional("hooks", settings.runRequestHooks)
    [] upgradeAt = "refused" -> TRUE

GatesInv == CsrfInv /\ CorsInv /\ UpgradeInv /\ upgradeAt \in {"origin", "onUpgrade", "hooks", "allowed", "refused"}

LEMMA GatesStart == GatesInit => GatesInv
<1> SUFFICES ASSUME GatesInit PROVE GatesInv
  OBVIOUS
<1>1. mutation = <<>> /\ cached = {} /\ obtained = <<>> /\ upgradeAt = "origin" /\ passed = {}
  BY DEF GatesInit
<1>2. CsrfInv
  BY <1>1 DEF CsrfInv
<1>3. CorsInv
  BY <1>1 DEF GatesInit, CorsInv
<1>4. UpgradeInv
  BY <1>1 DEF UpgradeInv
<1> QED BY <1>1, <1>2, <1>3, <1>4 DEF GatesInv

LEMMA CsrfKeeps ==
  ASSUME GatesInv, CsrfTurn, mutation' = <<>> \/ MutatingRequest
  PROVE  GatesInv'
<1>1. UNCHANGED <<gate, settings, cached, obtained, upgradeAt, passed>>
  BY DEF CsrfTurn, corsVars, upgradeVars
<1>2. CorsInv'
  BY <1>1 DEF GatesInv, CorsInv, CorsHeaders, AllowOrigin
<1>3. UpgradeInv' /\ upgradeAt' \in {"origin", "onUpgrade", "hooks", "allowed", "refused"}
  BY <1>1 DEF GatesInv, UpgradeInv
<1>4. CsrfInv'
  <2>1. CASE mutation' = <<>>
    BY <2>1 DEF CsrfInv
  <2>2. CASE MutatingRequest
    <3>1. PICK site, origin, header :
            mutation' = <<[site |-> site, origin |-> origin, header |-> header, admitted |-> Admits(site, origin, header)]>>
      BY <2>2 DEF MutatingRequest
    <3>2. UNCHANGED <<settings, jarToken, session, epoch>>
      BY <1>1, <2>2 DEF MutatingRequest
    <3>3. \A s, o, h : Admits(s, o, h)' <=> Admits(s, o, h)
      BY <3>2 DEF Admits, OriginAccepted, VerifyToken, BoundTo, Secret
    <3>4. PICK m : m = [site |-> site, origin |-> origin, header |-> header, admitted |-> Admits(site, origin, header)]
      OBVIOUS
    <3>5. m.site = site /\ m.origin = origin /\ m.header = header /\ (m.admitted <=> Admits(site, origin, header))
      BY <3>4
    <3>6. {mutation'[i] : i \in DOMAIN mutation'} = {m}
      BY <3>1, <3>4
    <3> QED BY <3>3, <3>5, <3>6 DEF CsrfInv
  <2> QED BY <2>1, <2>2
<1> QED BY <1>2, <1>3, <1>4 DEF GatesInv

LEMMA FetchKeeps == GatesInv /\ Fetches => GatesInv'
<1> SUFFICES ASSUME GatesInv, Fetches PROVE GatesInv'
  OBVIOUS
<1>1. gate = "cors" /\ UNCHANGED <<gate, settings, csrfVars, upgradeVars>>
  BY DEF Fetches
<1>2. CsrfInv'
  BY <1>1 DEF csrfVars, GatesInv, CsrfInv, Admits, OriginAccepted, VerifyToken, BoundTo, Secret
<1>3. UpgradeInv' /\ upgradeAt' \in {"origin", "onUpgrade", "hooks", "allowed", "refused"}
  BY <1>1 DEF upgradeVars, GatesInv, UpgradeInv
<1>4. \A origin : CorsHeaders(origin)' = CorsHeaders(origin)
  BY <1>1 DEF CorsHeaders, AllowOrigin
<1>5. CorsInv'
  <2>1. PICK origin, kind, r :
          /\ \/ /\ r = [kind |-> kind, origin |-> origin, headers |-> CorsHeaders(origin)]
                /\ cached' = cached \cup {r}
             \/ cached' = cached /\ r \in cached /\ (r.headers.vary => r.origin = origin)
          /\ obtained' = <<[by |-> origin, response |-> r]>>
    BY DEF Fetches
  <2>2. r.headers = CorsHeaders(origin)
    <3>1. CASE r = [kind |-> kind, origin |-> origin, headers |-> CorsHeaders(origin)]
      BY <3>1
    <3>2. CASE r \in cached /\ (r.headers.vary => r.origin = origin)
      <4>1. r.headers = CorsHeaders(r.origin)
        BY <3>2 DEF GatesInv, CorsInv
      <4>2. CASE settings.origin = "*"
        BY <4>1, <4>2 DEF CorsHeaders, AllowOrigin
      <4>3. CASE settings.origin # "*"
        <5>1. CorsHeaders(r.origin).vary
          BY <4>3 DEF CorsHeaders
        <5>2. r.headers.vary
          BY <4>1, <5>1
        <5> QED BY <3>2, <4>1, <5>2
      <4> QED BY <4>2, <4>3
    <3> QED BY <2>1, <3>1, <3>2
  <2>3. \A q \in cached' : q.headers = CorsHeaders(q.origin)
    BY <2>1 DEF GatesInv, CorsInv
  <2>4. PICK o : o = [by |-> origin, response |-> r]
    OBVIOUS
  <2>5. {obtained'[i] : i \in DOMAIN obtained'} = {o} /\ o.by = origin /\ o.response = r
    BY <2>1, <2>4
  <2>6. \A q \in {obtained'[i] : i \in DOMAIN obtained'} : q.response.headers = CorsHeaders(q.by)
    BY <2>2, <2>5
  <2> QED BY <1>1, <1>4, <2>3, <2>6 DEF GatesInv, CorsInv
<1> QED BY <1>2, <1>3, <1>5 DEF GatesInv

LEMMA UpgradeKeeps == GatesInv /\ (CheckOrigin \/ CallOnUpgrade \/ RunUpgradeHooks) => GatesInv'
<1> SUFFICES ASSUME GatesInv, CheckOrigin \/ CallOnUpgrade \/ RunUpgradeHooks PROVE GatesInv'
  OBVIOUS
<1>1. UNCHANGED <<gate, settings, csrfVars, corsVars>>
  BY DEF CheckOrigin, CallOnUpgrade, RunUpgradeHooks, UpgradeStep
<1>2. CsrfInv'
  BY <1>1 DEF csrfVars, GatesInv, CsrfInv, Admits, OriginAccepted, VerifyToken, BoundTo, Secret
<1>3. CorsInv'
  BY <1>1 DEF corsVars, GatesInv, CorsInv, CorsHeaders, AllowOrigin
<1>4. UpgradeInv' /\ upgradeAt' \in {"origin", "onUpgrade", "hooks", "allowed", "refused"}
  <2>1. CASE upgradeAt' = "refused"
    BY <2>1 DEF UpgradeInv
  <2>2. CASE CheckOrigin /\ upgradeAt' # "refused"
    <3>1. /\ upgradeAt = "origin" /\ passed' = passed \cup {"origin"} /\ settings' = settings
          /\ upgradeAt' = IF settings.onUpgrade THEN "onUpgrade" ELSE AfterCallback
      BY <2>2, <1>1 DEF CheckOrigin, UpgradeStep
    <3>2. passed' = {"origin"}
      BY <3>1 DEF GatesInv, UpgradeInv
    <3> QED BY <3>1, <3>2 DEF AfterCallback, UpgradeInv, Optional
  <2>3. CASE CallOnUpgrade /\ upgradeAt' # "refused"
    <3>1. /\ upgradeAt = "onUpgrade" /\ passed' = passed \cup {"onUpgrade"} /\ settings' = settings
          /\ upgradeAt' = AfterCallback
      BY <2>3, <1>1 DEF CallOnUpgrade, UpgradeStep
    <3>2. passed' = {"origin", "onUpgrade"} /\ settings.onUpgrade
      BY <3>1 DEF GatesInv, UpgradeInv
    <3> QED BY <3>1, <3>2 DEF AfterCallback, UpgradeInv, Optional
  <2>4. CASE RunUpgradeHooks /\ upgradeAt' # "refused"
    <3>1. /\ upgradeAt = "hooks" /\ passed' = passed \cup {"hooks"} /\ settings' = settings
          /\ upgradeAt' = "allowed"
      BY <2>4, <1>1 DEF RunUpgradeHooks, UpgradeStep
    <3>2. /\ settings.runRequestHooks
          /\ passed' = {"origin"} \cup Optional("onUpgrade", settings.onUpgrade) \cup {"hooks"}
      BY <3>1 DEF GatesInv, UpgradeInv
    <3> QED BY <3>1, <3>2 DEF UpgradeInv, Optional
  <2> QED BY <2>1, <2>2, <2>3, <2>4
<1> QED BY <1>2, <1>3, <1>4 DEF GatesInv

\* Tokens admit in their session only, caches hand out no headers meant for another
\* origin, and an upgrade is let through by every check there is.
THEOREM GatesHold == GatesSpec => []GatesSound
<1>1. GatesInv /\ [GatesNext]_gateVars => GatesInv'
  <2> SUFFICES ASSUME GatesInv, [GatesNext]_gateVars PROVE GatesInv'
    OBVIOUS
  <2>1. CASE UNCHANGED gateVars
    <3>1. UNCHANGED <<gate, settings, epoch, session, jarToken, mutation, cached, obtained, upgradeAt, passed>>
      BY <2>1 DEF gateVars, csrfVars, corsVars, upgradeVars
    <3>2. CsrfInv'
      BY <3>1 DEF GatesInv, CsrfInv, Admits, OriginAccepted, VerifyToken, BoundTo, Secret
    <3>3. CorsInv'
      BY <3>1 DEF GatesInv, CorsInv, CorsHeaders, AllowOrigin
    <3>4. UpgradeInv' /\ upgradeAt' \in {"origin", "onUpgrade", "hooks", "allowed", "refused"}
      BY <3>1 DEF GatesInv, UpgradeInv
    <3> QED BY <3>2, <3>3, <3>4 DEF GatesInv
  <2>2. CASE SafeRequest \/ TokenArrives \/ PageReads \/ SessionChanges \/ Restarts \/ MutatingRequest
    <3>1. CsrfTurn /\ (mutation' = <<>> \/ MutatingRequest)
      BY <2>2 DEF SafeRequest, TokenArrives, PageReads, SessionChanges, Restarts, MutatingRequest, Unasked
    <3> QED BY <3>1, CsrfKeeps
  <2> QED BY <2>1, <2>2, FetchKeeps, UpgradeKeeps DEF GatesNext
<1>2. ASSUME GatesInv PROVE GatesSound
  <2>1. AdmittedRightly
    BY <1>2 DEF GatesInv, CsrfInv, AdmittedRightly, Admits, OriginAccepted, VerifyToken, Own
  <2>2. HonestAdmitted
    BY <1>2 DEF GatesInv, CsrfInv, HonestAdmitted, Admits, OriginAccepted, VerifyToken, Own
  <2>3. CachesHonest
    <3>1. ASSUME NEW o \in {obtained[i] : i \in DOMAIN obtained}
          PROVE  /\ o.response.headers = CorsHeaders(o.by)
                 /\ o.response.headers.credentials => o.by \in TrustedOrigins
      <4>1. o.response.headers = CorsHeaders(o.by) /\ gate = "cors"
        BY <1>2, <3>1 DEF GatesInv, CorsInv
      <4>2. CorsHeaders(o.by).credentials => o.by \in TrustedOrigins
        BY <1>2, <4>1 DEF GatesInv, CorsInv, CorsHeaders, AllowOrigin
      <4> QED BY <4>1, <4>2
    <3> QED BY <3>1 DEF CachesHonest
  <2>4. UpgradesChecked
    BY <1>2 DEF GatesInv, UpgradeInv, UpgradesChecked, Optional
  <2> QED BY <2>1, <2>2, <2>3, <2>4 DEF GatesSound
<1> QED BY <1>1, <1>2, GatesStart, PTL DEF GatesSpec
-----------------------------------------------------------------------------
(* Sequences, and what folding them comes to, which has no proof by induction here: a   *)
(* fold is a function of sets of places, and there is one by the smallest counterexample. *)

\* A set of numbers has a smallest.
LEMMA SmallestNat ==
  ASSUME NEW T, T \subseteq Nat, T # {}
  PROVE  \E n \in T : \A m \in T : n <= m
<1> DEFINE less == {ss \in Nat \X Nat : ss[1] < ss[2]}
<1>1. IsWellFoundedOn(less, Nat)
  BY NatLessThanWellFounded DEF OpToRel
<1>2. \A m, n \in Nat : m < n => <<m, n>> \in less
  OBVIOUS
<1> HIDE DEF less
<1>3. PICK n \in T : \A m \in T : <<m, n>> \notin less
  BY <1>1, WFMin
<1>4. ASSUME NEW m \in T PROVE n <= m
  <2>1. ~(m < n)
    BY <1>2, <1>3
  <2> QED BY <2>1
<1> QED BY <1>4

\* The last place of a set of places.
LEMMA LastPlace ==
  ASSUME NEW k \in Nat, NEW s \in SUBSET (1..k), s # {}
  PROVE  Max(s) \in s /\ \A i \in s : i <= Max(s)
<1> DEFINE T == {j \in Nat : \A i \in s : i <= j}
<1>1. k \in T
  OBVIOUS
<1>2. PICK n \in T : \A m \in T : n <= m
  <2>1. T \subseteq Nat /\ T # {}
    BY <1>1
  <2> QED BY <2>1, SmallestNat
<1>3. n \in s
  <2> SUFFICES ASSUME n \notin s PROVE FALSE
    OBVIOUS
  <2>1. PICK i \in s : TRUE
    OBVIOUS
  <2>2. i <= n /\ i >= 1
    BY <2>1
  <2>3. n - 1 \in Nat /\ \A j \in s : j <= n - 1
    BY <2>2
  <2>4. n - 1 \in T
    BY <2>3
  <2> QED BY <1>2, <2>4
<1>4. \E x \in s : \A y \in s : x >= y
  BY <1>3
<1>5. Max(s) \in s /\ \A y \in s : Max(s) >= y
  BY <1>4 DEF Max
<1>6. \A y \in s : y \in Nat
  OBVIOUS
<1> QED BY <1>5, <1>6

\* What FoldLeft takes to exist: a result for every set of places.
Foldable(n, V, base, step) == n \in Nat /\ base \in V /\ step \in [V \X (1..n) -> V]

Folded(n, V, base, step) ==
  \E g \in [SUBSET (1..n) -> V] :
    \A s \in SUBSET (1..n) : g[s] = IF s = {} THEN base ELSE step[<<g[s \ {Max(s)}], Max(s)>>]

LEMMA FoldExists ==
  ASSUME NEW n, NEW V, NEW base, NEW step, Foldable(n, V, base, step)
  PROVE  Folded(n, V, base, step)
<1> USE DEF Foldable, Folded
<1> DEFINE Solves(k, g) == \A s \in SUBSET (1..k) : g[s] = IF s = {} THEN base ELSE step[<<g[s \ {Max(s)}], Max(s)>>]
           Bad == {k \in 0..n : ~\E g \in [SUBSET (1..k) -> V] : Solves(k, g)}
<1>0. ASSUME Bad = {} PROVE \E g \in [SUBSET (1..n) -> V] : Solves(n, g)
  <2>1. n \in 0..n
    OBVIOUS
  <2> QED BY <1>0, <2>1
<1> SUFFICES ASSUME Bad # {} PROVE FALSE
  BY <1>0
<1>1. Bad \subseteq Nat
  OBVIOUS
<1>2. PICK k \in Bad : \A m \in Bad : k <= m
  <2> HIDE DEF Bad
  <2> QED BY <1>1, SmallestNat
<1>3. k # 0
  <2>1. Solves(0, [s \in {{}} |-> base]) /\ SUBSET (1..0) = {{}}
    OBVIOUS
  <2> QED BY <2>1
<1>4. k \in 1..n /\ k - 1 \in 0..n /\ k - 1 \notin Bad
  <2>1. k \in 1..n /\ k - 1 \in 0..n /\ ~(k <= k - 1)
    BY <1>3
  <2> HIDE DEF Bad
  <2> QED BY <1>2, <2>1
<1>5. PICK g \in [SUBSET (1..k-1) -> V] : Solves(k - 1, g)
  BY <1>4
<1>h. PICK h : h = [s \in SUBSET (1..k) |-> IF k \in s THEN step[<<g[s \ {k}], k>>] ELSE g[s]]
  OBVIOUS
<1>6. \A s \in SUBSET (1..k) : s \ {k} \in SUBSET (1..k-1) /\ (k \notin s => s \in SUBSET (1..k-1))
  BY <1>4
<1>7. h \in [SUBSET (1..k) -> V]
  <2>1. ASSUME NEW s \in SUBSET (1..k) PROVE h[s] \in V
    <3>1. g[s \ {k}] \in V
      BY <1>6
    <3>2. step[<<g[s \ {k}], k>>] \in V
      BY <1>4, <3>1
    <3>3. k \notin s => g[s] \in V
      BY <1>6
    <3> QED BY <1>h, <3>2, <3>3
  <2> QED BY <1>h, <2>1
<1>8. ASSUME NEW s \in SUBSET (1..k), s # {} PROVE h[s] = step[<<h[s \ {Max(s)}], Max(s)>>]
  <2>1. Max(s) \in s /\ \A i \in s : i <= Max(s)
    <3>1. k \in Nat
      BY <1>4
    <3> QED BY <1>8, <3>1, LastPlace
  <2>2. CASE k \in s
    <3>1. Max(s) = k
      <4>1. PICK m : m = Max(s)
        OBVIOUS
      <4>2. m \in 1..k /\ k <= m
        BY <2>1, <2>2, <4>1
      <4> QED BY <1>4, <4>1, <4>2
    <3>2. h[s \ {k}] = g[s \ {k}]
      BY <1>h, <1>6
    <3> QED BY <1>h, <2>2, <3>1, <3>2
  <2>3. CASE k \notin s
    <3>1. h[s] = g[s] /\ s \in SUBSET (1..k-1)
      BY <1>h, <1>6, <2>3
    <3>2. h[s \ {Max(s)}] = g[s \ {Max(s)}]
      BY <1>h, <1>6, <2>3
    <3> QED BY <1>5, <1>8, <3>1, <3>2
  <2> QED BY <2>2, <2>3
<1>9. h[{}] = base
  <2>1. {} \in SUBSET (1..k) /\ {} \in SUBSET (1..k-1)
    OBVIOUS
  <2>2. h[{}] = g[{}]
    BY <1>h, <2>1
  <2> QED BY <1>5, <2>1, <2>2
<1>10. Solves(k, h)
  BY <1>8, <1>9
<1> QED BY <1>7, <1>10

\* Up to n one after another.
LEMMA UpTo ==
  ASSUME NEW n \in Nat, NEW P, 0 \in P, \A k \in 1..n : k - 1 \in P => k \in P
  PROVE  \A k \in 0..n : k \in P
<1> DEFINE Bad == {k \in 0..n : k \notin P}
<1> SUFFICES ASSUME Bad # {} PROVE FALSE
  OBVIOUS
<1>1. PICK k \in Bad : \A m \in Bad : k <= m
  <2>1. Bad \subseteq Nat
    OBVIOUS
  <2> HIDE DEF Bad
  <2> QED BY <2>1, SmallestNat
<1>2. k \in 1..n /\ k \notin P
  OBVIOUS
<1>3. k - 1 \in 0..n /\ ~(k <= k - 1)
  BY <1>2
<1>4. k - 1 \in P
  BY <1>1, <1>3
<1> QED BY <1>2, <1>4

\* Folds take the places in order.
LEMMA PrefixLast ==
  ASSUME NEW n \in Nat, NEW k \in 1..n
  PROVE  1..k \in SUBSET (1..n) /\ 1..k # {} /\ Max(1..k) = k /\ (1..k) \ {k} = 1..k-1
<1>1. 1..k \in SUBSET (1..n) /\ 1..k # {} /\ k \in 1..k /\ k \in Nat
  OBVIOUS
<1>2. PICK m : m = Max(1..k)
  OBVIOUS
<1>3. m \in 1..k /\ k <= m
  BY <1>1, <1>2, LastPlace
<1>4. (1..k) \ {k} = 1..k-1
  OBVIOUS
<1> QED BY <1>1, <1>2, <1>3, <1>4

\* The places of a sequence are numbered from one.
LEMMA Numbered ==
  ASSUME NEW S, NEW s \in Seq(S)
  PROVE  DOMAIN s = 1..Len(s) /\ Len(s) \in Nat /\ \A i \in DOMAIN s : s[i] \in S
OBVIOUS

LEMMA Appended ==
  ASSUME NEW S, NEW s \in Seq(S), NEW x \in S
  PROVE  Append(s, x) \in Seq(S) /\ ToSet(Append(s, x)) = ToSet(s) \cup {x}
<1>1. Append(s, x) \in Seq(S) /\ Len(Append(s, x)) = Len(s) + 1
  OBVIOUS
<1>2. PICK t : t = Append(s, x)
  OBVIOUS
<1>3. DOMAIN t = 1..Len(s) + 1 /\ DOMAIN s = 1..Len(s) /\ Len(s) \in Nat /\ t[Len(s) + 1] = x /\ \A i \in 1..Len(s) : t[i] = s[i]
  BY <1>2
<1>4. ToSet(t) \subseteq ToSet(s) \cup {x}
  BY <1>3 DEF ToSet
<1>5. ToSet(s) \subseteq ToSet(t)
  BY <1>3 DEF ToSet
<1>6. x \in ToSet(t)
  BY <1>3 DEF ToSet
<1> QED BY <1>1, <1>2, <1>4, <1>5, <1>6

-----------------------------------------------------------------------------
(* Reply: what the application wrote arrives, through the merges of its hooks. *)

\* A Response, whose cookies are kept apart.
Responds(r) ==
  /\ DOMAIN r = {"status", "headers", "cookies", "payload", "made", "fits"}
  /\ "set-cookie" \notin DOMAIN r.headers

\* A Response whose JSON, if it is JSON in memory, can still be read.
Checkable(r) == Responds(r) /\ (r.made = "json" => r.payload # <<>>)

\* What MisfitsCaught lets go out that does not fit.
Excused(answer, making) ==
  answer.made # "data" /\ (answer.made = "json" => making.added \/ ~JsonTyped(making.merged))

\* The tokens of a Vary are all in another, or that one is "*".
Covered(headers, others) ==
  "vary" \in DOMAIN headers =>
    "vary" \in DOMAIN others /\ ("*" \in others["vary"] \/ headers["vary"] \subseteq others["vary"])

LEMMA PlainHeaders ==
  /\ DOMAIN Plain = DOMAIN replyHeaders \ {"set-cookie"}
  /\ \A h \in DOMAIN Plain : Plain[h] = replyHeaders[h]
BY DEF Plain

LEMMA VaryUnited ==
  ASSUME NEW current, NEW extra, NEW u, u = UnionVary(current, extra)
  PROVE  /\ "*" \in u \/ current \subseteq u
         /\ "*" \in u \/ extra \subseteq u
         /\ "*" \in current => "*" \in u
BY DEF UnionVary

\* What mergeReplyIntoResponse() makes of headers.
MergedFrom(m, headers, seen) ==
  /\ DOMAIN m = DOMAIN headers \cup DOMAIN Plain
  /\ \A h \in DOMAIN headers \ DOMAIN Plain : m[h] = headers[h]
  /\ \A h \in DOMAIN Plain \ DOMAIN headers : m[h] = Plain[h]
  /\ \A h \in (DOMAIN headers \cap DOMAIN Plain) \ {"vary"} :
       m[h] = IF h \in DOMAIN seen /\ seen[h] = headers[h] THEN Plain[h] ELSE headers[h]
  /\ Covered(headers, m) /\ Covered(Plain, m)
  /\ \A others : Covered(others, headers) => Covered(others, m)

LEMMA HeadersMerged ==
  ASSUME NEW headers, NEW seen, NEW m, m = MergedHeaders(headers, seen)
  PROVE  MergedFrom(m, headers, seen)
<1>1. /\ DOMAIN m = DOMAIN headers \cup DOMAIN Plain
      /\ \A h \in DOMAIN m : m[h] = IF h \notin DOMAIN Plain THEN headers[h]
                                    ELSE IF h \notin DOMAIN headers THEN Plain[h]
                                    ELSE BothHave(h, headers[h], Plain[h], seen)
  BY DEF MergedHeaders
<1>2. \A h \in DOMAIN headers \ DOMAIN Plain : m[h] = headers[h]
  BY <1>1
<1>3. \A h \in DOMAIN Plain \ DOMAIN headers : m[h] = Plain[h]
  BY <1>1
<1>4. \A h \in (DOMAIN headers \cap DOMAIN Plain) \ {"vary"} :
        m[h] = IF h \in DOMAIN seen /\ seen[h] = headers[h] THEN Plain[h] ELSE headers[h]
  BY <1>1 DEF BothHave
<1>5. "vary" \in DOMAIN headers \cap DOMAIN Plain => m["vary"] = UnionVary(headers["vary"], Plain["vary"])
  BY <1>1 DEF BothHave
<1>6. "vary" \in DOMAIN headers =>
        "vary" \in DOMAIN m /\ ("*" \in m["vary"] \/ headers["vary"] \subseteq m["vary"])
                            /\ ("*" \in headers["vary"] => "*" \in m["vary"])
  <2>1. CASE "vary" \in DOMAIN headers /\ "vary" \in DOMAIN Plain
    BY <1>1, <1>5, <2>1, VaryUnited
  <2>2. CASE "vary" \in DOMAIN headers /\ "vary" \notin DOMAIN Plain
    BY <1>1, <1>2, <2>2
  <2> QED BY <2>1, <2>2
<1>7. Covered(headers, m)
  BY <1>6 DEF Covered
<1>8. Covered(Plain, m)
  <2>1. CASE "vary" \in DOMAIN headers /\ "vary" \in DOMAIN Plain
    BY <1>1, <1>5, <2>1, VaryUnited DEF Covered
  <2>2. CASE "vary" \notin DOMAIN headers
    BY <1>1, <1>3, <2>2 DEF Covered
  <2> QED BY <2>1, <2>2 DEF Covered
<1>9. \A others : Covered(others, headers) => Covered(others, m)
  BY <1>6 DEF Covered
<1> QED BY <1>1, <1>2, <1>3, <1>4, <1>7, <1>8, <1>9 DEF MergedFrom

LEMMA Merged ==
  ASSUME NEW r, Responds(r), NEW seen, NEW m, m = Merge(r, seen)
  PROVE  /\ m.headers = MergedHeaders(r.headers, seen) /\ m.made = r.made /\ m.fits = r.fits
         /\ Responds(m) /\ (m = r \/ m.payload = <<>>)
<1>1. PICK headers, cookies : headers = MergedHeaders(r.headers, seen) /\ cookies = MergedCookies(r.cookies)
  OBVIOUS
<1>2. m = IF headers = r.headers /\ cookies = r.cookies THEN r
          ELSE [r EXCEPT !.headers = headers, !.cookies = cookies, !.payload = <<>>]
  BY <1>1 DEF Merge
<1>3. "set-cookie" \notin DOMAIN headers
  <2>1. DOMAIN headers = DOMAIN r.headers \cup DOMAIN Plain
    BY <1>1 DEF MergedHeaders
  <2> QED BY <2>1, PlainHeaders DEF Responds
<1>4. CASE m = r /\ headers = r.headers
  BY <1>1, <1>4
<1>5. CASE m = [r EXCEPT !.headers = headers, !.cookies = cookies, !.payload = <<>>]
  BY <1>1, <1>3, <1>5 DEF Responds
<1> QED BY <1>2, <1>4, <1>5

LEMMA BuiltAndSent ==
  ASSUME NEW code, NEW headers, NEW kind, NEW fits, "set-cookie" \notin DOMAIN headers
  PROVE  Checkable(BuiltResponse(code, headers)) /\ Checkable(FastResponse(code, headers, kind, fits))
<1>1. PICK cookies : cookies = HeaderCookie \o setCookies
  OBVIOUS
<1>2. PICK b : b = BuiltResponse(code, headers)
  OBVIOUS
<1>3. b = [status |-> code, headers |-> headers, cookies |-> cookies, payload |-> <<>>, made |-> "own", fits |-> TRUE]
  BY <1>1, <1>2 DEF BuiltResponse, NoResponse
<1>4. PICK body : body = [headers |-> headers, cookies |-> HeaderCookie, queue |-> TRUE]
  OBVIOUS
<1>5. PICK f : f = FastResponse(code, headers, kind, fits)
  OBVIOUS
<1>6. f = [status |-> code, headers |-> headers, cookies |-> cookies, payload |-> <<body>>, made |-> kind, fits |-> fits]
  <2>1. f = [b EXCEPT !.payload = <<body>>, !.made = kind, !.fits = fits]
    BY <1>2, <1>4, <1>5 DEF FastResponse
  <2> QED BY <2>1, <1>3
<1>7. Responds(b) /\ b.made = "own"
  BY <1>3 DEF Responds
<1>8. Responds(f) /\ f.payload # <<>>
  BY <1>6 DEF Responds
<1> QED BY <1>2, <1>5, <1>7, <1>8 DEF Checkable

LEMMA InMemoryIs ==
  ASSUME NEW code, NEW r \in InMemory(code)
  PROVE  \E type, kind, fits : r = FastResponse(code, WithType(type), kind, fits)
<1>1. CASE r \in InJson(code)
  BY <1>1 DEF InJson
<1>2. CASE r \notin InJson(code)
  BY <1>2 DEF InMemory
<1> QED BY <1>1, <1>2

LEMMA HelpersRespond ==
  /\ \A r \in Helped : Checkable(r)
  /\ \A code, type, kind, fits : /\ Checkable(BuiltResponse(code, WithType(type)))
                                 /\ Checkable(FastResponse(code, WithType(type), kind, fits))
<1>1. "set-cookie" \notin DOMAIN Plain
  BY DEF Plain
<1>2. \A type : "set-cookie" \notin DOMAIN WithType(type)
  BY <1>1 DEF WithType, WithDefault
<1>3. "set-cookie" \notin DOMAIN WithDefault("location", {"here"}, Plain)
  BY <1>1 DEF WithDefault
<1>4. \A code, type, kind, fits : /\ Checkable(BuiltResponse(code, WithType(type)))
                                  /\ Checkable(FastResponse(code, WithType(type), kind, fits))
  BY <1>2, BuiltAndSent
<1>5. Checkable(SendNull)
  BY <1>1, BuiltAndSent DEF SendNull
<1>6. Checkable(BuiltResponse(302, WithDefault("location", {"here"}, Plain)))
  BY <1>3, BuiltAndSent
<1>7. \A r \in Helped : Checkable(r)
  <2>1. SUFFICES ASSUME NEW r \in Helped PROVE Checkable(r)
    OBVIOUS
  <2>2. \/ r \in {SendNull, BuiltResponse(302, WithDefault("location", {"here"}, Plain))}
        \/ r \in InMemory(replyStatus)
        \/ r = BuiltResponse(replyStatus, WithType("stream"))
    BY Zenon DEF Helped
  <2>3. CASE r \in {SendNull, BuiltResponse(302, WithDefault("location", {"here"}, Plain))}
    BY <2>3, <1>5, <1>6
  <2>4. CASE r \in InMemory(replyStatus)
    BY <2>4, <1>4, InMemoryIs
  <2>5. CASE r = BuiltResponse(replyStatus, WithType("stream"))
    BY <2>5, <1>4
  <2> QED BY <2>2, <2>3, <2>4, <2>5
<1> QED BY <1>4, <1>7

\* An answer on its way has the headers it was made with and the builder's.
AnswerKept(answer, making, queued) ==
  /\ answer.headers = making.merged
  /\ \A h \in DOMAIN making.own \ {"vary"} : h \in DOMAIN making.merged /\ making.merged[h] = making.own[h]
  /\ DOMAIN queued[1].headers \subseteq DOMAIN making.merged
  /\ Covered(making.own, making.merged) /\ Covered(queued[1].headers, making.merged)

\* HeadersArrive, of an answer that hooks which were shown `seen` changed or did not.
Arrived(answer, making, queued, replaced, seen, headers) ==
  /\ \A h \in DOMAIN making.own \ {"vary"} : making.merged[h] = making.own[h]
  /\ \A h \in (DOMAIN queued[1].headers \cup DOMAIN making.merged) \ {"vary"} :
       h \in DOMAIN answer.headers /\
         answer.headers[h] = IF h \notin DOMAIN making.merged THEN queued[1].headers[h]
                             ELSE IF replaced /\ h \in DOMAIN seen /\ seen[h] = making.merged[h]
                             THEN headers[h] ELSE making.merged[h]
  /\ Covered(making.own, answer.headers) /\ Covered(queued[1].headers, answer.headers)

LEMMA ArrivesAsMade ==
  ASSUME NEW answer, NEW making, NEW queued, AnswerKept(answer, making, queued),
         NEW replaced \in BOOLEAN, NEW seen, ~replaced \/ DOMAIN seen = {}, NEW headers
  PROVE  Arrived(answer, making, queued, replaced, seen, headers)
<1>1. answer.headers = making.merged /\ DOMAIN queued[1].headers \subseteq DOMAIN making.merged
  BY DEF AnswerKept
<1>2. \A h \in DOMAIN making.own \ {"vary"} : making.merged[h] = making.own[h]
  BY DEF AnswerKept
<1>3. Covered(making.own, answer.headers) /\ Covered(queued[1].headers, answer.headers)
  BY DEF AnswerKept
<1> QED BY <1>1, <1>2, <1>3 DEF Arrived

LEMMA ArrivedArrives ==
  ASSUME Arrived(response', carried', due', hooked' /\ ~threw', shown', replyHeaders')
  PROVE  HeadersArrive'
<1>1. \A headers \in {carried'.own, due'[1].headers} :
        "vary" \in DOMAIN headers =>
          "*" \in response'.headers["vary"] \/ headers["vary"] \subseteq response'.headers["vary"]
  BY DEF Arrived, Covered
<1> QED BY <1>1 DEF Arrived, HeadersArrive

\* What the last merge makes of an answer when the onSend hooks have run.
LEMMA MergeArrives ==
  ASSUME NEW answer, Responds(answer), NEW making, NEW queued, AnswerKept(answer, making, queued),
         NEW seen, DOMAIN seen \subseteq DOMAIN replyHeaders, NEW m, m = Merge(answer, seen),
         NEW last, last[1].headers = Plain
  PROVE  Arrived(m, making, last, TRUE, seen, replyHeaders)
<1>1. m.headers = MergedHeaders(making.merged, seen)
  BY Merged DEF AnswerKept
<1>2. "set-cookie" \notin DOMAIN making.merged
  BY DEF AnswerKept, Responds
<1>3. PICK headers : headers = m.headers
  OBVIOUS
<1> MergedFrom(headers, making.merged, seen)
  BY <1>1, <1>3, HeadersMerged
<1>4. /\ DOMAIN headers = DOMAIN making.merged \cup DOMAIN Plain
      /\ \A h \in DOMAIN making.merged \ DOMAIN Plain : headers[h] = making.merged[h]
      /\ \A h \in DOMAIN Plain \ DOMAIN making.merged : headers[h] = Plain[h]
      /\ \A h \in (DOMAIN making.merged \cap DOMAIN Plain) \ {"vary"} :
           headers[h] = IF h \in DOMAIN seen /\ seen[h] = making.merged[h] THEN Plain[h] ELSE making.merged[h]
  BY DEF MergedFrom
<1>5. Covered(Plain, headers) /\ (Covered(making.own, making.merged) => Covered(making.own, headers))
  BY DEF MergedFrom
<1>6. \A h \in (DOMAIN Plain \cup DOMAIN making.merged) \ {"vary"} :
        h \in DOMAIN headers /\
          headers[h] = IF h \notin DOMAIN making.merged THEN Plain[h]
                       ELSE IF h \in DOMAIN seen /\ seen[h] = making.merged[h]
                       THEN replyHeaders[h] ELSE making.merged[h]
  <2>1. SUFFICES ASSUME NEW h \in (DOMAIN Plain \cup DOMAIN making.merged) \ {"vary"}
                 PROVE  headers[h] = IF h \notin DOMAIN making.merged THEN Plain[h]
                                     ELSE IF h \in DOMAIN seen /\ seen[h] = making.merged[h]
                                     THEN replyHeaders[h] ELSE making.merged[h]
    BY <1>4
  <2>2. CASE h \in DOMAIN Plain /\ h \notin DOMAIN making.merged
    BY <2>2, <1>4
  <2>3. CASE h \in DOMAIN Plain /\ h \in DOMAIN making.merged
    BY <2>3, <1>4, PlainHeaders
  <2>4. CASE h \notin DOMAIN Plain
    BY <2>4, <1>2, <1>4, PlainHeaders
  <2> QED BY <2>2, <2>3, <2>4
<1>7. \A h \in DOMAIN making.own \ {"vary"} : making.merged[h] = making.own[h]
  BY DEF AnswerKept
<1>8. Covered(making.own, headers)
  BY <1>5 DEF AnswerKept
<1> QED BY <1>3, <1>5, <1>6, <1>7, <1>8 DEF Arrived

OnItsWay == {"validating", "preSerialization", "sending", "onSend"}
Places == {"hooks", "handler", "resolving", "opening", "reading", "failing", "over"} \cup OnItsWay

ReplyTyped ==
  /\ replyAt \in Places /\ hooked \in BOOLEAN /\ checked \in BOOLEAN /\ threw \in BOOLEAN
  /\ Responds(response)

\* The handler's Response, and what is to be validated, can be checked or were changed; what
\* does not fit after that is excused.
FitSound ==
  /\ replyAt \in {"hooks", "handler", "resolving", "opening", "reading"} => Checkable(response)
  /\ replyAt = "validating" => Checkable(response) \/ carried.added
  /\ replyAt \in OnItsWay \ {"validating"} => (checked /\ ~response.fits => Excused(response, carried))
  /\ MisfitsCaught

HeadersSound ==
  /\ replyAt \in OnItsWay => AnswerKept(response, carried, due)
  /\ replyAt # "over" => ~threw
  /\ replyAt \notin {"onSend", "over"} => DOMAIN shown = {}
  /\ replyAt = "onSend" => hooked /\ DOMAIN shown \subseteq DOMAIN replyHeaders
  /\ HeadersArrive

FileSound ==
  /\ replyAt \in {"hooks", "handler", "resolving", "opening"} => served = "nothing"
  /\ FilesConfined

ReplyInv == ReplyTyped /\ FitSound /\ HeadersSound /\ FileSound

LEMMA ReplyStarts == ReplyInit => ReplyInv
<1> SUFFICES ASSUME ReplyInit PROVE ReplyInv
  OBVIOUS
<1>1. Responds(response) /\ response.made = "own"
  BY DEF ReplyInit, NoResponse, NoHeaders, Responds
<1>2. DOMAIN shown = {}
  BY DEF ReplyInit, NoHeaders
<1>3. ReplyTyped
  BY <1>1 DEF ReplyInit, ReplyTyped, Places
<1>4. FitSound
  BY <1>1 DEF ReplyInit, FitSound, Checkable, OnItsWay, MisfitsCaught
<1>5. HeadersSound
  BY <1>2 DEF ReplyInit, HeadersSound, OnItsWay, HeadersArrive
<1>6. FileSound
  BY DEF ReplyInit, FileSound, FilesConfined
<1> QED BY <1>3, <1>4, <1>5, <1>6 DEF ReplyInv

\* What answering with r leaves: r with the builder's headers.
LEMMA Answers ==
  ASSUME NEW r, Responds(r), NEW next, AnswerWith(r, next)
  PROVE  /\ Responds(response') /\ response'.made = r.made /\ response'.fits = r.fits
         /\ Checkable(r) => Checkable(response') \/ carried'.added
         /\ AnswerKept(response', carried', due') /\ replyAt' = next
<1>1. PICK m : m = Merge(r, NoHeaders)
  OBVIOUS
<1>2. /\ response' = m /\ carried' = [own |-> r.headers, merged |-> m.headers, added |-> m # r]
      /\ due'[1].headers = Plain /\ replyAt' = next
  BY <1>1 DEF AnswerWith
<1>3. /\ m.headers = MergedHeaders(r.headers, NoHeaders) /\ m.made = r.made /\ m.fits = r.fits
      /\ Responds(m) /\ (m = r \/ m.payload = <<>>)
  BY <1>1, Merged
<1>4. PICK headers : headers = m.headers
  OBVIOUS
<1> MergedFrom(headers, r.headers, NoHeaders)
  BY <1>3, <1>4, HeadersMerged
<1>5. /\ DOMAIN headers = DOMAIN r.headers \cup DOMAIN Plain
      /\ \A h \in DOMAIN r.headers \ DOMAIN Plain : headers[h] = r.headers[h]
      /\ \A h \in (DOMAIN r.headers \cap DOMAIN Plain) \ {"vary"} :
           headers[h] = IF h \in DOMAIN NoHeaders /\ NoHeaders[h] = r.headers[h] THEN Plain[h] ELSE r.headers[h]
      /\ Covered(r.headers, headers) /\ Covered(Plain, headers)
  BY DEF MergedFrom
<1>6. \A h \in DOMAIN r.headers \ {"vary"} : h \in DOMAIN headers /\ headers[h] = r.headers[h]
  BY <1>5 DEF NoHeaders
<1>7. AnswerKept(response', carried', due')
  BY <1>2, <1>4, <1>5, <1>6 DEF AnswerKept
<1>8. Checkable(r) => Checkable(response') \/ carried'.added
  BY <1>2, <1>3
<1> QED BY <1>2, <1>3, <1>7, <1>8

\* The invariant after a step that answers with r and sends it on.
LEMMA AnswerKeepsReply ==
  ASSUME ReplyInv, NEW r, Checkable(r), NEW next \in {"validating", "sending"}, AnswerWith(r, next),
         r.made = "hook" \/ r.fits \/ next = "validating",
         replyAt \in {"hooks", "handler", "resolving", "opening", "reading", "failing"},
         UNCHANGED <<hooked, checked, shown, threw>>, served' = "outside" => followed' \/ moved'
  PROVE  ReplyInv'
<1>1. /\ Responds(response') /\ response'.made = r.made /\ response'.fits = r.fits
      /\ Checkable(response') \/ carried'.added
      /\ AnswerKept(response', carried', due') /\ replyAt' = next
  BY Answers DEF Checkable
<1>2. ReplyTyped'
  BY <1>1 DEF ReplyInv, ReplyTyped, Places, OnItsWay
<1>3. FitSound'
  BY <1>1 DEF FitSound, OnItsWay, MisfitsCaught, Excused
<1>4. HeadersSound'
  BY <1>1 DEF ReplyInv, HeadersSound, OnItsWay, HeadersArrive
<1>5. FileSound'
  BY <1>1 DEF FileSound, FilesConfined
<1> QED BY <1>2, <1>3, <1>4, <1>5 DEF ReplyInv

\* A step that leaves the answer alone, and the lifecycle where it was before the handler returns.
LEMMA WaitingKeeps ==
  ASSUME ReplyInv, replyAt \in {"hooks", "handler", "resolving", "opening", "reading"},
         replyAt' \in {"hooks", "handler", "resolving", "opening", "reading"}, Checkable(response'),
         UNCHANGED <<hooked, checked, shown, threw>>, FileSound'
  PROVE  ReplyInv'
<1>1. ReplyTyped'
  BY DEF ReplyInv, ReplyTyped, Places, Checkable
<1>2. FitSound'
  BY DEF FitSound, OnItsWay, MisfitsCaught
<1>3. HeadersSound'
  BY DEF ReplyInv, HeadersSound, OnItsWay, HeadersArrive
<1> QED BY <1>1, <1>2, <1>3 DEF ReplyInv

\* The error Responses the lifecycle and sendFile() make.
LEMMA ErrorsRespond ==
  ASSUME NEW code, NEW cookies
  PROVE  LET e == [NoResponse EXCEPT !.status = code, !.headers = JsonType, !.cookies = cookies]
             p == [NoResponse EXCEPT !.status = code, !.headers = JsonType]
             n == [NoResponse EXCEPT !.status = code]
             d == [NoResponse EXCEPT !.status = code, !.made = "data", !.fits = FALSE]
             f == [NoResponse EXCEPT !.status = code, !.made = "data", !.fits = TRUE]
         IN (\A r \in {e, p, n} : Checkable(r) /\ r.fits) /\ (\A r \in {d, f} : Checkable(r))
<1>1. PICK none, json, plain : none = NoResponse /\ json = JsonType /\ plain = NoHeaders
  OBVIOUS
<1>2. "set-cookie" \notin DOMAIN json /\ "set-cookie" \notin DOMAIN plain
  BY <1>1 DEF JsonType, NoHeaders
<1>3. none = [status |-> 0, headers |-> plain, cookies |-> <<>>, payload |-> <<>>, made |-> "own", fits |-> TRUE]
  BY <1>1 DEF NoResponse
<1>4. PICK e : e = [none EXCEPT !.status = code, !.headers = json, !.cookies = cookies]
  OBVIOUS
<1>5. PICK p : p = [none EXCEPT !.status = code, !.headers = json]
  OBVIOUS
<1>6. PICK n : n = [none EXCEPT !.status = code]
  OBVIOUS
<1>7. /\ DOMAIN none = {"status", "headers", "cookies", "payload", "made", "fits"}
      /\ none.headers = plain /\ none.made = "own" /\ none.fits = TRUE
  BY <1>3
<1>8. Checkable(e) /\ e.fits
  BY <1>2, <1>4, <1>7 DEF Checkable, Responds
<1>9. Checkable(p) /\ p.fits
  BY <1>2, <1>5, <1>7 DEF Checkable, Responds
<1>10. Checkable(n) /\ n.fits
  BY <1>2, <1>6, <1>7 DEF Checkable, Responds
<1>11. PICK d : d = [none EXCEPT !.status = code, !.made = "data", !.fits = FALSE]
  OBVIOUS
<1>12. PICK f : f = [none EXCEPT !.status = code, !.made = "data", !.fits = TRUE]
  OBVIOUS
<1>13. Checkable(d)
  BY <1>2, <1>7, <1>11 DEF Checkable, Responds
<1>14. Checkable(f)
  BY <1>2, <1>7, <1>12 DEF Checkable, Responds
<1> QED BY <1>1, <1>4, <1>5, <1>6, <1>8, <1>9, <1>10, <1>11, <1>12, <1>13, <1>14

LEMMA OwnCheckable == \A r \in OwnResponses : Checkable(r)
BY ReplyAssumption DEF Checkable, Responds

\* What a handler that has sent something returns is read as it is; what hooks answer with
\* is not data, nor JSON that is looked at.
LEMMA UnsentRespond == \A r \in Unsent : Checkable(r)
<1>1. PICK code : code = replyStatus
  OBVIOUS
<1>2. SUFFICES ASSUME NEW r \in Unsent PROVE Checkable(r)
  OBVIOUS
<1>3. \/ r = [NoResponse EXCEPT !.status = code, !.made = "data", !.fits = FALSE]
      \/ r = [NoResponse EXCEPT !.status = code, !.made = "data", !.fits = TRUE]
      \/ r = [NoResponse EXCEPT !.status = code]
  BY <1>1, Zenon DEF Unsent
<1> QED BY <1>3, ErrorsRespond

LEMMA HooksRespond == \A r \in HookAnswers : Checkable(r) /\ r.made = "hook"
<1>1. SUFFICES ASSUME NEW o \in OwnResponses \cup Helped, NEW r, r = [o EXCEPT !.made = "hook"]
               PROVE  Checkable(r) /\ r.made = "hook"
  BY DEF HookAnswers
<1>2. Responds(o)
  BY HelpersRespond, OwnCheckable DEF Checkable
<1>3. DOMAIN r = {"status", "headers", "cookies", "payload", "made", "fits"} /\ r.headers = o.headers /\ r.made = "hook"
  BY <1>1, <1>2 DEF Responds
<1> QED BY <1>2, <1>3 DEF Checkable, Responds

LEMMA WriteKeepsReply == ReplyInv /\ Write => ReplyInv'
<1> SUFFICES ASSUME ReplyInv, Write PROVE ReplyInv'
  OBVIOUS
<1>1. /\ UNCHANGED <<replySent, replyAt, hooked, checked, response, shown, carried, due, threw, leaf, moved, followed, served>>
      /\ replyAt # "over"
  BY DEF Write, Written, fileVars
<1>2. DOMAIN replyHeaders \subseteq DOMAIN replyHeaders'
  <2>1. CASE replyHeaders' = replyHeaders
    BY <2>1
  <2>2. CASE \E hv \in HeaderValues : replyHeaders' = WithHeader(hv[1], hv[2], replyHeaders)
    BY <2>2 DEF WithHeader
  <2> QED BY <2>1, <2>2 DEF Write
<1>3. ReplyTyped'
  BY <1>1 DEF ReplyInv, ReplyTyped
<1>4. FitSound'
  BY <1>1 DEF ReplyInv, FitSound, MisfitsCaught
<1>5. HeadersSound'
  BY <1>1, <1>2 DEF ReplyInv, HeadersSound, HeadersArrive
<1>6. FileSound'
  BY <1>1 DEF ReplyInv, FileSound, FilesConfined
<1> QED BY <1>3, <1>4, <1>5, <1>6 DEF ReplyInv

LEMMA EarlyKeeps == ReplyInv /\ ReplyEarly => ReplyInv'
<1> SUFFICES ASSUME ReplyInv, ReplyEarly PROVE ReplyInv'
  OBVIOUS
<1>1. /\ replyAt = "hooks" /\ UNCHANGED <<hooked, checked, shown, threw, replyHeaders, served, moved, followed>>
      /\ \E r \in HookAnswers : AnswerWith(r, "over")
  BY DEF ReplyEarly, builderVars, fileVars
<1>2. PICK r : Checkable(r) /\ r.made = "hook" /\ AnswerWith(r, "over")
  BY <1>1, HooksRespond
<1>3. /\ Responds(response') /\ response'.made = r.made
      /\ AnswerKept(response', carried', due') /\ replyAt' = "over"
  BY <1>2, Answers DEF Checkable
<1>4. DOMAIN shown' = {} /\ hooked' \in BOOLEAN /\ threw' \in BOOLEAN
  BY <1>1 DEF ReplyInv, HeadersSound, ReplyTyped
<1>5. Arrived(response', carried', due', hooked' /\ ~threw', shown', replyHeaders')
  BY <1>3, <1>4, ArrivesAsMade
<1>6. HeadersArrive'
  BY <1>5, ArrivedArrives
<1>7. ReplyTyped'
  BY <1>1, <1>3 DEF ReplyInv, ReplyTyped, Places
<1>8. FitSound'
  BY <1>2, <1>3 DEF FitSound, OnItsWay, MisfitsCaught
<1>9. HeadersSound'
  BY <1>3, <1>6 DEF HeadersSound, OnItsWay
<1>10. FileSound'
  BY <1>1, <1>3 DEF ReplyInv, FileSound, FilesConfined
<1> QED BY <1>7, <1>8, <1>9, <1>10 DEF ReplyInv

LEMMA MakeKeeps == ReplyInv /\ (HooksPass \/ MakeReply) => ReplyInv'
<1> SUFFICES ASSUME ReplyInv, HooksPass \/ MakeReply PROVE ReplyInv'
  OBVIOUS
<1>1. /\ UNCHANGED <<hooked, checked, shown, threw, served, moved, followed>> /\ replyAt' = "handler"
      /\ replyAt \in {"hooks", "handler"}
  BY DEF HooksPass, MakeReply, fileVars
<1>2. Checkable(response) /\ Checkable(NoResponse)
  BY <1>1 DEF ReplyInv, FitSound, NoResponse, NoHeaders, Checkable, Responds
<1>3. Checkable(response')
  <2>1. CASE response' = response
    BY <2>1, <1>2
  <2>2. CASE response' \in Helped \cup {NoResponse}
    BY <2>2, <1>2, HelpersRespond
  <2>3. CASE \E fits \in BOOLEAN : response' = FastResponse(503, WithType("json"), "json", fits)
    BY <2>3, HelpersRespond
  <2> QED BY <2>1, <2>2, <2>3 DEF HooksPass, MakeReply
<1>4. FileSound'
  BY <1>1 DEF ReplyInv, FileSound, FilesConfined
<1> QED BY <1>1, <1>3, <1>4, WaitingKeeps

LEMMA HandlerKeeps == ReplyInv /\ (HandlerReturns \/ Serialize) => ReplyInv'
<1> SUFFICES ASSUME ReplyInv, HandlerReturns \/ Serialize PROVE ReplyInv'
  OBVIOUS
<1>1. UNCHANGED <<hooked, checked, shown, threw, served, moved, followed>> /\ replyAt = "handler"
  BY DEF HandlerReturns, Serialize, fileVars
<1>2. \A code : Checkable([NoResponse EXCEPT !.status = code])
  BY ErrorsRespond
<1>3. PICK r : Checkable(r) /\ AnswerWith(r, "validating")
  <2>1. CASE HandlerReturns
    <3>1. PICK r \in OwnResponses \cup {response} \cup (IF replySent THEN Unsent ELSE {}) : AnswerWith(r, "validating")
      BY <2>1 DEF HandlerReturns
    <3>2. Checkable(response)
      BY <1>1 DEF ReplyInv, FitSound
    <3>3. r \in OwnResponses \/ r = response \/ r \in Unsent
      OBVIOUS
    <3>4. Checkable(r)
      BY <3>2, <3>3, OwnCheckable, UnsentRespond
    <3> QED BY <3>1, <3>4
  <2>2. CASE Serialize
    <3>1. CASE \E type \in {"json", "text"}, fits \in BOOLEAN :
                 AnswerWith(FastResponse(replyStatus, WithType(type), "data", fits), "validating")
      BY <3>1, HelpersRespond
    <3>2. CASE AnswerWith([NoResponse EXCEPT !.status = 204], "validating")
      BY <3>2, <1>2
    <3> QED BY <2>2, <3>1, <3>2 DEF Serialize
  <2> QED BY <2>1, <2>2
<1>4. served' = "outside" => followed' \/ moved'
  BY <1>1 DEF ReplyInv, FileSound, FilesConfined
<1> QED BY <1>1, <1>3, <1>4, AnswerKeepsReply

LEMMA ErrorKeeps == ReplyInv /\ HandleError => ReplyInv'
<1> SUFFICES ASSUME ReplyInv, HandleError PROVE ReplyInv'
  OBVIOUS
<1>1. UNCHANGED <<hooked, checked, shown, threw, served, moved, followed>> /\ replyAt = "failing"
  BY DEF HandleError, fileVars
<1>2. PICK code : code = 500
  OBVIOUS
<1>3. PICK default : default = [NoResponse EXCEPT !.status = code, !.headers = JsonType]
  OBVIOUS
<1>4. Checkable(default) /\ default.fits
  BY <1>3, ErrorsRespond
<1>5. PICK r \in HookAnswers \cup {default} : AnswerWith(r, "sending")
  BY <1>2, <1>3 DEF HandleError
<1>6. Checkable(r) /\ (r.made = "hook" \/ r.fits)
  BY <1>4, HooksRespond
<1>7. served' = "outside" => followed' \/ moved'
  BY <1>1 DEF ReplyInv, FileSound, FilesConfined
<1> QED BY <1>1, <1>5, <1>6, <1>7, AnswerKeepsReply

\* What throws leaves the answer to the error handler.
LEMMA ThrowsKeep == ReplyInv /\ Throws => ReplyInv'
<1> SUFFICES ASSUME ReplyInv, Throws PROVE ReplyInv'
  OBVIOUS
<1>1. /\ UNCHANGED <<hooked, checked, response, shown, threw, served, moved, followed>>
      /\ replyAt \notin {"onSend", "over"} /\ replyAt' = "failing"
  BY DEF Throws, fileVars
<1>2. ReplyTyped'
  BY <1>1 DEF ReplyInv, ReplyTyped, Places
<1>3. FitSound'
  BY <1>1 DEF FitSound, OnItsWay, MisfitsCaught
<1>4. HeadersSound'
  BY <1>1 DEF ReplyInv, HeadersSound, OnItsWay, HeadersArrive
<1>5. FileSound'
  BY <1>1 DEF ReplyInv, FileSound, FilesConfined
<1> QED BY <1>2, <1>3, <1>4, <1>5 DEF ReplyInv

LEMMA ValidateKeeps == ReplyInv /\ ValidateResponse => ReplyInv'
<1> SUFFICES ASSUME ReplyInv, ValidateResponse PROVE ReplyInv'
  OBVIOUS
<1>1. /\ replyAt = "validating" /\ replyAt' = "preSerialization"
      /\ UNCHANGED <<hooked, checked, shown, threw, served, moved, followed>>
  BY DEF ValidateResponse, fileVars
<1>2. /\ Responds(response') /\ AnswerKept(response', carried', due')
      /\ checked /\ ~response'.fits => Excused(response', carried')
  <2>1. CASE Misfit
    <3>1. PICK json, body : json = JsonType /\ body = [headers |-> JsonType, cookies |-> <<>>, queue |-> FALSE]
      OBVIOUS
    <3>2. /\ response' = [NoResponse EXCEPT !.status = 500, !.headers = json, !.payload = <<body>>]
          /\ carried' = [own |-> response'.headers, merged |-> response'.headers, added |-> FALSE]
          /\ due' = <<[headers |-> NoHeaders, cookies |-> <<>>]>>
      BY <2>1, <3>1 DEF ValidateResponse
    <3>3. PICK none : none = NoResponse
      OBVIOUS
    <3>4. DOMAIN none = {"status", "headers", "cookies", "payload", "made", "fits"} /\ none.fits = TRUE
      BY <3>3 DEF NoResponse
    <3>5. DOMAIN response' = {"status", "headers", "cookies", "payload", "made", "fits"} /\ response'.headers = json /\ response'.fits
      BY <3>2, <3>3, <3>4
    <3>6. DOMAIN json = {"content-type"}
      BY <3>1 DEF JsonType
    <3>7. DOMAIN due'[1].headers = {}
      BY <3>2 DEF NoHeaders
    <3>8. carried'.own = json /\ carried'.merged = json
      BY <3>2, <3>5
    <3>9. AnswerKept(response', carried', due')
      BY <3>5, <3>6, <3>7, <3>8 DEF AnswerKept, Covered
    <3> QED BY <3>5, <3>6, <3>9 DEF Responds
  <2>2. CASE ~Misfit
    <3>1. UNCHANGED <<response, carried, due>>
      BY <2>2 DEF ValidateResponse
    <3>2. Responds(response) /\ AnswerKept(response, carried, due)
      BY <1>1 DEF ReplyInv, ReplyTyped, HeadersSound, OnItsWay
    <3>3. response.headers = carried.merged /\ (Checkable(response) \/ carried.added)
      BY <1>1, <3>2 DEF ReplyInv, FitSound, AnswerKept
    <3>4. checked /\ ~response.fits => Excused(response, carried)
      BY <2>2, <3>3 DEF Misfit, Checkable, Excused
    <3> QED BY <3>1, <3>2, <3>4
  <2> QED BY <2>1, <2>2
<1>3. ReplyTyped'
  BY <1>1, <1>2 DEF ReplyInv, ReplyTyped, Places, OnItsWay
<1>4. FitSound'
  BY <1>1, <1>2 DEF FitSound, OnItsWay, MisfitsCaught
<1>5. HeadersSound'
  BY <1>1, <1>2 DEF ReplyInv, HeadersSound, OnItsWay, HeadersArrive
<1>6. FileSound'
  BY <1>1 DEF ReplyInv, FileSound, FilesConfined
<1> QED BY <1>3, <1>4, <1>5, <1>6 DEF ReplyInv

LEMMA SendKeeps == ReplyInv /\ (Serialized \/ StartOnSend) => ReplyInv'
<1> SUFFICES ASSUME ReplyInv, Serialized \/ StartOnSend PROVE ReplyInv'
  OBVIOUS
<1>1. /\ UNCHANGED <<replyHeaders, hooked, checked, response, carried, due, threw, served, moved, followed>>
      /\ replyAt \in {"preSerialization", "sending"}
  BY DEF Serialized, StartOnSend, fileVars, builderVars
<1>2. /\ hooked \in BOOLEAN /\ threw = FALSE /\ AnswerKept(response, carried, due) /\ DOMAIN shown = {}
      /\ (checked /\ ~response.fits => Excused(response, carried))
  BY <1>1 DEF ReplyInv, ReplyTyped, HeadersSound, FitSound, OnItsWay
<1>3. \/ replyAt' = "sending" /\ UNCHANGED shown
      \/ replyAt' = "onSend" /\ hooked /\ shown' = replyHeaders
      \/ replyAt' = "over" /\ ~hooked /\ UNCHANGED shown
  BY <1>2 DEF Serialized, StartOnSend
<1>4. ReplyTyped'
  BY <1>1, <1>3 DEF ReplyInv, ReplyTyped, Places, OnItsWay
<1>5. FitSound'
  BY <1>1, <1>2, <1>3 DEF FitSound, OnItsWay, MisfitsCaught, Excused, JsonTyped
<1>6. HeadersArrive'
  <2>1. CASE replyAt' = "over"
    <3>1. ~(hooked' /\ ~threw') /\ AnswerKept(response', carried', due') /\ (hooked' /\ ~threw') \in BOOLEAN
      BY <1>1, <1>2, <1>3, <2>1
    <3>2. Arrived(response', carried', due', hooked' /\ ~threw', shown', replyHeaders')
      BY <3>1, ArrivesAsMade
    <3> QED BY <3>2, ArrivedArrives
  <2>2. CASE replyAt' # "over"
    BY <2>2 DEF HeadersArrive
  <2> QED BY <2>1, <2>2
<1>7. HeadersSound'
  BY <1>1, <1>2, <1>3, <1>6 DEF HeadersSound, OnItsWay
<1>8. FileSound'
  BY <1>1, <1>3 DEF ReplyInv, FileSound, FilesConfined
<1> QED BY <1>4, <1>5, <1>7, <1>8 DEF ReplyInv

LEMMA SentKeeps == ReplyInv /\ (OnSendDone \/ OnSendThrows) => ReplyInv'
<1> SUFFICES ASSUME ReplyInv, OnSendDone \/ OnSendThrows PROVE ReplyInv'
  OBVIOUS
<1>1. /\ UNCHANGED <<replyHeaders, hooked, checked, carried, shown, served, moved, followed>>
      /\ replyAt = "onSend" /\ replyAt' = "over"
  BY DEF OnSendDone, OnSendThrows, fileVars, builderVars
<1>2. /\ hooked = TRUE /\ threw = FALSE /\ AnswerKept(response, carried, due)
      /\ DOMAIN shown \subseteq DOMAIN replyHeaders /\ Responds(response)
      /\ (checked /\ ~response.fits => Excused(response, carried))
  BY <1>1 DEF ReplyInv, ReplyTyped, HeadersSound, FitSound, OnItsWay
<1>3. /\ Arrived(response', carried', due', hooked' /\ ~threw', shown', replyHeaders')
      /\ Responds(response') /\ response'.made = response.made /\ response'.fits = response.fits /\ threw' \in BOOLEAN
  <2>1. CASE OnSendDone
    <3>1. PICK m, last : m = Merge(response, shown) /\ last = due'
      OBVIOUS
    <3>2. response' = m /\ threw' = FALSE /\ last[1].headers = Plain
      BY <2>1, <3>1, <1>2 DEF OnSendDone
    <3>3. Arrived(m, carried, last, TRUE, shown, replyHeaders)
      BY <3>1, <3>2, <1>2, MergeArrives
    <3>4. Responds(m) /\ m.made = response.made /\ m.fits = response.fits
      BY <3>1, <1>2, Merged
    <3>5. (hooked' /\ ~threw') = TRUE
      BY <1>1, <1>2, <3>2
    <3> QED BY <1>1, <3>1, <3>2, <3>3, <3>4, <3>5
  <2>2. CASE OnSendThrows
    <3>1. threw' = TRUE /\ UNCHANGED <<response, due>> /\ ~(hooked' /\ ~threw') /\ (hooked' /\ ~threw') \in BOOLEAN
      BY <2>2 DEF OnSendThrows
    <3>2. AnswerKept(response', carried', due')
      BY <1>1, <1>2, <3>1
    <3>3. Arrived(response', carried', due', hooked' /\ ~threw', shown', replyHeaders')
      BY <3>1, <3>2, ArrivesAsMade
    <3> QED BY <3>1, <3>3, <1>2
  <2> QED BY <2>1, <2>2
<1>4. HeadersArrive'
  BY <1>3, ArrivedArrives
<1>5. ReplyTyped'
  BY <1>1, <1>3 DEF ReplyInv, ReplyTyped, Places
<1>6. FitSound'
  BY <1>1, <1>2, <1>3 DEF FitSound, OnItsWay, MisfitsCaught, Excused, JsonTyped
<1>7. HeadersSound'
  BY <1>1, <1>4 DEF HeadersSound, OnItsWay
<1>8. FileSound'
  BY <1>1 DEF ReplyInv, FileSound, FilesConfined
<1> QED BY <1>5, <1>6, <1>7, <1>8 DEF ReplyInv

\* sendFile(): what is served was opened when the handle was.
LEMMA FilesKeep == ReplyInv /\ (SendFile \/ Resolve \/ OpenFile \/ ReadHandle) => ReplyInv'
<1> SUFFICES ASSUME ReplyInv, SendFile \/ Resolve \/ OpenFile \/ ReadHandle PROVE ReplyInv'
  OBVIOUS
<1>1. /\ UNCHANGED <<hooked, checked, shown, threw>>
      /\ replyAt \in {"handler", "resolving", "opening", "reading"} /\ Checkable(response)
  <2>1. UNCHANGED <<hooked, checked, shown, threw>> /\ replyAt \in {"handler", "resolving", "opening", "reading"}
    BY DEF SendFile, Resolve, OpenFile, ReadHandle
  <2> QED BY <2>1 DEF ReplyInv, FitSound
<1>2. \A code : FileError(code) => \E r : Checkable(r) /\ AnswerWith(r, "validating")
  <2>1. SUFFICES ASSUME NEW code, FileError(code) PROVE \E r : Checkable(r) /\ AnswerWith(r, "validating")
    OBVIOUS
  <2>2. PICK r, cookies : /\ cookies = setCookies
                          /\ r = [NoResponse EXCEPT !.status = code, !.headers = JsonType, !.cookies = setCookies]
    OBVIOUS
  <2>3. r = [NoResponse EXCEPT !.status = code, !.headers = JsonType, !.cookies = cookies]
    BY <2>2
  <2>4. Checkable(r)
    BY <2>3, ErrorsRespond
  <2> QED BY <2>1, <2>2, <2>4 DEF FileError
<1>3. AnswerWith(BuiltResponse(replyStatus, WithType("file")), "validating") =>
        \E r : Checkable(r) /\ AnswerWith(r, "validating")
  BY HelpersRespond
<1>4. \/ \E r : Checkable(r) /\ AnswerWith(r, "validating")
      \/ response' = response /\ replyAt' \in {"resolving", "opening", "reading"}
  BY <1>2, <1>3 DEF SendFile, Resolve, OpenFile, ReadHandle
<1>5. /\ served' = "outside" => followed' \/ moved'
      /\ replyAt' \in {"hooks", "handler", "resolving", "opening"} => served' = "nothing"
  <2>1. /\ served = "outside" => followed \/ moved
        /\ replyAt \in {"handler", "resolving", "opening"} => served = "nothing"
    BY DEF ReplyInv, FileSound, FilesConfined
  <2>2. \A code : FileError(code) => replyAt' = "validating"
    BY DEF FileError, AnswerWith
  <2>3. CASE SendFile
    BY <2>1, <2>3 DEF SendFile
  <2>4. CASE Resolve
    BY <2>1, <2>4 DEF Resolve, fileVars
  <2>5. CASE OpenFile
    BY <2>1, <2>2, <2>5 DEF OpenFile
  <2>6. CASE ReadHandle
    <3>1. replyAt' = "validating"
      BY <2>2, <2>6 DEF ReadHandle, AnswerWith
    <3> QED BY <2>1, <2>6, <3>1 DEF ReadHandle
  <2> QED BY <2>3, <2>4, <2>5, <2>6
<1>6. CASE \E r : Checkable(r) /\ AnswerWith(r, "validating")
  BY <1>1, <1>5, <1>6, AnswerKeepsReply
<1>7. CASE response' = response /\ replyAt' \in {"resolving", "opening", "reading"}
  <2>1. FileSound'
    BY <1>5 DEF FileSound, FilesConfined
  <2> QED BY <1>1, <1>7, <2>1, WaitingKeeps
<1> QED BY <1>4, <1>6, <1>7

LEMMA FilesChangeKeeps == ReplyInv /\ FilesChange => ReplyInv'
<1> SUFFICES ASSUME ReplyInv, FilesChange PROVE ReplyInv'
  OBVIOUS
<1>1. /\ UNCHANGED <<replyAt, hooked, checked, shown, threw, response, served, followed>>
      /\ replyAt \in {"resolving", "opening", "reading"} /\ (moved => moved')
  BY DEF FilesChange
<1>2. Checkable(response')
  BY <1>1 DEF ReplyInv, FitSound
<1>3. FileSound'
  BY <1>1 DEF ReplyInv, FileSound, FilesConfined
<1> QED BY <1>1, <1>2, <1>3, WaitingKeeps

\* What uniting a list with n more cookies comes to, step by step.
Unites(n, more, base, f) ==
  /\ f[{}] = base
  /\ \A s \in SUBSET (1..n) : s # {} =>
       f[s] = IF Contains(f[s \ {Max(s)}], more[Max(s)]) THEN f[s \ {Max(s)}] ELSE Append(f[s \ {Max(s)}], more[Max(s)])

Uniting(n, more, base, S) == n \in Nat /\ base \in Seq(S) /\ \A i \in 1..n : more[i] \in S
UnitedBy(n, more, base, S, f) ==
  f[1..n] \in Seq(S) /\ ToSet(base) \subseteq ToSet(f[1..n]) /\ \A i \in 1..n : more[i] \in ToSet(f[1..n])

LEMMA UnitesExists ==
  ASSUME NEW n, NEW more, NEW base, NEW S, Uniting(n, more, base, S)
  PROVE  \E f : DOMAIN f = SUBSET (1..n) /\ f = [s \in SUBSET (1..n) |-> f[s]] /\ Unites(n, more, base, f)
<1> DEFINE V == Seq(S)
           With(list, i) == IF Contains(list, more[i]) THEN list ELSE Append(list, more[i])
           step == [v \in V \X (1..n) |-> With(v[1], v[2])]
<1>1. \A list \in V, i \in 1..n : With(list, i) \in V
  BY DEF Uniting
<1>2. \A list \in V, i \in 1..n : step[<<list, i>>] = With(list, i)
  OBVIOUS
<1>3. step \in [V \X (1..n) -> V]
  BY <1>1
<1> HIDE DEF step, V
<1>4. Foldable(n, V, base, step)
  BY <1>3 DEF Foldable, Uniting, V
<1>5. Folded(n, V, base, step)
  BY <1>4, FoldExists
<1>6. PICK g \in [SUBSET (1..n) -> V] :
         \A s \in SUBSET (1..n) : g[s] = IF s = {} THEN base ELSE step[<<g[s \ {Max(s)}], Max(s)>>]
  BY <1>5 DEF Folded
<1>7. g[{}] = base
  <2>1. {} \in SUBSET (1..n)
    OBVIOUS
  <2> QED BY <1>6, <2>1
<1>8. ASSUME NEW s \in SUBSET (1..n), s # {} PROVE g[s] = With(g[s \ {Max(s)}], Max(s))
  <2> HIDE DEF With
  <2>1. Max(s) \in 1..n /\ s \ {Max(s)} \in SUBSET (1..n)
    BY <1>8, LastPlace DEF Uniting
  <2>2. g[s \ {Max(s)}] \in V
    BY <2>1
  <2> QED BY <1>2, <1>6, <1>8, <2>1, <2>2
<1>9. Unites(n, more, base, g)
  BY <1>7, <1>8 DEF Unites
<1> QED BY <1>9

LEMMA United ==
  ASSUME NEW n, NEW more, NEW base, NEW S, NEW f, Uniting(n, more, base, S) /\ Unites(n, more, base, f)
  PROVE  UnitedBy(n, more, base, S, f)
<1> DEFINE P == {k \in 0..n : f[1..k] \in Seq(S) /\ ToSet(base) \subseteq ToSet(f[1..k]) /\ \A i \in 1..k : more[i] \in ToSet(f[1..k])}
<1>0. n \in Nat
  BY DEF Uniting
<1>1. 0 \in P
  <2>1. 1..0 = {} /\ 0 \in 0..n
    BY <1>0
  <2>2. f[1..0] = base
    BY <2>1 DEF Unites
  <2> QED BY <2>1, <2>2 DEF Uniting
<1>2. ASSUME NEW k \in 1..n, k - 1 \in P PROVE k \in P
  <2>1. 1..k \in SUBSET (1..n) /\ 1..k # {} /\ Max(1..k) = k /\ (1..k) \ {k} = 1..k-1
    BY <1>0, PrefixLast
  <2>2. PICK b : b = f[1..k-1]
    OBVIOUS
  <2>3. PICK c : c = f[1..k]
    OBVIOUS
  <2>4. c = IF Contains(b, more[k]) THEN b ELSE Append(b, more[k])
    BY <2>1, <2>2, <2>3 DEF Unites
  <2>5. b \in Seq(S) /\ ToSet(base) \subseteq ToSet(b) /\ \A i \in 1..k-1 : more[i] \in ToSet(b)
    BY <1>2, <2>2
  <2>6. PICK x \in S : x = more[k]
    BY DEF Uniting
  <2>7. c \in Seq(S) /\ ToSet(b) \subseteq ToSet(c) /\ x \in ToSet(c)
    <3>1. CASE Contains(b, x)
      <4>1. x \in ToSet(b)
        BY <2>5, <3>1, Numbered DEF Contains, ToSet
      <4> QED BY <2>4, <2>5, <2>6, <3>1, <4>1
    <3>2. CASE ~Contains(b, x)
      BY <2>4, <2>5, <2>6, <3>2, Appended
    <3> QED BY <3>1, <3>2
  <2>8. ASSUME NEW i \in 1..k PROVE more[i] \in ToSet(c)
    <3>1. CASE i = k
      BY <2>6, <2>7, <3>1
    <3>2. CASE i # k
      <4>1. i \in 1..k-1
        BY <3>2
      <4> QED BY <2>5, <2>7, <4>1
    <3> QED BY <3>1, <3>2
  <2>9. k \in 0..n
    OBVIOUS
  <2> QED BY <2>3, <2>5, <2>7, <2>8, <2>9
<1> HIDE DEF P
<1>3. \A k \in 0..n : k \in P
  BY <1>0, <1>1, <1>2, UpTo
<1>4. n \in P
  <2>1. n \in 0..n
    BY <1>0
  <2> QED BY <1>3, <2>1
<1> QED BY <1>4 DEF P, UnitedBy

\* The merged cookies are those there were and those queued.
LEMMA CookiesMerged ==
  ASSUME NEW S, NEW cookies \in Seq(S), HeaderCookie \o setCookies \in Seq(S)
  PROVE  /\ MergedCookies(cookies) \in Seq(S)
         /\ ToSet(HeaderCookie \o setCookies) \subseteq ToSet(MergedCookies(cookies))
<1>1. PICK more : more = HeaderCookie \o setCookies
  OBVIOUS
<1>2. PICK n \in Nat : n = Len(more) /\ DOMAIN more = 1..n /\ \A i \in 1..n : more[i] \in S
  BY <1>1, Numbered
<1> DEFINE Follows(f) ==
             f = [s \in SUBSET DOMAIN more |->
                    IF s = {} THEN cookies
                    ELSE IF Contains(f[s \ {Max(s)}], more[Max(s)]) THEN f[s \ {Max(s)}] ELSE Append(f[s \ {Max(s)}], more[Max(s)])]
           f == CHOOSE h : Follows(h)
<1>3. MergedCookies(cookies) = f[DOMAIN more]
  BY <1>1 DEF MergedCookies, FoldLeft, MapThenFoldSet
<1>4. Uniting(n, more, cookies, S)
  BY <1>2 DEF Uniting
<1>5. PICK g : DOMAIN g = SUBSET (1..n) /\ g = [s \in SUBSET (1..n) |-> g[s]] /\ Unites(n, more, cookies, g)
  BY <1>4, UnitesExists
<1>6. Follows(g)
  BY <1>2, <1>5 DEF Unites
<1>7. Follows(f)
  BY <1>6
<1>8. PICK h : h = f
  OBVIOUS
<1> HIDE DEF f
<1>9. Unites(n, more, cookies, h)
  BY <1>2, <1>7, <1>8 DEF Unites
<1>10. UnitedBy(n, more, cookies, S, h)
  BY <1>4, <1>9, United
<1>11. PICK m : m = MergedCookies(cookies)
  OBVIOUS
<1>12. m \in Seq(S) /\ \A i \in 1..n : more[i] \in ToSet(m)
  BY <1>2, <1>3, <1>8, <1>10, <1>11 DEF UnitedBy
<1>13. ToSet(more) \subseteq ToSet(m)
  BY <1>2, <1>12 DEF ToSet
<1> QED BY <1>1, <1>11, <1>12, <1>13

\* What normalizing the first n characters of a target comes to, step by step.
Turned(c) == IF c = "\\" THEN "/" ELSE c
Kept(list, c) == IF c = "tab" THEN list ELSE Append(list, Turned(c))
Normalizes(n, target, f) ==
  /\ f[{}] = <<>>
  /\ \A s \in SUBSET (1..n) : s # {} => f[s] = Kept(f[s \ {Max(s)}], target[Max(s)])
CleanIn(S) == (S \cup {"/"}) \ {"tab", "\\"}
Spelled(n, target, S) == n \in Nat /\ \A i \in 1..n : target[i] \in S

LEMMA NothingYet == ASSUME NEW S PROVE <<>> \in Seq(S) /\ Len(<<>>) = 0
  OBVIOUS

LEMMA SomeLength == ASSUME NEW S, NEW s \in Seq(S), s # <<>> PROVE Len(s) = 1 \/ Len(s) > 1
<1>1. PICK n : n = Len(s)
  OBVIOUS
<1>2. n \in Nat /\ n # 0
  BY <1>1
<1> QED BY <1>1, <1>2

LEMMA KeptClean ==
  ASSUME NEW S, NEW list \in Seq(CleanIn(S)), NEW c \in S
  PROVE  Kept(list, c) \in Seq(CleanIn(S))
<1>1. CASE c = "tab"
  BY <1>1 DEF Kept
<1>2. CASE c # "tab"
  <2>1. PICK x : x = Turned(c)
    OBVIOUS
  <2>2. x \in CleanIn(S)
    BY <1>2, <2>1 DEF Turned, CleanIn
  <2>3. Append(list, x) \in Seq(CleanIn(S))
    BY <2>2
  <2> QED BY <1>2, <2>1, <2>3 DEF Kept
<1> QED BY <1>1, <1>2

LEMMA NormalizesExists ==
  ASSUME NEW n, NEW target, NEW S, Spelled(n, target, S)
  PROVE  \E f : DOMAIN f = SUBSET (1..n) /\ f = [s \in SUBSET (1..n) |-> f[s]] /\ Normalizes(n, target, f)
<1> DEFINE V == Seq(CleanIn(S))
           step == [v \in V \X (1..n) |-> Kept(v[1], target[v[2]])]
<1>1. \A list \in V, i \in 1..n : Kept(list, target[i]) \in V
  BY KeptClean DEF Spelled
<1>2. \A list \in V, i \in 1..n : step[<<list, i>>] = Kept(list, target[i])
  OBVIOUS
<1>3. step \in [V \X (1..n) -> V]
  BY <1>1
<1>4. <<>> \in V
  OBVIOUS
<1> HIDE DEF step, V
<1>5. Foldable(n, V, <<>>, step)
  BY <1>3, <1>4 DEF Foldable, Spelled
<1>6. Folded(n, V, <<>>, step)
  BY <1>5, FoldExists
<1>7. PICK g \in [SUBSET (1..n) -> V] :
         \A s \in SUBSET (1..n) : g[s] = IF s = {} THEN <<>> ELSE step[<<g[s \ {Max(s)}], Max(s)>>]
  BY <1>6 DEF Folded
<1>8. g[{}] = <<>>
  <2>1. {} \in SUBSET (1..n)
    OBVIOUS
  <2> QED BY <1>7, <2>1
<1>9. ASSUME NEW s \in SUBSET (1..n), s # {} PROVE g[s] = Kept(g[s \ {Max(s)}], target[Max(s)])
  <2>1. Max(s) \in 1..n /\ s \ {Max(s)} \in SUBSET (1..n)
    BY <1>9, LastPlace DEF Spelled
  <2>2. g[s \ {Max(s)}] \in V
    BY <2>1
  <2> QED BY <1>2, <1>7, <1>9, <2>1, <2>2
<1>10. Normalizes(n, target, g)
  BY <1>8, <1>9 DEF Normalizes
<1> QED BY <1>10

\* Nothing is left of tabs and backslashes.
LEMMA NormalizesClean ==
  ASSUME NEW n, NEW target, NEW S, NEW f, Spelled(n, target, S) /\ Normalizes(n, target, f)
  PROVE  f[1..n] \in Seq(CleanIn(S))
<1> DEFINE P == {k \in 0..n : f[1..k] \in Seq(CleanIn(S))}
<1>0. n \in Nat
  BY DEF Spelled
<1>1. 0 \in P
  <2>1. 1..0 = {} /\ 0 \in 0..n
    BY <1>0
  <2>2. f[1..0] = <<>>
    BY <2>1 DEF Normalizes
  <2> QED BY <2>1, <2>2, NothingYet
<1>2. ASSUME NEW k \in 1..n, k - 1 \in P PROVE k \in P
  <2>1. 1..k \in SUBSET (1..n) /\ 1..k # {} /\ Max(1..k) = k /\ (1..k) \ {k} = 1..k-1
    BY <1>0, PrefixLast
  <2>2. f[1..k] = Kept(f[1..k-1], target[k])
    BY <2>1 DEF Normalizes
  <2>3. f[1..k-1] \in Seq(CleanIn(S)) /\ target[k] \in S
    BY <1>2 DEF Spelled
  <2>4. k \in 0..n
    OBVIOUS
  <2> QED BY <2>2, <2>3, <2>4, KeptClean
<1> HIDE DEF P
<1>3. \A k \in 0..n : k \in P
  BY <1>0, <1>1, <1>2, UpTo
<1>4. n \in P
  <2>1. n \in 0..n
    BY <1>0
  <2> QED BY <1>3, <2>1
<1> QED BY <1>4 DEF P

\* What is clean stays as it is.
LEMMA CleanStays ==
  ASSUME NEW S, NEW url \in Seq(CleanIn(S)), NEW f, Normalizes(Len(url), url, f)
  PROVE  f[1..Len(url)] = url
<1>n. PICK n \in Nat : n = Len(url)
  OBVIOUS
<1> DEFINE P == {k \in 0..n : f[1..k] \in Seq(CleanIn(S)) /\ Len(f[1..k]) = k /\ \A i \in 1..k : f[1..k][i] = url[i]}
<1>1. 0 \in P
  <2>1. 1..0 = {} /\ 0 \in 0..n /\ \A i \in 1..0 : FALSE
    OBVIOUS
  <2>2. f[1..0] = <<>>
    BY <2>1 DEF Normalizes
  <2>3. f[1..0] \in Seq(CleanIn(S)) /\ Len(f[1..0]) = 0
    BY <2>2, NothingYet
  <2> QED BY <2>1, <2>3
<1>2. ASSUME NEW k \in 1..n, k - 1 \in P PROVE k \in P
  <2>1. 1..k \in SUBSET (1..n) /\ 1..k # {} /\ Max(1..k) = k /\ (1..k) \ {k} = 1..k-1
    BY PrefixLast
  <2>2. PICK b : b = f[1..k-1]
    OBVIOUS
  <2>3. PICK c : c = f[1..k]
    OBVIOUS
  <2>4. PICK x \in CleanIn(S) : x = url[k]
    BY <1>n
  <2>5. c = Append(b, x)
    <3>1. c = Kept(b, x)
      BY <1>n, <2>1, <2>2, <2>3, <2>4 DEF Normalizes
    <3>2. x # "tab" /\ Turned(x) = x
      BY DEF CleanIn, Turned
    <3> QED BY <3>1, <3>2 DEF Kept
  <2>6. b \in Seq(CleanIn(S)) /\ Len(b) = k - 1 /\ \A i \in 1..k-1 : b[i] = url[i]
    BY <1>2, <2>2
  <2>7. c \in Seq(CleanIn(S)) /\ Len(c) = k
    BY <2>5, <2>6
  <2>8. ASSUME NEW i \in 1..k PROVE c[i] = url[i]
    <3>1. CASE i = k
      BY <2>4, <2>5, <2>6, <3>1
    <3>2. CASE i # k
      <4>1. i \in 1..k-1
        BY <3>2
      <4>2. c[i] = b[i]
        BY <2>5, <2>6, <4>1
      <4> QED BY <2>6, <4>1, <4>2
    <3> QED BY <3>1, <3>2
  <2>9. k \in 0..n
    OBVIOUS
  <2> QED BY <2>3, <2>7, <2>8, <2>9
<1> HIDE DEF P
<1>3. \A k \in 0..n : k \in P
  BY <1>1, <1>2, UpTo
<1>4. n \in P
  <2>1. n \in 0..n
    OBVIOUS
  <2> QED BY <1>3, <2>1
<1>5. PICK c : c = f[1..n]
  OBVIOUS
<1>6. c \in Seq(CleanIn(S)) /\ Len(c) = n /\ \A i \in 1..n : c[i] = url[i]
  BY <1>4, <1>5 DEF P
<1>7. c = url
  BY <1>6, <1>n
<1> QED BY <1>5, <1>7, <1>n

\* Normalized() of a target is what the steps come to.
LEMMA NormalizedTarget ==
  ASSUME NEW S, NEW target \in Seq(S)
  PROVE  \E f : Normalizes(Len(target), target, f) /\ Normalized(target) = f[1..Len(target)]
<1>1. PICK n \in Nat : n = Len(target) /\ DOMAIN target = 1..n /\ \A i \in 1..n : target[i] \in S
  BY Numbered
<1> DEFINE Follows(f) ==
             f = [s \in SUBSET DOMAIN target |->
                    IF s = {} THEN <<>>
                    ELSE IF target[Max(s)] = "tab" THEN f[s \ {Max(s)}]
                         ELSE Append(f[s \ {Max(s)}], IF target[Max(s)] = "\\" THEN "/" ELSE target[Max(s)])]
           f == CHOOSE h : Follows(h)
<1>2. Normalized(target) = f[DOMAIN target]
  BY DEF Normalized, FoldLeft, MapThenFoldSet
<1>3. Spelled(n, target, S)
  BY <1>1 DEF Spelled
<1>4. PICK g : DOMAIN g = SUBSET (1..n) /\ g = [s \in SUBSET (1..n) |-> g[s]] /\ Normalizes(n, target, g)
  BY <1>3, NormalizesExists
<1>5. Follows(g)
  BY <1>1, <1>4 DEF Normalizes, Kept, Turned
<1>6. Follows(f)
  BY <1>5
<1>7. PICK h : h = f
  OBVIOUS
<1> HIDE DEF f
<1>8. Normalizes(n, target, h)
  BY <1>1, <1>6, <1>7 DEF Normalizes, Kept, Turned
<1> HIDE DEF Follows
<1> QED BY <1>1, <1>2, <1>7, <1>8

\* Normalizing twice is normalizing once, so the loop of normalizeRedirectTarget() is over
\* after one turn, and a browser that normalizes reads what was checked.
LEMMA NormalizedOnce ==
  ASSUME NEW S, NEW target \in Seq(S)
  PROVE  Normalized(target) \in Seq(CleanIn(S)) /\ Normalized(Normalized(target)) = Normalized(target)
<1>1. PICK url : url = Normalized(target)
  OBVIOUS
<1>2. url \in Seq(CleanIn(S))
  <2>1. PICK f : Normalizes(Len(target), target, f) /\ url = f[1..Len(target)]
    BY <1>1, NormalizedTarget
  <2>2. Spelled(Len(target), target, S)
    BY Numbered DEF Spelled
  <2> QED BY <2>1, <2>2, NormalizesClean
<1>3. Normalized(url) = url
  <2>1. PICK f : Normalizes(Len(url), url, f) /\ Normalized(url) = f[1..Len(url)]
    BY <1>2, NormalizedTarget
  <2> QED BY <1>2, <2>1, CleanStays
<1> QED BY <1>1, <1>2, <1>3

\* The target of a redirect, however long and of whatever symbols, is refused or takes a
\* browser, which drops tabs and reads backslashes as slashes, to an allowed host or keeps it
\* on this one (normalizeRedirectTarget() and safeRedirectLocation() in reply.ts).
THEOREM RedirectsStayHere ==
  ASSUME NEW S, NEW target \in Seq(S), Location(target) # <<>>
  PROVE  BrowserGoes(Location(target)) \in AllowedHosts \cup {"here"}
<1>1. PICK url : url = Normalized(target)
  OBVIOUS
<1>2. url \in Seq(CleanIn(S)) /\ Normalized(url) = url
  BY <1>1, NormalizedOnce
<1>3. /\ url # <<>> /\ Location(target) = url
      /\ \/ url[1] = "/" /\ ~(Len(url) > 1 /\ url[2] = "/")
         \/ url[1] = "https:" /\ HostOf(url) \in AllowedHosts
  BY <1>1 DEF Location
<1>4. Len(url) = 1 \/ Len(url) > 1
  <2>1. PICK T : T = CleanIn(S)
    OBVIOUS
  <2>2. url \in Seq(T) /\ url # <<>>
    BY <1>2, <1>3, <2>1
  <2> QED BY <2>2, SomeLength
<1>5. CASE url[1] = "/" /\ ~(Len(url) > 1 /\ url[2] = "/")
  <2>1. Len(url) = 1 \/ url[2] # "/"
    BY <1>4, <1>5
  <2>2. BrowserGoes(url) = "here"
    BY <1>2, <1>5, <2>1 DEF BrowserGoes
  <2> QED BY <1>3, <2>2
<1>6. CASE url[1] = "https:" /\ HostOf(url) \in AllowedHosts
  <2>1. BrowserGoes(url) = HostOf(url)
    BY <1>2, <1>6 DEF BrowserGoes
  <2> QED BY <1>3, <1>6, <2>1
<1> QED BY <1>3, <1>5, <1>6

\* In particular those the runs try.
LEMMA RedirectsAllStay == RedirectsStay
<1> SUFFICES ASSUME NEW n \in 1..4, NEW target \in [1..n -> Symbols]
             PROVE  Location(target) = <<>> \/ BrowserGoes(Location(target)) \in AllowedHosts \cup {"here"}
  BY DEF RedirectsStay
<1>1. target \in Seq(Symbols)
  OBVIOUS
<1> QED BY <1>1, RedirectsStayHere

\* The cookies there are: the application's Responses have some, and some are written.
OwnCookies == UNION {ToSet(r.cookies) : r \in OwnResponses}
WrittenCookies == CookieValues \cup UNION {hv[2] : hv \in HeaderValues}
AnyCookie == WrittenCookies \cup OwnCookies
Queue == HeaderCookie \o setCookies

BuilderSound ==
  /\ setCookies \in Seq(AnyCookie)
  /\ "set-cookie" \in DOMAIN replyHeaders => \E c \in AnyCookie : replyHeaders["set-cookie"] = {c}

\* A Response's payload, of the builder or of validateResponse(), and the queue it was made
\* with have what the Response has.
CarriesCookies(r) ==
  /\ r.cookies \in Seq(AnyCookie)
  /\ r.payload # <<>> =>
       LET p == r.payload[1]
       IN /\ p.headers = r.headers /\ p.cookies \in Seq(AnyCookie)
          /\ ToSet(p.cookies) \subseteq ToSet(r.cookies)
          /\ ToSet(r.cookies) \subseteq ToSet(p.cookies) \cup (IF p.queue THEN ToSet(setCookies) ELSE {})

\* What was queued at the last merge arrived; as long as nothing is queued since, all did.
DueKept(answer, queued) ==
  /\ queued \in Seq(AnyCookie) /\ ToSet(queued) \subseteq ToSet(answer.cookies)
  /\ Len(queued) <= Len(Queue) /\ (Len(Queue) = Len(queued) => ToSet(setCookies) \subseteq ToSet(answer.cookies))

CookiesKept == /\ BuilderSound /\ CarriesCookies(response)
               /\ replyAt \in OnItsWay \cup {"over"} => DueKept(response, due[1].cookies)

LEMMA JoinedCookies ==
  ASSUME NEW S, NEW s \in Seq(S), NEW t \in Seq(S)
  PROVE  s \o t \in Seq(S) /\ Len(s \o t) = Len(s) + Len(t) /\ ToSet(s \o t) = ToSet(s) \cup ToSet(t)
<1>1. s \o t \in Seq(S) /\ Len(s \o t) = Len(s) + Len(t)
  OBVIOUS
<1>2. PICK m \in Nat, n \in Nat : m = Len(s) /\ n = Len(t) /\ DOMAIN s = 1..m /\ DOMAIN t = 1..n
  OBVIOUS
<1>3. PICK u : u = s \o t
  OBVIOUS
<1>4. /\ DOMAIN u = 1..m + n /\ \A i \in 1..m : u[i] = s[i]
      /\ \A i \in 1..m + n : i > m => u[i] = t[i - m]
  BY <1>2, <1>3
<1>5. \A i \in 1..n : i + m \in 1..m + n /\ u[i + m] = t[i]
  BY <1>4
<1>6. ToSet(s) \subseteq ToSet(u)
  BY <1>2, <1>4 DEF ToSet
<1>7. ToSet(t) \subseteq ToSet(u)
  BY <1>2, <1>4, <1>5 DEF ToSet
<1>8. ToSet(u) \subseteq ToSet(s) \cup ToSet(t)
  <2>1. ASSUME NEW i \in 1..m + n PROVE u[i] \in ToSet(s) \cup ToSet(t)
    <3>1. CASE i \in 1..m
      BY <1>2, <1>4, <3>1 DEF ToSet
    <3>2. CASE i \notin 1..m
      <4>1. i > m /\ i - m \in 1..n
        BY <3>2
      <4> QED BY <1>2, <1>4, <4>1 DEF ToSet
    <3> QED BY <3>1, <3>2
  <2> QED BY <1>4, <2>1 DEF ToSet
<1> QED BY <1>1, <1>3, <1>6, <1>7, <1>8

LEMMA NoneListed == ASSUME NEW S, NEW s \in Seq(S), Len(s) = 0 PROVE ToSet(s) = {}
<1>1. DOMAIN s = 1..Len(s)
  OBVIOUS
<1>2. PICK D : D = DOMAIN s
  OBVIOUS
<1>3. D = {}
  <2>1. D = 1..0
    BY <1>1, <1>2
  <2> QED BY <2>1
<1> QED BY <1>2, <1>3 DEF ToSet

LEMMA NothingListed == ToSet(<<>>) = {} /\ Len(<<>>) = 0
<1>1. <<>> \in Seq({}) /\ Len(<<>>) = 0
  OBVIOUS
<1> QED BY <1>1, NoneListed

LEMMA PartsOfNothing == ASSUME NEW q, NEW h \in Nat, NEW k \in Nat, q = h + k PROVE 0 <= q /\ (q = 0 => k = 0)
OBVIOUS

LEMMA OneListed == ASSUME NEW c PROVE SetToSeq({c}) = <<c>> /\ ToSet(<<c>>) = {c} /\ Len(<<c>>) = 1
<1>1. Cardinality({c}) = 1
  BY FS_Singleton
<1>2. PICK D : D = 1..1
  OBVIOUS
<1>3. D = {1}
  BY <1>2
<1>4. \A f \in [D -> {c}] : f = <<c>> /\ IsInjective(f)
  <2>1. ASSUME NEW f \in [D -> {c}] PROVE f = <<c>>
    BY <1>3
  <2>2. ASSUME NEW f \in [D -> {c}] PROVE IsInjective(f)
    BY <1>3 DEF IsInjective
  <2> QED BY <2>1, <2>2
<1>5. <<c>> \in [D -> {c}]
  BY <1>3
<1>6. SetToSeq({c}) = CHOOSE f \in [D -> {c}] : IsInjective(f)
  BY <1>1, <1>2 DEF SetToSeq
<1>7. SetToSeq({c}) = <<c>>
  BY <1>4, <1>5, <1>6
<1>8. ToSet(<<c>>) = {c}
  BY DEF ToSet
<1> QED BY <1>7, <1>8

\* The queue a merge adds: at most one cookie of the headers, and the queued ones.
LEMMA QueueOf ==
  ASSUME NEW headers, "set-cookie" \in DOMAIN headers => \E c \in AnyCookie : headers["set-cookie"] = {c},
         NEW cookies \in Seq(AnyCookie),
         NEW h, h = IF "set-cookie" \in DOMAIN headers THEN SetToSeq(headers["set-cookie"]) ELSE <<>>
  PROVE  /\ h \in Seq(AnyCookie) /\ h \o cookies \in Seq(AnyCookie)
         /\ Len(h) = (IF "set-cookie" \in DOMAIN headers THEN 1 ELSE 0)
         /\ Len(h \o cookies) = Len(h) + Len(cookies)
         /\ ToSet(h \o cookies) = ToSet(h) \cup ToSet(cookies)
<1>1. h \in Seq(AnyCookie) /\ Len(h) = (IF "set-cookie" \in DOMAIN headers THEN 1 ELSE 0)
  <2>1. CASE "set-cookie" \in DOMAIN headers
    <3>1. PICK c \in AnyCookie : headers["set-cookie"] = {c}
      BY <2>1
    <3>2. h = <<c>>
      BY <2>1, <3>1, OneListed
    <3>3. <<c>> \in Seq(AnyCookie) /\ Len(<<c>>) = 1
      OBVIOUS
    <3> QED BY <2>1, <3>2, <3>3
  <2>2. CASE "set-cookie" \notin DOMAIN headers
    BY <2>2, NothingYet
  <2> QED BY <2>1, <2>2
<1>2. h \o cookies \in Seq(AnyCookie)
  BY <1>1, JoinedCookies
<1>3. Len(h \o cookies) = Len(h) + Len(cookies)
  BY <1>1, JoinedCookies
<1>4. ToSet(h \o cookies) = ToSet(h) \cup ToSet(cookies)
  BY <1>1, JoinedCookies
<1> QED BY <1>1, <1>2, <1>3, <1>4

LEMMA QueueIs ==
  ASSUME BuilderSound
  PROVE  /\ HeaderCookie \in Seq(AnyCookie) /\ Queue \in Seq(AnyCookie)
         /\ Len(HeaderCookie) = (IF "set-cookie" \in DOMAIN replyHeaders THEN 1 ELSE 0)
         /\ Len(Queue) = Len(HeaderCookie) + Len(setCookies)
         /\ ToSet(Queue) = ToSet(HeaderCookie) \cup ToSet(setCookies)
<1>1. PICK h : h = HeaderCookie
  OBVIOUS
<1>2. h = IF "set-cookie" \in DOMAIN replyHeaders THEN SetToSeq(replyHeaders["set-cookie"]) ELSE <<>>
  BY <1>1 DEF HeaderCookie
<1>3. setCookies \in Seq(AnyCookie) /\ ("set-cookie" \in DOMAIN replyHeaders => \E c \in AnyCookie : replyHeaders["set-cookie"] = {c})
  BY DEF BuilderSound
<1> QED BY <1>1, <1>2, <1>3, QueueOf DEF Queue

LEMMA QueueNext ==
  ASSUME BuilderSound'
  PROVE  /\ Queue' \in Seq(AnyCookie)
         /\ Len(HeaderCookie') = (IF "set-cookie" \in DOMAIN replyHeaders' THEN 1 ELSE 0)
         /\ Len(Queue') = Len(HeaderCookie') + Len(setCookies')
<1>1. PICK h, headers, cookies : h = HeaderCookie' /\ headers = replyHeaders' /\ cookies = setCookies'
  OBVIOUS
<1>2. h = IF "set-cookie" \in DOMAIN headers THEN SetToSeq(headers["set-cookie"]) ELSE <<>>
  BY <1>1 DEF HeaderCookie
<1>3. cookies \in Seq(AnyCookie) /\ ("set-cookie" \in DOMAIN headers => \E c \in AnyCookie : headers["set-cookie"] = {c})
  BY <1>1 DEF BuilderSound
<1>4. Queue' = h \o cookies
  BY <1>1 DEF Queue
<1> QED BY <1>1, <1>2, <1>3, <1>4, QueueOf

\* A merge carries cookies on, and all that are queued.
LEMMA MergeCarries ==
  ASSUME BuilderSound, NEW r, Responds(r), CarriesCookies(r), NEW seen, NEW m, m = Merge(r, seen)
  PROVE  CarriesCookies(m) /\ ToSet(Queue) \subseteq ToSet(m.cookies)
<1>1. PICK headers, cookies : headers = MergedHeaders(r.headers, seen) /\ cookies = MergedCookies(r.cookies)
  OBVIOUS
<1>2. m = IF headers = r.headers /\ cookies = r.cookies THEN r
          ELSE [r EXCEPT !.headers = headers, !.cookies = cookies, !.payload = <<>>]
  BY <1>1 DEF Merge
<1>3. cookies \in Seq(AnyCookie) /\ ToSet(Queue) \subseteq ToSet(cookies)
  <2>1. r.cookies \in Seq(AnyCookie) /\ HeaderCookie \o setCookies \in Seq(AnyCookie)
    BY QueueIs DEF CarriesCookies, Queue
  <2> QED BY <1>1, <2>1, CookiesMerged DEF Queue
<1>4. CASE m = r /\ cookies = r.cookies
  BY <1>3, <1>4
<1>5. CASE m = [r EXCEPT !.headers = headers, !.cookies = cookies, !.payload = <<>>]
  <2>1. m.cookies = cookies /\ m.payload = <<>>
    BY <1>5 DEF Responds
  <2> QED BY <1>3, <2>1 DEF CarriesCookies
<1> QED BY <1>2, <1>4, <1>5

\* Answering with a Response that carries its cookies.
LEMMA AnswerCarries ==
  ASSUME BuilderSound, NEW r, Responds(r), CarriesCookies(r), NEW next, AnswerWith(r, next),
         UNCHANGED <<replyHeaders, setCookies>>
  PROVE  CookiesKept'
<1>1. PICK m : m = Merge(r, NoHeaders)
  OBVIOUS
<1>2. CarriesCookies(m) /\ ToSet(Queue) \subseteq ToSet(m.cookies)
  BY <1>1, MergeCarries
<1>3. response' = m /\ due'[1].cookies = Queue
  BY <1>1 DEF AnswerWith, Queue
<1>4. Queue' = Queue /\ BuilderSound'
  BY DEF Queue, HeaderCookie, BuilderSound
<1>5. CarriesCookies(response)'
  BY <1>2, <1>3 DEF CarriesCookies
<1>6. DueKept(response, due[1].cookies)'
  <2>1. Queue \in Seq(AnyCookie) /\ ToSet(setCookies) \subseteq ToSet(Queue) /\ Len(Queue) <= Len(Queue)
    BY QueueIs
  <2> QED BY <1>2, <1>3, <1>4, <2>1 DEF DueKept
<1> QED BY <1>4, <1>5, <1>6 DEF CookiesKept

\* What the builder makes carries its own.
LEMMA BuiltCarries ==
  ASSUME BuilderSound, NEW code, NEW headers, NEW kind, NEW fits
  PROVE  CarriesCookies(BuiltResponse(code, headers)) /\ CarriesCookies(FastResponse(code, headers, kind, fits))
<1>1. PICK cookies : cookies = Queue
  OBVIOUS
<1>2. PICK b : b = BuiltResponse(code, headers)
  OBVIOUS
<1>3. b = [status |-> code, headers |-> headers, cookies |-> cookies, payload |-> <<>>, made |-> "own", fits |-> TRUE]
  BY <1>1, <1>2 DEF BuiltResponse, NoResponse, Queue
<1>4. PICK header : header = HeaderCookie
  OBVIOUS
<1>5. PICK body : body = [headers |-> headers, cookies |-> header, queue |-> TRUE]
  OBVIOUS
<1>6. PICK f : f = FastResponse(code, headers, kind, fits)
  OBVIOUS
<1>7. f = [status |-> code, headers |-> headers, cookies |-> cookies, payload |-> <<body>>, made |-> kind, fits |-> fits]
  <2>1. f = [b EXCEPT !.payload = <<body>>, !.made = kind, !.fits = fits]
    BY <1>2, <1>4, <1>5, <1>6 DEF FastResponse
  <2> QED BY <2>1, <1>3
<1>8. cookies \in Seq(AnyCookie) /\ header \in Seq(AnyCookie) /\ ToSet(cookies) = ToSet(header) \cup ToSet(setCookies)
  BY <1>1, <1>4, QueueIs
<1>9. CarriesCookies(b)
  <2>1. b.cookies = cookies /\ b.payload = <<>>
    BY <1>3
  <2> QED BY <1>8, <2>1 DEF CarriesCookies
<1>10. CarriesCookies(f)
  <2>1. f.cookies = cookies /\ f.headers = headers /\ f.payload = <<body>>
    BY <1>7
  <2>2. body.headers = headers /\ body.cookies = header /\ body.queue = TRUE
    BY <1>5
  <2>3. f.payload[1] = body
    BY <2>1
  <2> QED BY <1>8, <2>1, <2>2, <2>3 DEF CarriesCookies
<1> QED BY <1>2, <1>6, <1>9, <1>10

\* So do the error Responses and those the handler builds itself.
LEMMA ErrorsCarry ==
  ASSUME BuilderSound, NEW code
  PROVE  /\ CarriesCookies(NoResponse) /\ CarriesCookies([NoResponse EXCEPT !.status = code])
         /\ CarriesCookies([NoResponse EXCEPT !.status = code, !.headers = JsonType])
         /\ CarriesCookies([NoResponse EXCEPT !.status = code, !.headers = JsonType, !.cookies = setCookies])
<1>1. PICK none, json, plain, queued : none = NoResponse /\ json = JsonType /\ plain = NoHeaders /\ queued = setCookies
  OBVIOUS
<1>2. none = [status |-> 0, headers |-> plain, cookies |-> <<>>, payload |-> <<>>, made |-> "own", fits |-> TRUE]
  BY <1>1 DEF NoResponse
<1>3. \A r : r.payload = <<>> /\ (r.cookies = <<>> \/ r.cookies = queued) => CarriesCookies(r)
  BY <1>1, NothingYet DEF CarriesCookies, BuilderSound
<1>4. PICK n : n = [none EXCEPT !.status = code]
  OBVIOUS
<1>5. PICK p : p = [none EXCEPT !.status = code, !.headers = json]
  OBVIOUS
<1>6. PICK e : e = [none EXCEPT !.status = code, !.headers = json, !.cookies = queued]
  OBVIOUS
<1>7. none.payload = <<>> /\ none.cookies = <<>>
  BY <1>2
<1>8. n.payload = <<>> /\ n.cookies = <<>>
  BY <1>2, <1>4
<1>9. p.payload = <<>> /\ p.cookies = <<>>
  BY <1>2, <1>5
<1>10. e.payload = <<>> /\ e.cookies = queued
  BY <1>2, <1>6
<1>11. CarriesCookies(none) /\ CarriesCookies(n) /\ CarriesCookies(p) /\ CarriesCookies(e)
  BY <1>3, <1>7, <1>8, <1>9, <1>10
<1> QED BY <1>1, <1>4, <1>5, <1>6, <1>11

LEMMA OwnAreAny == OwnCookies \subseteq AnyCookie
BY DEF AnyCookie

LEMMA NoMore == ASSUME NEW n \in Nat PROVE n <= n
OBVIOUS

LEMMA OwnCarry == ASSUME NEW r \in OwnResponses PROVE CarriesCookies(r)
<1>1. r.cookies \in Seq(ToSet(r.cookies)) /\ r.payload = <<>>
  BY ReplyAssumption
<1>2. PICK s, S : s = r.cookies /\ S = ToSet(r.cookies)
  OBVIOUS
<1>3. S \subseteq AnyCookie
  <2>1. S \in {ToSet(o.cookies) : o \in OwnResponses}
    BY <1>2
  <2>2. PICK own : own = OwnCookies
    OBVIOUS
  <2>3. S \subseteq own
    <3>1. PICK all : all = {ToSet(o.cookies) : o \in OwnResponses}
      OBVIOUS
    <3>2. S \in all /\ own = UNION all
      BY <2>1, <2>2, <3>1 DEF OwnCookies
    <3> QED BY <3>2
  <2>4. own \subseteq AnyCookie
    BY <2>2, OwnAreAny
  <2> QED BY <2>3, <2>4
<1>4. s \in Seq(S)
  BY <1>1, <1>2
<1>5. s \in Seq(AnyCookie)
  BY <1>3, <1>4
<1> QED BY <1>1, <1>2, <1>5 DEF CarriesCookies

LEMMA HelpersCarry ==
  ASSUME BuilderSound, NEW r \in Helped
  PROVE  CarriesCookies(r)
<1>1. \/ r = FastResponse(replyStatus, Plain, "own", TRUE)
      \/ r = BuiltResponse(302, WithDefault("location", {"here"}, Plain))
      \/ \E type, kind, fits : r = FastResponse(replyStatus, WithType(type), kind, fits)
      \/ r = BuiltResponse(replyStatus, WithType("stream"))
  <2>1. CASE r \in InMemory(replyStatus)
    BY <2>1, InMemoryIs
  <2>2. CASE r \notin InMemory(replyStatus)
    BY <2>2 DEF Helped, SendNull
  <2> QED BY <2>1, <2>2
<1> QED BY <1>1, BuiltCarries

\* And what hooks, error handlers and a handler that has sent something answer with.
LEMMA HooksCarry ==
  ASSUME BuilderSound, NEW r \in HookAnswers
  PROVE  CarriesCookies(r)
<1>1. PICK o \in OwnResponses \cup Helped : r = [o EXCEPT !.made = "hook"]
  BY DEF HookAnswers
<1>2. CarriesCookies(o) /\ Responds(o)
  BY OwnCarry, HelpersCarry, OwnCheckable, HelpersRespond DEF Checkable
<1>3. r.cookies = o.cookies /\ r.payload = o.payload /\ r.headers = o.headers
  BY <1>1, <1>2 DEF Responds
<1> QED BY <1>2, <1>3 DEF CarriesCookies

LEMMA UnsentCarry ==
  ASSUME BuilderSound, NEW r \in Unsent
  PROVE  CarriesCookies(r)
<1>1. PICK none, code : none = NoResponse /\ code = replyStatus
  OBVIOUS
<1>2. \/ \E fits : r = [none EXCEPT !.status = code, !.made = "data", !.fits = fits]
      \/ r = [none EXCEPT !.status = code]
  BY <1>1 DEF Unsent
<1>3. none.payload = <<>> /\ none.cookies = <<>> /\ DOMAIN none = {"status", "headers", "cookies", "payload", "made", "fits"}
  BY <1>1 DEF NoResponse
<1>4. r.payload = <<>> /\ r.cookies = <<>>
  BY <1>2, <1>3
<1> QED BY <1>4, NothingYet DEF CarriesCookies

LEMMA WriteKeepsCookies == CookiesKept /\ Write => CookiesKept'
<1> SUFFICES ASSUME CookiesKept, Write PROVE CookiesKept'
  OBVIOUS
<1>1. UNCHANGED <<replyAt, response, due>> /\ replyAt \notin {"over"}
  BY DEF Write, Written
<1>2. BuilderSound
  BY DEF CookiesKept
<1>3. BuilderSound' /\ Len(Queue) <= Len(Queue') /\ (setCookies' = setCookies \/ Len(Queue) < Len(Queue')) /\ ToSet(setCookies) \subseteq ToSet(setCookies')
  <2>1. CASE \E hv \in HeaderValues : replyHeaders' = WithHeader(hv[1], hv[2], replyHeaders) /\ setCookies' = setCookies
    <3>1. PICK hv \in HeaderValues : replyHeaders' = WithHeader(hv[1], hv[2], replyHeaders) /\ setCookies' = setCookies
      BY <2>1
    <3>2. DOMAIN replyHeaders' = DOMAIN replyHeaders \cup {hv[1]}
          /\ \A h \in DOMAIN replyHeaders' : replyHeaders'[h] = IF h = hv[1] THEN hv[2] ELSE replyHeaders[h]
      BY <3>1 DEF WithHeader
    <3>3. ASSUME "set-cookie" \in DOMAIN replyHeaders' PROVE \E c \in AnyCookie : replyHeaders'["set-cookie"] = {c}
      <4>1. CASE hv[1] = "set-cookie"
        <5>1. PICK c \in hv[2] : hv[2] = {c}
          BY <4>1, ReplyAssumption
        <5>2. c \in AnyCookie
          BY Zenon DEF AnyCookie, WrittenCookies
        <5> QED BY <3>2, <3>3, <4>1, <5>1, <5>2
      <4>2. CASE hv[1] # "set-cookie"
        BY <1>2, <3>2, <3>3, <4>2 DEF BuilderSound
      <4> QED BY <4>1, <4>2
    <3>4. BuilderSound'
      BY <1>2, <3>1, <3>3 DEF BuilderSound
    <3>5. /\ Len(Queue) = Len(HeaderCookie) + Len(setCookies)
          /\ Len(HeaderCookie) = (IF "set-cookie" \in DOMAIN replyHeaders THEN 1 ELSE 0)
      BY <1>2, QueueIs
    <3>6. /\ Len(Queue') = Len(HeaderCookie') + Len(setCookies')
          /\ Len(HeaderCookie') = (IF "set-cookie" \in DOMAIN replyHeaders' THEN 1 ELSE 0)
      BY <3>4, QueueNext
    <3>7. PICK n : n = Len(setCookies)
      OBVIOUS
    <3>8. n \in Nat
      BY <1>2, <3>7, Numbered DEF BuilderSound
    <3>9. Len(Queue) <= Len(Queue')
      <4>1. PICK h, k : h = Len(HeaderCookie) /\ k = Len(HeaderCookie')
        OBVIOUS
      <4>2. h \in Nat /\ k \in Nat /\ h <= k
        BY <3>2, <3>5, <3>6, <4>1
      <4>3. Len(Queue) = h + n /\ Len(Queue') = k + n
        BY <3>1, <3>5, <3>6, <3>7, <4>1
      <4> QED BY <3>8, <4>2, <4>3
    <3> QED BY <3>1, <3>4, <3>9
  <2>2. CASE \E c \in CookieValues : setCookies' = Append(setCookies, c) /\ replyHeaders' = replyHeaders
    <3>1. PICK c \in CookieValues : setCookies' = Append(setCookies, c) /\ replyHeaders' = replyHeaders
      BY <2>2
    <3>2. c \in AnyCookie
      BY DEF AnyCookie, WrittenCookies
    <3>3. PICK s \in Seq(AnyCookie) : s = setCookies
      BY <1>2 DEF BuilderSound
    <3>4. Append(s, c) \in Seq(AnyCookie) /\ Len(Append(s, c)) = Len(s) + 1 /\ ToSet(s) \subseteq ToSet(Append(s, c)) /\ Len(s) \in Nat
      <4>1. Append(s, c) \in Seq(AnyCookie) /\ Len(Append(s, c)) = Len(s) + 1 /\ Len(s) \in Nat
        BY <3>2
      <4> QED BY <3>2, <4>1, Appended
    <3>5. BuilderSound'
      BY <1>2, <3>1, <3>3, <3>4 DEF BuilderSound
    <3>6. HeaderCookie' = HeaderCookie
      BY <3>1 DEF HeaderCookie
    <3>7. Len(Queue) = Len(HeaderCookie) + Len(setCookies) /\ HeaderCookie \in Seq(AnyCookie)
      BY <1>2, QueueIs
    <3>8. Len(Queue') = Len(HeaderCookie) + Len(setCookies')
      <4>1. HeaderCookie' \o setCookies' = HeaderCookie \o Append(s, c)
        BY <3>1, <3>3, <3>6
      <4>2. Len(HeaderCookie \o Append(s, c)) = Len(HeaderCookie) + Len(Append(s, c))
        BY <3>4, <3>7, JoinedCookies
      <4> QED BY <3>1, <3>3, <4>1, <4>2 DEF Queue
    <3>9. PICK m, k : m = Len(HeaderCookie) /\ k = Len(s)
      OBVIOUS
    <3>10. m \in Nat /\ k \in Nat
      BY <3>3, <3>7, <3>9, Numbered
    <3>11. Len(Queue) = m + k /\ Len(Queue') = m + (k + 1)
      BY <3>1, <3>3, <3>4, <3>7, <3>8, <3>9
    <3>12. Len(Queue) <= Len(Queue') /\ Len(Queue) < Len(Queue')
      BY <3>10, <3>11
    <3> QED BY <3>1, <3>3, <3>4, <3>5, <3>12
  <2>3. CASE UNCHANGED <<replyHeaders, setCookies>>
    <3>1. Queue' = Queue /\ BuilderSound'
      BY <1>2, <2>3 DEF Queue, HeaderCookie, BuilderSound
    <3>2. PICK q : q = Queue
      OBVIOUS
    <3>3. q \in Seq(AnyCookie)
      BY <1>2, <3>2, QueueIs
    <3>4. Len(q) <= Len(q)
      BY <3>3
    <3> QED BY <2>3, <3>1, <3>2, <3>4
  <2> QED BY <2>1, <2>2, <2>3 DEF Write
<1>4. CarriesCookies(response)'
  BY <1>1, <1>3 DEF CookiesKept, CarriesCookies
<1>5. ASSUME replyAt \in OnItsWay \cup {"over"} PROVE DueKept(response, due[1].cookies)'
  <2>1. DueKept(response, due[1].cookies)
    BY <1>5 DEF CookiesKept
  <2>2. PICK d, q, r : d = Len(due[1].cookies) /\ q = Len(Queue) /\ r = Len(Queue')
    OBVIOUS
  <2>3. d \in Nat /\ q \in Nat
    <3>1. due[1].cookies \in Seq(AnyCookie) /\ Queue \in Seq(AnyCookie)
      BY <1>2, <2>1, QueueIs DEF DueKept
    <3> QED BY <2>2, <3>1, Numbered
  <2>4. r \in Nat
    <3>1. Queue' \in Seq(AnyCookie)
      BY <1>3, QueueNext
    <3> QED BY <2>2, <3>1, Numbered
  <2>5. d <= r /\ (r = d => q = d /\ ~(q < r))
    BY <1>3, <2>1, <2>2, <2>3, <2>4 DEF DueKept
  <2> QED BY <1>1, <1>3, <2>1, <2>2, <2>5 DEF DueKept
<1> QED BY <1>1, <1>3, <1>4, <1>5 DEF CookiesKept

\* A step that neither writes nor makes another answer.
LEMMA PassingKeepsCookies ==
  ASSUME CookiesKept, UNCHANGED <<replyHeaders, setCookies, due>>, response' = response \/ CarriesCookies(response'),
         replyAt' \in OnItsWay \cup {"over"} => response' = response /\ replyAt \in OnItsWay \cup {"over"}
  PROVE  CookiesKept'
<1>1. Queue' = Queue /\ BuilderSound'
  BY DEF Queue, HeaderCookie, BuilderSound, CookiesKept
<1>2. CarriesCookies(response)'
  BY DEF CookiesKept, CarriesCookies
<1>3. replyAt' \in OnItsWay \cup {"over"} => DueKept(response, due[1].cookies)'
  BY <1>1 DEF CookiesKept, DueKept
<1> QED BY <1>1, <1>2, <1>3 DEF CookiesKept

\* The steps of the lifecycle.
LEMMA LifecycleKeepsCookies ==
  ASSUME CookiesKept, Responds(response)
  PROVE  [ReplyNext]_replyVars => CookiesKept'
<1>r. \A r \in OwnResponses \cup HookAnswers \cup Unsent : Responds(r)
  BY HooksRespond, UnsentRespond, OwnCheckable DEF Checkable
<1>f. \A code, type, kind, fits : /\ Responds(BuiltResponse(code, WithType(type)))
                                  /\ Responds(FastResponse(code, WithType(type), kind, fits))
  BY HelpersRespond DEF Checkable
<1>e. \A code : /\ Responds([NoResponse EXCEPT !.status = code]) /\ Responds([NoResponse EXCEPT !.status = code, !.headers = JsonType])
               /\ Responds([NoResponse EXCEPT !.status = code, !.headers = JsonType, !.cookies = setCookies])
  BY ErrorsRespond DEF Checkable
<1> SUFFICES ASSUME [ReplyNext]_replyVars PROVE CookiesKept'
  OBVIOUS
<1>b. BuilderSound /\ CarriesCookies(response)
  BY DEF CookiesKept
<1>1. CASE Write
  BY <1>1, WriteKeepsCookies
<1>2. CASE ReplyEarly \/ HandlerReturns \/ Serialize \/ HandleError
  <2>1. \A r \in OwnResponses : CarriesCookies(r)
    BY OwnCarry
  <2>2. \A r \in HookAnswers \cup Unsent : CarriesCookies(r)
    BY <1>b, HooksCarry, UnsentCarry
  <2>3. PICK r, next : Responds(r) /\ CarriesCookies(r) /\ AnswerWith(r, next)
    <3>1. CASE ReplyEarly
      <4>1. PICK r \in HookAnswers : AnswerWith(r, "over")
        BY <3>1 DEF ReplyEarly
      <4> QED BY <1>r, <2>2, <4>1
    <3>2. CASE HandlerReturns
      <4>1. PICK r \in OwnResponses \cup {response} \cup (IF replySent THEN Unsent ELSE {}) : AnswerWith(r, "validating")
        BY <3>2 DEF HandlerReturns
      <4>2. r \in OwnResponses \/ r = response \/ r \in Unsent
        OBVIOUS
      <4>3. CarriesCookies(r) /\ Responds(r)
        BY <1>b, <1>r, <2>1, <2>2, <4>2
      <4> QED BY <4>1, <4>3
    <3>3. CASE Serialize
      <4>1. CASE \E type \in {"json", "text"}, fits \in BOOLEAN :
                   AnswerWith(FastResponse(replyStatus, WithType(type), "data", fits), "validating")
        BY <1>b, <1>f, <4>1, BuiltCarries
      <4>2. CASE AnswerWith([NoResponse EXCEPT !.status = 204], "validating")
        BY <1>b, <1>e, <4>2, ErrorsCarry
      <4> QED BY <3>3, <4>1, <4>2 DEF Serialize
    <3>4. CASE HandleError
      <4>1. CASE \E r \in HookAnswers : AnswerWith(r, "sending")
        BY <1>r, <2>2, <4>1
      <4>2. CASE AnswerWith([NoResponse EXCEPT !.status = 500, !.headers = JsonType], "sending")
        BY <1>b, <1>e, <4>2, ErrorsCarry
      <4> QED BY <3>4, <4>1, <4>2 DEF HandleError
    <3> QED BY <1>2, <3>1, <3>2, <3>3, <3>4
  <2>4. UNCHANGED <<replyHeaders, setCookies>>
    BY <1>2 DEF ReplyEarly, HandlerReturns, Serialize, HandleError, builderVars
  <2> QED BY <1>b, <2>3, <2>4, AnswerCarries
<1>3. CASE HooksPass \/ MakeReply \/ FilesChange \/ Throws
  <2>1. UNCHANGED <<replyHeaders, setCookies, due>> /\ replyAt' \notin OnItsWay \cup {"over"}
    BY <1>3 DEF HooksPass, MakeReply, FilesChange, Throws, builderVars, OnItsWay
  <2>2. response' = response \/ CarriesCookies(response')
    <3>1. CASE HooksPass \/ FilesChange \/ Throws
      BY <3>1 DEF HooksPass, FilesChange, Throws
    <3>2. CASE MakeReply
      <4>1. \/ response' \in Helped \/ response' = NoResponse
            \/ \E fits \in BOOLEAN : response' = FastResponse(503, WithType("json"), "json", fits)
        BY <3>2 DEF MakeReply
      <4>2. CASE response' \in Helped
        BY <1>b, <4>2, HelpersCarry
      <4>3. CASE response' = NoResponse
        BY <1>b, <4>3, ErrorsCarry
      <4>4. CASE \E fits \in BOOLEAN : response' = FastResponse(503, WithType("json"), "json", fits)
        BY <1>b, <4>4, BuiltCarries
      <4> QED BY <4>1, <4>2, <4>3, <4>4
    <3> QED BY <1>3, <3>1, <3>2
  <2> QED BY <2>1, <2>2, PassingKeepsCookies
<1>4. CASE ValidateResponse
  <2>1. CASE Misfit
    <3>1. PICK json, body : json = JsonType /\ body = [headers |-> JsonType, cookies |-> <<>>, queue |-> FALSE]
      OBVIOUS
    <3>2. /\ response' = [NoResponse EXCEPT !.status = 500, !.headers = json, !.payload = <<body>>]
          /\ due' = <<[headers |-> NoHeaders, cookies |-> <<>>]>> /\ UNCHANGED <<replyHeaders, setCookies>>
      BY <1>4, <2>1, <3>1 DEF ValidateResponse, builderVars
    <3>3. PICK none : none = NoResponse
      OBVIOUS
    <3>4. DOMAIN none = {"status", "headers", "cookies", "payload", "made", "fits"} /\ none.cookies = <<>>
      BY <3>3 DEF NoResponse
    <3>5. response'.headers = json /\ response'.cookies = <<>> /\ response'.payload = <<body>>
      BY <3>2, <3>3, <3>4
    <3>6. body.headers = json /\ body.cookies = <<>> /\ body.queue = FALSE
      BY <3>1
    <3>7. <<body>>[1] = body
      OBVIOUS
    <3>8. CarriesCookies(response)'
      BY <3>5, <3>6, <3>7, NothingYet DEF CarriesCookies
    <3>9. due'[1].cookies = <<>>
      BY <3>2
    <3>10. BuilderSound' /\ Queue' = Queue
      BY <1>b, <3>2 DEF BuilderSound, Queue, HeaderCookie
    <3>11. DueKept(response, due[1].cookies)'
      <4>1. Queue \in Seq(AnyCookie) /\ Len(Queue) = Len(HeaderCookie) + Len(setCookies) /\ HeaderCookie \in Seq(AnyCookie)
        BY <1>b, QueueIs
      <4>2. setCookies \in Seq(AnyCookie)
        BY <1>b DEF BuilderSound
      <4>3. PICK q, h, k : q = Len(Queue) /\ h = Len(HeaderCookie) /\ k = Len(setCookies)
        OBVIOUS
      <4>4. q \in Nat /\ h \in Nat /\ k \in Nat /\ q = h + k
        BY <4>1, <4>2, <4>3, Numbered
      <4>5. 0 <= q /\ (q = 0 => k = 0)
        BY <4>4, PartsOfNothing
      <4>6. k = 0 => ToSet(setCookies) = {}
        BY <4>2, <4>3, NoneListed
      <4>7. ToSet(<<>>) = {} /\ Len(<<>>) = 0
        BY NothingListed
      <4> QED BY <3>2, <3>5, <3>9, <3>10, <4>3, <4>5, <4>6, <4>7, NothingYet DEF DueKept
    <3> QED BY <3>8, <3>10, <3>11 DEF CookiesKept
  <2>2. CASE ~Misfit
    <3>1. UNCHANGED <<replyHeaders, setCookies, due, response>> /\ replyAt \in OnItsWay
      BY <1>4, <2>2 DEF ValidateResponse, builderVars, OnItsWay
    <3> QED BY <3>1, PassingKeepsCookies
  <2> QED BY <2>1, <2>2
<1>5. CASE Serialized \/ StartOnSend \/ OnSendThrows
  <2>1. UNCHANGED <<replyHeaders, setCookies, due, response>> /\ replyAt \in OnItsWay
    BY <1>5 DEF Serialized, StartOnSend, OnSendThrows, builderVars, OnItsWay
  <2> QED BY <2>1, PassingKeepsCookies
<1>6. CASE OnSendDone
  <2>1. PICK m : m = Merge(response, shown)
    OBVIOUS
  <2>2. CarriesCookies(m) /\ ToSet(Queue) \subseteq ToSet(m.cookies)
    BY <1>b, <2>1, MergeCarries
  <2>3. response' = m /\ due'[1].cookies = Queue /\ UNCHANGED <<replyHeaders, setCookies>>
    BY <1>6, <2>1 DEF OnSendDone, Queue, builderVars
  <2>4. Queue' = Queue /\ BuilderSound'
    BY <1>b, <2>3 DEF Queue, HeaderCookie, BuilderSound
  <2>5. CarriesCookies(response)'
    BY <2>2, <2>3 DEF CarriesCookies
  <2>6. DueKept(response, due[1].cookies)'
    <3>1. Queue \in Seq(AnyCookie) /\ ToSet(setCookies) \subseteq ToSet(Queue)
      BY <1>b, QueueIs
    <3>2. Len(Queue) \in Nat
      BY <3>1, Numbered
    <3>3. PICK n \in Nat : n = Len(Queue)
      BY <3>2
    <3>4. n <= n
      BY NoMore
    <3> QED BY <2>2, <2>3, <2>4, <3>1, <3>3, <3>4 DEF DueKept
  <2> QED BY <2>4, <2>5, <2>6 DEF CookiesKept
<1>7. CASE SendFile \/ Resolve \/ OpenFile \/ ReadHandle
  <2>1. UNCHANGED <<replyHeaders, setCookies>>
    BY <1>7 DEF SendFile, Resolve, OpenFile, ReadHandle, builderVars
  <2>2. \/ UNCHANGED <<response, due>> /\ replyAt' \notin OnItsWay \cup {"over"}
        \/ \E code : FileError(code)
        \/ AnswerWith(BuiltResponse(replyStatus, WithType("file")), "validating")
    BY <1>7 DEF SendFile, Resolve, OpenFile, ReadHandle, OnItsWay
  <2>3. CASE UNCHANGED <<response, due>> /\ replyAt' \notin OnItsWay \cup {"over"}
    BY <2>1, <2>3, PassingKeepsCookies
  <2>4. CASE \E code : FileError(code)
    <3>1. PICK code : FileError(code)
      BY <2>4
    <3>2. AnswerWith([NoResponse EXCEPT !.status = code, !.headers = JsonType, !.cookies = setCookies], "validating")
      BY <3>1 DEF FileError
    <3> QED BY <1>b, <1>e, <2>1, <3>2, ErrorsCarry, AnswerCarries
  <2>5. CASE AnswerWith(BuiltResponse(replyStatus, WithType("file")), "validating")
    BY <1>b, <1>f, <2>1, <2>5, BuiltCarries, AnswerCarries
  <2> QED BY <2>2, <2>3, <2>4, <2>5
<1>8. CASE UNCHANGED replyVars
  <2>1. UNCHANGED <<replyHeaders, setCookies, due, response, replyAt>>
    BY <1>8 DEF replyVars, builderVars
  <2> QED BY <2>1, PassingKeepsCookies
<1> QED BY <1>1, <1>2, <1>3, <1>4, <1>5, <1>6, <1>7, <1>8 DEF ReplyNext

LEMMA NoCookiesYet == ReplyInit => CookiesKept
<1> SUFFICES ASSUME ReplyInit PROVE CookiesKept
  OBVIOUS
<1>1. BuilderSound
  BY NothingYet DEF ReplyInit, NoHeaders, BuilderSound
<1>2. CarriesCookies(response)
  BY <1>1, ErrorsCarry DEF ReplyInit
<1>3. replyAt \notin OnItsWay \cup {"over"}
  BY DEF ReplyInit, OnItsWay
<1> QED BY <1>1, <1>2, <1>3 DEF CookiesKept

LEMMA KeptArrive ==
  ASSUME CookiesKept
  PROVE  CookiesArrive /\ WrittenAsAnswered
<1>1. CookiesArrive
  BY DEF CookiesKept, DueKept, CookiesArrive
<1>2. ASSUME replyAt = "over", Len(HeaderCookie \o setCookies) = Len(due[1].cookies)
      PROVE  NodeWrites.headers = response.headers /\ ToSet(NodeWrites.cookies) = ToSet(response.cookies)
  <2>1. CarriesCookies(response) /\ BuilderSound /\ DueKept(response, due[1].cookies)
    BY <1>2 DEF CookiesKept
  <2>2. ToSet(setCookies) \subseteq ToSet(response.cookies)
    BY <1>2, <2>1 DEF DueKept, Queue
  <2>3. CASE response.payload = <<>>
    BY <2>3 DEF NodeWrites
  <2>4. CASE response.payload # <<>>
    <3>1. PICK p : p = response.payload[1]
      OBVIOUS
    <3>2. /\ p.headers = response.headers /\ p.cookies \in Seq(AnyCookie)
          /\ ToSet(p.cookies) \subseteq ToSet(response.cookies)
          /\ ToSet(response.cookies) \subseteq ToSet(p.cookies) \cup (IF p.queue THEN ToSet(setCookies) ELSE {})
      BY <2>1, <2>4, <3>1 DEF CarriesCookies
    <3>3. NodeWrites = [headers |-> p.headers, cookies |-> p.cookies \o (IF p.queue THEN setCookies ELSE <<>>)]
      BY <2>4, <3>1 DEF NodeWrites
    <3>4. PICK written : written = p.cookies \o (IF p.queue THEN setCookies ELSE <<>>)
      OBVIOUS
    <3>5. ToSet(written) = ToSet(p.cookies) \cup (IF p.queue THEN ToSet(setCookies) ELSE {})
      <4>1. CASE p.queue
        BY <2>1, <3>2, <3>4, <4>1, JoinedCookies DEF BuilderSound
      <4>2. CASE ~p.queue
        <5>1. ToSet(<<>>) = {}
          BY DEF ToSet
        <5> QED BY <3>2, <3>4, <4>2, <5>1, JoinedCookies, NothingYet
      <4> QED BY <4>1, <4>2
    <3>6. ToSet(written) = ToSet(response.cookies)
      BY <2>2, <3>2, <3>5
    <3> QED BY <3>2, <3>3, <3>4, <3>6
  <2> QED BY <2>3, <2>4
<1> QED BY <1>1, <1>2 DEF WrittenAsAnswered

\* Whatever writes to the builder, hooks and Responses, headers, cookies and statuses there
\* are: each cookie queued before the last merge is on the answer, and what Node writes is
\* what was answered unless something is queued after it (reply.ts, serve.ts); each header queued before the last merge is on the answer, one the answer was made
\* with yields only to an onSend hook that was shown it, and Vary's tokens add up
\* (response-merge.ts); data a handler returns that does not fit the schema is replaced, and so
\* is JSON it made in memory unless that is not typed as JSON or the builder had something to
\* add, which hides it from validateResponse() (app.ts); sendFile() leaves
\* its root only through links it may follow or a directory replaced under it; and no target
\* of redirect() takes the browser to a host that is not allowed (reply.ts).
THEOREM RepliesSound == ReplySpec => []ReplySound
<1>1. ReplyInv /\ [ReplyNext]_replyVars => ReplyInv'
  <2> SUFFICES ASSUME ReplyInv, [ReplyNext]_replyVars PROVE ReplyInv'
    OBVIOUS
  <2>1. CASE UNCHANGED replyVars
    BY <2>1 DEF replyVars, builderVars, fileVars, ReplyInv, ReplyTyped, FitSound, MisfitsCaught, Excused, JsonTyped,
                HeadersSound, HeadersArrive, FileSound, FilesConfined
  <2>2. CASE Write
    BY <2>2, WriteKeepsReply
  <2>3. CASE ReplyEarly
    BY <2>3, EarlyKeeps
  <2>4. CASE HooksPass \/ MakeReply
    BY <2>4, MakeKeeps
  <2>5. CASE HandlerReturns \/ Serialize
    BY <2>5, HandlerKeeps
  <2>6. CASE ValidateResponse
    BY <2>6, ValidateKeeps
  <2>7. CASE HandleError
    BY <2>7, ErrorKeeps
  <2>8. CASE Serialized \/ StartOnSend
    BY <2>8, SendKeeps
  <2>9. CASE OnSendDone \/ OnSendThrows
    BY <2>9, SentKeeps
  <2>10. CASE SendFile \/ Resolve \/ OpenFile \/ ReadHandle
    BY <2>10, FilesKeep
  <2>11. CASE FilesChange
    BY <2>11, FilesChangeKeeps
  <2>12. CASE Throws
    BY <2>12, ThrowsKeep
  <2> QED BY <2>1, <2>2, <2>3, <2>4, <2>5, <2>6, <2>7, <2>8, <2>9, <2>10, <2>11, <2>12 DEF ReplyNext
<1>2. ReplyInv /\ CookiesKept /\ [ReplyNext]_replyVars => CookiesKept'
  BY LifecycleKeepsCookies DEF ReplyInv, ReplyTyped
<1>3. ReplyInv /\ CookiesKept => ReplySound
  BY KeptArrive, RedirectsAllStay DEF ReplyInv, FitSound, HeadersSound, FileSound, ReplySound
<1> QED BY <1>1, <1>2, <1>3, ReplyStarts, NoCookiesYet, PTL DEF ReplySpec
-----------------------------------------------------------------------------
(* Platforms: what becomes of a cron invocation on a serverless platform is told. *)

Ended(inv, ending) == {j \in DOMAIN inv.outcome : inv.outcome[j] = ending}

\* An invocation that began selected what it should, and one that is over counted what
\* became of each job.
InvocationSound(inv) ==
  /\ DOMAIN inv = {"state", "trigger", "outcome", "status", "ran", "failed"}
  /\ inv.state \in {"unused", "running", "done"}
  /\ inv.outcome = [j \in DOMAIN inv.outcome |-> inv.outcome[j]]
  /\ \A j \in DOMAIN inv.outcome : inv.outcome[j] \in {"pending", "ran", "failed"}
  /\ DOMAIN inv.outcome \in {{}, ToRun(inv.trigger)}
  /\ inv.state = "unused" => inv = Unused
  /\ inv.state = "running" => inv.status = 0
  /\ inv.state = "done" =>
       /\ Ended(inv, "pending") = {}
       /\ \/ DOMAIN inv.outcome = {}
          \/ /\ inv.ran = Ended(inv, "ran") /\ inv.failed = Ended(inv, "failed")
             /\ inv.status = IF inv.failed = {} THEN 200 ELSE 500

InvocationsInv ==
  /\ DOMAIN invocations = 1..MaxInvocations
  /\ \A i \in 1..MaxInvocations : InvocationSound(invocations[i])

LEMMA UnusedSound ==
  ASSUME NEW inv, NEW code, inv = Unused \/ inv = Refused(code)
  PROVE  InvocationSound(inv)
<1>1. /\ DOMAIN inv = {"state", "trigger", "outcome", "status", "ran", "failed"}
      /\ inv.state = "unused" => inv = Unused
      /\ inv.state \in {"unused", "done"} /\ DOMAIN inv.outcome = {}
      /\ inv.outcome = [j \in {} |-> ""]
  <2>1. PICK outcome : outcome = [j \in {} |-> ""] /\ DOMAIN outcome = {}
    OBVIOUS
  <2>2. Unused = [state |-> "unused", trigger |-> <<>>, outcome |-> outcome, status |-> 0, ran |-> {}, failed |-> {}]
    BY <2>1 DEF Unused
  <2>3. CASE inv = Unused
    BY <2>1, <2>2, <2>3
  <2>4. CASE inv = Refused(code)
    <3>1. inv = [Unused EXCEPT !.state = "done", !.status = code]
      BY <2>4 DEF Refused
    <3>2. inv = [state |-> "done", trigger |-> <<>>, outcome |-> outcome, status |-> code, ran |-> {}, failed |-> {}]
      BY <2>2, <3>1
    <3> QED BY <2>1, <3>2
  <2> QED BY <2>3, <2>4
<1>2. \A ending : Ended(inv, ending) = {}
  BY <1>1 DEF Ended
<1> QED BY <1>1, <1>2 DEF InvocationSound

\* A step that gives one invocation what is sound, of the same table.
LEMMA OneChanges ==
  ASSUME NEW i \in 1..MaxInvocations, NEW inv, InvocationsInv, InvocationSound(inv),
         cronTable' = cronTable, invocations' = [invocations EXCEPT ![i] = inv]
  PROVE  InvocationsInv'
<1>1. \A v : InvocationSound(v) => InvocationSound(v)'
  <2>1. \A trigger : ToRun(trigger)' = ToRun(trigger)
    BY DEF ToRun, Matching, CronNames
  <2> QED BY <2>1 DEF InvocationSound
<1> QED BY <1>1 DEF InvocationsInv

LEMMA InvokeKeeps ==
  ASSUME NEW i \in 1..MaxInvocations, InvocationsInv, Invoke(i)
  PROVE  InvocationsInv'
<1>1. cronTable' = cronTable
  BY DEF Invoke
<1>2. PICK trigger, secret :
        invocations' = [invocations EXCEPT ![i] =
          CASE secret = "unset" -> Refused(503) [] secret = "differs" -> Refused(401) [] OTHER ->
            IF CronNames = {} THEN Refused(200)
            ELSE [Unused EXCEPT !.state = "running", !.trigger = trigger, !.outcome = [j \in ToRun(trigger) |-> "pending"]]]
  BY DEF Invoke
<1>3. PICK inv : inv = CASE secret = "unset" -> Refused(503) [] secret = "differs" -> Refused(401) [] OTHER ->
            IF CronNames = {} THEN Refused(200)
            ELSE [Unused EXCEPT !.state = "running", !.trigger = trigger, !.outcome = [j \in ToRun(trigger) |-> "pending"]]
  OBVIOUS
<1>4. InvocationSound(inv)
  <2>1. CASE \E code : inv = Refused(code)
    BY <2>1, UnusedSound
  <2>2. CASE inv = [Unused EXCEPT !.state = "running", !.trigger = trigger, !.outcome = [j \in ToRun(trigger) |-> "pending"]]
    <3>1. /\ inv.state = "running" /\ inv.trigger = trigger /\ inv.status = 0
          /\ inv.outcome = [j \in ToRun(trigger) |-> "pending"]
          /\ DOMAIN inv = {"state", "trigger", "outcome", "status", "ran", "failed"}
      BY <2>2 DEF Unused
    <3> QED BY <3>1 DEF InvocationSound
  <2> QED BY <1>3, <2>1, <2>2
<1>5. invocations' = [invocations EXCEPT ![i] = inv]
  BY <1>2, <1>3
<1> QED BY <1>1, <1>4, <1>5, OneChanges

LEMMA JobEndKeeps ==
  ASSUME NEW i \in 1..MaxInvocations, InvocationsInv, JobEnds(i)
  PROVE  InvocationsInv'
<1>1. PICK old : old = invocations[i]
  OBVIOUS
<1>2. InvocationSound(old)
  BY <1>1 DEF InvocationsInv
<1>3. PICK j \in DOMAIN old.outcome, ending \in {"ran", "failed"} :
        /\ old.outcome[j] = "pending" /\ cronTable' = cronTable
        /\ invocations' = [invocations EXCEPT ![i].outcome[j] = ending]
  BY <1>1 DEF JobEnds
<1>4. PICK outcome : outcome = [old.outcome EXCEPT ![j] = ending]
  OBVIOUS
<1>5. PICK inv : inv = [old EXCEPT !.outcome = outcome]
  OBVIOUS
<1>6. invocations' = [invocations EXCEPT ![i] = inv]
  BY <1>1, <1>3, <1>4, <1>5 DEF InvocationsInv
<1>7. InvocationSound(inv)
  <2>1. old.state = "running" /\ old.status = 0
    <3>1. old.state # "done"
      BY <1>2, <1>3 DEF InvocationSound, Ended
    <3>2. old.state # "unused"
      BY <1>2, <1>3 DEF InvocationSound, Unused
    <3> QED BY <1>2, <3>1, <3>2 DEF InvocationSound
  <2>2. /\ inv.outcome = outcome /\ inv.state = "running" /\ inv.status = 0 /\ inv.trigger = old.trigger
        /\ DOMAIN inv = DOMAIN old
    BY <1>2, <1>5, <2>1 DEF InvocationSound
  <2>3. /\ DOMAIN outcome = DOMAIN old.outcome /\ outcome = [k \in DOMAIN outcome |-> outcome[k]]
        /\ \A k \in DOMAIN outcome : outcome[k] \in {"pending", "ran", "failed"}
    BY <1>2, <1>3, <1>4 DEF InvocationSound
  <2> QED BY <1>2, <2>2, <2>3 DEF InvocationSound
<1> QED BY <1>3, <1>6, <1>7, OneChanges

LEMMA AnswerKeeps ==
  ASSUME NEW i \in 1..MaxInvocations, InvocationsInv, CronAnswers(i)
  PROVE  InvocationsInv'
<1>1. PICK old : old = invocations[i]
  OBVIOUS
<1>2. InvocationSound(old)
  BY <1>1 DEF InvocationsInv
<1>3. PICK ran, failed, code : /\ ran = Ended(old, "ran") /\ failed = Ended(old, "failed")
                                 /\ code = IF failed = {} THEN 200 ELSE 500
  OBVIOUS
<1>4. PICK inv : inv = [old EXCEPT !.state = "done", !.ran = ran, !.failed = failed, !.status = code]
  OBVIOUS
<1>5. /\ Ended(old, "pending") = {} /\ cronTable' = cronTable
      /\ invocations' = [invocations EXCEPT ![i] = inv]
  <2> DEFINE those(ending) == {j \in DOMAIN invocations[i].outcome : invocations[i].outcome[j] = ending}
  <2>1. /\ those("pending") = {} /\ cronTable' = cronTable
        /\ invocations' = [invocations EXCEPT ![i].state = "done", ![i].ran = those("ran"),
             ![i].failed = those("failed"), ![i].status = IF those("failed") = {} THEN 200 ELSE 500]
    BY DEF CronAnswers
  <2>2. \A ending : those(ending) = Ended(old, ending)
    BY <1>1 DEF Ended
  <2> HIDE DEF those
  <2>3. those("ran") = ran /\ those("failed") = failed /\ Ended(old, "pending") = {}
    BY <1>3, <2>1, <2>2
  <2>5. (IF those("failed") = {} THEN 200 ELSE 500) = code
    BY <1>3, <2>3
  <2>4. invocations' = [invocations EXCEPT ![i].state = "done", ![i].ran = ran, ![i].failed = failed, ![i].status = code]
    BY <2>1, <2>3, <2>5
  <2> QED BY <1>1, <1>4, <2>1, <2>3, <2>4 DEF InvocationsInv
<1>6. /\ inv.state = "done" /\ inv.outcome = old.outcome /\ inv.trigger = old.trigger /\ DOMAIN inv = DOMAIN old
      /\ inv.ran = ran /\ inv.failed = failed /\ inv.status = code
  BY <1>2, <1>4 DEF InvocationSound
<1>7. \A ending : Ended(inv, ending) = Ended(old, ending)
  BY <1>6 DEF Ended
<1>8. InvocationSound(inv)
  BY <1>2, <1>3, <1>5, <1>6, <1>7 DEF InvocationSound
<1> QED BY <1>5, <1>8, OneChanges

\* An invocation of the cron endpoint is a success exactly when every job it selected
\* ended well, and it selects the jobs of its expression, or all if there are none.
THEOREM InvocationsAreTold == TriggersSpec => []InvocationsTold
<1>1. CronInit => InvocationsInv
  BY UnusedSound DEF CronInit, InvocationsInv
<1>2. InvocationsInv /\ [TriggersNext]_cronVars => InvocationsInv'
  <2> SUFFICES ASSUME InvocationsInv, [TriggersNext]_cronVars PROVE InvocationsInv'
    OBVIOUS
  <2>1. CASE UNCHANGED cronVars
    <3>1. \A trigger : ToRun(trigger)' = ToRun(trigger)
      BY <2>1 DEF cronVars, ToRun, Matching, CronNames
    <3> QED BY <2>1, <3>1 DEF cronVars, InvocationsInv, InvocationSound
  <2> QED BY <2>1, InvokeKeeps, JobEndKeeps, AnswerKeeps DEF TriggersNext
<1>3. ASSUME InvocationsInv, NEW i \in 1..MaxInvocations, NEW inv, inv = invocations[i]
      PROVE  /\ inv.state = "done" /\ DOMAIN inv.outcome # {} =>
                  /\ inv.ran \cup inv.failed = DOMAIN inv.outcome
                  /\ (inv.status = 200) = (\A j \in DOMAIN inv.outcome : inv.outcome[j] = "ran")
                  /\ \A j \in DOMAIN inv.outcome : (j \in inv.failed) = (inv.outcome[j] = "failed")
             /\ \A j \in DOMAIN inv.outcome : j \in Matching(inv.trigger) \/ Matching(inv.trigger) = {}
             /\ Matching(inv.trigger) \subseteq DOMAIN inv.outcome \/ DOMAIN inv.outcome = {}
             /\ inv.status \in {401, 503} => DOMAIN inv.outcome = {}
  <2>1. InvocationSound(inv)
    BY <1>3 DEF InvocationsInv
  <2>2. CASE DOMAIN inv.outcome = {}
    <3>1. Matching(inv.trigger) \subseteq DOMAIN inv.outcome \/ DOMAIN inv.outcome = {}
      BY <2>2
    <3> QED BY <2>2, <3>1
  <2>3. CASE DOMAIN inv.outcome # {}
    <3>1. DOMAIN inv.outcome = ToRun(inv.trigger) /\ inv.state # "unused"
      BY <2>1, <2>3 DEF InvocationSound, Unused
    <3>2. /\ \A j \in DOMAIN inv.outcome : j \in Matching(inv.trigger) \/ Matching(inv.trigger) = {}
          /\ Matching(inv.trigger) \subseteq DOMAIN inv.outcome
      BY <3>1 DEF ToRun
    <3>3. inv.status \notin {401, 503}
      BY <2>1, <2>3, <3>1 DEF InvocationSound
    <3>4. CASE inv.state = "done"
      <4>1. /\ Ended(inv, "pending") = {} /\ inv.ran = Ended(inv, "ran") /\ inv.failed = Ended(inv, "failed")
            /\ inv.status = IF inv.failed = {} THEN 200 ELSE 500
        BY <2>1, <2>3, <3>4 DEF InvocationSound
      <4>2. \A j \in DOMAIN inv.outcome : inv.outcome[j] \in {"ran", "failed"}
        BY <2>1, <4>1 DEF InvocationSound, Ended
      <4>3. inv.ran \cup inv.failed = DOMAIN inv.outcome
        BY <4>1, <4>2 DEF Ended
      <4>4. \A j \in DOMAIN inv.outcome : j \in inv.failed <=> inv.outcome[j] = "failed"
        BY <4>1 DEF Ended
      <4>5. inv.status = 200 <=> inv.failed = {}
        BY <4>1
      <4>6. inv.failed = {} <=> \A j \in DOMAIN inv.outcome : inv.outcome[j] = "ran"
        BY <4>1, <4>2, <4>4 DEF Ended
      <4>7. (inv.status = 200) = (\A j \in DOMAIN inv.outcome : inv.outcome[j] = "ran")
        BY <4>5, <4>6
      <4>8. \A j \in DOMAIN inv.outcome : (j \in inv.failed) = (inv.outcome[j] = "failed")
        BY <4>4
      <4> QED BY <3>2, <3>3, <4>3, <4>7, <4>8
    <3> QED BY <3>2, <3>3, <3>4
  <2> QED BY <2>2, <2>3
<1>4. InvocationsInv => InvocationsTold
  BY <1>3 DEF InvocationsTold
<1> QED BY <1>1, <1>2, <1>4, PTL DEF TriggersSpec
-----------------------------------------------------------------------------
(* AppWorker: the application stops the worker it started, and only one is unattended. *)

\* Workers are numbered as they are made, and one that was forgotten as it ran goes on.
WorkersTyped ==
  /\ made \in Nat /\ taskWorker \in 0..made /\ up \subseteq 1..made
  /\ awaits \in [Callers -> 0..made]
  /\ overlapped \in BOOLEAN /\ unattended \subseteq up

\* The worker a stopWorker() waits for does not run; unless calls have overlapped,
\* there is one such call at most, and its worker is the application's.
StopsSound ==
  /\ taskWorker \notin unattended
  /\ \A c \in Callers : awaits[c] \notin up
  /\ ~overlapped => \A a, c \in Callers :
       /\ awaits[c] # 0 => awaits[c] = taskWorker
       /\ awaits[a] # 0 /\ awaits[c] # 0 => a = c

WorkersInv == WorkersTyped /\ StopsSound /\ WorkersSound

LEMMA WorkersInit == AppInit => WorkersInv
<1> SUFFICES ASSUME AppInit PROVE WorkersInv
  OBVIOUS
<1>1. awaits = [c \in Callers |-> 0] /\ \A c \in Callers : awaits[c] = 0
  BY DEF AppInit
<1>2. WorkersTyped
  <2>1. made = 0 /\ taskWorker = 0 /\ 0 \in 0..made
    BY DEF AppInit
  <2>2. awaits \in [Callers -> 0..made]
    BY <1>1, <2>1
  <2>3. overlapped \in BOOLEAN
    BY DEF AppInit
  <2>4. up \subseteq 1..made /\ unattended \subseteq up
    BY DEF AppInit
  <2> QED BY <2>1, <2>2, <2>3, <2>4 DEF WorkersTyped
<1>3. StopsSound /\ WorkersSound
  BY <1>1 DEF AppInit, StopsSound, WorkersSound
<1> QED BY <1>2, <1>3 DEF WorkersInv

LEMMA StartKeeps == WorkersInv /\ StartWorker => WorkersInv'
<1> SUFFICES ASSUME WorkersInv, StartWorker PROVE WorkersInv'
  OBVIOUS
<1> USE DEF WorkersInv, WorkersTyped, StopsSound, WorkersSound
<1>1. /\ taskWorker = 0 /\ made' = made + 1 /\ taskWorker' = made + 1 /\ up' = up \cup {made + 1}
      /\ awaits' = awaits /\ unattended' = unattended /\ overlapped' = overlapped
      /\ made + 1 \notin up
  BY DEF StartWorker
<1>2. WorkersTyped'
  <2>1. 0..made \subseteq 0..(made + 1)
    OBVIOUS
  <2> QED BY <1>1, <2>1
<1>3. ASSUME NEW c \in Callers PROVE awaits[c] # made + 1
  <2>1. awaits[c] \in 0..made
    OBVIOUS
  <2> QED BY <2>1
<1>4. StopsSound'
  BY <1>1, <1>3
<1>5. WorkersSound'
  BY <1>1
<1> QED BY <1>2, <1>4, <1>5

LEMMA StopKeeps ==
  ASSUME NEW c \in Callers, WorkersInv, StopWorker(c)
  PROVE  WorkersInv'
<1> USE DEF WorkersInv, WorkersTyped, StopsSound, WorkersSound
<1>1. /\ awaits[c] = 0 /\ taskWorker # 0
      /\ awaits' = [awaits EXCEPT ![c] = taskWorker] /\ up' = up \ {taskWorker}
      /\ overlapped' = (overlapped \/ \E a \in Callers \ {c} : awaits[a] # 0)
      /\ taskWorker' = taskWorker /\ made' = made /\ unattended' = unattended
  BY DEF StopWorker
<1>2. awaits'[c] = taskWorker /\ \A a \in Callers \ {c} : awaits'[a] = awaits[a]
  BY <1>1
<1>3. WorkersTyped'
  BY <1>1
<1>4. StopsSound'
  BY <1>1, <1>2
<1>5. WorkersSound'
  BY <1>1, <1>2
<1> QED BY <1>3, <1>4, <1>5

LEMMA ReturnKeeps ==
  ASSUME NEW c \in Callers, WorkersInv, StopWorkerReturns(c)
  PROVE  WorkersInv'
<1> USE DEF WorkersInv, WorkersTyped, StopsSound, WorkersSound
<1>1. /\ awaits[c] # 0 /\ awaits' = [awaits EXCEPT ![c] = 0] /\ taskWorker' = 0
      /\ unattended' = unattended \cup (up \cap {taskWorker})
      /\ made' = made /\ up' = up /\ overlapped' = overlapped
  BY DEF StopWorkerReturns
<1>2. awaits'[c] = 0 /\ \A a \in Callers \ {c} : awaits'[a] = awaits[a]
  BY <1>1
<1>3. WorkersTyped'
  BY <1>1
<1>4. 0 \notin up
  OBVIOUS
<1>5. StopsSound'
  BY <1>1, <1>2, <1>4
<1>6. ~overlapped => taskWorker \notin up
  BY <1>1
<1>7. WorkersSound'
  BY <1>1, <1>6
<1> QED BY <1>3, <1>5, <1>7

\* The application's worker runs unless somebody stops it, and one that it forgot runs
\* only if calls of stopWorker() overlapped.
THEOREM ApplicationWorkers == AppSpec => []WorkersSound
<1>1. WorkersInv /\ [AppNext]_appVars => WorkersInv'
  <2> SUFFICES ASSUME WorkersInv, [AppNext]_appVars PROVE WorkersInv'
    OBVIOUS
  <2>1. CASE EnqueueWarns \/ UNCHANGED appVars
    BY <2>1 DEF EnqueueWarns, appVars, WorkersInv, WorkersTyped, StopsSound, WorkersSound
  <2> QED BY <2>1, StartKeeps, StopKeeps, ReturnKeeps DEF AppNext
<1>2. WorkersInv => WorkersSound
  BY DEF WorkersInv
<1> QED BY <1>1, <1>2, WorkersInit, PTL DEF AppSpec
-----------------------------------------------------------------------------
(* A request's transaction: it is settled once, and onResponse is shown what was sent. *)

TimedOut(r) == "timedOut" \in events[r]
RollbackFailed(r) == "rollbackRejected" \in events[r]
Dropped(r) == "early" \in events[r] \/ "hookThrew" \in events[r] \/ "commitRejected" \in events[r]

\* The lifecycle has not begun, runs, or is over; without a timeout the handle flow
\* waits for it until then.
InTurn(r) ==
  LET L == at[r].lifecycle
      H == at[r].handle
  IN /\ H \in {"new", "missHooks", "notFound", "rejected"} => L = "none"
     /\ H = "racing" => L # "none"
     /\ H \in {"done", "answered"} => L \in {"none", "done", "threw"} \/ TimedOut(r)
     /\ H \notin {"racing", "done", "answered"} => L \in {"none", "threw"} \/ TimedOut(r)

\* _txPending says that the transaction is open; it is begun once.
PendingIsOpen(r) ==
  LET L == at[r].lifecycle
  IN /\ pending[r] <=> tx[r] = "open"
     /\ L \in {"none", "onRequest", "preParsing", "parsing", "preValidation", "validation",
               "preHandler", "beginning"} => tx[r] = "none" /\ calls[r] = 0

\* commit() and rollback() are called where nothing was called before.
CalledOnce(r) ==
  LET L == at[r].lifecycle
      H == at[r].handle
  IN ~TimedOut(r) /\ ~RollbackFailed(r) =>
       /\ calls[r] \in {0, 1}
       /\ L \in MayThrow \cup {"onSend"} => calls[r] = 0
       /\ L = "threw" /\ H \in {"racing", "errorHandler", "onError"} => calls[r] = 0
       /\ H \in {"restOfOnError", "onSend"} /\ calls[r] = 1 => tx[r] # "open"

\* Past the commit hook a transaction is open only if a hook stood in its way.
Closed(r) ==
  LET L == at[r].lifecycle
      H == at[r].handle
  IN ~Dropped(r) =>
       /\ L \in {"restOfOnSend", "done"} => tx[r] # "open"
       /\ H \in {"restOfOnSend", "done", "answered"} => tx[r] # "open" \/ TimedOut(r)

\* A failure finds the transaction open or not begun, and the onError hook rolls it
\* back before an onSend hook could commit it.
FailedFirst(r) ==
  LET L == at[r].lifecycle
      H == at[r].handle
  IN ~TimedOut(r) /\ ~RollbackFailed(r) /\ "answered" \notin events[r] =>
       /\ L \in MayThrow \cup {"threw"} => tx[r] # "committed"
       /\ L = "threw" /\ H \in {"restOfOnError", "onSend", "restOfOnSend"} => tx[r] # "open"
       /\ L = "threw" => H # "committing"

Reported(r) == reported[r] = IF at[r].handle = "answered" THEN <<built[r].handle>> ELSE <<>>

Local(r) == /\ InTurn(r) /\ PendingIsOpen(r) /\ CalledOnce(r) /\ Closed(r)
            /\ FailedFirst(r) /\ Reported(r)

Settled == \A r \in Requests : Local(r)

\* A step of one request leaves the state of the others alone.
Untouched(q) ==
  /\ at'[q] = at[q] /\ built'[q] = built[q] /\ tx'[q] = tx[q] /\ pending'[q] = pending[q]
  /\ calls'[q] = calls[q] /\ reported'[q] = reported[q] /\ events'[q] = events[q]

LEMMA OthersKept ==
  ASSUME NEW q \in Requests, Local(q), Untouched(q)
  PROVE  Local(q)'
BY DEF Untouched, Local, InTurn, PendingIsOpen, CalledOnce, Closed, FailedFirst,
   Reported, TimedOut, RollbackFailed, Dropped

Good(r) == Local(r)' /\ RequestTypeOK' /\ \A q \in Requests \ {r} : Untouched(q)

(* One lemma for each action: it keeps the types, the invariant of its request, and *)
(* the state of the other requests.                                                *)

AtType == [Requests -> [handle : HandleAwaits, lifecycle : LifecycleAwaits]]

LEMMA LifecycleGoes ==
  ASSUME at \in AtType, NEW r \in Requests, NEW where \in LifecycleAwaits,
         Go(r, "lifecycle", where)
  PROVE  /\ at' \in AtType
         /\ at'[r].handle = at[r].handle /\ at'[r].lifecycle = where
         /\ \A q \in Requests \ {r} : at'[q] = at[q]
BY DEF Go, AtType

LEMMA HandleGoes ==
  ASSUME at \in AtType, NEW r \in Requests, NEW where \in HandleAwaits,
         Go(r, "handle", where)
  PROVE  /\ at' \in AtType
         /\ at'[r].lifecycle = at[r].lifecycle /\ at'[r].handle = where
         /\ \A q \in Requests \ {r} : at'[q] = at[q]
BY DEF Go, AtType

\* The awaits of runLifecycle, spelt out.
LEMMA Awaits ==
  /\ MayThrow = {"onRequest", "preParsing", "parsing", "preValidation", "validation",
                 "preHandler", "beginning", "loading", "handler", "preSerialization"}
  /\ DOMAIN After = MayThrow \ {"preHandler", "beginning", "preSerialization"}
  /\ After["onRequest"] = "preParsing" /\ After["preParsing"] = "parsing"
  /\ After["parsing"] = "preValidation" /\ After["preValidation"] = "validation"
  /\ After["validation"] = "preHandler" /\ After["loading"] = "handler"
  /\ After["handler"] = "preSerialization"
<1>1. DOMAIN After = {"onRequest", "preParsing", "parsing", "preValidation", "validation",
                      "loading", "handler"}
  BY DEF After
<1>2. MayThrow = {"onRequest", "preParsing", "parsing", "preValidation", "validation",
                  "preHandler", "beginning", "loading", "handler", "preSerialization"}
  BY <1>1 DEF MayThrow
<1> QED BY <1>1, <1>2 DEF After

LEMMA ContinueGood ==
  ASSUME RequestTypeOK, NEW r \in Requests, Local(r), Continue(r)
  PROVE  Good(r)
<1>1. PICK where \in MayThrow :
        /\ Go(r, "lifecycle", where)
        /\ at[r].lifecycle \in MayThrow \ {"preSerialization"}
        /\ at[r].lifecycle \notin {"loading", "handler"} =>
             where \notin {"beginning", "loading", "handler", "preSerialization"}
        /\ at[r].lifecycle \in {"loading", "handler"} => where \in {"handler", "preSerialization"}
  BY Awaits DEF Continue
<1>2. UNCHANGED <<built, statusCode, tx, pending, rejects, calls, reported, events>>
  BY DEF Continue
<1>3. at \in AtType /\ where \in LifecycleAwaits
  BY DEF RequestTypeOK, AtType, LifecycleAwaits
<1>4. /\ at' \in AtType
      /\ at'[r].handle = at[r].handle /\ at'[r].lifecycle = where
      /\ \A q \in Requests \ {r} : at'[q] = at[q]
  BY <1>1, <1>3, LifecycleGoes
<1>5. RequestTypeOK'
  BY <1>2, <1>4 DEF RequestTypeOK, AtType
<1>6. \A q \in Requests \ {r} : Untouched(q)
  BY <1>2, <1>4 DEF Untouched
<1>7. Local(r)'
  BY <1>1, <1>2, <1>4, Awaits DEF Local, InTurn, PendingIsOpen, CalledOnce, Closed,
     FailedFirst, Reported, TimedOut, RollbackFailed, Dropped
<1> QED BY <1>5, <1>6, <1>7 DEF Good

LEMMA Builds ==
  ASSUME RequestTypeOK, NEW r \in Requests, NEW f \in Flows, NEW code \in Statuses, Build(r, f, code)
  PROVE  /\ built' \in [Requests -> [handle : Statuses, lifecycle : Statuses]]
         /\ \A q \in Requests \ {r} : built'[q] = built[q]
<1>1. CASE f = "handle"
  BY <1>1 DEF Build, RequestTypeOK
<1>2. CASE f = "lifecycle"
  BY <1>2 DEF Build, RequestTypeOK
<1> QED BY <1>1, <1>2 DEF Flows

LEMMA Rejects ==
  ASSUME RequestTypeOK, rejects < MaxRejects, rejects' = rejects + 1
  PROVE  rejects' \in 0..MaxRejects
BY RequestsAssumption DEF RequestTypeOK

LEMMA PassGuardsGood ==
  ASSUME RequestTypeOK, NEW r \in Requests, Local(r), PassGuards(r)
  PROVE  Good(r)
<1>1. /\ at' \in AtType /\ \A q \in Requests \ {r} : at'[q] = at[q]
      /\ at'[r].handle = at[r].handle /\ at'[r].lifecycle \in {"beginning", "handler"}
  BY LifecycleGoes, Awaits DEF PassGuards, RequestTypeOK, AtType, LifecycleAwaits, Sending
<1>2. RequestTypeOK'
  BY <1>1 DEF PassGuards, RequestTypeOK, AtType, Statuses, Events
<1>3. \A q \in Requests \ {r} : Untouched(q)
  BY <1>1 DEF PassGuards, Untouched, RequestTypeOK
<1>4. Local(r)'
  BY <1>1, Awaits DEF PassGuards, RequestTypeOK, Local, InTurn, PendingIsOpen, CalledOnce,
     Closed, FailedFirst, Reported, TimedOut, RollbackFailed, Dropped
<1> QED BY <1>2, <1>3, <1>4 DEF Good

LEMMA BeginGood ==
  ASSUME RequestTypeOK, NEW r \in Requests, Local(r), BeginTransaction(r)
  PROVE  Good(r)
<1>1. /\ at' \in AtType /\ \A q \in Requests \ {r} : at'[q] = at[q]
      /\ at'[r].handle = at[r].handle /\ at'[r].lifecycle = "loading"
  BY LifecycleGoes, Awaits DEF BeginTransaction, RequestTypeOK, AtType, LifecycleAwaits,
     Sending
<1>2. RequestTypeOK'
  BY <1>1 DEF BeginTransaction, RequestTypeOK, AtType, Statuses, Events
<1>3. \A q \in Requests \ {r} : Untouched(q)
  BY <1>1 DEF BeginTransaction, Untouched, RequestTypeOK
<1>4. Local(r)'
  BY <1>1, Awaits DEF BeginTransaction, RequestTypeOK, Local, InTurn, PendingIsOpen,
     CalledOnce, Closed, FailedFirst, Reported, TimedOut, RollbackFailed, Dropped
<1> QED BY <1>2, <1>3, <1>4 DEF Good

LEMMA AnswerEarlyGood ==
  ASSUME RequestTypeOK, NEW r \in Requests, Local(r), AnswerEarly(r)
  PROVE  Good(r)
<1>1. /\ at' \in AtType /\ \A q \in Requests \ {r} : at'[q] = at[q]
      /\ at'[r].handle = at[r].handle /\ at'[r].lifecycle = "done"
  BY LifecycleGoes, Awaits DEF AnswerEarly, Build, Note, MayAnswer, RequestTypeOK, AtType,
     LifecycleAwaits, Sending
<1>2. RequestTypeOK'
  BY <1>1 DEF AnswerEarly, Build, Note, MayAnswer, RequestTypeOK, AtType, Statuses, Events
<1>3. \A q \in Requests \ {r} : Untouched(q)
  BY <1>1 DEF AnswerEarly, Build, Note, MayAnswer, Untouched, RequestTypeOK
<1>4. Local(r)'
  BY <1>1, Awaits DEF AnswerEarly, Build, Note, MayAnswer, RequestTypeOK, Local, InTurn,
     PendingIsOpen, CalledOnce, Closed, FailedFirst, Reported, TimedOut,
     RollbackFailed, Dropped
<1> QED BY <1>2, <1>3, <1>4 DEF Good

LEMMA ThrowGood ==
  ASSUME RequestTypeOK, NEW r \in Requests, Local(r), Throw(r)
  PROVE  Good(r)
<1>1. /\ at' \in AtType /\ \A q \in Requests \ {r} : at'[q] = at[q]
      /\ at'[r].handle = at[r].handle /\ at'[r].lifecycle = "threw"
  BY LifecycleGoes, Awaits DEF Throw, RequestTypeOK, AtType, LifecycleAwaits, Sending
<1>2. RequestTypeOK'
  BY <1>1 DEF Throw, RequestTypeOK, AtType, Statuses, Events
<1>3. \A q \in Requests \ {r} : Untouched(q)
  BY <1>1 DEF Throw, Untouched, RequestTypeOK
<1>4. Local(r)'
  BY <1>1, Awaits DEF Throw, RequestTypeOK, Local, InTurn, PendingIsOpen, CalledOnce,
     Closed, FailedFirst, Reported, TimedOut, RollbackFailed, Dropped
<1> QED BY <1>2, <1>3, <1>4 DEF Good

LEMMA RespondGood ==
  ASSUME RequestTypeOK, NEW r \in Requests, Local(r), Respond(r)
  PROVE  Good(r)
<1>1. /\ at' \in AtType /\ \A q \in Requests \ {r} : at'[q] = at[q]
      /\ at'[r].handle = at[r].handle /\ at'[r].lifecycle = "onSend"
  BY LifecycleGoes, Awaits DEF Respond, StartSending, Build, RequestTypeOK, AtType,
     LifecycleAwaits, Sending
<1>2. /\ built' \in [Requests -> [handle : Statuses, lifecycle : Statuses]]
      /\ statusCode' \in [Requests -> Statuses]
      /\ \A q \in Requests \ {r} : built'[q] = built[q]
  <2>1. CASE UNCHANGED <<built, statusCode>>
    BY <2>1 DEF RequestTypeOK
  <2>2. ASSUME NEW code \in Statuses, Build(r, "lifecycle", code),
               statusCode' = [statusCode EXCEPT ![r] = code] \/ statusCode' = statusCode
        PROVE  /\ built' \in [Requests -> [handle : Statuses, lifecycle : Statuses]]
               /\ statusCode' \in [Requests -> Statuses]
               /\ \A q \in Requests \ {r} : built'[q] = built[q]
    BY <2>2, Builds DEF RequestTypeOK, Flows
  <2>3. {"fine", "error", "missing", "early"} \subseteq Statuses
    BY DEF Statuses
  <2> QED BY <2>1, <2>2, <2>3 DEF Respond, StartSending
<1>3. RequestTypeOK'
  BY <1>1, <1>2 DEF Respond, StartSending, RequestTypeOK, AtType
<1>4. \A q \in Requests \ {r} : Untouched(q)
  BY <1>1, <1>2 DEF Respond, StartSending, Build, Untouched, RequestTypeOK
<1>5. Local(r)'
  BY <1>1, Awaits DEF Respond, StartSending, Build, RequestTypeOK, Local, InTurn,
     PendingIsOpen, CalledOnce, Closed, FailedFirst, Reported, TimedOut,
     RollbackFailed, Dropped
<1> QED BY <1>3, <1>4, <1>5 DEF Good

LEMMA LifecycleHookThrowsGood ==
  ASSUME RequestTypeOK, NEW r \in Requests, Local(r), SendHookThrows(r, "lifecycle")
  PROVE  Good(r)
<1>1. /\ at' \in AtType /\ \A q \in Requests \ {r} : at'[q] = at[q]
      /\ at'[r].handle = at[r].handle /\ at'[r].lifecycle = "done"
  BY LifecycleGoes, Awaits DEF SendHookThrows, Note, RequestTypeOK, AtType, LifecycleAwaits,
     Sending
<1>2. RequestTypeOK'
  BY <1>1 DEF SendHookThrows, Note, RequestTypeOK, AtType, Statuses, Events
<1>3. \A q \in Requests \ {r} : Untouched(q)
  BY <1>1 DEF SendHookThrows, Note, Untouched, RequestTypeOK
<1>4. Local(r)'
  BY <1>1, Awaits DEF SendHookThrows, Note, RequestTypeOK, Local, InTurn, PendingIsOpen,
     CalledOnce, Closed, FailedFirst, Reported, TimedOut, RollbackFailed, Dropped
<1> QED BY <1>2, <1>3, <1>4 DEF Good

LEMMA LifecycleCommitHookGood ==
  ASSUME RequestTypeOK, NEW r \in Requests, Local(r), CommitHook(r, "lifecycle")
  PROVE  Good(r)
<1>1. /\ at' \in AtType /\ \A q \in Requests \ {r} : at'[q] = at[q]
      /\ at'[r].handle = at[r].handle /\ at'[r].lifecycle \in {"committing", "restOfOnSend"}
  BY LifecycleGoes, Awaits DEF CommitHook, RequestTypeOK, AtType, LifecycleAwaits, Sending
<1>2. /\ calls' \in [Requests -> Nat]
      /\ \A q \in Requests \ {r} : calls'[q] = calls[q]
      /\ \/ /\ tx[r] # "none" /\ pending[r]
            /\ at'[r].lifecycle = "committing" /\ calls'[r] = calls[r] + 1
         \/ /\ ~(tx[r] # "none" /\ pending[r])
            /\ at'[r].lifecycle = "restOfOnSend" /\ calls'[r] = calls[r]
  <2>1. CASE tx[r] # "none" /\ pending[r]
    <3>1. /\ Go(r, "lifecycle", "committing") /\ calls' = [calls EXCEPT ![r] = calls[r] + 1]
          /\ calls[r] + 1 \in Nat
      BY <2>1 DEF CommitHook, RequestTypeOK
    <3>2. "committing" \in LifecycleAwaits
      BY DEF LifecycleAwaits, HandleAwaits, Sending
    <3>3. at'[r].lifecycle = "committing"
      BY <3>1, <3>2, LifecycleGoes DEF RequestTypeOK, AtType
    <3> QED BY <2>1, <3>1, <3>3 DEF RequestTypeOK
  <2>2. CASE ~(tx[r] # "none" /\ pending[r])
    BY <2>2, LifecycleGoes DEF CommitHook, RequestTypeOK, AtType, LifecycleAwaits,
       HandleAwaits, Sending
  <2> QED BY <2>1, <2>2
<1>3. RequestTypeOK'
  BY <1>1, <1>2 DEF CommitHook, RequestTypeOK, AtType
<1>4. \A q \in Requests \ {r} : Untouched(q)
  BY <1>1, <1>2 DEF CommitHook, Untouched, RequestTypeOK
<1>5. UNCHANGED <<built, tx, pending, reported, events>>
  BY DEF CommitHook
<1>6. at[r].lifecycle = "onSend" /\ calls[r] \in Nat
  BY DEF CommitHook, RequestTypeOK
<1>7. Local(r)'
  BY <1>1, <1>2, <1>5, <1>6, Awaits DEF Local, InTurn, PendingIsOpen, CalledOnce,
     Closed, FailedFirst, Reported, TimedOut, RollbackFailed, Dropped
<1> QED BY <1>3, <1>4, <1>7 DEF Good

LEMMA LifecycleCommitsGood ==
  ASSUME RequestTypeOK, NEW r \in Requests, Local(r), Commits(r, "lifecycle")
  PROVE  Good(r)
<1>1. /\ at' \in AtType /\ \A q \in Requests \ {r} : at'[q] = at[q]
      /\ at'[r].handle = at[r].handle /\ at'[r].lifecycle = "restOfOnSend"
  BY LifecycleGoes, Awaits DEF Commits, RequestTypeOK, AtType, LifecycleAwaits, Sending
<1>2. RequestTypeOK'
  BY <1>1 DEF Commits, RequestTypeOK, AtType, Statuses, Events
<1>3. \A q \in Requests \ {r} : Untouched(q)
  BY <1>1 DEF Commits, Untouched, RequestTypeOK
<1>4. Local(r)'
  BY <1>1, Awaits DEF Commits, RequestTypeOK, Local, InTurn, PendingIsOpen, CalledOnce,
     Closed, FailedFirst, Reported, TimedOut, RollbackFailed, Dropped
<1> QED BY <1>2, <1>3, <1>4 DEF Good

LEMMA LifecycleCommitRejectsGood ==
  ASSUME RequestTypeOK, NEW r \in Requests, Local(r), CommitRejects(r, "lifecycle")
  PROVE  Good(r)
<1>1. /\ at' \in AtType /\ \A q \in Requests \ {r} : at'[q] = at[q]
      /\ at'[r].handle = at[r].handle /\ at'[r].lifecycle = "done"
  BY LifecycleGoes, Awaits DEF CommitRejects, Note, RequestTypeOK, AtType, LifecycleAwaits,
     Sending
<1>2. RequestTypeOK'
  BY <1>1, Rejects DEF CommitRejects, Note, RequestTypeOK, AtType, Statuses, Events
<1>3. \A q \in Requests \ {r} : Untouched(q)
  BY <1>1 DEF CommitRejects, Note, Untouched, RequestTypeOK
<1>4. Local(r)'
  BY <1>1, Awaits DEF CommitRejects, Note, RequestTypeOK, Local, InTurn, PendingIsOpen,
     CalledOnce, Closed, FailedFirst, Reported, TimedOut, RollbackFailed, Dropped
<1> QED BY <1>2, <1>3, <1>4 DEF Good

LEMMA LifecycleRestOfOnSendGood ==
  ASSUME RequestTypeOK, NEW r \in Requests, Local(r), RestOfOnSend(r, "lifecycle")
  PROVE  Good(r)
<1>1. /\ at' \in AtType /\ \A q \in Requests \ {r} : at'[q] = at[q]
      /\ at'[r].handle = at[r].handle /\ at'[r].lifecycle = "done"
  BY LifecycleGoes, Awaits DEF RestOfOnSend, RequestTypeOK, AtType, LifecycleAwaits, Sending
<1>2. RequestTypeOK'
  BY <1>1 DEF RestOfOnSend, RequestTypeOK, AtType, Statuses, Events
<1>3. \A q \in Requests \ {r} : Untouched(q)
  BY <1>1 DEF RestOfOnSend, Untouched, RequestTypeOK
<1>4. Local(r)'
  BY <1>1, Awaits DEF RestOfOnSend, RequestTypeOK, Local, InTurn, PendingIsOpen, CalledOnce,
     Closed, FailedFirst, Reported, TimedOut, RollbackFailed, Dropped
<1> QED BY <1>2, <1>3, <1>4 DEF Good

LEMMA HandleHookThrowsGood ==
  ASSUME RequestTypeOK, NEW r \in Requests, Local(r), SendHookThrows(r, "handle")
  PROVE  Good(r)
<1>1. /\ at' \in AtType /\ \A q \in Requests \ {r} : at'[q] = at[q]
      /\ at'[r].lifecycle = at[r].lifecycle /\ at'[r].handle = "done"
  BY HandleGoes, Awaits DEF SendHookThrows, Note, RequestTypeOK, AtType, HandleAwaits,
     Sending
<1>2. RequestTypeOK'
  BY <1>1 DEF SendHookThrows, Note, RequestTypeOK, AtType, Statuses, Events
<1>3. \A q \in Requests \ {r} : Untouched(q)
  BY <1>1 DEF SendHookThrows, Note, Untouched, RequestTypeOK
<1>4. Local(r)'
  BY <1>1, Awaits DEF SendHookThrows, Note, RequestTypeOK, Local, InTurn, PendingIsOpen,
     CalledOnce, Closed, FailedFirst, Reported, TimedOut, RollbackFailed, Dropped
<1> QED BY <1>2, <1>3, <1>4 DEF Good

LEMMA HandleCommitHookGood ==
  ASSUME RequestTypeOK, NEW r \in Requests, Local(r), CommitHook(r, "handle")
  PROVE  Good(r)
<1>1. /\ at' \in AtType /\ \A q \in Requests \ {r} : at'[q] = at[q]
      /\ at'[r].lifecycle = at[r].lifecycle /\ at'[r].handle \in {"committing", "restOfOnSend"}
  BY HandleGoes, Awaits DEF CommitHook, RequestTypeOK, AtType, HandleAwaits, Sending
<1>2. /\ calls' \in [Requests -> Nat]
      /\ \A q \in Requests \ {r} : calls'[q] = calls[q]
      /\ \/ /\ tx[r] # "none" /\ pending[r]
            /\ at'[r].handle = "committing" /\ calls'[r] = calls[r] + 1
         \/ /\ ~(tx[r] # "none" /\ pending[r])
            /\ at'[r].handle = "restOfOnSend" /\ calls'[r] = calls[r]
  <2>1. CASE tx[r] # "none" /\ pending[r]
    <3>1. /\ Go(r, "handle", "committing") /\ calls' = [calls EXCEPT ![r] = calls[r] + 1]
          /\ calls[r] + 1 \in Nat
      BY <2>1 DEF CommitHook, RequestTypeOK
    <3>2. "committing" \in HandleAwaits
      BY DEF LifecycleAwaits, HandleAwaits, Sending
    <3>3. at'[r].handle = "committing"
      BY <3>1, <3>2, HandleGoes DEF RequestTypeOK, AtType
    <3> QED BY <2>1, <3>1, <3>3 DEF RequestTypeOK
  <2>2. CASE ~(tx[r] # "none" /\ pending[r])
    BY <2>2, HandleGoes DEF CommitHook, RequestTypeOK, AtType, LifecycleAwaits,
       HandleAwaits, Sending
  <2> QED BY <2>1, <2>2
<1>3. RequestTypeOK'
  BY <1>1, <1>2 DEF CommitHook, RequestTypeOK, AtType
<1>4. \A q \in Requests \ {r} : Untouched(q)
  BY <1>1, <1>2 DEF CommitHook, Untouched, RequestTypeOK
<1>5. UNCHANGED <<built, tx, pending, reported, events>>
  BY DEF CommitHook
<1>6. at[r].handle = "onSend" /\ calls[r] \in Nat
  BY DEF CommitHook, RequestTypeOK
<1>7. Local(r)'
  BY <1>1, <1>2, <1>5, <1>6, Awaits DEF Local, InTurn, PendingIsOpen, CalledOnce,
     Closed, FailedFirst, Reported, TimedOut, RollbackFailed, Dropped
<1> QED BY <1>3, <1>4, <1>7 DEF Good

LEMMA HandleCommitsGood ==
  ASSUME RequestTypeOK, NEW r \in Requests, Local(r), Commits(r, "handle")
  PROVE  Good(r)
<1>1. /\ at' \in AtType /\ \A q \in Requests \ {r} : at'[q] = at[q]
      /\ at'[r].lifecycle = at[r].lifecycle /\ at'[r].handle = "restOfOnSend"
  BY HandleGoes, Awaits DEF Commits, RequestTypeOK, AtType, HandleAwaits, Sending
<1>2. RequestTypeOK'
  BY <1>1 DEF Commits, RequestTypeOK, AtType, Statuses, Events
<1>3. \A q \in Requests \ {r} : Untouched(q)
  BY <1>1 DEF Commits, Untouched, RequestTypeOK
<1>4. Local(r)'
  BY <1>1, Awaits DEF Commits, RequestTypeOK, Local, InTurn, PendingIsOpen, CalledOnce,
     Closed, FailedFirst, Reported, TimedOut, RollbackFailed, Dropped
<1> QED BY <1>2, <1>3, <1>4 DEF Good

LEMMA HandleCommitRejectsGood ==
  ASSUME RequestTypeOK, NEW r \in Requests, Local(r), CommitRejects(r, "handle")
  PROVE  Good(r)
<1>1. /\ at' \in AtType /\ \A q \in Requests \ {r} : at'[q] = at[q]
      /\ at'[r].lifecycle = at[r].lifecycle /\ at'[r].handle = "done"
  BY HandleGoes, Awaits DEF CommitRejects, Note, RequestTypeOK, AtType, HandleAwaits,
     Sending
<1>2. RequestTypeOK'
  BY <1>1, Rejects DEF CommitRejects, Note, RequestTypeOK, AtType, Statuses, Events
<1>3. \A q \in Requests \ {r} : Untouched(q)
  BY <1>1 DEF CommitRejects, Note, Untouched, RequestTypeOK
<1>4. Local(r)'
  BY <1>1, Awaits DEF CommitRejects, Note, RequestTypeOK, Local, InTurn, PendingIsOpen,
     CalledOnce, Closed, FailedFirst, Reported, TimedOut, RollbackFailed, Dropped
<1> QED BY <1>2, <1>3, <1>4 DEF Good

LEMMA HandleRestOfOnSendGood ==
  ASSUME RequestTypeOK, NEW r \in Requests, Local(r), RestOfOnSend(r, "handle")
  PROVE  Good(r)
<1>1. /\ at' \in AtType /\ \A q \in Requests \ {r} : at'[q] = at[q]
      /\ at'[r].lifecycle = at[r].lifecycle /\ at'[r].handle = "done"
  BY HandleGoes, Awaits DEF RestOfOnSend, RequestTypeOK, AtType, HandleAwaits, Sending
<1>2. RequestTypeOK'
  BY <1>1 DEF RestOfOnSend, RequestTypeOK, AtType, Statuses, Events
<1>3. \A q \in Requests \ {r} : Untouched(q)
  BY <1>1 DEF RestOfOnSend, Untouched, RequestTypeOK
<1>4. Local(r)'
  BY <1>1, Awaits DEF RestOfOnSend, RequestTypeOK, Local, InTurn, PendingIsOpen, CalledOnce,
     Closed, FailedFirst, Reported, TimedOut, RollbackFailed, Dropped
<1> QED BY <1>2, <1>3, <1>4 DEF Good

LEMMA LifecycleDoneGood ==
  ASSUME RequestTypeOK, NEW r \in Requests, Local(r), LifecycleDone(r)
  PROVE  Good(r)
<1>1. /\ at' \in AtType /\ \A q \in Requests \ {r} : at'[q] = at[q]
      /\ at'[r].lifecycle = at[r].lifecycle /\ at'[r].handle = "done"
  BY HandleGoes, Awaits DEF LifecycleDone, Build, RequestTypeOK, AtType, HandleAwaits,
     Sending
<1>2. RequestTypeOK'
  BY <1>1 DEF LifecycleDone, Build, RequestTypeOK, AtType, Statuses, Events
<1>3. \A q \in Requests \ {r} : Untouched(q)
  BY <1>1 DEF LifecycleDone, Build, Untouched, RequestTypeOK
<1>4. Local(r)'
  BY <1>1, Awaits DEF LifecycleDone, Build, RequestTypeOK, Local, InTurn, PendingIsOpen,
     CalledOnce, Closed, FailedFirst, Reported, TimedOut, RollbackFailed, Dropped
<1> QED BY <1>2, <1>3, <1>4 DEF Good

LEMMA LifecycleThrewGood ==
  ASSUME RequestTypeOK, NEW r \in Requests, Local(r), LifecycleThrew(r)
  PROVE  Good(r)
<1>1. /\ at' \in AtType /\ \A q \in Requests \ {r} : at'[q] = at[q]
      /\ at'[r].lifecycle = at[r].lifecycle /\ at'[r].handle = "errorHandler"
  BY HandleGoes, Awaits DEF LifecycleThrew, Build, RequestTypeOK, AtType, HandleAwaits,
     Sending
<1>2. RequestTypeOK'
  BY <1>1 DEF LifecycleThrew, Build, RequestTypeOK, AtType, Statuses, Events
<1>3. \A q \in Requests \ {r} : Untouched(q)
  BY <1>1 DEF LifecycleThrew, Build, Untouched, RequestTypeOK
<1>4. Local(r)'
  BY <1>1, Awaits DEF LifecycleThrew, Build, RequestTypeOK, Local, InTurn, PendingIsOpen,
     CalledOnce, Closed, FailedFirst, Reported, TimedOut, RollbackFailed, Dropped
<1> QED BY <1>2, <1>3, <1>4 DEF Good

LEMMA TimesOutGood ==
  ASSUME RequestTypeOK, NEW r \in Requests, Local(r), TimesOut(r)
  PROVE  Good(r)
<1>1. /\ at' \in AtType /\ \A q \in Requests \ {r} : at'[q] = at[q]
      /\ at'[r].lifecycle = at[r].lifecycle /\ at'[r].handle = "errorHandler"
  BY HandleGoes, Awaits DEF TimesOut, Build, Note, RequestTypeOK, AtType, HandleAwaits,
     Sending
<1>2. RequestTypeOK'
  BY <1>1 DEF TimesOut, Build, Note, RequestTypeOK, AtType, Statuses, Events
<1>3. \A q \in Requests \ {r} : Untouched(q)
  BY <1>1 DEF TimesOut, Build, Note, Untouched, RequestTypeOK
<1>4. Local(r)'
  BY <1>1, Awaits DEF TimesOut, Build, Note, RequestTypeOK, Local, InTurn, PendingIsOpen,
     CalledOnce, Closed, FailedFirst, Reported, TimedOut, RollbackFailed, Dropped
<1> QED BY <1>2, <1>3, <1>4 DEF Good

LEMMA MissHooksGood ==
  ASSUME RequestTypeOK, NEW r \in Requests, Local(r), MissHooks(r)
  PROVE  Good(r)
<1>1. /\ at' \in AtType /\ \A q \in Requests \ {r} : at'[q] = at[q]
      /\ at'[r].lifecycle = at[r].lifecycle /\ at'[r].handle \in {"done", "notFound", "rejected", "onSend"}
  BY HandleGoes, Awaits DEF MissHooks, StartSending, Build, RequestTypeOK, AtType,
     HandleAwaits, Sending
<1>2. /\ built' \in [Requests -> [handle : Statuses, lifecycle : Statuses]]
      /\ statusCode' \in [Requests -> Statuses]
      /\ \A q \in Requests \ {r} : built'[q] = built[q]
  <2>1. CASE UNCHANGED <<built, statusCode>>
    BY <2>1 DEF RequestTypeOK
  <2>2. ASSUME NEW code \in Statuses, Build(r, "handle", code),
               statusCode' = [statusCode EXCEPT ![r] = code] \/ statusCode' = statusCode
        PROVE  /\ built' \in [Requests -> [handle : Statuses, lifecycle : Statuses]]
               /\ statusCode' \in [Requests -> Statuses]
               /\ \A q \in Requests \ {r} : built'[q] = built[q]
    BY <2>2, Builds DEF RequestTypeOK, Flows
  <2>3. {"fine", "error", "missing", "early"} \subseteq Statuses
    BY DEF Statuses
  <2> QED BY <2>1, <2>2, <2>3 DEF MissHooks, StartSending
<1>3. RequestTypeOK'
  BY <1>1, <1>2 DEF MissHooks, StartSending, RequestTypeOK, AtType
<1>4. \A q \in Requests \ {r} : Untouched(q)
  BY <1>1, <1>2 DEF MissHooks, StartSending, Build, Untouched, RequestTypeOK
<1>5. Local(r)'
  BY <1>1, Awaits DEF MissHooks, StartSending, Build, RequestTypeOK, Local, InTurn,
     PendingIsOpen, CalledOnce, Closed, FailedFirst, Reported, TimedOut,
     RollbackFailed, Dropped
<1> QED BY <1>3, <1>4, <1>5 DEF Good

LEMMA NotFoundHandlerGood ==
  ASSUME RequestTypeOK, NEW r \in Requests, Local(r), NotFoundHandler(r)
  PROVE  Good(r)
<1>1. /\ at' \in AtType /\ \A q \in Requests \ {r} : at'[q] = at[q]
      /\ at'[r].lifecycle = at[r].lifecycle /\ at'[r].handle \in {"done", "onSend"}
  BY HandleGoes, Awaits DEF NotFoundHandler, StartSending, Build, RequestTypeOK, AtType,
     HandleAwaits, Sending
<1>2. /\ built' \in [Requests -> [handle : Statuses, lifecycle : Statuses]]
      /\ statusCode' \in [Requests -> Statuses]
      /\ \A q \in Requests \ {r} : built'[q] = built[q]
  <2>1. CASE UNCHANGED <<built, statusCode>>
    BY <2>1 DEF RequestTypeOK
  <2>2. ASSUME NEW code \in Statuses, Build(r, "handle", code),
               statusCode' = [statusCode EXCEPT ![r] = code] \/ statusCode' = statusCode
        PROVE  /\ built' \in [Requests -> [handle : Statuses, lifecycle : Statuses]]
               /\ statusCode' \in [Requests -> Statuses]
               /\ \A q \in Requests \ {r} : built'[q] = built[q]
    BY <2>2, Builds DEF RequestTypeOK, Flows
  <2>3. {"fine", "error", "missing", "early"} \subseteq Statuses
    BY DEF Statuses
  <2> QED BY <2>1, <2>2, <2>3 DEF NotFoundHandler, StartSending
<1>3. RequestTypeOK'
  BY <1>1, <1>2 DEF NotFoundHandler, StartSending, RequestTypeOK, AtType
<1>4. \A q \in Requests \ {r} : Untouched(q)
  BY <1>1, <1>2 DEF NotFoundHandler, StartSending, Build, Untouched, RequestTypeOK
<1>5. Local(r)'
  BY <1>1, Awaits DEF NotFoundHandler, StartSending, Build, RequestTypeOK, Local, InTurn,
     PendingIsOpen, CalledOnce, Closed, FailedFirst, Reported, TimedOut,
     RollbackFailed, Dropped
<1> QED BY <1>3, <1>4, <1>5 DEF Good

LEMMA ErrorHandlerAnswersGood ==
  ASSUME RequestTypeOK, NEW r \in Requests, Local(r), Answered(r, "errorHandler")
  PROVE  Good(r)
<1>1. /\ at' \in AtType /\ \A q \in Requests \ {r} : at'[q] = at[q]
      /\ at'[r].lifecycle = at[r].lifecycle /\ at'[r].handle = "onSend"
  BY HandleGoes, Awaits DEF Answered, StartSending, Build, Note, RequestTypeOK, AtType,
     HandleAwaits, Sending
<1>2. RequestTypeOK'
  BY <1>1 DEF Answered, StartSending, Build, Note, RequestTypeOK, AtType, Statuses, Events
<1>3. \A q \in Requests \ {r} : Untouched(q)
  BY <1>1 DEF Answered, StartSending, Build, Note, Untouched, RequestTypeOK
<1>4. /\ events'[r] = events[r] \cup {"answered"} /\ at[r].handle = "errorHandler"
      /\ UNCHANGED <<tx, pending, calls, reported>>
      /\ calls[r] \in Nat
  BY DEF Answered, Note, RequestTypeOK
<1>5. Local(r)'
  BY <1>1, <1>4, Awaits DEF Local, InTurn, PendingIsOpen, CalledOnce, Closed,
     FailedFirst, Reported, TimedOut, RollbackFailed, Dropped
<1> QED BY <1>2, <1>3, <1>5 DEF Good

LEMMA ErrorHookAnswersGood ==
  ASSUME RequestTypeOK, NEW r \in Requests, Local(r), Answered(r, "onError")
  PROVE  Good(r)
<1>1. /\ at' \in AtType /\ \A q \in Requests \ {r} : at'[q] = at[q]
      /\ at'[r].lifecycle = at[r].lifecycle /\ at'[r].handle = "onSend"
  BY HandleGoes, Awaits DEF Answered, StartSending, Build, Note, RequestTypeOK, AtType,
     HandleAwaits, Sending
<1>2. RequestTypeOK'
  BY <1>1 DEF Answered, StartSending, Build, Note, RequestTypeOK, AtType, Statuses, Events
<1>3. \A q \in Requests \ {r} : Untouched(q)
  BY <1>1 DEF Answered, StartSending, Build, Note, Untouched, RequestTypeOK
<1>4. /\ events'[r] = events[r] \cup {"answered"} /\ at[r].handle = "onError"
      /\ UNCHANGED <<tx, pending, calls, reported>>
      /\ calls[r] \in Nat
  BY DEF Answered, Note, RequestTypeOK
<1>5. Local(r)'
  BY <1>1, <1>4, Awaits DEF Local, InTurn, PendingIsOpen, CalledOnce, Closed,
     FailedFirst, Reported, TimedOut, RollbackFailed, Dropped
<1> QED BY <1>2, <1>3, <1>5 DEF Good

LEMMA PassErrorHandlerGood ==
  ASSUME RequestTypeOK, NEW r \in Requests, Local(r), PassErrorHandler(r)
  PROVE  Good(r)
<1>1. /\ at' \in AtType /\ \A q \in Requests \ {r} : at'[q] = at[q]
      /\ at'[r].lifecycle = at[r].lifecycle /\ at'[r].handle = "onError"
  BY HandleGoes, Awaits DEF PassErrorHandler, RequestTypeOK, AtType, HandleAwaits, Sending
<1>2. RequestTypeOK'
  BY <1>1 DEF PassErrorHandler, RequestTypeOK, AtType, Statuses, Events
<1>3. \A q \in Requests \ {r} : Untouched(q)
  BY <1>1 DEF PassErrorHandler, Untouched, RequestTypeOK
<1>4. Local(r)'
  BY <1>1, Awaits DEF PassErrorHandler, RequestTypeOK, Local, InTurn, PendingIsOpen,
     CalledOnce, Closed, FailedFirst, Reported, TimedOut, RollbackFailed, Dropped
<1> QED BY <1>2, <1>3, <1>4 DEF Good

LEMMA RollbackHookGood ==
  ASSUME RequestTypeOK, NEW r \in Requests, Local(r), RollbackHook(r)
  PROVE  Good(r)
<1>1. /\ at' \in AtType /\ \A q \in Requests \ {r} : at'[q] = at[q]
      /\ at'[r].lifecycle = at[r].lifecycle /\ at'[r].handle \in {"rollingBack", "restOfOnError"}
  BY HandleGoes, Awaits DEF RollbackHook, RequestTypeOK, AtType, HandleAwaits, Sending
<1>2. /\ calls' \in [Requests -> Nat]
      /\ \A q \in Requests \ {r} : calls'[q] = calls[q]
      /\ \/ /\ tx[r] # "none" /\ pending[r]
            /\ at'[r].handle = "rollingBack" /\ calls'[r] = calls[r] + 1
         \/ /\ ~(tx[r] # "none" /\ pending[r])
            /\ at'[r].handle = "restOfOnError" /\ calls'[r] = calls[r]
  <2>1. CASE tx[r] # "none" /\ pending[r]
    <3>1. /\ Go(r, "handle", "rollingBack") /\ calls' = [calls EXCEPT ![r] = calls[r] + 1]
          /\ calls[r] + 1 \in Nat
      BY <2>1 DEF RollbackHook, RequestTypeOK
    <3>2. "rollingBack" \in HandleAwaits
      BY DEF LifecycleAwaits, HandleAwaits, Sending
    <3>3. at'[r].handle = "rollingBack"
      BY <3>1, <3>2, HandleGoes DEF RequestTypeOK, AtType
    <3> QED BY <2>1, <3>1, <3>3 DEF RequestTypeOK
  <2>2. CASE ~(tx[r] # "none" /\ pending[r])
    BY <2>2, HandleGoes DEF RollbackHook, RequestTypeOK, AtType, LifecycleAwaits,
       HandleAwaits, Sending
  <2> QED BY <2>1, <2>2
<1>3. RequestTypeOK'
  BY <1>1, <1>2 DEF RollbackHook, RequestTypeOK, AtType
<1>4. \A q \in Requests \ {r} : Untouched(q)
  BY <1>1, <1>2 DEF RollbackHook, Untouched, RequestTypeOK
<1>5. UNCHANGED <<built, tx, pending, reported, events>>
  BY DEF RollbackHook
<1>6. at[r].handle = "onError" /\ calls[r] \in Nat
  BY DEF RollbackHook, RequestTypeOK
<1>7. Local(r)'
  BY <1>1, <1>2, <1>5, <1>6, Awaits DEF Local, InTurn, PendingIsOpen, CalledOnce,
     Closed, FailedFirst, Reported, TimedOut, RollbackFailed, Dropped
<1> QED BY <1>3, <1>4, <1>7 DEF Good

LEMMA RollsBackGood ==
  ASSUME RequestTypeOK, NEW r \in Requests, Local(r), RollsBack(r)
  PROVE  Good(r)
<1>1. /\ at' \in AtType /\ \A q \in Requests \ {r} : at'[q] = at[q]
      /\ at'[r].lifecycle = at[r].lifecycle /\ at'[r].handle = "restOfOnError"
  BY HandleGoes, Awaits DEF RollsBack, RequestTypeOK, AtType, HandleAwaits, Sending
<1>2. RequestTypeOK'
  BY <1>1 DEF RollsBack, RequestTypeOK, AtType, Statuses, Events
<1>3. \A q \in Requests \ {r} : Untouched(q)
  BY <1>1 DEF RollsBack, Untouched, RequestTypeOK
<1>4. Local(r)'
  BY <1>1, Awaits DEF RollsBack, RequestTypeOK, Local, InTurn, PendingIsOpen, CalledOnce,
     Closed, FailedFirst, Reported, TimedOut, RollbackFailed, Dropped
<1> QED BY <1>2, <1>3, <1>4 DEF Good

LEMMA RollbackRejectsGood ==
  ASSUME RequestTypeOK, NEW r \in Requests, Local(r), RollbackRejects(r)
  PROVE  Good(r)
<1>1. /\ at' \in AtType /\ \A q \in Requests \ {r} : at'[q] = at[q]
      /\ at'[r].lifecycle = at[r].lifecycle /\ at'[r].handle = "restOfOnError"
  BY HandleGoes, Awaits DEF RollbackRejects, Note, RequestTypeOK, AtType, HandleAwaits,
     Sending
<1>2. RequestTypeOK'
  BY <1>1, Rejects DEF RollbackRejects, Note, RequestTypeOK, AtType, Statuses, Events
<1>3. \A q \in Requests \ {r} : Untouched(q)
  BY <1>1 DEF RollbackRejects, Note, Untouched, RequestTypeOK
<1>4. Local(r)'
  BY <1>1, Awaits DEF RollbackRejects, Note, RequestTypeOK, Local, InTurn, PendingIsOpen,
     CalledOnce, Closed, FailedFirst, Reported, TimedOut, RollbackFailed, Dropped
<1> QED BY <1>2, <1>3, <1>4 DEF Good

LEMMA RestOfOnErrorGood ==
  ASSUME RequestTypeOK, NEW r \in Requests, Local(r), RestOfOnError(r)
  PROVE  Good(r)
<1>1. /\ at' \in AtType /\ \A q \in Requests \ {r} : at'[q] = at[q]
      /\ at'[r].lifecycle = at[r].lifecycle /\ at'[r].handle = "onSend"
  BY HandleGoes, Awaits DEF RestOfOnError, StartSending, Build, RequestTypeOK, AtType,
     HandleAwaits, Sending
<1>2. RequestTypeOK'
  BY <1>1 DEF RestOfOnError, StartSending, Build, RequestTypeOK, AtType, Statuses, Events
<1>3. \A q \in Requests \ {r} : Untouched(q)
  BY <1>1 DEF RestOfOnError, StartSending, Build, Untouched, RequestTypeOK
<1>4. Local(r)'
  BY <1>1, Awaits DEF RestOfOnError, StartSending, Build, RequestTypeOK, Local, InTurn,
     PendingIsOpen, CalledOnce, Closed, FailedFirst, Reported, TimedOut,
     RollbackFailed, Dropped
<1> QED BY <1>2, <1>3, <1>4 DEF Good

LEMMA FinishGood ==
  ASSUME RequestTypeOK, NEW r \in Requests, Local(r), Finish(r)
  PROVE  Good(r)
<1>1. /\ at' \in AtType /\ \A q \in Requests \ {r} : at'[q] = at[q]
      /\ at'[r].lifecycle = at[r].lifecycle /\ at'[r].handle = "answered"
  BY HandleGoes DEF Finish, RequestTypeOK, AtType, HandleAwaits
<1>2. built[r].handle \in Statuses /\ statusCode'[r] = built[r].handle
  BY DEF Finish, RequestTypeOK
<1>3. reported[r] = <<>> /\ Append(reported[r], built[r].handle) = <<built[r].handle>>
  BY DEF Local, Reported, Finish
<1>4. /\ reported' \in [Requests -> Seq(Statuses)] /\ reported'[r] = <<built[r].handle>>
      /\ \A q \in Requests \ {r} : reported'[q] = reported[q]
  <2>1. reported' = [reported EXCEPT ![r] = <<built[r].handle>>]
    BY <1>2, <1>3 DEF Finish, RequestTypeOK
  <2>2. <<built[r].handle>> \in Seq(Statuses)
    BY <1>2
  <2> QED BY <2>1, <2>2 DEF RequestTypeOK
<1>5. RequestTypeOK'
  BY <1>1, <1>2, <1>4 DEF Finish, RequestTypeOK, AtType
<1>6. \A q \in Requests \ {r} : Untouched(q)
  BY <1>1, <1>4 DEF Finish, Untouched, RequestTypeOK
<1>7. Local(r)'
  BY <1>1, <1>4, Awaits DEF Finish, RequestTypeOK, Local, InTurn, PendingIsOpen, CalledOnce,
     Closed, FailedFirst, Reported, TimedOut, RollbackFailed, Dropped
<1> QED BY <1>5, <1>6, <1>7 DEF Good

LEMMA ArriveGood ==
  ASSUME RequestTypeOK, NEW r \in Requests, Local(r), Arrive(r)
  PROVE  Good(r)
<1>1. /\ at' \in AtType /\ \A q \in Requests \ {r} : at'[q] = at[q]
      /\ \/ at'[r].handle = "racing" /\ at'[r].lifecycle = "onRequest"
         \/ /\ at'[r].handle \in {"missHooks", "errorHandler"}
            /\ at'[r].lifecycle = at[r].lifecycle
  <2>1. CASE at' = [at EXCEPT ![r] = [handle |-> "racing", lifecycle |-> "onRequest"]]
    <3>1. [handle |-> "racing", lifecycle |-> "onRequest"]
            \in [handle : HandleAwaits, lifecycle : LifecycleAwaits]
      BY Awaits DEF HandleAwaits, LifecycleAwaits
    <3> QED BY <2>1, <3>1 DEF RequestTypeOK, AtType
  <2>2. CASE Go(r, "handle", "missHooks") \/ Go(r, "handle", "errorHandler")
    BY <2>2, HandleGoes DEF RequestTypeOK, AtType, HandleAwaits
  <2> QED BY <2>1, <2>2 DEF Arrive
<1>2. RequestTypeOK'
  BY <1>1 DEF Arrive, Build, RequestTypeOK, AtType, Statuses
<1>3. \A q \in Requests \ {r} : Untouched(q)
  BY <1>1 DEF Arrive, Build, Untouched, RequestTypeOK
<1>4. Local(r)'
  BY <1>1, Awaits DEF Arrive, Build, RequestTypeOK, Local, InTurn, PendingIsOpen,
     CalledOnce, Closed, FailedFirst, Reported, TimedOut, RollbackFailed, Dropped
<1> QED BY <1>2, <1>3, <1>4 DEF Good

-----------------------------------------------------------------------------
LEMMA StepGood ==
  ASSUME RequestTypeOK, NEW r \in Requests, Local(r), Arrive(r) \/ LifecycleStep(r) \/ HandleStep(r)
  PROVE  Good(r)
<1>1. CASE SendStep(r, "lifecycle")
  BY <1>1, LifecycleHookThrowsGood, LifecycleCommitHookGood, LifecycleCommitsGood,
     LifecycleCommitRejectsGood, LifecycleRestOfOnSendGood DEF SendStep
<1>2. CASE SendStep(r, "handle")
  BY <1>2, HandleHookThrowsGood, HandleCommitHookGood, HandleCommitsGood,
     HandleCommitRejectsGood, HandleRestOfOnSendGood DEF SendStep
<1>3. CASE LifecycleStep(r)
  BY <1>1, <1>3, ContinueGood, PassGuardsGood, BeginGood, AnswerEarlyGood, ThrowGood,
     RespondGood DEF LifecycleStep
<1>4. CASE ErrorStep(r)
  BY <1>4, ErrorHandlerAnswersGood, ErrorHookAnswersGood, PassErrorHandlerGood,
     RollbackHookGood, RollsBackGood, RollbackRejectsGood, RestOfOnErrorGood DEF
     ErrorStep
<1>5. CASE HandleStep(r)
  BY <1>2, <1>4, <1>5, LifecycleDoneGood, LifecycleThrewGood, TimesOutGood,
     MissHooksGood, NotFoundHandlerGood, FinishGood DEF HandleStep
<1> QED BY <1>3, <1>5, ArriveGood

\* The inductive invariant.
IInv == RequestTypeOK /\ Settled

LEMMA SettledInit == RequestInit => IInv
<1> SUFFICES ASSUME RequestInit PROVE IInv
  OBVIOUS
<1>1. RequestTypeOK
  BY RequestsAssumption DEF RequestInit, RequestTypeOK, HandleAwaits, LifecycleAwaits, Statuses
<1>2. ASSUME NEW r \in Requests PROVE Local(r)
  BY Awaits DEF RequestInit, Local, InTurn, PendingIsOpen, CalledOnce, Closed, FailedFirst,
     Reported, TimedOut, RollbackFailed, Dropped
<1> QED BY <1>1, <1>2 DEF IInv, Settled

LEMMA SettledStep == IInv /\ [RequestNext]_requestVars => IInv'
<1> SUFFICES ASSUME IInv, [RequestNext]_requestVars PROVE IInv'
  OBVIOUS
<1>1. CASE UNCHANGED requestVars
  BY <1>1 DEF requestVars, IInv, Settled, RequestTypeOK, Local, InTurn, PendingIsOpen, CalledOnce,
     Closed, FailedFirst, Reported, TimedOut, RollbackFailed, Dropped
<1>2. ASSUME NEW r \in Requests, Arrive(r) \/ LifecycleStep(r) \/ HandleStep(r)
      PROVE  IInv'
  <2>1. Good(r)
    BY <1>2, StepGood DEF IInv, Settled
  <2>2. ASSUME NEW q \in Requests PROVE Local(q)'
    BY <2>1, OthersKept DEF IInv, Settled, Good
  <2> QED BY <2>1, <2>2 DEF IInv, Settled, Good
<1> QED BY <1>1, <1>2 DEF RequestNext

LEMMA SettledAlways == RequestSpec => []IInv
BY SettledInit, SettledStep, PTL DEF RequestSpec
-----------------------------------------------------------------------------
\* The types of the requests' state hold of every behaviour.
THEOREM RequestTypesCorrect == RequestSpec => []RequestTypeOK
<1>1. IInv => RequestTypeOK
  BY DEF IInv
<1> QED BY <1>1, SettledAlways, PTL

\* For any number of requests and of rejected calls, a failed request's transaction
\* is not committed but for the reasons named.
LEMMA FailedNotCommitted == RequestSpec => []FailuresAreNotCommitted
<1>1. IInv => FailuresAreNotCommitted
  BY DEF IInv, Settled, Local, FailedFirst, FailuresAreNotCommitted, Threw, TimedOut,
     RollbackFailed
<1> QED BY <1>1, SettledAlways, PTL

\* commit() and rollback() are called once between them.
LEMMA OneSettlingCall == RequestSpec => []SettledOnce
<1>1. IInv => SettledOnce
  BY DEF IInv, Settled, Local, CalledOnce, SettledOnce, TimedOut, RollbackFailed
<1> QED BY <1>1, SettledAlways, PTL

\* A transaction is left open only by an early answer, a hook that threw, a call that
\* rejected or a lifecycle that threw after its timeout.
LEMMA OpenForAReason == RequestSpec => []LeaksExplained
<1>1. ASSUME IInv, NEW r \in Requests, Over(r), tx[r] = "open"
      PROVE  \/ events[r] \cap {"early", "hookThrew", "commitRejected"} # {}
             \/ Threw(r) /\ "timedOut" \in events[r]
  <2>1. CASE at[r].lifecycle = "none"
    BY <1>1, <2>1 DEF IInv, Settled, Local, PendingIsOpen
  <2>2. CASE at[r].lifecycle = "done"
    BY <1>1, <2>2 DEF IInv, Settled, Local, Closed, Dropped
  <2>3. CASE at[r].lifecycle = "threw" /\ at[r].handle = "answered"
    BY <1>1, <2>3 DEF IInv, Settled, Local, Closed, Dropped, TimedOut, Threw
  <2>4. CASE at[r].lifecycle = "threw" /\ at[r].handle = "rejected"
    BY <1>1, <2>4 DEF IInv, Settled, Local, InTurn
  <2> QED BY <1>1, <2>1, <2>2, <2>3, <2>4 DEF Over
<1>2. IInv => LeaksExplained
  BY <1>1 DEF LeaksExplained
<1> QED BY <1>2, SettledAlways, PTL

\* All three together: every transaction is settled as its request went.
THEOREM EveryTransactionSettles == RequestSpec => []TransactionsSettle
BY FailedNotCommitted, OneSettlingCall, OpenForAReason, PTL DEF TransactionsSettle

\* The onResponse hooks run once for an answered request, with the status sent.
THEOREM ReportedOnce == RequestSpec => []StatusReported
<1>1. IInv => StatusReported
  BY DEF IInv, Settled, Local, Reported, StatusReported
<1> QED BY <1>1, SettledAlways, PTL
-----------------------------------------------------------------------------
(* Cookies: the warnings, the last cookie set, and what is read back of it. *)

Hosts == {site.host : site \in Sites}

\* A warning for each host remembered, and one more when the others are kept quiet.
WarningsMatch ==
  /\ warnedInsecureHosts \subseteq Hosts /\ IsFiniteSet(warnedInsecureHosts)
  /\ insecureHostWarningsSuppressed \in BOOLEAN
  /\ warnings \in Seq(Hosts \cup {"more"})
  /\ \A i \in 1..Len(warnings) : warnings[i] \in warnedInsecureHosts \/ (warnings[i] = "more" /\ insecureHostWarningsSuppressed)

CookieRecords == [site : Sites, asked : {"default", "yes", "no"}, value : CookieTexts, text : {Encoded(v) : v \in CookieTexts}, secure : BOOLEAN]

JarSound ==
  /\ jar = <<>> \/ \E cookie \in CookieRecords : jar = <<cookie>>
  /\ \A cookie \in ToSet(jar) : cookie.text = Encoded(cookie.value)

CookieInv == WarningsMatch /\ WarningsBounded /\ JarSound /\ SecureRightly

LEMMA NoneTwice == IsInjective(<<>>)
<1>1. DOMAIN <<>> = {}
  OBVIOUS
<1> QED BY <1>1 DEF IsInjective

LEMMA OnceMore ==
  ASSUME NEW S, NEW w \in Seq(S), NEW x \in S, IsInjective(w), \A i \in 1..Len(w) : w[i] # x
  PROVE  IsInjective(Append(w, x))
<1>1. PICK n \in Nat : n = Len(w)
  OBVIOUS
<1>a. PICK v : v = Append(w, x)
  OBVIOUS
<1>2. DOMAIN v = 1..n+1 /\ DOMAIN w = 1..n /\ v[n + 1] = x /\ \A i \in 1..n : v[i] = w[i]
  BY <1>1, <1>a
<1>3. \A a, b \in 1..n : w[a] = w[b] => a = b
  BY <1>2 DEF IsInjective
<1>4. \A a \in 1..n+1 : a = n + 1 \/ a \in 1..n
  BY <1>1
<1>5. \A a, b \in 1..n+1 : v[a] = v[b] => a = b
  BY <1>1, <1>2, <1>3, <1>4
<1> QED BY <1>a, <1>2, <1>5 DEF IsInjective

LEMMA CookiesStart == CookiesInit => CookieInv
<1> SUFFICES ASSUME CookiesInit PROVE CookieInv
  OBVIOUS
<1>1. /\ warnedInsecureHosts = {} /\ insecureHostWarningsSuppressed = FALSE /\ warnings = <<>> /\ jar = <<>>
  BY DEF CookiesInit
<1>2. Cardinality({}) = 0 /\ IsFiniteSet({}) /\ MaxWarnedHosts \in Nat
  BY FS_EmptySet, CookiesAssumption
<1>3. Len(<<>>) = 0 /\ <<>> \in Seq(Hosts \cup {"more"})
  OBVIOUS
<1>a. WarningsMatch
  <2>1. warnings \in Seq(Hosts \cup {"more"}) /\ 1..Len(warnings) = {}
    BY <1>1, <1>3
  <2> QED BY <1>1, <1>2, <2>1 DEF WarningsMatch
<1>b. WarningsBounded
  BY <1>1, <1>2, <1>3, NoneTwice DEF WarningsBounded
<1>4. ToSet(jar) = {}
  BY <1>1 DEF ToSet
<1> QED BY <1>1, <1>a, <1>b, <1>4 DEF CookieInv, JarSound, SecureRightly

\* A host is told of once.
LEMMA WarningKeeps ==
  ASSUME WarningsMatch, WarningsBounded, NEW host \in Hosts, host # "more", "more" \notin Hosts, Warn(host)
  PROVE  WarningsMatch' /\ WarningsBounded'
         /\ (host \in warnedInsecureHosts' \/ insecureHostWarningsSuppressed')
<1>0. MaxWarnedHosts \in Nat /\ Cardinality(warnedInsecureHosts) \in Nat /\ Len(warnings) \in Nat
  BY CookiesAssumption, FS_CardinalityType DEF WarningsMatch
<1>1. CASE host \in warnedInsecureHosts
  BY <1>1 DEF Warn, WarningsMatch, WarningsBounded
<1>2. CASE host \notin warnedInsecureHosts /\ Cardinality(warnedInsecureHosts) < MaxWarnedHosts
  <2>1. /\ warnedInsecureHosts' = warnedInsecureHosts \cup {host} /\ warnings' = Append(warnings, host)
        /\ insecureHostWarningsSuppressed' = insecureHostWarningsSuppressed
    BY <1>2 DEF Warn
  <2>2. /\ IsFiniteSet(warnedInsecureHosts') /\ Cardinality(warnedInsecureHosts') = Cardinality(warnedInsecureHosts) + 1
    BY <1>2, <2>1, FS_AddElement DEF WarningsMatch
  <2>3. /\ Len(warnings') = Len(warnings) + 1 /\ warnings'[Len(warnings) + 1] = host
        /\ \A i \in 1..Len(warnings) : warnings'[i] = warnings[i]
        /\ warnings' \in Seq(Hosts \cup {"more"})
    BY <2>1 DEF WarningsMatch
  <2>4. host \in Hosts \cup {"more"} /\ \A i \in 1..Len(warnings) : warnings[i] # host
    BY <1>2 DEF WarningsMatch
  <2>5. WarningsMatch'
    BY <1>0, <2>1, <2>2, <2>3 DEF WarningsMatch
  <2>6. IsInjective(warnings')
    BY <2>1, <2>2, <2>4, OnceMore DEF WarningsBounded, WarningsMatch
  <2> QED BY <1>0, <1>2, <2>1, <2>2, <2>3, <2>5, <2>6 DEF WarningsBounded
<1>3. CASE host \notin warnedInsecureHosts /\ ~(Cardinality(warnedInsecureHosts) < MaxWarnedHosts) /\ insecureHostWarningsSuppressed
  BY <1>3 DEF Warn, WarningsMatch, WarningsBounded
<1>4. CASE host \notin warnedInsecureHosts /\ ~(Cardinality(warnedInsecureHosts) < MaxWarnedHosts) /\ ~insecureHostWarningsSuppressed
  <2>1. /\ warnedInsecureHosts' = warnedInsecureHosts /\ warnings' = Append(warnings, "more")
        /\ insecureHostWarningsSuppressed' = TRUE
    BY <1>4 DEF Warn
  <2>2. "more" \in Hosts \cup {"more"}
    OBVIOUS
  <2>3. /\ Len(warnings') = Len(warnings) + 1 /\ warnings'[Len(warnings) + 1] = "more"
        /\ \A i \in 1..Len(warnings) : warnings'[i] = warnings[i]
        /\ warnings' \in Seq(Hosts \cup {"more"})
    BY <2>1, <2>2 DEF WarningsMatch
  <2>4. \A i \in 1..Len(warnings) : warnings[i] # "more"
    BY <1>4 DEF WarningsMatch
  <2>5. WarningsMatch'
    BY <1>0, <2>1, <2>3 DEF WarningsMatch
  <2>6. IsInjective(warnings')
    BY <2>1, <2>2, <2>4, OnceMore DEF WarningsBounded, WarningsMatch
  <2> QED BY <1>0, <1>4, <2>1, <2>3, <2>5, <2>6 DEF WarningsBounded
<1> QED BY <1>1, <1>2, <1>3, <1>4

LEMMA JarOf ==
  ASSUME NEW x
  PROVE  ToSet(<<x>>) = {x}
BY DEF ToSet

LEMMA SettingKeeps ==
  ASSUME CookieInv, NEW site \in Sites, NEW asked \in {"default", "yes", "no"}, NEW value \in CookieTexts,
         SetCookie(site, asked, value)
  PROVE  CookieInv'
<1>1. PICK cookie : cookie = [site |-> site, asked |-> asked, value |-> value, text |-> Encoded(value),
                              secure |-> asked = "yes" \/ (asked = "default" /\ SecureFor(site) # "no")]
  OBVIOUS
<1>2. /\ cookie.site = site /\ cookie.asked = asked /\ cookie.value = value /\ cookie.text = Encoded(value)
      /\ cookie.secure = (asked = "yes" \/ (asked = "default" /\ SecureFor(site) # "no"))
      /\ cookie \in CookieRecords
  BY <1>1 DEF CookieRecords
<1>3. jar' = <<cookie>> /\ ToSet(jar') = {cookie}
  BY <1>1, JarOf DEF SetCookie
<1>4. JarSound'
  BY <1>2, <1>3 DEF JarSound
<1>5. /\ BrowserFacingHost(site) \in {"", site.host} /\ site.host # "more" /\ site.host \in Hosts /\ "more" \notin Hosts
      /\ site.scheme # "https" => SecureFor(site) # "certain"
  BY SitesAssumption DEF SecureFor, Hosts
<1>6. SecureFor(site) \in {"certain", "no", "guess"}
      /\ (SecureFor(site) = "no" => BrowserFacingHost(site) \in NonRoutable /\ BrowserFacingHost(site) # "")
      /\ (SecureFor(site) = "guess" => BrowserFacingHost(site) \notin NonRoutable /\ BrowserFacingHost(site) # "")
  BY DEF SecureFor
<1>7. CASE asked = "default" /\ SecureFor(site) = "guess"
  <2>1. Warn(site.host) /\ BrowserFacingHost(site) = site.host
    BY <1>5, <1>6, <1>7 DEF SetCookie
  <2>2. WarningsMatch' /\ WarningsBounded' /\ (site.host \in warnedInsecureHosts' \/ insecureHostWarningsSuppressed')
    BY <1>5, <2>1, WarningKeeps DEF CookieInv
  <2>3. SecureRightly'
    BY <1>2, <1>3, <1>6, <1>7, <2>1, <2>2 DEF SecureRightly, Returns
  <2> QED BY <1>4, <2>2, <2>3 DEF CookieInv
<1>8. CASE ~(asked = "default" /\ SecureFor(site) = "guess")
  <2>1. UNCHANGED <<warnedInsecureHosts, insecureHostWarningsSuppressed, warnings>>
    BY <1>8 DEF SetCookie
  <2>2. WarningsMatch' /\ WarningsBounded'
    BY <2>1 DEF CookieInv, WarningsMatch, WarningsBounded
  <2>3. SecureRightly'
    BY <1>2, <1>3, <1>5, <1>6, <1>8 DEF SecureRightly, Returns
  <2> QED BY <1>4, <2>2, <2>3 DEF CookieInv
<1> QED BY <1>7, <1>8

LEMMA ResetKeeps == CookieInv /\ ResetWarnings => CookieInv'
<1> SUFFICES ASSUME CookieInv, ResetWarnings PROVE CookieInv'
  OBVIOUS
<1>1. /\ warnedInsecureHosts' = {} /\ insecureHostWarningsSuppressed' = FALSE /\ warnings' = <<>> /\ jar' = jar
  BY DEF ResetWarnings
<1>2. Cardinality({}) = 0 /\ IsFiniteSet({}) /\ MaxWarnedHosts \in Nat
  BY FS_EmptySet, CookiesAssumption
<1>3. Len(<<>>) = 0 /\ <<>> \in Seq(Hosts \cup {"more"})
  OBVIOUS
<1>a. WarningsMatch'
  <2>1. warnings' \in Seq(Hosts \cup {"more"}) /\ 1..Len(warnings') = {}
    BY <1>1, <1>3
  <2> QED BY <1>1, <1>2, <2>1 DEF WarningsMatch
<1>b. WarningsBounded'
  BY <1>1, <1>2, <1>3, NoneTwice DEF WarningsBounded
<1>4. JarSound' /\ SecureRightly'
  BY <1>1 DEF CookieInv, JarSound, SecureRightly, Returns
<1> QED BY <1>a, <1>b, <1>4 DEF CookieInv

\* What is written is read back: decodeURIComponent() undoes encodeURIComponent().
LEMMA DecodingUndoes ==
  ASSUME NEW value \in CookieTexts
  PROVE  DecodedText(Encoded(value)) = [i \in DOMAIN value |-> <<value[i], "raw">>]
<1>1. \A i \in DOMAIN value : value[i] # "escape"
  BY SitesAssumption
<1>2. DOMAIN Encoded(value) = DOMAIN value
      /\ \A i \in DOMAIN value : Encoded(value)[i] = IF value[i] \in Unsafe THEN <<"escape", value[i]>> ELSE <<value[i], "raw">>
  BY DEF Encoded, Escape
<1>3. ASSUME NEW i \in DOMAIN value PROVE Encoded(value)[i] # <<"%", "raw">>
  <2>1. <<"escape", value[i]>> # <<"%", "raw">>
    OBVIOUS
  <2>2. value[i] \notin Unsafe => <<value[i], "raw">> # <<"%", "raw">>
    BY DEF Unsafe
  <2> QED BY <1>2, <2>1, <2>2
<1>4. \A i \in DOMAIN value :
        (IF Encoded(value)[i][1] = "escape" THEN <<Encoded(value)[i][2], "raw">> ELSE Encoded(value)[i]) = <<value[i], "raw">>
  BY <1>1, <1>2
<1> QED BY <1>2, <1>3, <1>4 DEF DecodedText

LEMMA ParsedBack ==
  ASSUME NEW before, NEW after, NEW text, before[1] # "sid", after[1] # "sid"
  PROVE  LET parsed == ParseCookies(<<before, <<"sid", text>>, after>>)
         IN "sid" \in DOMAIN parsed /\ parsed["sid"] = DecodedText(text)
<1>1. PICK pairs : pairs = <<before, <<"sid", text>>, after>>
  OBVIOUS
<1>2. DOMAIN pairs = 1..3 /\ pairs[1] = before /\ pairs[2] = <<"sid", text>> /\ pairs[3] = after
  BY <1>1
<1>3. pairs[2][1] = "sid" /\ pairs[2][2] = text
  BY <1>2
<1>4. "sid" \in {pairs[i][1] : i \in DOMAIN pairs} \ ({""} \cup BlockedNames)
  BY <1>2, <1>3 DEF BlockedNames
<1>5. \A i \in DOMAIN pairs : pairs[i][1] = "sid" <=> i = 2
  BY <1>2, <1>3
<1>6. (CHOOSE i \in DOMAIN pairs : pairs[i][1] = "sid" /\ \A j \in DOMAIN pairs : pairs[j][1] = "sid" => j <= i) = 2
  BY <1>2, <1>5
<1> QED BY <1>1, <1>3, <1>4, <1>6 DEF ParseCookies

LEMMA ValuesComeBack == CookieInv => ValuesReturn
<1> SUFFICES ASSUME CookieInv, NEW cookie \in ToSet(jar), NEW before \in ForeignPairs, NEW after \in ForeignPairs
             PROVE  LET parsed == ParseCookies(<<before, <<"sid", cookie.text>>, after>>)
                    IN "sid" \in DOMAIN parsed /\ parsed["sid"] = [i \in DOMAIN cookie.value |-> <<cookie.value[i], "raw">>]
  BY DEF ValuesReturn
<1>1. cookie.text = Encoded(cookie.value) /\ cookie.value \in CookieTexts
  <2>1. PICK c \in CookieRecords : jar = <<c>>
    BY DEF CookieInv, JarSound, ToSet
  <2> QED BY <2>1, JarOf DEF CookieInv, JarSound, CookieRecords
<1>2. before[1] # "sid" /\ after[1] # "sid"
  BY SitesAssumption
<1> QED BY <1>1, <1>2, ParsedBack, DecodingUndoes

\* CookiesSound, part of AnswersSound, for any sites and values: a cookie without a Secure of
\* its own gets the one its site needs (resolveSecureDefault()), one sent back among others
\* is read as it was set (serializeCookie(), parseCookies()), and the warnings are bounded.
THEOREM CookiesStaySound == CookiesSpec => []CookiesSound
<1>1. CookieInv /\ [CookiesNext]_cookieVars => CookieInv'
  <2> SUFFICES ASSUME CookieInv, [CookiesNext]_cookieVars PROVE CookieInv'
    OBVIOUS
  <2>1. CASE UNCHANGED cookieVars
    BY <2>1 DEF cookieVars, CookieInv, WarningsMatch, WarningsBounded, JarSound, SecureRightly, Returns
  <2> QED BY <2>1, SettingKeeps, ResetKeeps DEF CookiesNext
<1>2. CookieInv => CookiesSound
  BY ValuesComeBack DEF CookiesSound, CookieInv
<1> QED BY <1>1, <1>2, CookiesStart, PTL DEF CookiesSpec

-----------------------------------------------------------------------------
(* Remote calls: the builder, and the chain of middlewares. *)

StepNames == {"input", "output", "use", "allowFormData"}

\* What the first n steps of a declaration say.
Uses(steps, n) == {i \in 1..n : steps[i] = "use"}
Says(steps, n, step) == \E i \in 1..n : steps[i] = step
SoFar(steps, n) ==
  [middlewares |-> Cardinality(Uses(steps, n)), input |-> Says(steps, n, "input"),
   output |-> Says(steps, n, "output"), allowFormData |-> Says(steps, n, "allowFormData")]

LEMMA UsesFinite ==
  ASSUME NEW steps \in Seq(StepNames), NEW n \in Nat
  PROVE  IsFiniteSet(Uses(steps, n)) /\ Cardinality(Uses(steps, n)) \in Nat
<1>1. IsFiniteSet(1..n)
  BY FS_Interval
<1>2. Uses(steps, n) \subseteq 1..n
  BY DEF Uses
<1> QED BY <1>1, <1>2, FS_Subset, FS_CardinalityType

LEMMA SoFarStarts ==
  ASSUME NEW steps
  PROVE  SoFar(steps, 0) = NewBuilder
<1>1. Uses(steps, 0) = {} /\ \A step : Says(steps, 0, step) = FALSE
  BY DEF Uses, Says
<1> QED BY <1>1, FS_EmptySet DEF SoFar, NewBuilder

LEMMA SoFarGoesOn ==
  ASSUME NEW steps \in Seq(StepNames), NEW n \in 1..Len(steps)
  PROVE  SoFar(steps, n) = Chained(SoFar(steps, n - 1), steps[n])
<1>1. n \in Nat /\ n - 1 \in Nat /\ steps[n] \in StepNames /\ 1..n = (1..n-1) \cup {n} /\ n \notin 1..n-1
  OBVIOUS
<1>2. \A step \in StepNames : Says(steps, n, step) = (Says(steps, n - 1, step) \/ steps[n] = step)
  BY <1>1 DEF Says
<1>3. CASE steps[n] = "use"
  <2>1. Uses(steps, n) = Uses(steps, n - 1) \cup {n} /\ n \notin Uses(steps, n - 1)
    BY <1>1, <1>3 DEF Uses
  <2>2. Cardinality(Uses(steps, n)) = Cardinality(Uses(steps, n - 1)) + 1
    BY <1>1, <2>1, UsesFinite, FS_AddElement
  <2>3. \A step \in StepNames \ {"use"} : Says(steps, n, step) = Says(steps, n - 1, step)
    <3>1. \A step : Says(steps, n - 1, step) \in BOOLEAN
      BY DEF Says
    <3> QED BY <1>2, <1>3, <3>1
  <2> QED BY <1>3, <2>2, <2>3 DEF SoFar, Chained, StepNames
<1>4. CASE steps[n] # "use"
  <2>1. Uses(steps, n) = Uses(steps, n - 1)
    BY <1>1, <1>4 DEF Uses
  <2>2. Says(steps, n, steps[n]) = TRUE /\ \A step \in StepNames \ {steps[n]} : Says(steps, n, step) = Says(steps, n - 1, step)
    BY <1>1, <1>2 DEF Says
  <2> QED BY <1>1, <1>4, <2>1, <2>2 DEF SoFar, Chained, StepNames
<1> QED BY <1>3, <1>4

\* The steps of a declaration count wherever they stand in it.
LEMMA BuiltIs ==
  ASSUME NEW steps \in Seq(StepNames)
  PROVE  Built(steps) = SoFar(steps, Len(steps))
<1> DEFINE Follows(f) == f = [n \in 0..Len(steps) |-> IF n = 0 THEN NewBuilder ELSE Chained(f[n - 1], steps[n])]
           g == [n \in 0..Len(steps) |-> SoFar(steps, n)]
           f == CHOOSE h : Follows(h)
           Bad == {n \in 0..Len(steps) : f[n] # g[n]}
<1>0. Len(steps) \in Nat
  OBVIOUS
<1>1. Follows(g)
  <2>1. ASSUME NEW n \in 0..Len(steps) PROVE g[n] = IF n = 0 THEN NewBuilder ELSE Chained(g[n - 1], steps[n])
    <3>1. CASE n = 0
      BY <3>1, <1>0, SoFarStarts
    <3>2. CASE n # 0
      <4>1. n \in 1..Len(steps) /\ n - 1 \in 0..Len(steps)
        BY <1>0, <3>2
      <4> QED BY <3>2, <4>1, SoFarGoesOn
    <3> QED BY <3>1, <3>2
  <2> HIDE DEF g
  <2>2. g = [n \in 0..Len(steps) |-> g[n]]
    BY DEF g
  <2>3. [n \in 0..Len(steps) |-> g[n]] = [n \in 0..Len(steps) |-> IF n = 0 THEN NewBuilder ELSE Chained(g[n - 1], steps[n])]
    BY <2>1
  <2> QED BY <2>2, <2>3
<1>2. Follows(f)
  BY <1>1
<1>3. Built(steps) = f[Len(steps)]
  BY DEF Built
<1> HIDE DEF f
<1>4. \A n \in 0..Len(steps) : f[n] = IF n = 0 THEN NewBuilder ELSE Chained(f[n - 1], steps[n])
  <2>1. PICK h : h = f
    OBVIOUS
  <2>2. h = [n \in 0..Len(steps) |-> IF n = 0 THEN NewBuilder ELSE Chained(h[n - 1], steps[n])]
    BY <1>2, <2>1
  <2>3. \A n \in 0..Len(steps) : h[n] = IF n = 0 THEN NewBuilder ELSE Chained(h[n - 1], steps[n])
    BY <2>2
  <2> QED BY <2>1, <2>3
<1>5. \A n \in 0..Len(steps) : g[n] = SoFar(steps, n)
  OBVIOUS
<1> HIDE DEF Follows, g
<1>6. Bad = {}
  <2> SUFFICES ASSUME Bad # {} PROVE FALSE
    OBVIOUS
  <2>1. Bad \subseteq Nat
    BY <1>0
  <2>2. PICK n \in Bad : \A m \in Bad : n <= m
    <3> HIDE DEF Bad
    <3> QED BY <2>1, SmallestNat
  <2>3. n # 0
    BY <1>0, <1>4, <1>5, SoFarStarts
  <2>4. n \in 1..Len(steps) /\ n - 1 \in 0..Len(steps) /\ ~(n <= n - 1)
    BY <1>0, <2>3
  <2>5. f[n - 1] = g[n - 1]
    BY <2>2, <2>4
  <2>6. f[n] = g[n]
    BY <1>4, <1>5, <2>3, <2>4, <2>5, SoFarGoesOn
  <2> QED BY <2>6
<1> QED BY <1>0, <1>3, <1>5, <1>6

\* What a call's declaration comes to.
LEMMA ProcIs ==
  ASSUME call \in Calls
  PROVE  /\ Chain \in Nat
         /\ Chain = IF call.path = "introspection" THEN call.guards ELSE Cardinality({i \in DOMAIN call.steps : call.steps[i] = "use"})
         /\ Proc.input = Declared("input") /\ Proc.allowFormData = Declared("allowFormData")
<1>1. call.steps \in Seq(StepNames) /\ call.guards \in Nat
  BY RpcAssumption DEF StepNames
<1>2. PICK steps \in Seq(StepNames) : steps = call.steps
  BY <1>1
<1>3. Proc = SoFar(steps, Len(steps)) /\ Len(steps) \in Nat /\ DOMAIN steps = 1..Len(steps)
  BY <1>2, BuiltIs DEF Proc
<1>4. Cardinality(Uses(steps, Len(steps))) \in Nat
  BY <1>3, UsesFinite
<1>5. ASSUME NEW step PROVE Says(steps, Len(steps), step) = (step \in ToSet(steps))
  <2>1. Says(steps, Len(steps), step) <=> step \in ToSet(steps)
    BY <1>3 DEF Says, ToSet
  <2>2. Says(steps, Len(steps), step) \in BOOLEAN
    BY DEF Says
  <2> QED BY <2>1, <2>2
<1>6. Proc.input = Declared("input") /\ Proc.allowFormData = Declared("allowFormData")
  BY <1>2, <1>3, <1>5 DEF SoFar, Declared
<1>7. Proc.middlewares = Cardinality({i \in DOMAIN call.steps : call.steps[i] = "use"}) /\ Proc.middlewares \in Nat
  BY <1>2, <1>3, <1>4 DEF SoFar, Uses
<1> QED BY <1>1, <1>6, <1>7 DEF Chain

\* While no middleware calls next() twice, those that have not returned are the first ones, in
\* order.  Before the first returns, all that were entered are among them; after it, all of
\* them have called next(), so that nobody enters the chain again, and if the handler ran, it
\* ran once and every middleware had let it.
Stacked == \A i \in 1..Len(frames) : frames[i] = i
Descending ==
  /\ index = Len(frames) /\ handlerRuns = 0 /\ refused = {}
  /\ \A m \in 1..Chain : nexts[m] = IF m < Len(frames) THEN 1 ELSE 0
Returned ==
  /\ \A m \in 1..Len(frames) : nexts[m] = 1
  /\ handlerRuns = 0 \/ (handlerRuns = 1 /\ refused = {} /\ \A m \in 1..Chain : nexts[m] = 1)
OnceEach == \A m \in 1..Chain : nexts[m] <= 1

ChainSound ==
  /\ call \in Calls /\ index \in 0..Chain /\ frames \in Seq(1..Chain) /\ Len(frames) <= index
  /\ nexts \in [1..Chain -> Nat] /\ handlerRuns \in Nat
  /\ handlerRuns > 0 => index = Chain /\ rpcAt \in {"chain", "ran", "answered"}
  /\ rpcAt \in {"arrived", "body", "context"} \/ (rpcAt = "chain" /\ index = 0 /\ frames = <<>>)
       => frames = <<>> /\ index = 0 /\ handlerRuns = 0 /\ refused = {} /\ \A m \in 1..Chain : nexts[m] = 0
  /\ OnceEach => Stacked /\ (Descending \/ Returned)

\* What handle() has seen to when it is past receiving the call, and past its input.
Admitted ==
  /\ call.type = "mutation" => call.method = "POST"
  /\ call.method # "GET" => /\ call.from # "cross" /\ call.content # "text"
                            /\ call.content = "form" => Declared("allowFormData")
Fits == Declared("input") => call.valid
CallAdmitted ==
  /\ call.path = "procedure" => /\ rpcAt \in {"body", "context", "chain"} \/ handlerRuns > 0 => Admitted
                                /\ rpcAt \in {"context", "chain"} \/ handlerRuns > 0 => Fits
  /\ status = "415" => call.content = "text" \/ ~Declared("allowFormData")
  /\ status = "rejected" => call.content = "form" \/ call.path = "introspection"

RpcInv == ChainSound /\ CallAdmitted

LEMMA RpcStarts == RpcInit => RpcInv
<1> SUFFICES ASSUME RpcInit PROVE RpcInv
  OBVIOUS
<1>1. /\ call \in Calls /\ rpcAt = "arrived" /\ index = 0 /\ frames = <<>> /\ nexts = [m \in 1..Chain |-> 0]
      /\ refused = {} /\ handlerRuns = 0 /\ status = "none"
  BY DEF RpcInit
<1>2. PICK n \in Nat : n = Chain
  BY <1>1, ProcIs
<1>3. Len(<<>>) = 0 /\ <<>> \in Seq(1..n)
  OBVIOUS
<1>4. Descending /\ Stacked
  BY <1>1, <1>2, <1>3 DEF Descending, Stacked
<1>5. ChainSound
  BY <1>1, <1>2, <1>3, <1>4 DEF ChainSound
<1>6. CallAdmitted
  BY <1>1 DEF CallAdmitted
<1> QED BY <1>5, <1>6 DEF RpcInv

\* A step that leaves the chain alone.
LEMMA BesideChain ==
  ASSUME ChainSound, UnchangedChain,
         rpcAt' \in {"arrived", "body", "context", "chain", "ran", "answered"},
         rpcAt \in {"arrived", "body", "context", "ran"}, rpcAt = "ran" => rpcAt' = "answered"
  PROVE  ChainSound'
<1>1. Chain' = Chain
  BY DEF UnchangedChain, Chain, Proc
<1>2. (Stacked <=> Stacked') /\ (Descending <=> Descending') /\ (Returned <=> Returned') /\ (OnceEach <=> OnceEach')
  BY <1>1 DEF UnchangedChain, Stacked, Descending, Returned, OnceEach
<1> QED BY <1>1, <1>2 DEF UnchangedChain, ChainSound

\* next(): the next middleware is entered, or the handler runs.
LEMMA NextKeeps ==
  ASSUME RpcInv, rpcAt = "chain", NextInChain, UNCHANGED <<call, refused, status>>,
         NEW n \in Nat, n = Chain, NEW k \in Nat, k = Len(frames),
         \/ k = 0 /\ frames = <<>> /\ index = 0 /\ UNCHANGED nexts
         \/ k > 0 /\ nexts' = [nexts EXCEPT ![frames[k]] = @ + 1]
  PROVE  RpcInv'
<1>1. Chain' = n /\ call \in Calls /\ index \in 0..n /\ frames \in Seq(1..n) /\ nexts \in [1..n -> Nat] /\ handlerRuns \in Nat
  BY DEF RpcInv, ChainSound, Chain, Proc
<1>2. CallAdmitted'
  <2>1. rpcAt' \in {"chain", "ran"} /\ UNCHANGED <<call, status>>
    BY DEF NextInChain
  <2> QED BY <2>1 DEF RpcInv, CallAdmitted, Admitted, Fits, Declared
<1>3. nexts' \in [1..n -> Nat] /\ \A m \in 1..n : nexts[m] <= nexts'[m]
  <2>1. CASE k = 0
    BY <1>1, <2>1
  <2>2. CASE k > 0
    <3>1. PICK f \in 1..n : f = frames[k]
      BY <1>1, <2>2
    <3>2. nexts' = [nexts EXCEPT ![f] = nexts[f] + 1] /\ nexts[f] \in Nat
      BY <1>1, <2>2, <3>1
    <3> QED BY <1>1, <3>2
  <2> QED BY <2>1, <2>2
<1>4. OnceEach' => OnceEach
  BY <1>1, <1>3 DEF OnceEach
<1>5. ASSUME OnceEach' PROVE /\ Stacked /\ index = k /\ handlerRuns = 0 /\ refused = {} /\ k <= n
                             /\ \A m \in 1..n : nexts'[m] = IF m <= k THEN 1 ELSE 0
  <2>1. Stacked /\ (Descending \/ Returned) /\ k <= index
    BY <1>4, <1>5 DEF RpcInv, ChainSound
  <2>2. CASE k = 0
    <3>1. frames = <<>> /\ index = 0 /\ nexts' = nexts
      BY <1>1, <2>2
    <3>2. handlerRuns = 0 /\ refused = {} /\ \A m \in 1..n : nexts[m] = 0
      BY <3>1 DEF RpcInv, ChainSound
    <3> QED BY <1>1, <2>1, <2>2, <3>1, <3>2
  <2>3. CASE k > 0
    <3>1. frames[k] = k /\ k \in 1..n
      BY <1>1, <2>1, <2>3 DEF Stacked
    <3>2. nexts'[k] = nexts[k] + 1 /\ nexts'[k] <= 1 /\ \A m \in 1..n \ {k} : nexts'[m] = nexts[m]
      BY <1>1, <1>5, <2>3, <3>1 DEF OnceEach
    <3>3. nexts[k] = 0
      BY <1>1, <3>1, <3>2
    <3>4. Descending
      BY <2>1, <3>1, <3>3 DEF Returned
    <3> QED BY <1>1, <2>1, <3>1, <3>2, <3>3, <3>4 DEF Descending
  <2> QED BY <2>2, <2>3
<1>6. CASE index < n
  <2>1. /\ index' = index + 1 /\ frames' = Append(frames, index + 1) /\ rpcAt' = "chain" /\ handlerRuns' = handlerRuns
        /\ refused' = refused
    BY <1>6 DEF NextInChain
  <2>2. /\ frames' \in Seq(1..n) /\ Len(frames') = k + 1 /\ frames'[k + 1] = index + 1
        /\ \A i \in 1..k : frames'[i] = frames[i]
    BY <1>1, <1>6, <2>1
  <2>3. handlerRuns = 0
    BY <1>1, <1>6 DEF RpcInv, ChainSound
  <2>4. OnceEach' => Stacked' /\ Descending'
    <3> SUFFICES ASSUME OnceEach' PROVE Stacked' /\ Descending'
      OBVIOUS
    <3>1. Stacked'
      BY <1>5, <2>2 DEF Stacked
    <3>2. Descending'
      BY <1>1, <1>5, <2>1, <2>2, <2>3 DEF Descending
    <3> QED BY <3>1, <3>2
  <2>5. frames' # <<>> /\ index' \in 0..n /\ Len(frames') <= index'
    <3>1. k <= index
      BY DEF RpcInv, ChainSound
    <3>2. Len(<<>>) = 0 /\ k + 1 # 0
      OBVIOUS
    <3> QED BY <1>1, <1>6, <2>1, <2>2, <3>1, <3>2
  <2>6. (OnceEach => Stacked /\ (Descending \/ Returned))' /\ nexts' \in [1..n -> Nat]
    BY <1>3, <2>4
  <2>7. (handlerRuns > 0 => index = Chain /\ rpcAt \in {"chain", "ran", "answered"})'
    BY <2>1, <2>3
  <2>8. (rpcAt \in {"arrived", "body", "context"} \/ (rpcAt = "chain" /\ index = 0 /\ frames = <<>>)
           => frames = <<>> /\ index = 0 /\ handlerRuns = 0 /\ refused = {} /\ \A m \in 1..Chain : nexts[m] = 0)'
    BY <2>1, <2>5
  <2>9. ChainSound'
    BY <1>1, <2>1, <2>2, <2>5, <2>6, <2>7, <2>8 DEF ChainSound
  <2> QED BY <1>2, <2>9 DEF RpcInv
<1>7. CASE ~(index < n)
  <2>1. /\ index' = index /\ frames' = frames /\ handlerRuns' = handlerRuns + 1 /\ rpcAt' = IF frames = <<>> THEN "ran" ELSE "chain"
        /\ index = n /\ refused' = refused
    BY <1>1, <1>7 DEF NextInChain
  <2>2. OnceEach' => Stacked' /\ Returned'
    <3> SUFFICES ASSUME OnceEach' PROVE Stacked' /\ Returned'
      OBVIOUS
    <3>1. Stacked'
      BY <1>5, <2>1 DEF Stacked
    <3>2. Returned'
      BY <1>1, <1>5, <2>1 DEF Returned
    <3> QED BY <3>1, <3>2
  <2>3. rpcAt' = "ran" \/ (rpcAt' = "chain" /\ frames' # <<>>)
    BY <2>1
  <2>4. (OnceEach => Stacked /\ (Descending \/ Returned))' /\ nexts' \in [1..n -> Nat]
    BY <1>3, <2>2
  <2>5. Len(frames') <= index'
    BY <2>1 DEF RpcInv, ChainSound
  <2>6. (handlerRuns > 0 => index = Chain /\ rpcAt \in {"chain", "ran", "answered"})'
    BY <1>1, <2>1, <2>3
  <2>7. (rpcAt \in {"arrived", "body", "context"} \/ (rpcAt = "chain" /\ index = 0 /\ frames = <<>>)
           => frames = <<>> /\ index = 0 /\ handlerRuns = 0 /\ refused = {} /\ \A m \in 1..Chain : nexts[m] = 0)'
    BY <2>3
  <2>8. call' \in Calls /\ index' \in 0..n /\ frames' \in Seq(1..n) /\ handlerRuns' \in Nat
    BY <1>1, <2>1
  <2>9. ChainSound'
    BY <1>1, <2>4, <2>5, <2>6, <2>7, <2>8 DEF ChainSound
  <2> QED BY <1>2, <2>9 DEF RpcInv
<1> QED BY <1>6, <1>7

\* What is left of a stack without its top.
LEMMA WithoutTop ==
  ASSUME NEW S, NEW stack \in Seq(S), NEW k \in Nat, k = Len(stack), k > 0
  PROVE  /\ Front(stack) \in Seq(S) /\ Len(Front(stack)) = k - 1
         /\ \A i \in 1..k-1 : Front(stack)[i] = stack[i]
<1>1. Front(stack) = SubSeq(stack, 1, k - 1)
  BY DEF Front
<1>2. SubSeq(stack, 1, k - 1) = [i \in 1..k-1 |-> stack[i]]
  OBVIOUS
<1>3. \A i \in 1..k-1 : stack[i] \in S
  OBVIOUS
<1>4. k - 1 \in Nat
  OBVIOUS
<1>5. PICK rest : rest = [i \in 1..k-1 |-> stack[i]]
  OBVIOUS
<1>6. rest \in Seq(S) /\ Len(rest) = k - 1 /\ \A i \in 1..k-1 : rest[i] = stack[i]
  BY <1>3, <1>4, <1>5
<1> QED BY <1>1, <1>2, <1>5, <1>6

LEMMA EndKeeps ==
  ASSUME RpcInv, NEW outcome, MiddlewareEnds(outcome)
  PROVE  RpcInv'
<1>1. PICK n \in Nat, k \in Nat : n = Chain /\ k = Len(frames)
  BY ProcIs DEF RpcInv, ChainSound
<1>2. /\ Chain' = n /\ call \in Calls /\ index \in 0..n /\ frames \in Seq(1..n) /\ nexts \in [1..n -> Nat] /\ handlerRuns \in Nat
      /\ k > 0 /\ k <= index
  BY <1>1 DEF RpcInv, ChainSound, Chain, Proc, MiddlewareEnds
<1>3. frames' \in Seq(1..n) /\ Len(frames') = k - 1 /\ \A i \in 1..k-1 : frames'[i] = frames[i]
  <2>1. frames' = Front(frames)
    BY DEF MiddlewareEnds
  <2> QED BY <1>1, <1>2, <2>1, WithoutTop
<1>4. UNCHANGED <<call, index, nexts, handlerRuns, status>> /\ rpcAt' = (IF k = 1 THEN "ran" ELSE "chain") /\ rpcAt = "chain"
  BY <1>1 DEF MiddlewareEnds
<1>5. CallAdmitted'
  BY <1>4 DEF RpcInv, CallAdmitted, Admitted, Fits, Declared
<1>6. OnceEach' => Stacked' /\ Returned'
  <2> SUFFICES ASSUME OnceEach' PROVE Stacked' /\ Returned'
    OBVIOUS
  <2>1. Stacked /\ (Descending \/ Returned)
    BY <1>1, <1>2, <1>4 DEF RpcInv, ChainSound, OnceEach
  <2>2. Stacked'
    <3>1. \A i \in 1..k : frames[i] = i
      BY <1>1, <2>1 DEF Stacked
    <3> QED BY <1>1, <1>3, <3>1 DEF Stacked
  <2>3. \A m \in 1..k-1 : nexts[m] = 1
    BY <1>1, <1>2, <2>1 DEF Descending, Returned
  <2>4. handlerRuns = 0 \/ (handlerRuns = 1 /\ refused = {} /\ \A m \in 1..n : nexts[m] = 1)
    BY <1>1, <2>1 DEF Descending, Returned
  <2>5. handlerRuns = 1 => refused' = {}
    <3>1. frames[k] = k /\ k \in 1..n /\ Last(frames) = frames[k]
      BY <1>1, <1>2, <2>1 DEF Stacked, Last
    <3>2. refused' = refused \cup {m \in {Last(frames)} : outcome = "error" /\ nexts[m] = 0}
      BY DEF MiddlewareEnds
    <3> QED BY <2>4, <3>1, <3>2
  <2> QED BY <1>2, <1>3, <1>4, <2>2, <2>3, <2>4, <2>5 DEF Returned
<1>7. frames' # <<>> \/ rpcAt' = "ran"
  BY <1>2, <1>3, <1>4
<1>8. (handlerRuns > 0 => index = Chain /\ rpcAt \in {"chain", "ran", "answered"})'
  BY <1>1, <1>2, <1>4 DEF RpcInv, ChainSound
<1>9. (rpcAt \in {"arrived", "body", "context"} \/ (rpcAt = "chain" /\ index = 0 /\ frames = <<>>)
         => frames = <<>> /\ index = 0 /\ handlerRuns = 0 /\ refused = {} /\ \A m \in 1..Chain : nexts[m] = 0)'
  BY <1>4, <1>7
<1>10. (OnceEach => Stacked /\ (Descending \/ Returned))'
  BY <1>6
<1>11. index' = index /\ Len(frames') <= index' /\ nexts' = nexts /\ handlerRuns' = handlerRuns /\ call' = call
  BY <1>2, <1>3, <1>4
<1>12. ChainSound'
  BY <1>2, <1>3, <1>8, <1>9, <1>10, <1>11 DEF ChainSound
<1> QED BY <1>5, <1>12 DEF RpcInv

\* handle() up to its first await, and the two that go on from one.
LEMMA BesideKeeps ==
  ASSUME RpcInv, Receive \/ ReadBody \/ MakeContext \/ EncodeOutput
  PROVE  RpcInv'
<1>1. call \in Calls /\ UnchangedChain /\ call' = call /\ handlerRuns' = handlerRuns
  BY DEF RpcInv, ChainSound, UnchangedChain, Receive, ReadBody, MakeContext, EncodeOutput
<1>2. Proc.input = Declared("input") /\ Proc.allowFormData = Declared("allowFormData") /\ (Declared("input") \in BOOLEAN)
      /\ (Declared("allowFormData") \in BOOLEAN) /\ call.path \in {"procedure", "unknown", "introspection"}
  BY <1>1, ProcIs, RpcAssumption DEF Declared
<1>3. Declared("input")' = Declared("input") /\ Declared("allowFormData")' = Declared("allowFormData")
      /\ (Admitted <=> Admitted') /\ (Fits <=> Fits')
  BY <1>1 DEF Declared, Admitted, Fits
<1>4. handlerRuns > 0 => rpcAt \in {"chain", "ran", "answered"}
  BY DEF RpcInv, ChainSound
<1>5. CASE Receive
  <2>1. rpcAt = "arrived" /\ rpcAt' \in {"body", "context", "answered"}
    BY <1>5 DEF Receive, Validate, Answer, Await
  <2>2. ChainSound'
    BY <1>1, <2>1, BesideChain DEF RpcInv
  <2>3. call.path = "procedure" /\ rpcAt' \in {"body", "context"} => Admitted
    BY <1>2, <1>5 DEF Receive, Validate, Answer, Await, Admitted, CrossOrigin
  <2>4. call.path = "procedure" /\ rpcAt' = "context" => Fits
    BY <1>2, <1>5 DEF Receive, Validate, Answer, Await, Fits
  <2>5. /\ status' = "415" => call.content = "text" \/ ~Declared("allowFormData")
        /\ status' = "rejected" => call.content = "form" \/ call.path = "introspection"
    BY <1>2, <1>5, <2>1 DEF RpcInv, CallAdmitted, Receive, Validate, Answer, Await
  <2> QED BY <1>1, <1>3, <1>4, <2>1, <2>2, <2>3, <2>4, <2>5 DEF RpcInv, CallAdmitted
<1>6. CASE ReadBody
  <2>1. rpcAt = "body" /\ rpcAt' \in {"context", "answered"}
    BY <1>6 DEF ReadBody, Validate, Answer, Await
  <2>2. ChainSound'
    BY <1>1, <2>1, BesideChain DEF RpcInv
  <2>3. call.path = "procedure" => Admitted
    BY <2>1 DEF RpcInv, CallAdmitted
  <2>4. rpcAt' = "context" => Fits
    BY <1>2, <1>6 DEF ReadBody, Validate, Answer, Await, Fits
  <2>5. /\ status' = "415" => call.content = "text" \/ ~Declared("allowFormData")
        /\ status' = "rejected" => call.content = "form" \/ call.path = "introspection"
    BY <1>6 DEF RpcInv, CallAdmitted, ReadBody, Validate, Answer, Await
  <2> QED BY <1>1, <1>3, <1>4, <2>1, <2>2, <2>3, <2>4, <2>5 DEF RpcInv, CallAdmitted
<1>7. CASE MakeContext
  <2>1. rpcAt = "context" /\ rpcAt' \in {"chain", "answered"}
    BY <1>7 DEF MakeContext, Answer, Await
  <2>2. ChainSound'
    BY <1>1, <2>1, BesideChain DEF RpcInv
  <2>3. call.path = "procedure" => Admitted /\ Fits
    BY <2>1 DEF RpcInv, CallAdmitted
  <2>4. /\ status' = "415" => call.content = "text" \/ ~Declared("allowFormData")
        /\ status' = "rejected" => call.content = "form" \/ call.path = "introspection"
    BY <1>7 DEF RpcInv, CallAdmitted, MakeContext, Answer, Await
  <2> QED BY <1>1, <1>3, <1>4, <2>1, <2>2, <2>3, <2>4 DEF RpcInv, CallAdmitted
<1>8. CASE EncodeOutput
  <2>1. rpcAt = "ran" /\ rpcAt' = "answered" /\ status' \notin {"415", "rejected"}
    BY <1>8 DEF EncodeOutput, Answer
  <2>2. ChainSound'
    BY <1>1, <2>1, BesideChain DEF RpcInv
  <2> QED BY <1>1, <1>3, <1>4, <2>1, <2>2 DEF RpcInv, CallAdmitted
<1> QED BY <1>5, <1>6, <1>7, <1>8

LEMMA RpcSteps == RpcInv /\ [RpcNext]_rpcVars => RpcInv'
<1> SUFFICES ASSUME RpcInv, [RpcNext]_rpcVars PROVE RpcInv'
  OBVIOUS
<1>1. PICK n \in Nat, k \in Nat : n = Chain /\ k = Len(frames) /\ frames \in Seq(1..n)
  BY ProcIs DEF RpcInv, ChainSound
<1>2. CASE Receive \/ ReadBody \/ MakeContext \/ EncodeOutput
  BY <1>2, BesideKeeps
<1>3. CASE StartChain
  <2>1. k = 0 /\ frames = <<>> /\ index = 0 /\ UNCHANGED nexts /\ rpcAt = "chain" /\ NextInChain /\ UNCHANGED <<call, refused, status>>
    BY <1>1, <1>3 DEF StartChain
  <2> QED BY <1>1, <2>1, NextKeeps
<1>4. CASE CallNext
  <2>1. k > 0 /\ Last(frames) = frames[k]
    BY <1>1, <1>4 DEF CallNext, Last
  <2>2. /\ nexts' = [nexts EXCEPT ![frames[k]] = @ + 1]
        /\ rpcAt = "chain" /\ NextInChain /\ UNCHANGED <<call, refused, status>>
    BY <1>4, <2>1 DEF CallNext
  <2> QED BY <1>1, <2>1, <2>2, NextKeeps
<1>5. ASSUME NEW outcome \in {"value", "error"}, MiddlewareEnds(outcome) PROVE RpcInv'
  BY <1>5, EndKeeps
<1>6. CASE UNCHANGED rpcVars
  <2>1. /\ call' = call /\ rpcAt' = rpcAt /\ index' = index /\ frames' = frames /\ nexts' = nexts
        /\ refused' = refused /\ handlerRuns' = handlerRuns /\ status' = status
    BY <1>6 DEF rpcVars
  <2>2. Chain' = Chain
    BY <2>1 DEF Chain, Proc
  <2>3. ChainSound'
    <3>1. (Stacked <=> Stacked') /\ (Descending <=> Descending') /\ (Returned <=> Returned') /\ (OnceEach <=> OnceEach')
      BY <2>1, <2>2 DEF Stacked, Descending, Returned, OnceEach
    <3> QED BY <2>1, <2>2, <3>1 DEF RpcInv, ChainSound
  <2>4. CallAdmitted'
    BY <2>1 DEF RpcInv, CallAdmitted, Admitted, Fits, Declared
  <2> QED BY <2>3, <2>4 DEF RpcInv
<1> QED BY <1>2, <1>3, <1>4, <1>5, <1>6 DEF RpcNext

\* CallSound: whatever the application's middlewares do, the handler of a remote call
\* runs only after every middleware that guards it was entered, and, when none of them calls
\* next() twice, at most once and never after one of them refused; it runs only on what the
\* procedure's declaration takes, wherever in the builder's chain a thing was declared; and
\* handle() refuses nothing the declaration takes (RPCHandler.handle(), runChain()).
THEOREM CallsAreGuarded == RpcSpec => []CallSound
<1>1. RpcInv => CallSound
  <2> SUFFICES ASSUME RpcInv PROVE CallSound
    OBVIOUS
  <2>1. PICK n \in Nat : n = Chain /\ nexts \in [1..n -> Nat] /\ call \in Calls
    BY ProcIs DEF RpcInv, ChainSound
  <2>2. ASSUME handlerRuns > 0, \A m \in DOMAIN nexts : nexts[m] <= 1 PROVE handlerRuns = 1 /\ refused = {}
    <3>1. OnceEach
      BY <2>1, <2>2 DEF OnceEach
    <3> QED BY <2>2, <3>1 DEF RpcInv, ChainSound, Descending, Returned
  <2>3. GuardsHold
    <3>1. handlerRuns > 0 => index = Chain
      BY DEF RpcInv, ChainSound
    <3>2. Chain = IF call.path = "introspection" THEN call.guards ELSE Cardinality({i \in DOMAIN call.steps : call.steps[i] = "use"})
      BY <2>1, ProcIs
    <3> QED BY <2>2, <3>1, <3>2 DEF GuardsHold
  <2>4. DeclarationKept
    BY DEF RpcInv, CallAdmitted, Admitted, Fits, DeclarationKept
  <2> QED BY <2>3, <2>4 DEF CallSound
<1> QED BY RpcStarts, RpcSteps, <1>1, PTL DEF RpcSpec

-----------------------------------------------------------------------------
(* Content negotiation: what is picked is the best of what fits. *)

Graded(N, entries) == N \in Nat /\ DOMAIN entries = 1..N /\ \A i \in 1..N : entries[i].q \in Nat
Orders(entries, places, order) == order \in [1..Cardinality(places) -> places] /\ Sorted(entries, order)

LEMMA FirstIs ==
  ASSUME NEW T, T \subseteq Nat, T # {}
  PROVE  Earliest(T) \in T /\ \A n \in T : Earliest(T) <= n
BY SmallestNat DEF Earliest

\* Of some entries one comes last: of the worst, the last one.
LEMMA OneIsLast ==
  ASSUME NEW N, NEW entries, Graded(N, entries), NEW T \in SUBSET (1..N), T # {}
  PROVE  \E w \in T : \A i \in T \ {w} : entries[i].q > entries[w].q \/ (entries[i].q = entries[w].q /\ i < w)
<1>1. PICK grades : grades = {entries[i].q : i \in T}
  OBVIOUS
<1>2. grades \subseteq Nat /\ grades # {}
  BY <1>1 DEF Graded
<1>3. PICK g \in grades : \A m \in grades : g <= m
  BY <1>2, SmallestNat
<1>4. PICK worst : worst = {i \in T : entries[i].q = g}
  OBVIOUS
<1>5. N \in Nat /\ worst \in SUBSET (1..N) /\ worst # {}
  BY <1>1, <1>3, <1>4 DEF Graded
<1>6. PICK w : w \in worst /\ \A i \in worst : i <= w
  BY <1>5, LastPlace
<1>7. w \in T /\ entries[w].q = g /\ g \in Nat
  BY <1>2, <1>3, <1>4, <1>6
<1>8. ASSUME NEW i \in T \ {w} PROVE entries[i].q > entries[w].q \/ (entries[i].q = entries[w].q /\ i < w)
  <2>1. entries[i].q \in Nat /\ g <= entries[i].q /\ i \in Nat /\ w \in Nat
    BY <1>1, <1>3, <1>7 DEF Graded
  <2>2. CASE entries[i].q = g
    <3>1. i <= w /\ i # w
      BY <1>4, <1>6, <2>2
    <3> QED BY <1>7, <2>1, <2>2, <3>1
  <2>3. CASE entries[i].q # g
    BY <1>7, <2>1, <2>3
  <2> QED BY <2>2, <2>3
<1> QED BY <1>7, <1>8

\* Entries can be sorted: the least number of them that cannot would have one that is last.
LEMMA CanBeSorted ==
  ASSUME NEW N, NEW entries, Graded(N, entries), NEW T \in SUBSET (1..N)
  PROVE  \E order : Orders(entries, T, order)
<1> DEFINE Bad == {k \in Nat : \E S \in SUBSET (1..N) : Cardinality(S) = k /\ ~\E order : Orders(entries, S, order)}
<1>1. \A S \in SUBSET (1..N) : IsFiniteSet(S) /\ Cardinality(S) \in Nat
  <2>1. IsFiniteSet(1..N)
    BY FS_Interval DEF Graded
  <2> QED BY <2>1, FS_Subset, FS_CardinalityType
<1>2. SUFFICES ASSUME Bad # {} PROVE FALSE
  BY <1>1
<1>3. PICK k \in Bad : \A m \in Bad : k <= m
  <2>1. Bad \subseteq Nat
    OBVIOUS
  <2> HIDE DEF Bad
  <2> QED BY <1>2, <2>1, SmallestNat
<1>4. PICK S \in SUBSET (1..N) : Cardinality(S) = k /\ ~\E order : Orders(entries, S, order)
  OBVIOUS
<1>5. k \in Nat
  OBVIOUS
<1>6. S # {}
  <2> SUFFICES ASSUME S = {} PROVE FALSE
    OBVIOUS
  <2>1. 1..Cardinality(S) = {}
    BY FS_EmptySet
  <2>2. PICK D : D = 1..Cardinality(S)
    OBVIOUS
  <2>3. PICK order : order = [n \in D |-> n]
    OBVIOUS
  <2>4. order \in [D -> S] /\ DOMAIN order = {}
    BY <2>1, <2>2, <2>3
  <2> QED BY <1>4, <2>2, <2>4 DEF Orders, Sorted
<1>7. PICK w \in S : \A i \in S \ {w} : entries[i].q > entries[w].q \/ (entries[i].q = entries[w].q /\ i < w)
  BY <1>6, OneIsLast
<1>8. PICK R : R = S \ {w}
  OBVIOUS
<1>9. R \in SUBSET (1..N) /\ Cardinality(R) = k - 1 /\ k - 1 \in Nat
  <2>1. Cardinality(R) = k - 1
    BY <1>1, <1>4, <1>8, FS_RemoveElement
  <2>2. k # 0
    BY <1>1, <1>4, <1>6, FS_EmptySet
  <2> QED BY <1>5, <1>8, <2>1, <2>2
<1>10. PICK few : Orders(entries, R, few)
  <2>1. k - 1 \notin Bad
    <3>1. ~(k <= k - 1)
      BY <1>5
    <3> HIDE DEF Bad
    <3> QED BY <1>3, <3>1
  <2> QED BY <1>9, <2>1
<1>11. PICK order : order = [n \in 1..k |-> IF n = k THEN w ELSE few[n]]
  OBVIOUS
<1>12. few \in [1..k-1 -> R]
  BY <1>9, <1>10 DEF Orders
<1>13. order \in [1..k -> S] /\ DOMAIN order = 1..k
  BY <1>5, <1>8, <1>11, <1>12
<1>14. ASSUME NEW m \in 1..k, NEW n \in 1..k, m < n
       PROVE  \/ entries[order[m]].q > entries[order[n]].q
              \/ entries[order[m]].q = entries[order[n]].q /\ order[m] < order[n]
  <2>1. m \in 1..k-1 /\ order[m] = few[m] /\ few[m] \in R /\ DOMAIN few = 1..k-1
    BY <1>5, <1>11, <1>12, <1>14
  <2>2. CASE n = k
    BY <1>7, <1>8, <1>11, <2>1, <2>2
  <2>3. CASE n # k
    <3>1. n \in 1..k-1 /\ order[n] = few[n]
      BY <1>5, <1>11, <2>3
    <3> QED BY <1>10, <1>14, <2>1, <3>1 DEF Orders, Sorted
  <2> QED BY <2>2, <2>3
<1>15. Sorted(entries, order)
  BY <1>13, <1>14 DEF Sorted
<1> QED BY <1>4, <1>13, <1>15 DEF Orders

\* An order of entries has them all.
LEMMA AllSorted ==
  ASSUME NEW N, NEW entries, Graded(N, entries), NEW T \in SUBSET (1..N), NEW order, Orders(entries, T, order), NEW i \in T
  PROVE  \E n \in DOMAIN order : order[n] = i
<1> SUFFICES ASSUME \A n \in DOMAIN order : order[n] # i PROVE FALSE
  OBVIOUS
<1>1. IsFiniteSet(T)
  <2>1. IsFiniteSet(1..N)
    BY FS_Interval DEF Graded
  <2> QED BY <2>1, FS_Subset
<1>2. PICK k \in Nat : k = Cardinality(T)
  BY <1>1, FS_CardinalityType
<1>3. PICK R : R = T \ {i}
  OBVIOUS
<1>4. IsFiniteSet(R) /\ Cardinality(R) = k - 1
  BY <1>1, <1>2, <1>3, FS_RemoveElement
<1>5. IsFiniteSet(1..k) /\ Cardinality(1..k) = k
  BY FS_Interval
<1>6. order \in [1..k -> R] /\ DOMAIN order = 1..k
  BY <1>2, <1>3 DEF Orders
<1>7. k - 1 < k
  OBVIOUS
<1>8. PICK m \in 1..k, n \in 1..k : m # n /\ order[m] = order[n]
  BY <1>4, <1>5, <1>6, <1>7, FS_PigeonHole
<1>9. order[m] \in 1..N /\ entries[order[m]].q \in Nat
  BY <1>3, <1>6 DEF Graded
<1>10. m < n \/ n < m
  BY <1>8
<1>11. PICK q : q = entries[order[m]].q
  OBVIOUS
<1>12. q > q \/ order[m] < order[m]
  BY <1>6, <1>8, <1>10, <1>11 DEF Orders, Sorted
<1>13. order[m] \in Nat /\ q \in Nat
  BY <1>9, <1>11 DEF Graded
<1> QED BY <1>12, <1>13

\* The entries that are not refused, and the places in an order of those in F.
Wanted(N, entries, places) == places = {i \in 1..N : entries[i].q > 0}
Hitting(order, F, hits) == hits \subseteq DOMAIN order /\ \A n \in DOMAIN order : n \in hits <=> order[n] \in F

\* Of the entries in F, and not refused, the first in order is of the best.
LEMMA BestHit ==
  ASSUME NEW N, NEW entries, Graded(N, entries), NEW places, Wanted(N, entries, places),
         NEW order, Orders(entries, places, order), NEW F \in SUBSET (1..N), NEW hits, Hitting(order, F, hits)
  PROVE  /\ hits = {} => \A i \in F : ~(entries[i].q > 0)
         /\ hits # {} => /\ Earliest(hits) \in DOMAIN order /\ order[Earliest(hits)] \in F \cap places
                         /\ \A j \in F : entries[j].q > 0 => entries[j].q <= entries[order[Earliest(hits)]].q
<1> USE DEF Wanted, Hitting
<1>1. places \in SUBSET (1..N)
  OBVIOUS
<1>2. \A i \in places : \E n \in DOMAIN order : order[n] = i
  BY <1>1, AllSorted
<1>3. ASSUME hits = {}, NEW i \in F, entries[i].q > 0 PROVE FALSE
  BY <1>2, <1>3
<1>4. ASSUME hits # {}
      PROVE  /\ Earliest(hits) \in DOMAIN order /\ order[Earliest(hits)] \in F \cap places
             /\ \A j \in F : entries[j].q > 0 => entries[j].q <= entries[order[Earliest(hits)]].q
  <2>1. DOMAIN order \subseteq Nat /\ \A n \in DOMAIN order : order[n] \in places
    BY DEF Orders
  <2>2. hits \subseteq Nat
    BY <2>1
  <2>3. PICK n : n = Earliest(hits)
    OBVIOUS
  <2>4. n \in hits /\ \A m \in hits : n <= m
    BY <1>4, <2>2, <2>3, FirstIs
  <2>5. n \in DOMAIN order /\ order[n] \in F /\ order[n] \in places
    BY <2>1, <2>4
  <2>6. ASSUME NEW j \in F, entries[j].q > 0 PROVE entries[j].q <= entries[order[n]].q
    <3>1. PICK m \in DOMAIN order : order[m] = j
      BY <1>2, <2>6
    <3>2. m \in hits /\ n <= m /\ m \in Nat /\ n \in Nat
      BY <2>1, <2>4, <2>5, <3>1
    <3>3. entries[j].q \in Nat /\ entries[order[n]].q \in Nat
      BY <1>1, <2>5 DEF Graded
    <3>4. CASE n = m
      BY <3>1, <3>3, <3>4
    <3>5. CASE n < m
      <4>1. entries[order[n]].q > entries[order[m]].q \/ entries[order[n]].q = entries[order[m]].q
        BY <2>5, <3>5 DEF Orders, Sorted
      <4> QED BY <3>1, <3>3, <4>1
    <3> QED BY <3>2, <3>4, <3>5
  <2> QED BY <2>3, <2>5, <2>6
<1> QED BY <1>3, <1>4

\* What is picked when the ranges and values that fit are the pairs in fit, and what is
\* reasonable then.
PicksBy(N, entries, M, available, fit, hits, those, pick) ==
  LET parsed == ParseAccept(entries)
      range == IF hits = {} THEN <<>> ELSE parsed[Earliest(hits)]
  IN /\ M \in Nat /\ \A k \in 1..M : available[k] # <<>> /\ <<available[k], available[k]>> \in fit
     /\ \A i \in 1..N, k \in 1..M : <<entries[i].range, available[k]>> \in fit => entries[i].range # <<>>
     /\ hits \subseteq DOMAIN parsed /\ \A n \in DOMAIN parsed : n \in hits <=> \E k \in 1..M : <<parsed[n], available[k]>> \in fit
     /\ those \subseteq 1..M
     /\ hits # {} => \A k \in 1..M : k \in those <=> <<range, available[k]>> \in fit
     /\ pick = IF range = <<>> THEN <<>> ELSE IF \E k \in 1..M : available[k] = range THEN range
               ELSE IF those = {} THEN <<>> ELSE available[Earliest(those)]
FitsBest(N, entries, M, available, fit, pick) ==
  IF pick = <<>> THEN \A i \in 1..N, k \in 1..M : ~(entries[i].q > 0 /\ <<entries[i].range, available[k]>> \in fit)
  ELSE \E i \in 1..N : /\ entries[i].q > 0 /\ <<entries[i].range, pick>> \in fit
                       /\ \A j \in 1..N, k \in 1..M :
                            entries[j].q > 0 /\ <<entries[j].range, available[k]>> \in fit => entries[j].q <= entries[i].q

LEMMA PickedReasonably ==
  ASSUME NEW N, NEW entries, Graded(N, entries), NEW M, NEW available, NEW fit, NEW hits, NEW those, NEW pick,
         PicksBy(N, entries, M, available, fit, hits, those, pick)
  PROVE  FitsBest(N, entries, M, available, fit, pick)
<1>0. PICK parsed, range : parsed = ParseAccept(entries) /\ range = (IF hits = {} THEN <<>> ELSE parsed[Earliest(hits)])
  OBVIOUS
<1>a. M \in Nat /\ \A k \in 1..M : available[k] # <<>> /\ <<available[k], available[k]>> \in fit
  BY DEF PicksBy
<1>b. \A i \in 1..N, k \in 1..M : <<entries[i].range, available[k]>> \in fit => entries[i].range # <<>>
  BY DEF PicksBy
<1>c. hits \subseteq DOMAIN parsed /\ \A n \in DOMAIN parsed : n \in hits <=> \E k \in 1..M : <<parsed[n], available[k]>> \in fit
  BY <1>0 DEF PicksBy
<1>d. those \subseteq 1..M /\ (hits # {} => \A k \in 1..M : k \in those <=> <<range, available[k]>> \in fit)
  BY <1>0 DEF PicksBy
<1>e. pick = IF range = <<>> THEN <<>> ELSE IF \E k \in 1..M : available[k] = range THEN range
             ELSE IF those = {} THEN <<>> ELSE available[Earliest(those)]
  BY <1>0 DEF PicksBy
<1>1. PICK places : Wanted(N, entries, places)
  BY DEF Wanted
<1>2. PICK order : Orders(entries, places, order) /\ parsed = [n \in DOMAIN order |-> entries[order[n]].range]
  <2>1. places = {i \in DOMAIN entries : entries[i].q > 0} /\ places \in SUBSET (1..N)
    BY <1>1 DEF Graded, Wanted
  <2>2. \E order \in [1..Cardinality(places) -> places] : Sorted(entries, order)
    BY <2>1, CanBeSorted DEF Orders
  <2>3. PICK order : order = InOrder(entries, places)
    OBVIOUS
  <2>4. Orders(entries, places, order)
    BY <2>2, <2>3 DEF Orders, InOrder
  <2>5. parsed = [n \in DOMAIN order |-> entries[order[n]].range]
    BY <1>0, <2>1, <2>3 DEF ParseAccept
  <2> QED BY <2>4, <2>5
<1>3. PICK F : F = {i \in 1..N : \E k \in 1..M : <<entries[i].range, available[k]>> \in fit}
  OBVIOUS
<1>4. DOMAIN parsed = DOMAIN order /\ \A n \in DOMAIN order : parsed[n] = entries[order[n]].range /\ order[n] \in 1..N
  BY <1>1, <1>2 DEF Orders, Wanted
<1>5. F \in SUBSET (1..N) /\ Hitting(order, F, hits)
  BY <1>3, <1>4, <1>c DEF Hitting
<1>6. CASE hits = {}
  <2>1. pick = <<>>
    BY <1>0, <1>6, <1>e
  <2>2. \A i \in F : ~(entries[i].q > 0)
    BY <1>1, <1>2, <1>5, <1>6, BestHit
  <2> QED BY <1>3, <2>1, <2>2 DEF FitsBest
<1>7. CASE hits # {}
  <2>1. PICK n : n = Earliest(hits)
    OBVIOUS
  <2>2. /\ n \in DOMAIN order /\ order[n] \in F \cap places
        /\ \A j \in F : entries[j].q > 0 => entries[j].q <= entries[order[n]].q
    BY <1>1, <1>2, <1>5, <1>7, <2>1, BestHit
  <2>3. PICK i \in 1..N : i = order[n]
    BY <1>4, <2>2
  <2>4. range = entries[i].range /\ entries[i].q > 0
    BY <1>0, <1>1, <1>4, <1>7, <2>1, <2>2, <2>3 DEF Wanted
  <2>5. PICK k \in 1..M : <<range, available[k]>> \in fit
    BY <1>3, <2>2, <2>3, <2>4
  <2>6. range # <<>>
    BY <1>b, <2>4, <2>5
  <2>7. pick # <<>> /\ <<range, pick>> \in fit
    <3>1. CASE \E l \in 1..M : available[l] = range
      BY <1>a, <1>e, <2>6, <3>1
    <3>2. CASE ~\E l \in 1..M : available[l] = range
      <4>1. those # {} /\ those \subseteq Nat
        BY <1>7, <1>d, <2>5
      <4>2. PICK l : l = Earliest(those)
        OBVIOUS
      <4>3. l \in those
        BY <4>1, <4>2, FirstIs
      <4>4. pick = available[l]
        BY <1>e, <2>6, <3>2, <4>1, <4>2
      <4> QED BY <1>7, <1>a, <1>d, <4>3, <4>4
    <3> QED BY <3>1, <3>2
  <2>8. \A j \in 1..N, l \in 1..M : entries[j].q > 0 /\ <<entries[j].range, available[l]>> \in fit => entries[j].q <= entries[i].q
    BY <1>3, <2>2, <2>3
  <2> QED BY <2>4, <2>7, <2>8 DEF FitsBest
<1> QED BY <1>6, <1>7

\* What is left of some entries are ranges of theirs.
LEMMA RangesKept ==
  ASSUME NEW N, NEW entries, Graded(N, entries), NEW n \in DOMAIN ParseAccept(entries)
  PROVE  n \in Nat /\ \E i \in 1..N : ParseAccept(entries)[n] = entries[i].range
<1>1. PICK places : Wanted(N, entries, places)
  BY DEF Wanted
<1>2. places = {i \in DOMAIN entries : entries[i].q > 0} /\ places \in SUBSET (1..N)
  BY <1>1 DEF Graded, Wanted
<1>3. PICK order : order = InOrder(entries, places)
  OBVIOUS
<1>4. \E o : Orders(entries, places, o)
  BY <1>2, CanBeSorted
<1>5. Orders(entries, places, order)
  BY <1>3, <1>4 DEF Orders, InOrder
<1>6. ParseAccept(entries) = [m \in DOMAIN order |-> entries[order[m]].range]
  BY <1>2, <1>3 DEF ParseAccept
<1>7. n \in DOMAIN order /\ order[n] \in 1..N /\ n \in Nat
  BY <1>2, <1>5, <1>6 DEF Orders
<1> QED BY <1>6, <1>7

\* What accepts(), acceptsEncoding() and acceptsLanguage() pick is reasonable.
LEMMA TypePicked ==
  ASSUME NEW N, NEW entries, Graded(N, entries), NEW M \in Nat, NEW available, DOMAIN available = 1..M, Len(available) = M,
         \A k \in 1..M : available[k] # <<>>,
         \A i \in 1..N, k \in 1..M : TypeFits(entries[i].range, available[k]) => entries[i].range # <<>>
  PROVE  Reasonable(entries, available, Picked(entries, available, TypeFits), TypeFits)
<1> SUFFICES ASSUME entries # <<>>
             PROVE  Reasonable(entries, available, Picked(entries, available, TypeFits), TypeFits)
  BY DEF Reasonable
<1>1. PICK parsed, pick : parsed = ParseAccept(entries) /\ pick = Picked(entries, available, TypeFits)
  OBVIOUS
<1>2. PICK fit : \A r, a : <<r, a>> \in fit <=> /\ TypeFits(r, a) /\ a \in {available[k] : k \in 1..M}
                                                /\ r \in {entries[i].range : i \in 1..N} \cup {available[k] : k \in 1..M}
  <2>1. PICK A, R : A = {available[k] : k \in 1..M} /\ R = {entries[i].range : i \in 1..N} \cup {available[k] : k \in 1..M}
    OBVIOUS
  <2>2. PICK fit : fit = {p \in R \X A : TypeFits(p[1], p[2])}
    OBVIOUS
  <2>3. \A r, a : <<r, a>> \in fit <=> TypeFits(r, a) /\ r \in R /\ a \in A
    BY <2>2
  <2> QED BY <2>1, <2>3
<1>3. PICK hits : hits = {n \in DOMAIN parsed : \E k \in DOMAIN available : TypeFits(parsed[n], available[k])}
  OBVIOUS
<1>4. PICK range : range = IF hits = {} THEN <<>> ELSE parsed[Earliest(hits)]
  OBVIOUS
<1>5. PICK those : those = {k \in DOMAIN available : TypeFits(range, available[k])}
  OBVIOUS
<1>6. pick = IF range = <<>> THEN <<>> ELSE IF \E k \in 1..M : available[k] = range THEN range
             ELSE IF those = {} THEN <<>> ELSE available[Earliest(those)]
  BY <1>1, <1>3, <1>4, <1>5 DEF Picked, FirstThat, Contains
<1>7. \A n \in DOMAIN parsed : n \in Nat /\ \E i \in 1..N : parsed[n] = entries[i].range
  BY <1>1, RangesKept
<1>8. hits \subseteq DOMAIN parsed /\ \A n \in DOMAIN parsed : n \in hits <=> \E k \in 1..M : <<parsed[n], available[k]>> \in fit
  BY <1>2, <1>3, <1>7
<1>9. those \in SUBSET (1..M)
  BY <1>5
<1>10. hits # {} => \A k \in 1..M : k \in those <=> <<range, available[k]>> \in fit
  <2>1. SUFFICES ASSUME hits # {} PROVE \E i \in 1..N : range = entries[i].range
    BY <1>2, <1>5
  <2>2. Earliest(hits) \in hits
    BY <2>1, <1>7, <1>8, FirstIs
  <2> QED BY <1>4, <1>7, <1>8, <2>1, <2>2
<1>11. \A k \in 1..M : <<available[k], available[k]>> \in fit
  BY <1>2 DEF TypeFits
<1>12. \A i \in 1..N, k \in 1..M : <<entries[i].range, available[k]>> \in fit <=> TypeFits(entries[i].range, available[k])
  BY <1>2
<1>13. \A i \in 1..N, k \in 1..M : <<entries[i].range, available[k]>> \in fit => entries[i].range # <<>>
  BY <1>12
<1>14. PicksBy(N, entries, M, available, fit, hits, those, pick)
  BY <1>1, <1>4, <1>6, <1>8, <1>9, <1>10, <1>11, <1>13 DEF PicksBy
<1>15. FitsBest(N, entries, M, available, fit, pick)
  BY <1>14, PickedReasonably
<1>16. DOMAIN entries = 1..N
  BY DEF Graded
<1>17. CASE pick = <<>>
  BY <1>1, <1>12, <1>15, <1>16, <1>17 DEF Reasonable, FitsBest
<1>18. CASE pick # <<>>
  <2>1. PICK i \in 1..N : /\ entries[i].q > 0 /\ <<entries[i].range, pick>> \in fit
                          /\ \A j \in 1..N, k \in 1..M :
                               entries[j].q > 0 /\ <<entries[j].range, available[k]>> \in fit => entries[j].q <= entries[i].q
    BY <1>15, <1>18 DEF FitsBest
  <2>2. TypeFits(entries[i].range, pick)
    BY <1>2, <2>1
  <2>3. \A j \in 1..N, k \in 1..M : entries[j].q > 0 /\ TypeFits(entries[j].range, available[k]) => entries[j].q <= entries[i].q
    BY <1>12, <2>1
  <2> QED BY <1>1, <1>16, <1>18, <2>1, <2>2, <2>3 DEF Reasonable
<1> QED BY <1>17, <1>18

LEMMA CodingPicked ==
  ASSUME NEW N, NEW entries, Graded(N, entries), NEW M \in Nat, NEW available, DOMAIN available = 1..M, Len(available) = M,
         \A k \in 1..M : available[k] # <<>>,
         \A i \in 1..N, k \in 1..M : CodingFits(entries[i].range, available[k]) => entries[i].range # <<>>
  PROVE  Reasonable(entries, available, Picked(entries, available, CodingFits), CodingFits)
<1> SUFFICES ASSUME entries # <<>>
             PROVE  Reasonable(entries, available, Picked(entries, available, CodingFits), CodingFits)
  BY DEF Reasonable
<1>1. PICK parsed, pick : parsed = ParseAccept(entries) /\ pick = Picked(entries, available, CodingFits)
  OBVIOUS
<1>2. PICK fit : \A r, a : <<r, a>> \in fit <=> /\ CodingFits(r, a) /\ a \in {available[k] : k \in 1..M}
                                                /\ r \in {entries[i].range : i \in 1..N} \cup {available[k] : k \in 1..M}
  <2>1. PICK A, R : A = {available[k] : k \in 1..M} /\ R = {entries[i].range : i \in 1..N} \cup {available[k] : k \in 1..M}
    OBVIOUS
  <2>2. PICK fit : fit = {p \in R \X A : CodingFits(p[1], p[2])}
    OBVIOUS
  <2>3. \A r, a : <<r, a>> \in fit <=> CodingFits(r, a) /\ r \in R /\ a \in A
    BY <2>2
  <2> QED BY <2>1, <2>3
<1>3. PICK hits : hits = {n \in DOMAIN parsed : \E k \in DOMAIN available : CodingFits(parsed[n], available[k])}
  OBVIOUS
<1>4. PICK range : range = IF hits = {} THEN <<>> ELSE parsed[Earliest(hits)]
  OBVIOUS
<1>5. PICK those : those = {k \in DOMAIN available : CodingFits(range, available[k])}
  OBVIOUS
<1>6. pick = IF range = <<>> THEN <<>> ELSE IF \E k \in 1..M : available[k] = range THEN range
             ELSE IF those = {} THEN <<>> ELSE available[Earliest(those)]
  BY <1>1, <1>3, <1>4, <1>5 DEF Picked, FirstThat, Contains
<1>7. \A n \in DOMAIN parsed : n \in Nat /\ \E i \in 1..N : parsed[n] = entries[i].range
  BY <1>1, RangesKept
<1>8. hits \subseteq DOMAIN parsed /\ \A n \in DOMAIN parsed : n \in hits <=> \E k \in 1..M : <<parsed[n], available[k]>> \in fit
  BY <1>2, <1>3, <1>7
<1>9. those \in SUBSET (1..M)
  BY <1>5
<1>10. hits # {} => \A k \in 1..M : k \in those <=> <<range, available[k]>> \in fit
  <2>1. SUFFICES ASSUME hits # {} PROVE \E i \in 1..N : range = entries[i].range
    BY <1>2, <1>5
  <2>2. Earliest(hits) \in hits
    BY <2>1, <1>7, <1>8, FirstIs
  <2> QED BY <1>4, <1>7, <1>8, <2>1, <2>2
<1>11. \A k \in 1..M : <<available[k], available[k]>> \in fit
  BY <1>2 DEF CodingFits
<1>12. \A i \in 1..N, k \in 1..M : <<entries[i].range, available[k]>> \in fit <=> CodingFits(entries[i].range, available[k])
  BY <1>2
<1>13. \A i \in 1..N, k \in 1..M : <<entries[i].range, available[k]>> \in fit => entries[i].range # <<>>
  BY <1>12
<1>14. PicksBy(N, entries, M, available, fit, hits, those, pick)
  BY <1>1, <1>4, <1>6, <1>8, <1>9, <1>10, <1>11, <1>13 DEF PicksBy
<1>15. FitsBest(N, entries, M, available, fit, pick)
  BY <1>14, PickedReasonably
<1>16. DOMAIN entries = 1..N
  BY DEF Graded
<1>17. CASE pick = <<>>
  BY <1>1, <1>12, <1>15, <1>16, <1>17 DEF Reasonable, FitsBest
<1>18. CASE pick # <<>>
  <2>1. PICK i \in 1..N : /\ entries[i].q > 0 /\ <<entries[i].range, pick>> \in fit
                          /\ \A j \in 1..N, k \in 1..M :
                               entries[j].q > 0 /\ <<entries[j].range, available[k]>> \in fit => entries[j].q <= entries[i].q
    BY <1>15, <1>18 DEF FitsBest
  <2>2. CodingFits(entries[i].range, pick)
    BY <1>2, <2>1
  <2>3. \A j \in 1..N, k \in 1..M : entries[j].q > 0 /\ CodingFits(entries[j].range, available[k]) => entries[j].q <= entries[i].q
    BY <1>12, <2>1
  <2> QED BY <1>1, <1>16, <1>18, <2>1, <2>2, <2>3 DEF Reasonable
<1> QED BY <1>17, <1>18

LEMMA LanguagePicked ==
  ASSUME NEW N, NEW entries, Graded(N, entries), NEW M \in Nat, NEW available, DOMAIN available = 1..M, Len(available) = M,
         \A k \in 1..M : available[k] # <<>>,
         \A i \in 1..N, k \in 1..M : SamePrimary(entries[i].range, available[k]) => entries[i].range # <<>>
  PROVE  Reasonable(entries, available, Picked(entries, available, SamePrimary), SamePrimary)
<1> SUFFICES ASSUME entries # <<>>
             PROVE  Reasonable(entries, available, Picked(entries, available, SamePrimary), SamePrimary)
  BY DEF Reasonable
<1>1. PICK parsed, pick : parsed = ParseAccept(entries) /\ pick = Picked(entries, available, SamePrimary)
  OBVIOUS
<1>2. PICK fit : \A r, a : <<r, a>> \in fit <=> /\ SamePrimary(r, a) /\ a \in {available[k] : k \in 1..M}
                                                /\ r \in {entries[i].range : i \in 1..N} \cup {available[k] : k \in 1..M}
  <2>1. PICK A, R : A = {available[k] : k \in 1..M} /\ R = {entries[i].range : i \in 1..N} \cup {available[k] : k \in 1..M}
    OBVIOUS
  <2>2. PICK fit : fit = {p \in R \X A : SamePrimary(p[1], p[2])}
    OBVIOUS
  <2>3. \A r, a : <<r, a>> \in fit <=> SamePrimary(r, a) /\ r \in R /\ a \in A
    BY <2>2
  <2> QED BY <2>1, <2>3
<1>3. PICK hits : hits = {n \in DOMAIN parsed : \E k \in DOMAIN available : SamePrimary(parsed[n], available[k])}
  OBVIOUS
<1>4. PICK range : range = IF hits = {} THEN <<>> ELSE parsed[Earliest(hits)]
  OBVIOUS
<1>5. PICK those : those = {k \in DOMAIN available : SamePrimary(range, available[k])}
  OBVIOUS
<1>6. pick = IF range = <<>> THEN <<>> ELSE IF \E k \in 1..M : available[k] = range THEN range
             ELSE IF those = {} THEN <<>> ELSE available[Earliest(those)]
  BY <1>1, <1>3, <1>4, <1>5 DEF Picked, FirstThat, Contains
<1>7. \A n \in DOMAIN parsed : n \in Nat /\ \E i \in 1..N : parsed[n] = entries[i].range
  BY <1>1, RangesKept
<1>8. hits \subseteq DOMAIN parsed /\ \A n \in DOMAIN parsed : n \in hits <=> \E k \in 1..M : <<parsed[n], available[k]>> \in fit
  BY <1>2, <1>3, <1>7
<1>9. those \in SUBSET (1..M)
  BY <1>5
<1>10. hits # {} => \A k \in 1..M : k \in those <=> <<range, available[k]>> \in fit
  <2>1. SUFFICES ASSUME hits # {} PROVE \E i \in 1..N : range = entries[i].range
    BY <1>2, <1>5
  <2>2. Earliest(hits) \in hits
    BY <2>1, <1>7, <1>8, FirstIs
  <2> QED BY <1>4, <1>7, <1>8, <2>1, <2>2
<1>11. \A k \in 1..M : <<available[k], available[k]>> \in fit
  BY <1>2 DEF SamePrimary
<1>12. \A i \in 1..N, k \in 1..M : <<entries[i].range, available[k]>> \in fit <=> SamePrimary(entries[i].range, available[k])
  BY <1>2
<1>13. \A i \in 1..N, k \in 1..M : <<entries[i].range, available[k]>> \in fit => entries[i].range # <<>>
  BY <1>12
<1>14. PicksBy(N, entries, M, available, fit, hits, those, pick)
  BY <1>1, <1>4, <1>6, <1>8, <1>9, <1>10, <1>11, <1>13 DEF PicksBy
<1>15. FitsBest(N, entries, M, available, fit, pick)
  BY <1>14, PickedReasonably
<1>16. DOMAIN entries = 1..N
  BY DEF Graded
<1>17. CASE pick = <<>>
  BY <1>1, <1>12, <1>15, <1>16, <1>17 DEF Reasonable, FitsBest
<1>18. CASE pick # <<>>
  <2>1. PICK i \in 1..N : /\ entries[i].q > 0 /\ <<entries[i].range, pick>> \in fit
                          /\ \A j \in 1..N, k \in 1..M :
                               entries[j].q > 0 /\ <<entries[j].range, available[k]>> \in fit => entries[j].q <= entries[i].q
    BY <1>15, <1>18 DEF FitsBest
  <2>2. SamePrimary(entries[i].range, pick)
    BY <1>2, <2>1
  <2>3. \A j \in 1..N, k \in 1..M : entries[j].q > 0 /\ SamePrimary(entries[j].range, available[k]) => entries[j].q <= entries[i].q
    BY <1>12, <2>1
  <2> QED BY <1>1, <1>16, <1>18, <2>1, <2>2, <2>3 DEF Reasonable
<1> QED BY <1>17, <1>18

\* Entries of a header, and values there are.
LEMMA Entries ==
  ASSUME NEW R, NEW entries \in Seq([range : R, q : Nat])
  PROVE  Graded(Len(entries), entries) /\ \A i \in 1..Len(entries) : entries[i].range \in R
<1>1. PICK S : S = [range : R, q : Nat]
  OBVIOUS
<1>2. entries \in Seq(S) /\ \A x \in S : x.q \in Nat /\ x.range \in R
  BY <1>1
<1>3. DOMAIN entries = 1..Len(entries) /\ Len(entries) \in Nat /\ \A i \in DOMAIN entries : entries[i] \in S
  BY <1>2, Numbered
<1> QED BY <1>2, <1>3 DEF Graded

LEMMA NotNothing == (\A x : <<x>> # <<>>) /\ (\A x, y : <<x, y>> # <<>>)
<1>1. ASSUME NEW x PROVE <<x>> # <<>>
  OBVIOUS
<1>2. ASSUME NEW x, NEW y PROVE <<x, y>> # <<>>
  OBVIOUS
<1> QED BY <1>1, <1>2

LEMMA TypesReasonable ==
  ASSUME NEW r \in ClientRequests
  PROVE  Reasonable(r.types, MediaTypes, Accepts(r.types), TypeFits)
<1>1. PICK entries, available, Pairs : entries = r.types /\ available = MediaTypes /\ Pairs = STRING \X STRING
  OBVIOUS
<1>2. entries \in Seq([range : Pairs, q : Nat]) /\ available \in Seq(Pairs)
  BY <1>1, ExchangeAssumption
<1>3. ASSUME NEW p \in Pairs PROVE p # <<>>
  <2>1. PICK a, b : p = <<a, b>>
    BY <1>1
  <2> QED BY <2>1, NotNothing
<1>4. PICK N, M : N = Len(entries) /\ M = Len(available)
  OBVIOUS
<1>5. Graded(N, entries) /\ \A i \in 1..N : entries[i].range \in Pairs
  BY <1>2, <1>4, Entries
<1>6. M \in Nat /\ DOMAIN available = 1..M /\ \A k \in 1..M : available[k] \in Pairs
  BY <1>2, <1>4, Numbered
<1>7. Reasonable(entries, available, Picked(entries, available, TypeFits), TypeFits)
  BY <1>3, <1>4, <1>5, <1>6, TypePicked
<1> QED BY <1>1, <1>7 DEF Accepts

LEMMA CodingsReasonable ==
  ASSUME NEW r \in ClientRequests
  PROVE  Reasonable(r.codings, Codings, AcceptsEncoding(r.codings), CodingFits)
<1>1. PICK entries, available : entries = r.codings /\ available = Codings
  OBVIOUS
<1>2. PICK N, M : N = Len(entries) /\ M = Len(Encodings)
  OBVIOUS
<1>3. entries \in Seq([range : Seq(STRING), q : Nat]) /\ Encodings \in Seq(STRING)
  BY <1>1, ExchangeAssumption
<1>4. Graded(N, entries)
  BY <1>2, <1>3, Entries
<1>5. M \in Nat /\ DOMAIN Encodings = 1..M
  BY <1>2, <1>3, Numbered
<1>6. available = [k \in 1..M |-> <<Encodings[k]>>]
  BY <1>1, <1>5 DEF Codings
<1>7. DOMAIN available = 1..M /\ Len(available) = M
  BY <1>5, <1>6
<1>8. \A k \in 1..M : available[k] # <<>>
  BY <1>6
<1>9. \A i \in 1..N, k \in 1..M : CodingFits(entries[i].range, available[k]) => entries[i].range # <<>>
  BY <1>8, NotNothing DEF CodingFits
<1>10. Reasonable(entries, available, Picked(entries, available, CodingFits), CodingFits)
  BY <1>4, <1>5, <1>7, <1>8, <1>9, CodingPicked
<1> QED BY <1>1, <1>10 DEF AcceptsEncoding

LEMMA LanguagesReasonable ==
  ASSUME NEW r \in ClientRequests
  PROVE  Reasonable(r.languages, Languages, AcceptsLanguage(r.languages), SamePrimary)
<1>1. PICK entries, available, Parts : entries = r.languages /\ available = Languages /\ Parts = Seq(STRING) \ {<<>>}
  OBVIOUS
<1>2. entries \in Seq([range : Parts, q : Nat]) /\ available \in Seq(Parts)
  BY <1>1, ExchangeAssumption
<1>3. \A p \in Parts : p # <<>>
  BY <1>1
<1>4. PICK N, M : N = Len(entries) /\ M = Len(available)
  OBVIOUS
<1>5. Graded(N, entries) /\ \A i \in 1..N : entries[i].range \in Parts
  BY <1>2, <1>4, Entries
<1>6. M \in Nat /\ DOMAIN available = 1..M /\ \A k \in 1..M : available[k] \in Parts
  BY <1>2, <1>4, Numbered
<1>7. Reasonable(entries, available, Picked(entries, available, SamePrimary), SamePrimary)
  BY <1>3, <1>4, <1>5, <1>6, LanguagePicked
<1> QED BY <1>1, <1>7 DEF AcceptsLanguage
-----------------------------------------------------------------------------
(* An exchange on a platform: the conversions undo each other. *)

\* Where the exchange is, what was made is what the conversions make.
RequestOf(r) == IF hosting = "server" THEN AsSent(r) ELSE EventToRequest(LambdaEvent(r))
AnswerOf(a) == IF a.by = "etag" THEN WithETag(a) ELSE Wrap(a, wanted.codings)
ResultOf(r) == IF hosting = "server" THEN r ELSE SentOn(ResponseToResult(r))

PicksOf(r) == [type |-> Accepts(r.types), coding |-> AcceptsEncoding(r.codings), language |-> AcceptsLanguage(r.languages)]

ExchangeInv ==
  /\ hosting \in EventSources \cup {"server"} /\ wanted \in ClientRequests
  /\ hop \in {"sent", "handling", "answered", "delivered"}
  /\ hop # "sent" => perceived = RequestOf(wanted)
  /\ hop \in {"answered", "delivered"} => said \in AppAnswers /\ answered = AnswerOf(said)
  /\ answered # <<>> => hop \in {"answered", "delivered"}
  /\ hop = "delivered" => delivered = ResultOf(answered) \/ delivered = Failed500
  /\ picked # <<>> => picked = PicksOf(wanted)

LEMMA ExchangeKept == ExchangeInv /\ [ExchangeNext]_exchangeVars => ExchangeInv'
<1> SUFFICES ASSUME ExchangeInv, [ExchangeNext]_exchangeVars PROVE ExchangeInv'
  OBVIOUS
<1>1. /\ hosting' = hosting /\ wanted' = wanted
      /\ \A r : RequestOf(r)' = RequestOf(r) /\ AnswerOf(r)' = AnswerOf(r) /\ ResultOf(r)' = ResultOf(r)
  <2>1. hosting' = hosting /\ wanted' = wanted
    BY DEF ExchangeNext, Perceive, HandlerReplies, Return, exchangeVars
  <2> QED BY <2>1 DEF RequestOf, AnswerOf, ResultOf, EventToRequest, LambdaEvent, QueryOf, WithETag, ResponseToResult, ResultCookies
<1>2. CASE Perceive
  <2>1. /\ perceived' = RequestOf(wanted) /\ picked' = PicksOf(wanted)
        /\ hop = "sent" /\ hop' = "handling" /\ UNCHANGED <<said, answered, delivered>>
    BY <1>2 DEF Perceive, RequestOf, PicksOf
  <2> QED BY <1>1, <2>1 DEF ExchangeInv
<1>3. CASE HandlerReplies
  <2>1. PICK a \in AppAnswers : said' = a /\ answered' = AnswerOf(a)
    BY <1>3 DEF HandlerReplies, AnswerOf
  <2>2. hop = "handling" /\ hop' = "answered" /\ UNCHANGED <<perceived, picked, delivered>>
    BY <1>3 DEF HandlerReplies
  <2> QED BY <1>1, <2>1, <2>2 DEF ExchangeInv
<1>4. CASE Return
  <2>1. hop = "answered" /\ hop' = "delivered" /\ UNCHANGED <<perceived, picked, said, answered>>
        /\ (delivered' = ResultOf(answered) \/ delivered' = Failed500)
    BY <1>4 DEF Return, ResultOf
  <2> QED BY <1>1, <2>1 DEF ExchangeInv
<1>5. CASE UNCHANGED exchangeVars
  BY <1>1, <1>5 DEF ExchangeInv, exchangeVars
<1> QED BY <1>2, <1>3, <1>4, <1>5 DEF ExchangeNext

\* A header with a value at its end has one, and its last value is its only one.
LEMMA LastValue ==
  ASSUME NEW f, \A k \in DOMAIN f : f[k] \in Seq(STRING), NEW h \in DOMAIN Valued(LastOnly(f))
  PROVE  h \in DOMAIN f /\ h \in DOMAIN Valued(f) /\ f[h] # <<>> /\ LastOnly(f)[h] = <<Last(f[h])>>
<1>1. h \in DOMAIN f /\ \E i \in DOMAIN LastOnly(f)[h] : LastOnly(f)[h][i] # ""
  BY DEF Valued, LastOnly
<1>a. LastOnly(f)[h] = IF f[h] = <<>> THEN <<>> ELSE <<Last(f[h])>>
  BY <1>1 DEF LastOnly
<1>b. DOMAIN <<>> = {}
  OBVIOUS
<1>2. f[h] # <<>>
  BY <1>1, <1>a, <1>b
<1>3. LastOnly(f)[h] = <<Last(f[h])>>
  BY <1>a, <1>2
<1>4. Last(f[h]) # ""
  <2>1. PICK x : x = Last(f[h])
    OBVIOUS
  <2>2. \E i \in DOMAIN <<x>> : <<x>>[i] # ""
    BY <1>1, <1>3, <2>1
  <2>a. DOMAIN <<x>> = {1} /\ <<x>>[1] = x
    OBVIOUS
  <2>3. x # ""
    BY <2>2, <2>a
  <2> QED BY <2>1, <2>3
<1>5. PICK s \in Seq(STRING) : s = f[h]
  BY <1>1
<1>6. Len(s) \in DOMAIN s
  BY <1>2, <1>5
<1>7. \E i \in DOMAIN f[h] : f[h][i] # ""
  BY <1>4, <1>5, <1>6 DEF Last
<1> QED BY <1>1, <1>2, <1>3, <1>7 DEF Valued

\* What a request is turned into, field by field.
LEMMA ConvertedRequest ==
  ASSUME hosting \in EventSources, NEW r \in ClientRequests
  PROVE  LET p == EventToRequest(LambdaEvent(r))
             Of(f) == IF hosting = "alb" THEN LastOnly(f) ELSE f
         IN /\ p.cookies = r.cookies /\ p.query = Of(r.query)
            /\ \A h \in DOMAIN Valued(LastOnly(r.headers)) : h \in DOMAIN p.headers /\ p.headers[h] = Of(r.headers)[h]
            /\ p.body = IF r.method \in {"GET", "HEAD"} THEN NoBytes ELSE (IF IsText(r.body) THEN r.body ELSE Under(AsBase64(r.body)))
            /\ p.remote = IF hosting \in {"alb", "albMulti"} THEN "none" ELSE "client"
            /\ p.proto = r.proto \/ r.proto \notin {"http", "https"}
<1> DEFINE e == LambdaEvent(r)
           p == EventToRequest(e)
           Of(f) == IF hosting = "alb" THEN LastOnly(f) ELSE f
<1>1. /\ e.cookies = (IF hosting = "v2" THEN r.cookies ELSE <<>>) /\ e.cookieHeader = (IF hosting = "v2" THEN <<>> ELSE r.cookies)
      /\ e.multiValueHeaders = (IF hosting \in {"v1", "albMulti"} THEN r.headers ELSE NoneOf(r.headers))
      /\ e.headers = (IF hosting = "v2" THEN r.headers ELSE IF hosting \in {"v1", "alb"} THEN LastOnly(r.headers) ELSE NoneOf(r.headers))
      /\ e.multiValueQuery = (IF hosting \in {"v1", "albMulti"} THEN r.query ELSE NoneOf(r.query))
      /\ e.query = (IF hosting = "v2" THEN r.query ELSE IF hosting \in {"v1", "alb"} THEN LastOnly(r.query) ELSE NoneOf(r.query))
      /\ e.method = r.method /\ e.proto = r.proto
      /\ e.body = (IF IsText(r.body) THEN r.body ELSE AsBase64(r.body)) /\ e.isBase64Encoded = ~IsText(r.body)
      /\ e.sourceIp = (IF hosting \in {"v1", "v2"} THEN "client" ELSE "none")
  BY DEF LambdaEvent, EventSources
<1> HIDE DEF e
<1>2. /\ p.cookies = e.cookieHeader \o e.cookies /\ p.headers = HeadersOf(e) /\ p.query = QueryOf(e)
      /\ p.proto = (IF e.proto \in {"http", "https"} THEN e.proto ELSE "https") /\ p.body = BodyOf(e) /\ p.remote = e.sourceIp
  BY DEF EventToRequest
<1> HIDE DEF p
<1>3. p.cookies = r.cookies
  <2>1. PICK s \in Seq(STRING) : s = r.cookies
    BY ExchangeAssumption
  <2>2. <<>> \o s = s /\ s \o <<>> = s
    OBVIOUS
  <2> QED BY <1>1, <1>2, <2>1, <2>2
<1>4. p.query = Of(r.query)
  BY <1>1, <1>2 DEF QueryOf, EventSources
<1>5. ASSUME NEW h \in DOMAIN Valued(LastOnly(r.headers))
      PROVE  h \in DOMAIN p.headers /\ p.headers[h] = Of(r.headers)[h]
  <2>1. /\ h \in DOMAIN r.headers /\ h \in DOMAIN Valued(r.headers)
    BY <1>5, ExchangeAssumption, LastValue
  <2>2. DOMAIN NoneOf(r.headers) = {}
    BY DEF NoneOf
  <2>3. CASE hosting \in {"v1", "albMulti"}
    <3>1. e.multiValueHeaders = r.headers
      BY <1>1, <2>3
    <3> QED BY <1>2, <2>1, <2>3, <3>1 DEF HeadersOf
  <2>4. CASE hosting = "v2"
    <3>1. e.multiValueHeaders = NoneOf(r.headers) /\ e.headers = r.headers
      BY <1>1, <2>4
    <3> QED BY <1>2, <2>1, <2>2, <2>4, <3>1 DEF HeadersOf
  <2>5. CASE hosting = "alb"
    <3>1. e.multiValueHeaders = NoneOf(r.headers) /\ e.headers = LastOnly(r.headers)
      BY <1>1, <2>5
    <3> QED BY <1>2, <1>5, <2>2, <2>5, <3>1 DEF HeadersOf
  <2> QED BY <2>3, <2>4, <2>5 DEF EventSources
<1>6. p.body = IF r.method \in {"GET", "HEAD"} THEN NoBytes ELSE (IF IsText(r.body) THEN r.body ELSE Under(AsBase64(r.body)))
  BY <1>1, <1>2 DEF BodyOf, DecodeBody
<1>7. p.remote = IF hosting \in {"alb", "albMulti"} THEN "none" ELSE "client"
  BY <1>1, <1>2 DEF EventSources
<1>8. p.proto = r.proto \/ r.proto \notin {"http", "https"}
  BY <1>1, <1>2
<1> QED BY <1>3, <1>4, <1>5, <1>6, <1>7, <1>8 DEF p, e

\* Bytes: codings around something.
IsBytes(b) == b = [layers |-> b.layers, of |-> b.of] /\ \E S : b.layers \in Seq(S)

\* A layer put around others.
LEMMA Topped ==
  ASSUME NEW S, NEW rest \in Seq(S), NEW top, NEW s, s = <<top>> \o rest
  PROVE  s # <<>> /\ s[1] = top /\ Tail(s) = rest /\ s \in Seq(S \cup {top})
<1>1. rest \in Seq(S \cup {top}) /\ <<top>> \in Seq(S \cup {top})
  OBVIOUS
<1>2. s \in Seq(S \cup {top}) /\ Len(s) = 1 + Len(rest) /\ s[1] = top
  BY <1>1
<1>3. Tail(s) = rest
  OBVIOUS
<1>4. s # <<>>
  BY <1>2
<1> QED BY <1>2, <1>3, <1>4

LEMMA FirstOf == ASSUME NEW S, NEW s \in Seq(S), s # <<>> PROVE s[1] \in S
  OBVIOUS

\* Bytes with other layers.
LEMMA Relayered ==
  ASSUME NEW b, NEW layers, NEW of, NEW others, b = [layers |-> layers, of |-> of]
  PROVE  b.layers = layers /\ b.of = of /\ [b EXCEPT !.layers = others] = [layers |-> others, of |-> of]
  OBVIOUS

LEMMA EmptySeqOf == ASSUME NEW S PROVE <<>> \in Seq(S)
  OBVIOUS

\* Base64 and back.
LEMMA BytesReturn ==
  ASSUME NEW b, IsBytes(b)
  PROVE  Under(AsBase64(b)) = b /\ Outermost(AsBase64(b), "base64")
<1>0. PICK S : b.layers \in Seq(S)
  BY DEF IsBytes
<1>1. PICK s \in Seq(S) : s = b.layers
  BY <1>0
<1>2. PICK t : t = <<"base64">> \o s
  OBVIOUS
<1>3. t # <<>> /\ t[1] = "base64" /\ Tail(t) = s
  BY <1>2
<1>4. AsBase64(b) = [layers |-> t, of |-> b.of]
  <2>1. b = [layers |-> s, of |-> b.of]
    BY <1>1 DEF IsBytes
  <2>2. AsBase64(b) = [b EXCEPT !.layers = t]
    BY <1>1, <1>2 DEF AsBase64
  <2> QED BY <2>1, <2>2, Relayered
<1>5. PICK c : c = [layers |-> t, of |-> b.of]
  OBVIOUS
<1>6. c.layers = t /\ [c EXCEPT !.layers = s] = [layers |-> s, of |-> b.of]
  BY <1>5
<1>7. Under(c) = [layers |-> s, of |-> b.of] /\ Outermost(c, "base64")
  BY <1>3, <1>6 DEF Under, Outermost
<1> QED BY <1>1, <1>4, <1>5, <1>7 DEF IsBytes

\* What a Response is turned into is what it was, but for cookies a load balancer drops and
\* for bytes taken for text.
LEMMA ConvertedAnswer ==
  ASSUME hosting \in EventSources, NEW r,
         DOMAIN r = {"status", "type", "coding", "vary", "cookies", "body", "etag"},
         IsBytes(r.body), r.body.of = "none" => r.body.layers = <<>> \/ ~IsBinary(r.type)
  PROVE  LET d == SentOn(ResponseToResult(r))
         IN /\ d.status = r.status /\ d.coding = r.coding /\ d.cookies = ResultCookies(r)
            /\ IsBinary(r.type) \/ IsText(r.body) => d.body = r.body
<1>1. PICK b, cookies : b = ResultBody(r) /\ cookies = ResultCookies(r)
  OBVIOUS
<1>2. PICK y : y = [r EXCEPT !.cookies = cookies, !.body = b]
  OBVIOUS
<1>3. ResponseToResult(r) = y
  BY <1>1, <1>2 DEF ResponseToResult
<1>4. DOMAIN y = DOMAIN r /\ y.status = r.status /\ y.coding = r.coding /\ y.cookies = cookies /\ y.body = b
  BY <1>2
<1>5. SentOn(y) = IF Outermost(b, "base64") THEN [y EXCEPT !.body = Under(b)] ELSE y
  BY <1>4 DEF SentOn
<1>6. PICK d : d = SentOn(y)
  OBVIOUS
<1>7. /\ d.status = r.status /\ d.coding = r.coding /\ d.cookies = cookies
      /\ d.body = IF Outermost(b, "base64") THEN Under(b) ELSE b
  BY <1>4, <1>5, <1>6
<1>8. ASSUME IsBinary(r.type) \/ IsText(r.body) PROVE d.body = r.body
  <2>1. r.body = [layers |-> r.body.layers, of |-> r.body.of]
    BY DEF IsBytes
  <2>2. CASE r.body.of = "none"
    <3>1. b = NoBytes /\ r.body.layers = <<>>
      BY <1>1, <1>8, <2>2 DEF ResultBody, IsText
    <3>2. r.body = NoBytes
      BY <2>1, <2>2, <3>1 DEF NoBytes
    <3>3. ~Outermost(b, "base64")
      BY <3>1 DEF Outermost, NoBytes
    <3> QED BY <1>7, <3>1, <3>2, <3>3
  <2>3. CASE r.body.of # "none" /\ IsBinary(r.type)
    <3>1. b = AsBase64(r.body)
      BY <1>1, <2>3 DEF ResultBody
    <3> QED BY <1>7, <2>1, <3>1, BytesReturn
  <2>4. CASE r.body.of # "none" /\ ~IsBinary(r.type)
    <3>1. b = r.body /\ r.body.layers = <<>>
      BY <1>1, <1>8, <2>4 DEF ResultBody, IsText
    <3> QED BY <1>7, <3>1 DEF Outermost
  <2> QED BY <2>2, <2>3, <2>4
<1> QED BY <1>1, <1>3, <1>6, <1>7, <1>8

\* What becomes of the handler's answer on its way out.
LEMMA AnswerMade ==
  ASSUME NEW a \in AppAnswers
  PROVE  LET r == AnswerOf(a)
         IN /\ DOMAIN r = {"status", "type", "coding", "vary", "cookies", "body", "etag"}
            /\ IsBytes(r.body)
            /\ r.body.of = "none" => r.body.layers = <<>> \/ ~IsBinary(r.type)
            /\ r.cookies = a.cookies
            /\ \/ r.status = 304 /\ \E i \in DOMAIN wanted.ifNoneMatch : wanted.ifNoneMatch[i][2] = a.body
               \/ r.status = 200 /\ Read(r) = Read(a)
            /\ \A codings : a.by # "etag" /\ Wrap(a, codings) # r => "accept-encoding" \in r.vary
<1>1. PICK m : m = MarkedReply(a)
  OBVIOUS
<1>2. /\ DOMAIN m = {"status", "type", "coding", "vary", "cookies", "body", "etag"}
      /\ m.status = 200 /\ m.coding = a.coding /\ m.cookies = a.cookies /\ m.body = a.body
  BY <1>1 DEF MarkedReply
<1>3. /\ a.body = [layers |-> a.body.layers, of |-> a.body.of] /\ a.body.layers \in Seq(STRING \ {""})
      /\ a.body.of = "none" => a.body.layers = <<>>
  BY ExchangeAssumption
<1>4. PICK layers, of, S : /\ a.body = [layers |-> layers, of |-> of] /\ layers \in Seq(S)
                           /\ layers # <<>> => layers[1] # ""
  <2>1. PICK layers \in Seq(STRING \ {""}) : layers = a.body.layers
    BY <1>3
  <2>2. layers # <<>> => layers[1] \in STRING \ {""}
    BY FirstOf
  <2> QED BY <1>3, <2>1, <2>2
<1>5. a.body.layers = layers /\ a.body.of = of /\ IsBytes(a.body)
  <2>1. a.body.layers = layers /\ a.body.of = of
    BY <1>4, Relayered
  <2> QED BY <1>4, <2>1 DEF IsBytes
<1>6. IsBytes(NoBytes) /\ NoBytes.layers = <<>>
  BY EmptySeqOf DEF NoBytes, IsBytes
<1>7. CASE a.by = "etag"
  <2>1. PICK tag : tag = EntityTag(a)
    OBVIOUS
  <2>2. tag[2] = a.body
    BY <2>1 DEF EntityTag
  <2>3. CASE wanted.ifNoneMatch = <<tag>>
    <3>1. AnswerOf(a) = [m EXCEPT !.status = 304, !.type = "", !.body = NoBytes, !.etag = tag]
      BY <1>1, <1>7, <2>1, <2>3 DEF AnswerOf, WithETag
    <3>2. \E i \in DOMAIN wanted.ifNoneMatch : wanted.ifNoneMatch[i][2] = a.body
      <4>1. 1 \in DOMAIN <<tag>> /\ <<tag>>[1] = tag
        OBVIOUS
      <4> QED BY <2>2, <2>3, <4>1
    <3>3. PICK r : r = [m EXCEPT !.status = 304, !.type = "", !.body = NoBytes, !.etag = tag]
      OBVIOUS
    <3>4. DOMAIN r = DOMAIN m /\ r.status = 304 /\ r.body = NoBytes /\ r.cookies = a.cookies
      BY <1>2, <3>3
    <3>5. IsBytes(r.body) /\ (r.body.of = "none" => r.body.layers = <<>> \/ ~IsBinary(r.type))
      BY <1>6, <3>4
    <3>6. \A codings : a.by # "etag" /\ Wrap(a, codings) # r => "accept-encoding" \in r.vary
      BY <1>7
    <3>7. AnswerOf(a) = r
      BY <3>1, <3>3
    <3> QED BY <1>2, <3>2, <3>4, <3>5, <3>6, <3>7
  <2>4. CASE wanted.ifNoneMatch # <<tag>>
    <3>1. AnswerOf(a) = [m EXCEPT !.type = "json", !.etag = tag]
      BY <1>1, <1>7, <2>1, <2>4 DEF AnswerOf, WithETag
    <3>2. PICK r : r = [m EXCEPT !.type = "json", !.etag = tag]
      OBVIOUS
    <3>3. DOMAIN r = DOMAIN m /\ r.status = 200 /\ r.body = a.body /\ r.cookies = a.cookies /\ r.coding = a.coding
      BY <1>2, <3>2
    <3>4. Read(r) = Read(a)
      BY <3>3 DEF Read
    <3> QED BY <1>2, <1>3, <1>5, <1>7, <3>1, <3>2, <3>3, <3>4
  <2> QED BY <2>3, <2>4
<1>8. CASE a.by # "etag" /\ AnswerOf(a) = m
  <2>1. Read(m) = Read(a)
    BY <1>2 DEF Read
  <2>2. ASSUME NEW codings, Wrap(a, codings) # m PROVE "accept-encoding" \in m.vary
    <3>1. a.by \in {"json", "html", "send"}
      BY <1>1, <2>2 DEF Wrap
    <3> QED BY <1>1, <3>1 DEF MarkedReply
  <2> QED BY <1>2, <1>3, <1>5, <1>8, <2>1, <2>2
<1>9. CASE a.by # "etag" /\ AnswerOf(a) # m
  <2>1. PICK coding : coding = NegotiateEncoding(wanted.codings)
    OBVIOUS
  <2>2. /\ AnswerOf(a) = [m EXCEPT !.coding = coding, !.body.layers = <<coding>> \o @]
        /\ a.by \in {"json", "html", "send"} /\ Compressible(m.type) /\ a.coding = ""
    BY <1>1, <1>9, <2>1 DEF AnswerOf, Wrap
  <2>3. PICK under : under = <<coding>> \o layers
    OBVIOUS
  <2>4. under # <<>> /\ under[1] = coding /\ Tail(under) = layers /\ under \in Seq(S \cup {coding})
    BY <1>4, <2>3, Topped
  <2>5. PICK r : r = [m EXCEPT !.coding = coding, !.body = [layers |-> under, of |-> of]]
    OBVIOUS
  <2>6. AnswerOf(a) = r
    <3>1. [m EXCEPT !.coding = coding, !.body.layers = <<coding>> \o @] = [m EXCEPT !.coding = coding, !.body = [layers |-> under, of |-> of]]
      <4>1. [a.body EXCEPT !.layers = under] = [layers |-> under, of |-> of]
        <5>1. PICK b : b = a.body
          OBVIOUS
        <5>2. [b EXCEPT !.layers = under] = [layers |-> under, of |-> of]
          <6>1. b = [layers |-> layers, of |-> of]
            BY <1>4, <5>1
          <6> QED BY <6>1, Relayered
        <5> QED BY <5>1, <5>2
      <4> QED BY <1>2, <1>5, <2>3, <4>1
    <3> QED BY <2>2, <2>5, <3>1
  <2>7. /\ DOMAIN r = DOMAIN m /\ r.status = 200 /\ r.body = [layers |-> under, of |-> of] /\ r.cookies = a.cookies
        /\ r.coding = coding /\ r.type = m.type /\ r.vary = m.vary
    BY <1>2, <2>5
  <2>8. Read(r) = Read(a)
    <3>1. Read(r) = a.body
      <4>1. Outermost(r.body, r.coding)
        BY <2>4, <2>7 DEF Outermost
      <4>2. Under(r.body) = [layers |-> layers, of |-> of]
        <5>1. PICK c : c = [layers |-> under, of |-> of]
          OBVIOUS
        <5>2. c.layers = under /\ [c EXCEPT !.layers = layers] = [layers |-> layers, of |-> of]
          BY <5>1
        <5> QED BY <2>4, <2>7, <5>1, <5>2 DEF Under
      <4> QED BY <1>4, <4>1, <4>2 DEF Read
    <3>2. Read(a) = a.body
      <4> QED BY <1>4, <1>5, <2>2 DEF Read, Outermost
    <3> QED BY <3>1, <3>2
  <2>9. IsBytes(r.body) /\ ~IsBinary(r.type)
    <3>1. IsBytes(r.body)
      BY <2>4, <2>7 DEF IsBytes
    <3>2. ~IsBinary(r.type)
      BY <2>2, <2>7 DEF IsBinary, Compressible, Textual
    <3> QED BY <3>1, <3>2
  <2>10. "accept-encoding" \in r.vary
    <3>1. m.vary = a.vary \cup {"accept-encoding"}
      BY <1>1, <2>2 DEF MarkedReply
    <3> QED BY <2>7, <3>1
  <2> QED BY <1>2, <1>9, <2>6, <2>7, <2>8, <2>9, <2>10
<1> QED BY <1>7, <1>8, <1>9

\* The quality of a coding is a number.
LEMMA QualityNumber ==
  ASSUME NEW entries, DOMAIN entries \subseteq Nat, \A i \in DOMAIN entries : entries[i].q \in Nat, NEW coding
  PROVE  Quality(entries, coding) \in Nat
<1>1. ASSUME NEW places \in SUBSET DOMAIN entries, places # {} PROVE entries[Earliest(places)].q \in Nat
  <2>1. Earliest(places) \in places
    BY <1>1, FirstIs
  <2> QED BY <2>1
<1> QED BY <1>1 DEF Quality

\* What keeping the best of n codings e with qualities grade comes to, step by step.
KeepsBest(n, e, grade, f) ==
  /\ f[{}] = [coding |-> "", q |-> 0]
  /\ \A s \in SUBSET (1..n) : s # {} =>
       f[s] = IF grade[Max(s)] > f[s \ {Max(s)}].q THEN [coding |-> e[Max(s)], q |-> grade[Max(s)]] ELSE f[s \ {Max(s)}]

LEMMA BestExists ==
  ASSUME NEW n \in Nat, NEW e, NEW grade \in [1..n -> Nat]
  PROVE  \E f : DOMAIN f = SUBSET (1..n) /\ f = [s \in SUBSET (1..n) |-> f[s]] /\ KeepsBest(n, e, grade, f)
<1> DEFINE V == [coding : {""} \cup {e[i] : i \in 1..n}, q : Nat]
           base == [coding |-> "", q |-> 0]
           Better(best, i) == IF grade[i] > best.q THEN [coding |-> e[i], q |-> grade[i]] ELSE best
           step == [v \in V \X (1..n) |-> Better(v[1], v[2])]
<1>1. base \in V
  OBVIOUS
<1>2. \A best \in V, i \in 1..n : Better(best, i) \in V
  OBVIOUS
<1>3. \A best \in V, i \in 1..n : step[<<best, i>>] = Better(best, i)
  OBVIOUS
<1>4. step \in [V \X (1..n) -> V]
  BY <1>2
<1> HIDE DEF step, V
<1>a. PICK b : b = base
  OBVIOUS
<1>5. PICK g \in [SUBSET (1..n) -> V] :
         \A s \in SUBSET (1..n) : g[s] = IF s = {} THEN b ELSE step[<<g[s \ {Max(s)}], Max(s)>>]
  <2>1. b \in V
    BY <1>1, <1>a
  <2>2. Foldable(n, V, b, step)
    BY <1>4, <2>1 DEF Foldable
  <2> HIDE DEF base, Better
  <2>3. Folded(n, V, b, step)
    BY <2>2, FoldExists
  <2> QED BY <2>3 DEF Folded
<1>6. g[{}] = base
  <2>1. {} \in SUBSET (1..n)
    OBVIOUS
  <2> QED BY <1>5, <1>a, <2>1
<1>7. ASSUME NEW s \in SUBSET (1..n), s # {} PROVE g[s] = Better(g[s \ {Max(s)}], Max(s))
  <2> HIDE DEF base, Better
  <2>1. Max(s) \in 1..n /\ s \ {Max(s)} \in SUBSET (1..n)
    BY <1>7, LastPlace
  <2>2. g[s \ {Max(s)}] \in V
    BY <2>1
  <2> QED BY <1>3, <1>5, <1>7, <2>1, <2>2
<1>8. KeepsBest(n, e, grade, g)
  BY <1>6, <1>7 DEF KeepsBest
<1> QED BY <1>8

BestIsKept(n, e, grade, f) ==
  /\ f[1..n].q \in Nat
  /\ \A i \in 1..n : grade[i] <= f[1..n].q
  /\ f[1..n].coding # "" => \E i \in 1..n : f[1..n].coding = e[i] /\ f[1..n].q = grade[i] /\ grade[i] > 0

LEMMA BestKept ==
  ASSUME NEW n, NEW e, NEW grade, NEW f, n \in Nat /\ grade \in [1..n -> Nat] /\ KeepsBest(n, e, grade, f)
  PROVE  BestIsKept(n, e, grade, f)
<1> DEFINE Best(k) == /\ f[1..k].q \in Nat
                      /\ \A i \in 1..k : grade[i] <= f[1..k].q
                      /\ f[1..k].coding # "" => \E i \in 1..k : f[1..k].coding = e[i] /\ f[1..k].q = grade[i] /\ grade[i] > 0
           Bad == {k \in 0..n : ~Best(k)}
<1>1. Best(0)
  <2>1. 1..0 = {}
    OBVIOUS
  <2>r. PICK r : r = f[1..0]
    OBVIOUS
  <2>s. r = [coding |-> "", q |-> 0]
    BY <2>1, <2>r DEF KeepsBest
  <2>t. r.q = 0
    BY <2>s
  <2>u. r.coding = ""
    BY <2>s
  <2>2. f[1..0].q = 0 /\ f[1..0].coding = ""
    BY <2>r, <2>t, <2>u
  <2>3. \A i \in 1..0 : FALSE
    OBVIOUS
  <2>4. f[1..0].q \in Nat
    <3>1. 0 \in Nat
      OBVIOUS
    <3> QED BY <2>2, <3>1, Zenon
  <2> QED BY <2>2, <2>3, <2>4
<1>2. ASSUME NEW k \in 1..n, Best(k - 1) PROVE Best(k)
  <2>1. 1..k \in SUBSET (1..n) /\ 1..k # {} /\ k \in 1..k
    OBVIOUS
  <2>2. Max(1..k) = k
    <3>1. PICK m : m = Max(1..k)
      OBVIOUS
    <3>2. k \in Nat /\ 1..k \in SUBSET (1..k)
      OBVIOUS
    <3>3. m \in 1..k /\ k <= m
      BY <2>1, <3>1, <3>2, LastPlace
    <3> QED BY <3>1, <3>3
  <2>3. (1..k) \ {k} = 1..k-1
    OBVIOUS
  <2>4. f[1..k] = IF grade[k] > f[1..k-1].q THEN [coding |-> e[k], q |-> grade[k]] ELSE f[1..k-1]
    BY <2>1, <2>2, <2>3 DEF KeepsBest
  <2>5. PICK b : b = f[1..k-1]
    OBVIOUS
  <2>6. PICK c : c = f[1..k]
    OBVIOUS
  <2>x. PICK x : x = grade[k]
    OBVIOUS
  <2>y. PICK y : y = b.q
    OBVIOUS
  <2>7. /\ x > y => c.q = x /\ c.coding = e[k]
        /\ ~(x > y) => c = b
    BY <2>4, <2>5, <2>6, <2>x, <2>y
  <2>8. /\ b.q \in Nat
        /\ \A i \in 1..k-1 : grade[i] <= b.q
        /\ b.coding # "" => \E i \in 1..k-1 : b.coding = e[i] /\ b.q = grade[i] /\ grade[i] > 0
    BY <1>2, <2>5
  <2>z. PICK z : z = c.q
    OBVIOUS
  <2>9. z \in Nat /\ y <= z /\ x <= z
    <3>1. x \in Nat /\ y \in Nat
      BY <2>8, <2>x, <2>y
    <3>2. (x > y => z = x) /\ (~(x > y) => z = y)
      BY <2>7, <2>y, <2>z
    <3> QED BY <3>1, <3>2
  <2>10. ASSUME NEW i \in 1..k PROVE grade[i] <= z
    <3>1. CASE i = k
      BY <2>9, <2>x, <3>1
    <3>2. CASE i # k
      <4>1. i \in 1..k-1
        BY <3>2
      <4>2. grade[i] <= y
        BY <2>8, <2>y, <4>1
      <4>3. PICK w \in Nat : w = grade[i]
        OBVIOUS
      <4>4. y \in Nat
        BY <2>8, <2>y
      <4>5. w <= y
        BY <4>2, <4>3
      <4>6. w <= z
        BY <2>9, <4>4, <4>5
      <4> QED BY <4>3, <4>6
    <3> QED BY <3>1, <3>2
  <2>11. c.coding # "" => \E i \in 1..k : c.coding = e[i] /\ c.q = grade[i] /\ grade[i] > 0
    <3>1. CASE x > y
      <4>1. x > 0
        <5>1. x \in Nat /\ y \in Nat
          BY <2>8, <2>x, <2>y
        <5> QED BY <3>1, <5>1
      <4>2. k \in 1..k
        OBVIOUS
      <4> QED BY <2>7, <2>x, <3>1, <4>1, <4>2
    <3>2. CASE ~(x > y)
      <4>1. c = b
        BY <2>7, <3>2
      <4>2. 1..k-1 \subseteq 1..k
        OBVIOUS
      <4> QED BY <2>8, <4>1, <4>2
    <3> QED BY <3>1, <3>2
  <2> QED BY <2>6, <2>9, <2>10, <2>11, <2>z
<1> HIDE DEF Best
<1>3. Bad = {}
  <2> SUFFICES ASSUME Bad # {} PROVE FALSE
    OBVIOUS
  <2>1. PICK k \in Bad : \A m \in Bad : k <= m
    <3>1. Bad \subseteq Nat
      OBVIOUS
    <3> HIDE DEF Bad
    <3> QED BY <3>1, SmallestNat
  <2>2. k \in 1..n
    BY <1>1
  <2>3. k - 1 \in 0..n /\ ~(k <= k - 1)
    BY <2>2
  <2>4. Best(k - 1)
    BY <2>1, <2>3
  <2> QED BY <1>2, <2>2, <2>4
<1>4. Best(n)
  BY <1>3
<1> QED BY <1>4 DEF Best, BestIsKept

\* The coding chosen is taken, and no other of the server's is preferred.
LEMMA BestCoding ==
  ASSUME NEW entries, DOMAIN entries \subseteq Nat, \A i \in DOMAIN entries : entries[i].q \in Nat,
         NegotiateEncoding(entries) # ""
  PROVE  /\ Quality(entries, NegotiateEncoding(entries)) > 0
         /\ \A i \in DOMAIN Encodings : Quality(entries, Encodings[i]) <= Quality(entries, NegotiateEncoding(entries))
<1> DEFINE Follows(f) ==
             f = [s \in SUBSET DOMAIN Encodings |->
                    IF s = {} THEN [coding |-> "", q |-> 0]
                    ELSE IF Quality(entries, Encodings[Max(s)]) > f[s \ {Max(s)}].q
                         THEN [coding |-> Encodings[Max(s)], q |-> Quality(entries, Encodings[Max(s)])]
                         ELSE f[s \ {Max(s)}]]
           f == CHOOSE h : Follows(h)
<1>1. NegotiateEncoding(entries) = f[DOMAIN Encodings].coding
  BY DEF NegotiateEncoding, FoldLeft, MapThenFoldSet
<1>2. PICK n \in Nat : DOMAIN Encodings = 1..n
  BY Numbered, ExchangeAssumption
<1>q. PICK grade : grade = [i \in 1..n |-> Quality(entries, Encodings[i])]
  OBVIOUS
<1>3. grade \in [1..n -> Nat]
  BY <1>q, QualityNumber
<1>4. ASSUME NEW s \in SUBSET (1..n), s # {} PROVE Quality(entries, Encodings[Max(s)]) = grade[Max(s)]
  <2>1. Max(s) \in 1..n
    BY <1>4, LastPlace
  <2> QED BY <1>q, <2>1
<1>5. \E h : Follows(h)
  <2>1. PICK g : DOMAIN g = SUBSET (1..n) /\ g = [s \in SUBSET (1..n) |-> g[s]] /\ KeepsBest(n, Encodings, grade, g)
    BY <1>3, BestExists
  <2>2. Follows(g)
    BY <1>2, <1>4, <2>1 DEF KeepsBest
  <2> QED BY <2>2
<1>6. Follows(f)
  BY <1>5
<1>f. PICK fe, e : fe = f /\ e = Encodings
  OBVIOUS
<1> HIDE DEF f
<1>7. KeepsBest(n, e, grade, fe)
  BY <1>2, <1>4, <1>6, <1>f DEF KeepsBest
<1>8. PICK c : c = NegotiateEncoding(entries)
  OBVIOUS
<1>9. c = fe[1..n].coding /\ c # ""
  BY <1>1, <1>2, <1>8, <1>f
<1> HIDE DEF Follows
<1>10. PICK j \in 1..n : c = Encodings[j] /\ grade[j] > 0 /\ \A i \in 1..n : grade[i] <= grade[j]
  <2>1. /\ \A i \in 1..n : grade[i] <= fe[1..n].q
        /\ fe[1..n].coding # "" => \E i \in 1..n : fe[1..n].coding = e[i] /\ fe[1..n].q = grade[i] /\ grade[i] > 0
    <3>1. n \in Nat /\ grade \in [1..n -> Nat] /\ KeepsBest(n, e, grade, fe)
      BY <1>3, <1>7
    <3>2. BestIsKept(n, e, grade, fe)
      BY <3>1, BestKept
    <3> QED BY <3>2 DEF BestIsKept
  <2>2. PICK j \in 1..n : fe[1..n].coding = e[j] /\ fe[1..n].q = grade[j] /\ grade[j] > 0
    BY <1>9, <2>1
  <2> QED BY <1>9, <1>f, <2>1, <2>2
<1>11. \A i \in 1..n : Quality(entries, Encodings[i]) = grade[i]
  BY <1>q
<1> QED BY <1>2, <1>8, <1>10, <1>11

\* An answer that got a coding on its way out was given the one negotiated.
LEMMA Compressed ==
  ASSUME NEW a \in AppAnswers, a.by # "etag", AnswerOf(a).coding # a.coding
  PROVE  a.coding = "" /\ AnswerOf(a).coding = NegotiateEncoding(wanted.codings) /\ NegotiateEncoding(wanted.codings) # ""
<1>1. PICK m : m = MarkedReply(a)
  OBVIOUS
<1>2. m.coding = a.coding /\ DOMAIN m = {"status", "type", "coding", "vary", "cookies", "body", "etag"}
  BY <1>1 DEF MarkedReply
<1>3. PICK coding : coding = NegotiateEncoding(wanted.codings)
  OBVIOUS
<1>4. AnswerOf(a) # m
  BY <1>2
<1>5. AnswerOf(a) = [m EXCEPT !.coding = coding, !.body.layers = <<coding>> \o @] /\ a.coding = "" /\ coding # ""
  BY <1>1, <1>3, <1>4 DEF AnswerOf, Wrap
<1>6. PICK b : b = [m.body EXCEPT !.layers = <<coding>> \o @]
  OBVIOUS
<1>7. PICK r : r = [m EXCEPT !.coding = coding, !.body = b]
  OBVIOUS
<1>8. AnswerOf(a) = r
  BY <1>5, <1>6, <1>7
<1>9. r.coding = coding
  BY <1>2, <1>7
<1> QED BY <1>3, <1>5, <1>8, <1>9

\* So the coding is one the client takes, and likes no other of the server's better.
LEMMA CodingIsTaken ==
  ASSUME wanted \in ClientRequests, NEW a \in AppAnswers, a.by # "etag", AnswerOf(a).coding # a.coding
  PROVE  /\ a.coding = "" /\ Quality(wanted.codings, AnswerOf(a).coding) > 0
         /\ \A i \in DOMAIN Encodings : Quality(wanted.codings, Encodings[i]) <= Quality(wanted.codings, AnswerOf(a).coding)
<1>1. PICK c : c = NegotiateEncoding(wanted.codings)
  OBVIOUS
<1>2. a.coding = "" /\ AnswerOf(a).coding = c /\ c # ""
  BY <1>1, Compressed
<1>3. PICK entries : entries = wanted.codings
  OBVIOUS
<1>4. DOMAIN entries \subseteq Nat /\ \A i \in DOMAIN entries : entries[i].q \in Nat
  <2>1. entries \in Seq([range : Seq(STRING), q : Nat])
    BY <1>3, ExchangeAssumption
  <2>2. PICK S : S = [range : Seq(STRING), q : Nat]
    OBVIOUS
  <2>3. \A x \in S : x.q \in Nat
    BY <2>2
  <2>4. PICK n \in Nat : DOMAIN entries = 1..n
    BY <2>1, Numbered
  <2>5. \A i \in DOMAIN entries : entries[i] \in S
    <3>1. entries \in Seq(S)
      BY <2>1, <2>2
    <3> QED BY <3>1, Numbered
  <2> QED BY <2>3, <2>4, <2>5
<1>5. Quality(entries, c) > 0 /\ \A i \in DOMAIN Encodings : Quality(entries, Encodings[i]) <= Quality(entries, c)
  BY <1>1, <1>2, <1>3, <1>4, BestCoding
<1> QED BY <1>2, <1>3, <1>5

\* Parts of PlatformsSound in AnswersSound, for any requests, answers and codings, on a server
\* and behind every event source of Lambda: the application is asked what the client asked
\* (eventToRequest()), the client reads what the handler answered unless bytes were taken for
\* text (responseToResult()), the coding it comes in is one the client takes, none of the
\* server's better (negotiateEncoding()), and an answer that the compressing reply would have
\* made otherwise for another client says so.
THEOREM ExchangesArrive == ExchangesSpec => [](RequestArrives /\ PicksReasonable /\ CodingTaken /\ VariesTold /\ AnswerArrives)
<1>1. ExchangeInit => ExchangeInv
  BY DEF ExchangeInit, ExchangeInv
<1>2. ExchangeInv => RequestArrives /\ PicksReasonable /\ CodingTaken /\ VariesTold /\ AnswerArrives
  <2> SUFFICES ASSUME ExchangeInv PROVE RequestArrives /\ PicksReasonable /\ CodingTaken /\ VariesTold /\ AnswerArrives
    OBVIOUS
  <2>1. RequestArrives
    <3> SUFFICES ASSUME hop # "sent" PROVE RequestArrives
      BY DEF RequestArrives
    <3>1. PICK r \in ClientRequests : r = wanted
      BY DEF ExchangeInv
    <3>2. perceived = RequestOf(r)
      BY <3>1 DEF ExchangeInv
    <3>3. CASE hosting = "server"
      <4>1. perceived = AsSent(r)
        BY <3>2, <3>3 DEF RequestOf
      <4>2. /\ perceived.cookies = r.cookies /\ perceived.headers = r.headers /\ perceived.query = r.query /\ perceived.proto = r.proto
            /\ perceived.body = (IF r.method \in {"GET", "HEAD"} THEN NoBytes ELSE r.body) /\ perceived.remote = "client"
        BY <4>1 DEF AsSent
      <4>3. \A h \in DOMAIN Valued(LastOnly(r.headers)) : h \in DOMAIN r.headers
        BY DEF Valued, LastOnly
      <4> QED BY <3>1, <3>3, <4>2, <4>3 DEF RequestArrives
    <3>4. CASE hosting # "server"
      <4>1. hosting \in EventSources /\ perceived = EventToRequest(LambdaEvent(r))
        BY <3>2, <3>4 DEF ExchangeInv, RequestOf
      <4>2. Under(AsBase64(r.body)) = r.body
        <5>1. IsBytes(r.body)
          BY ExchangeAssumption DEF IsBytes
        <5> QED BY <5>1, BytesReturn
      <4>3. PICK p : p = EventToRequest(LambdaEvent(r))
        OBVIOUS
      <4>4. /\ p.cookies = r.cookies /\ p.query = IF hosting = "alb" THEN LastOnly(r.query) ELSE r.query
            /\ p.body = (IF r.method \in {"GET", "HEAD"} THEN NoBytes ELSE r.body)
            /\ p.remote = (IF hosting \in {"alb", "albMulti"} THEN "none" ELSE "client")
            /\ p.proto = r.proto \/ r.proto \notin {"http", "https"}
        BY <4>1, <4>2, <4>3, ConvertedRequest
      <4>5. ASSUME NEW h \in DOMAIN Valued(LastOnly(r.headers))
            PROVE  h \in DOMAIN p.headers /\ p.headers[h] = (IF hosting = "alb" THEN LastOnly(r.headers) ELSE r.headers)[h]
        BY <4>1, <4>3, ConvertedRequest
      <4> QED BY <3>1, <4>1, <4>3, <4>4, <4>5 DEF RequestArrives
    <3> QED BY <3>3, <3>4
  <2>2. AnswerArrives
    <3> SUFFICES ASSUME hop = "delivered", delivered.status # 500 PROVE AnswerArrives
      BY DEF AnswerArrives
    <3>1. PICK a \in AppAnswers : a = said /\ answered = AnswerOf(a)
      BY DEF ExchangeInv
    <3>2. PICK r : r = answered
      OBVIOUS
    <3>3. /\ DOMAIN r = {"status", "type", "coding", "vary", "cookies", "body", "etag"} /\ IsBytes(r.body)
          /\ r.body.of = "none" => r.body.layers = <<>> \/ ~IsBinary(r.type)
          /\ r.cookies = a.cookies
          /\ \/ r.status = 304 /\ \E i \in DOMAIN wanted.ifNoneMatch : wanted.ifNoneMatch[i][2] = a.body
             \/ r.status = 200 /\ Read(r) = Read(a)
      BY <3>1, <3>2, AnswerMade
    <3>4. delivered = ResultOf(r)
      <4>1. Failed500.status = 500
        BY DEF Failed500
      <4> QED BY <3>2, <4>1 DEF ExchangeInv
    <3>5. /\ delivered.status = r.status /\ delivered.coding = r.coding
          /\ TakenForText \/ delivered.body = r.body
          /\ delivered.cookies = r.cookies \/ (hosting = "alb" /\ delivered.cookies = <<r.cookies[1]>>)
      <4>1. CASE hosting = "server"
        BY <3>4, <4>1 DEF ResultOf
      <4>2. CASE hosting # "server"
        <5>1. hosting \in EventSources /\ delivered = SentOn(ResponseToResult(r))
          BY <3>4, <4>2 DEF ExchangeInv, ResultOf
        <5>2. /\ delivered.status = r.status /\ delivered.coding = r.coding /\ delivered.cookies = ResultCookies(r)
              /\ IsBinary(r.type) \/ IsText(r.body) => delivered.body = r.body
          BY <3>3, <5>1, ConvertedAnswer
        <5> QED BY <3>2, <4>2, <5>2 DEF TakenForText, ResultCookies
      <4> QED BY <4>1, <4>2
    <3>6. TakenForText \/ Read(delivered) = Read(r)
      BY <3>5 DEF Read
    <3> QED BY <3>1, <3>3, <3>5, <3>6 DEF AnswerArrives
  <2>3. VariesTold
    BY AnswerMade DEF ExchangeInv, VariesTold
  <2>4. CodingTaken
    BY CodingIsTaken DEF ExchangeInv, CodingTaken
  <2>5. PicksReasonable
    <3> SUFFICES ASSUME picked # <<>> PROVE PicksReasonable
      BY DEF PicksReasonable
    <3>1. /\ picked.type = Accepts(wanted.types) /\ picked.coding = AcceptsEncoding(wanted.codings)
          /\ picked.language = AcceptsLanguage(wanted.languages) /\ wanted \in ClientRequests
      BY DEF ExchangeInv, PicksOf
    <3> QED BY <3>1, TypesReasonable, CodingsReasonable, LanguagesReasonable DEF PicksReasonable
  <2> QED BY <2>1, <2>2, <2>3, <2>4, <2>5
<1> QED BY ExchangeKept, <1>1, <1>2, PTL DEF ExchangesSpec
==============================================================================
