------------------------------- MODULE BunSockets -------------------------------
(***************************************************************************)
(* WebSockets on Bun (adapter-bun/src/index.ts): the fetch handler's       *)
(* upgrade, the callbacks Bun runs for a socket, which map it to the       *)
(* application's connection, and the limiter of connections per address    *)
(* (core/src/websocket.ts).  Bun runs `open` once a handshake is done, and *)
(* `close` once for every socket it opened, also for one closed in `open`. *)
(***************************************************************************)
EXTENDS Naturals, Sequences, FiniteSets, SequencesExt

CONSTANTS Sockets,     \* the clients' sockets
          Clients,     \* the addresses they come from
          PerAddress,  \* maxConnectionsPerIP; 0 disables the limiter
          MaxFrames    \* bound: messages of a socket

ASSUME BunAssumption == IsFiniteSet(Sockets) /\ PerAddress \in Nat

VARIABLES bunState,    \* of each socket
          bunAddress,  \* ws.data.ip of each
          slots,       \* the limiter's counts
          bridged,     \* the sockets `connections` maps to a WSConnection, the registry's too
          handled      \* history: the callbacks of the application's handler, per socket

bunVars == <<bunState, bunAddress, slots, bridged, handled>>

BunInit ==
  /\ bunState = [s \in Sockets |-> "new"] /\ bunAddress \in [Sockets -> Clients]
  /\ slots = [c \in Clients |-> 0] /\ bridged = {} /\ handled = [s \in Sockets |-> <<>>]

BunTo(s, state) == bunState[s] # state /\ bunState' = [bunState EXCEPT ![s] = state]
Called(s, callback) == handled' = [handled EXCEPT ![s] = Append(@, callback)]
-----------------------------------------------------------------------------
(* createBunHandler(): the upgrade waits for the origin check and the hooks *)

Handshake(s) ==
  /\ bunState[s] = "new" /\ BunTo(s, "authorizing")
  /\ UNCHANGED <<bunAddress, slots, bridged, handled>>

\* Refused with a status, by the gate or as server.upgrade() fails; or upgraded.
Decide(s) ==
  /\ bunState[s] = "authorizing" /\ \E state \in {"refused", "upgraded"} : BunTo(s, state)
  /\ UNCHANGED <<bunAddress, slots, bridged, handled>>
-----------------------------------------------------------------------------
(* WSConnectionLimiter *)

Room(address) == PerAddress = 0 \/ slots[address] < PerAddress
Acquired(address) == IF PerAddress = 0 THEN slots ELSE [slots EXCEPT ![address] = @ + 1]
ReleaseSlot(address) ==
  IF PerAddress = 0 THEN slots ELSE [slots EXCEPT ![address] = IF @ <= 1 THEN 0 ELSE @ - 1]
-----------------------------------------------------------------------------
(* createBunWebSocketHandler() *)

\* open(): with a slot, the connection is registered and the handler told.
OpenAccepted(s) ==
  /\ bunState[s] = "upgraded" /\ Room(bunAddress[s]) /\ BunTo(s, "open")
  /\ slots' = Acquired(bunAddress[s]) /\ bridged' = bridged \cup {s} /\ Called(s, "open")
  /\ UNCHANGED bunAddress

\* Without one, it is closed with 1013; Bun's close callback is still to come.
OpenRefused(s) ==
  /\ bunState[s] = "upgraded" /\ ~Room(bunAddress[s]) /\ BunTo(s, "closing")
  /\ UNCHANGED <<bunAddress, slots, bridged, handled>>

\* message(): a frame of a socket that has no connection is ignored.
Frame(s) ==
  /\ bunState[s] \in {"open", "closing"} /\ s \in bridged
  /\ Len(handled[s]) <= MaxFrames /\ Called(s, "message")
  /\ UNCHANGED <<bunState, bunAddress, slots, bridged>>

\* Either side begins to close.
BeginClose(s) ==
  /\ bunState[s] = "open" /\ BunTo(s, "closing")
  /\ UNCHANGED <<bunAddress, slots, bridged, handled>>

\* close(): the slot of the address is released, whoever has it; then the connection, if
\* there is one, is forgotten and the handler told.
CloseCallback(s) ==
  /\ bunState[s] = "closing" /\ BunTo(s, "closed")
  /\ slots' = ReleaseSlot(bunAddress[s]) /\ bridged' = bridged \ {s}
  /\ IF s \in bridged THEN Called(s, "close") ELSE UNCHANGED handled
  /\ UNCHANGED bunAddress

BunNext ==
  \E s \in Sockets :
    Handshake(s) \/ Decide(s) \/ OpenAccepted(s) \/ OpenRefused(s) \/ Frame(s) \/ BeginClose(s) \/ CloseCallback(s)

BunSpec == BunInit /\ [][BunNext]_bunVars
-----------------------------------------------------------------------------
(* Properties *)

Live(address) == {s \in bridged : bunAddress[s] = address}

\* The handler hears of a socket that was accepted, and of no other: it opens, its frames
\* come, and it closes once, whenever either side closes it.  A limiter never counts more
\* than there are connections, so that it refuses nobody who has room, and forgets an
\* address whose sockets are gone.
BunSound ==
  /\ \A s \in Sockets :
       /\ handled[s] # <<>> =>
            /\ handled[s][1] = "open"
            /\ \A i \in 2..Len(handled[s]) : handled[s][i] = IF i = Len(handled[s]) /\ s \notin bridged THEN "close" ELSE "message"
       /\ s \in bridged => bunState[s] \in {"open", "closing"} /\ handled[s] # <<>>
       /\ bunState[s] = "refused" => handled[s] = <<>>
       /\ bunState[s] = "closed" /\ handled[s] # <<>> => Last(handled[s]) = "close"
  /\ \A c \in Clients : slots[c] <= Cardinality(Live(c))

\* adapter-bun/src/index.ts: "Max concurrent WebSocket connections per client IP".
CapHolds == \A c \in Clients : PerAddress # 0 => Cardinality(Live(c)) <= PerAddress
=============================================================================
