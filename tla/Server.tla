-------------------------------- MODULE Server --------------------------------
(***************************************************************************)
(* serveNode of core/src/serve.ts, with the limiter and the connections of *)
(* core/src/websocket.ts: HTTP requests, WebSocket upgrades, the graceful  *)
(* shutdown and the fatal-error handler.                                   *)
(*                                                                         *)
(* A connection has a socket, what its callback is doing (`work`) and, once*)
(* upgraded, a WebSocket; each may outlive the others.  All connections    *)
(* come from one address, the key of the limiter.                          *)
(***************************************************************************)
EXTENDS Integers, FiniteSets

CONSTANTS Conns,  \* connections, each made once
          Cap     \* maxConnectionsPerIP

ASSUME ServerAssumption == Cap \in Nat \ {0} /\ IsFiniteSet(Conns)

VARIABLES boot,         \* of serve(): "importing" ws, then "listening" or "failed"
          accepting,    \* does the listener take connections?
          socket,       \* socket[c]: "destroyed" until its close event
          work,         \* work[c]: what the request or upgrade callback of c awaits
          ws,           \* ws[c]: "closing" after close(), until its close event
          slot,         \* slot[c]: the slot acquired for c, and its `released`
          count,        \* the limiter's count of the address
          inFlightRequests,
          shuttingDown,
          stage,        \* what handleShutdown awaits
          expired,      \* is shutdownTimeout over?
          fatal,        \* `handling` of the fatal-error handler, and what it awaits
          exited,       \* process.exit was called
          cut           \* history: connections whose response was cut before the deadline

conns == <<socket, work, ws, slot, count, inFlightRequests>>
serverVars == <<boot, accepting, conns, shuttingDown, stage, expired, fatal, exited, cut>>

sockets == {c \in Conns : socket[c] \in {"open", "destroyed"}}
webSockets == {c \in Conns : ws[c] \in {"open", "closing"}}
pendingUpgradeSockets == {c \in Conns : work[c] = "authorizing"}
Answering == {c \in Conns : work[c] \in {"handling", "flushing"}}

ServerTypeOK ==
  /\ boot \in {"importing", "listening", "failed"} /\ accepting \in BOOLEAN
  /\ socket \in [Conns -> {"new", "open", "destroyed", "closed"}]
  /\ work \in [Conns -> {"none", "handling", "flushing", "authorizing"}]
  /\ ws \in [Conns -> {"none", "open", "closing", "closed"}]
  /\ slot \in [Conns -> {"none", "held", "released"}]
  /\ count \in Nat /\ inFlightRequests \in Nat
  /\ shuttingDown \in BOOLEAN
  /\ stage \in {"up", "draining", "destroying", "stoppingWorker", "onShutdown", "down", "failed"}
  /\ expired \in BOOLEAN
  /\ fatal \in {"no", "drains", "exits"} /\ exited \in BOOLEAN
  /\ cut \in SUBSET Conns

ServerInit ==
  /\ boot = "importing" /\ accepting = FALSE
  /\ socket = [c \in Conns |-> "new"] /\ work = [c \in Conns |-> "none"]
  /\ ws = [c \in Conns |-> "none"]
  /\ slot = [c \in Conns |-> "none"] /\ count = 0
  /\ inFlightRequests = 0
  /\ shuttingDown = FALSE /\ stage = "up" /\ expired = FALSE
  /\ fatal = "no" /\ exited = FALSE
  /\ cut = {}
-----------------------------------------------------------------------------
(* Boot: the signal and fatal-error handlers are there before the listener *)

Listen ==
  /\ boot = "importing"
  /\ \/ boot' = "listening" /\ accepting' = TRUE
     \/ boot' = "failed" /\ UNCHANGED accepting
  /\ UNCHANGED <<conns, shuttingDown, stage, expired, fatal, exited, cut>>

Connect(c) ==
  /\ accepting /\ socket[c] = "new"
  /\ socket' = [socket EXCEPT ![c] = "open"]
  /\ UNCHANGED <<boot, accepting, work, ws, slot, count, inFlightRequests,
                 shuttingDown, stage, expired, fatal, exited, cut>>

\* Open, with nothing in progress.
Idle(c) == socket[c] = "open" /\ work[c] = "none" /\ ws[c] = "none"
-----------------------------------------------------------------------------
(* Requests *)

\* While shutting down the answer is a 503, and nothing changes.
Request(c) ==
  /\ Idle(c) /\ ~shuttingDown
  /\ work' = [work EXCEPT ![c] = "handling"] /\ inFlightRequests' = inFlightRequests + 1
  /\ UNCHANGED <<boot, accepting, socket, ws, slot, count,
                 shuttingDown, stage, expired, fatal, exited, cut>>

\* app.handle() and the writing are over, and Node has the response to flush; or they
\* failed after the headers were sent, and the socket is destroyed.
HandlerEnds(c) ==
  /\ work[c] = "handling"
  /\ inFlightRequests' = inFlightRequests - 1
  /\ \/ /\ work' = [work EXCEPT ![c] = IF socket[c] = "open" THEN "flushing" ELSE "none"]
        /\ UNCHANGED socket
     \/ /\ socket[c] = "open"
        /\ socket' = [socket EXCEPT ![c] = "destroyed"] /\ work' = [work EXCEPT ![c] = "none"]
  /\ UNCHANGED <<boot, accepting, ws, slot, count,
                 shuttingDown, stage, expired, fatal, exited, cut>>

\* The client has it all, and the connection is kept alive.
Flushed(c) ==
  /\ work[c] = "flushing" /\ socket[c] = "open"
  /\ work' = [work EXCEPT ![c] = "none"]
  /\ UNCHANGED <<boot, accepting, socket, ws, slot, count, inFlightRequests,
                 shuttingDown, stage, expired, fatal, exited, cut>>
-----------------------------------------------------------------------------
(* WebSockets *)

\* The request is let to authorizeWSUpgrade(), or refused at once.
Upgrade(c) ==
  /\ Idle(c)
  /\ \/ /\ ~shuttingDown
        /\ work' = [work EXCEPT ![c] = "authorizing"] /\ UNCHANGED socket
     \/ socket' = [socket EXCEPT ![c] = "destroyed"] /\ UNCHANGED work
  /\ UNCHANGED <<boot, accepting, ws, slot, count, inFlightRequests,
                 shuttingDown, stage, expired, fatal, exited, cut>>

Refuse(c) ==
  /\ socket' = [socket EXCEPT ![c] = IF @ = "open" THEN "destroyed" ELSE @]
  /\ UNCHANGED <<ws, slot, count>>

\* limiter.acquire(), then handleUpgrade(): the WebSocket opens, whether or not the
\* open handler throws, or the handshake is aborted.
Open(c) ==
  /\ slot' = [slot EXCEPT ![c] = "held"] /\ count' = count + 1
  /\ \/ /\ ws' = [ws EXCEPT ![c] = "open"]
        /\ \/ UNCHANGED socket
           \/ socket' = [socket EXCEPT ![c] = "destroyed"]
     \/ socket' = [socket EXCEPT ![c] = "destroyed"] /\ UNCHANGED ws

\* Mutated form: shuttingDown is not looked at again.
AuthorizedStale(c) ==
  /\ work[c] = "authorizing"
  /\ work' = [work EXCEPT ![c] = "none"]
  /\ Refuse(c) \/ (socket[c] = "open" /\ count < Cap /\ Open(c))
  /\ UNCHANGED <<boot, accepting, inFlightRequests, shuttingDown, stage, expired, fatal, exited, cut>>

\* authorizeWSUpgrade() answers, and the connection is looked at again.
Authorized(c) ==
  /\ work[c] = "authorizing"
  /\ work' = [work EXCEPT ![c] = "none"]
  /\ \/ Refuse(c)
     \/ ~shuttingDown /\ socket[c] = "open" /\ count < Cap /\ Open(c)
  /\ UNCHANGED <<boot, accepting, inFlightRequests, shuttingDown, stage, expired, fatal, exited, cut>>

\* Mutated form: without `released`.
ReleaseAgain(c) ==
  IF slot[c] # "none"
  THEN slot' = [slot EXCEPT ![c] = "released"] /\ count' = IF count <= 1 THEN 0 ELSE count - 1
  ELSE UNCHANGED <<slot, count>>

\* releaseSlot(), of the socket's close event and of the WebSocket's.
Release(c) ==
  IF slot[c] = "held"
  THEN slot' = [slot EXCEPT ![c] = "released"] /\ count' = count - 1
  ELSE UNCHANGED <<slot, count>>

\* The client leaves or a destroyed socket has closed: the socket's close event.
SocketCloses(c) ==
  /\ socket[c] \in {"open", "destroyed"}
  /\ socket' = [socket EXCEPT ![c] = "closed"]
  /\ work' = [work EXCEPT ![c] = IF @ = "flushing" THEN "none" ELSE @]
  /\ Release(c)
  /\ UNCHANGED <<boot, accepting, ws, inFlightRequests, shuttingDown, stage, expired, fatal, exited, cut>>

WebSocketCloses(c) ==
  /\ socket[c] = "closed" /\ ws[c] \in {"open", "closing"}
  /\ ws' = [ws EXCEPT ![c] = "closed"]
  /\ Release(c)
  /\ UNCHANGED <<boot, accepting, socket, work, inFlightRequests,
                 shuttingDown, stage, expired, fatal, exited, cut>>
-----------------------------------------------------------------------------
(* handleShutdown *)

\* A signal, options.signal or close(); a second call returns at once.  An idle
\* connection whose next request is arriving is not closed.
Shutdown ==
  /\ ~shuttingDown
  /\ shuttingDown' = TRUE /\ stage' = "draining"
  /\ accepting' = FALSE
  /\ \E idle \in SUBSET {c \in Conns : Idle(c)} :
       socket' = [c \in Conns |-> IF c \in idle THEN "destroyed" ELSE socket[c]]
  /\ ws' = [c \in Conns |-> IF ws[c] = "open" THEN "closing" ELSE ws[c]]
  /\ UNCHANGED <<boot, work, slot, count, inFlightRequests, expired, exited, cut>>

Deadline ==
  /\ stage = "draining" /\ ~expired
  /\ expired' = TRUE
  /\ UNCHANGED <<boot, accepting, conns, shuttingDown, stage, fatal, exited, cut>>

\* Mutated form: upgrades that are being authorized are not waited for.
DrainedButUpgrades == inFlightRequests = 0 /\ webSockets = {} /\ sockets = {}

Drained ==
  /\ inFlightRequests = 0 /\ webSockets = {} /\ pendingUpgradeSockets = {} /\ sockets = {}

\* Mutated form: the loop waits for what it was told to drain, with no deadline.
EndDrainDrained ==
  /\ stage = "draining" /\ Drained
  /\ stage' = "stoppingWorker"
  /\ UNCHANGED <<boot, accepting, conns, shuttingDown, expired, fatal, exited, cut>>

\* The loop ends; what is still there is terminated and destroyed.
EndDrain ==
  /\ stage = "draining" /\ (Drained \/ expired)
  /\ IF Drained
     THEN stage' = "stoppingWorker" /\ UNCHANGED <<socket, cut>>
     ELSE /\ stage' = "destroying"
          /\ socket' = [c \in Conns |-> IF socket[c] = "open" THEN "destroyed" ELSE socket[c]]
          /\ cut' = IF expired THEN cut ELSE cut \cup {c \in Answering : socket[c] = "open"}
  /\ UNCHANGED <<boot, accepting, work, ws, slot, count, inFlightRequests,
                 shuttingDown, expired, fatal, exited>>

\* The 50 ms are over, then stopWorker() returns and stopCron() is called, then the
\* onShutdown hook returns, or rejects and leaves the handlers attached.
Teardown ==
  /\ \/ stage = "destroying" /\ stage' = "stoppingWorker"
     \/ stage = "stoppingWorker" /\ stage' = "onShutdown"
     \/ stage = "onShutdown" /\ stage' \in {"down", "failed"}
  /\ UNCHANGED <<boot, accepting, conns, shuttingDown, expired, fatal, exited, cut>>
-----------------------------------------------------------------------------
(* An unhandled rejection or an uncaught exception *)

Fatal ==
  /\ fatal = "no" /\ stage # "down"
  /\ \/ /\ ~shuttingDown
        /\ Shutdown /\ fatal' = "drains"
     \/ /\ shuttingDown /\ fatal' = "exits"
        /\ UNCHANGED <<boot, accepting, conns, shuttingDown, stage, expired, exited, cut>>

\* shutdown() has settled.
Exit ==
  /\ fatal = "exits" \/ (fatal = "drains" /\ stage \in {"down", "failed"})
  /\ exited' = TRUE
  /\ UNCHANGED <<boot, accepting, conns, shuttingDown, stage, expired, fatal, cut>>
-----------------------------------------------------------------------------
ConnStep(c) == \/ Connect(c) \/ Request(c) \/ HandlerEnds(c) \/ Flushed(c)
               \/ Upgrade(c) \/ Authorized(c) \/ SocketCloses(c) \/ WebSocketCloses(c)

ShutdownStep == Deadline \/ EndDrain \/ Teardown

ServerNext == /\ ~exited
        /\ \/ \E c \in Conns : ConnStep(c)
           \/ Listen \/ ShutdownStep \/ Fatal \/ Exit
           \/ Shutdown /\ UNCHANGED fatal

ServerSpec == ServerInit /\ [][ServerNext]_serverVars

\* Timers fire, stopWorker() has a timeout of its own and the onShutdown hook returns.
\* Nothing is assumed of clients, handlers or upgrades.
ShutdownFairness == WF_serverVars(~exited /\ ShutdownStep)

FairServerSpec == ServerSpec /\ ShutdownFairness
-----------------------------------------------------------------------------
(* Properties *)

\* The application is torn down (and a fatal error that began the shutdown exits after
\* that) with no request, upgrade or WebSocket in progress, then or later, unless the
\* deadline has passed.
DrainedFirst ==
  stage \in {"stoppingWorker", "onShutdown", "down", "failed"} /\ ~expired =>
    \A c \in Conns : work[c] = "none" /\ ws[c] \in {"none", "closed"}

\* No response is cut by the shutdown before its deadline, though its handler has
\* returned and only Node is still flushing it.
NotCutShort == cut = {}

\* Before its deadline a shutdown interrupts nothing.
DrainsBeforeExit == DrainedFirst /\ NotCutShort

\* Once shutting down no handler starts and no WebSocket opens, one whose upgrade was
\* being authorized included.
NothingStartsLate ==
  [][shuttingDown => inFlightRequests' <= inFlightRequests /\ webSockets' \subseteq webSockets]_serverVars

\* The limiter counts the live sockets that acquired a slot: none leaks with its
\* connection, and none is released twice, which would let in more than the cap.
SlotsMatch ==
  /\ count = Cardinality({c \in Conns : slot[c] = "held"})
  /\ \A c \in Conns : slot[c] = "held" => socket[c] \in {"open", "destroyed"}
  /\ Cardinality({c \in Conns : ws[c] \in {"open", "closing"} /\ socket[c] # "closed"}) <= Cap

\* A shutdown ends whatever clients, handlers and upgrades do.
ShutdownEnds == shuttingDown ~> (stage \in {"down", "failed"} \/ exited)

\* What serve.ts says of a fatal error: the handlers "drain, and then exit non-zero".
FatalDrains == exited /\ ~expired => \A c \in Conns : work[c] # "handling"
=============================================================================
