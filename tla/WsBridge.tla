------------------------------- MODULE WsBridge -------------------------------
(***************************************************************************)
(* WebSocket broadcast over several nodes: RedisWSAdapter of ws-redis and  *)
(* the WSRegistry of websocket.ts it delivers to.  Redis publish and       *)
(* subscribe is external: commands of one client are executed in order, a  *)
(* published message reaches the nodes subscribed at that moment, and a    *)
(* node that loses its connection misses what is published meanwhile; the  *)
(* client subscribes again to what had been confirmed.                     *)
(***************************************************************************)
EXTENDS Naturals, SequencesExt

CONSTANTS Nodes,
          Rooms,      \* WebSocket paths
          Sockets,    \* sockets that clients hold open
          Home,       \* Home[s]: the [node, room] of a socket
          Everywhere, \* FANOUT_CHANNEL, and the path "*"
          NoSocket,
          Senders,    \* bound: the nodes that broadcast
          Steady,     \* bound: nodes that have subscribed, hold their sockets and have no trouble
          MaxSent,    \* bound: broadcasts
          MaxFaults   \* bound: refused commands and lost connections

ASSUME BridgeAssumption ==
  /\ Home \in [Sockets -> [node : Nodes, room : Rooms]]
  /\ Senders \cup Steady \subseteq Nodes
  /\ Everywhere \notin Rooms /\ NoSocket \notin Sockets /\ {MaxSent, MaxFaults} \subseteq Nat

Channels == Rooms \cup {Everywhere}

VARIABLES connections, \* WSRegistry: connections[n][room], or no entry
          held,        \* sockets between their open and close events
          marked,      \* subscribedChannels
          commands,    \* commands[n]: what the subscriber client has sent, in order
          subscribed,  \* subscribed[n]: channels Redis has this node down for
          confirmed,   \* confirmed[n]: channels of the client's own list
          promised,    \* channels for which a call of subscribePath() returned
          excused,     \* channels a command was refused for, or called for in advance
          outbox,      \* outbox[n]: published, not yet at Redis
          inbox,       \* inbox[n]: sent by Redis, not yet handled
          state,       \* "open", "closing" or "closed"
          received,    \* received[s]: the broadcasts a socket was sent
          sent, faults

bridgeVars == <<connections, held, marked, commands, subscribed, confirmed, promised, excused,
                outbox, inbox, state, received, sent, faults>>
subscription == <<marked, commands, subscribed, confirmed, promised, excused>>

SocketsAt(n, room) == {s \in Sockets : Home[s] = [node |-> n, room |-> room]}
SteadyOr(channels, none) == [n \in Nodes |-> IF n \in Steady THEN channels ELSE none]

BridgeInit ==
  /\ connections = [n \in Nodes |-> IF n \in Steady THEN [r \in Rooms |-> SocketsAt(n, r)] ELSE << >>]
  /\ held = {s \in Sockets : Home[s].node \in Steady}
  /\ marked = SteadyOr(Channels, {Everywhere})
  /\ commands = SteadyOr(<<>>, <<[op |-> "subscribe", channels |-> {Everywhere}]>>)
  /\ subscribed = SteadyOr(Channels, {}) /\ confirmed = subscribed /\ promised = subscribed
  /\ excused = [n \in Nodes |-> {}]
  /\ outbox = [n \in Nodes |-> <<>>] /\ inbox = [n \in Nodes |-> <<>>]
  /\ state = [n \in Nodes |-> "open"]
  /\ received = [s \in Sockets |-> <<>>]
  /\ sent = 0 /\ faults = 0
-----------------------------------------------------------------------------
(* The registry of a node *)

\* register(): whoever was connected is forgotten.
Register(n, room) ==
  /\ connections' = [connections EXCEPT ![n] = [r \in DOMAIN @ \cup {room} |-> IF r = room THEN {} ELSE @[r]]]
  /\ UNCHANGED <<held, subscription, outbox, inbox, state, received, sent, faults>>

\* A handshake for a room with a handler, and addConnection().
AddConnection(s) ==
  LET n == Home[s].node room == Home[s].room
  IN /\ s \notin held /\ room \in DOMAIN connections[n]
     /\ held' = held \cup {s}
     /\ connections' = [connections EXCEPT ![n][room] = @ \cup {s}]
     /\ UNCHANGED <<subscription, outbox, inbox, state, received, sent, faults>>

\* The close event: removeConnection().
RemoveConnection(s) ==
  LET n == Home[s].node room == Home[s].room
  IN /\ s \in held
     /\ held' = held \ {s}
     /\ connections' = [connections EXCEPT ![n][room] = @ \ {s}]
     /\ UNCHANGED <<subscription, outbox, inbox, state, received, sent, faults>>

\* Whom broadcast(room) or, for Everywhere, broadcastAll() of node n sends to.
Audience(n, room, exclude) ==
  (UNION {connections[n][r] : r \in IF room = Everywhere THEN DOMAIN connections[n]
                                    ELSE {room} \cap DOMAIN connections[n]}) \ {exclude}

Deliver(n, message) ==
  [s \in Sockets |-> IF s \in Audience(n, message.room, message.exclude)
                     THEN Append(received[s], message) ELSE received[s]]
-----------------------------------------------------------------------------
(* The adapter *)

\* subscribePath(): the channel is marked before the command is answered, and a marked
\* channel is nobody's concern any more.
SubscribePath(n, room) ==
  /\ \/ /\ room \in marked[n]
        /\ promised' = [promised EXCEPT ![n] = @ \cup {room}]
        /\ excused' = IF \E i \in DOMAIN commands[n] : room \in commands[n][i].channels
                      THEN [excused EXCEPT ![n] = @ \cup {room}] ELSE excused
        /\ UNCHANGED <<marked, commands>>
     \/ /\ room \notin marked[n]
        /\ marked' = [marked EXCEPT ![n] = @ \cup {room}]
        /\ IF state[n] = "closed"  \* the client is at its end: it refuses
           THEN excused' = [excused EXCEPT ![n] = @ \cup {room}] /\ UNCHANGED commands
           ELSE /\ commands' = [commands EXCEPT ![n] = Append(@, [op |-> "subscribe", channels |-> {room}])]
                /\ UNCHANGED excused
        /\ UNCHANGED promised
  /\ UNCHANGED <<connections, held, subscribed, confirmed, outbox, inbox, state, received, sent, faults>>

\* broadcast() and broadcastAll(): the node's own sockets at once, then Redis.
Broadcast(n, room, exclude) ==
  /\ state[n] = "open" /\ sent < MaxSent
  /\ LET message == [from |-> n, room |-> room, exclude |-> exclude, number |-> sent + 1]
     IN /\ received' = Deliver(n, message)
        /\ outbox' = [outbox EXCEPT ![n] = Append(@, message)]
  /\ sent' = sent + 1
  /\ UNCHANGED <<connections, held, subscription, inbox, state, faults>>

\* Mutated form: what the node sent itself is delivered again.
HandleEcho(n) ==
  /\ inbox[n] # <<>>
  /\ inbox' = [inbox EXCEPT ![n] = Tail(@)]
  /\ received' = Deliver(n, Head(inbox[n]))
  /\ UNCHANGED <<connections, held, subscription, outbox, state, sent, faults>>

\* handleRedisMessage(): the node's own messages come back and are skipped.
HandleRedisMessage(n) ==
  /\ inbox[n] # <<>>
  /\ inbox' = [inbox EXCEPT ![n] = Tail(@)]
  /\ received' = IF Head(inbox[n]).from = n THEN received ELSE Deliver(n, Head(inbox[n]))
  /\ UNCHANGED <<connections, held, subscription, outbox, state, sent, faults>>

\* close(): one command for every marked channel; when it is answered, the list is
\* cleared and the adapter's own clients quit.
Close(n) ==
  /\ state[n] = "open"
  /\ state' = [state EXCEPT ![n] = "closing"]
  /\ commands' = [commands EXCEPT ![n] = Append(@, [op |-> "unsubscribe", channels |-> marked[n]])]
  /\ UNCHANGED <<connections, held, marked, subscribed, confirmed, promised, excused, outbox, inbox,
                 received, sent, faults>>
-----------------------------------------------------------------------------
(* Redis and its clients *)

Pending(n) == Head(commands[n])

\* An answered subscribe; the caller of subscribePath() goes on.
Subscribed(n) ==
  /\ commands[n] # <<>> /\ Pending(n).op = "subscribe"
  /\ commands' = [commands EXCEPT ![n] = Tail(@)]
  /\ subscribed' = [subscribed EXCEPT ![n] = @ \cup Pending(n).channels]
  /\ confirmed' = [confirmed EXCEPT ![n] = @ \cup Pending(n).channels]
  /\ promised' = [promised EXCEPT ![n] = @ \cup Pending(n).channels]
  /\ excused' = [excused EXCEPT ![n] = @ \ Pending(n).channels]
  /\ UNCHANGED <<connections, held, marked, outbox, inbox, state, received, sent, faults>>

\* A refused subscribe: the caller's promise rejects, and the mark stays.
Refused(n) ==
  /\ commands[n] # <<>> /\ Pending(n).op = "subscribe" /\ faults < MaxFaults
  /\ commands' = [commands EXCEPT ![n] = Tail(@)]
  /\ excused' = [excused EXCEPT ![n] = @ \cup Pending(n).channels]
  /\ faults' = faults + 1
  /\ UNCHANGED <<connections, held, marked, subscribed, confirmed, promised, outbox, inbox, state,
                 received, sent>>

\* The answer to close()'s unsubscribe; quit() ends both clients, after what they have
\* published.
Unsubscribed(n) ==
  /\ commands[n] # <<>> /\ Pending(n).op = "unsubscribe" /\ outbox[n] = <<>> /\ inbox[n] = <<>>
  /\ commands' = [commands EXCEPT ![n] = <<>>]
  /\ subscribed' = [subscribed EXCEPT ![n] = {}] /\ confirmed' = [confirmed EXCEPT ![n] = {}]
  /\ marked' = [marked EXCEPT ![n] = {}]
  /\ state' = [state EXCEPT ![n] = "closed"]
  /\ UNCHANGED <<connections, held, promised, excused, outbox, inbox, received, sent, faults>>

\* Redis takes a published message to every node subscribed to its channel.
Publish(n) ==
  /\ outbox[n] # <<>>
  /\ outbox' = [outbox EXCEPT ![n] = Tail(@)]
  /\ inbox' = [m \in Nodes |-> IF Head(outbox[n]).room \in subscribed[m]
                               THEN Append(inbox[m], Head(outbox[n])) ELSE inbox[m]]
  /\ UNCHANGED <<connections, held, subscription, state, received, sent, faults>>

\* The subscriber's connection is lost, with what Redis had sent; later it is back.
LoseConnection(n) ==
  /\ state[n] # "closed" /\ subscribed[n] # {} /\ faults < MaxFaults
  /\ faults' = faults + 1
  /\ subscribed' = [subscribed EXCEPT ![n] = {}]
  /\ \E k \in 0..Len(inbox[n]) : inbox' = [inbox EXCEPT ![n] = SubSeq(@, 1, k)]
  /\ UNCHANGED <<connections, held, marked, commands, confirmed, promised, excused, outbox, state, received, sent>>

Reconnect(n) ==
  /\ subscribed[n] # confirmed[n]
  /\ subscribed' = [subscribed EXCEPT ![n] = confirmed[n]]
  /\ UNCHANGED <<connections, held, marked, commands, confirmed, promised, excused, outbox, inbox,
                 state, received, sent, faults>>

BridgeNext ==
  \/ \E n \in Nodes \ Steady :
       \/ \E room \in Rooms : Register(n, room) \/ SubscribePath(n, room)
       \/ Close(n) \/ Subscribed(n) \/ Refused(n) \/ Unsubscribed(n) \/ LoseConnection(n) \/ Reconnect(n)
  \/ \E n \in Nodes :
       \/ \E room \in Channels, exclude \in held \cup {NoSocket} : n \in Senders /\ Broadcast(n, room, exclude)
       \/ HandleRedisMessage(n) \/ Publish(n)
  \/ \E s \in Sockets : Home[s].node \notin Steady /\ (AddConnection(s) \/ RemoveConnection(s))

BridgeSpec == BridgeInit /\ [][BridgeNext]_bridgeVars
-----------------------------------------------------------------------------
\* The messages of each sender, as far as they are in `messages`, are in its order.
SenderOrder(messages) ==
  \A i, j \in DOMAIN messages :
    i < j /\ messages[i].from = messages[j].from => messages[i].number < messages[j].number

\* However commands, messages and reconnections interleave, a socket gets the broadcasts
\* of a node in the order the node made them and none twice, only of its own room or of
\* all rooms, and never one that excludes it.
InOrderOnce ==
  \A s \in Sockets :
    /\ SenderOrder(received[s])
    /\ \A i \in DOMAIN received[s] : /\ received[s][i].room \in {Home[s].room, Everywhere}
                                     /\ received[s][i].exclude # s

\* When a call of subscribePath() has returned, the node gets what is published on the
\* path for as long as the adapter is open and its connection stands; except when an
\* earlier subscribe for the path was refused, or was not yet answered, which the second
\* caller is not told.
ListeningAsPromised ==
  \A n \in Nodes : state[n] = "open" => promised[n] \ excused[n] \subseteq confirmed[n]

\* The bridge listens where it said it does, and passes on in order and once.
BridgeSound == InOrderOnce /\ ListeningAsPromised

\* The inductive invariant behind it, in three parts that share no variable.  Sockets are
\* registered where their home is.
AtHome ==
  /\ connections \in [Nodes -> UNION {[R -> SUBSET Sockets] : R \in SUBSET Rooms}]
  /\ held \subseteq Sockets
  /\ \A n \in Nodes : \A r \in DOMAIN connections[n] : connections[n][r] \subseteq SocketsAt(n, r)

\* What a sender has still to publish is newer than all that is on its way from it, and
\* that is newer than what was received of it, except by its own sockets.
BroadcastMessage == [from : Nodes, room : Channels, exclude : Sockets \cup {NoSocket}, number : Nat]

Newer(later, earlier, n) ==
  \A i \in DOMAIN later, k \in DOMAIN earlier :
    later[i].from = n /\ earlier[k].from = n => earlier[k].number < later[i].number

Issued(messages) == messages \in Seq(BroadcastMessage) /\ \A i \in DOMAIN messages : messages[i].number <= sent

OnTheWay ==
  \A n \in Nodes : /\ Issued(outbox[n]) /\ \A i \in DOMAIN outbox[n] : outbox[n][i].from = n
                  /\ Issued(inbox[n]) /\ SenderOrder(outbox[n]) /\ SenderOrder(inbox[n])
                  /\ \A m \in Nodes : Newer(outbox[n], inbox[m], n)

Arrived ==
  \A s \in Sockets :
    /\ Issued(received[s])
    /\ \A n \in Nodes \ {Home[s].node} : /\ Newer(outbox[n], received[s], n)
                                         /\ Newer(inbox[Home[s].node], received[s], n)

Passed == /\ sent \in Nat /\ DOMAIN outbox = Nodes /\ DOMAIN inbox = Nodes /\ DOMAIN received = Sockets
          /\ OnTheWay /\ Arrived /\ InOrderOnce

\* A marked channel is confirmed, or a command for it is pending.
MarkedIsPending ==
  \A n \in Nodes : state[n] = "open" =>
    \A r \in marked[n] \ excused[n] :
      r \in confirmed[n] \/ \E i \in DOMAIN commands[n] : r \in commands[n][i].channels

Listening ==
  /\ {marked, confirmed, promised, excused} \subseteq [Nodes -> SUBSET Channels]
  /\ commands \in [Nodes -> Seq([op : {"subscribe", "unsubscribe"}, channels : SUBSET Channels])]
  /\ state \in [Nodes -> {"open", "closing", "closed"}]
  /\ MarkedIsPending /\ ListeningAsPromised

BridgeInv == AtHome /\ Passed /\ Listening
=============================================================================
