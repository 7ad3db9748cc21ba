------------------------------ MODULE MCServices ------------------------------
(* TLC instance of the components that have no state in common with any other, in
   one run: a behaviour is one of any of them, and the variables of the others keep
   an initial value.  One tick of TaskLease stands for 125 ms, so the floor is 2.
   Clients and Handlers are the same model values, which nothing relates, for the
   sake of the symmetry.  Plugins are alike, so p1 may be the first to be registered. *)
EXTENDS MCCron, TaskLease, RateLimit, Sessions, Scopes, WsBridge, Sse, QueryMetrics, TLC

CONSTANTS a, p1, p2, n1, n2, s1, s2, lobby

VARIABLE component  \* whose behaviour this is

MCLeases == {1, 2, 3, 4, 5, 7, 9}
MCTimeouts == {1, 3, 6, 10}
MCSegments == {a}
MCPaths == {<<a>>}
MCNodes == {n1, n2}
OneNode == {n1}
MCSockets == {s1, s2}
MCHome == (s1 :> [node |-> n1, room |-> lobby]) @@ (s2 :> [node |-> n2, room |-> lobby])
MCRooms == {lobby}
Symmetry == Permutations(Clients)
InOrder == plugin'[p1].at = "absent" => plugin'[p2].at = "absent"

OneDelivery ==
  /\ lease = 9 /\ declared = 9 /\ canHeartbeat = FALSE /\ tokened = FALSE /\ timeout = 6
  /\ DeliveryInit
OneLimiter == mode = "hops" /\ backend = "memory" /\ LimitInit

ServicesInit ==
  /\ component \in {"cron", "delivery", "limiter", "sessions", "scopes", "bridge", "sse", "metrics"}
  /\ IF component = "delivery" THEN DeliveryInit ELSE OneDelivery
  /\ IF component = "limiter" THEN LimitInit ELSE OneLimiter
  /\ Init /\ SessionInit /\ ScopesInit /\ BridgeInit /\ SseInit /\ MetricsInit

Turn(name, Step, v) == IF component = name THEN Step ELSE UNCHANGED v

ServicesNext ==
  /\ UNCHANGED component
  /\ Turn("cron", Next, vars)
  /\ Turn("delivery", DeliveryNext, leaseVars)
  /\ Turn("limiter", LimitNext, limitVars)
  /\ Turn("sessions", SessionNext, sessionVars)
  /\ Turn("scopes", ScopesNext /\ InOrder, scopeVars)
  /\ Turn("bridge", BridgeNext, bridgeVars)
  /\ Turn("sse", SseNext, sseVars)
  /\ Turn("metrics", MetricsNext, metricVars)

ServicesSpec ==
  ServicesInit /\ [][ServicesNext]_<<component, vars, leaseVars, limitVars, sessionVars, scopeVars,
                                   bridgeVars, sseVars, metricVars>>
=============================================================================
