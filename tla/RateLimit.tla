------------------------------- MODULE RateLimit -------------------------------
(***************************************************************************)
(* The fixed-window limiter of rate-limit/src: the hook, the default key   *)
(* generator behind proxies, and both stores, MemoryRateLimitStore and the *)
(* Redis script of redis.ts.  increment() is atomic in both.               *)
(*                                                                         *)
(* A client is an address.  A request comes through the declared proxies,  *)
(* so its X-Forwarded-For holds whatever the client had put there, then    *)
(* the client's address, then the proxies the request passed; or it comes  *)
(* directly, and then req.ip is the client's address.                      *)
(***************************************************************************)
EXTENDS Integers, SequencesExt, FiniteSets

CONSTANTS Clients,    \* addresses of clients
          Proxies,    \* addresses the deployment declares as its own
          Text,       \* an entry that is not an address
          Anonymous,  \* ANONYMOUS_KEY
          Hops,       \* trustedProxyHops
          Limit,      \* max
          Window,     \* window, in ticks
          MaxKeys,    \* maxKeys
          ScanLimit,  \* EVICTION_SCAN_LIMIT
          Second,     \* ticks per second
          MaxCount,   \* bound: requests counted in one window
          LastTick    \* bound: clock ticks

ASSUME LimitAssumption ==
  /\ IsFiniteSet(Clients) /\ Clients \cap Proxies = {}
  /\ {Text, Anonymous} \cap (Clients \cup Proxies) = {} /\ Text # Anonymous
  /\ {Hops, Limit, Window, MaxKeys, ScanLimit, Second} \subseteq Nat \ {0}
  /\ {MaxCount, LastTick} \subseteq Nat

VARIABLES mode,      \* "proxies" (trustedProxies) or "hops" (trustProxy)
          backend,   \* "memory" or "redis"
          entries,   \* the counters: in the order of the Map, in Redis in any order
          tick,      \* the clock
          pending,   \* pending[c]: the refusal that increment() has ready for c: when the
                     \* window ends in memory, how long it lasts from Redis
          retryAt,   \* retryAt[c]: when a Retry-After told c to come back
          admitted,  \* history: admitted[c]: when the last requests of c went through,
                     \* since its counter was lost
          refusal,   \* history: refusal[c]: the end of the window c was refused in
          fate       \* history: fate[c]: what became of the counter of c

limitVars == <<mode, backend, entries, tick, pending, retryAt, admitted, refusal, fate>>

Recent == 2 * Limit + 1       \* how many admissions the history keeps
None == -1
NoTtl == 0                    \* resetAt of a counter without expiry, in Redis

LimitTypeOK ==
  /\ mode \in {"proxies", "hops"} /\ backend \in {"memory", "redis"}
  /\ \A i \in DOMAIN entries : entries[i] \in [key : Clients \cup Proxies \cup {Anonymous},
                                               count : Nat \ {0}, resetAt : Nat]
  /\ tick \in 1..LastTick
  /\ pending \in [Clients -> Nat \cup {None}]
  /\ retryAt \in [Clients -> Nat] /\ refusal \in [Clients -> Nat]
  /\ \A c \in Clients : Len(admitted[c]) <= Recent
  /\ fate \in [Clients -> {"kept", "evicted", "crowded", "leftover"}]

Counter(counters, k) == counters[CHOOSE i \in DOMAIN counters : counters[i].key = k]
Counted(counters, k) == \E i \in DOMAIN counters : counters[i].key = k

\* Redis may hold counters without a TTL, left there by something else.
LimitInit ==
  /\ mode \in {"proxies", "hops"}
  /\ \/ backend = "memory" /\ entries = <<>>
     \/ /\ backend = "redis"
        /\ entries \in {<<>>} \cup {<<[key |-> c, count |-> Limit, resetAt |-> NoTtl]>> : c \in Clients}
  /\ tick = 1 /\ pending = [c \in Clients |-> None]
  /\ retryAt = [c \in Clients |-> 0] /\ refusal = [c \in Clients |-> 0]
  /\ admitted = [c \in Clients |-> <<>>]
  /\ fate = [c \in Clients |-> IF Counted(entries, c) THEN "leftover" ELSE "kept"]
-----------------------------------------------------------------------------
(* The key of a request *)

CanonicalizeIp(entry) == IF entry = Text THEN Anonymous ELSE entry

\* The rightmost entry that is none of our proxies; Anonymous stands for null.
ClientIpFromTrustedProxies(xff) ==
  LET hops == {i \in DOMAIN xff : xff[i] \notin Proxies}
  IN IF hops = {} THEN Anonymous
     ELSE CanonicalizeIp(xff[CHOOSE i \in hops : \A j \in hops : j <= i])

\* Mutated form: the leftmost entry, which the client writes.
ClientIpLeftmost(xff) ==
  IF Len(xff) < Hops THEN Anonymous ELSE CanonicalizeIp(xff[1])

ClientIpFromHopCount(xff) ==
  IF Len(xff) < Hops THEN Anonymous ELSE CanonicalizeIp(xff[Len(xff) - Hops + 1])

\* `peer` is req.ip, the other end of the connection.
KeyGenerator(xff, peer) ==
  LET fromXff == IF mode = "proxies" THEN ClientIpFromTrustedProxies(xff)
                 ELSE ClientIpFromHopCount(xff)
  IN IF fromXff # Anonymous THEN fromXff ELSE CanonicalizeIp(peer)
-----------------------------------------------------------------------------
(* The stores *)

\* Map.delete(): a key stands at one place.
Without(counters, k) ==
  IF Counted(counters, k) THEN RemoveAt(counters, CHOOSE i \in DOMAIN counters : counters[i].key = k) ELSE counters
CountUp(counters, k) ==
  [i \in DOMAIN counters |-> IF counters[i].key = k THEN [counters[i] EXCEPT !.count = @ + 1]
                             ELSE counters[i]]
FreshWindow(counters, k, count) ==
  Append(Without(counters, k), [key |-> k, count |-> count, resetAt |-> tick + Window])

Lapsed(e) == e.resetAt <= tick
Weaker(e, f) == e.count < f.count \/ (e.count = f.count /\ e.resetAt < f.resetAt)

Scanned == {i \in DOMAIN entries : i <= ScanLimit}
FirstOf(S) == CHOOSE i \in S : \A j \in S : i <= j

\* Mutated form: the counter inserted first goes.
EvictOldest == Tail(entries)

\* The first scanned counter that has lapsed, or else the weakest of those scanned.
EvictOne ==
  LET lapsed == {i \in Scanned : Lapsed(entries[i])}
      weakest == {i \in Scanned : \A j \in Scanned : ~Weaker(entries[j], entries[i])}
      victim == FirstOf(IF lapsed # {} THEN lapsed ELSE weakest)
  IN RemoveAt(entries, victim)

MemoryIncrement(k) ==
  IF Counted(entries, k) /\ ~Lapsed(Counter(entries, k)) THEN CountUp(entries, k)
  ELSE FreshWindow(IF ~Counted(entries, k) /\ Len(entries) >= MaxKeys THEN EvictOne ELSE entries, k, 1)

\* INCREMENT_SCRIPT.  A Redis key with a TTL lives through the tick it expires at.
RedisIncrement(k) ==
  IF ~Counted(entries, k) THEN FreshWindow(entries, k, 1)
  ELSE LET counter == Counter(entries, k)
       IN CASE counter.resetAt = NoTtl -> FreshWindow(entries, k, counter.count + 1)
            [] counter.resetAt # NoTtl /\ counter.resetAt < tick -> FreshWindow(entries, k, 1)
            [] OTHER -> CountUp(entries, k)

Increment(k) == IF backend = "memory" THEN MemoryIncrement(k) ELSE RedisIncrement(k)
-----------------------------------------------------------------------------
(* The hook *)

Headers == UNION {[1..n -> Clients \cup Proxies \cup {Text}] : n \in 0..1}

\* The proxies append: in front of the client's address stands what it sent itself.
ThroughProxies(c, sent) ==
  IF mode = "proxies" THEN {sent \o <<c>> \o passed : passed \in {<<>>} \cup {<<p>> : p \in Proxies}}
  ELSE {sent \o <<c>> \o passed : passed \in [1..(Hops - 1) -> Proxies]}

LastOf(times) == IF Len(times) <= Recent THEN times ELSE Tail(times)

\* The clients whose running window a step from `entries` to `counters` ends.
Deprived(counters) == {v \in Clients : /\ Counted(entries, v) /\ ~Lapsed(Counter(entries, v))
                                       /\ ~Counted(counters, v)}
Fewer(a, b) == IF a < b THEN a ELSE b
Crowded(v) ==
  Cardinality({i \in DOMAIN entries : /\ entries[i].key # v /\ ~Lapsed(entries[i])
                                      /\ entries[i].count > Limit}) >= Fewer(ScanLimit, MaxKeys) - 1
Lost(v) == IF Crowded(v) THEN "crowded" ELSE "evicted"

Count(c, k) ==
  LET counters == Increment(k)
      result == Counter(counters, k)
      through == result.count <= Limit
      anew == through /\ fate[c] # "kept"
  IN /\ pending[c] = None /\ result.count <= MaxCount
     /\ entries' = counters
     /\ pending' = [pending EXCEPT ![c] = CASE through -> None
                                            [] ~through /\ backend = "memory" -> result.resetAt
                                            [] OTHER -> result.resetAt - tick]
     /\ retryAt' = [retryAt EXCEPT ![c] = 0]
     /\ admitted' = [admitted EXCEPT ![c] = CASE ~through -> @
                                              [] anew -> <<tick>>
                                              [] OTHER -> LastOf(Append(@, tick))]
     /\ refusal' = [refusal EXCEPT ![c] = CASE ~through -> result.resetAt
                                            [] anew -> 0
                                            [] OTHER -> @]
     /\ fate' = [v \in Clients |->
          CASE v \in Deprived(counters) -> Lost(v)
            [] v = c /\ anew -> "kept"
            [] OTHER -> fate[v]]
     /\ UNCHANGED <<mode, backend, tick>>

\* A request through the proxies, or a direct one.
KeysOf(c) == {KeyGenerator(xff, p) : xff \in UNION {ThroughProxies(c, sent) : sent \in Headers},
                                     p \in Proxies}
             \cup {KeyGenerator(<<>>, c)}

Request(c) == \E k \in KeysOf(c) : Count(c, k)

\* Math.max(1, Math.ceil(...)), in seconds.
RetryAfter(resetAt) ==
  LET wait == (resetAt - tick + Second - 1) \div Second
  IN IF wait < 1 THEN 1 ELSE wait

\* A proxy asks on its own behalf (a health check): its counter takes up room.
OwnRequest(p) ==
  LET k == KeyGenerator(<<>>, p)
      counters == Increment(k)
  IN /\ Counter(counters, k).count <= MaxCount
     /\ entries' = counters
     /\ fate' = [v \in Clients |->
          IF v \in Deprived(counters) THEN Lost(v) ELSE fate[v]]
     /\ UNCHANGED <<mode, backend, tick, pending, retryAt, admitted, refusal>>

\* increment() has answered a refused request: 429 with Retry-After.
Refuse(c) ==
  LET resetAt == IF backend = "memory" THEN pending[c] ELSE tick + pending[c]
  IN /\ pending[c] # None
     /\ pending' = [pending EXCEPT ![c] = None]
     /\ retryAt' = [retryAt EXCEPT ![c] = tick + RetryAfter(resetAt) * Second]
     /\ UNCHANGED <<mode, backend, entries, tick, admitted, refusal, fate>>

LimitTick ==
  /\ tick < LastTick /\ tick' = tick + 1
  /\ UNCHANGED <<mode, backend, entries, pending, retryAt, admitted, refusal, fate>>

\* The counters at these places, in their order: there is one such sequence.
AtPlaces(counters, places) ==
  {[n \in DOMAIN order |-> counters[order[n]]] :
     order \in {o \in SetToSeqs(places) : \A m, n \in DOMAIN o : m < n => o[m] < o[n]}}

\* The cleanup interval; how it falls between the ticks does not matter.
LimitSweep ==
  /\ backend = "memory"
  /\ entries' \in AtPlaces(entries, {i \in DOMAIN entries : ~Lapsed(entries[i])})
  /\ UNCHANGED <<mode, backend, tick, pending, retryAt, admitted, refusal, fate>>

LimitNext == \/ \E c \in Clients : Request(c) \/ Refuse(c)
             \/ \E p \in Proxies : OwnRequest(p)
             \/ LimitTick \/ LimitSweep

LimitSpec == LimitInit /\ [][LimitNext]_limitVars
-----------------------------------------------------------------------------
\* Of 2 * Limit + 1 requests of one client that go through, the last comes at least a
\* window after the first, whatever the client sends as X-Forwarded-For: a fixed
\* window lets through twice its limit at most, unless the client's counter was lost.
WindowBound ==
  \A c \in Clients :
    Len(admitted[c]) = Recent => admitted[c][Recent] - admitted[c][1] >= Window

\* Whoever is refused has used up the limit itself within the window, unless Redis
\* held a counter for it from elsewhere, and Retry-After leads to the next window.
RefusalSound(c) ==
  /\ pending[c] # None /\ fate[c] # "leftover" =>
       Cardinality({i \in DOMAIN admitted[c] : admitted[c][i] >= refusal[c] - Window}) >= Limit
  /\ retryAt[c] # 0 => retryAt[c] >= refusal[c]

RefusalsAreSound == \A c \in Clients : RefusalSound(c)

\* The limiter lets through no more than it may and refuses nobody below the limit.
LimiterSound == WindowBound /\ RefusalsAreSound

\* A client that was refused is let through before its window ends only if its counter
\* was evicted while all the others scanned were those of refused clients too.
PardonNeedsCrowd ==
  [][\A c \in Clients : admitted'[c] # admitted[c] /\ tick < refusal[c] => fate[c] = "crowded"]_limitVars
-----------------------------------------------------------------------------
\* The inductive invariant behind the three.  A key has one counter; those without an end
\* were left over in Redis.
CountersSound ==
  /\ entries \in Seq([key : Clients \cup Proxies, count : Nat \ {0}, resetAt : Nat])
  /\ \A i, j \in DOMAIN entries : entries[i].key = entries[j].key => i = j
  /\ \A i \in DOMAIN entries : entries[i].resetAt = NoTtl =>
       backend = "redis" /\ entries[i].key \in Clients /\ fate[entries[i].key] = "leftover"

\* Each admission fell in a window, which `start` says; no two windows overlap, and no
\* window had more admissions than the limit.
Spaced(times, start) ==
  /\ \A i \in DOMAIN times : start[i] <= times[i]
  /\ \A i, j \in DOMAIN times : i < j =>
       start[i] = start[j] \/ (times[i] <= start[j] /\ start[i] + Window <= start[j])
  /\ \A i \in DOMAIN times : i + Limit <= Len(times) => start[i] # start[i + Limit]

\* The last n were the admissions of the window that ends at resetAt.
EndsIn(times, start, n, resetAt) ==
  /\ Len(times) >= n /\ resetAt = start[Len(times)] + Window
  /\ \A i \in DOMAIN times : start[i] = start[Len(times)] <=> i > Len(times) - n

\* The last window of a client whose counter was not lost is that of the counter.
InWindows(c, start) ==
  LET times == admitted[c]
      counter == Counter(entries, c)
  IN /\ Spaced(times, start)
     /\ fate[c] = "kept" =>
          IF Counted(entries, c) THEN EndsIn(times, start, Fewer(counter.count, Limit), counter.resetAt)
          ELSE times # <<>> => start[Len(times)] + Window <= tick

HistorySound(c) ==
  /\ Len(admitted[c]) <= Recent /\ \A i \in DOMAIN admitted[c] : admitted[c][i] <= tick
  /\ \E start \in [DOMAIN admitted[c] -> Nat] : InWindows(c, start)
  /\ fate[c] \in {"evicted", "crowded"} => ~Counted(entries, c)
  /\ fate[c] = "leftover" => /\ backend = "redis" /\ admitted[c] = <<>> /\ Counted(entries, c)
                             /\ Counter(entries, c).count >= Limit
                             /\ Counter(entries, c).resetAt # NoTtl => Counter(entries, c).count > Limit

\* A window a client was refused in goes on, unless its counter was crowded out.
RefusalHolds(c) ==
  /\ tick < refusal[c] => \/ fate[c] = "crowded"
                          \/ /\ Counted(entries, c) /\ Counter(entries, c).count > Limit
                             /\ Counter(entries, c).resetAt = refusal[c]
  /\ pending[c] # None => IF backend = "memory" THEN pending[c] = refusal[c] ELSE tick + pending[c] >= refusal[c]

LimitInv ==
  /\ mode \in {"proxies", "hops"} /\ backend \in {"memory", "redis"} /\ tick \in Nat
  /\ pending \in [Clients -> Nat \cup {None}] /\ retryAt \in [Clients -> Nat] /\ refusal \in [Clients -> Nat]
  /\ admitted \in [Clients -> Seq(Nat)]
  /\ fate \in [Clients -> {"kept", "evicted", "crowded", "leftover"}]
  /\ CountersSound /\ \A c \in Clients : HistorySound(c) /\ RefusalHolds(c) /\ RefusalSound(c)
=============================================================================
