------------------------------ MODULE EdgeRouter ------------------------------
(***************************************************************************)
(* The edge router (packages/edge-router): a table of routes that is       *)
(* replaced at runtime, and the first-in-first-out cache of its matches.   *)
(* Reading the body of an update is an await: requests and other updates   *)
(* go on meanwhile.  A path is its segments; the pattern's tokens are      *)
(* whole segments, with at most one wildcard.                              *)
(***************************************************************************)
EXTENDS Integers, Sequences, SequencesExt

CONSTANTS EdgeTables,    \* bodies of updates, and config.routes: sequences of entries
          EdgePaths,     \* paths asked for
          EdgeMethods,   \* methods they are asked with
          Internal,      \* origins isInternalUrl() recognizes
          BadEscape,     \* a segment decodeURIComponent() throws on
          Updaters,      \* updates under way at once
          MaxCacheSize,  \* MAX_CACHE_SIZE
          MaxUpdates,    \* bound: updates begun
          MaxAsked       \* bound: requests routed between two updates

ASSUME EdgeAssumption == MaxCacheSize \in Nat \ {0}

VARIABLES routes,      \* the table
          matchCache,  \* matchCache[key], for the keys in it
          cacheKeys,   \* its keys, oldest first
          updating,    \* updating[u]: the body an update is reading, or <<>>
          updated,     \* updates begun
          asked        \* requests since the table was last replaced

edgeVars == <<routes, matchCache, cacheKeys, updating, updated, asked>>

EdgeEntry(pattern, methods, origin) == [pattern |-> pattern, methods |-> methods, origin |-> origin]
NoRoute == EdgeEntry(<<>>, {}, "none")
-----------------------------------------------------------------------------
(* Matching *)

IsParam(token) == token = ":"
IsWildcard(token) == token = "*"

\* What token i spans: a wildcard takes what the others leave, at least one segment.
Span(pattern, path, i) ==
  LET more == Len(path) - Len(pattern)
      before == \E k \in 1..(i - 1) : IsWildcard(pattern[k])
      from == IF before THEN i + more ELSE i
  IN SubSeq(path, from, IF IsWildcard(pattern[i]) THEN from + more ELSE from)

\* compileRoute(): the path matches the pattern's expression.
Matches(pattern, path) ==
  /\ IF \E i \in DOMAIN pattern : IsWildcard(pattern[i]) THEN Len(path) >= Len(pattern) ELSE Len(path) = Len(pattern)
  /\ \A i \in DOMAIN pattern :
       \/ IsWildcard(pattern[i])
       \/ IsParam(pattern[i]) /\ Span(pattern, path, i) # <<"">>
       \/ Span(pattern, path, i) = <<pattern[i]>>

\* Its groups are counted from the left, the wildcard's included: the parameters take the
\* first of them.
Decoded(pattern, path) ==
  LET groups == SelectSeq([i \in DOMAIN pattern |-> i], LAMBDA i : IsParam(pattern[i]) \/ IsWildcard(pattern[i]))
      params == SelectSeq(pattern, IsParam)
  IN [k \in DOMAIN params |-> Span(pattern, path, groups[k])]

Allows(entry, method) == method \in entry.methods \/ "*" \in entry.methods

\* matchRoute(): the first entry that allows the method and matches.
MatchRoute(table, path, method) ==
  LET hits == SelectSeq(table, LAMBDA e : Allows(e, method) /\ Matches(e.pattern, path))
  IN IF hits = <<>> THEN NoRoute ELSE hits[1]

\* A parameter it cannot decode makes it throw.
MatchThrows(table, path, method) ==
  LET entry == MatchRoute(table, path, method)
  IN entry # NoRoute /\ \E k \in DOMAIN Decoded(entry.pattern, path) :
                          BadEscape \in Range(Decoded(entry.pattern, path)[k])

\* validateRouteEntry() of every entry, as far as the origins differ; the configured routes
\* are not validated.
ValidTable(table) == \A i \in DOMAIN table : table[i].origin \notin Internal
-----------------------------------------------------------------------------
EdgeInit ==
  /\ routes \in EdgeTables
  /\ matchCache = <<>> /\ cacheKeys = <<>>
  /\ updating = [u \in Updaters |-> <<>>]
  /\ updated = 0 /\ asked = 0

\* RouteCache.set() of a key it does not have.
Remembered(key, entry) ==
  LET full == Len(cacheKeys) >= MaxCacheSize
      kept == IF full THEN Tail(cacheKeys) ELSE cacheKeys
  IN /\ cacheKeys' = Append(kept, key)
     /\ matchCache' = [k \in Range(kept) \cup {key} |-> IF k = key THEN entry ELSE matchCache[k]]

\* fetch() up to proxyRequest(), which has no await: a miss is cached like a match; a match
\* whose parameters cannot be decoded throws and is not.
Route(method, path) ==
  LET key == <<method, path>>
      entry == MatchRoute(routes, path, method)
  IN /\ asked < MaxAsked /\ asked' = asked + 1
     /\ IF key \in DOMAIN matchCache \/ MatchThrows(routes, path, method)
        THEN UNCHANGED <<matchCache, cacheKeys>> ELSE Remembered(key, entry)
     /\ UNCHANGED <<routes, updating, updated>>

\* Where proxyRequest() then sends the request, which refuses internal origins once more.
SentTo(method, path) ==
  LET key == <<method, path>>
      entry == IF key \in DOMAIN matchCache THEN matchCache[key] ELSE MatchRoute(routes, path, method)
  IN IF key \notin DOMAIN matchCache /\ MatchThrows(routes, path, method) THEN "throws"
     ELSE IF entry.origin \in Internal THEN "refused" ELSE entry.origin

\* POST /__routes with the right key: the body is awaited.
BeginUpdate(u, body) ==
  /\ updating[u] = <<>> /\ updated < MaxUpdates /\ updated' = updated + 1
  /\ updating' = [updating EXCEPT ![u] = <<body>>]
  /\ UNCHANGED <<routes, matchCache, cacheKeys, asked>>

\* Mutated form: the cache is left alone.
EndUpdateKeepingCache(u) ==
  /\ updating[u] # <<>>
  /\ updating' = [updating EXCEPT ![u] = <<>>]
  /\ IF ValidTable(updating[u][1]) THEN routes' = updating[u][1] /\ asked' = 0 ELSE UNCHANGED <<routes, asked>>
  /\ UNCHANGED <<matchCache, cacheKeys, updated>>

\* handleUpdateRoutes() goes on: the table is replaced as a whole and the cache cleared, or
\* one bad entry has it refused.
EndUpdate(u) ==
  /\ updating[u] # <<>>
  /\ updating' = [updating EXCEPT ![u] = <<>>]
  /\ IF ValidTable(updating[u][1])
     THEN routes' = updating[u][1] /\ matchCache' = <<>> /\ cacheKeys' = <<>> /\ asked' = 0
     ELSE UNCHANGED <<routes, matchCache, cacheKeys, asked>>
  /\ UNCHANGED updated

\* The body is no JSON, or has no routes.
BadUpdate(u) ==
  /\ updating[u] # <<>>
  /\ updating' = [updating EXCEPT ![u] = <<>>]
  /\ UNCHANGED <<routes, matchCache, cacheKeys, updated, asked>>

EdgeNext ==
  \/ \E method \in EdgeMethods, path \in EdgePaths : Route(method, path)
  \/ \E u \in Updaters : (\E body \in EdgeTables : BeginUpdate(u, body)) \/ EndUpdate(u) \/ BadUpdate(u)

EdgeSpec == EdgeInit /\ [][EdgeNext]_edgeVars
-----------------------------------------------------------------------------
\* Caching changes no answer: whatever was routed, evicted and updated before, a request is
\* sent where the first matching route of the table in force says; the queue of keys and the
\* map agree, within the limit.
CacheIsTransparent ==
  /\ DOMAIN matchCache = Range(cacheKeys) /\ IsInjective(cacheKeys) /\ Len(cacheKeys) <= MaxCacheSize
  /\ \A method \in EdgeMethods, path \in EdgePaths :
       LET first == MatchRoute(routes, path, method).origin
       IN SentTo(method, path) = IF MatchThrows(routes, path, method) THEN "throws"
                                 ELSE IF first \in Internal THEN "refused" ELSE first

\* The inductive invariant behind it: an entry of the cache is what the table in force
\* gives, and none is kept for a request that throws.
CacheInForce ==
  \A method \in EdgeMethods, path \in EdgePaths : <<method, path>> \in DOMAIN matchCache =>
    /\ matchCache[<<method, path>>] = MatchRoute(routes, path, method)
    /\ ~MatchThrows(routes, path, method)

EdgeInv ==
  /\ cacheKeys \in Seq(EdgeMethods \X EdgePaths) /\ DOMAIN updating = Updaters
  /\ DOMAIN matchCache = Range(cacheKeys) /\ IsInjective(cacheKeys) /\ Len(cacheKeys) <= MaxCacheSize
  /\ CacheInForce
=============================================================================
