-------------------------------- MODULE Routing --------------------------------
(***************************************************************************)
(* The radix tree router: router.ts.  A path is the sequence of the pieces *)
(* between its slashes, "/a/" being <<"a", "">>; a URL pattern is the      *)
(* sequence of its segments.  A node of the tree is named by the way to    *)
(* it, with Param and Wild for the steps to paramChild and wildcardChild.  *)
(***************************************************************************)
EXTENDS Naturals, SequencesExt

CONSTANTS Methods,      \* of routes; without HEAD, which the app answers through GET
          GET, HEAD,    \* GET is one of them
          Patterns,     \* URL patterns: sequences of segments
          PathsAsked,   \* request paths: sequences of pieces
          Malformed,    \* a piece that does not decode
          Slashed,      \* a piece that decodes to a value with a separator
          MaxRegistered \* bound: routes

ASSUME RoutingAssumption == GET \in Methods /\ HEAD \notin Methods /\ MaxRegistered \in Nat

VARIABLES nodes,      \* nodes[n]: the names of its dynamic children, and its routes
          statics,    \* staticRoutes: the fast path
          registered, \* [method, pattern] of every route that addRoute() took
          lenient,    \* ignoreTrailingSlash
          strict      \* strictParams

routingVars == <<nodes, statics, registered, lenient, strict>>

None == "none"
Param == ":"
Wild == "*"
Dots == {".", ".."}

Segment(kind, name) == [kind |-> kind, name |-> name]

EmptyNode == [param |-> None, wildcard |-> None, routes |-> << >>]

RoutingInit ==
  /\ nodes = (<<>> :> EmptyNode) /\ statics = << >>
  /\ registered = {}
  /\ lenient \in BOOLEAN /\ strict \in BOOLEAN
-----------------------------------------------------------------------------
(* addRoute() *)

\* It looks at no segment after the first wildcard.
Effective(pattern) ==
  LET wild == {i \in DOMAIN pattern : pattern[i].kind = "wild"}
  IN IF wild = {} THEN pattern ELSE SubSeq(pattern, 1, CHOOSE i \in wild : \A j \in wild : i <= j)

Step(segment) ==
  CASE segment.kind = "static" -> segment.name [] segment.kind = "param" -> Param [] OTHER -> Wild

\* The node of the first i segments.
NodeOf(pattern, i) == [j \in 1..i |-> Step(pattern[j])]

\* The node with the names that a step to the child for `segment` leaves in it: the
\* first name stays.
Naming(node, segment) ==
  CASE segment.kind = "param" /\ node.param = None -> [node EXCEPT !.param = segment.name]
    [] segment.kind = "wild" /\ node.wildcard = None -> [node EXCEPT !.wildcard = segment.name]
    [] OTHER -> node

\* Mutated form: siblings may name a parameter differently.
AnyNames(pattern) == TRUE

\* At every position where the tree has a parameter, it has this pattern's name.
NamesAgree(pattern) ==
  \A i \in DOMAIN pattern :
    LET n == NodeOf(pattern, i - 1)
    IN pattern[i].kind = "param" /\ n \in DOMAIN nodes => nodes[n].param \in {None, pattern[i].name}

\* Whether it throws or not, it creates nothing before it throws: a conflict is at a
\* node that exists, and so do those above it.
AddRoute(method, url) ==
  LET pattern == Effective(url)
      node == NodeOf(pattern, Len(pattern))
      At(n) == IF n \in DOMAIN nodes THEN nodes[n] ELSE EmptyNode
      grown == [n \in DOMAIN nodes \cup {NodeOf(pattern, i) : i \in 0..Len(pattern)} |->
                 IF \E i \in DOMAIN pattern : n = NodeOf(pattern, i - 1)
                 THEN Naming(At(n), pattern[Len(n) + 1]) ELSE At(n)]
  IN /\ Cardinality(registered) < MaxRegistered
     /\ NamesAgree(pattern)
     /\ node \in DOMAIN nodes => method \notin DOMAIN nodes[node].routes
     /\ nodes' = [grown EXCEPT ![node].routes = (method :> url) @@ @]
     /\ statics' = IF \A i \in DOMAIN pattern : pattern[i].kind = "static"
                   THEN (<<node, method>> :> url) @@ statics ELSE statics
     /\ registered' = registered \cup {[method |-> method, url |-> url]}
     /\ UNCHANGED <<lenient, strict>>

RoutingNext == \E m \in Methods, url \in Patterns : AddRoute(m, url)

RoutingSpec == RoutingInit /\ [][RoutingNext]_routingVars
-----------------------------------------------------------------------------
(* Matching *)

\* canonicalizePath(): the segments, or <<None>> for an alias of another path.
Canonical(path) ==
  LET n == Len(path)
      slashed == n > 1 /\ path[n] = ""
      trimmed == IF slashed THEN SubSeq(path, 1, n - 1) ELSE path
  IN CASE path = <<"">> -> <<>>
       [] \E i \in 1..(n - 1) : path[i] = "" -> <<None>>
       [] slashed /\ ~lenient -> <<None>>
       [] \E i \in DOMAIN trimmed : trimmed[i] \in Dots -> <<None>>
       [] OTHER -> trimmed

Missed(params) == [kind |-> "none", node |-> <<>>, params |-> params]

\* matchNode() at the node n, whose depth is the index: a static child, then the
\* parameter, then the wildcard, each tried when the one before came back with nothing.
\* A segment is decoded on the way down, and a bad one ends the whole match.
RECURSIVE MatchNode(_, _, _, _)
MatchNode(n, segments, method, params) ==
  LET rest == SubSeq(segments, Len(n) + 1, Len(segments))
      Has(step) == Append(n, step) \in DOMAIN nodes
      Routed(node) == method \in DOMAIN nodes[node].routes
      static == IF Has(rest[1]) THEN MatchNode(Append(n, rest[1]), segments, method, params) ELSE Missed(params)
      name == nodes[n].param
      param == IF ~Has(Param) THEN static
               ELSE IF rest[1] = Malformed \/ (strict /\ rest[1] = Slashed) THEN [static EXCEPT !.kind = "error"]
               ELSE LET deeper == MatchNode(Append(n, Param), segments, method,
                                            (name :> <<rest[1]>>) @@ static.params)
                    IN IF deeper.kind # "none" THEN deeper
                       ELSE Missed([p \in DOMAIN deeper.params \ {name} |-> deeper.params[p]])
      wild == Append(n, Wild)
  IN CASE rest = <<>> -> IF Routed(n) THEN [kind |-> "found", node |-> n, params |-> params] ELSE Missed(params)
       [] rest # <<>> /\ static.kind # "none" -> static
       [] rest # <<>> /\ static.kind = "none" /\ param.kind # "none" -> param
       [] OTHER -> IF ~Has(Wild) \/ ~Routed(wild) THEN param
                   ELSE [kind |-> IF Contains(rest, Malformed) THEN "error" ELSE "found", node |-> wild,
                         params |-> (nodes[n].wildcard :> rest) @@ param.params]

\* match(): the fast path, then the tree.
Match(method, path) ==
  LET segments == Canonical(path)
  IN IF segments = <<None>> THEN Missed(<< >>)
     ELSE IF <<segments, method>> \in DOMAIN statics THEN [kind |-> "found", node |-> segments, params |-> << >>]
     ELSE MatchNode(<<>>, segments, method, << >>)

\* The nodes that _hasPath() and _collectMethods() end in: no wildcards.
Ends(segments) ==
  {n \in DOMAIN nodes : Len(n) = Len(segments) /\ \A i \in DOMAIN n : n[i] \in {segments[i], Param}}

AllowedMethods(path) ==
  LET segments == Canonical(path)
      found == IF segments = <<None>> THEN {}
               ELSE {m \in Methods : \/ <<segments, m>> \in DOMAIN statics
                                     \/ \E n \in Ends(segments) : m \in DOMAIN nodes[n].routes}
  IN found \cup (IF GET \in found THEN {HEAD} ELSE {})

HasPath(path) ==
  LET segments == Canonical(path)
  IN segments # <<None>> /\ \/ \E m \in Methods : <<segments, m>> \in DOMAIN statics
                            \/ \E n \in Ends(segments) : DOMAIN nodes[n].routes # {}
-----------------------------------------------------------------------------
(* What routes promise, without a tree *)

\* A pattern applies to segments: position by position, a wildcard to one or more.
Applies(pattern, segments) ==
  LET n == Len(pattern)
      wild == n > 0 /\ pattern[n].kind = "wild"
  IN /\ IF wild THEN Len(segments) >= n ELSE Len(segments) = n
     /\ \A i \in DOMAIN pattern : pattern[i].kind = "static" => pattern[i].name = segments[i]

Rank(kind) == CASE kind = "static" -> 1 [] kind = "param" -> 2 [] OTHER -> 3

\* p is more specific than q at the first position where they differ in kind.
MoreSpecific(p, q) ==
  \E i \in DOMAIN p \cap DOMAIN q : /\ Rank(p[i].kind) < Rank(q[i].kind)
                                    /\ \A j \in 1..(i - 1) : p[j].kind = q[j].kind

Candidates(method, segments) ==
  {r \in registered : r.method = method /\ Applies(Effective(r.url), segments)}

Best(method, segments) ==
  CHOOSE r \in Candidates(method, segments) : \A o \in Candidates(method, segments) \ {r} :
    MoreSpecific(Effective(r.url), Effective(o.url))

\* The values of a url's parameters; the name of its wildcard is the one in the node.
OwnParams(url, node, segments) ==
  LET pattern == Effective(url)
      dynamic == {i \in DOMAIN pattern : pattern[i].kind # "static"}
      Name(i) == IF pattern[i].kind = "param" THEN pattern[i].name ELSE nodes[SubSeq(node, 1, i - 1)].wildcard
  IN [name \in {Name(i) : i \in dynamic} |->
       LET i == CHOOSE j \in dynamic : Name(j) = name
       IN IF pattern[i].kind = "param" THEN <<segments[i]>> ELSE SubSeq(segments, i, Len(segments))]

\* Whatever the order of registration and whichever branches are tried in vain, a request
\* gets the most specific of the registered routes that apply to it, none when none does
\* or when the path is an alias, and its handler gets the values of the parameters the
\* route names, and no others.  Only a piece that does not decode is refused.
MostSpecificWins ==
  \A path \in PathsAsked, m \in Methods :
    LET segments == Canonical(path)
        got == Match(m, path)
    IN CASE got.kind = "none" -> segments = <<None>> \/ Candidates(m, segments) = {}
         [] got.kind = "error" -> {Malformed, Slashed} \cap ToSet(segments) # {}
         [] got.kind = "found" ->
              /\ Candidates(m, segments) # {}
              /\ nodes[got.node].routes[m] = Best(m, segments).url
              /\ got.params = OwnParams(Best(m, segments).url, got.node, segments)

\* The methods in the Allow header of a 405 are those with a route at the path that is no
\* wildcard, and HEAD beside GET; the app answers 405 and not 404 when there is one; and
\* a client that follows the header is given a route.
AllowTruthful ==
  \A path \in PathsAsked :
    LET segments == Canonical(path)
        exact == {r \in registered : /\ segments # <<None>> /\ Applies(r.url, segments)
                                     /\ \A i \in DOMAIN r.url : r.url[i].kind # "wild"}
        allowed == AllowedMethods(path)
    IN /\ allowed \ {HEAD} = {r.method : r \in exact}
       /\ HEAD \in allowed <=> GET \in allowed
       /\ HasPath(path) <=> allowed # {}
       /\ \A m \in allowed \ {HEAD} : Match(m, path).kind # "none"

\* A path that matches no route is not found, and never malformed: a segment is decoded
\* only once a route matches.
MalformedNeedsRoute ==
  \A path \in PathsAsked, m \in Methods :
    Match(m, path).kind = "error" => \E r \in registered : Applies(Effective(r.url), Canonical(path))

\* What the router finds, and what it says there is when it finds nothing.
RoutesSound == MostSpecificWins /\ AllowTruthful
=============================================================================
