------------------------------- MODULE MCProcess -------------------------------
(* TLC instance of more components that have no state in common, in one run, as
   MCServices is.  Requests share nothing: one is enough, with its two flows.  With a
   cap of one, three connections are enough for a slot released twice to let a second
   WebSocket in.  The queue has a job with one retry and one with none. *)
EXTENDS MemoryQueue, Requests, Server, Routing, Realms, EdgeRouter, Wire, Schema, Reply, Cookies, Body, Gates, MCPlatforms,
        BunSockets, AppWorker

CONSTANTS j1, j2, r1, c1, c2, c3

VARIABLE component  \* whose behaviour this is

MCJobs == {j1, j2}
MCMaxRetries == (j1 :> 1) @@ (j2 :> 0)
OneRequest == {r1}
ThreeConns == {c1, c2, c3}

\* Three routes out of patterns that meet at every node.
SegA == Segment("static", "a")
SegB == Segment("static", "b")
ParX == Segment("param", "x")
ParY == Segment("param", "y")
Rest(name) == Segment("wild", name)

MCPatterns == {<<>>, <<SegA>>, <<ParX>>, <<SegA, SegB>>, <<ParX, SegB>>, <<SegA, ParY>>, <<ParY, SegA>>,
               <<Rest("w")>>, <<ParX, Rest("v")>>, <<SegA, Rest("w")>>, <<Rest("v"), SegA>>}
MCPathsAsked == {<<"">>, <<"", "a">>, <<"a", ".">>, <<"a", "", "">>}
                  \cup {<<p>> : p \in {"a", "b", "%2F", "%"}}
                  \cup {<<p, q>> : p \in {"a", "c"}, q \in {"b", "c", "%", "%2F", ""}}
                  \cup {<<"a", "b", "c">>, <<"c", "b", "%">>}

Options(key, signs, iss, sub, lifetime, maxAge) ==
  [key |-> key, signs |-> signs, iss |-> iss, sub |-> sub, requireExp |-> lifetime # Forever,
   lifetime |-> lifetime, maxAge |-> maxAge]
MCRealmOptions == {Options("k1", TRUE, <<"i1", "i2">>, NoClaim, 1, Forever), Options("k2", TRUE, <<>>, NoClaim, 1, Forever),
                   Options("k1", FALSE, <<"i1">>, "user", Forever, 1)}

\* An exact route before a wildcard, one that takes over its path for another method, and
\* one configured with an internal origin.
AnyOfA == EdgeEntry(<<"a", "*">>, {"*"}, "two")
MCEdgeTables == {<<EdgeEntry(<<"a", ":">>, {"GET"}, "one"), AnyOfA>>,
                 <<EdgeEntry(<<"*", ":">>, {"POST"}, "three"), AnyOfA>>,
                 <<EdgeEntry(<<"a", "*">>, {"GET"}, "localhost")>>}
MCEdgePaths == {<<"a", "x">>, <<"a", "%">>, <<"b", "%", "x">>}

\* Every kind of call of four procedures, the guarded and unguarded introspection, and
\* values of up to three levels: tags, look-alikes of tags and blocked keys among them.
RemoteCall(path, steps, value) ==
  [path |-> path, type |-> "query", steps |-> steps, method |-> "POST", content |-> "json", from |-> "same",
   readable |-> TRUE, valid |-> TRUE, value |-> value, guards |-> 2, served |-> TRUE]
Leaves == {Prim("p"), [k |-> "Date", x |-> "d"]}
Shallow ==
  Leaves \cup {List(k, <<v>>) : k \in {"Array", "Set", "Map"}, v \in Leaves} \cup {Obj([f |-> v]) : v \in Leaves}
    \cup {TaggedValue(tag, Prim("p")) : tag \in {"Date", "Bogus"}}
    \cup {Obj("__proto__" :> Prim("p")), [k |-> "RegExp", x |-> "r"]}
WireValues ==
  Shallow \cup {List(k, <<v, w>>) : k \in {"Array", "Set", "Map"}, v \in Shallow, w \in Leaves}
          \cup {List(k, <<List("Set", <<v>>)>>) : k \in {"Array", "Set"}, v \in Shallow}
BuilderSteps == {<<"input", "use", "allowFormData", "use", "output">>, <<"allowFormData", "use", "input">>,
                 <<"output">>, <<"use", "use", "input">>}
MCCalls ==
  {RemoteCall("unknown", <<>>, v) : v \in WireValues}
    \cup {[RemoteCall("introspection", <<>>, Prim("p")) EXCEPT !.guards = g, !.served = s] : g \in 0..2, s \in BOOLEAN}
    \cup {[RemoteCall("procedure", s, Prim("p")) EXCEPT !.type = t, !.method = m, !.content = c, !.from = f,
                                                       !.readable = r, !.valid = w] :
            s \in BuilderSteps, t \in {"query", "mutation"}, m \in {"GET", "POST", "PUT"},
            c \in {"json", "form", "text"}, f \in {"same", "cross"}, r \in BOOLEAN, w \in BOOLEAN}

\* Schemas of three libraries: every kind, nested, wrapped and with cycles.
SchemaLibs == {"zod3", "zod4", "valibot"}
NameOf(lib, kind) == CHOOSE name \in DOMAIN KindNames[lib] : KindNames[lib][name] = kind
Str(lib, checks) == [k |-> NameOf(lib, "string"), checks |-> checks]
Num(lib, checks) == [k |-> NameOf(lib, "number"), checks |-> checks]
Wrapped(lib, kind, node) == [k |-> NameOf(lib, kind), of |-> node]
Lit(lib, values) == [k |-> NameOf(lib, "literal"), values |-> values]
Several(lib, kind, several) == [k |-> NameOf(lib, kind), options |-> several]
ListOfNodes(lib, items, rest) == [k |-> NameOf(lib, "tuple"), items |-> items, rest |-> rest]
ObjectNode(lib, shape, unknown) ==
  [k |-> IF lib # "valibot" THEN NameOf(lib, "object")
         ELSE CASE unknown = "strip" -> "object" [] unknown = "catchall" -> "object_with_rest"
                [] unknown = "strict" -> "strict_object" [] unknown = "loose" -> "loose_object",
   shape |-> shape, unknown |-> unknown, catchall |-> Str(lib, <<>>)]
StringOf(n) == [t |-> "string", n |-> n]
NumberOf(n) == [t |-> "number", n |-> n]
LazyTo(lib, name, fresh) == [k |-> NameOf(lib, "lazy"), to |-> name, fresh |-> fresh]
MCNamed ==
  [lib \in SchemaLibs |->
     [tree |-> ObjectNode(lib, [a |-> Num(lib, <<>>), b |-> Wrapped(lib, "optional", LazyTo(lib, "tree", FALSE))], "strict"),
      fresh |-> ObjectNode(lib, [a |-> Wrapped(lib, "optional", LazyTo(lib, "fresh", TRUE))], "strip")]]
MCScalars(lib) ==
  {Str(lib, <<<<"min", 1>>, <<"max", 1>>>>), Str(lib, <<>>), Num(lib, <<<<"int", 0>>, <<"min", 2>>>>),
   Num(lib, <<<<"above", 0>>, <<"max", 2>>, <<"max", 3>>>>), Num(lib, <<<<"below", 3>>>>), Lit(lib, {StringOf(1)}),
   Lit(lib, {StringOf(1), NumberOf(2)}), [k |-> NameOf(lib, "null")], [k |-> NameOf(lib, "never")], [k |-> "any"],
   [k |-> NameOf(lib, "enum"), members |-> (StringOf(1) :> NumberOf(2)) @@ (StringOf(2) :> StringOf(0))]}
MCWrappers(lib) ==
  {"optional", "nullable"} \cup
    IF lib = "valibot" THEN {"nullish", "undefinedable", "nonoptional", "nonnullable"}
    ELSE {"default", "inner", "catch"} \cup (IF lib = "zod4" THEN {"nonoptional"} ELSE {})
MCMembers(lib) ==
  MCScalars(lib) \cup {Wrapped(lib, w, n) : w \in MCWrappers(lib), n \in {Lit(lib, {StringOf(1)}), Lit(lib, {StringOf(1), NumberOf(2)})}}
    \cup {Wrapped(lib, w, Wrapped(lib, v, Str(lib, <<>>))) : w \in MCWrappers(lib), v \in {"optional", "nullable"}}
    \cup {LazyTo(lib, "tree", FALSE), LazyTo(lib, "fresh", TRUE)}
MCSchemaNodes(lib) ==
  MCScalars(lib) \cup {ObjectNode(lib, [a |-> n], "strip") : n \in MCMembers(lib)}
    \cup {ObjectNode(lib, [b |-> Num(lib, <<>>)], u) : u \in {"strict", "loose", "catchall"}}
    \cup {[k |-> NameOf(lib, "array"), of |-> Str(lib, <<>>), checks |-> <<<<"min", 1>>>>], Wrapped(lib, "record", Num(lib, <<>>)),
          Wrapped(lib, "set", Str(lib, <<>>)), [k |-> NameOf(lib, "map"), key |-> Str(lib, <<>>), of |-> [k |-> NameOf(lib, "boolean")]],
          ListOfNodes(lib, <<Str(lib, <<>>)>>, <<>>), ListOfNodes(lib, <<Str(lib, <<>>)>>, <<Num(lib, <<>>)>>),
          Several(lib, "union", <<Str(lib, <<>>), Wrapped(lib, "nullable", Num(lib, <<>>))>>),
          Several(lib, "intersection", <<ObjectNode(lib, [a |-> Num(lib, <<>>)], "strip"), ObjectNode(lib, [b |-> Str(lib, <<>>)], "strip")>>)}
MCHas(lib) ==
  CASE lib = "zod3" -> {{"safeParse", "parse"}, {"safeParse", "parse", "~standard"}} [] lib = "zod4" -> {{"safeParse", "parse", "~standard"}}
    [] lib = "valibot" -> {{"~standard", "~run"}, {"_parse"}}
    [] lib = "typebox" -> {{"TypeBox.Kind", "type: object", "properties"}, {"type: object", "properties"}}
    [] lib = "itself" -> {{"validate", "toJsonSchema", "parse"}} [] OTHER -> {{"type: object"}}
GivenSchema(lib, has, mode, node) == [lib |-> lib, has |-> has, mode |-> mode, node |-> node]
MCSchemas ==
  UNION {{GivenSchema(lib, CHOOSE h \in MCHas(lib) : TRUE, "sync", n) : n \in MCSchemaNodes(lib)} : lib \in SchemaLibs}
    \cup UNION {{GivenSchema(lib, has, mode, Str(lib, <<>>)) :
                   has \in MCHas(lib), mode \in {"sync", "errorless", "throws", "waits"}} : lib \in SchemaLibs}
    \cup UNION {{GivenSchema(lib, has, mode, [k |-> "any"]) : has \in MCHas(lib), mode \in {"accepts", "refuses", "throws", "absent"}} :
                lib \in {"typebox", "itself", "unsupported"}}
MCBodies ==
  LET flat == {Null} \cup {StringOf(n) : n \in 0..2} \cup {NumberOf(n) : n \in 0..3}
      few == {Null, StringOf(1), NumberOf(2)}
      arrays == {[t |-> "array", of |-> s] : s \in {<<>>} \cup {<<v>> : v \in few} \cup {<<StringOf(1), v>> : v \in few}}
      flats == {[f \in {} |-> Null]} \cup {(f :> v) : f \in {"a", "b"}, v \in flat} \cup {[a |-> v, b |-> w] : v \in few, w \in few}
      objects == {[t |-> "object", fields |-> o] : o \in flats}
  IN flat \cup arrays \cup objects
       \cup {[t |-> "object", fields |-> [a |-> NumberOf(2), b |-> [t |-> "object", fields |-> (f :> v)]]] : f \in {"a", "b"}, v \in few}

\* The others keep one initial value.
Unless(name, pin) == IF component = name THEN TRUE ELSE pin

\* Builder headers and cookies that a Response of the handler has too, and others; an own
\* response that varies by Origin; locations of two hosts.
MCHeaderValues == {<<"content-type", {"json"}>>, <<"content-type", {"text"}>>, <<"vary", {"Accept"}>>, <<"set-cookie", {"c2"}>>}
OwnResponse(headers, cookies) == [NoResponse EXCEPT !.status = 200, !.headers = headers, !.cookies = cookies, !.fits = FALSE]
MCSymbols == {"/", "\\", "tab", "nul", "good", "evil", "https:", "mailto:"}
MCOwnResponses == {OwnResponse("content-type" :> {"text"} @@ "vary" :> {"Origin"}, <<"c1">>)}

\* Sites behind a proxy that says so and behind none, a development host, and two plain ones.
Site(scheme, host, protocol, forwarded) ==
  [scheme |-> scheme, host |-> host, urlProtocol |-> protocol, urlHost |-> "0.0.0.0", hostHeader |-> host, forwardedProto |-> forwarded]
MCSites == {Site("https", "shop", "http:", "https"), Site("https", "shop", "https:", "none"), Site("https", "shop", "http:", "none"),
            Site("http", "localhost", "http:", "http"), [Site("http", "localhost", "http:", "none") EXCEPT !.urlHost = "localhost", !.hostHeader = ""],
            Site("http", "blog", "http:", "none"), Site("http", "wiki", "http:", "none")}
MCCookieTexts == {<<"%", "a">>, <<";", "=", "wide">>}
MCForeignPairs == {<<"sid2", <<<<"%", "raw">>>>>>, <<"__proto__", <<>>>>, <<"", <<>>>>}

\* Every content type, with bodies below, at and above a limit of two, that declare their
\* length or do not; nested JSON with keys that reach a prototype; forms of up to two parts.
JsonValue(fields) == [t |-> "object", fields |-> fields]
TextPart(name) == [kind |-> "text", name |-> name]
FilePart(size, mime, bytes) == [kind |-> "file", size |-> size, mime |-> mime, bytes |-> bytes]
MCParts == {TextPart("a"), TextPart("__proto__"), FilePart(1, "png", "png"), FilePart(2, "png", "png"),
            FilePart(1, "png", "unknown"), FilePart(1, "text", "zip"), FilePart(1, "text", "unknown"), FilePart(1, "zip", "zip")}
Form(parts) == [t |-> "parts", parts |-> parts]
Leaf == [t |-> "leaf"]
MCContents(type) ==
  {[t |-> "broken"], [t |-> "blank"]} \cup
  CASE type = "json" -> {JsonValue([a |-> [t |-> "array", of |-> <<JsonValue([constructor |-> Leaf])>>]]), JsonValue([prototype |-> Leaf])}
    [] type = "multipart" -> {Form(<<p>>) : p \in MCParts} \cup {Form(<<p, q>>) : p \in MCParts, q \in MCParts}
    [] type = "form" -> {Form(<<TextPart("__proto__")>>)}
    [] OTHER -> {Leaf}
MCChunks == {<<>>, <<1>>, <<3>>, <<1, 1>>, <<2, 1, 2>>}
MCIncoming ==
  UNION {{[method |-> m, type |-> type, content |-> c, chunks |-> s, declared |-> d] :
            m \in IF type = "json" THEN {"POST", "GET"} ELSE {"POST"}, c \in MCContents(type), s \in MCChunks, d \in {Unstated, 2, 3}} :
         type \in {"json", "form", "multipart", "text", "custom", "other", "none"}}
MCParsers == <<"custom">>

\* What the components in front of handlers, and beside them, promise.
RequestsSound ==
  /\ component = "body" => BodySound
  /\ component = "gates" => GatesSound
  /\ component = "bun" => BunSound
  /\ component = "workers" => WorkersSound

\* What the router finds, and what it says there is when it finds nothing.
RoutingSound == component = "routing" => RoutesSound

\* What reaches the client of an answer is what the application made it.
AnswersSound ==
  /\ component = "reply" => ReplySound
  /\ component = "cookies" => CookiesSound
  /\ component \in {"exchange", "triggers"} => PlatformsSound
  /\ component = "rpc" => WireFaithful

ProcessInit ==
  /\ component \in {"queue", "request", "server", "routing", "realms", "edge", "rpc", "schema", "reply", "cookies", "body", "gates",
                     "exchange", "triggers", "bun", "workers"}
  /\ Init /\ RequestInit /\ ServerInit
  /\ Unless("routing", lenient = TRUE /\ strict = TRUE) /\ RoutingInit
  /\ Unless("realms", config = [r \in RealmHandles |-> Options("k2", TRUE, <<>>, NoClaim, 1, Forever)]) /\ RealmsInit
  /\ Unless("edge", routes = <<EdgeEntry(<<"a", "*">>, {"GET"}, "localhost")>>) /\ EdgeInit
  /\ Unless("schema", given = GivenSchema("unsupported", {"type: object"}, "throws", [k |-> "any"])) /\ SchemaInit
  /\ Unless("reply", hooked = TRUE /\ checked = TRUE) /\ ReplyInit
  /\ CookiesInit
  /\ Unless("body", incoming = [method |-> "GET", type |-> "json", content |-> [t |-> "blank"], chunks |-> <<>>, declared |-> Unstated] /\ bodyLimit = 0) /\ BodyInit
  /\ Unless("gates", gate = "cors" /\ settings = [origin |-> "*", credentials |-> FALSE]) /\ GatesInit
  /\ Unless("exchange", hosting = "server" /\ wanted = ClientRequest) /\ Unless("triggers", cronTable = <<>>) /\ PlatformsInit
  /\ Unless("bun", bunAddress = [s \in Sockets |-> "a"]) /\ BunInit
  /\ AppInit
  /\ Unless("rpc", call = RemoteCall("unknown", <<>>, Prim("p"))) /\ RpcInit

Turn(name, A, v) == IF component = name THEN A ELSE UNCHANGED v

ProcessNext ==
  /\ UNCHANGED component
  /\ Turn("queue", Next, qvars)
  /\ Turn("request", RequestNext, requestVars)
  /\ Turn("server", ServerNext, serverVars)
  /\ Turn("routing", RoutingNext, routingVars)
  /\ Turn("realms", RealmsNext, realmVars)
  /\ Turn("edge", EdgeNext, edgeVars)
  /\ Turn("rpc", RpcNext, rpcVars)
  /\ Turn("schema", SchemaNext, schemaVars)
  /\ Turn("reply", ReplyNext, replyVars)
  /\ Turn("cookies", CookiesNext, cookieVars)
  /\ Turn("body", BodyNext, bodyVars)
  /\ Turn("gates", GatesNext, gateVars)
  /\ Turn("exchange", ExchangeNext, exchangeVars) /\ Turn("triggers", TriggersNext, cronVars)
  /\ Turn("bun", BunNext, bunVars)
  /\ Turn("workers", AppNext, appVars)

\* The fairness of the components; the steps it speaks of are not enabled initially.
ProcessSpec ==
  /\ ProcessInit /\ [][ProcessNext]_<<component, qvars, requestVars, serverVars, routingVars,
                                  realmVars, edgeVars, rpcVars, schemaVars, replyVars, cookieVars, bodyVars, gateVars,
                                  exchangeVars, cronVars, bunVars, appVars>>
  /\ HandleFairness /\ ShutdownFairness
=============================================================================
