--------------------------------- MODULE Reply ---------------------------------
(***************************************************************************)
(* One reply on its way to the client: the builder of core/src/reply.ts,   *)
(* the Response a hook, the handler or the error handler answers with, the *)
(* merges of the builder's headers and cookies into it                     *)
(* (core/src/response-merge.ts), and what the Node server writes of it     *)
(* (core/src/fast-response.ts, core/src/serve.ts).                         *)
(*                                                                         *)
(* A header's value is its set of tokens.  Hooks and the handler are the   *)
(* application's: they write to the builder and answer as they like.  What *)
(* a handler does that outlives its timeout is left to Requests.           *)
(***************************************************************************)
EXTENDS Naturals, Sequences, SequencesExt

CONSTANTS HeaderValues,  \* the headers the application writes, as <<name, value>>
          CookieValues,  \* the cookies it queues
          StatusCodes,   \* the status codes it sets
          OwnResponses,  \* the Responses it builds itself
          Symbols,       \* what redirect targets are made of
          AllowedHosts,  \* RedirectOptions.allowedHosts
          MaxWrites      \* bound: writes to the builder

\* A Response keeps its cookies apart (getSetCookie()), and fastResponse() did not make it,
\* so its body is its own affair;
\* header() writes one string, so one cookie.
ASSUME ReplyAssumption ==
  /\ \A r \in OwnResponses : /\ DOMAIN r = {"status", "headers", "cookies", "payload", "made", "fits"}
                             /\ "set-cookie" \notin DOMAIN r.headers /\ r.made = "own"
                             /\ r.cookies \in Seq(ToSet(r.cookies)) /\ r.payload = <<>>
  /\ \A hv \in HeaderValues : hv[1] = "set-cookie" => \E c \in hv[2] : hv[2] = {c}

VARIABLES replyHeaders,  \* the builder's headers
          setCookies,    \* its queue of Set-Cookie values
          replyStatus,   \* its statusCode
          replySent,     \* its `sent`
          replyAt,       \* the part of the lifecycle that runs
          hooked,        \* are there onSend hooks?
          checked,       \* does the route have a response schema for what it answers?
          response,      \* the Response, NoResponse before it
          shown,         \* the builder's headers when the onSend chain began
          writes,        \* how often the builder was written to
          carried,       \* history: the headers the answer was made with, what the first merge made of it
          due,           \* history: the builder when it was last merged
          threw,         \* history: did an onSend hook throw?
          leaf,          \* the file system: what the file asked for is
          moved,         \* history: a directory above it was replaced
          followed,      \* allowSymlinks
          served         \* history: where the bytes sent came from

builderVars == <<replyHeaders, setCookies, replyStatus, writes>>
fileVars == <<leaf, moved, followed, served>>
replyVars == <<builderVars, replySent, replyAt, hooked, checked, response, shown, carried, due, threw, fileVars>>

NoHeaders == [h \in {} |-> {}]
JsonType == [h \in {"content-type"} |-> {"json"}]
WithHeader(name, value, headers) ==
  [h \in DOMAIN headers \cup {name} |-> IF h = name THEN value ELSE headers[h]]
WithDefault(name, value, headers) ==
  [h \in DOMAIN headers \cup {name} |-> IF h \in DOMAIN headers THEN headers[h] ELSE value]

\* What a body is made of: "data" the handler returned, a "json" or a "text" in memory, which
\* parses as JSON or does not; "own" is any other, and what a "hook" or an error handler
\* answers with is never looked at.  Does it fit the route's response schema?
NoResponse ==
  [status |-> 0, headers |-> NoHeaders, cookies |-> <<>>, payload |-> <<>>, made |-> "own", fits |-> TRUE]
Written == {"hooks", "handler", "preSerialization", "failing", "onSend"}
LeafKinds == {"file", "link", "directory", "missing"}

ReplyInit ==
  /\ replyHeaders = NoHeaders /\ setCookies = <<>> /\ replyStatus = 200 /\ replySent = FALSE
  /\ replyAt = "hooks" /\ hooked \in BOOLEAN /\ checked \in BOOLEAN /\ response = NoResponse /\ shown = NoHeaders /\ writes = 0
  /\ carried = [own |-> NoHeaders, merged |-> NoHeaders, added |-> FALSE] /\ due = <<>> /\ threw = FALSE
  /\ leaf = "file" /\ moved = FALSE /\ followed = FALSE /\ served = "nothing"
-----------------------------------------------------------------------------
(* The builder *)

\* header(), cookie() and clearCookie(), status(): they chain and return nothing new.
Write ==
  /\ replyAt \in Written /\ writes < MaxWrites /\ writes' = writes + 1
  /\ \/ \E hv \in HeaderValues : /\ replyHeaders' = WithHeader(hv[1], hv[2], replyHeaders)
                                 /\ UNCHANGED <<setCookies, replyStatus>>
     \/ \E c \in CookieValues : setCookies' = Append(setCookies, c) /\ UNCHANGED <<replyHeaders, replyStatus>>
     \/ \E s \in StatusCodes : replyStatus' = s /\ UNCHANGED <<replyHeaders, setCookies>>
  /\ UNCHANGED <<replySent, replyAt, hooked, checked, response, shown, carried, due, threw, fileVars>>

Plain == [h \in DOMAIN replyHeaders \ {"set-cookie"} |-> replyHeaders[h]]
HeaderCookie == IF "set-cookie" \in DOMAIN replyHeaders THEN SetToSeq(replyHeaders["set-cookie"]) ELSE <<>>

\* buildHeaders(): the headers and the cookies, on a Response with no payload.
BuiltResponse(code, headers) ==
  [NoResponse EXCEPT !.status = code, !.headers = headers, !.cookies = HeaderCookie \o setCookies]

\* fastResponse(): the payload holds the plain headers; its cookies are the queue itself.
FastResponse(code, headers, made, fits) ==
  [BuiltResponse(code, headers) EXCEPT !.payload = <<[headers |-> headers, cookies |-> HeaderCookie, queue |-> TRUE]>>,
                                       !.made = made, !.fits = fits]

WithType(type) == WithDefault("content-type", {type}, Plain)

\* send() of no data, or with a status that has no body.
SendNull == FastResponse(replyStatus, Plain, "own", TRUE)

\* json() and send() of an object; html() and send() of a string or of bytes.
InJson(code) == {FastResponse(code, WithType(type), "json", fits) : type \in {"json", "text"}, fits \in BOOLEAN}
InMemory(code) == InJson(code) \cup {FastResponse(code, WithType("text"), "text", FALSE)}

\* What the helpers make: a body in memory; stream(); and redirect(), which has none.  A
\* status that has no body makes the Response constructor throw, but send() looks first.
NoBody == {204, 304}
Helped ==
  {SendNull, BuiltResponse(302, WithDefault("location", {"here"}, Plain))}
    \cup IF replyStatus \in NoBody THEN {}
         ELSE InMemory(replyStatus) \cup {BuiltResponse(replyStatus, WithType("stream"))}

\* The same of a hook or an error handler, which may also answer with a Response of its own.
HookAnswers == {[r EXCEPT !.made = "hook"] : r \in OwnResponses \cup Helped}
-----------------------------------------------------------------------------
(* response-merge.ts *)

UnionVary(current, extra) ==
  IF "*" \in current THEN current ELSE IF "*" \in extra THEN {"*"} ELSE current \cup extra

\* A header both have: united, replaced because the hook was shown it, or the Response's.
BothHave(name, current, value, seen) ==
  IF name = "vary" THEN UnionVary(current, value)
  ELSE IF name \in DOMAIN seen /\ seen[name] = current THEN value ELSE current

MergedHeaders(headers, seen) ==
  [h \in DOMAIN headers \cup DOMAIN Plain |->
     IF h \notin DOMAIN Plain THEN headers[h]
     ELSE IF h \notin DOMAIN headers THEN Plain[h]
     ELSE BothHave(h, headers[h], Plain[h], seen)]

MergedCookies(cookies) ==
  FoldLeft(LAMBDA present, c : IF Contains(present, c) THEN present ELSE Append(present, c),
           cookies, HeaderCookie \o setCookies)

\* Mutated form: the merged Response keeps the payload of the one it was made from.
MergeWithPayload(r, seen) ==
  [r EXCEPT !.headers = MergedHeaders(r.headers, seen), !.cookies = MergedCookies(r.cookies)]

\* mergeReplyIntoResponse(): r itself when there is nothing to add.
Merge(r, seen) ==
  LET headers == MergedHeaders(r.headers, seen)
      cookies == MergedCookies(r.cookies)
  IN IF headers = r.headers /\ cookies = r.cookies THEN r
     ELSE [r EXCEPT !.headers = headers, !.cookies = cookies, !.payload = <<>>]
-----------------------------------------------------------------------------
(* runLifecycle() *)

AnswerWith(r, next) ==
  /\ response' = Merge(r, NoHeaders)
  /\ carried' = [own |-> r.headers, merged |-> Merge(r, NoHeaders).headers, added |-> Merge(r, NoHeaders) # r]
  /\ due' = <<[headers |-> Plain, cookies |-> HeaderCookie \o setCookies]>> /\ replyAt' = next

\* A hook before the handler answers with a Response, or says it has sent one.
ReplyEarly ==
  /\ replyAt = "hooks"
  /\ \E r \in HookAnswers : AnswerWith(r, "over")
  /\ replySent' = TRUE
  /\ UNCHANGED <<builderVars, hooked, checked, shown, threw, fileVars>>

HooksPass ==
  /\ replyAt = "hooks" /\ replyAt' = "handler"
  /\ UNCHANGED <<builderVars, replySent, hooked, checked, response, shown, carried, due, threw, fileVars>>

\* The handler calls a helper, a status helper among them, which sets the status; or it
\* says it has sent something.
MakeReply ==
  /\ replyAt = "handler" /\ response = NoResponse /\ replySent' = TRUE
  /\ \/ response' \in Helped \cup {NoResponse} /\ UNCHANGED replyStatus
     \/ \E fits \in BOOLEAN : response' = FastResponse(503, WithType("json"), "json", fits)
        /\ replyStatus' = 503
  /\ UNCHANGED <<replyHeaders, setCookies, writes, replyAt, hooked, checked, shown, carried, due, threw, fileVars>>

\* The handler has said it sent something, and returns nothing, or data, which is looked at
\* all the same.
Unsent ==
  {[NoResponse EXCEPT !.status = replyStatus, !.made = "data", !.fits = fits] : fits \in BOOLEAN}
    \cup {[NoResponse EXCEPT !.status = replyStatus]}

\* It returns what the helper made or a Response of its own; or none, and the reply is lost.
HandlerReturns ==
  /\ replyAt = "handler"
  /\ \E r \in OwnResponses \cup {response} \cup (IF replySent THEN Unsent ELSE {}) :
       r # NoResponse /\ AnswerWith(r, "validating")
  /\ UNCHANGED <<builderVars, replySent, hooked, checked, shown, threw, fileVars>>

\* It returns data, which is serialized, or nothing.
Serialize ==
  /\ replyAt = "handler" /\ ~replySent
  /\ \/ /\ replyStatus \notin NoBody
        /\ \E type \in {"json", "text"}, fits \in BOOLEAN :
             AnswerWith(FastResponse(replyStatus, WithType(type), "data", fits), "validating")
     \/ AnswerWith([NoResponse EXCEPT !.status = 204], "validating")
  /\ UNCHANGED <<builderVars, replySent, hooked, checked, shown, threw, fileVars>>

JsonTyped(headers) == "content-type" \in DOMAIN headers /\ "json" \in headers["content-type"]

\* Data is looked at before it was serialized.  Of a Response only a payload is, if the
\* Response is typed as JSON and the payload parses.
Misfit ==
  /\ checked /\ ~response.fits
  /\ \/ response.made = "data"
     \/ response.made = "json" /\ response.payload # <<>> /\ JsonTyped(response.headers)

\* validateResponse(): its own Response has none of the builder's headers and cookies, which
\* are due again when the onSend hooks have run.
ValidateResponse ==
  /\ replyAt = "validating" /\ replyAt' = "preSerialization"
  /\ IF Misfit
     THEN /\ response' = [NoResponse EXCEPT !.status = 500, !.headers = JsonType,
                            !.payload = <<[headers |-> JsonType, cookies |-> <<>>, queue |-> FALSE]>>]
          /\ carried' = [own |-> response'.headers, merged |-> response'.headers, added |-> FALSE]
          /\ due' = <<[headers |-> NoHeaders, cookies |-> <<>>]>>
     ELSE UNCHANGED <<response, carried, due>>
  /\ UNCHANGED <<builderVars, replySent, hooked, checked, shown, threw, fileVars>>

\* A hook before the onSend hooks, the handler, a helper or a schema throws.
Throws ==
  /\ replyAt \in {"hooks", "handler", "reading", "validating", "preSerialization"} /\ replyAt' = "failing"
  /\ UNCHANGED <<builderVars, replySent, hooked, checked, response, shown, carried, due, threw, fileVars>>

\* handleError(): the custom error handler or an onError hook answers, or neither does; the
\* Response goes through applyOnSend().
HandleError ==
  /\ replyAt = "failing" /\ replySent' \in {replySent, TRUE}
  /\ \E r \in HookAnswers \cup {[NoResponse EXCEPT !.status = 500, !.headers = JsonType]} :
       AnswerWith(r, "sending")
  /\ UNCHANGED <<builderVars, hooked, checked, shown, threw, fileVars>>

Serialized ==
  /\ replyAt = "preSerialization" /\ replyAt' = "sending"
  /\ UNCHANGED <<builderVars, replySent, hooked, checked, response, shown, carried, due, threw, fileVars>>

\* The hooks are shown the status that is sent and the builder's headers.
StartOnSend ==
  /\ replyAt = "sending" /\ replyAt' = IF hooked THEN "onSend" ELSE "over"
  /\ replyStatus' = response.status /\ shown' = IF hooked THEN replyHeaders ELSE shown
  /\ UNCHANGED <<replyHeaders, setCookies, writes, replySent, hooked, checked, response, carried, due, threw, fileVars>>

OnSendDone ==
  /\ replyAt = "onSend" /\ replyAt' = "over" /\ response' = Merge(response, shown)
  /\ due' = <<[headers |-> Plain, cookies |-> HeaderCookie \o setCookies]>>
  /\ UNCHANGED <<builderVars, replySent, hooked, checked, shown, carried, threw, fileVars>>

\* A hook throws: the rest of the chain does not run and nothing more is merged.
OnSendThrows ==
  /\ replyAt = "onSend" /\ replyAt' = "over" /\ threw' = TRUE
  /\ UNCHANGED <<builderVars, replySent, hooked, checked, response, shown, carried, due, fileVars>>

\* What writeNodeResponse() puts on the wire.
NodeWrites ==
  IF response.payload = <<>> THEN [headers |-> response.headers, cookies |-> response.cookies]
  ELSE [headers |-> response.payload[1].headers, cookies |-> response.payload[1].cookies \o (IF response.payload[1].queue THEN setCookies ELSE <<>>)]
-----------------------------------------------------------------------------
(* sendFile() and download(), which the handler awaits *)

\* fileErrorResponse(): the cookies of the queue, and no headers of the builder.
FileError(code) ==
  AnswerWith([NoResponse EXCEPT !.status = code, !.headers = JsonType, !.cookies = setCookies],
             "validating")

\* resolveConfinedPath(): a path that leaves the root as written is refused at once.
SendFile ==
  /\ replyAt = "handler" /\ response = NoResponse /\ replySent' = TRUE /\ followed' \in BOOLEAN
  /\ \/ replyAt' = "resolving" /\ UNCHANGED <<response, carried, due>>
     \/ FileError(403)
  /\ UNCHANGED <<builderVars, hooked, checked, shown, threw, leaf, moved, served>>

\* The real paths are compared, unless links may be followed.
Resolve ==
  /\ replyAt = "resolving"
  /\ IF ~followed /\ leaf = "missing" THEN FileError(404)
     ELSE IF ~followed /\ (leaf = "link" \/ moved) THEN FileError(403)
     ELSE replyAt' = "opening" /\ UNCHANGED <<response, carried, due>>
  /\ UNCHANGED <<builderVars, replySent, hooked, checked, shown, threw, fileVars>>

\* open(): O_NOFOLLOW refuses a link in the last place, and only there.
OpenFile ==
  /\ replyAt = "opening"
  /\ IF leaf = "missing" THEN FileError(404) /\ UNCHANGED served
     ELSE IF leaf = "link" /\ ~followed THEN FileError(403) /\ UNCHANGED served
     ELSE /\ served' = IF leaf = "link" \/ moved THEN "outside" ELSE "inside"
          /\ replyAt' = "reading" /\ UNCHANGED <<response, carried, due>>
  /\ UNCHANGED <<builderVars, replySent, hooked, checked, shown, threw, leaf, moved, followed>>

\* The handle is read, whatever the name leads to by now.
ReadHandle ==
  /\ replyAt = "reading"
  /\ \/ served' = "nothing" /\ FileError(404)  \* a directory, unreadable, or no body allowed
     \/ leaf # "directory" /\ replyStatus \notin NoBody /\ UNCHANGED served
        /\ AnswerWith(BuiltResponse(replyStatus, WithType("file")), "validating")
  /\ UNCHANGED <<builderVars, replySent, hooked, checked, shown, threw, leaf, moved, followed>>

\* Somebody who writes below the root replaces the file, or a directory above it.
FilesChange ==
  /\ replyAt \in {"resolving", "opening", "reading"} /\ leaf = "file" /\ ~moved
  /\ \/ leaf' \in LeafKinds \ {"file"} /\ UNCHANGED moved
     \/ moved' = TRUE /\ UNCHANGED leaf
  /\ UNCHANGED <<builderVars, replySent, replyAt, hooked, checked, response, shown, carried, due, threw, followed, served>>

ReplyNext ==
  \/ Write \/ ReplyEarly \/ HooksPass \/ MakeReply \/ HandlerReturns \/ Serialize
  \/ ValidateResponse \/ Throws \/ HandleError \/ Serialized
  \/ StartOnSend \/ OnSendDone \/ OnSendThrows
  \/ SendFile \/ Resolve \/ OpenFile \/ ReadHandle \/ FilesChange

ReplySpec == ReplyInit /\ [][ReplyNext]_replyVars
-----------------------------------------------------------------------------
(* redirect() *)

\* normalizeRedirectTarget(): tabs and line ends go, backslashes turn.
Normalized(target) ==
  FoldLeft(LAMBDA kept, c : IF c = "tab" THEN kept ELSE Append(kept, IF c = "\\" THEN "/" ELSE c), <<>>, target)

\* The host an absolute target names: what follows the slashes after the scheme.
HostOf(target) ==
  LET rest == SelectSeq(Tail(target), LAMBDA c : c # "/") IN IF rest = <<>> THEN "none" ELSE rest[1]

\* safeRedirectLocation(): the Location, or nothing, which is a 400.
Location(target) ==
  LET url == Normalized(target)
  IN IF url = <<>> THEN <<>>
     ELSE IF url[1] = "/" THEN IF Contains(url, "nul") \/ (Len(url) > 1 /\ url[2] = "/") THEN <<>> ELSE url
     ELSE IF url[1] = "https:" /\ HostOf(url) \in AllowedHosts THEN url ELSE <<>>

\* Where a browser goes: URL parsers rewrite as Normalized does.
BrowserGoes(location) ==
  LET url == Normalized(location)
  IN IF url[1] = "/" /\ (Len(url) = 1 \/ url[2] # "/") THEN "here" ELSE HostOf(url)
-----------------------------------------------------------------------------
(* Properties *)

\* Every cookie queued before the last merge is on the response, whoever built it.
CookiesArrive ==
  replyAt = "over" => ToSet(due[1].cookies) \subseteq ToSet(response.cookies)

\* So is every header; a value the response was made with yields only to an onSend hook
\* that was shown that value, and the tokens of Vary add up.
HeadersArrive ==
  replyAt = "over" =>
    /\ \A h \in DOMAIN carried.own \ {"vary"} : carried.merged[h] = carried.own[h]
    /\ \A h \in (DOMAIN due[1].headers \cup DOMAIN carried.merged) \ {"vary"} :
         h \in DOMAIN response.headers /\
           response.headers[h] = IF h \notin DOMAIN carried.merged THEN due[1].headers[h]
                                 ELSE IF hooked /\ ~threw /\ h \in DOMAIN shown /\ shown[h] = carried.merged[h]
                                 THEN replyHeaders[h] ELSE carried.merged[h]
    /\ \A headers \in {carried.own, due[1].headers} :
         "vary" \in DOMAIN headers =>
           "*" \in response.headers["vary"] \/ headers["vary"] \subseteq response.headers["vary"]

\* What Node writes is what the other runtimes get from handle(), up to repeated cookies,
\* unless a cookie was queued after the last merge, by a preSerialization hook or by a
\* chain of onSend hooks that threw.
WrittenAsAnswered ==
  replyAt = "over" /\ Len(HeaderCookie \o setCookies) = Len(due[1].cookies) =>
    /\ NodeWrites.headers = response.headers
    /\ ToSet(NodeWrites.cookies) = ToSet(response.cookies)

\* Data the handler returns is not sent if it does not fit the route's schema, and JSON that
\* it made in memory only if it is not typed as JSON, or if something was added to the
\* builder after it was made.
MisfitsCaught ==
  replyAt = "over" /\ checked /\ ~response.fits =>
    /\ response.made # "data"
    /\ response.made = "json" => carried.added \/ ~JsonTyped(carried.merged)

\* The bytes of a file come from outside the root only where links may be followed, or
\* when a directory above the file was replaced between the check and the open.
FilesConfined == served = "outside" => followed \/ moved

\* A redirect stays on this host or goes to an allowed one, as a browser reads it.
RedirectsStay ==
  \A target \in UNION {[1..n -> Symbols] : n \in 1..4} :
    Location(target) = <<>> \/ BrowserGoes(Location(target)) \in AllowedHosts \cup {"here"}

ReplySound == CookiesArrive /\ HeadersArrive /\ WrittenAsAnswered /\ MisfitsCaught /\ FilesConfined /\ RedirectsStay
=============================================================================
