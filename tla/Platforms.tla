------------------------------- MODULE Platforms -------------------------------
(***************************************************************************)
(* What stands between an application and the platform it is deployed on:  *)
(* the AWS Lambda adapter's two conversions (adapter-lambda/src/index.ts), *)
(* the compression plugin (compress/src/index.ts), content negotiation     *)
(* (core/src/negotiate.ts), withETag() (core/src/plugins/etag.ts), and the *)
(* cron triggers of Vercel and Cloudflare (adapter-vercel/src/index.ts,    *)
(* adapter-cloudflare/src/index.ts).                                       *)
(*                                                                         *)
(* Bytes are what they are (text, binary, none) below the codings applied  *)
(* to them, the outermost first.  Media types, languages and cron          *)
(* expressions are sequences of their parts.                               *)
(***************************************************************************)
EXTENDS Naturals, Sequences, FiniteSets, SequencesExt

CONSTANTS ClientRequests, \* the requests clients send
          AppAnswers,     \* what handlers answer, as they give it to the reply
          Encodings,      \* CompressOptions.encodings, in the server's order
          MediaTypes,     \* the media types a handler can answer with, in its order
          Languages,      \* the languages it can answer in
          CronTables,     \* the registered cron jobs: name -> expression
          Triggers,       \* the expressions platforms invoke with, <<>> for none
          MaxInvocations  \* bound: invocations of the cron endpoint

VARIABLES hosting,     \* where the application runs: "server" or a Lambda event source
          wanted,      \* the client's request
          hop,         \* how far the exchange is
          perceived,   \* the request app.handle() is given
          picked,      \* what accepts(), acceptsEncoding() and acceptsLanguage() answered
          said,        \* what the handler answered
          answered,    \* the Response app.handle() returns
          delivered    \* what the platform makes of the adapter's result

exchangeVars == <<hosting, wanted, hop, perceived, picked, said, answered, delivered>>

VARIABLES cronTable,   \* app.getCronJobs()
          invocations  \* the invocations of the cron endpoint

cronVars == <<cronTable, invocations>>
platformVars == <<exchangeVars, cronVars>>

\* Headers, parameters and cookies come in order, qualities are numbers (of thousandths); a
\* coding has a name, and there is none around a body that is not there.
ASSUME ExchangeAssumption ==
  /\ Encodings \in Seq(STRING) /\ \A i \in DOMAIN Encodings : Encodings[i] # ""
  /\ MediaTypes \in Seq(STRING \X STRING) /\ Languages \in Seq(Seq(STRING) \ {<<>>})
  /\ \A r \in ClientRequests : /\ r.cookies \in Seq(STRING) /\ r.body \in [layers : Seq(STRING), of : STRING]
                               /\ r.codings \in Seq([range : Seq(STRING), q : Nat])
                               /\ r.types \in Seq([range : STRING \X STRING, q : Nat])
                               /\ r.languages \in Seq([range : Seq(STRING) \ {<<>>}, q : Nat])
                               /\ \A h \in DOMAIN r.headers : r.headers[h] \in Seq(STRING)
  /\ \A a \in AppAnswers : /\ a.cookies \in Seq(STRING) /\ a.body \in [layers : Seq(STRING \ {""}), of : STRING]
                           /\ a.body.of = "none" => a.body.layers = <<>>

EventSources == {"v2", "v1", "alb", "albMulti"}
NoBytes == [layers |-> <<>>, of |-> "none"]
IsText(b) == b.layers = <<>> /\ b.of # "binary"
Outermost(b, layer) == b.layers # <<>> /\ b.layers[1] = layer
Under(b) == [b EXCEPT !.layers = Tail(@)]
AsBase64(b) == [b EXCEPT !.layers = <<"base64">> \o @]
-----------------------------------------------------------------------------
(* adapter-lambda: the event and the Request made of it *)

\* API Gateway and the load balancer make the event: v2 moves cookies out of the headers
\* and combines repeated ones; v1 has single and multi values; a load balancer has one of
\* the two.  A body that is no text is base64.
LastOnly(f) == [k \in DOMAIN f |-> IF f[k] = <<>> THEN <<>> ELSE <<Last(f[k])>>]
NoneOf(f) == [k \in {} |-> f[k]]
LambdaEvent(r) ==
  LET hasMulti == hosting \in {"v1", "albMulti"}
      hasSingle == hosting \in {"v1", "v2", "alb"}
      single(f) == IF hosting = "v2" THEN f ELSE LastOnly(f)
  IN [cookies |-> IF hosting = "v2" THEN r.cookies ELSE <<>>,
      \* one Cookie header carries all of them
      cookieHeader |-> IF hosting = "v2" THEN <<>> ELSE r.cookies,
      headers |-> IF hasSingle THEN single(r.headers) ELSE NoneOf(r.headers),
      multiValueHeaders |-> IF hasMulti THEN r.headers ELSE NoneOf(r.headers),
      query |-> IF hasSingle THEN single(r.query) ELSE NoneOf(r.query),
      multiValueQuery |-> IF hasMulti THEN r.query ELSE NoneOf(r.query),
      method |-> r.method, proto |-> r.proto,
      body |-> IF IsText(r.body) THEN r.body ELSE AsBase64(r.body), isBase64Encoded |-> ~IsText(r.body),
      sourceIp |-> IF hosting \in {"v1", "v2"} THEN "client" ELSE "none"]

\* Headers with no value are skipped among the single ones.
Valued(f) == [k \in {n \in DOMAIN f : \E i \in DOMAIN f[n] : f[n][i] # ""} |-> f[k]]

\* multiValueHeaders first, then the single headers it lacks.
HeadersOf(e) ==
  [k \in DOMAIN e.multiValueHeaders \cup DOMAIN Valued(e.headers) |->
     IF k \in DOMAIN e.multiValueHeaders THEN e.multiValueHeaders[k] ELSE e.headers[k]]

\* The multi-value parameters instead of the single ones where the event has them.
QueryOf(e) == IF hosting \in {"v1", "albMulti"} THEN e.multiValueQuery ELSE e.query

\* decodeBody(): base64 is decoded into bytes, never into a string.
DecodeBody(body, isBase64Encoded) == IF isBase64Encoded THEN Under(body) ELSE body

BodyOf(e) == IF e.method \in {"GET", "HEAD"} THEN NoBytes ELSE DecodeBody(e.body, e.isBase64Encoded)

EventToRequest(e) ==
  [cookies |-> e.cookieHeader \o e.cookies, headers |-> HeadersOf(e), query |-> QueryOf(e),
   proto |-> IF e.proto \in {"http", "https"} THEN e.proto ELSE "https",
   body |-> BodyOf(e), remote |-> e.sourceIp]

\* A server of its own reads the request itself.
AsSent(r) == [cookies |-> r.cookies, headers |-> r.headers, query |-> r.query, proto |-> r.proto,
              body |-> IF r.method \in {"GET", "HEAD"} THEN NoBytes ELSE r.body, remote |-> "client"]
-----------------------------------------------------------------------------
(* negotiate.ts: entries are [range, q], a range a sequence of parts *)

Codings == [i \in DOMAIN Encodings |-> <<Encodings[i]>>]

\* The best first, ties as they came.
Sorted(entries, order) ==
  \A m, n \in DOMAIN order : m < n =>
    \/ entries[order[m]].q > entries[order[n]].q
    \/ entries[order[m]].q = entries[order[n]].q /\ order[m] < order[n]

InOrder(entries, places) == CHOOSE order \in [1..Cardinality(places) -> places] : Sorted(entries, order)

\* parseAccept(): what is not refused, sorted.
ParseAccept(entries) ==
  LET order == InOrder(entries, {i \in DOMAIN entries : entries[i].q > 0})
  IN [n \in DOMAIN order |-> entries[order[n]].range]

Earliest(places) == CHOOSE i \in places : \A j \in places : i <= j
FirstThat(several, Is(_)) ==
  LET those == {i \in DOMAIN several : Is(several[i])}
  IN IF those = {} THEN <<>> ELSE several[Earliest(those)]

\* A wildcard stands for whatever is first, refused elsewhere or not; so does no header.
Picked(entries, available, Fits(_, _)) ==
  LET range == FirstThat(ParseAccept(entries), LAMBDA r : \E i \in DOMAIN available : Fits(r, available[i]))
  IN IF entries = <<>> THEN available[1]
     ELSE IF range = <<>> THEN <<>>
     ELSE IF Contains(available, range) THEN range
     ELSE FirstThat(available, LAMBDA a : Fits(range, a))

TypeFits(range, type) == \A i \in 1..2 : range[i] \in {type[i], "*"}
CodingFits(range, coding) == range \in {coding, <<"*">>}
\* The exact language, or else one of the same primary tag.
SamePrimary(range, language) == range[1] \in {language[1], "*"}

Accepts(entries) == Picked(entries, MediaTypes, TypeFits)
AcceptsEncoding(entries) == Picked(entries, Codings, CodingFits)
AcceptsLanguage(entries) == Picked(entries, Languages, SamePrimary)

-----------------------------------------------------------------------------
(* compress: a range is <<coding>> or <<"*">> *)

Quality(entries, coding) ==
  LET Of(range) == {i \in DOMAIN entries : entries[i].range = range}
  IN IF Of(<<coding>>) # {} THEN entries[Earliest(Of(<<coding>>))].q
     ELSE IF Of(<<"*">>) # {} THEN entries[Earliest(Of(<<"*">>))].q ELSE 0

\* negotiateEncoding(): the highest quality, ties in the server's order, "" for none.
NegotiateEncoding(entries) ==
  FoldLeft(LAMBDA best, c : IF Quality(entries, c) > best.q THEN [coding |-> c, q |-> Quality(entries, c)] ELSE best,
           [coding |-> "", q |-> 0], Encodings).coding

\* The types the reply's methods give an answer that has none; a Response of the
\* handler's own is as it is.
DefaultType(method) ==
  CASE method = "json" -> "json" [] method = "html" -> "html" [] method = "send" -> "plain"
    [] method = "bytes" -> "octets" [] OTHER -> ""
Compressible(type) == type \in {"json", "html", "plain"}
NoTag == <<>>

\* The Response of the reply's own builder, marked as one that varies (markVary).
MarkedReply(a) ==
  [status |-> 200, type |-> IF a.type # "" THEN a.type ELSE DefaultType(a.by), coding |-> a.coding,
   vary |-> IF a.by \in {"own", "etag"} THEN a.vary ELSE a.vary \cup {"accept-encoding"}, cookies |-> a.cookies, body |-> a.body,
   etag |-> NoTag]

\* wrap(): compressed when the client takes it, the body is long enough and of a type that
\* shrinks, and the handler did not do it already.
Wrap(a, codings) ==
  LET coding == NegotiateEncoding(codings)
      plain == MarkedReply(a)
  IN IF a.by \notin {"json", "html", "send"} \/ coding = "" \/ ~a.long \/ ~Compressible(plain.type) \/ a.coding # ""
     THEN plain
     ELSE [plain EXCEPT !.coding = coding, !.body.layers = <<coding>> \o @]
-----------------------------------------------------------------------------
(* etag.ts *)

EntityTag(a) == <<IF a.weak THEN "W" ELSE "", a.body>>

\* Compared as a string: a list of tags, * or the other strength do not match.
WithETag(a) ==
  IF wanted.ifNoneMatch = <<EntityTag(a)>>
  THEN [MarkedReply(a) EXCEPT !.status = 304, !.type = "", !.body = NoBytes, !.etag = EntityTag(a)]
  ELSE [MarkedReply(a) EXCEPT !.type = "json", !.etag = EntityTag(a)]
-----------------------------------------------------------------------------
(* adapter-lambda: the Response and the result made of it *)

Textual(type) == type \in {"json", "html", "plain", "form"}
IsBinary(type) == type # "" /\ ~Textual(type)

\* What reaches the client of result.cookies, multiValueHeaders and headers: a load
\* balancer in single-value mode reads the header only, which has the first.
ResultCookies(r) == IF hosting = "alb" /\ Len(r.cookies) > 1 THEN <<r.cookies[1]>> ELSE r.cookies

\* convertResponse(): base64 for a type that is no text, response.text() otherwise.
ResultBody(r) ==
  CASE r.body.of = "none" -> NoBytes [] r.body.of # "none" /\ IsBinary(r.type) -> AsBase64(r.body)
    [] OTHER -> IF IsText(r.body) THEN r.body ELSE [r.body EXCEPT !.of = "garbled"]

ResponseToResult(r) == [r EXCEPT !.cookies = ResultCookies(r), !.body = ResultBody(r)]

\* The platform decodes what isBase64Encoded says is encoded.
SentOn(result) == IF Outermost(result.body, "base64") THEN [result EXCEPT !.body = Under(@)] ELSE result

Failed500 == [status |-> 500, type |-> "json", coding |-> "", vary |-> {}, cookies |-> <<>>,
              body |-> [layers |-> <<>>, of |-> "text"], etag |-> NoTag]
-----------------------------------------------------------------------------
(* The exchange *)

ExchangeInit ==
  /\ hosting \in EventSources \cup {"server"} /\ wanted \in ClientRequests /\ hop = "sent"
  /\ perceived = <<>> /\ picked = <<>> /\ said = <<>> /\ answered = <<>> /\ delivered = <<>>

Perceive ==
  /\ hop = "sent" /\ hop' = "handling"
  /\ perceived' = IF hosting = "server" THEN AsSent(wanted) ELSE EventToRequest(LambdaEvent(wanted))
  /\ picked' = [type |-> Accepts(wanted.types), coding |-> AcceptsEncoding(wanted.codings),
                language |-> AcceptsLanguage(wanted.languages)]
  /\ UNCHANGED <<hosting, wanted, said, answered, delivered>>

\* The handler answers; on its way out the answer goes through the compressing reply.
HandlerReplies ==
  /\ hop = "handling" /\ hop' = "answered"
  /\ \E a \in AppAnswers : said' = a /\ answered' = IF a.by = "etag" THEN WithETag(a) ELSE Wrap(a, wanted.codings)
  /\ UNCHANGED <<hosting, wanted, perceived, picked, delivered>>

\* The adapter's result; its last resort when the Response cannot be read.
Return ==
  /\ hop = "answered" /\ hop' = "delivered"
  /\ \/ delivered' = IF hosting = "server" THEN answered ELSE SentOn(ResponseToResult(answered))
     \/ hosting # "server" /\ said.by = "own" /\ delivered' = Failed500
  /\ UNCHANGED <<hosting, wanted, perceived, picked, said, answered>>
-----------------------------------------------------------------------------
(* Cron triggers.  An expression is its fields, as <<text, spacing>>; its spacing is *)
(* collapsed before it is compared (normalizeCron).                                  *)

NormalizeCron(expression) == IF expression = <<>> THEN "" ELSE expression[1]

CronNames == DOMAIN cronTable
Matching(trigger) == {j \in CronNames : trigger # <<>> /\ NormalizeCron(cronTable[j]) = NormalizeCron(trigger)}
ToRun(trigger) == IF Matching(trigger) # {} THEN Matching(trigger) ELSE CronNames

Unused == [state |-> "unused", trigger |-> <<>>, outcome |-> [j \in {} |-> ""], status |-> 0, ran |-> {}, failed |-> {}]

CronInit == cronTable \in CronTables /\ invocations = [i \in 1..MaxInvocations |-> Unused]

Refused(status) == [Unused EXCEPT !.state = "done", !.status = status]

\* The jobs start together.  A secret that is not set, or not the caller's, starts none;
\* Cloudflare's triggers come with no secret.  With no jobs Vercel's request goes to the
\* router, Cloudflare's trigger is over.
Invoke(i) ==
  /\ invocations[i].state = "unused"
  /\ \E trigger \in Triggers, secret \in {"matches", "differs", "unset", "no secret needed"} :
       invocations' = [invocations EXCEPT ![i] =
         CASE secret = "unset" -> Refused(503) [] secret = "differs" -> Refused(401) [] OTHER ->
           IF CronNames = {} THEN Refused(200)
           ELSE [Unused EXCEPT !.state = "running", !.trigger = trigger, !.outcome = [j \in ToRun(trigger) |-> "pending"]]]
  /\ UNCHANGED cronTable

JobEnds(i) ==
  \E j \in DOMAIN invocations[i].outcome, ending \in {"ran", "failed"} :
    /\ invocations[i].outcome[j] = "pending"
    /\ invocations' = [invocations EXCEPT ![i].outcome[j] = ending]
    /\ UNCHANGED cronTable

\* Promise.allSettled() has settled: 500, or a rejection on Cloudflare, when a job failed.
CronAnswers(i) ==
  LET those(ending) == {j \in DOMAIN invocations[i].outcome : invocations[i].outcome[j] = ending}
  IN /\ invocations[i].state = "running" /\ those("pending") = {}
     /\ invocations' = [invocations EXCEPT ![i].state = "done", ![i].ran = those("ran"), ![i].failed = those("failed"),
                                           ![i].status = IF those("failed") = {} THEN 200 ELSE 500]
     /\ UNCHANGED cronTable

PlatformsInit == ExchangeInit /\ CronInit

ExchangeNext == Perceive \/ HandlerReplies \/ Return
ExchangesSpec == ExchangeInit /\ [][ExchangeNext]_exchangeVars
TriggersNext == \E i \in 1..MaxInvocations : Invoke(i) \/ JobEnds(i) \/ CronAnswers(i)
TriggersSpec == CronInit /\ [][TriggersNext]_cronVars
-----------------------------------------------------------------------------
(* Properties *)

\* The application is asked what the client asked: every cookie, every header with a value,
\* every parameter and the body, from the client's address and over its scheme.  A load
\* balancer tells no address, and in single-value mode the last of repeated values only.
RequestArrives ==
  hop # "sent" =>
    LET Of(f) == IF hosting = "alb" THEN LastOnly(f) ELSE f
    IN /\ perceived.cookies = wanted.cookies /\ perceived.query = Of(wanted.query)
       /\ \A h \in DOMAIN Valued(LastOnly(wanted.headers)) : h \in DOMAIN perceived.headers /\ perceived.headers[h] = Of(wanted.headers)[h]
       /\ perceived.body = IF wanted.method \in {"GET", "HEAD"} THEN NoBytes ELSE wanted.body
       /\ perceived.remote = IF hosting \in {"alb", "albMulti"} THEN "none" ELSE "client"
       /\ perceived.proto = wanted.proto \/ wanted.proto \notin {"http", "https"}

\* What a handler is told to answer in, some range of the client's takes, and no range of
\* a higher quality takes anything the handler has; it is told nothing only if none does.
Reasonable(entries, available, pick, Fits(_, _)) ==
  LET takes(i, a) == entries[i].q > 0 /\ Fits(entries[i].range, a)
      all == {available[i] : i \in DOMAIN available}
  IN entries # <<>> =>
       IF pick = <<>> THEN \A i \in DOMAIN entries, a \in all : ~takes(i, a)
       ELSE \E i \in DOMAIN entries : takes(i, pick) /\ \A j \in DOMAIN entries, a \in all : takes(j, a) => entries[j].q <= entries[i].q
PicksReasonable ==
  picked # <<>> => /\ Reasonable(wanted.types, MediaTypes, picked.type, TypeFits)
                   /\ Reasonable(wanted.codings, Codings, picked.coding, CodingFits)
                   /\ Reasonable(wanted.languages, Languages, picked.language, SamePrimary)

\* The plugin compresses with a coding the client takes, the one it prefers of those the
\* server has, and never what the handler encoded.
CodingTaken ==
  answered # <<>> /\ said.by # "etag" /\ answered.coding # said.coding =>
    /\ said.coding = "" /\ Quality(wanted.codings, answered.coding) > 0
    /\ \A i \in DOMAIN Encodings : Quality(wanted.codings, Encodings[i]) <= Quality(wanted.codings, answered.coding)

\* An answer it would have made otherwise for another client says that it varies by
\* Accept-Encoding.
VariesTold ==
  answered # <<>> /\ said.by # "etag" =>
    \A r \in ClientRequests : Wrap(said, r.codings) # answered => "accept-encoding" \in answered.vary

\* The client reads what the handler answered, or was told that its copy is that; and it
\* gets every cookie, from a load balancer in single-value mode the first.
Read(r) == IF Outermost(r.body, r.coding) THEN Under(r.body) ELSE r.body
TakenForText == hosting # "server" /\ ~IsBinary(answered.type) /\ ~IsText(answered.body)
AnswerArrives ==
  hop = "delivered" /\ delivered.status # 500 =>
    /\ IF delivered.status = 304 THEN \E i \in DOMAIN wanted.ifNoneMatch : wanted.ifNoneMatch[i][2] = said.body
       ELSE TakenForText \/ Read(delivered) = Read(said)
    /\ delivered.cookies = said.cookies \/ (hosting = "alb" /\ delivered.cookies = <<said.cookies[1]>>)

\* An invocation is reported a success exactly when every job it selected has ended well,
\* and names those that did not; it selects the jobs of its expression, every job if there
\* are none of it, and none for a caller without the secret.
InvocationsTold ==
  \A i \in 1..MaxInvocations :
    LET inv == invocations[i]
        selected == DOMAIN inv.outcome
    IN /\ inv.state = "done" /\ selected # {} =>
            /\ inv.ran \cup inv.failed = selected /\ (inv.status = 200) = (\A j \in selected : inv.outcome[j] = "ran")
            /\ \A j \in selected : (j \in inv.failed) = (inv.outcome[j] = "failed")
       /\ \A j \in selected : j \in Matching(inv.trigger) \/ Matching(inv.trigger) = {}
       /\ Matching(inv.trigger) \subseteq selected \/ selected = {}
       /\ inv.status \in {401, 503} => selected = {}

PlatformsSound == RequestArrives /\ PicksReasonable /\ CodingTaken /\ VariesTold /\ AnswerArrives /\ InvocationsTold

\* adapter-lambda/README.md: binary responses are base64-encoded.  An answer that was
\* compressed reaches the client as the bytes it is.
BinaryEncoded == hop = "delivered" /\ answered.coding # said.coding => delivered.body = answered.body
=============================================================================
