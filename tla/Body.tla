--------------------------------- MODULE Body ---------------------------------
(***************************************************************************)
(* What a request brings, from the socket to the handler: the address and  *)
(* URL of who sent it (core/src/request.ts), its body, read in chunks      *)
(* under a limit and parsed (core/src/body-parser.ts), validation          *)
(* (core/src/app.ts), and the upload plugin (core/src/plugins/upload.ts).  *)
(*                                                                         *)
(* A request has a method, a content type, the length it declares, the     *)
(* sizes of its chunks, and what its bytes say: a JSON value, text or the  *)
(* parts of a form.  A file name is the sequence of its characters.        *)
(***************************************************************************)
EXTENDS Integers, Sequences, FiniteSets, SequencesExt

CONSTANTS Incoming,       \* the requests
          BodyLimits,     \* options.bodyLimit, 0 for none
          ParsersGiven,   \* the content types of addContentTypeParser(), in order
          MaxFileSize, MaxFiles,
          MimesAllowed,   \* allowedMimeTypes, {} if unset
          Sniffable       \* the types magic bytes tell

VARIABLES incoming,
          bodyLimit,
          bodyAt,      \* the await the request is at
          chunksRead,  \* chunks taken from the stream
          parsedBody,
          partAt,      \* the part of the form the upload plugin is at
          files,       \* the files it has read
          bodyStatus   \* of the error response, 0 if there is none

bodyVars == <<incoming, bodyLimit, bodyAt, chunksRead, parsedBody, partAt, files, bodyStatus>>

Unstated == -1
Undefined == [t |-> "undefined"]

BodyInit ==
  /\ incoming \in Incoming /\ bodyLimit \in BodyLimits
  /\ bodyAt = "parsing" /\ chunksRead = 0 /\ parsedBody = Undefined
  /\ partAt = 0 /\ files = <<>> /\ bodyStatus = 0

Taken == FoldLeft(+, 0, SubSeq(incoming.chunks, 1, chunksRead))
Total == FoldLeft(+, 0, incoming.chunks)

Pass(next) == bodyAt' = next /\ UNCHANGED bodyStatus
RefuseWith(code) == bodyAt' = "refused" /\ bodyStatus' = code
-----------------------------------------------------------------------------
(* Parsing *)

Handled == {"json", "form", "multipart", "text"}
Custom == Contains(ParsersGiven, incoming.type)

\* scrubPrototypePollution(): a copy without the keys, at every depth.
PollutingKeys == {"__proto__", "constructor", "prototype"}
RECURSIVE Scrubbed(_)
Scrubbed(value) ==
  CASE value.t = "array" -> [value EXCEPT !.of = [i \in DOMAIN value.of |-> Scrubbed(value.of[i])]]
    [] value.t = "object" -> [value EXCEPT !.fields = [f \in DOMAIN value.fields \ PollutingKeys |-> Scrubbed(value.fields[f])]]
    [] OTHER -> value

\* What the text or the form becomes; an error if it cannot be read.
ParsedAs(content) ==
  CASE content.t \in {"broken", "blank"} /\ incoming.type \in {"form", "multipart"} -> RefuseWith(400) /\ UNCHANGED parsedBody
    [] content.t = "broken" /\ incoming.type = "json" -> RefuseWith(400) /\ UNCHANGED parsedBody
    [] content.t = "blank" /\ incoming.type = "json" -> Pass("validating") /\ UNCHANGED parsedBody
    [] OTHER -> Pass("validating") /\ parsedBody' = IF incoming.type = "json" THEN Scrubbed(content) ELSE content

\* A parser of the application's takes the bytes and answers or throws.
CustomParsed ==
  \/ Pass("validating") /\ parsedBody' = incoming.content
  \/ RefuseWith(500) /\ UNCHANGED parsedBody

\* parseBody() to its first await.  The text reader looks at the length declared before
\* it looks at whether there is a limit.
StartParsing ==
  /\ bodyAt = "parsing" /\ UNCHANGED <<incoming, bodyLimit, chunksRead, parsedBody, partAt, files>>
  /\ IF incoming.method \in {"GET", "HEAD"} \/ ~(Custom \/ incoming.type \in Handled) THEN Pass("validating")
     ELSE IF incoming.declared > bodyLimit /\ (bodyLimit > 0 \/ (~Custom /\ incoming.type \in {"json", "text"}))
     THEN RefuseWith(413)
     ELSE Pass("reading")

ReadEnds == IF Custom THEN CustomParsed ELSE ParsedAs(incoming.content)

\* Mutated form: the size is looked at when everything has been read.
ReadWhole ==
  /\ bodyAt = "reading" /\ UNCHANGED <<incoming, bodyLimit, partAt, files>>
  /\ IF chunksRead < Len(incoming.chunks)
     THEN chunksRead' = chunksRead + 1 /\ Pass("reading") /\ UNCHANGED parsedBody
     ELSE UNCHANGED chunksRead /\ IF bodyLimit > 0 /\ Taken > bodyLimit THEN RefuseWith(413) /\ UNCHANGED parsedBody ELSE ReadEnds

\* A chunk arrives, or the stream ends: readBodyText(), readBodyBytes().
ReadChunk ==
  /\ bodyAt = "reading" /\ UNCHANGED <<incoming, bodyLimit, partAt, files>>
  /\ IF chunksRead < Len(incoming.chunks)
     THEN /\ chunksRead' = chunksRead + 1 /\ UNCHANGED parsedBody
          /\ IF bodyLimit > 0 /\ Taken + incoming.chunks[chunksRead + 1] > bodyLimit THEN RefuseWith(413) ELSE Pass("reading")
     ELSE UNCHANGED chunksRead /\ ReadEnds

\* The stream fails, because the client has gone: not a parser's error, but reported as one.
StreamFails ==
  /\ bodyAt = "reading" /\ RefuseWith(IF Custom THEN 500 ELSE 400)
  /\ UNCHANGED <<incoming, bodyLimit, chunksRead, parsedBody, partAt, files>>

\* validateRequest(): the schema's output, if there is a schema, replaces the body.
ValidateInput ==
  /\ bodyAt = "validating" /\ UNCHANGED <<incoming, bodyLimit, chunksRead, partAt, files>>
  /\ \/ Pass("preHandler") /\ parsedBody' \in {parsedBody, [t |-> "validated"]}
     \/ RefuseWith(400) /\ UNCHANGED parsedBody
-----------------------------------------------------------------------------
(* Uploads *)

\* The parts the plugin finds: none if a schema has made something else of the form, since
\* the body cannot be read again.
Parts == IF parsedBody.t = "parts" THEN parsedBody.parts ELSE <<>>
FilesOf(parts) == SelectSeq(parts, LAMBDA p : p.kind = "file")

\* Count and size are checked before any file is read.
CountFiles ==
  /\ bodyAt = "preHandler" /\ UNCHANGED <<incoming, bodyLimit, chunksRead, parsedBody, partAt, files>>
  /\ IF incoming.type # "multipart" THEN Pass("handler")
     ELSE IF Len(FilesOf(Parts)) > MaxFiles \/ \E i \in DOMAIN FilesOf(Parts) : FilesOf(Parts)[i].size > MaxFileSize
     THEN RefuseWith(413) ELSE Pass("uploading")

\* Is the declared type allowed, and do the bytes, which say what they are, agree?
TypeAgrees(file) ==
  MimesAllowed # {} =>
    /\ file.mime \in MimesAllowed
    /\ file.bytes # "unknown" => file.bytes \in MimesAllowed
    /\ file.mime \in Sniffable => file.bytes = file.mime

\* A part is looked at, a file read: arrayBuffer().
TakePart ==
  /\ bodyAt = "uploading" /\ UNCHANGED <<incoming, bodyLimit, chunksRead, parsedBody>>
  /\ IF partAt = Len(Parts) THEN Pass("handler") /\ UNCHANGED <<partAt, files>>
     ELSE /\ partAt' = partAt + 1
          /\ LET part == Parts[partAt + 1]
             IN IF part.kind = "text" THEN Pass("uploading") /\ UNCHANGED files
                ELSE IF TypeAgrees(part) THEN Pass("uploading") /\ files' = Append(files, part)
                ELSE RefuseWith(415) /\ UNCHANGED files

\* The fields the plugin hands over, when it has come to the end.
Fields == IF incoming.type # "multipart" THEN {} ELSE {Parts[i].name : i \in {k \in DOMAIN Parts : Parts[k].kind = "text"}} \ PollutingKeys

BodyNext == StartParsing \/ ReadChunk \/ StreamFails \/ ValidateInput \/ CountFiles \/ TakePart

\* Stripped of what trim() and the two replacements take, in turn, until nothing changes.
RECURSIVE Stripped(_)
Stripped(name) ==
  IF name = <<>> THEN name
  ELSE IF name[1] \in {" ", "."} THEN Stripped(Tail(name))
  ELSE IF name[Len(name)] \in {" ", "."} THEN Stripped(Front(name))
  ELSE name

\* sanitizeFileName(): the last path component without control characters.
SafeFileName(name) ==
  LET separators == {i \in DOMAIN name : name[i] \in {"/", "\\"}}
      base == SubSeq(name, 1 + IF separators = {} THEN 0 ELSE CHOOSE i \in separators : \A j \in separators : j <= i, Len(name))
      cleaned == Stripped(SelectSeq(base, LAMBDA c : c # "nul"))
  IN IF cleaned = <<>> THEN <<"file">>
     ELSE IF cleaned[1] = "con" /\ (Len(cleaned) = 1 \/ cleaned[2] = ".") THEN <<"file_">> \o cleaned
     ELSE cleaned
-----------------------------------------------------------------------------
(* Who asks *)

\* resolveClientIp(): the entry `hops` from the right of the header, else the peer.
ClientIp(entries, hops, peer) ==
  LET place == Len(entries) + 1 - hops
  IN IF place >= 1 /\ entries[place] # "text" THEN entries[place] ELSE peer

\* applyForwardedAuthority(): what the client addressed; "" is a header that is missing
\* or is no authority.
Authority(bound, host, forwarded, trustProxy, trustedHosts) ==
  IF trustProxy /\ forwarded # "" /\ forwarded \in trustedHosts THEN forwarded ELSE IF host # "" THEN host ELSE bound
-----------------------------------------------------------------------------
(* Properties *)

\* No more is read than the limit and the chunk that passes it, and what a parser is
\* given is within the limit.
LimitHolds ==
  bodyLimit > 0 =>
    /\ chunksRead > 0 => Taken - incoming.chunks[chunksRead] <= bodyLimit
    /\ parsedBody.t \notin {"undefined", "validated"} => Taken <= bodyLimit /\ Taken = Total

\* A body is refused as too large when it is; without a limit only a text that declares
\* its length is, and a form's files.
RefusedRightly ==
  bodyStatus = 413 =>
    \/ incoming.declared > bodyLimit /\ (bodyLimit > 0 \/ incoming.type \in {"json", "text"})
    \/ bodyLimit > 0 /\ Total > bodyLimit
    \/ incoming.type = "multipart" /\ Len(FilesOf(Parts)) > 0

\* A handler that finds no body was sent none it could be given.
HandlerHasBody ==
  bodyAt = "handler" /\ parsedBody = Undefined =>
    \/ incoming.method \in {"GET", "HEAD"} \/ ~(Custom \/ incoming.type \in Handled)
    \/ incoming.type = "json" /\ incoming.content.t = "blank"

\* No key that reaches a prototype is in a JSON body or in the fields of a form.
RECURSIVE KeysOf(_)
KeysOf(value) ==
  CASE value.t = "array" -> UNION {KeysOf(value.of[i]) : i \in DOMAIN value.of}
    [] value.t = "object" -> DOMAIN value.fields \cup UNION {KeysOf(value.fields[f]) : f \in DOMAIN value.fields}
    [] OTHER -> {}
KeysClean ==
  bodyAt = "handler" => Fields \cap PollutingKeys = {} /\ (~Custom => KeysOf(parsedBody) \cap PollutingKeys = {})

\* All files of an upload are handed over or none is; they are within the limits, and of
\* an allowed type both as declared and as their bytes tell; and any name is safe to join
\* to a directory.
UploadsSound ==
  /\ bodyAt = "handler" /\ incoming.type = "multipart" => files = FilesOf(Parts) /\ Len(files) <= MaxFiles
  /\ \A i \in DOMAIN files :
       /\ files[i].size <= MaxFileSize
       /\ MimesAllowed # {} => {files[i].mime, files[i].bytes} \subseteq MimesAllowed \cup {"unknown"}
FileNamesSafe ==
  \A name \in UNION {[1..n -> {"a", ".", " ", "/", "nul", "con"}] : n \in 0..4} :
    LET safe == SafeFileName(name)
    IN /\ safe # <<>> /\ ToSet(safe) \cap {"/", "nul"} = {} /\ ToSet(safe) \cap {"a", "con", "file", "file_"} # {}
       /\ safe[1] \notin {".", " "} /\ safe[Len(safe)] \notin {".", " "} /\ safe # <<"con">>

\* With as many proxies as `hops`, each appending who spoke to it, the client is the one
\* the first of them saw, whatever the client wrote; and it is nobody a proxy did not name.
ClientKnown ==
  \A claimed \in UNION {[1..n -> {"claimed", "text"}] : n \in 0..2}, hops \in 1..3 :
    LET appended == <<"client">> \o [i \in 1..(hops - 1) |-> "proxy"]
    IN ClientIp(claimed \o appended, hops, "peer") = "client"

\* The host a client claims is the request's only if the operator trusts the proxy and has
\* named the host; what the socket is bound to only if nobody says anything else.
HostKnown ==
  \A trustProxy \in BOOLEAN, claimed \in {"", "shop", "other"}, host \in {"", "inner"} :
    LET to == Authority("bound", host, claimed, trustProxy, {"shop"})
    IN /\ to \in {"bound", "inner", "shop"}
       /\ to = "shop" => trustProxy
       /\ to = "bound" => host = ""

BodySound == LimitHolds /\ RefusedRightly /\ HandlerHasBody /\ KeysClean /\ UploadsSound /\ FileNamesSafe /\ ClientKnown /\ HostKnown

\* "Set to 0 to disable": without a limit no body is too large.
UnlimitedAccepts == bodyLimit = 0 /\ incoming.type # "multipart" => bodyStatus # 413
=============================================================================
