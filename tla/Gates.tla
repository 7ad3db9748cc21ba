-------------------------------- MODULE Gates --------------------------------
(***************************************************************************)
(* The gates in front of a handler that look at where a request comes      *)
(* from: tokens bound to sessions (core/src/plugins/csrf.ts), CORS headers *)
(* on responses a shared cache keeps (core/src/plugins/cors.ts), and the   *)
(* authorization of WebSocket upgrades (core/src/websocket.ts).            *)
(*                                                                         *)
(* A behaviour is about one of the three.  Origins are the site's own,     *)
(* others, and "" for none; what callbacks and hooks of the application    *)
(* decide is any choice.                                                   *)
(***************************************************************************)
EXTENDS Naturals, FiniteSets, Sequences

CONSTANTS Origins,         \* origins other than the site's own
          TrustedOrigins,  \* CSRFOptions.trustedOrigins, those of CORSOptions.origin
          MaxEpochs,       \* bound: restarts of the process
          MaxIssued        \* bound: tokens issued

Own == "own"
Anonymous == "nobody"
BrowserSessions == {Anonymous, "user"}
NoToken == [epoch |-> 0, session |-> "none", nonce |-> 0]

VARIABLES gate,        \* which gate this is about
          settings,    \* how it is configured
          epoch,       \* the process's life: a random secret rotates with it
          session,     \* the browser's session
          issued,      \* tokens issued
          delivering,  \* responses with a token, on their way to the browser
          jarToken,    \* the token cookie the browser holds
          pageToken,   \* one that a page of it read earlier
          mutation,    \* the mutating request just checked, and what became of it
          cached,      \* responses the shared cache holds
          obtained,    \* the last response a browser got
          upgradeAt,   \* where authorizeWSUpgrade() is
          passed       \* history: the checks the upgrade passed

csrfVars == <<epoch, session, issued, delivering, jarToken, pageToken, mutation>>
corsVars == <<cached, obtained>>
upgradeVars == <<upgradeAt, passed>>
gateVars == <<gate, settings, csrfVars, corsVars, upgradeVars>>

Settings ==
  [csrf |-> [bound : BOOLEAN, fixed : BOOLEAN, checkOrigin : BOOLEAN],
   cors |-> [origin : {"*", "listed"}, credentials : BOOLEAN],
   upgrade |-> [allowedOrigins : {"*", "listed", "predicate", "unset"}, allowMissingOrigin : BOOLEAN,
                onUpgrade : BOOLEAN, runRequestHooks : BOOLEAN, from : {"", Own, "malformed"} \cup Origins]]

\* cors() throws when any origin is to get credentials.
GatesInit ==
  /\ gate \in DOMAIN Settings /\ settings \in Settings[gate]
  /\ gate = "cors" => ~(settings.origin = "*" /\ settings.credentials)
  /\ epoch = 1 /\ session = Anonymous /\ issued = 0 /\ delivering = {} /\ jarToken = NoToken /\ pageToken = NoToken
  /\ mutation = <<>> /\ cached = {} /\ obtained = <<>> /\ upgradeAt = "origin" /\ passed = {}
-----------------------------------------------------------------------------
(* CSRF *)

\* The session a token is signed for, and the secret it is signed with.
BoundTo == IF settings.bound THEN session ELSE ""
Secret == IF settings.fixed THEN 0 ELSE epoch

\* verifyToken(): a signature of ours over exactly this session.
VerifyToken(token) == token # NoToken /\ token.epoch = Secret /\ token.session = BoundTo

CsrfTurn == gate = "csrf" /\ UNCHANGED <<gate, settings, corsVars, upgradeVars>>
Unasked == CsrfTurn /\ mutation' = <<>>

\* A safe request is answered with a token, unless the one it brought is good.
SafeRequest ==
  /\ Unasked /\ UNCHANGED <<epoch, session, jarToken, pageToken>>
  /\ ~VerifyToken(jarToken) /\ issued < MaxIssued /\ issued' = issued + 1
  /\ delivering' = delivering \cup {[epoch |-> Secret, session |-> BoundTo, nonce |-> issued']}

\* Responses arrive in any order.
TokenArrives ==
  /\ Unasked /\ UNCHANGED <<epoch, session, issued, pageToken>>
  /\ \E token \in delivering : jarToken' = token /\ delivering' = delivering \ {token}

PageReads == Unasked /\ pageToken' = jarToken /\ UNCHANGED <<epoch, session, issued, delivering, jarToken>>

SessionChanges ==
  /\ Unasked /\ session' \in BrowserSessions \ {session}
  /\ UNCHANGED <<epoch, issued, delivering, jarToken, pageToken>>

Restarts ==
  /\ Unasked /\ epoch < MaxEpochs /\ epoch' = epoch + 1
  /\ UNCHANGED <<session, issued, delivering, jarToken, pageToken>>

\* The check of Sec-Fetch-Site and Origin: "none" is as "same-origin", "same-site" as
\* "cross-site", and no other value is accepted.
OriginAccepted(site, origin) ==
  /\ origin # "malformed"
  /\ \/ site = "cross-site" /\ origin \in TrustedOrigins
     \/ site \in {"same-origin", ""} /\ origin \in {"", Own} \cup TrustedOrigins

\* The hook on a mutating request.
Admits(site, origin, header) ==
  /\ settings.checkOrigin => OriginAccepted(site, origin)
  /\ header # NoToken /\ header = jarToken /\ VerifyToken(jarToken)

\* A check changes nothing: one at a time, between two changes, shows them all.
MutatingRequest ==
  /\ CsrfTurn /\ mutation = <<>> /\ UNCHANGED <<epoch, session, issued, delivering, jarToken, pageToken>>
  /\ \E site \in {"same-origin", "cross-site", "unknown", ""}, origin \in {"", Own, "malformed"} \cup Origins,
        header \in {NoToken, jarToken, pageToken} :
       mutation' = <<[site |-> site, origin |-> origin, header |-> header, admitted |-> Admits(site, origin, header)]>>
-----------------------------------------------------------------------------
(* CORS *)

\* resolveOriginHeader(), "" for an origin that is not allowed.
AllowOrigin(origin) ==
  IF settings.origin = "*" THEN "*" ELSE IF origin \in TrustedOrigins THEN origin ELSE ""

\* What the plugin adds to a response, or answers a preflight with.
CorsHeaders(origin) ==
  [allowOrigin |-> AllowOrigin(origin), vary |-> settings.origin # "*",
   credentials |-> AllowOrigin(origin) # "" /\ settings.credentials]

\* A browser at an origin asks for a page, or asks if it may: a cache on the way answers
\* from what it holds, as Vary lets it, or keeps what the server answers.
Fetches ==
  /\ gate = "cors" /\ UNCHANGED <<gate, settings, csrfVars, upgradeVars>>
  /\ \E origin \in {""} \cup Origins, kind \in {"page", "preflight"} :
       LET usable == {r \in cached : r.kind = kind /\ (r.headers.vary => r.origin = origin)}
           fresh == [kind |-> kind, origin |-> origin, headers |-> CorsHeaders(origin)]
       IN \/ usable = {} /\ cached' = cached \cup {fresh} /\ obtained' = <<[by |-> origin, response |-> fresh]>>
          \/ UNCHANGED cached /\ \E r \in usable : obtained' = <<[by |-> origin, response |-> r]>>
-----------------------------------------------------------------------------
(* WebSocket upgrades *)

\* checkWSOrigin(): what it allows; a predicate decides for itself, but of some origin.
\* No origin is malformed to a predicate or a list, which do not parse it.
OriginChecked ==
  LET origin == settings.from
  IN IF origin = "" THEN {settings.allowMissingOrigin}
     ELSE CASE settings.allowedOrigins = "*" -> {TRUE}
            [] settings.allowedOrigins = "listed" -> {origin \in TrustedOrigins}
            [] settings.allowedOrigins = "predicate" -> BOOLEAN
            [] settings.allowedOrigins = "unset" -> {origin = Own}

\* authorizeWSUpgrade(): each check is awaited, and one that throws refuses.
UpgradeStep(here, next, outcomes) ==
  /\ gate = "upgrade" /\ upgradeAt = here /\ UNCHANGED <<gate, settings, csrfVars, corsVars>>
  /\ \E ok \in outcomes : /\ upgradeAt' = IF ok THEN next ELSE "refused"
                          /\ passed' = IF ok THEN passed \cup {here} ELSE passed

AfterCallback == IF settings.runRequestHooks THEN "hooks" ELSE "allowed"
CheckOrigin == UpgradeStep("origin", IF settings.onUpgrade THEN "onUpgrade" ELSE AfterCallback, OriginChecked)
CallOnUpgrade == UpgradeStep("onUpgrade", AfterCallback, BOOLEAN)
RunUpgradeHooks == UpgradeStep("hooks", "allowed", BOOLEAN)

GatesNext ==
  \/ SafeRequest \/ TokenArrives \/ PageReads \/ SessionChanges \/ Restarts \/ MutatingRequest
  \/ Fetches \/ CheckOrigin \/ CallOnUpgrade \/ RunUpgradeHooks

GatesSpec == GatesInit /\ [][GatesNext]_gateVars
-----------------------------------------------------------------------------
(* Properties *)

\* A token admits only in the session it was issued in, and only while the secret lives:
\* one from before a login does not admit after it, however late it arrived.  A request
\* whose browser names another site is admitted if it is from a trusted origin.
AdmittedRightly ==
  \A m \in {mutation[i] : i \in DOMAIN mutation} : m.admitted =>
    /\ m.header = jarToken /\ jarToken.session = BoundTo /\ jarToken.epoch = Secret
    /\ settings.checkOrigin /\ m.site = "cross-site" => m.origin \in TrustedOrigins
    /\ settings.checkOrigin => m.origin \in {"", Own} \cup TrustedOrigins

\* A page of the site that sends the cookie it holds is refused only if that cookie is of
\* another session or another life of the process: the next safe request mends it.
HonestAdmitted ==
  \A m \in {mutation[i] : i \in DOMAIN mutation} :
    ~m.admitted /\ m.site \in {"same-origin", ""} /\ m.origin = Own /\ m.header = jarToken =>
      jarToken = NoToken \/ jarToken.session # BoundTo \/ jarToken.epoch # Secret

\* No browser gets from a cache the headers meant for another origin, nor credentials
\* for any but an origin that is listed.
CachesHonest ==
  \A o \in {obtained[i] : i \in DOMAIN obtained} :
    /\ o.response.headers = CorsHeaders(o.by)
    /\ o.response.headers.credentials => o.by \in TrustedOrigins

\* An upgrade is let through by all checks there are, the hooks among them.
UpgradesChecked ==
  upgradeAt = "allowed" =>
    passed = {"origin"} \cup (IF settings.onUpgrade THEN {"onUpgrade"} ELSE {})
                        \cup (IF settings.runRequestHooks THEN {"hooks"} ELSE {})

GatesSound == AdmittedRightly /\ HonestAdmitted /\ CachesHonest /\ UpgradesChecked
=============================================================================
