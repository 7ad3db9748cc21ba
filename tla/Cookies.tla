-------------------------------- MODULE Cookies --------------------------------
(***************************************************************************)
(* Cookies: the default of their Secure flag, with the warning about hosts *)
(* where a browser will not return them, their serialization, and the      *)
(* parsing of what a browser sends (core/src/cookie.ts).                   *)
(*                                                                         *)
(* A site is how a browser reaches the server: the scheme and the host it  *)
(* speaks to, and what is left of them in the request.  A value is the     *)
(* sequence of its characters, of the kinds the conversions tell apart.    *)
(***************************************************************************)
EXTENDS Naturals, Sequences, FiniteSets, SequencesExt

CONSTANTS Sites,           \* the sites
          NonRoutable,     \* the hosts isNonRoutableHost() is true of
          CookieTexts,     \* the values cookies are given
          ForeignPairs,    \* what else a Cookie header may hold, as pairs of texts
          MaxWarnedHosts   \* MAX_WARNED_HOSTS

ASSUME CookiesAssumption == MaxWarnedHosts \in Nat

VARIABLES warnedInsecureHosts, insecureHostWarningsSuppressed,
          warnings,  \* history: the warnings written
          jar        \* the browser's cookie, the last that was set, and its site

cookieVars == <<warnedInsecureHosts, insecureHostWarningsSuppressed, warnings, jar>>

CookiesInit ==
  /\ warnedInsecureHosts = {} /\ insecureHostWarningsSuppressed = FALSE /\ warnings = <<>>
  /\ jar = <<>>
-----------------------------------------------------------------------------
(* Values on the wire *)

\* encodeURIComponent(): what is not safe becomes an escape.
Escape(c) == <<"escape", c>>
Unsafe == {";", "=", "%", " ", "wide"}
Encoded(value) == [i \in DOMAIN value |-> IF value[i] \in Unsafe THEN Escape(value[i]) ELSE <<value[i], "raw">>]

\* decodeURIComponent(), which throws at a "%" that starts no escape.
DecodedText(text) ==
  IF \E i \in DOMAIN text : text[i] = <<"%", "raw">> THEN text
  ELSE [i \in DOMAIN text |-> IF text[i][1] = "escape" THEN <<text[i][2], "raw">> ELSE text[i]]

BlockedNames == {"__proto__", "constructor", "prototype"}

\* parseCookies(): the last of a name counts, a malformed value is taken as it is.
ParseCookies(pairs) ==
  LET Is(i, name) == pairs[i][1] = name
      names == {pairs[i][1] : i \in DOMAIN pairs} \ ({""} \cup BlockedNames)
      Place(name) == CHOOSE i \in DOMAIN pairs : Is(i, name) /\ \A j \in DOMAIN pairs : Is(j, name) => j <= i
  IN [name \in names |-> DecodedText(pairs[Place(name)][2])]
-----------------------------------------------------------------------------
(* Secure *)

\* The name the browser addressed, "" if the request has neither a Host nor a URL.
BrowserFacingHost(site) == IF site.hostHeader # "" THEN site.hostHeader ELSE site.urlHost

\* What a request says of its site is true: the host is the one the browser speaks to if
\* it is told at all, and only what came over TLS says so or comes without a host.  Nobody
\* else sets the application's cookie.  ("more" and "escape" are no host and no character.)
ASSUME SitesAssumption ==
  /\ \A site \in Sites :
       /\ BrowserFacingHost(site) \in {"", site.host} /\ site.host # "more"
       /\ site.scheme # "https" => /\ site.forwardedProto \notin {"https", "wss"}
                                  /\ site.urlProtocol \in {"http:", "ws:", "none"} /\ BrowserFacingHost(site) # ""
  /\ \A value \in CookieTexts : \A i \in DOMAIN value : value[i] # "escape"
  /\ \A pair \in ForeignPairs : pair[1] # "sid"

\* Is Secure out of the question, is it certain, or is it a guess to warn about?
SecureFor(site) ==
  CASE site.forwardedProto \in {"https", "wss"} -> "certain"
    [] site.forwardedProto \notin {"https", "wss"} /\ site.urlProtocol \notin {"http:", "ws:", "none"} -> "certain"
    [] OTHER -> IF BrowserFacingHost(site) = "" THEN "certain"
                ELSE IF BrowserFacingHost(site) \in NonRoutable THEN "no" ELSE "guess"

\* The warning: once for a host, and one more for all those past the limit.
Warn(host) ==
  IF host \in warnedInsecureHosts THEN UNCHANGED <<warnedInsecureHosts, insecureHostWarningsSuppressed, warnings>>
  ELSE IF Cardinality(warnedInsecureHosts) < MaxWarnedHosts
  THEN /\ warnedInsecureHosts' = warnedInsecureHosts \cup {host} /\ warnings' = Append(warnings, host)
       /\ UNCHANGED insecureHostWarningsSuppressed
  ELSE /\ insecureHostWarningsSuppressed' = TRUE /\ UNCHANGED warnedInsecureHosts
       /\ warnings' = IF insecureHostWarningsSuppressed THEN warnings ELSE Append(warnings, "more")

\* serializeCookie(): the option decides, else the site; the browser keeps what it is sent.
SetCookie(site, asked, value) ==
  /\ IF asked = "default" /\ SecureFor(site) = "guess" THEN Warn(BrowserFacingHost(site))
     ELSE UNCHANGED <<warnedInsecureHosts, insecureHostWarningsSuppressed, warnings>>
  /\ jar' = <<[site |-> site, asked |-> asked, value |-> value, text |-> Encoded(value),
               secure |-> asked = "yes" \/ (asked = "default" /\ SecureFor(site) # "no")]>>

\* resetCookieSecurityWarnings()
ResetWarnings ==
  /\ warnedInsecureHosts' = {} /\ insecureHostWarningsSuppressed' = FALSE /\ warnings' = <<>> /\ UNCHANGED jar

CookiesNext ==
  \/ \E site \in Sites, asked \in {"default", "yes", "no"}, value \in CookieTexts : SetCookie(site, asked, value)
  \/ ResetWarnings

CookiesSpec == CookiesInit /\ [][CookiesNext]_cookieVars

\* A browser returns a Secure cookie over TLS only.
Returns(cookie) == cookie.secure => cookie.site.scheme = "https"
-----------------------------------------------------------------------------
(* Properties *)

\* The default leaves out Secure at a host nobody else can reach only, whatever address
\* the server was bound to; and a browser returns every cookie set by default but over
\* plain HTTP to a host that can be reached, which has been warned about.
SecureRightly ==
  \A cookie \in ToSet(jar) :
    cookie.asked = "default" =>
      /\ ~cookie.secure => cookie.site.host \in NonRoutable
      /\ ~Returns(cookie) => /\ cookie.site.host \notin NonRoutable
                            /\ \/ warnings = <<>>  \* they were reset
                               \/ cookie.site.host \in warnedInsecureHosts
                               \/ insecureHostWarningsSuppressed

\* What the application reads back is what it set, whatever else the header holds.
ValuesReturn ==
  \A cookie \in ToSet(jar), before \in ForeignPairs, after \in ForeignPairs :
    LET parsed == ParseCookies(<<before, <<"sid", cookie.text>>, after>>)
    IN "sid" \in DOMAIN parsed /\ parsed["sid"] = [i \in DOMAIN cookie.value |-> <<cookie.value[i], "raw">>]

\* Hosts are the clients' to choose, yet there are never more warnings than the limit and one.
WarningsBounded ==
  /\ Cardinality(warnedInsecureHosts) <= MaxWarnedHosts /\ IsInjective(warnings)
  /\ Len(warnings) = Cardinality(warnedInsecureHosts) + IF insecureHostWarningsSuppressed THEN 1 ELSE 0

CookiesSound == SecureRightly /\ ValuesReturn /\ WarningsBounded
=============================================================================
