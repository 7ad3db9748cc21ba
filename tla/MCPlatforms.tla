------------------------------ MODULE MCPlatforms ------------------------------
(* TLC instance of Platforms.  Clients that refuse, rank and leave open what they take,
   with repeated headers and parameters, and bodies of text and of bytes; handlers that
   answer by every method of the reply, at both sides of the compression threshold, and
   with bytes of every kind of type; up to three jobs on two expressions, two of them
   written differently. *)
EXTENDS Platforms

Ranked(range, q) == [range |-> range, q |-> q]
Bytes(layers, of) == [layers |-> layers, of |-> of]
MCEncodings == <<"gzip", "deflate">>
MCMediaTypes == <<<<"application", "json">>, <<"text", "html">>>>
MCLanguages == <<<<"en", "US">>, <<"pl">>, <<"en", "GB">>>>

ClientRequest ==
  [method |-> "POST", cookies |-> <<"c1", "c2">>, headers |-> [x |-> <<"h1", "h2">>, y |-> <<"">>],
   query |-> [q |-> <<"1", "2">>], proto |-> "https", body |-> Bytes(<<>>, "binary"), codings |-> <<>>, types |-> <<>>,
   languages |-> <<>>, ifNoneMatch |-> <<>>]
MCCodings == {<<>>, <<Ranked(<<"gzip">>, 1), Ranked(<<"deflate">>, 2)>>, <<Ranked(<<"*">>, 1), Ranked(<<"gzip">>, 0)>>,
              <<Ranked(<<"gzip">>, 0)>>, <<Ranked(<<"br">>, 2), Ranked(<<"gzip">>, 1)>>}
MCTypes == {<<Ranked(<<"text", "*">>, 1), Ranked(<<"application", "json">>, 1)>>, <<Ranked(<<"*", "*">>, 1), Ranked(<<"text", "html">>, 2)>>,
            <<Ranked(<<"text", "html">>, 0), Ranked(<<"image", "png">>, 1)>>}
MCLanguageEntries == {<<Ranked(<<"en", "GB">>, 1), Ranked(<<"pl">>, 2)>>, <<Ranked(<<"en", "AU">>, 1)>>, <<Ranked(<<"de">>, 1), Ranked(<<"pl">>, 0)>>}
Version(n) == Bytes(<<>>, n)
MCTags == {<<<<"W", Version("text")>>>>, <<<<"", Version("text")>>>>, <<<<"W", Version("text")>>, <<"W", Version("newer")>>>>}
MCClientRequests ==
  {[ClientRequest EXCEPT !.codings = c] : c \in MCCodings} \cup {[ClientRequest EXCEPT !.types = t] : t \in MCTypes}
    \cup {[ClientRequest EXCEPT !.languages = l] : l \in MCLanguageEntries} \cup {[ClientRequest EXCEPT !.ifNoneMatch = t] : t \in MCTags}
    \cup {[ClientRequest EXCEPT !.method = "GET", !.proto = "ftp"], [ClientRequest EXCEPT !.body = Bytes(<<>>, "text"), !.cookies = <<>>],
          [ClientRequest EXCEPT !.body = NoBytes, !.proto = "http"]}

Given(by, type, body) ==
  [by |-> by, type |-> type, coding |-> "", vary |-> {}, cookies |-> <<"s1", "s2">>, body |-> body, long |-> TRUE, weak |-> TRUE]
MCAppAnswers ==
  {Given(by, "", Bytes(<<>>, "text")) : by \in {"json", "html", "send"}} \cup {Given("null", "", NoBytes)}
    \cup {Given("bytes", type, Bytes(<<>>, "binary")) : type \in {"", "png", "json"}} \cup {Given("own", "", Bytes(<<>>, "binary"))}
    \cup {[Given("json", "", Bytes(<<>>, "text")) EXCEPT !.long = FALSE, !.cookies = <<"s1">>],
          [Given("send", "png", Bytes(<<>>, "text")) EXCEPT !.vary = {"origin"}],
          [Given("bytes", "json", Bytes(<<"br">>, "text")) EXCEPT !.coding = "br"],
          [Given("send", "json", Bytes(<<"hex">>, "text")) EXCEPT !.coding = "hex"]}
    \cup {[Given("etag", "", Version(n)) EXCEPT !.weak = w] : n \in {"text", "newer"}, w \in BOOLEAN}

Nightly == <<"0 3 * * *", "plain">>
NightlySpaced == <<"0 3 * * *", "spaced">>
Hourly == <<"0 * * * *", "plain">>
MCCronTables == {<<>>, <<Hourly>>, <<Nightly, NightlySpaced, Hourly>>}
MCTriggers == {<<>>, Nightly, <<"1 1 1 1 1", "plain">>}

\* One exchange, with no cron jobs.
ExchangeSpec == PlatformsInit /\ cronTable = <<>> /\ [][ExchangeNext /\ UNCHANGED cronVars]_platformVars
=============================================================================
