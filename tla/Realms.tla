-------------------------------- MODULE Realms --------------------------------
(***************************************************************************)
(* JWT realms: packages/jwt.  A realm is what jwt(options) returns; it is  *)
(* registered in a context, with a prefix of its own or without, and a     *)
(* guard without options finds out per request which realm applies.  jose  *)
(* is external: a token is its claims and the key that signed it.          *)
(***************************************************************************)
EXTENDS Integers, FiniteSets

CONSTANTS RealmHandles, \* results of jwt(options)
          RealmOptions, \* the options they may have been made with
          TopContext,   \* the root context
          Below,        \* contexts with a prefix in it
          MaxRealms,    \* bound: registrations
          MaxTokens,    \* bound: tokens minted
          LastSecond    \* bound: the clock

\* The issuers an option names are a list; a maximum age is a number of seconds.
ASSUME RealmsAssumption ==
  \A o \in RealmOptions :
    (o.iss # <<>> => 1 \in DOMAIN o.iss) /\ o.maxAge \in Nat \cup {-1} /\ o.lifetime \in Nat \cup {-1}

NoClaim == "none"
Forever == -1

VARIABLES config,   \* config[r]: the options, as resolveConfig() took them
          realms,   \* the registry: [n, id, where, prefixed] of the registrations
          tokens,   \* every token minted
          clock     \* seconds

realmVars == <<config, realms, tokens, clock>>

\* Options: the key it verifies with, whether it has the key to sign (a realm with a public
\* key or a JWKS endpoint may not), the issuers it takes (<<>> for any), a required subject,
\* requireExpiration, expiresIn (or Forever) and maxTokenAge (or Forever).  resolveConfig()
\* refuses to mint by default what the realm would then reject.
Resolvable(o) == ~(o.lifetime = Forever /\ o.requireExp)

RealmsInit ==
  /\ config \in [RealmHandles -> {o \in RealmOptions : Resolvable(o)}]
  /\ realms = {} /\ tokens = {} /\ clock = 0
-----------------------------------------------------------------------------
\* jwtPlugin(): one more entry in the app's registry, with a presence key of its own.
RegisterRealm(r, where, prefixed) ==
  /\ Cardinality(realms) < MaxRealms
  /\ realms' = realms \cup {[n |-> Cardinality(realms) + 1, id |-> r, where |-> where, prefixed |-> prefixed]}
  /\ UNCHANGED <<config, tokens, clock>>

\* signWithConfig(): what it makes of a payload's iss, sub and exp and the call's expiresIn
\* ("default" when it has none, or false).  by and own are history.
Minted(r, payload, expiresIn) ==
  LET o == config[r]
      lifetime == IF expiresIn = "default" THEN o.lifetime ELSE Forever
  IN [by |-> r, key |-> o.key, iat |-> clock, sub |-> payload.sub, own |-> payload.iss = NoClaim,
      iss |-> IF payload.iss = NoClaim /\ o.iss # <<>> THEN o.iss[1] ELSE payload.iss,
      exp |-> IF lifetime = Forever THEN payload.exp ELSE clock + lifetime]

\* realm.sign(), which needs no registration.
Sign(r, payload, expiresIn) ==
  /\ Cardinality(tokens) < MaxTokens /\ config[r].signs
  /\ tokens' = tokens \cup {Minted(r, payload, expiresIn)}
  /\ UNCHANGED <<config, realms, clock>>

\* app.jwt: the only registration, or an error.
SoleRealm == IF Cardinality(realms) = 1 THEN {e.id : e \in realms} ELSE {}

AppSign(payload, expiresIn) == \E r \in SoleRealm : Sign(r, payload, expiresIn)

Payloads == [iss : {NoClaim, "other"}, sub : {NoClaim, "user"}, exp : {Forever, LastSecond}]
-----------------------------------------------------------------------------
\* verifyWithConfig(): jose.jwtVerify() with the realm's verifyOptions, then the demand for
\* an exp claim.
VerifyWithConfig(o, t) ==
  /\ t.key = o.key
  /\ o.iss # <<>> => \E i \in DOMAIN o.iss : o.iss[i] = t.iss
  /\ o.sub # NoClaim => t.sub = o.sub
  /\ t.exp # Forever => t.exp > clock
  /\ o.maxAge # Forever => clock - t.iat <= o.maxAge
  /\ o.requireExp => t.exp # Forever

\* The realms whose presence key core puts on the requests of a context's routes: a realm
\* without a prefix is in the context it was registered in and in those below; one with a
\* prefix is in a context of its own, where there are no routes.
InScope(ctx) == {e \in realms : ~e.prefixed /\ e.where \in {ctx, TopContext}}

\* Mutated form: of several, the one that was registered first.
FirstApplicable(ctx) ==
  IF InScope(ctx) # {} THEN {e.id : e \in {e \in InScope(ctx) : \A f \in InScope(ctx) : e.n <= f.n}}
  ELSE SoleRealm

\* createJWTGuard() without options: the realm it verifies against; it throws when there
\* is no answer.
Applicable(ctx) ==
  IF Cardinality(InScope(ctx)) = 1 THEN {e.id : e \in InScope(ctx)}
  ELSE IF InScope(ctx) = {} THEN SoleRealm ELSE {}

\* createGuardForConfig(): the guard lets the request through and sets request.user.
Passes(ctx, t) == \E r \in Applicable(ctx) : VerifyWithConfig(config[r], t)

RealmTick ==
  /\ clock < LastSecond /\ clock' = clock + 1
  /\ UNCHANGED <<config, realms, tokens>>

RealmsNext ==
  \/ \E r \in RealmHandles, where \in {TopContext} \cup Below, prefixed \in BOOLEAN :
       RegisterRealm(r, where, prefixed)
  \/ \E payload \in Payloads, expiresIn \in {"default", "never"} :
       \/ \E r \in RealmHandles : Sign(r, payload, expiresIn)
       \/ AppSign(payload, expiresIn)
  \/ RealmTick

RealmsSpec == RealmsInit /\ [][RealmsNext]_realmVars
-----------------------------------------------------------------------------
\* No token passes the guard of a route that some realm with another key covers; where none
\* covers it, the realm that signed it is the only one of the app.
NoCrossover ==
  \A ctx \in {TopContext} \cup Below, t \in tokens : Passes(ctx, t) =>
    /\ \A e \in InScope(ctx) : config[e.id].key = t.key
    /\ InScope(ctx) = {} => \A e \in realms : config[e.id].key = t.key

\* A realm takes back what it signed, until it expires or is too old, unless the caller
\* chose claims the realm's options do not take.
RoundTrip ==
  \A t \in tokens : LET o == config[t.by] IN
    /\ t.own
    /\ o.sub # NoClaim => t.sub = o.sub
    /\ t.exp = Forever => ~o.requireExp
    /\ t.exp # Forever => clock < t.exp
    /\ o.maxAge # Forever => clock <= t.iat + o.maxAge
    => VerifyWithConfig(o, t)

\* However many realms an app runs and whenever they are registered, tokens of one realm
\* are good there and nowhere else.
RealmsApart == NoCrossover /\ RoundTrip

\* The inductive invariant behind it: there are finitely many registrations, and a token is
\* what signWithConfig() made of the options of the realm that signed it.
RealmsTypeOK ==
  /\ IsFiniteSet(realms) /\ \A e \in realms : e.id \in RealmHandles
  /\ config \in [RealmHandles -> RealmOptions]
  /\ clock \in Nat

SignedByItsRealm ==
  \A t \in tokens :
    /\ t.by \in RealmHandles /\ t.key = config[t.by].key /\ t.iat \in Nat
    /\ t.own /\ config[t.by].iss # <<>> => t.iss = config[t.by].iss[1]

RealmsInv == RealmsTypeOK /\ SignedByItsRealm
=============================================================================
