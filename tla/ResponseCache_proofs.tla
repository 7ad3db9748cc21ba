------------------------- MODULE ResponseCache_proofs -------------------------
(***************************************************************************)
(* What ResponseCache guarantees for any requests, credentials and         *)
(* faults: what is shared, who executes, and what a purge means.           *)
(***************************************************************************)
EXTENDS ResponseCache, FiniteSetTheorems, TLAPS

Places == {"new", "looking", "deleting", "waiting", "rereading",
           "handling", "storing", "served", "failed"}

LEMMA EntriesTyped ==
  /\ NoEntry \in Entry /\ OldEntry \in Entry
  /\ NoEntry.kind = "none" /\ OldEntry.kind = "private"
  /\ NoEntry.by = Nobody /\ OldEntry.by = Nobody
BY CacheAssumption DEF NoEntry, OldEntry, Entry, Someone

LEMMA OwnTyped ==
  ASSUME TypeOK, NEW r \in Requests, NEW kind \in {"public", "shared", "private"}
  PROVE  /\ Own(r, kind) \in Entry
         /\ Own(r, kind).by = r /\ Own(r, kind).kind = kind
         /\ Own(r, kind).cachedAt = now
BY DEF TypeOK, Own, Entry, Someone

LEMMA EntryFields == \A e \in Entry : e.by \in Someone /\ e.version \in 0..MaxWrites
BY DEF Entry

\* What the stretches shared by several actions leave typed.
LEMMA JoinTyped ==
  ASSUME TypeOK, NEW r \in Requests, JoinOrExecute(r)
  PROVE  /\ at' \in [Requests -> {"new", "looking", "deleting", "waiting", "rereading",
                                  "handling", "storing", "served", "failed"}]
         /\ awaited' \in [Requests -> Someone] /\ since' \in [Requests -> 0..MaxTime]
         /\ seen' \in [Requests -> 0..MaxWrites]
         /\ inFlight' \in Someone /\ latest' \in Someone
<1>1. CASE /\ at' = [at EXCEPT ![r] = "waiting"]
           /\ awaited' = [awaited EXCEPT ![r] = inFlight]
           /\ since' = [since EXCEPT ![r] = now]
           /\ UNCHANGED <<inFlight, latest, seen>>
  BY <1>1 DEF TypeOK
<1>2. CASE Execute(r) /\ UNCHANGED <<awaited, since>>
  BY <1>2 DEF TypeOK, Execute, Someone
<1> QED BY <1>1, <1>2 DEF JoinOrExecute

LEMMA RejectTyped ==
  ASSUME TypeOK, NEW r \in Requests, StoreRejects(r)
  PROVE  /\ at' \in [Requests -> {"new", "looking", "deleting", "waiting", "rereading",
                                  "handling", "storing", "served", "failed"}]
         /\ faulty' \subseteq Requests
         /\ spent' \in [purges : 0..MaxPurges, expiries : 0..MaxExpiries, faults : 0..MaxFaults]
<1>1. spent.faults \in Nat /\ spent.faults + 1 \in 0..MaxFaults
  BY CacheAssumption DEF TypeOK, StoreRejects
<1> QED BY <1>1 DEF TypeOK, StoreRejects

LEMMA TypeInit == Init => TypeOK
BY EntriesTyped, CacheAssumption DEF Init, TypeOK, Idle, Someone, Floor, NoFloor

LEMMA TypeStep == TypeOK /\ [Next]_vars => TypeOK'
<1> SUFFICES ASSUME TypeOK, [Next]_vars PROVE TypeOK'
  OBVIOUS
<1> USE EntriesTyped, CacheAssumption DEF TypeOK
<1>1. ASSUME NEW r \in Requests, Arrive(r) PROVE TypeOK'
  <2>1. arrived' \in [Requests -> [found : Entry, time : 0..MaxTime,
                                   cleared : SUBSET Someone, floor : Floor]]
    BY <1>1 DEF Arrive
  <2>2. CASE JoinOrExecute(r) /\ UNCHANGED answer
    BY <1>1, <2>1, <2>2, JoinTyped DEF Arrive, purging
  <2>3. CASE /\ at' = [at EXCEPT ![r] = "looking"]
             /\ answer' = [answer EXCEPT ![r] = entry]
             /\ UNCHANGED <<inFlight, awaited, since, seen, latest>>
    BY <1>1, <2>1, <2>3 DEF Arrive, purging
  <2> QED BY <1>1, <2>2, <2>3 DEF Arrive
<1>2. ASSUME NEW r \in Requests, Look(r) PROVE TypeOK'
  <2>1. CASE JoinOrExecute(r) /\ UNCHANGED <<entry, outcome, faulty, spent>>
    BY <1>2, <2>1, JoinTyped DEF Look, purging
  <2>2. CASE StoreRejects(r) /\ UNCHANGED <<entry, outcome, inFlight, awaited, since, seen, latest>>
    BY <1>2, <2>2, RejectTyped DEF Look, purging
  <2>3. CASE /\ Serve(r, answer[r])
             /\ UNCHANGED <<entry, inFlight, awaited, since, seen, faulty, latest, spent>>
    BY <1>2, <2>3 DEF Look, Serve, purging
  <2>4. CASE /\ entry' = NoEntry /\ at' = [at EXCEPT ![r] = "deleting"]
             /\ UNCHANGED <<outcome, inFlight, awaited, since, seen, faulty, latest, spent>>
    BY <1>2, <2>4 DEF Look, purging
  <2> QED BY <1>2, <2>1, <2>2, <2>3, <2>4 DEF Look
<1>3. ASSUME NEW r \in Requests, Deleted(r) PROVE TypeOK'
  BY <1>3, JoinTyped DEF Deleted, purging
<1>4. ASSUME NEW r \in Requests, Wake(r) PROVE TypeOK'
  BY <1>4 DEF Wake, history, purging
<1>5. ASSUME NEW r \in Requests, Reread(r) PROVE TypeOK'
  <2>1. CASE Serve(r, answer[r]) /\ UNCHANGED <<inFlight, seen, latest, missed, faulty, spent>>
    BY <1>5, <2>1 DEF Reread, Serve, purging
  <2>2. CASE Execute(r) /\ missed' = missed \cup {r} /\ UNCHANGED <<outcome, faulty, spent>>
    BY <1>5, <2>2 DEF Reread, Execute, Someone, purging
  <2>3. CASE StoreRejects(r) /\ UNCHANGED <<outcome, inFlight, seen, latest, missed>>
    BY <1>5, <2>3, RejectTyped DEF Reread, purging
  <2> QED BY <1>5, <2>1, <2>2, <2>3 DEF Reread
<1>6. ASSUME NEW r \in Requests, HandlerThrows(r) PROVE TypeOK'
  BY <1>6 DEF HandlerThrows, Unpublish, Someone, purging
<1>7. ASSUME NEW r \in Requests, Stored(r) PROVE TypeOK'
  BY <1>7 DEF Stored, Unpublish, Someone, purging, history
<1>8. ASSUME NEW r \in Requests, NEW kind \in Kinds \ {"throws"}, AnswersUnstorable(r, kind)
      PROVE  TypeOK'
  BY <1>8, OwnTyped DEF AnswersUnstorable, Serve, Unpublish, Someone, purging, history
<1>9. ASSUME NEW r \in Requests, NEW kind \in Kinds \ {"throws"}, Answers(r, kind)
      PROVE  TypeOK'
  <2>1. CASE StoreRejects(r) /\ Unpublish(r) /\ UNCHANGED <<entry, outcome, stored>>
    BY <1>9, <2>1, RejectTyped DEF Answers, Unpublish, Someone, purging
  <2>2. CASE /\ entry' = Own(r, kind) /\ outcome' = [outcome EXCEPT ![r] = Own(r, kind)]
             /\ at' = [at EXCEPT ![r] = "storing"] /\ stored' = stored \cup {r}
             /\ UNCHANGED <<inFlight, faulty, spent>>
    <3>1. kind \in {"public", "shared", "private"}
      OBVIOUS
    <3>2. entry' \in Entry /\ outcome' \in [Requests -> Entry]
      BY <2>2, <3>1, OwnTyped
    <3> QED BY <1>9, <2>2, <3>2 DEF Answers, purging
  <2> QED BY <1>9, <2>1, <2>2 DEF Answers
<1>10. CASE ListKeys
  <2>1. spent.purges \in Nat /\ spent.purges + 1 \in 0..MaxPurges
    BY <1>10 DEF ListKeys
  <2>2. spent' \in [purges : 0..MaxPurges, expiries : 0..MaxExpiries, faults : 0..MaxFaults]
    BY <1>10, <2>1 DEF ListKeys
  <2>3. purge' \in [state : {"idle", "empty", "listed"}, by : Someone,
                     version : 0..MaxWrites, racing : SUBSET Requests]
    BY <1>10, EntryFields DEF ListKeys
  <2> QED BY <1>10, <2>2, <2>3 DEF ListKeys, history
<1>11. CASE DeleteKeys
  BY <1>11 DEF DeleteKeys, PurgeEnds, Idle, Someone, history, Floor
<1>12. CASE Expire \/ Write \/ Tick
  BY <1>12 DEF Expire, Write, Tick, history, purging
<1>13. CASE UNCHANGED vars
  BY <1>13 DEF vars, history, purging
<1> QED
  BY <1>1, <1>2, <1>3, <1>4, <1>5, <1>6, <1>7, <1>8, <1>9, <1>10, <1>11, <1>12, <1>13 DEF Next

\* The variables of the model keep their types.
THEOREM TypeCorrect == Spec => []TypeOK
BY TypeInit, TypeStep, PTL DEF Spec
-----------------------------------------------------------------------------
(* What is shared *)

\* An entry that may be replayed was stored by a request, and for one without a
\* credential unless it is public.
Shareable(e) == /\ e.kind \in {"public", "shared"} => e.by \in Requests
                /\ e.kind = "shared" => e.by \notin Credentialed

ShareInv ==
  /\ Shareable(entry) /\ \A r \in Requests : Shareable(answer[r])
  /\ \A r \in Requests : at[r] = "storing" => outcome[r].by = r
  /\ \A r \in Requests : at[r] = "served" => outcome[r].by \in Requests
  /\ OwnOrShared

LEMMA ShareInit == Init => ShareInv
BY EntriesTyped DEF Init, ShareInv, Shareable, OwnOrShared

LEMMA ServedIsShareable ==
  ASSUME NEW r \in Requests, NEW e \in Entry, Shareable(e), CanServe(r, e)
  PROVE  /\ e.kind = "public" \/ (e.kind = "shared" /\ {r, e.by} \cap Credentialed = {})
         /\ e.by \in Requests
BY DEF Shareable, CanServe, CanReplay

\* Each step writes the store, an answer or an outcome by the rules.
LEMMA ShareStep == TypeOK /\ ShareInv /\ [Next]_vars => ShareInv'
<1> SUFFICES ASSUME TypeOK, ShareInv, [Next]_vars PROVE ShareInv'
  OBVIOUS
<1> USE DEF ShareInv, OwnOrShared
<1>t. /\ entry \in Entry /\ answer \in [Requests -> Entry] /\ outcome \in [Requests -> Entry]
      /\ at \in [Requests -> Places]
  BY DEF TypeOK, Places
<1>1. ASSUME NEW r \in Requests, Arrive(r) PROVE ShareInv'
  BY <1>1, <1>t DEF Arrive, JoinOrExecute, Execute
<1>2. ASSUME NEW r \in Requests, Look(r) PROVE ShareInv'
  <2>1. CASE CanServe(r, answer[r]) /\ Serve(r, answer[r]) /\ UNCHANGED entry
    BY <1>2, <2>1, <1>t, ServedIsShareable DEF Look, Serve
  <2>2. CASE /\ UNCHANGED outcome /\ entry' \in {entry, NoEntry}
             /\ \E s \in {"deleting", "waiting", "handling", "failed"} : at' = [at EXCEPT ![r] = s]
    BY <1>2, <2>2, <1>t, EntriesTyped DEF Look, Shareable
  <2> QED BY <1>2, <2>1, <2>2 DEF Look, JoinOrExecute, Execute, StoreRejects
<1>3. ASSUME NEW r \in Requests, Deleted(r) PROVE ShareInv'
  BY <1>3, <1>t DEF Deleted, JoinOrExecute, Execute
<1>4. ASSUME NEW r \in Requests, Wake(r) PROVE ShareInv'
  BY <1>4, <1>t DEF Wake
<1>5. ASSUME NEW r \in Requests, Reread(r) PROVE ShareInv'
  <2>1. CASE CanServe(r, answer[r]) /\ Serve(r, answer[r])
    BY <1>5, <2>1, <1>t, ServedIsShareable DEF Reread, Serve
  <2>2. CASE /\ UNCHANGED outcome
             /\ \E s \in {"handling", "failed"} : at' = [at EXCEPT ![r] = s]
    BY <1>5, <2>2, <1>t DEF Reread
  <2> QED BY <1>5, <2>1, <2>2 DEF Reread, Execute, StoreRejects
<1>6. ASSUME NEW r \in Requests, HandlerThrows(r) PROVE ShareInv'
  BY <1>6, <1>t DEF HandlerThrows
<1>7. ASSUME NEW r \in Requests, Stored(r) PROVE ShareInv'
  BY <1>7, <1>t DEF Stored
<1>8. ASSUME NEW r \in Requests, NEW kind \in Kinds \ {"throws"}, AnswersUnstorable(r, kind)
      PROVE  ShareInv'
  <2>1. Own(r, kind).by = r
    BY DEF Own
  <2> QED BY <1>8, <2>1, <1>t DEF AnswersUnstorable, Serve
<1>9. ASSUME NEW r \in Requests, NEW kind \in Kinds \ {"throws"}, Answers(r, kind)
      PROVE  ShareInv'
  <2>1. Own(r, kind).by = r /\ Shareable(Own(r, kind))
    BY <1>9 DEF Own, Shareable, Answers, CanStore
  <2>2. CASE entry' = Own(r, kind)
    BY <1>9, <2>1, <2>2, <1>t DEF Answers, StoreRejects
  <2>3. CASE StoreRejects(r) /\ UNCHANGED <<entry, outcome>>
    BY <1>9, <2>3, <1>t DEF Answers, StoreRejects
  <2> QED BY <1>9, <2>2, <2>3 DEF Answers
<1>10. CASE ListKeys \/ DeleteKeys \/ Expire \/ Write \/ Tick
  BY <1>10, EntriesTyped DEF ListKeys, DeleteKeys, PurgeEnds, Expire, Write, Tick, Shareable
<1>11. CASE UNCHANGED vars
  BY <1>11 DEF vars
<1> QED BY <1>1, <1>2, <1>3, <1>4, <1>5, <1>6, <1>7, <1>8, <1>9, <1>10, <1>11 DEF Next

\* No request is answered with what was made for another one, unless it is public
\* or both came without a credential.
LEMMA NothingPersonalShared == Spec => []OwnOrShared
<1>1. Spec => []ShareInv
  BY ShareInit, ShareStep, TypeCorrect, PTL DEF Spec
<1>2. ShareInv => OwnOrShared
  BY DEF ShareInv
<1> QED BY <1>1, <1>2, PTL
-----------------------------------------------------------------------------
(* Who executes *)

\* What a step is to the flight: r starts, as a newcomer or having waited in vain;
\* r's execution ends; a request moves on otherwise; or nobody moves.
Starts(r) ==
  /\ at[r] \in {"new", "looking", "deleting", "rereading"} /\ Execute(r)
  /\ \/ inFlight = Nobody /\ missed' = missed
     \/ at[r] = "rereading" /\ missed' = missed \cup {r}

Moves(r, s) ==
  /\ at' = [at EXCEPT ![r] = s]
  /\ UNCHANGED <<latest, missed>>
  /\ s = "failed" => r \in faulty'
  /\ \/ /\ at[r] \in {"handling", "storing"} /\ s \in {"served", "failed"}
        /\ Unpublish(r)
     \/ at[r] = "handling" /\ s = "storing" /\ UNCHANGED inFlight
     \/ /\ at[r] \in {"new", "looking", "deleting", "waiting", "rereading"}
        /\ s \in {"looking", "deleting", "waiting", "rereading", "served", "failed"}
        /\ UNCHANGED inFlight

LEMMA FlightStep ==
  ASSUME [Next]_vars
  PROVE  /\ faulty \subseteq faulty'
         /\ \/ \E r \in Requests : Starts(r)
            \/ \E r \in Requests : \E s \in Places : Moves(r, s)
            \/ UNCHANGED <<at, inFlight, latest, missed>>
<1> USE DEF Moves, Starts
<1>j. ASSUME NEW r \in Requests, at[r] \in {"new", "looking", "deleting"}, JoinOrExecute(r),
             UNCHANGED <<missed, faulty>>
      PROVE  Starts(r) \/ Moves(r, "waiting")
  BY <1>j DEF JoinOrExecute
<1>1. ASSUME NEW r \in Requests, Arrive(r) PROVE Starts(r) \/ Moves(r, "waiting") \/ Moves(r, "looking")
  BY <1>1, <1>j DEF Arrive
<1>2. ASSUME NEW r \in Requests, Look(r)
      PROVE  Starts(r) \/ \E s \in {"waiting", "deleting", "served", "failed"} : Moves(r, s)
  <2>1. UNCHANGED missed /\ at[r] = "looking"
    BY <1>2 DEF Look
  <2>2. CASE JoinOrExecute(r) /\ UNCHANGED faulty
    BY <2>1, <2>2, <1>j
  <2>3. CASE StoreRejects(r) /\ UNCHANGED <<inFlight, latest>>
    BY <2>1, <2>3 DEF StoreRejects
  <2> QED BY <1>2, <2>1, <2>2, <2>3 DEF Look, Serve
<1>3. ASSUME NEW r \in Requests, Deleted(r) PROVE Starts(r) \/ Moves(r, "waiting")
  BY <1>3, <1>j DEF Deleted
<1>4. ASSUME NEW r \in Requests, Wake(r) PROVE Moves(r, "rereading")
  BY <1>4 DEF Wake, history
<1>5. ASSUME NEW r \in Requests, Reread(r) PROVE Starts(r) \/ Moves(r, "served") \/ Moves(r, "failed")
  BY <1>5 DEF Reread, Serve, StoreRejects
<1>6. ASSUME NEW r \in Requests, HandlerThrows(r) PROVE Moves(r, "failed")
  BY <1>6 DEF HandlerThrows
<1>7. ASSUME NEW r \in Requests, Stored(r) PROVE Moves(r, "served")
  BY <1>7 DEF Stored, history
<1>8. ASSUME NEW r \in Requests, NEW kind, AnswersUnstorable(r, kind) PROVE Moves(r, "served")
  BY <1>8 DEF AnswersUnstorable, Serve, history
<1>9. ASSUME NEW r \in Requests, NEW kind, Answers(r, kind)
      PROVE  Moves(r, "storing") \/ Moves(r, "failed")
  BY <1>9 DEF Answers, StoreRejects
<1>10. CASE ListKeys \/ DeleteKeys \/ Expire \/ Write \/ Tick \/ UNCHANGED vars
  BY <1>10 DEF ListKeys, DeleteKeys, PurgeEnds, Expire, Write, Tick, vars, history
<1>11. faulty \subseteq faulty'
  BY DEF Next, Arrive, Look, Deleted, Wake, Reread, HandlerThrows, Stored, AnswersUnstorable,
         Answers, StoreRejects, ListKeys, DeleteKeys, PurgeEnds, Expire, Write, Tick, vars, history
<1>12. {"looking", "deleting", "waiting", "rereading", "storing", "served", "failed"} \subseteq Places
  BY DEF Places
<1> HIDE DEF Moves, Starts
<1> QED
  BY <1>1, <1>2, <1>3, <1>4, <1>5, <1>6, <1>7, <1>8, <1>9, <1>10, <1>11, <1>12 DEF Next

\* A request fails by its own handler or its own store call, not by those of the
\* one it waited for.
THEOREM FailuresStayOwn == Spec => []FailuresAreOwn
<1>1. Init => FailuresAreOwn
  BY DEF Init, FailuresAreOwn
<1>2. TypeOK /\ FailuresAreOwn /\ [Next]_vars => FailuresAreOwn'
  <2> SUFFICES ASSUME TypeOK, FailuresAreOwn, [Next]_vars PROVE FailuresAreOwn'
    OBVIOUS
  <2>t. at \in [Requests -> Places]
    BY DEF TypeOK, Places
  <2>1. faulty \subseteq faulty'
    BY FlightStep
  <2>2. ASSUME NEW r \in Requests, Starts(r) PROVE FailuresAreOwn'
    BY <2>t, <2>1, <2>2 DEF Starts, Execute, FailuresAreOwn
  <2>3. ASSUME NEW r \in Requests, NEW s \in Places, Moves(r, s) PROVE FailuresAreOwn'
    BY <2>t, <2>1, <2>3 DEF Moves, FailuresAreOwn
  <2>4. CASE UNCHANGED at
    BY <2>1, <2>4 DEF FailuresAreOwn
  <2> QED BY <2>2, <2>3, <2>4, FlightStep
<1> QED BY <1>1, <1>2, TypeCorrect, PTL DEF Spec

\* The last execution started is published as long as it runs.
Published == latest \in Executing => inFlight = latest

LEMMA PublishedStep == TypeOK /\ Published /\ [Next]_vars => Published'
<1> SUFFICES ASSUME TypeOK, Published, [Next]_vars PROVE Published'
  OBVIOUS
<1>t. at \in [Requests -> Places]
  BY DEF TypeOK, Places
<1>1. ASSUME NEW r \in Requests, Starts(r) PROVE Published'
  BY <1>1 DEF Starts, Execute, Published
<1>2. ASSUME NEW r \in Requests, NEW s \in Places, Moves(r, s) PROVE Published'
  BY <1>t, <1>2 DEF Moves, Unpublish, Published, Executing
<1>3. CASE UNCHANGED <<at, inFlight, latest, missed>>
  BY <1>3 DEF Published, Executing
<1> QED BY <1>1, <1>2, <1>3, FlightStep

LEMMA AlwaysPublished == Spec => []Published
<1>1. Init => Published
  BY DEF Init, Published, Executing
<1> QED BY <1>1, PublishedStep, TypeCorrect, PTL DEF Spec

\* An execution that ends withdraws its own publication only, so a request that has
\* not waited joins the last execution while that runs.
THEOREM NewcomersAlwaysJoin == Spec => NewcomersJoin
<1>1. TypeOK /\ Published /\ [Next]_vars =>
        [\A r \in Requests : at[r] # "handling" /\ at'[r] = "handling" /\ r \notin missed'
           => latest \notin Executing]_vars
  <2> SUFFICES ASSUME TypeOK, Published, [Next]_vars,
                      NEW q \in Requests, at[q] # "handling", at'[q] = "handling", q \notin missed'
               PROVE  latest \notin Executing
    OBVIOUS
  <2>t. at \in [Requests -> Places]
    BY DEF TypeOK, Places
  <2>1. ASSUME NEW r \in Requests, Starts(r) PROVE latest \notin Executing
    BY <2>t, <2>1, CacheAssumption DEF Starts, Execute, Published, Executing
  <2>2. ASSUME NEW r \in Requests, NEW s \in Places, Moves(r, s) PROVE FALSE
    BY <2>t, <2>2 DEF Moves
  <2> QED BY <2>1, <2>2, FlightStep
<1> QED BY <1>1, TypeCorrect, AlwaysPublished, PTL DEF Spec, NewcomersJoin

\* Executions that run although another one is published, or none.
Replaced == Executing \ {inFlight}

StampedeInv ==
  /\ Cardinality(Replaced) <= Cardinality(missed)
  /\ \A r \in missed : at[r] \in {"handling", "storing", "served", "failed"}

LEMMA FiniteExecutions ==
  ASSUME TypeOK
  PROVE  /\ IsFiniteSet(Executing) /\ IsFiniteSet(missed) /\ IsFiniteSet(Replaced)
         /\ Cardinality(Executing) \in Nat /\ Cardinality(missed) \in Nat
         /\ Cardinality(Replaced) \in Nat
         /\ Cardinality(Executing) <= Cardinality(Replaced) + 1
<1>1. Executing \subseteq Requests /\ missed \subseteq Requests /\ Replaced \subseteq Requests
  BY DEF TypeOK, Executing, Replaced
<1>2. IsFiniteSet(Executing) /\ IsFiniteSet(missed) /\ IsFiniteSet(Replaced)
  BY <1>1, FS_Subset, CacheAssumption
<1>3. /\ Cardinality(Executing) \in Nat /\ Cardinality(missed) \in Nat
      /\ Cardinality(Replaced) \in Nat
  BY <1>2, FS_CardinalityType
<1>4. Cardinality(Executing) <= Cardinality(Replaced) + 1
  <2>1. /\ IsFiniteSet(Replaced \cup {inFlight})
        /\ Cardinality(Replaced \cup {inFlight})
             = IF inFlight \in Replaced THEN Cardinality(Replaced) ELSE Cardinality(Replaced) + 1
    BY <1>2, FS_AddElement
  <2>2. Executing \subseteq Replaced \cup {inFlight}
    BY DEF Replaced
  <2>3. Cardinality(Executing) <= Cardinality(Replaced \cup {inFlight})
    BY <2>1, <2>2, FS_Subset
  <2> QED BY <2>1, <2>3, <1>3
<1> QED BY <1>2, <1>3, <1>4

\* A newcomer starts only when nothing is published; one that waited in vain may
\* replace a publication, and is counted in `missed`.
LEMMA StampedeStep == TypeOK /\ StampedeInv /\ [Next]_vars => StampedeInv'
<1> SUFFICES ASSUME TypeOK, StampedeInv, [Next]_vars PROVE StampedeInv'
  OBVIOUS
<1>t. at \in [Requests -> Places] /\ missed \subseteq Requests /\ Nobody \notin Requests
  BY CacheAssumption DEF TypeOK, Places
<1>n. TypeOK'
  BY TypeStep
<1>f. /\ IsFiniteSet(Executing) /\ IsFiniteSet(missed) /\ IsFiniteSet(Replaced)
      /\ Cardinality(Executing) \in Nat /\ Cardinality(missed) \in Nat
      /\ Cardinality(Replaced) \in Nat
      /\ Cardinality(Executing) <= Cardinality(Replaced) + 1
  BY FiniteExecutions
<1>p. Cardinality(Replaced') \in Nat /\ Cardinality(missed') \in Nat
  <2>1. Replaced' \subseteq Requests /\ missed' \subseteq Requests
    BY <1>n DEF TypeOK, Replaced, Executing
  <2> QED BY <2>1, FS_Subset, FS_CardinalityType, CacheAssumption
<1>s. ASSUME NEW S, IsFiniteSet(S), Replaced' \subseteq S
      PROVE  Cardinality(Replaced') <= Cardinality(S)
  BY <1>s, FS_Subset
<1>1. ASSUME NEW r \in Requests, Starts(r) PROVE StampedeInv'
  <2>1. Replaced' \subseteq Executing
    BY <1>t, <1>1 DEF Starts, Execute, Replaced, Executing
  <2>2. CASE inFlight = Nobody /\ missed' = missed
    <3>1. Replaced' \subseteq Replaced
      BY <1>t, <2>1, <2>2 DEF Replaced, Executing
    <3>2. Cardinality(Replaced') <= Cardinality(missed')
      BY <3>1, <2>2, <1>s, <1>f, <1>p DEF StampedeInv
    <3> QED BY <3>2, <2>2, <1>t, <1>1 DEF StampedeInv, Starts, Execute
  <2>3. CASE at[r] = "rereading" /\ missed' = missed \cup {r}
    <3>1. r \notin missed
      BY <2>3 DEF StampedeInv
    <3>2. Cardinality(missed') = Cardinality(missed) + 1
      BY <3>1, <2>3, <1>f, FS_AddElement
    <3>3. Cardinality(Replaced') <= Cardinality(Executing)
      BY <2>1, <1>s, <1>f
    <3>4. Cardinality(Replaced') <= Cardinality(missed')
      BY <3>2, <3>3, <1>f, <1>p DEF StampedeInv
    <3> QED BY <3>4, <2>3, <1>t, <1>1 DEF StampedeInv, Starts, Execute
  <2> QED BY <1>1, <2>2, <2>3 DEF Starts
<1>2. ASSUME NEW r \in Requests, NEW s \in Places, Moves(r, s) PROVE StampedeInv'
  <2>1. Replaced' \subseteq Replaced /\ missed' = missed
    BY <1>t, <1>2 DEF Moves, Unpublish, Replaced, Executing
  <2>2. Cardinality(Replaced') <= Cardinality(missed')
    BY <2>1, <1>s, <1>f, <1>p DEF StampedeInv
  <2> QED BY <2>1, <2>2, <1>t, <1>2 DEF StampedeInv, Moves
<1>3. CASE UNCHANGED <<at, inFlight, latest, missed>>
  BY <1>3 DEF StampedeInv, Replaced, Executing
<1> QED BY <1>1, <1>2, <1>3, FlightStep

\* For any number of requests, the handler runs at most once for the key plus once
\* for each request that waited and found nothing it may be served.
THEOREM StampedeBounded == Spec => []StampedeBound
<1>1. Init => StampedeInv
  <2> SUFFICES ASSUME Init PROVE StampedeInv
    OBVIOUS
  <2>1. Replaced = {} /\ missed = {}
    BY DEF Init, Replaced, Executing
  <2>2. Cardinality({}) = 0
    BY FS_EmptySet
  <2> QED BY <2>1, <2>2 DEF StampedeInv
<1>2. TypeOK /\ StampedeInv => StampedeBound
  BY FiniteExecutions DEF StampedeInv, StampedeBound
<1> QED BY <1>1, <1>2, StampedeStep, TypeCorrect, PTL DEF Spec
-----------------------------------------------------------------------------
(* What waiting, revalidating and purging mean *)

\* An entry is in the store, or was read from it, only once its execution stored it.
Settled(e) == e.by \in Requests => at[e.by] \in {"storing", "served"}

\* What ends a wait: the execution waited for is over when its follower goes on.
WaitInv ==
  /\ Settled(entry)
  /\ \A x \in stored : at[x] \in {"storing", "served"}
  /\ \A r \in Requests : at[r] = "rereading" \/ r \in missed =>
       at[awaited[r]] \in {"served", "failed"} /\ awaited[r] \in Requests
  /\ \A r \in Requests : at[r] = "waiting" => awaited[r] \in Requests
  /\ inFlight \in Executing \cup {Nobody}
  /\ \A r \in missed : at[r] \notin {"new", "looking", "deleting", "waiting", "rereading"}

LEMMA WaitStep == TypeOK /\ WaitInv /\ [Next]_vars => WaitInv'
<1> SUFFICES ASSUME TypeOK, WaitInv, [Next]_vars PROVE WaitInv'
  OBVIOUS
<1> USE DEF WaitInv, Settled, Executing
<1>t. /\ at \in [Requests -> Places] /\ missed \subseteq Requests /\ stored \subseteq Requests
      /\ Nobody \notin Requests /\ awaited \in [Requests -> Someone] /\ entry \in Entry
  BY CacheAssumption DEF TypeOK, Places
<1>j. ASSUME NEW r \in Requests, at[r] \in {"new", "looking", "deleting"}, JoinOrExecute(r),
             UNCHANGED <<missed, stored>>, entry' \in {entry, NoEntry}
      PROVE  WaitInv'
  <2>1. CASE Execute(r) /\ UNCHANGED <<awaited, since>>
    BY <1>t, <1>j, <2>1, EntriesTyped DEF Execute
  <2>2. CASE /\ inFlight # Nobody /\ at' = [at EXCEPT ![r] = "waiting"]
             /\ awaited' = [awaited EXCEPT ![r] = inFlight] /\ UNCHANGED inFlight
    BY <1>t, <1>j, <2>2, EntriesTyped
  <2> QED BY <1>j, <2>1, <2>2 DEF JoinOrExecute
<1>m. ASSUME NEW r \in Requests, at[r] \in {"new", "looking", "deleting"},
             NEW s \in {"looking", "deleting", "served", "failed"}, at' = [at EXCEPT ![r] = s],
             UNCHANGED <<missed, stored, awaited, inFlight>>, entry' \in {entry, NoEntry}
      PROVE  WaitInv'
  BY <1>t, <1>m, EntriesTyped
<1>1. ASSUME NEW r \in Requests, Arrive(r) PROVE WaitInv'
  BY <1>1, <1>j, <1>m DEF Arrive
<1>2. ASSUME NEW r \in Requests, Look(r) PROVE WaitInv'
  BY <1>2, <1>j, <1>m DEF Look, Serve, StoreRejects
<1>3. ASSUME NEW r \in Requests, Deleted(r) PROVE WaitInv'
  BY <1>3, <1>j DEF Deleted
<1>4. ASSUME NEW r \in Requests, Wake(r) PROVE WaitInv'
  BY <1>4, <1>t DEF Wake, history
<1>5. ASSUME NEW r \in Requests, Reread(r) PROVE WaitInv'
  <2>1. CASE Execute(r) /\ missed' = missed \cup {r}
    BY <1>5, <1>t, <2>1 DEF Reread, Execute
  <2>2. CASE /\ \E s \in {"served", "failed"} : at' = [at EXCEPT ![r] = s]
             /\ UNCHANGED <<missed, inFlight>>
    BY <1>5, <1>t, <2>2 DEF Reread
  <2> QED BY <1>5, <2>1, <2>2 DEF Reread, Serve, StoreRejects
<1>6. ASSUME NEW r \in Requests, HandlerThrows(r) PROVE WaitInv'
  BY <1>6, <1>t DEF HandlerThrows, Unpublish
<1>7. ASSUME NEW r \in Requests, Stored(r) PROVE WaitInv'
  BY <1>7, <1>t DEF Stored, Unpublish, history
<1>8. ASSUME NEW r \in Requests, NEW kind \in Kinds, AnswersUnstorable(r, kind) PROVE WaitInv'
  BY <1>8, <1>t DEF AnswersUnstorable, Serve, Unpublish, history
<1>9. ASSUME NEW r \in Requests, NEW kind \in Kinds, Answers(r, kind) PROVE WaitInv'
  BY <1>9, <1>t DEF Answers, StoreRejects, Unpublish, Own
<1>10. CASE ListKeys \/ DeleteKeys \/ Expire \/ Write \/ Tick \/ UNCHANGED vars
  BY <1>10, <1>t, EntriesTyped
  DEF ListKeys, DeleteKeys, PurgeEnds, Expire, Write, Tick, vars, history
<1> QED BY <1>1, <1>2, <1>3, <1>4, <1>5, <1>6, <1>7, <1>8, <1>9, <1>10 DEF Next

LEMMA AlwaysWait == Spec => []WaitInv
<1>1. Init => WaitInv
  BY EntriesTyped, CacheAssumption DEF Init, WaitInv, Settled
<1> QED BY <1>1, WaitStep, TypeCorrect, PTL DEF Spec

\* While nothing is deleted, what was stored stays replaced by something storable.
FollowInv ==
  /\ purge # Idle => spent.purges > 0
  /\ Undisturbed =>
       /\ entry.kind # "private" /\ (stored # {} => CanReplay(entry))
       /\ \A r \in Requests : answer[r].kind # "private"
       /\ \A r \in Requests : at[r] = "rereading" /\ awaited[r] \in stored => CanReplay(answer[r])
  /\ FollowersServed

LEMMA FollowStep == TypeOK /\ WaitInv /\ FollowInv /\ [Next]_vars => FollowInv'
<1> SUFFICES ASSUME TypeOK, WaitInv, FollowInv, [Next]_vars PROVE FollowInv'
  OBVIOUS
<1> USE DEF FollowInv, FollowersServed, Undisturbed, CanReplay
<1>t. /\ at \in [Requests -> Places] /\ missed \subseteq Requests /\ stored \subseteq Requests
      /\ answer \in [Requests -> Entry] /\ awaited \in [Requests -> Someone]
      /\ spent \in [purges : 0..MaxPurges, expiries : 0..MaxExpiries, faults : 0..MaxFaults]
  BY DEF TypeOK, Places
<1>w. /\ \A x \in stored : at[x] \in {"storing", "served"}
      /\ \A r \in Requests : at[r] = "rereading" \/ r \in missed =>
           at[awaited[r]] \in {"served", "failed"} /\ awaited[r] \in Requests
      /\ \A r \in missed : at[r] \notin {"new", "looking", "deleting", "waiting", "rereading"}
  BY DEF WaitInv
<1>s. ASSUME NEW r \in Requests, StoreRejects(r)
      PROVE  spent'.purges = spent.purges /\ spent'.expiries = spent.expiries
  BY <1>s, <1>t DEF StoreRejects
<1>j. ASSUME NEW r \in Requests, at[r] \in {"new", "looking", "deleting"},
             JoinOrExecute(r) \/ (UNCHANGED awaited
                /\ \E s \in {"looking", "deleting", "served", "failed"} : at' = [at EXCEPT ![r] = s]),
             UNCHANGED <<missed, stored, purge>>,
             spent'.purges = spent.purges /\ spent'.expiries = spent.expiries,
             Undisturbed => entry' = entry,
             answer' = answer \/ answer' = [answer EXCEPT ![r] = entry]
      PROVE  FollowInv'
  <2>1. \A q \in Requests : at'[q] = "rereading" => at[q] = "rereading" /\ q # r
    BY <1>t, <1>j DEF JoinOrExecute, Execute
  <2>2. \A q \in Requests \ {r} : awaited'[q] = awaited[q] /\ answer'[q] = answer[q]
    BY <1>t, <1>j DEF JoinOrExecute, Execute
  <2>3. r \notin missed
    BY <1>w, <1>j
  <2>4. answer'[r] \in {answer[r], entry}
    BY <1>t, <1>j
  <2> QED BY <1>t, <1>j, <2>1, <2>2, <2>3, <2>4
<1>1. ASSUME NEW r \in Requests, Arrive(r) PROVE FollowInv'
  BY <1>1, <1>j DEF Arrive, purging
<1>2. ASSUME NEW r \in Requests, Look(r) PROVE FollowInv'
  <2>1. /\ at[r] = "looking" /\ UNCHANGED <<missed, stored, purge, answer>>
        /\ spent'.purges = spent.purges /\ spent'.expiries = spent.expiries
    BY <1>2, <1>s DEF Look, purging
  <2>2. Undisturbed => entry' = entry
    BY <1>2 DEF Look
  <2> QED BY <1>2, <1>j, <2>1, <2>2 DEF Look, Serve, StoreRejects
<1>3. ASSUME NEW r \in Requests, Deleted(r) PROVE FollowInv'
  BY <1>3, <1>j DEF Deleted, purging
<1>4. ASSUME NEW r \in Requests, Wake(r) PROVE FollowInv'
  BY <1>4, <1>t DEF Wake, history, purging
<1>5. ASSUME NEW r \in Requests, Reread(r) PROVE FollowInv'
  <2>1. CASE Execute(r) /\ missed' = missed \cup {r} /\ UNCHANGED spent
    <3>1. r \notin Credentialed \cup Revalidating => ~CanReplay(answer[r])
      BY <1>5, <2>1, <1>t DEF Reread, CanServe, FreshEnough, Execute, Serve, StoreRejects
    <3> QED BY <1>5, <1>t, <2>1, <3>1 DEF Reread, Execute, purging
  <2>2. CASE /\ \E s \in {"served", "failed"} : at' = [at EXCEPT ![r] = s]
             /\ UNCHANGED missed
             /\ spent'.purges = spent.purges /\ spent'.expiries = spent.expiries
    BY <1>5, <1>t, <2>2 DEF Reread, purging
  <2> QED BY <1>5, <1>s, <2>1, <2>2 DEF Reread, Serve, StoreRejects
<1>6. ASSUME NEW r \in Requests, HandlerThrows(r) PROVE FollowInv'
  BY <1>6, <1>t DEF HandlerThrows, purging
<1>7. ASSUME NEW r \in Requests, Stored(r) PROVE FollowInv'
  BY <1>7, <1>t DEF Stored, history, purging
<1>8. ASSUME NEW r \in Requests, NEW kind \in Kinds, AnswersUnstorable(r, kind) PROVE FollowInv'
  BY <1>8, <1>t DEF AnswersUnstorable, Serve, history, purging
<1>9. ASSUME NEW r \in Requests, NEW kind \in Kinds, Answers(r, kind) PROVE FollowInv'
  <2>1. CASE /\ entry' = Own(r, kind) /\ stored' = stored \cup {r} /\ UNCHANGED spent
             /\ at' = [at EXCEPT ![r] = "storing"]
    <3>1. CanReplay(entry')
      BY <1>9, <2>1 DEF Answers, CanStore, Own
    <3>2. \A q \in Requests : at[q] = "rereading" \/ q \in missed => awaited[q] # r
      BY <1>9, <1>w DEF Answers
    <3> QED BY <1>9, <1>t, <2>1, <3>1, <3>2 DEF Answers, purging
  <2>2. CASE StoreRejects(r) /\ UNCHANGED <<entry, stored>>
    BY <1>9, <1>t, <1>s, <2>2 DEF Answers, StoreRejects, purging
  <2> QED BY <1>9, <2>1, <2>2 DEF Answers
<1>10. CASE ListKeys \/ Expire
  BY <1>10, <1>t DEF ListKeys, Expire, history, purging
<1>11. CASE DeleteKeys \/ Write \/ Tick \/ UNCHANGED vars
  BY <1>11, <1>t DEF DeleteKeys, PurgeEnds, Write, Tick, vars, history, purging
<1> QED BY <1>1, <1>2, <1>3, <1>4, <1>5, <1>6, <1>7, <1>8, <1>9, <1>10, <1>11 DEF Next

\* As the code's comment claims: who waited for an execution that stored finds an
\* entry when it re-reads, as long as nothing is purged or expires.
THEOREM FollowersAreServed == Spec => []FollowersServed
<1>1. Init => FollowInv
  BY EntriesTyped DEF Init, FollowInv, FollowersServed, Undisturbed
<1>2. FollowInv => FollowersServed
  BY DEF FollowInv
<1> QED BY <1>1, <1>2, FollowStep, TypeCorrect, AlwaysWait, PTL DEF Spec

\* What a revalidating request compares: when it began to wait is no earlier than
\* when it arrived, and what it found was stored no later than that.
RevalidateInv ==
  /\ entry.cachedAt <= now
  /\ \A r \in Requests : arrived[r].found.cachedAt <= arrived[r].time /\ arrived[r].time <= now
  /\ \A r \in Requests : arrived[r].found.by # r
  /\ \A r \in Revalidating :
       /\ at[r] \notin {"looking", "deleting"}
       /\ at[r] \in {"waiting", "rereading"} => arrived[r].time <= since[r]
  /\ RevalidationFresh

LEMMA RevalidateStep == TypeOK /\ WaitInv /\ ShareInv /\ RevalidateInv /\ [Next]_vars => RevalidateInv'
<1> SUFFICES ASSUME TypeOK, WaitInv, ShareInv, RevalidateInv, [Next]_vars PROVE RevalidateInv'
  OBVIOUS
<1> USE DEF RevalidateInv, RevalidationFresh
<1>t. /\ at \in [Requests -> Places] /\ since \in [Requests -> 0..MaxTime] /\ now \in 0..MaxTime
      /\ outcome \in [Requests -> Entry] /\ answer \in [Requests -> Entry] /\ entry \in Entry
      /\ Revalidating \subseteq Requests /\ MaxTime \in Nat
      /\ arrived \in [Requests -> [found : Entry, time : 0..MaxTime,
                                   cleared : SUBSET Someone, floor : Floor]]
  BY CacheAssumption DEF TypeOK, Places
<1>e. \A e \in Entry : e.cachedAt \in 0..MaxTime
  BY DEF Entry
<1>n. NoEntry.cachedAt = 0
  BY DEF NoEntry
<1>w. /\ \A r \in Requests : at[r] = "new" => entry.by # r
      /\ \A r \in Requests : at[r] = "storing" => outcome[r].by = r
  BY DEF WaitInv, Settled, ShareInv
<1>1. ASSUME NEW r \in Requests, Arrive(r) PROVE RevalidateInv'
  <2>1. /\ arrived'[r].found = entry /\ arrived'[r].time = now
        /\ \A q \in Requests \ {r} : arrived'[q] = arrived[q]
        /\ UNCHANGED <<entry, now, outcome>> /\ at[r] = "new"
    BY <1>1, <1>t DEF Arrive
  <2>2. /\ at'[r] \in {"looking", "waiting", "handling"}
        /\ r \in Revalidating => at'[r] # "looking"
        /\ at'[r] = "waiting" => since'[r] = now
        /\ \A q \in Requests \ {r} : at'[q] = at[q] /\ since'[q] = since[q]
    BY <1>1, <1>t DEF Arrive, JoinOrExecute, Execute
  <2>3. entry.by # r /\ entry.cachedAt <= now
    BY <2>1, <1>w
  <2>4. ASSUME NEW q \in Requests
        PROVE  /\ arrived'[q].found.cachedAt <= arrived'[q].time /\ arrived'[q].time <= now'
               /\ arrived'[q].found.by # q
    <3>1. CASE q = r
      BY <2>1, <2>3, <3>1, <1>t
    <3>2. CASE q # r
      BY <2>1, <3>2
    <3> QED BY <3>1, <3>2
  <2>5. ASSUME NEW q \in Revalidating
        PROVE  /\ at'[q] \notin {"looking", "deleting"}
               /\ at'[q] \in {"waiting", "rereading"} => arrived'[q].time <= since'[q]
    <3>1. q \in Requests
      BY <1>t
    <3> QED BY <2>1, <2>2, <3>1, <1>t
  <2>6. RevalidationFresh'
    <3>1. \A q \in Revalidating : at'[q] = "served" =>
            at[q] = "served" /\ outcome'[q] = outcome[q] /\ arrived'[q] = arrived[q]
      BY <2>1, <2>2, <1>t
    <3> QED BY <3>1
  <2> QED BY <2>1, <2>3, <2>4, <2>5, <2>6
<1>2. ASSUME NEW r \in Requests, Look(r) PROVE RevalidateInv'
  <2>1. r \notin Revalidating
    BY <1>2 DEF Look
  <2>2. /\ entry' \in {entry, NoEntry} /\ UNCHANGED <<now, arrived>>
        /\ \A q \in Requests \ {r} :
             at'[q] = at[q] /\ since'[q] = since[q] /\ outcome'[q] = outcome[q]
    BY <1>2, <1>t DEF Look, JoinOrExecute, Execute, Serve, StoreRejects
  <2> QED BY <2>1, <2>2, <1>t, <1>n
<1>3. ASSUME NEW r \in Requests, Deleted(r) PROVE RevalidateInv'
  <2>1. r \notin Revalidating
    BY <1>3 DEF Deleted
  <2>2. /\ UNCHANGED <<entry, now, arrived, outcome>>
        /\ \A q \in Requests \ {r} : at'[q] = at[q] /\ since'[q] = since[q]
    BY <1>3, <1>t DEF Deleted, JoinOrExecute, Execute
  <2> QED BY <2>1, <2>2, <1>t
<1>4. ASSUME NEW r \in Requests, Wake(r) PROVE RevalidateInv'
  BY <1>4, <1>t DEF Wake
<1>5. ASSUME NEW r \in Requests, Reread(r) PROVE RevalidateInv'
  <2>1. CASE FreshEnough(r) /\ Serve(r, answer[r])
    <3>1. r \in Revalidating =>
            answer[r] # arrived[r].found \/ answer[r].cachedAt = arrived[r].time
      <4>1. SUFFICES ASSUME r \in Revalidating, answer[r] = arrived[r].found
                     PROVE  answer[r].cachedAt = arrived[r].time
        OBVIOUS
      <4>2. answer[r].cachedAt \in Int /\ arrived[r].time \in Int /\ since[r] \in Int
        BY <1>t, <1>e
      <4>3. answer[r].cachedAt >= since[r]
        BY <4>1, <2>1 DEF FreshEnough
      <4>4. arrived[r].time <= since[r]
        BY <4>1, <1>5 DEF Reread
      <4>5. answer[r].cachedAt <= arrived[r].time
        BY <4>1
      <4> QED BY <4>2, <4>3, <4>4, <4>5
    <3>2. /\ at' = [at EXCEPT ![r] = "served"] /\ outcome' = [outcome EXCEPT ![r] = answer[r]]
          /\ UNCHANGED <<entry, now, arrived, since>>
      BY <1>5, <2>1 DEF Reread, Serve
    <3> QED BY <3>1, <3>2, <1>t
  <2>2. CASE UNCHANGED outcome /\ \E s \in {"handling", "failed"} : at' = [at EXCEPT ![r] = s]
    BY <1>5, <2>2, <1>t DEF Reread
  <2> QED BY <1>5, <2>1, <2>2 DEF Reread, Execute, StoreRejects
<1>6. ASSUME NEW r \in Requests, HandlerThrows(r) PROVE RevalidateInv'
  BY <1>6, <1>t DEF HandlerThrows
<1>7. ASSUME NEW r \in Requests, Stored(r) PROVE RevalidateInv'
  BY <1>7, <1>t, <1>w DEF Stored
<1>8. ASSUME NEW r \in Requests, NEW kind \in Kinds, AnswersUnstorable(r, kind) PROVE RevalidateInv'
  <2>1. Own(r, kind).by = r
    BY DEF Own
  <2> QED BY <1>8, <2>1, <1>t DEF AnswersUnstorable, Serve
<1>9. ASSUME NEW r \in Requests, NEW kind \in Kinds, Answers(r, kind) PROVE RevalidateInv'
  <2>1. Own(r, kind).cachedAt = now
    BY DEF Own
  <2>2. /\ entry' \in {entry, Own(r, kind)} /\ UNCHANGED <<now, arrived, since>>
        /\ at'[r] \in {"storing", "failed"}
        /\ \A q \in Requests \ {r} : at'[q] = at[q] /\ outcome'[q] = outcome[q]
    BY <1>9, <1>t DEF Answers, StoreRejects
  <2> QED BY <2>1, <2>2, <1>t
<1>10. CASE ListKeys \/ DeleteKeys \/ Expire \/ Write \/ UNCHANGED vars
  BY <1>10, <1>t, <1>n DEF ListKeys, DeleteKeys, PurgeEnds, Expire, Write, vars, history
<1>11. CASE Tick
  BY <1>11, <1>t, <1>e DEF Tick
<1> QED BY <1>1, <1>2, <1>3, <1>4, <1>5, <1>6, <1>7, <1>8, <1>9, <1>10, <1>11 DEF Next

\* A client that bypasses the cache is not served the entry that was there when it
\* arrived, even when it waits for somebody else's execution that fails.
LEMMA RevalidatorsAreServedFresh == Spec => []RevalidationFresh
<1>1. Init => RevalidateInv
  BY CacheAssumption DEF Init, RevalidateInv, RevalidationFresh, NoEntry, OldEntry
<1>2. RevalidateInv => RevalidationFresh
  BY DEF RevalidateInv
<1>3. Spec => []ShareInv
  BY ShareInit, ShareStep, TypeCorrect, PTL DEF Spec
<1> QED BY <1>1, <1>2, <1>3, RevalidateStep, TypeCorrect, AlwaysWait, PTL DEF Spec

\* What a request is served is its own, public, or made without a credential for one
\* without; and a revalidating one is served nothing old.
THEOREM EverybodyServedRightly == Spec => []ServedRightly
BY NothingPersonalShared, RevalidatorsAreServedFresh, PTL DEF ServedRightly

\* What a completed purge cleared is in no store, and in no answer read since.
PurgeInv ==
  /\ \A x \in cleared \cap Requests : entry.by # x /\ at[x] \in {"storing", "served"}
  /\ purge.by \in Requests => purge.state = "listed" /\ at[purge.by] \in {"storing", "served"}
  /\ \A r \in Requests : arrived[r].cleared \subseteq cleared
  /\ \A r \in Requests : at[r] \in {"looking", "rereading"} =>
       answer[r].by \notin arrived[r].cleared \cap Requests
  /\ \A r \in Requests : at[r] = "served" =>
       outcome[r].by = r \/ outcome[r].by \notin arrived[r].cleared \cap Requests

LEMMA PurgeStep == TypeOK /\ WaitInv /\ ShareInv /\ PurgeInv /\ [Next]_vars => PurgeInv'
<1> SUFFICES ASSUME TypeOK, WaitInv, ShareInv, PurgeInv, [Next]_vars PROVE PurgeInv'
  OBVIOUS
<1> USE DEF PurgeInv
<1>t. /\ at \in [Requests -> Places] /\ outcome \in [Requests -> Entry] /\ answer \in [Requests -> Entry]
      /\ arrived \in [Requests -> [found : Entry, time : 0..MaxTime,
                                   cleared : SUBSET Someone, floor : Floor]]
      /\ purge \in [state : {"idle", "empty", "listed"}, by : Someone,
                     version : 0..MaxWrites, racing : SUBSET Requests]
  BY DEF TypeOK, Places
<1>n. NoEntry.by \notin Requests
  BY CacheAssumption, EntriesTyped
<1>w. /\ entry.by \in Requests => at[entry.by] \in {"storing", "served"}
      /\ \A r \in Requests : at[r] = "storing" => outcome[r].by = r
  BY DEF WaitInv, Settled, ShareInv
\* A step of r that neither stores nor serves, and reads the store as it is at most.
<1>r. ASSUME NEW r \in Requests, at[r] \notin {"storing", "served"},
             NEW s \in Places \ {"storing", "served"}, at' = [at EXCEPT ![r] = s],
             UNCHANGED <<purge, cleared, outcome>>, entry' \in {entry, NoEntry},
             \A q \in Requests \ {r} : answer'[q] = answer[q] /\ arrived'[q] = arrived[q],
             arrived'[r].cleared \subseteq cleared,
             s \in {"looking", "rereading"} => answer'[r] = entry
      PROVE  PurgeInv'
  BY <1>r, <1>t, <1>n
<1>1. ASSUME NEW r \in Requests, Arrive(r) PROVE PurgeInv'
  <2>1. /\ arrived'[r].cleared = cleared /\ \A q \in Requests \ {r} : arrived'[q] = arrived[q]
        /\ at[r] = "new" /\ UNCHANGED <<purge, cleared, outcome, entry>>
    BY <1>1, <1>t DEF Arrive, purging
  <2>2. \E s \in {"looking", "waiting", "handling"} :
          at' = [at EXCEPT ![r] = s] /\ (s = "looking" => answer'[r] = entry)
    BY <1>1, <1>t DEF Arrive, JoinOrExecute, Execute
  <2>3. \A q \in Requests \ {r} : answer'[q] = answer[q]
    BY <1>1, <1>t DEF Arrive
  <2> QED BY <2>1, <2>2, <2>3, <1>r DEF Places
<1>2. ASSUME NEW r \in Requests, Look(r) PROVE PurgeInv'
  <2>1. UNCHANGED <<purge, cleared, answer, arrived>> /\ at[r] = "looking"
    BY <1>2 DEF Look, purging
  <2>2. CASE Serve(r, answer[r]) /\ UNCHANGED entry
    BY <2>1, <2>2, <1>t DEF Serve
  <2>3. CASE /\ \E s \in {"deleting", "waiting", "handling", "failed"} : at' = [at EXCEPT ![r] = s]
             /\ UNCHANGED outcome /\ entry' \in {entry, NoEntry}
    <3>1. PICK s \in {"deleting", "waiting", "handling", "failed"} : at' = [at EXCEPT ![r] = s]
      BY <2>3
    <3>2. /\ s \in Places \ {"storing", "served"} /\ s \notin {"looking", "rereading"}
          /\ \A q \in Requests \ {r} : answer'[q] = answer[q] /\ arrived'[q] = arrived[q]
          /\ arrived'[r].cleared \subseteq cleared /\ at[r] \notin {"storing", "served"}
      BY <2>1 DEF Places
    <3> QED BY <2>1, <2>3, <3>1, <3>2, <1>r
  <2> QED BY <1>2, <2>2, <2>3 DEF Look, JoinOrExecute, Execute, StoreRejects
<1>3. ASSUME NEW r \in Requests, Deleted(r) PROVE PurgeInv'
  <2>1. /\ UNCHANGED <<purge, cleared, answer, arrived, outcome, entry>> /\ at[r] = "deleting"
        /\ \E s \in {"waiting", "handling"} : at' = [at EXCEPT ![r] = s]
    BY <1>3 DEF Deleted, purging, JoinOrExecute, Execute
  <2> QED BY <2>1, <1>r, <1>t DEF Places
<1>4. ASSUME NEW r \in Requests, Wake(r) PROVE PurgeInv'
  <2>1. /\ UNCHANGED <<purge, cleared, arrived, outcome, entry>> /\ at[r] = "waiting"
        /\ at' = [at EXCEPT ![r] = "rereading"] /\ answer' = [answer EXCEPT ![r] = entry]
    BY <1>4 DEF Wake, purging
  <2> QED BY <2>1, <1>r, <1>t DEF Places
<1>5. ASSUME NEW r \in Requests, Reread(r) PROVE PurgeInv'
  <2>1. UNCHANGED <<purge, cleared, answer, arrived, entry>> /\ at[r] = "rereading"
    BY <1>5 DEF Reread, purging
  <2>2. CASE Serve(r, answer[r])
    BY <2>1, <2>2, <1>t DEF Serve
  <2>3. CASE /\ \E s \in {"handling", "failed"} : at' = [at EXCEPT ![r] = s]
             /\ UNCHANGED outcome
    BY <2>1, <2>3, <1>r, <1>t DEF Places
  <2> QED BY <1>5, <2>2, <2>3 DEF Reread, Execute, StoreRejects
<1>6. ASSUME NEW r \in Requests, HandlerThrows(r) PROVE PurgeInv'
  <2>1. /\ UNCHANGED <<purge, cleared, answer, arrived, outcome, entry>> /\ at[r] = "handling"
        /\ at' = [at EXCEPT ![r] = "failed"]
    BY <1>6 DEF HandlerThrows, purging
  <2> QED BY <2>1, <1>r, <1>t DEF Places
<1>7. ASSUME NEW r \in Requests, Stored(r) PROVE PurgeInv'
  BY <1>7, <1>t, <1>w DEF Stored, purging
<1>8. ASSUME NEW r \in Requests, NEW kind \in Kinds, AnswersUnstorable(r, kind) PROVE PurgeInv'
  <2>1. Own(r, kind).by = r
    BY DEF Own
  <2> QED BY <1>8, <2>1, <1>t DEF AnswersUnstorable, Serve, purging
<1>9. ASSUME NEW r \in Requests, NEW kind \in Kinds, Answers(r, kind) PROVE PurgeInv'
  <2>1. /\ UNCHANGED <<purge, cleared, answer, arrived>> /\ at[r] = "handling"
    BY <1>9 DEF Answers, purging
  <2>2. CASE /\ entry' = Own(r, kind) /\ outcome' = [outcome EXCEPT ![r] = Own(r, kind)]
             /\ at' = [at EXCEPT ![r] = "storing"]
    <3>1. r \notin cleared /\ Own(r, kind).by = r
      BY <2>1 DEF Own
    <3> QED BY <2>1, <2>2, <3>1, <1>t
  <2>3. CASE /\ UNCHANGED <<entry, outcome>> /\ at' = [at EXCEPT ![r] = "failed"]
    BY <2>1, <2>3, <1>r, <1>t DEF Places
  <2> QED BY <1>9, <2>2, <2>3 DEF Answers, StoreRejects
<1>10. CASE ListKeys
  <2>1. /\ purge'.by = entry.by /\ (entry.by \in Requests => purge'.state = "listed")
        /\ UNCHANGED <<cleared, answer, arrived, outcome, entry, at>>
    BY <1>10, <1>n DEF ListKeys, history
  <2> QED BY <2>1, <1>w
<1>11. CASE DeleteKeys
  <2>1. /\ purge' = Idle /\ cleared' = cleared \cup {purge.by}
        /\ UNCHANGED <<answer, arrived, outcome, at>>
        /\ entry' = IF purge.state = "listed" THEN NoEntry ELSE entry
    BY <1>11 DEF DeleteKeys, PurgeEnds, history
  <2>2. Idle.by \notin Requests
    BY CacheAssumption DEF Idle
  <2>3. \A x \in cleared' \cap Requests : entry'.by # x /\ at'[x] \in {"storing", "served"}
    BY <2>1, <1>n
  <2>4. \A r \in Requests : arrived[r].cleared \cap cleared' = arrived[r].cleared
    BY <2>1
  <2> QED BY <2>1, <2>2, <2>3, <2>4
<1>12. CASE Expire \/ Write \/ Tick \/ UNCHANGED vars
  BY <1>12, <1>n DEF Expire, Write, Tick, vars, history, purging
<1> QED BY <1>1, <1>2, <1>3, <1>4, <1>5, <1>6, <1>7, <1>8, <1>9, <1>10, <1>11, <1>12 DEF Next


\* The points from which purges counted, and what is not older than one of them.
Floors == {floor} \cup {arrived[r].floor : r \in Requests}
Fresh(e, f) == e.by \in Requests => e.by \in f.racing \/ e.version >= f.version

\* A running handler was running at such a point or started after it, so what it
\* will store, and what is stored or was read since, is not older unless it raced.
RacingInv ==
  /\ purge.version <= version /\ \A f \in Floors : f.version <= version
  /\ \A f \in Floors \cup {purge}, x \in Requests :
       at[x] = "handling" => x \in f.racing \/ seen[x] >= f.version
  /\ \A f \in Floors : Fresh(entry, f)
  /\ purge.state = "empty" => Fresh(entry, purge)
  /\ purge.state = "idle" => purge = Idle
  /\ \A r \in Requests : at[r] \in {"looking", "rereading"} => Fresh(answer[r], arrived[r].floor)
  /\ \A r \in Requests : at[r] \in {"storing", "served"} =>
       outcome[r].by = r \/ Fresh(outcome[r], arrived[r].floor)

LEMMA RacingInit == Init => RacingInv
BY EntriesTyped, CacheAssumption
DEF Init, RacingInv, Floors, Fresh, Idle, NoFloor, NoEntry, OldEntry

LEMMA RacingStep == TypeOK /\ RacingInv /\ [Next]_vars => RacingInv'
<1> SUFFICES ASSUME TypeOK, RacingInv, [Next]_vars PROVE RacingInv'
  OBVIOUS
<1> USE DEF RacingInv
<1>t. /\ at \in [Requests -> Places] /\ outcome \in [Requests -> Entry] /\ answer \in [Requests -> Entry]
      /\ arrived \in [Requests -> [found : Entry, time : 0..MaxTime,
                                   cleared : SUBSET Someone, floor : Floor]]
      /\ purge \in [state : {"idle", "empty", "listed"}, by : Someone,
                     version : 0..MaxWrites, racing : SUBSET Requests]
      /\ floor \in Floor /\ version \in Nat /\ seen \in [Requests -> Nat]
  BY CacheAssumption DEF TypeOK, Places
<1>n. NoEntry.by \notin Requests
  BY CacheAssumption, EntriesTyped
<1>f. \A f \in Floors \cup {purge} : f.version \in Nat
  BY <1>t, CacheAssumption DEF Floors, Floor
\* A step of r that neither stores, serves nor purges: a handler starts with the data
\* of now, and what is read is what is stored.
<1>r. ASSUME NEW r \in Requests, at[r] \notin {"storing", "served"},
             NEW s \in Places \ {"storing", "served"}, at' = [at EXCEPT ![r] = s],
             UNCHANGED <<purge, floor, outcome, version>>, entry' \in {entry, NoEntry},
             \A q \in Requests \ {r} :
               answer'[q] = answer[q] /\ seen'[q] = seen[q] /\ arrived'[q] = arrived[q],
             arrived'[r].floor \in Floors,
             s = "handling" => seen'[r] = version,
             s \in {"looking", "rereading"} => answer'[r] = entry
      PROVE  RacingInv'
  <2>0. \A q \in Requests : arrived'[q].floor \in Floors
    BY <1>r DEF Floors
  <2>1. Floors' \subseteq Floors
    BY <1>r, <2>0 DEF Floors
  <2>2. \A f \in Floors \cup {purge}, x \in Requests :
          at'[x] = "handling" => x \in f.racing \/ seen'[x] >= f.version
    BY <1>r, <1>t, <1>f
  <2>3. \A f : Fresh(entry, f) => Fresh(entry', f)
    BY <1>r, <1>n DEF Fresh
  <2>4. \A q \in Requests : at'[q] \in {"looking", "rereading"} => Fresh(answer'[q], arrived'[q].floor)
    <3>1. CASE s \in {"looking", "rereading"}
      BY <1>r, <1>t, <2>0, <3>1
    <3>2. CASE s \notin {"looking", "rereading"}
      BY <1>r, <1>t, <3>2
    <3> QED BY <3>1, <3>2
  <2>5. \A q \in Requests : at'[q] \in {"storing", "served"} =>
          outcome[q].by = q \/ Fresh(outcome[q], arrived'[q].floor)
    BY <1>r, <1>t
  <2>6. \A f \in Floors' : Fresh(entry', f)
    BY <2>1, <2>3
  <2>7. purge'.state = "empty" => Fresh(entry', purge')
    BY <1>r, <2>3
  <2>8. \A f \in Floors' \cup {purge'}, x \in Requests :
          at'[x] = "handling" => x \in f.racing \/ seen'[x] >= f.version
    BY <1>r, <2>1, <2>2
  <2>9. purge'.version <= version' /\ \A f \in Floors' : f.version <= version'
    BY <1>r, <2>1
  <2>10. UNCHANGED <<outcome, purge>>
    BY <1>r
  <2> QED BY <2>4, <2>5, <2>6, <2>7, <2>8, <2>9, <2>10 DEF Fresh
\* So does one that changes neither what is stored or read nor the points.
<1>k. ASSUME UNCHANGED <<purge, floor, arrived, answer>>, version' \in {version, version + 1},
             entry' \in {entry, NoEntry}, UNCHANGED <<seen, outcome>>,
             \A q \in Requests : at'[q] = at[q] \/ (at[q] = "storing" /\ at'[q] = "served")
      PROVE  RacingInv'
  <2>1. Floors' = Floors /\ \A f \in Floors \cup {purge} : f.version <= version'
    BY <1>k, <1>f, <1>t DEF Floors
  <2>2. \A f : Fresh(entry, f) => Fresh(entry', f)
    BY <1>k, <1>n DEF Fresh
  <2>3. \A x \in Requests : at'[x] = "handling" => at[x] = "handling"
    BY <1>k
  <2>4. \A x \in Requests : at'[x] \in {"looking", "rereading"} => at[x] \in {"looking", "rereading"}
    BY <1>k
  <2>5. \A x \in Requests : at'[x] \in {"storing", "served"} => at[x] \in {"storing", "served"}
    BY <1>k
  <2> QED BY <1>k, <2>1, <2>2, <2>3, <2>4, <2>5 DEF Fresh
<1>1. ASSUME NEW r \in Requests, Arrive(r) PROVE RacingInv'
  <2>1. /\ arrived'[r].floor = floor /\ \A q \in Requests \ {r} : arrived'[q] = arrived[q]
        /\ at[r] = "new" /\ UNCHANGED <<purge, floor, outcome, entry, version>>
    BY <1>1, <1>t DEF Arrive, purging
  <2>2. \A q \in Requests \ {r} : answer'[q] = answer[q] /\ seen'[q] = seen[q]
    BY <1>1, <1>t DEF Arrive, JoinOrExecute, Execute
  <2>3. PICK s \in {"looking", "waiting", "handling"} :
          /\ at' = [at EXCEPT ![r] = s] /\ (s = "looking" => answer'[r] = entry)
          /\ (s = "handling" => seen'[r] = version)
    BY <1>1, <1>t DEF Arrive, JoinOrExecute, Execute
  <2>4. floor \in Floors
    BY DEF Floors
  <2> QED BY <2>1, <2>2, <2>3, <2>4, <1>r DEF Places
<1>2. ASSUME NEW r \in Requests, Look(r) PROVE RacingInv'
  <2>1. UNCHANGED <<purge, floor, answer, arrived, version>> /\ at[r] = "looking"
    BY <1>2 DEF Look, purging
  <2>2. CASE Serve(r, answer[r]) /\ UNCHANGED <<entry, seen>>
    BY <2>1, <2>2, <1>t DEF Serve, Floors, Fresh
  <2>3. CASE /\ \E s \in {"deleting", "waiting", "handling", "failed"} :
                  at' = [at EXCEPT ![r] = s] /\ (s = "handling" => seen'[r] = version)
             /\ \A q \in Requests \ {r} : seen'[q] = seen[q]
             /\ UNCHANGED outcome /\ entry' \in {entry, NoEntry}
    <3>1. PICK s \in {"deleting", "waiting", "handling", "failed"} :
            at' = [at EXCEPT ![r] = s] /\ (s = "handling" => seen'[r] = version)
      BY <2>3
    <3>2. s \in Places \ {"storing", "served"} /\ s \notin {"looking", "rereading"}
      BY DEF Places
    <3>3. arrived'[r].floor \in Floors
      BY <2>1 DEF Floors
    <3> QED BY <2>1, <2>3, <3>1, <3>2, <3>3, <1>r
  <2>4. CASE JoinOrExecute(r) /\ UNCHANGED <<entry, outcome>>
    <3>1. \A q \in Requests \ {r} : seen'[q] = seen[q]
      BY <2>4, <1>t DEF JoinOrExecute, Execute
    <3>2. \E s \in {"deleting", "waiting", "handling", "failed"} :
            at' = [at EXCEPT ![r] = s] /\ (s = "handling" => seen'[r] = version)
      BY <2>4, <1>t DEF JoinOrExecute, Execute
    <3> QED BY <2>3, <2>4, <3>1, <3>2
  <2> QED BY <1>2, <2>2, <2>3, <2>4 DEF Look, StoreRejects
<1>3. ASSUME NEW r \in Requests, Deleted(r) PROVE RacingInv'
  <2>1. /\ UNCHANGED <<purge, floor, answer, arrived, outcome, entry, version>> /\ at[r] = "deleting"
        /\ \A q \in Requests \ {r} : seen'[q] = seen[q]
    BY <1>3, <1>t DEF Deleted, purging, JoinOrExecute, Execute
  <2>2. PICK s \in {"waiting", "handling"} :
          at' = [at EXCEPT ![r] = s] /\ (s = "handling" => seen'[r] = version)
    BY <1>3, <1>t DEF Deleted, JoinOrExecute, Execute
  <2>3. arrived'[r].floor \in Floors
    BY <2>1 DEF Floors
  <2> QED BY <2>1, <2>2, <2>3, <1>r DEF Places
<1>4. ASSUME NEW r \in Requests, Wake(r) PROVE RacingInv'
  <2>1. /\ UNCHANGED <<purge, floor, arrived, outcome, entry, version, seen>> /\ at[r] = "waiting"
        /\ at' = [at EXCEPT ![r] = "rereading"] /\ answer' = [answer EXCEPT ![r] = entry]
    BY <1>4 DEF Wake, purging
  <2>2. arrived'[r].floor \in Floors
    BY <2>1 DEF Floors
  <2> QED BY <2>1, <2>2, <1>r, <1>t DEF Places
<1>5. ASSUME NEW r \in Requests, Reread(r) PROVE RacingInv'
  <2>1. UNCHANGED <<purge, floor, answer, arrived, entry, version>> /\ at[r] = "rereading"
    BY <1>5 DEF Reread, purging
  <2>2. CASE Serve(r, answer[r]) /\ UNCHANGED seen
    BY <2>1, <2>2, <1>t DEF Serve, Floors, Fresh
  <2>3. arrived'[r].floor \in Floors
    BY <2>1 DEF Floors
  <2>4. CASE Execute(r) /\ UNCHANGED outcome
    <3>1. /\ at' = [at EXCEPT ![r] = "handling"] /\ seen'[r] = version
          /\ \A q \in Requests \ {r} : seen'[q] = seen[q]
      BY <2>4, <1>t DEF Execute
    <3> QED BY <2>1, <2>3, <2>4, <3>1, <1>r DEF Places
  <2>5. CASE StoreRejects(r) /\ UNCHANGED <<outcome, seen>>
    BY <2>1, <2>3, <2>5, <1>r DEF Places, StoreRejects
  <2> QED BY <1>5, <2>2, <2>4, <2>5 DEF Reread
<1>6. ASSUME NEW r \in Requests, HandlerThrows(r) PROVE RacingInv'
  <2>1. /\ UNCHANGED <<purge, floor, answer, arrived, outcome, entry, version, seen>>
        /\ at[r] = "handling" /\ at' = [at EXCEPT ![r] = "failed"]
    BY <1>6 DEF HandlerThrows, purging
  <2>2. arrived'[r].floor \in Floors
    BY <2>1 DEF Floors
  <2> QED BY <2>1, <2>2, <1>r DEF Places
<1>7. ASSUME NEW r \in Requests, Stored(r) PROVE RacingInv'
  BY <1>7, <1>k, <1>t DEF Stored, purging
<1>8. ASSUME NEW r \in Requests, NEW kind \in Kinds, AnswersUnstorable(r, kind) PROVE RacingInv'
  <2>1. /\ UNCHANGED <<purge, floor, answer, arrived, entry, version, seen>>
        /\ at' = [at EXCEPT ![r] = "served"] /\ outcome' = [outcome EXCEPT ![r] = Own(r, kind)]
        /\ Own(r, kind).by = r
    BY <1>8 DEF AnswersUnstorable, Serve, purging, Own
  <2> QED BY <2>1, <1>t DEF Floors, Fresh
<1>9. ASSUME NEW r \in Requests, NEW kind \in Kinds, Answers(r, kind) PROVE RacingInv'
  <2>1. UNCHANGED <<purge, floor, answer, arrived, version, seen>> /\ at[r] = "handling"
    BY <1>9 DEF Answers, purging
  <2>2. CASE /\ entry' = Own(r, kind) /\ outcome' = [outcome EXCEPT ![r] = Own(r, kind)]
             /\ at' = [at EXCEPT ![r] = "storing"]
    <3>1. Own(r, kind).by = r /\ Own(r, kind).version = seen[r]
      BY DEF Own
    <3>2. \A f \in Floors \cup {purge} : Fresh(Own(r, kind), f)
      BY <2>1, <3>1 DEF Fresh
    <3> QED BY <2>1, <2>2, <3>1, <3>2, <1>t DEF Floors, Fresh
  <2>3. CASE UNCHANGED <<entry, outcome>> /\ at' = [at EXCEPT ![r] = "failed"]
    <3>1. arrived'[r].floor \in Floors
      BY <2>1 DEF Floors
    <3> QED BY <2>1, <2>3, <3>1, <1>r DEF Places
  <2> QED BY <1>9, <2>2, <2>3 DEF Answers, StoreRejects
<1>10. CASE ListKeys
  <2>1. /\ purge'.version = version /\ purge'.racing = {x \in Requests : at[x] = "handling"}
        /\ (purge'.state = "empty" => entry = NoEntry) /\ purge'.state # "idle"
        /\ UNCHANGED <<floor, answer, arrived, outcome, entry, at, seen, version>>
    BY <1>10 DEF ListKeys, history
  <2> QED BY <2>1, <1>n, <1>t DEF Floors, Fresh
<1>11. CASE DeleteKeys
  <2>1. /\ purge' = Idle /\ floor' = [version |-> purge.version, racing |-> purge.racing]
        /\ UNCHANGED <<answer, arrived, outcome, at, seen, version>>
        /\ entry' = IF purge.state = "listed" THEN NoEntry ELSE entry
        /\ purge.state \in {"empty", "listed"}
    BY <1>11, <1>t DEF DeleteKeys, PurgeEnds, history
  <2>2. Idle.version = 0 /\ Idle.state = "idle"
    BY DEF Idle
  <2>3. \A f \in Floors' : f \in Floors \/ (f.version = purge.version /\ f.racing = purge.racing)
    BY <2>1 DEF Floors
  <2>4. \A f \in Floors' : Fresh(entry', f)
    BY <2>1, <2>3, <1>n DEF Fresh
  <2>5. purge'.version <= version' /\ \A f \in Floors' : f.version <= version'
    BY <2>1, <2>2, <2>3, <1>t
  <2>6. \A f \in Floors' \cup {purge'}, x \in Requests :
          at'[x] = "handling" => x \in f.racing \/ seen'[x] >= f.version
    BY <2>1, <2>2, <2>3, <1>t
  <2> QED BY <2>1, <2>2, <2>4, <2>5, <2>6 DEF Fresh
<1>12. CASE Expire \/ Write \/ Tick \/ UNCHANGED vars
  BY <1>12, <1>k, <1>t DEF Expire, Write, Tick, vars, history, purging
<1> QED BY <1>1, <1>2, <1>3, <1>4, <1>5, <1>6, <1>7, <1>8, <1>9, <1>10, <1>11, <1>12 DEF Next

\* Once a purge has completed, who arrives later is served neither what was stored
\* when it began nor older data, except by a handler that was running then.
THEOREM PurgesHold == Spec => []PurgeHolds
<1>1. Init => PurgeInv
  BY CacheAssumption, EntriesTyped DEF Init, PurgeInv, Idle
<1>2. TypeOK /\ PurgeInv /\ RacingInv /\ ShareInv => PurgeHolds
  BY DEF PurgeInv, RacingInv, ShareInv, PurgeHolds, Fresh, TypeOK
<1>3. Spec => []ShareInv
  BY ShareInit, ShareStep, TypeCorrect, PTL DEF Spec
<1> QED BY <1>1, <1>2, <1>3, PurgeStep, RacingInit, RacingStep, TypeCorrect, AlwaysWait, PTL DEF Spec
=============================================================================
