----------------------------- MODULE AccessProofs -----------------------------
(***************************************************************************)
(* Theorems about who is let in: the auth cache of the video routes, the   *)
(* keys of the services and of the MCP server, the keys that sessions are  *)
(* signed with, the sessions of a self-hosted server, and the request      *)
(* limiter; for every set of facts, requests, orgs and keys, and every     *)
(* limit and window.  Each section proves one module.                      *)
(*                                                                         *)
(* The properties look at the last step of a request, so the invariants    *)
(* carry them back through it: an answer on its way into the cache is      *)
(* fresh unless its tag is out of date; what a request has read of a key   *)
(* and not yet used still holds unless the key has ended since; a fetch's  *)
(* stamp is accounted for by the fetch that left it; a tool call's log row *)
(* says how far it got; a sliding window holds the last admissions of its  *)
(* bucket, and the earlier ones have aged; and the requests that a limit   *)
(* has let through divide into windows, of which only the last is open.  A *)
(* local token that is let in was issued, and its session has not ended    *)
(* since.                                                                  *)
(***************************************************************************)
EXTENDS AuthCache, ServiceKeys, McpAccess, SigningKeys, RateLimiter,
        LocalSession, SequenceTheorems, FiniteSetTheorems, TLAPS

-------------------------------------------------------------------------------
(* The auth cache.                                                         *)

Vals == Answers \union {None}

UnderWay == {"look", "sample", "query", "put"}

\* An answer whose tag is the current generation is fresh.
PutFresh ==
    \A r \in Readers :
        rpc[r] = "put" /\ seen[r] = gen => answer[r] \in Current(asked[r])

\* What is current is legitimate for a request under way.
CurrentLegit ==
    \A r \in Readers : rpc[r] \in UnderWay => Current(asked[r]) \subseteq legit[r]

\* The answer a request is about to give is legitimate.
PutLegit == \A r \in Readers : rpc[r] = "put" => answer[r] \in legit[r]

IInv == TypeOK /\ CacheFresh /\ PutFresh /\ CurrentLegit /\ PutLegit /\ AnswersLegit

-------------------------------------------------------------------------------
\* The initial state satisfies the invariant.
LEMMA InitIInv == Init => IInv
  BY AuthCacheConstants
     DEF Init, IInv, TypeOK, CacheFresh, PutFresh, CurrentLegit, PutLegit,
         AnswersLegit, UnderWay

\* What is current follows from the database and the debts.
LEMMA CurrentSame ==
    ASSUME UNCHANGED <<db, owed>>, NEW f \in Facts
    PROVE  Current(f)' = Current(f)
  BY DEF Current

\* What the database holds is current.
LEMMA DbCurrent == ASSUME NEW f \in Facts PROVE db[f] \in Current(f)
  BY DEF Current

\* A commit makes nothing less current: the value it replaces is owed.
LEMMA CommitCurrent ==
    ASSUME TypeOK, NEW w \in Writers, Commit(w), NEW f \in Facts
    PROVE  /\ Current(f) \subseteq Current(f)'
           /\ Current(f)' \subseteq Current(f) \union {db'[f]}
<1>1. PICK new \in [Facts -> Answers \union {None}] :
        /\ db' = new
        /\ owed' = [owed EXCEPT ![w] = @ \union
                      {<<g, db[g]>> : g \in {h \in Facts : new[h] # db[h]}}]
  BY DEF Commit
<1>2. db[f] \in Vals /\ db'[f] \in Vals
  BY <1>1 DEF TypeOK, Vals
<1>3. ASSUME NEW v \in Vals, NEW u \in Writers, <<f, v>> \in owed[u]
      PROVE  <<f, v>> \in owed'[u]
  BY <1>1, <1>3 DEF TypeOK
<1>4. db[f] # db'[f] => <<f, db[f]>> \in owed'[w]
  BY <1>1 DEF TypeOK
<1>5. ASSUME NEW v \in Vals, NEW u \in Writers, <<f, v>> \in owed'[u]
      PROVE  <<f, v>> \in owed[u] \/ v = db[f]
  BY <1>1, <1>5 DEF TypeOK
<1>6. Current(f) \subseteq Current(f)'
  BY <1>2, <1>3, <1>4 DEF Current, Vals
<1>7. Current(f)' \subseteq Current(f) \union {db'[f]}
  BY <1>2, <1>5 DEF Current, Vals
<1> QED BY <1>6, <1>7

\* An invalidation only removes debts.
LEMMA InvalidateCurrent ==
    ASSUME TypeOK, NEW w \in Writers, Invalidate(w), NEW f \in Facts
    PROVE  Current(f)' \subseteq Current(f)
  BY DEF Invalidate, Current, TypeOK

\* Every step keeps the types.
LEMMA TypeStep == ASSUME TypeOK, [Next]_vars PROVE TypeOK'
<1> USE DEF TypeOK, Vals
<1>1. ASSUME NEW r \in Readers, Ask(r) PROVE TypeOK'
  <2>1. Current(asked[r]) \subseteq Vals
    BY DEF Current
  <2> QED BY <1>1, <2>1 DEF Ask, cache, writer
<1>2. ASSUME NEW r \in Readers, Look(r) PROVE TypeOK'
  BY <1>2 DEF Look, Synced, writer
<1>3. ASSUME NEW r \in Readers, Sample(r) PROVE TypeOK'
  BY <1>3 DEF Sample, cache, writer
<1>4. ASSUME NEW r \in Readers, Query(r) PROVE TypeOK'
  BY <1>4 DEF Query, cache, writer
<1>5. ASSUME NEW r \in Readers, QueryFails(r) PROVE TypeOK'
  BY <1>5 DEF QueryFails, cache, writer
<1>6. ASSUME NEW r \in Readers, Put(r) PROVE TypeOK'
  BY <1>6 DEF Put, Synced, writer
<1>7. ASSUME NEW r \in Readers, Rest(r) PROVE TypeOK'
  BY <1>7 DEF Rest, cache, writer
<1>8. ASSUME NEW f \in Facts, Expire(f) PROVE TypeOK'
  BY <1>8 DEF Expire, reader, writer
<1>9. ASSUME NEW w \in Writers, Begin(w) PROVE TypeOK'
  BY <1>9, AuthCacheConstants DEF Begin, cache, reader
<1>10. ASSUME NEW w \in Writers, Commit(w) PROVE TypeOK'
  BY <1>10, AuthCacheConstants DEF Commit, cache
<1>11. ASSUME NEW w \in Writers, Invalidate(w) PROVE TypeOK'
  BY <1>11 DEF Invalidate, cache, reader
<1>12. ASSUME NEW w \in Writers, Abort(w) PROVE TypeOK'
  BY <1>12 DEF Abort, cache, reader
<1>13. CASE UNCHANGED vars
  BY <1>13 DEF vars, cache, reader, writer
<1> QED BY <1>1, <1>2, <1>3, <1>4, <1>5, <1>6, <1>7, <1>8, <1>9, <1>10, <1>11,
           <1>12, <1>13 DEF Next, Lookup, Write

\* Every step keeps the rest of the invariant.
LEMMA IInvStep == ASSUME IInv, [Next]_vars PROVE IInv'
<1> USE DEF UnderWay, Vals
<1>0. TypeOK /\ TypeOK'
  BY TypeStep DEF IInv
<1>a. CacheFresh /\ PutFresh /\ CurrentLegit /\ PutLegit /\ AnswersLegit
  BY DEF IInv
<1>1. ASSUME NEW r \in Readers, Ask(r) PROVE IInv'
  <2>1. \A f \in Facts : Current(f)' = Current(f)
    BY <1>1, CurrentSame DEF Ask, writer
  <2>2. CacheFresh'
    BY <1>1, <1>0, <1>a, <2>1 DEF Ask, CacheFresh, cache
  <2>3. PutFresh'
    BY <1>1, <1>0, <1>a, <2>1 DEF Ask, PutFresh, TypeOK
  <2>4. CurrentLegit'
    BY <1>1, <1>0, <1>a, <2>1 DEF Ask, CurrentLegit, TypeOK
  <2>5. PutLegit' /\ AnswersLegit'
    BY <1>1, <1>0, <1>a DEF Ask, PutLegit, AnswersLegit, TypeOK
  <2> QED BY <1>0, <2>2, <2>3, <2>4, <2>5 DEF IInv
<1>2. ASSUME NEW r \in Readers, Look(r) PROVE IInv'
  <2>1. \A f \in Facts : Current(f)' = Current(f)
    BY <1>2, CurrentSame DEF Look, writer
  <2>2. \A f \in Facts : Synced[f] # None => Synced[f] \in Current(f)
    BY <1>a DEF Synced, CacheFresh
  <2>3. CacheFresh'
    BY <1>2, <2>1, <2>2 DEF Look, CacheFresh
  <2>4. PutFresh' /\ CurrentLegit' /\ PutLegit'
    BY <1>2, <1>0, <1>a, <2>1 DEF Look, PutFresh, CurrentLegit, PutLegit, TypeOK
  <2>5. AnswersLegit'
    BY <1>2, <1>0, <1>a, <2>2 DEF Look, AnswersLegit, CurrentLegit, TypeOK
  <2> QED BY <1>0, <2>3, <2>4, <2>5 DEF IInv
<1>3. ASSUME NEW r \in Readers, Sample(r) \/ QueryFails(r) \/ Rest(r) PROVE IInv'
  <2>1. \A f \in Facts : Current(f)' = Current(f)
    BY <1>3, CurrentSame DEF Sample, QueryFails, Rest, writer
  <2>2. CacheFresh'
    BY <1>3, <1>a, <2>1 DEF Sample, QueryFails, Rest, CacheFresh, cache
  <2>3. PutFresh'
    BY <1>3, <1>0, <1>a, <2>1 DEF Sample, QueryFails, Rest, PutFresh, TypeOK
  <2>4. CurrentLegit'
    BY <1>3, <1>0, <1>a, <2>1 DEF Sample, QueryFails, Rest, CurrentLegit, TypeOK
  <2>5. PutLegit' /\ AnswersLegit'
    BY <1>3, <1>0, <1>a DEF Sample, QueryFails, Rest, PutLegit, AnswersLegit, TypeOK
  <2> QED BY <1>0, <2>2, <2>3, <2>4, <2>5 DEF IInv
<1>4. ASSUME NEW r \in Readers, Query(r) PROVE IInv'
  <2>1. \A f \in Facts : Current(f)' = Current(f)
    BY <1>4, CurrentSame DEF Query, writer
  <2>2. asked[r] \in Facts
    BY <1>0 DEF TypeOK
  <2>3. db[asked[r]] \in Current(asked[r])
    BY <2>2, DbCurrent
  <2>4. db[asked[r]] \in legit[r]
    BY <1>4, <1>a, <2>3 DEF Query, CurrentLegit
  <2>5. CacheFresh'
    BY <1>4, <1>a, <2>1 DEF Query, CacheFresh, cache
  <2>6. PutFresh' /\ CurrentLegit'
    BY <1>4, <1>0, <1>a, <2>1, <2>3 DEF Query, PutFresh, CurrentLegit, TypeOK
  <2>7. PutLegit' /\ AnswersLegit'
    BY <1>4, <1>0, <1>a, <2>4 DEF Query, PutLegit, AnswersLegit, TypeOK
  <2> QED BY <1>0, <2>5, <2>6, <2>7 DEF IInv
<1>5. ASSUME NEW r \in Readers, Put(r) PROVE IInv'
  <2>1. \A f \in Facts : Current(f)' = Current(f)
    BY <1>5, CurrentSame DEF Put, writer
  <2>2. \A f \in Facts : Synced[f] # None => Synced[f] \in Current(f)
    BY <1>a DEF Synced, CacheFresh
  <2>3. Tagged(r) => answer[r] \in Current(asked[r])
    BY <1>5, <1>a DEF Put, Tagged, PutFresh
  <2>4. CacheFresh'
    <3>1. ASSUME NEW f \in Facts, entry'[f] # None PROVE entry'[f] \in Current(f)
      BY <1>5, <2>2, <2>3, <3>1, <1>0 DEF Put, Synced, TypeOK
    <3> QED BY <2>1, <3>1 DEF CacheFresh
  <2>5. PutFresh' /\ CurrentLegit'
    BY <1>5, <1>0, <1>a, <2>1 DEF Put, PutFresh, CurrentLegit, TypeOK
  <2>6. PutLegit' /\ AnswersLegit'
    BY <1>5, <1>0, <1>a DEF Put, PutLegit, AnswersLegit, TypeOK
  <2> QED BY <1>0, <2>4, <2>5, <2>6 DEF IInv
<1>6. ASSUME NEW f \in Facts, Expire(f) PROVE IInv'
  <2>1. \A g \in Facts : Current(g)' = Current(g)
    BY <1>6, CurrentSame DEF Expire, writer
  <2>2. CacheFresh'
    BY <1>6, <1>0, <1>a, <2>1 DEF Expire, CacheFresh, TypeOK
  <2>3. PutFresh' /\ CurrentLegit' /\ PutLegit' /\ AnswersLegit'
    BY <1>6, <1>0, <1>a, <2>1
       DEF Expire, PutFresh, CurrentLegit, PutLegit, AnswersLegit, reader, TypeOK
  <2> QED BY <1>0, <2>2, <2>3 DEF IInv
<1>7. ASSUME NEW w \in Writers, Begin(w) \/ Abort(w) PROVE IInv'
  <2>1. \A f \in Facts : Current(f)' = Current(f)
    BY <1>7, CurrentSame DEF Begin, Abort
  <2>2. CacheFresh' /\ PutFresh' /\ CurrentLegit' /\ PutLegit' /\ AnswersLegit'
    BY <1>7, <1>0, <1>a, <2>1
       DEF Begin, Abort, CacheFresh, PutFresh, CurrentLegit, PutLegit, AnswersLegit,
           reader, cache, TypeOK
  <2> QED BY <1>0, <2>2 DEF IInv
<1>8. ASSUME NEW w \in Writers, Commit(w) PROVE IInv'
  <2>1. \A f \in Facts : /\ Current(f) \subseteq Current(f)'
                          /\ Current(f)' \subseteq Current(f) \union {db'[f]}
    BY <1>8, <1>0, CommitCurrent
  <2>2. /\ UNCHANGED <<gen, cacheGen, entry, rpc, asked, seen, answer>>
        /\ \A r \in Readers : legit[r] \subseteq legit'[r]
        /\ \A r \in Readers : rpc[r] \in UnderWay => db'[asked[r]] \in legit'[r]
    BY <1>8, <1>0 DEF Commit, cache, TypeOK
  <2>3. CacheFresh'
    BY <1>a, <2>1, <2>2 DEF CacheFresh
  <2>4. PutFresh'
    BY <1>a, <1>0, <2>1, <2>2 DEF PutFresh, TypeOK
  <2>5. CurrentLegit'
    BY <1>a, <1>0, <2>1, <2>2 DEF CurrentLegit, TypeOK
  <2>6. PutLegit' /\ AnswersLegit'
    BY <1>a, <2>2 DEF PutLegit, AnswersLegit
  <2> QED BY <1>0, <2>3, <2>4, <2>5, <2>6 DEF IInv
<1>9. ASSUME NEW w \in Writers, Invalidate(w) PROVE IInv'
  <2>1. \A f \in Facts : Current(f)' \subseteq Current(f)
    BY <1>9, <1>0, InvalidateCurrent
  <2>2. CacheFresh'
    BY <1>9, <1>0 DEF Invalidate, CacheFresh, cache, TypeOK
  <2>3. PutFresh'
    BY <1>9, <1>0 DEF Invalidate, PutFresh, reader, TypeOK
  <2>4. CurrentLegit' /\ PutLegit' /\ AnswersLegit'
    BY <1>9, <1>0, <1>a, <2>1
       DEF Invalidate, CurrentLegit, PutLegit, AnswersLegit, reader, TypeOK
  <2> QED BY <1>0, <2>2, <2>3, <2>4 DEF IInv
<1>10. CASE UNCHANGED vars
  <2>1. \A f \in Facts : Current(f)' = Current(f)
    BY <1>10, CurrentSame DEF vars, writer
  <2>2. CacheFresh' /\ PutFresh' /\ CurrentLegit' /\ PutLegit' /\ AnswersLegit'
    BY <1>10, <1>0, <1>a, <2>1
       DEF CacheFresh, PutFresh, CurrentLegit, PutLegit, AnswersLegit, vars, reader,
           cache, TypeOK
  <2> QED BY <1>0, <2>2 DEF IInv
<1> QED BY <1>1, <1>2, <1>3, <1>4, <1>5, <1>6, <1>7, <1>8, <1>9, <1>10
           DEF Next, Lookup, Write

-------------------------------------------------------------------------------
\* The invariant always holds.
THEOREM Invariance == Spec => []IInv
  BY InitIInv, IInvStep, PTL DEF Spec

\* Whatever the interleaving of lookups, inserts, evictions and writes, every
\* variable of the auth cache keeps its type and no tag is ahead of
\* AUTH_GENERATION.
THEOREM TypeCorrect == Spec => []TypeOK
<1>1. IInv => TypeOK BY DEF IInv
<1> QED BY <1>1, Invariance, PTL

\* A lookup never finds a fact that was revoked and whose revocation was
\* announced by invalidate_auth_cache: put refuses an answer older than the
\* generation it is inserted under.
THEOREM CacheStaysFresh == Spec => []CacheFresh
<1>1. IInv => CacheFresh BY DEF IInv
<1> QED BY <1>1, Invariance, PTL

\* No request of the push and viewer routes is answered with a fact that had
\* been revoked, and announced, before the request began.
THEOREM EveryAnswerLegit == Spec => []AnswersLegit
<1>1. IInv => AnswersLegit BY DEF IInv
<1> QED BY <1>1, Invariance, PTL

-------------------------------------------------------------------------------
(* Service keys.                                                           *)

KeyRow  == [org : KeyOrgs \union {"nobody"}, kind : KeyKinds \union {"none", "erased"},
            revoked : BOOLEAN]
Desk    == [pc : {"idle", "insert", "revoke"}, org : KeyOrgs \union {"nobody"},
            kind : KeyKinds \union {"none"}, id : KeyIds \union {0}, revoked : BOOLEAN]
Program == [pc : {"idle", "lookup", "stamp", "act"}, org : KeyOrgs \union {"nobody"},
            kind : KeyKinds \union {"none"}, id : KeyIds \union {0}, late : BOOLEAN]

KeysTyped == keyStore \in [KeyIds -> KeyRow] /\ endedKeys \subseteq KeyIds

\* A request names what it is about once it needs to.
DesksTyped ==
    /\ deskWork \in [Desks -> Desk]
    /\ \A a \in Desks :
         /\ deskWork[a].pc = "insert" => deskWork[a].org \in KeyOrgs /\ deskWork[a].kind \in KeyKinds
         /\ deskWork[a].pc = "revoke" => deskWork[a].id \in KeyIds

ProgramsTyped ==
    /\ programWork \in [Programs -> Program]
    /\ \A p \in Programs : programWork[p].pc # "idle" => programWork[p].id \in KeyIds

\* A key that no route accepts any more.
KeyEnded(id) == keyStore[id].kind = "erased" \/ keyStore[id].revoked

\* An id that was never minted has no row; a row that no one erased has its org.
RowsMinted ==
    \A id \in KeyIds :
        /\ keyStore[id].kind = "none" => keyStore[id] = Unminted
        /\ Exists(id) => keyStore[id].org \in KeyOrgs

\* A revocation under way is of a row its org owns, or of one erased since;
\* a row it read as revoked has stayed so.
RevokesOwn ==
    \A a \in Desks : deskWork[a].pc = "revoke" =>
        LET desk == deskWork[a] IN
        /\ keyStore[desk.id].kind # "none"
        /\ Exists(desk.id) => keyStore[desk.id].org = desk.org
        /\ desk.revoked => KeyEnded(desk.id)

\* What was answered as ended is.
EndedKeysEnded == \A id \in endedKeys : keyStore[id].kind # "none" /\ KeyEnded(id)

\* A key is presented once it is minted, and a late one has ended.
PresentedMinted ==
    \A p \in Programs : programWork[p].pc # "idle" =>
        LET call == programWork[p] IN
        /\ keyStore[call.id].kind # "none"
        /\ call.late => KeyEnded(call.id)

\* From the lookup on, what KeysActForTheirOrg says of a request that acts.
LookedUpHolds ==
    \A p \in Programs : programWork[p].pc \in {"stamp", "act"} =>
        LET call == programWork[p] IN
        /\ ~call.late
        /\ Exists(call.id) => keyStore[call.id].org = call.org /\ keyStore[call.id].kind = call.kind

ServiceIInv ==
    /\ KeysTyped /\ DesksTyped /\ ProgramsTyped
    /\ RowsMinted /\ RevokesOwn /\ EndedKeysEnded /\ PresentedMinted /\ LookedUpHolds

-------------------------------------------------------------------------------
\* No key has been minted, and nobody asks.
LEMMA ServiceInitIInv == ServiceInit => ServiceIInv
  BY DEF ServiceInit, ServiceIInv, KeysTyped, DesksTyped, ProgramsTyped, RowsMinted,
         RevokesOwn, EndedKeysEnded, PresentedMinted, LookedUpHolds, KeyRow, Desk,
         Program, KeyKinds, KeyOrgs, Unminted, NoDesk, NoProgram, Exists

\* A request that has just been presented, late or not.
Presented(p, kind, id, late) ==
    /\ late <=> id \in endedKeys
    /\ programWork' = [programWork EXCEPT ![p] =
         [NoProgram EXCEPT !.pc = "lookup", !.kind = kind, !.id = id, !.late = late]]

\* A presentation notes whether the key had ended by then.
LEMMA PresentEffect ==
    ASSUME NEW p \in Programs, NEW kind \in KeyKinds, NEW id \in KeyIds, Present(p, kind, id)
    PROVE  \E late \in BOOLEAN : Presented(p, kind, id, late)
<1>1. PICK late \in BOOLEAN : late <=> id \in endedKeys
  OBVIOUS
<1>2. late = (id \in endedKeys)
  BY <1>1
<1>3. programWork' = [programWork EXCEPT ![p] =
         [NoProgram EXCEPT !.pc = "lookup", !.kind = kind, !.id = id, !.late = late]]
  BY <1>2, Zenon DEF Present
<1> QED BY <1>1, <1>3 DEF Presented

\* Every step keeps the types of the rows ...
LEMMA KeysTypedStep ==
    ASSUME KeysTyped, DesksTyped, [ServiceNext]_serviceVars PROVE KeysTyped'
<1> USE DEF KeysTyped, KeyRow, KeyOrgs, KeyKinds
<1>1. ASSUME NEW a \in Desks, NEW id \in KeyIds, InsertKey(a, id) PROVE KeysTyped'
  BY <1>1 DEF InsertKey, DesksTyped
<1>2. ASSUME NEW a \in Desks, EndRevoke(a) PROVE KeysTyped'
  <2>1. deskWork[a].id \in KeyIds
    BY <1>2 DEF EndRevoke, DesksTyped
  <2> QED BY <1>2, <2>1 DEF EndRevoke
<1>3. ASSUME NEW o \in KeyOrgs, NEW id \in KeyIds, MintIntegrationKey(o, id) PROVE KeysTyped'
  BY <1>3 DEF MintIntegrationKey
<1>4. ASSUME NEW o \in KeyOrgs, EraseKeysOf(o) PROVE KeysTyped'
  BY <1>4 DEF EraseKeysOf, Erased
<1>5. CASE UNCHANGED <<keyStore, endedKeys>>
  BY <1>5
<1> HIDE DEF KeysTyped, KeyRow, KeyOrgs, KeyKinds
<1> QED BY <1>1, <1>2, <1>3, <1>4, <1>5
        DEF ServiceNext, BeginMint, BeginRevoke, AbandonDesk, Present, LookUp, StampUse,
            Serve, SetStanding, serviceVars

\* ... of the admins' requests ...
LEMMA DesksTypedStep ==
    ASSUME KeysTyped, DesksTyped, [ServiceNext]_serviceVars PROVE DesksTyped'
<1> USE DEF DesksTyped, Desk, KeyOrgs, KeyKinds
<1>1. ASSUME NEW a \in Desks, NEW o \in KeyOrgs, NEW kind \in KeyKinds, BeginMint(a, o, kind)
      PROVE  DesksTyped'
  BY <1>1 DEF BeginMint, NoDesk
<1>2. ASSUME NEW a \in Desks, NEW o \in KeyOrgs, NEW kind \in KeyKinds, NEW id \in KeyIds,
             BeginRevoke(a, o, kind, id)
      PROVE  DesksTyped'
  BY <1>2 DEF BeginRevoke, KeysTyped, KeyRow
<1>3. ASSUME NEW a \in Desks, deskWork' = [deskWork EXCEPT ![a] = NoDesk] PROVE DesksTyped'
  BY <1>3 DEF NoDesk
<1>4. CASE UNCHANGED deskWork
  BY <1>4
<1> HIDE DEF DesksTyped, Desk, KeyOrgs, KeyKinds
<1> QED BY <1>1, <1>2, <1>3, <1>4
        DEF ServiceNext, InsertKey, EndRevoke, AbandonDesk, Present, LookUp, StampUse,
            Serve, SetStanding, EraseKeysOf, MintIntegrationKey, serviceVars

\* ... and of the programs'.
LEMMA ProgramsTypedStep ==
    ASSUME KeysTyped, ProgramsTyped, [ServiceNext]_serviceVars PROVE ProgramsTyped'
<1> USE DEF ProgramsTyped, Program, KeyOrgs, KeyKinds
<1>1. ASSUME NEW p \in Programs, NEW kind \in KeyKinds, NEW id \in KeyIds, Present(p, kind, id)
      PROVE  ProgramsTyped'
  <2>1. PICK late \in BOOLEAN : Presented(p, kind, id, late)
    BY <1>1, PresentEffect
  <2> DEFINE call == [NoProgram EXCEPT !.pc = "lookup", !.kind = kind, !.id = id, !.late = late]
  <2>2. call.id = id
    BY DEF NoProgram
  <2>3. call \in Program
    BY Zenon DEF NoProgram
  <2>4. programWork' = [programWork EXCEPT ![p] = call]
    BY <2>1 DEF Presented
  <2> HIDE DEF call, Program
  <2> QED BY <2>2, <2>3, <2>4
<1>2. ASSUME NEW p \in Programs, LookUp(p) PROVE ProgramsTyped'
  <2> DEFINE call  == programWork[p]
             found == [call EXCEPT !.pc = "stamp", !.org = keyStore[call.id].org]
  <2>1. keyStore[call.id].org \in KeyOrgs \union {"nobody"}
    BY <1>2 DEF LookUp, KeysTyped, KeyRow
  <2>2. call \in Program /\ call.id \in KeyIds
    BY <1>2 DEF LookUp
  <2>3. found \in Program /\ found.id = call.id
    BY <2>1, <2>2
  <2>4. NoProgram \in Program /\ NoProgram.pc = "idle"
    BY DEF NoProgram
  <2>5. \/ programWork' = [programWork EXCEPT ![p] = found]
        \/ programWork' = [programWork EXCEPT ![p] = NoProgram]
    BY <1>2 DEF LookUp
  <2> HIDE DEF call, found, Program
  <2> QED BY <2>2, <2>3, <2>4, <2>5
<1>3. ASSUME NEW p \in Programs, StampUse(p) PROVE ProgramsTyped'
  BY <1>3 DEF StampUse, NoProgram
<1>4. ASSUME NEW p \in Programs, Serve(p) PROVE ProgramsTyped'
  BY <1>4 DEF Serve, NoProgram
<1>5. CASE UNCHANGED programWork
  BY <1>5
<1> HIDE DEF ProgramsTyped, Program, KeyOrgs, KeyKinds
<1> QED BY <1>1, <1>2, <1>3, <1>4, <1>5
        DEF ServiceNext, BeginMint, BeginRevoke, InsertKey, EndRevoke, AbandonDesk,
            SetStanding, EraseKeysOf, MintIntegrationKey, serviceVars

\* What every step keeps of a key: once minted it stays minted, its org and its
\* kind are its own until it is erased, and what has ended stays so.
LEMMA KeyKept ==
    ASSUME ServiceIInv, [ServiceNext]_serviceVars,
           NEW id \in KeyIds, keyStore[id].kind # "none"
    PROVE  /\ keyStore'[id].kind # "none"
           /\ Exists(id)' => /\ keyStore'[id].org = keyStore[id].org
                             /\ keyStore'[id].kind = keyStore[id].kind
           /\ KeyEnded(id) => KeyEnded(id)'
<1> DEFINE Kept == /\ keyStore'[id].kind # "none"
                   /\ Exists(id)' => /\ keyStore'[id].org = keyStore[id].org
                                     /\ keyStore'[id].kind = keyStore[id].kind
                   /\ KeyEnded(id) => KeyEnded(id)'
<1> SUFFICES Kept
  OBVIOUS
<1> USE DEF Exists, KeyEnded, KeyKinds
<1>0. KeysTyped /\ DesksTyped
  BY DEF ServiceIInv
<1>1. ASSUME NEW a \in Desks, NEW k \in KeyIds, InsertKey(a, k) PROVE Kept
  BY <1>0, <1>1 DEF InsertKey, KeysTyped, Unminted
<1>2. ASSUME NEW a \in Desks, EndRevoke(a) PROVE Kept
  <2>1. deskWork[a].id \in KeyIds
    BY <1>0, <1>2 DEF EndRevoke, DesksTyped
  <2> QED BY <1>0, <1>2, <2>1 DEF EndRevoke, KeysTyped, KeyRow
<1>3. ASSUME NEW o \in KeyOrgs, NEW k \in KeyIds, MintIntegrationKey(o, k) PROVE Kept
  BY <1>0, <1>3 DEF MintIntegrationKey, KeysTyped, Unminted
<1>4. ASSUME NEW o \in KeyOrgs, EraseKeysOf(o) PROVE Kept
  BY <1>0, <1>4 DEF EraseKeysOf, Erased, KeysTyped
<1>5. CASE UNCHANGED keyStore
  BY <1>5
<1> HIDE DEF Kept, Exists, KeyEnded, KeyKinds
<1> QED BY <1>1, <1>2, <1>3, <1>4, <1>5
        DEF ServiceNext, BeginMint, BeginRevoke, AbandonDesk, Present, LookUp, StampUse,
            Serve, SetStanding, serviceVars

\* Rows are minted whole.
LEMMA RowsMintedStep ==
    ASSUME ServiceIInv, [ServiceNext]_serviceVars PROVE RowsMinted'
<1> USE DEF RowsMinted, Exists, KeyKinds
<1>0. KeysTyped /\ DesksTyped /\ RowsMinted
  BY DEF ServiceIInv
<1>1. ASSUME NEW a \in Desks, NEW k \in KeyIds, InsertKey(a, k) PROVE RowsMinted'
  BY <1>0, <1>1 DEF InsertKey, KeysTyped, DesksTyped
<1>2. ASSUME NEW a \in Desks, EndRevoke(a) PROVE RowsMinted'
  <2>1. deskWork[a].id \in KeyIds /\ keyStore[deskWork[a].id].kind # "none"
    BY <1>0, <1>2 DEF EndRevoke, DesksTyped, RevokesOwn, ServiceIInv
  <2> QED BY <1>0, <1>2, <2>1 DEF EndRevoke, KeysTyped, KeyRow
<1>3. ASSUME NEW o \in KeyOrgs, NEW k \in KeyIds, MintIntegrationKey(o, k) PROVE RowsMinted'
  BY <1>0, <1>3 DEF MintIntegrationKey, KeysTyped
<1>4. ASSUME NEW o \in KeyOrgs, EraseKeysOf(o) PROVE RowsMinted'
  BY <1>0, <1>4 DEF EraseKeysOf, Erased, KeysTyped
<1>5. CASE UNCHANGED keyStore
  BY <1>0, <1>5
<1> HIDE DEF RowsMinted, Exists, KeyKinds
<1> QED BY <1>1, <1>2, <1>3, <1>4, <1>5
        DEF ServiceNext, BeginMint, BeginRevoke, AbandonDesk, Present, LookUp, StampUse,
            Serve, SetStanding, serviceVars

\* A revocation under way stays one of its org's own row.
LEMMA RevokesOwnStep ==
    ASSUME ServiceIInv, [ServiceNext]_serviceVars PROVE RevokesOwn'
<1>0. KeysTyped /\ DesksTyped /\ RevokesOwn /\ RowsMinted
  BY DEF ServiceIInv
<1> SUFFICES ASSUME NEW a \in Desks, NEW desk, desk = deskWork'[a], desk.pc = "revoke",
                    NEW id, id = desk.id
             PROVE  /\ keyStore'[id].kind # "none"
                    /\ Exists(id)' => keyStore'[id].org = desk.org
                    /\ desk.revoked => KeyEnded(id)'
  BY DEF RevokesOwn, Exists, KeyEnded
<1>1. CASE deskWork'[a] = deskWork[a]
  <2>1. id \in KeyIds /\ keyStore[id].kind # "none"
    BY <1>0, <1>1 DEF DesksTyped, RevokesOwn
  <2>2. /\ Exists(id) => keyStore[id].org = desk.org
        /\ desk.revoked => KeyEnded(id)
    BY <1>0, <1>1 DEF RevokesOwn
  <2>3. /\ keyStore'[id].kind # "none"
        /\ Exists(id)' => /\ keyStore'[id].org = keyStore[id].org
                          /\ keyStore'[id].kind = keyStore[id].kind
        /\ KeyEnded(id) => KeyEnded(id)'
    BY <2>1, KeyKept
  <2> QED BY <2>2, <2>3 DEF Exists
<1>2. CASE deskWork'[a] # deskWork[a]
  <2>1. PICK o \in KeyOrgs, kind \in KeyKinds, k \in KeyIds : BeginRevoke(a, o, kind, k)
    <3>1. ASSUME NEW b \in Desks, deskWork' = [deskWork EXCEPT ![b] = NoDesk] PROVE FALSE
      BY <1>0, <1>2, <3>1 DEF DesksTyped, NoDesk
    <3>2. ASSUME NEW b \in Desks, NEW o \in KeyOrgs, NEW kind \in KeyKinds, BeginMint(b, o, kind)
          PROVE  FALSE
      BY <1>0, <1>2, <3>2 DEF BeginMint, DesksTyped, NoDesk
    <3>3. ASSUME NEW b \in Desks, NEW o \in KeyOrgs, NEW kind \in KeyKinds, NEW k \in KeyIds,
                 BeginRevoke(b, o, kind, k), b # a
          PROVE  FALSE
      BY <1>0, <1>2, <3>3 DEF BeginRevoke, DesksTyped
    <3>4. UNCHANGED deskWork => FALSE
      BY <1>2
    <3> QED BY <3>1, <3>2, <3>3, <3>4
            DEF ServiceNext, InsertKey, EndRevoke, AbandonDesk, Present, LookUp, StampUse,
                Serve, SetStanding, EraseKeysOf, MintIntegrationKey, serviceVars
  <2>2. /\ keyStore' = keyStore /\ id = k /\ desk.org = o /\ desk.revoked = keyStore[k].revoked
        /\ Exists(k) /\ keyStore[k].org = o
    BY <1>0, <2>1 DEF BeginRevoke, DesksTyped, Revocable
  <2> QED BY <2>2 DEF Exists, KeyEnded, KeyKinds
<1> QED BY <1>1, <1>2

\* What was answered as ended stays so, and only what has ended is.
LEMMA EndedKeysStep ==
    ASSUME ServiceIInv, [ServiceNext]_serviceVars PROVE EndedKeysEnded'
<1>0. KeysTyped /\ DesksTyped /\ RevokesOwn /\ EndedKeysEnded
  BY DEF ServiceIInv
<1>1. ASSUME NEW id \in endedKeys PROVE keyStore'[id].kind # "none" /\ KeyEnded(id)'
  BY <1>0, KeyKept DEF EndedKeysEnded, KeysTyped
<1>2. ASSUME NEW a \in Desks, EndRevoke(a) PROVE EndedKeysEnded'
  <2>0. PICK id \in KeyIds : id = deskWork[a].id
    BY <1>0, <1>2 DEF EndRevoke, DesksTyped
  <2>1. keyStore[id].kind # "none"
    BY <1>0, <1>2, <2>0 DEF EndRevoke, RevokesOwn
  <2>2. KeyEnded(id)'
    <3>1. CASE KeyEnded(id) /\ keyStore' = keyStore
      BY <3>1 DEF KeyEnded
    <3>2. CASE keyStore' = [keyStore EXCEPT ![id].revoked = TRUE]
      BY <1>0, <3>2 DEF KeysTyped, KeyRow, KeyEnded
    <3>3. deskWork[a].revoked \/ keyStore[id].org # deskWork[a].org => KeyEnded(id)
      BY <1>0, <1>2, <2>0, <2>1 DEF EndRevoke, RevokesOwn, KeysTyped, KeyRow, KeyEnded, Exists
    <3> QED BY <1>2, <2>0, <3>1, <3>2, <3>3 DEF EndRevoke
  <2>3. keyStore'[id].kind # "none"
    BY <2>1, KeyKept
  <2>4. endedKeys' = endedKeys \union {id}
    BY <1>2, <2>0 DEF EndRevoke
  <2> QED BY <1>1, <2>2, <2>3, <2>4 DEF EndedKeysEnded, KeyEnded
<1>3. ASSUME NEW o \in KeyOrgs, EraseKeysOf(o) PROVE EndedKeysEnded'
  <2>1. /\ keyStore' = [id \in KeyIds |-> IF keyStore[id].org = o THEN Erased ELSE keyStore[id]]
        /\ endedKeys' = endedKeys \union {id \in KeyIds : keyStore[id].org = o}
    BY <1>3 DEF EraseKeysOf
  <2>2. ASSUME NEW id \in KeyIds, keyStore[id].org = o
        PROVE  keyStore'[id].kind # "none" /\ KeyEnded(id)'
    BY <2>1, <2>2 DEF Erased, KeyEnded
  <2> QED BY <1>1, <2>1, <2>2 DEF EndedKeysEnded, KeyEnded
<1>4. CASE UNCHANGED endedKeys
  BY <1>1, <1>4 DEF EndedKeysEnded, KeyEnded
<1> QED BY <1>2, <1>3, <1>4
        DEF ServiceNext, BeginMint, InsertKey, BeginRevoke, AbandonDesk, Present, LookUp,
            StampUse, Serve, SetStanding, MintIntegrationKey, serviceVars

\* What a step makes of the request of a program: the same, none, one that has
\* just been presented, one its lookup found, or one that has been stamped.
LEMMA ProgramSteps ==
    ASSUME ServiceIInv, [ServiceNext]_serviceVars, NEW p \in Programs
    PROVE  \/ programWork'[p] = programWork[p]
           \/ programWork'[p] = NoProgram
           \/ \E kind \in KeyKinds, id \in KeyIds : Present(p, kind, id)
           \/ LookUp(p)
           \/ programWork[p].pc = "stamp" /\ programWork'[p] = [programWork[p] EXCEPT !.pc = "act"]
<1>0. ProgramsTyped
  BY DEF ServiceIInv
<1>1. ASSUME NEW q \in Programs, NEW new, programWork' = [programWork EXCEPT ![q] = new]
      PROVE  programWork'[p] = programWork[p] \/ (q = p /\ programWork'[p] = new)
  BY <1>0, <1>1 DEF ProgramsTyped
<1>2. ASSUME NEW q \in Programs, NEW kind \in KeyKinds, NEW id \in KeyIds, Present(q, kind, id)
      PROVE  programWork'[p] = programWork[p] \/ q = p
  BY <1>1, <1>2, Zenon DEF Present
<1>3. ASSUME NEW q \in Programs, LookUp(q) PROVE programWork'[p] = programWork[p] \/ q = p
  BY <1>1, <1>3, Zenon DEF LookUp
<1>4. ASSUME NEW q \in Programs, StampUse(q)
      PROVE  \/ programWork'[p] = programWork[p]
             \/ programWork'[p] = NoProgram
             \/ programWork[p].pc = "stamp" /\ programWork'[p] = [programWork[p] EXCEPT !.pc = "act"]
  BY <1>1, <1>4, Zenon DEF StampUse
<1>5. ASSUME NEW q \in Programs, Serve(q)
      PROVE  programWork'[p] = programWork[p] \/ programWork'[p] = NoProgram
  BY <1>1, <1>5, Zenon DEF Serve
<1> QED BY <1>2, <1>3, <1>4, <1>5
        DEF ServiceNext, BeginMint, InsertKey, BeginRevoke, AbandonDesk, EndRevoke,
            SetStanding, MintIntegrationKey, EraseKeysOf, serviceVars

\* A presented key was minted, and one presented late has ended.
LEMMA PresentedStep ==
    ASSUME ServiceIInv, [ServiceNext]_serviceVars PROVE PresentedMinted'
<1>0. /\ KeysTyped /\ ProgramsTyped /\ PresentedMinted /\ EndedKeysEnded /\ RowsMinted
      /\ ProgramsTyped'
  BY ProgramsTypedStep DEF ServiceIInv
<1> SUFFICES ASSUME NEW p \in Programs, NEW call, call = programWork'[p], call.pc # "idle",
                    NEW id, id = call.id
             PROVE  keyStore'[id].kind # "none" /\ (call.late => KeyEnded(id)')
  BY DEF PresentedMinted, KeyEnded
<1>1. ASSUME programWork[p].pc # "idle", programWork[p].id = id, programWork[p].late = call.late
      PROVE  keyStore'[id].kind # "none" /\ (call.late => KeyEnded(id)')
  <2>1. id \in KeyIds /\ keyStore[id].kind # "none"
    BY <1>0, <1>1 DEF ProgramsTyped, PresentedMinted
  <2>2. call.late => KeyEnded(id)
    BY <1>0, <1>1 DEF PresentedMinted
  <2> QED BY <2>1, <2>2, KeyKept
<1>2. CASE programWork'[p] = programWork[p]
  BY <1>1, <1>2
<1>3. CASE programWork'[p] = NoProgram
  BY <1>3 DEF NoProgram
<1>4. ASSUME NEW kind \in KeyKinds, NEW k \in KeyIds, Present(p, kind, k)
      PROVE  keyStore'[id].kind # "none" /\ (call.late => KeyEnded(id)')
  <2>1. PICK late \in BOOLEAN : Presented(p, kind, k, late)
    BY <1>4, PresentEffect
  <2>2. id = k /\ call.late = late
    BY <1>0, <2>1 DEF Presented, ProgramsTyped, NoProgram
  <2>3. keyStore[k] # Unminted /\ keyStore' = keyStore
    BY <1>4 DEF Present
  <2> QED BY <1>0, <2>1, <2>2, <2>3 DEF Presented, RowsMinted, EndedKeysEnded, KeyEnded
<1>5. CASE LookUp(p)
  <2>1. call.id = programWork[p].id /\ call.late = programWork[p].late /\ programWork[p].pc = "lookup"
    <3>1. programWork'[p] \in {NoProgram, [programWork[p] EXCEPT !.pc = "stamp",
                                   !.org = keyStore[programWork[p].id].org]}
      BY <1>0, <1>5 DEF LookUp, ProgramsTyped
    <3>2. programWork[p].pc = "lookup" /\ keyStore' = keyStore
      BY <1>5, Zenon DEF LookUp
    <3>3. call # NoProgram /\ programWork[p] \in Program
      BY <1>0 DEF NoProgram, ProgramsTyped
    <3> QED BY <3>1, <3>2, <3>3 DEF Program
  <2> QED BY <1>1, <2>1
<1>6. CASE programWork[p].pc = "stamp" /\ programWork'[p] = [programWork[p] EXCEPT !.pc = "act"]
  <2>1. call.id = programWork[p].id /\ call.late = programWork[p].late
    BY <1>0, <1>6 DEF ProgramsTyped, Program
  <2> QED BY <1>1, <1>6, <2>1
<1> QED BY <1>2, <1>3, <1>4, <1>5, <1>6, ProgramSteps

\* A request the lookup let through is not late, and acts for its key's org.
LEMMA LookedUpStep ==
    ASSUME ServiceIInv, [ServiceNext]_serviceVars PROVE LookedUpHolds'
<1>0. /\ KeysTyped /\ ProgramsTyped /\ PresentedMinted /\ LookedUpHolds
      /\ ProgramsTyped'
  BY ProgramsTypedStep DEF ServiceIInv
<1> SUFFICES ASSUME NEW p \in Programs, NEW call, call = programWork'[p],
                    call.pc \in {"stamp", "act"}, NEW id, id = call.id
             PROVE  /\ ~call.late
                    /\ Exists(id)' => keyStore'[id].org = call.org /\ keyStore'[id].kind = call.kind
  BY DEF LookedUpHolds, Exists
<1> DEFINE Holds == /\ ~call.late
                    /\ Exists(id)' => keyStore'[id].org = call.org /\ keyStore'[id].kind = call.kind
<1>1. ASSUME programWork[p].pc \in {"stamp", "act"}, programWork[p].id = id,
             programWork[p].late = call.late, programWork[p].org = call.org,
             programWork[p].kind = call.kind
      PROVE  Holds
  <2>1. id \in KeyIds /\ keyStore[id].kind # "none"
    BY <1>0, <1>1 DEF ProgramsTyped, PresentedMinted
  <2>2. /\ ~call.late
        /\ Exists(id) => keyStore[id].org = call.org /\ keyStore[id].kind = call.kind
    BY <1>0, <1>1 DEF LookedUpHolds
  <2>3. Exists(id)' => /\ keyStore'[id].org = keyStore[id].org
                       /\ keyStore'[id].kind = keyStore[id].kind
    BY <2>1, KeyKept
  <2> QED BY <2>2, <2>3 DEF Exists
<1>2. CASE programWork'[p] = programWork[p]
  BY <1>1, <1>2
<1>3. CASE programWork'[p] = NoProgram
  BY <1>3 DEF NoProgram
<1>4. ASSUME NEW kind \in KeyKinds, NEW k \in KeyIds, Present(p, kind, k) PROVE FALSE
  <2>1. PICK late \in BOOLEAN : Presented(p, kind, k, late)
    BY <1>4, PresentEffect
  <2> QED BY <1>0, <2>1 DEF Presented, ProgramsTyped, NoProgram
<1>5. CASE LookUp(p)
  <2>1. /\ programWork[p].pc = "lookup" /\ id = programWork[p].id
        /\ call.late = programWork[p].late /\ keyStore' = keyStore
        /\ call.kind = programWork[p].kind /\ call.org = keyStore[id].org
        /\ Accepts(call.kind, id)
    <3>1. \/ programWork'[p] = NoProgram
          \/ /\ Accepts(programWork[p].kind, programWork[p].id)
             /\ programWork'[p] = [programWork[p] EXCEPT !.pc = "stamp",
                                   !.org = keyStore[programWork[p].id].org]
      BY <1>0, <1>5 DEF LookUp, Accepts, ProgramsTyped
    <3>2. programWork[p].pc = "lookup" /\ keyStore' = keyStore
      BY <1>5, Zenon DEF LookUp
    <3>3. call # NoProgram /\ programWork[p] \in Program
      BY <1>0 DEF NoProgram, ProgramsTyped
    <3> QED BY <3>1, <3>2, <3>3 DEF Program
  <2>2. call.late => KeyEnded(id)
    BY <1>0, <2>1 DEF PresentedMinted
  <2>3. id \in KeyIds /\ call.kind \in KeyKinds \union {"none"}
    BY <1>0, <2>1 DEF ProgramsTyped, Program
  <2> QED BY <2>1, <2>2, <2>3 DEF Accepts, KeyEnded, KeyKinds
<1>6. CASE programWork[p].pc = "stamp" /\ programWork'[p] = [programWork[p] EXCEPT !.pc = "act"]
  <2>1. /\ call.id = programWork[p].id /\ call.late = programWork[p].late
        /\ call.org = programWork[p].org /\ call.kind = programWork[p].kind
    BY <1>0, <1>6 DEF ProgramsTyped, Program
  <2> QED BY <1>1, <1>6, <2>1
<1> QED BY <1>2, <1>3, <1>4, <1>5, <1>6, ProgramSteps

\* The invariant holds of every behaviour.
LEMMA ServiceInvariant == ServiceSpec => []ServiceIInv
<1>1. ASSUME ServiceIInv, [ServiceNext]_serviceVars PROVE ServiceIInv'
  <2>1. KeysTyped /\ DesksTyped /\ ProgramsTyped
    BY <1>1 DEF ServiceIInv
  <2> QED BY <1>1, <2>1, KeysTypedStep, DesksTypedStep, ProgramsTypedStep, RowsMintedStep,
             RevokesOwnStep, EndedKeysStep, PresentedStep, LookedUpStep DEF ServiceIInv
<1> QED BY <1>1, ServiceInitIInv, PTL DEF ServiceSpec

\* Whatever is revoked, erased or minted between the statements of a request
\* that presents a key (AgentPrincipal, IntegrationUser), the request acts only
\* if no end of the key was answered before it began, and for the key's org.
THEOREM KeysActForTheirOrgAlways == ServiceSpec => []KeysActForTheirOrg
<1>1. ServiceIInv => KeysActForTheirOrg
  BY DEF ServiceIInv, LookedUpHolds, KeysActForTheirOrg
<1> QED BY <1>1, ServiceInvariant, PTL

-------------------------------------------------------------------------------
(* The MCP server's tool calls.                                            *)

McpRow  == [kind : {"none", "mcp", "integration", "agent"},
            mode : {"all", "readonly", "custom"}, tools : SUBSET AllTools,
            revoked : BOOLEAN]
McpCall == [pc : {"idle", "home", "scope", "resolve", "admit", "tool", "log"},
            cred : Creds, tool : AllTools \union {HomeTool}, org : McpOrgs \union {NoOrg},
            failed : BOOLEAN, late : BOOLEAN, name : {"unnamed", "key", "agent"}]

\* Each credential is of its own kind, the shared key of none.
RowsTyped ==
    /\ keyRows \in [Creds -> McpRow]
    /\ keyRows["shared"] = NoRow
    /\ keyRows["integration"].kind = "integration"
    /\ keyRows["scoped"].kind = "agent"
    /\ keyRows["mcp"].kind \in {"none", "mcp"}
    /\ keyRows["mcp"].kind = "none" => keyRows["mcp"] = NoRow

CallsTyped == mcpCalls \in [Clients -> McpCall]

\* What is known of a call on its way, by how far it has come.
CallHolds(call) ==
    LET row == keyRows[call.cred] IN
    /\ call.pc \in {"home", "scope", "resolve", "admit", "tool"} =>
         /\ call.late => row.revoked
         /\ call.cred = "mcp" => row.kind = "mcp"
    /\ call.pc = "home" <=> call.tool = HomeTool /\ call.pc # "tool"
    /\ call.pc \in {"resolve", "admit"} /\ ~call.failed /\ call.cred \in {"mcp", "scoped", "shared"} =>
         call.tool \in ScopeOf(call.cred) \/ row.revoked
    /\ call.pc = "admit" =>
         /\ ~call.late /\ call.cred # "integration"
         /\ ~call.failed => call.tool \in ScopeOf(call.cred)
         /\ call.name = IF call.cred = "mcp" THEN "key" ELSE "agent"
         /\ call.cred = "mcp" => call.org = HomeOrg
    /\ call.pc = "tool" =>
         /\ ~call.late
         /\ ~call.failed => call.tool \in ScopeOf(call.cred)
         /\ call.cred = "integration" <=> call.tool = HomeTool
         /\ call.org = HomeOrg

CallsHold == \A k \in Clients : CallHolds(mcpCalls[k])

McpIInv == RowsTyped /\ CallsTyped /\ CallsHold

-------------------------------------------------------------------------------
\* The ways a call goes on: not at all, it is over, it is to be logged, ...
Over(new) ==
    new \in {NoCall, [NoCall EXCEPT !.pc = "log"]} \/ \E o \in McpOrgs \union {NoOrg} : new = [NoCall EXCEPT !.pc = "log", !.org = o]

\* ... it arrives, ...
Arrives(call, new) ==
    /\ call.pc = "idle"
    /\ \E c \in Creds, t \in AllTools \union {HomeTool}, o \in McpOrgs \union {NoOrg} :
         /\ c = "mcp" => keyRows[c].kind = "mcp"
         /\ new = [NoCall EXCEPT !.pc = IF t = HomeTool THEN "home" ELSE "scope",
                        !.cred = c, !.tool = t, !.org = o, !.late = keyRows[c].revoked]

\* ... the scope gate lets it through, ...
Gated(call, new) ==
    /\ call.pc = "scope"
    /\ \E fails \in BOOLEAN :
         /\ ~fails /\ Recognised(call.cred) => call.tool \in LookupAllowed(call.cred)
         /\ new = [call EXCEPT !.pc = "resolve", !.failed = fails]

\* ... its row is read, ...
Resolved(call, new) ==
    /\ call.pc = "resolve"
    /\ \E o \in ActsFor(call.cred, call.org) :
         new = [call EXCEPT !.pc = "admit", !.org = o,
                            !.name = IF call.cred = "mcp" THEN "key" ELSE "agent"]

\* ... the windows admit it, ...
Admitted(call, new) ==
    /\ call.pc = "admit" /\ (call.name = "agent" => call.org = HomeOrg)
    /\ new = [call EXCEPT !.pc = "tool"]

\* ... or the home-automation surface does.
AdmittedHome(call, new) ==
    /\ call.pc = "home" /\ Live(call.cred, "integration")
    /\ new = [call EXCEPT !.pc = "tool", !.org = HomeOrg]

GoesOn(call, new) ==
    \/ new = call \/ Over(new) \/ Arrives(call, new) \/ Gated(call, new)
    \/ Resolved(call, new) \/ Admitted(call, new) \/ AdmittedHome(call, new)

LEMMA McpInitIInv == McpInit => McpIInv
<1> SUFFICES ASSUME McpInit PROVE McpIInv
  OBVIOUS
<1> USE DEF NoRow, NoCall, Creds, HomeTool, AllTools, ReadTools, AgentWriteTools
<1>1. RowsTyped
  <2>1. /\ keyRows["integration"] = [NoRow EXCEPT !.kind = "integration"]
        /\ keyRows["scoped"] = [NoRow EXCEPT !.kind = "agent"]
        /\ keyRows["shared"] = NoRow /\ keyRows["mcp"] = NoRow
    BY DEF McpInit
  <2>2. NoRow \in McpRow /\ keyRows["integration"] \in McpRow /\ keyRows["scoped"] \in McpRow
    BY <2>1 DEF McpRow
  <2>3. \A c \in Creds : keyRows[c] \in McpRow
    BY <2>1, <2>2
  <2>4. keyRows \in [Creds -> McpRow]
    <3> HIDE DEF Creds, NoRow
    <3> QED BY <2>3 DEF McpInit
  <2> QED BY <2>1, <2>4 DEF RowsTyped
<1>2. CallsTyped
  BY DEF McpInit, CallsTyped, McpCall
<1>3. CallsHold
  BY DEF McpInit, CallsHold, CallHolds
<1> QED BY <1>1, <1>2, <1>3 DEF McpIInv

\* A step moves the calls on, one at a time, each in one of those ways; the rows
\* stay unless a key is created or revoked.
Moves ==
    /\ \A k \in Clients : GoesOn(mcpCalls[k], mcpCalls'[k])
    /\ mcpCalls' = [j \in Clients |-> mcpCalls'[j]]

LEMMA McpCallSteps ==
    ASSUME CallsTyped, [McpNext]_mcpVars PROVE  Moves
<1>1. ASSUME NEW j \in Clients, NEW new, mcpCalls' = [mcpCalls EXCEPT ![j] = new],
             GoesOn(mcpCalls[j], new)
      PROVE  Moves
  BY <1>1 DEF Moves, CallsTyped, GoesOn
<1>2. ASSUME NEW j \in Clients, NEW c \in Creds, NEW t \in AllTools \union {HomeTool},
             NEW o \in McpOrgs \union {NoOrg}, CallTool(j, c, t, o)
      PROVE  Moves
  <2> DEFINE new == [NoCall EXCEPT !.pc = IF t = HomeTool THEN "home" ELSE "scope",
                        !.cred = c, !.tool = t, !.org = o, !.late = keyRows[c].revoked]
  <2>1. mcpCalls' = [mcpCalls EXCEPT ![j] = new] /\ Arrives(mcpCalls[j], new)
    BY <1>2, Zenon DEF CallTool, Arrives
  <2> QED BY <1>1, <2>1, Zenon DEF GoesOn
<1>3. ASSUME NEW j \in Clients, ScopeGate(j) PROVE Moves
  <2>1. CASE mcpCalls' = [mcpCalls EXCEPT ![j] = NoCall]
    BY <1>1, <2>1 DEF GoesOn, Over
  <2>2. ASSUME NEW fails \in BOOLEAN,
               ~fails /\ Recognised(mcpCalls[j].cred) => mcpCalls[j].tool \in LookupAllowed(mcpCalls[j].cred),
               mcpCalls' = [mcpCalls EXCEPT ![j].pc = "resolve", ![j].failed = fails]
        PROVE  Moves
    <3> DEFINE new == [mcpCalls[j] EXCEPT !.pc = "resolve", !.failed = fails]
    <3>1. mcpCalls' = [mcpCalls EXCEPT ![j] = new]
      BY <2>2 DEF CallsTyped
    <3>2. Gated(mcpCalls[j], new)
      BY <1>3, <2>2, Zenon DEF ScopeGate, Gated
    <3> QED BY <1>1, <3>1, <3>2, Zenon DEF GoesOn
  <2> QED BY <1>3, <2>1, <2>2, Zenon DEF ScopeGate
<1>4. ASSUME NEW j \in Clients, NEW o \in McpOrgs \union {NoOrg}, FailWith(j, o)
      PROVE  Moves
  BY <1>1, <1>4, Zenon DEF FailWith, GoesOn, Over
<1>5. ASSUME NEW j \in Clients, ReadKey(j) PROVE Moves
  <2>1. ASSUME NEW o \in ActsFor(mcpCalls[j].cred, mcpCalls[j].org),
               mcpCalls' = [mcpCalls EXCEPT ![j].pc = "admit", ![j].org = o,
                              ![j].name = IF mcpCalls[j].cred = "mcp" THEN "key" ELSE "agent"]
        PROVE  Moves
    <3> DEFINE new == [mcpCalls[j] EXCEPT !.pc = "admit", !.org = o,
                              !.name = IF mcpCalls[j].cred = "mcp" THEN "key" ELSE "agent"]
    <3>1. mcpCalls' = [mcpCalls EXCEPT ![j] = new]
      BY <2>1 DEF CallsTyped
    <3>2. Resolved(mcpCalls[j], new)
      BY <1>5, Zenon DEF ReadKey, Resolved
    <3> QED BY <1>1, <3>1, <3>2, Zenon DEF GoesOn
  <2>2. NoOrg \in McpOrgs \union {NoOrg}
    OBVIOUS
  <2> QED BY <1>4, <1>5, <2>1, <2>2, Zenon DEF ReadKey
<1>6. ASSUME NEW j \in Clients, Admit(j) PROVE Moves
  <2>1. NoOrg \in McpOrgs \union {NoOrg}
    OBVIOUS
  <2>2. ASSUME NEW b, Check(j, b)
        PROVE  \/ mcpCalls' = [mcpCalls EXCEPT ![j] = [mcpCalls[j] EXCEPT !.pc = "tool"]]
               \/ mcpCalls' = [mcpCalls EXCEPT ![j] = [NoCall EXCEPT !.pc = "log"]]
    BY <2>2, Zenon DEF Check
  <2>3. CASE mcpCalls' = [mcpCalls EXCEPT ![j] = [NoCall EXCEPT !.pc = "log"]]
    BY <1>1, <2>3, Zenon DEF GoesOn, Over
  <2>4. CASE /\ mcpCalls[j].name = "agent" => mcpCalls[j].org = HomeOrg
             /\ mcpCalls' = [mcpCalls EXCEPT ![j] = [mcpCalls[j] EXCEPT !.pc = "tool"]]
    BY <1>1, <1>6, <2>4, Zenon DEF GoesOn, Admitted, Admit
  <2> QED BY <1>4, <1>6, <2>1, <2>2, <2>3, <2>4, Zenon DEF Admit
<1>7. ASSUME NEW j \in Clients, Dispatch(j) PROVE Moves
  <2>1. mcpCalls[j].org \in McpOrgs \union {NoOrg}
    BY DEF CallsTyped, McpCall
  <2> QED BY <1>1, <1>7, <2>1, Zenon DEF Dispatch, GoesOn, Over
<1>8. ASSUME NEW j \in Clients, LogEvent(j) PROVE Moves
  BY <1>1, <1>8, Zenon DEF LogEvent, GoesOn, Over
<1>9. ASSUME NEW j \in Clients, IntegrationGate(j) PROVE Moves
  BY <1>1, <1>9, Zenon DEF IntegrationGate, GoesOn, Over, AdmittedHome
<1>10. CASE UNCHANGED mcpCalls
  BY <1>10 DEF Moves, CallsTyped, GoesOn
<1> QED BY <1>2, <1>3, <1>5, <1>6, <1>7, <1>8, <1>9, <1>10, Zenon
        DEF McpNext, CreateMcpKey, Revoke, SwitchSentinel, McpTick, mcpVars

\* What is revoked stays revoked, and a key is scoped as it was created.
RowsKept ==
    \A c \in Creds :
        /\ keyRows[c].revoked => keyRows'[c].revoked
        /\ keyRows[c].kind = "mcp" =>
             /\ keyRows'[c].kind = "mcp" /\ keyRows'[c].mode = keyRows[c].mode
             /\ keyRows'[c].tools = keyRows[c].tools

\* Every step keeps the types of the rows, and the rows.
LEMMA McpRowsStep ==
    ASSUME RowsTyped, [McpNext]_mcpVars PROVE RowsTyped' /\ RowsKept
<1>1. ASSUME NEW mode \in {"all", "readonly", "custom"}, NEW ts \in Customs, CreateMcpKey(mode, ts)
      PROVE  RowsTyped' /\ RowsKept
  <2> DEFINE row == [kind |-> "mcp", mode |-> mode, revoked |-> FALSE,
                     tools |-> IF mode = "custom" THEN ts ELSE {}]
  <2>1. keyRows["mcp"] = NoRow /\ keyRows' = [keyRows EXCEPT !["mcp"] = row]
    BY <1>1 DEF CreateMcpKey
  <2>2. (IF mode = "custom" THEN ts ELSE {}) \subseteq AllTools
    BY <1>1 DEF CreateMcpKey
  <2>3. row \in McpRow /\ row.kind = "mcp"
    BY <2>2 DEF McpRow
  <2> HIDE DEF row
  <2> QED BY <2>1, <2>3 DEF RowsTyped, RowsKept, NoRow, Creds
<1>2. ASSUME NEW c \in Creds, Revoke(c) PROVE RowsTyped' /\ RowsKept
  <2>1. /\ keyRows' = [keyRows EXCEPT ![c] = [keyRows[c] EXCEPT !.revoked = TRUE]]
        /\ c # "shared" /\ keyRows[c].kind # "none"
    BY <1>2 DEF Revoke, RowsTyped, NoRow, McpRow
  <2>2. keyRows[c] \in McpRow
    BY DEF RowsTyped
  <2> DEFINE row == [keyRows[c] EXCEPT !.revoked = TRUE]
  <2>3. /\ row \in McpRow /\ row.revoked /\ row.kind = keyRows[c].kind
        /\ row.mode = keyRows[c].mode /\ row.tools = keyRows[c].tools
    BY <2>2 DEF McpRow
  <2> HIDE DEF row
  <2> QED BY <2>1, <2>3 DEF RowsTyped, RowsKept, Creds, row
<1>3. CASE UNCHANGED keyRows
  BY <1>3 DEF RowsTyped, RowsKept
<1>4. ASSUME NEW k \in Clients, NEW o, FailWith(k, o) PROVE UNCHANGED keyRows
  BY <1>4 DEF FailWith
<1>5. ASSUME NEW k \in Clients,
             ScopeGate(k) \/ IntegrationGate(k) \/ ReadKey(k) \/ Admit(k) \/ Dispatch(k) \/ LogEvent(k)
      PROVE  UNCHANGED keyRows
  BY <1>4, <1>5 DEF ScopeGate, IntegrationGate, ReadKey, Admit, Dispatch, LogEvent
<1>6. SwitchSentinel \/ McpTick \/ UNCHANGED mcpVars => UNCHANGED keyRows
  BY DEF SwitchSentinel, McpTick, mcpVars
<1>7. ASSUME NEW k \in Clients, NEW c \in Creds, NEW t \in AllTools \cup {HomeTool},
             NEW o \in McpOrgs \cup {NoOrg}, CallTool(k, c, t, o)
      PROVE  UNCHANGED keyRows
  BY <1>7 DEF CallTool
<1> QED BY <1>1, <1>2, <1>3, <1>5, <1>6, <1>7 DEF McpNext

\* A step that does not move a call leaves true what was known of it.
LEMMA CallKept ==
    ASSUME RowsTyped, RowsKept, NEW call \in McpCall, CallHolds(call) PROVE CallHolds(call)'
<1>1. call.cred \in Creds
  BY DEF McpCall
<1>2. keyRows[call.cred].revoked => keyRows'[call.cred].revoked
  BY <1>1 DEF RowsKept
<1>3. keyRows[call.cred].kind = "mcp" => keyRows'[call.cred].kind = "mcp"
  BY <1>1 DEF RowsKept
<1>4. call.cred = "mcp" /\ keyRows[call.cred].kind = "mcp" => ScopeOf(call.cred)' = ScopeOf(call.cred)
  BY <1>1 DEF RowsKept, ScopeOf, ComputeAllowed
<1>5. call.cred # "mcp" => ScopeOf(call.cred)' = ScopeOf(call.cred)
  BY <1>1 DEF ScopeOf, Creds
<1> QED BY <1>1, <1>2, <1>3, <1>4, <1>5 DEF CallHolds

\* Where a call goes on to, what is known of it holds again.
LEMMA CallGoesOn ==
    ASSUME RowsTyped, NEW call \in McpCall, CallHolds(call), NEW new, GoesOn(call, new)
    PROVE  new \in McpCall /\ CallHolds(new)
<1>1. CASE new = call
  BY <1>1
<1>2. CASE Over(new)
  <2>1. new \in McpCall /\ new.pc \in {"idle", "log"} /\ new.tool = "view"
    <3> USE DEF McpCall, NoCall, Creds, AllTools, ReadTools
    <3>1. CASE new = NoCall
      BY <3>1
    <3>2. CASE new = [NoCall EXCEPT !.pc = "log"]
      BY <3>2
    <3>3. ASSUME NEW o \in McpOrgs \union {NoOrg}, new = [NoCall EXCEPT !.pc = "log", !.org = o]
          PROVE  new \in McpCall /\ new.pc \in {"idle", "log"} /\ new.tool = "view"
      <4>1. new = [pc |-> "log", cred |-> "mcp", tool |-> "view", org |-> o,
                   failed |-> FALSE, late |-> FALSE, name |-> "unnamed"]
        BY <3>3
      <4> QED BY <4>1
    <3> QED BY <1>2, <3>1, <3>2, <3>3 DEF Over
  <2> QED BY <2>1 DEF CallHolds, HomeTool
<1>3. CASE Arrives(call, new)
  <2>1. PICK c \in Creds, t \in AllTools \union {HomeTool}, o \in McpOrgs \union {NoOrg} :
          /\ c = "mcp" => keyRows[c].kind = "mcp"
          /\ new = [NoCall EXCEPT !.pc = IF t = HomeTool THEN "home" ELSE "scope",
                        !.cred = c, !.tool = t, !.org = o, !.late = keyRows[c].revoked]
    BY <1>3 DEF Arrives
  <2>2. keyRows[c].revoked \in BOOLEAN
    BY DEF RowsTyped, McpRow
  <2>3. /\ new \in McpCall /\ new.pc = (IF t = HomeTool THEN "home" ELSE "scope")
        /\ new.cred = c /\ new.tool = t /\ new.late = keyRows[c].revoked
    <3> DEFINE pc == IF t = HomeTool THEN "home" ELSE "scope"
    <3>1. pc \in {"home", "scope"}
      OBVIOUS
    <3>2. \A place \in {"home", "scope"}, late \in BOOLEAN :
             [NoCall EXCEPT !.pc = place, !.cred = c, !.tool = t, !.org = o, !.late = late] \in McpCall
      BY Zenon DEF McpCall, NoCall
    <3>3. /\ new.pc = pc /\ new.cred = c /\ new.tool = t /\ new.late = keyRows[c].revoked
      BY <2>1 DEF NoCall
    <3> HIDE DEF pc
    <3> QED BY <2>1, <2>2, <3>1, <3>2, <3>3 DEF pc
  <2> QED BY <2>1, <2>3 DEF CallHolds
<1>4. CASE Gated(call, new)
  <2>1. PICK fails \in BOOLEAN :
          /\ ~fails /\ Recognised(call.cred) => call.tool \in LookupAllowed(call.cred)
          /\ new = [call EXCEPT !.pc = "resolve", !.failed = fails]
    BY <1>4 DEF Gated
  <2>2. /\ new \in McpCall /\ new.pc = "resolve" /\ new.failed = fails /\ new.cred = call.cred
        /\ new.tool = call.tool /\ new.late = call.late
    BY <2>1 DEF McpCall
  <2>3. call.tool # HomeTool
    BY <1>4 DEF Gated, CallHolds
  <2>4. ~fails /\ call.cred \in {"mcp", "scoped", "shared"} =>
          call.tool \in ScopeOf(call.cred) \/ keyRows[call.cred].revoked
    BY <1>4, <2>1 DEF Gated, CallHolds, Recognised, LookupAllowed, Live, ScopeOf, RowsTyped, NoRow
  <2> QED BY <1>4, <2>2, <2>3, <2>4 DEF Gated, CallHolds
<1>5. CASE Resolved(call, new)
  <2>1. PICK o \in ActsFor(call.cred, call.org) :
          new = [call EXCEPT !.pc = "admit", !.org = o,
                             !.name = IF call.cred = "mcp" THEN "key" ELSE "agent"]
    BY <1>5 DEF Resolved
  <2>2. /\ call.cred \in {"mcp", "scoped", "shared"} /\ ~keyRows[call.cred].revoked
        /\ o \in McpOrgs \union {NoOrg} /\ (call.cred = "mcp" => o = HomeOrg)
    BY <2>1 DEF ActsFor, Live, RowsTyped, NoRow, McpCall, Creds, HomeOrg, McpOrgs
  <2>3. /\ new \in McpCall /\ new.pc = "admit" /\ new.failed = call.failed /\ new.cred = call.cred
        /\ new.tool = call.tool /\ new.late = call.late /\ new.org = o
        /\ new.name = IF call.cred = "mcp" THEN "key" ELSE "agent"
    BY <2>1, <2>2 DEF McpCall
  <2> QED BY <1>5, <2>2, <2>3 DEF Resolved, CallHolds
<1>6. CASE Admitted(call, new)
  <2>1. /\ new \in McpCall /\ new.pc = "tool" /\ new.failed = call.failed /\ new.cred = call.cred
        /\ new.tool = call.tool /\ new.late = call.late /\ new.org = call.org
    BY <1>6 DEF Admitted, McpCall
  <2> QED BY <1>6, <2>1 DEF Admitted, CallHolds
<1>7. CASE AdmittedHome(call, new)
  <2>1. /\ new \in McpCall /\ new.pc = "tool" /\ new.failed = call.failed /\ new.cred = call.cred
        /\ new.tool = call.tool /\ new.late = call.late /\ new.org = HomeOrg
    BY <1>7 DEF AdmittedHome, McpCall, HomeOrg, McpOrgs
  <2>2. call.cred = "integration" /\ ~keyRows[call.cred].revoked
    BY <1>7 DEF AdmittedHome, Live, RowsTyped, NoRow, McpCall, Creds
  <2> QED BY <1>7, <2>1, <2>2 DEF AdmittedHome, CallHolds, ScopeOf, HomeTool
<1> QED BY <1>1, <1>2, <1>3, <1>4, <1>5, <1>6, <1>7 DEF GoesOn

\* A step that moves a call leaves the rows alone.
LEMMA McpStep == ASSUME McpIInv, [McpNext]_mcpVars PROVE McpIInv'
<1>1. RowsTyped /\ CallsTyped /\ CallsHold /\ RowsTyped' /\ RowsKept
  BY McpRowsStep DEF McpIInv
<1>2. ASSUME NEW k \in Clients PROVE mcpCalls'[k] \in McpCall /\ CallHolds(mcpCalls'[k])
  <2>1. mcpCalls[k] \in McpCall /\ CallHolds(mcpCalls[k]) /\ GoesOn(mcpCalls[k], mcpCalls'[k])
    BY <1>1, McpCallSteps DEF Moves, CallsTyped, CallsHold
  <2> QED BY <1>1, <2>1, CallGoesOn
<1>3. CallsHold'
  <2> SUFFICES ASSUME NEW k \in Clients, NEW call, call = mcpCalls'[k] PROVE CallHolds(call)'
    BY DEF CallsHold
  <2> QED BY <1>1, <1>2, CallKept
<1>4. CallsTyped'
  BY <1>1, <1>2, McpCallSteps DEF Moves, CallsTyped
<1> QED BY <1>1, <1>3, <1>4 DEF McpIInv

LEMMA McpInvariant == McpSpec => []McpIInv
  BY McpInitIInv, McpStep, PTL DEF McpSpec

\* call_tool and resolve: whatever is revoked between the scope gate and the
\* resolver, no call that arrived after its key's revocation reaches a tool.
THEOREM RevokedStaysOutAlways == McpSpec => []RevokedStaysOut
<1>1. McpIInv => RevokedStaysOut
  BY DEF McpIInv, CallsHold, CallHolds, RevokedStaysOut, Running
<1> QED BY <1>1, McpInvariant, PTL

\* A tool runs in the org its credential is bound to and within its scope: the
\* scope a key was created with, the agents' for an agent's key.
THEOREM ScopeHoldsAlways == McpSpec => []ScopeHolds
<1>1. McpIInv => ScopeHolds
  BY DEF McpIInv, CallsHold, CallHolds, ScopeHolds, Running
<1> QED BY <1>1, McpInvariant, PTL

-------------------------------------------------------------------------------
\* The tracker: what becomes of the number of calls in flight when call j goes
\* on to new.
Counted == IsFiniteSet(InFlight) /\ begunCalls \in Nat /\ totalCalls \in Nat
               /\ turnedAway \in Nat /\ EveryCallCounted

FlightOf(call) == call.pc # "idle" /\ call.tool # HomeTool

LEMMA FlightMoves ==
    ASSUME CallsTyped, Counted, NEW j \in Clients, NEW new,
           mcpCalls' = [mcpCalls EXCEPT ![j] = new],
           /\ begunCalls' \in Nat /\ totalCalls' \in Nat /\ turnedAway' \in Nat
           /\ begunCalls' + totalCalls + turnedAway + (IF FlightOf(mcpCalls[j]) THEN 1 ELSE 0)
                = begunCalls + totalCalls' + turnedAway' + (IF FlightOf(new) THEN 1 ELSE 0)
    PROVE  Counted'
<1> DEFINE F == InFlight
           G == InFlight'
<1>1. mcpCalls'[j] = new /\ \A k \in Clients \ {j} : mcpCalls'[k] = mcpCalls[k]
  BY DEF CallsTyped
<1>2. /\ F \subseteq Clients /\ IsFiniteSet(F)
      /\ j \in F <=> FlightOf(mcpCalls[j])
  BY DEF Counted, InFlight, FlightOf
<1>3. /\ j \in G <=> FlightOf(new)
      /\ G \subseteq Clients /\ \A k \in Clients \ {j} : k \in G <=> k \in F
  BY <1>1 DEF InFlight, FlightOf
<1> HIDE DEF F, G
<1>4. PICK n \in Nat : n = Cardinality(F)
  BY <1>2, FS_CardinalityType
<1>5. /\ IsFiniteSet(G)
      /\ Cardinality(G) + (IF j \in F THEN 1 ELSE 0) = n + (IF j \in G THEN 1 ELSE 0)
  <2>1. CASE j \in F /\ j \notin G
    <3>1. G = F \ {j}
      BY <2>1, <1>2, <1>3
    <3>2. IsFiniteSet(G) /\ Cardinality(G) = Cardinality(F) - 1
      BY <3>1, <2>1, <1>2, FS_RemoveElement
    <3> QED BY <3>2, <2>1, <1>4
  <2>2. CASE j \notin F /\ j \in G
    <3>1. G = F \union {j}
      BY <2>2, <1>2, <1>3
    <3>2. IsFiniteSet(G) /\ Cardinality(G) = Cardinality(F) + 1
      BY <3>1, <2>2, <1>2, FS_AddElement
    <3> QED BY <3>2, <2>2, <1>4
  <2>3. CASE j \in F <=> j \in G
    <3>1. G = F
      BY <2>3, <1>2, <1>3
    <3> QED BY <3>1, <2>3, <1>2, <1>4
  <2> QED BY <2>1, <2>2, <2>3
<1>6. PICK m \in Nat : m = Cardinality(G)
  BY <1>5, FS_CardinalityType
<1>7. begunCalls = totalCalls + turnedAway + n
  BY <1>4 DEF Counted, EveryCallCounted, F
<1>8. begunCalls' = totalCalls' + turnedAway' + m
  <2>1. PICK b \in Nat, t \in Nat, a \in Nat, c \in Nat, u \in Nat, w \in Nat :
          /\ b = begunCalls /\ t = totalCalls /\ a = turnedAway
          /\ c = begunCalls' /\ u = totalCalls' /\ w = turnedAway'
    BY DEF Counted
  <2>2. m + (IF FlightOf(mcpCalls[j]) THEN 1 ELSE 0) = n + (IF FlightOf(new) THEN 1 ELSE 0)
    BY <1>2, <1>3, <1>5, <1>6
  <2>3. PICK x \in {0, 1}, y \in {0, 1} :
          /\ x = (IF FlightOf(mcpCalls[j]) THEN 1 ELSE 0)
          /\ y = (IF FlightOf(new) THEN 1 ELSE 0)
    OBVIOUS
  <2>4. m + x = n + y /\ c + t + a + x = b + u + w + y /\ b = t + a + n
    BY <2>1, <2>2, <2>3, <1>7, Zenon
  <2>5. c = u + w + m
    BY <2>4
  <2> QED BY <2>1, <2>5, Zenon
<1> QED BY <1>5, <1>6, <1>8, Zenon DEF Counted, EveryCallCounted, G

LEMMA CountedStep == McpIInv /\ Counted /\ [McpNext]_mcpVars => Counted'
<1> SUFFICES ASSUME McpIInv, Counted, [McpNext]_mcpVars PROVE Counted'
  OBVIOUS
<1>0. /\ CallsTyped /\ begunCalls \in Nat /\ totalCalls \in Nat /\ turnedAway \in Nat
      /\ \A k \in Clients : CallHolds(mcpCalls[k])
  BY DEF McpIInv, Counted, CallsHold
<1>1. ~FlightOf(NoCall) /\ FlightOf([NoCall EXCEPT !.pc = "log"])
      /\ \A o : FlightOf([NoCall EXCEPT !.pc = "log", !.org = o])
  BY DEF FlightOf, NoCall, HomeTool
<1>2. CASE UNCHANGED <<mcpCalls, begunCalls, totalCalls, turnedAway>>
  BY <1>2 DEF Counted, EveryCallCounted, InFlight
\* A call moves and no number does.
<1>3. ASSUME NEW j \in Clients, NEW new, mcpCalls' = [mcpCalls EXCEPT ![j] = new],
             FlightOf(mcpCalls[j]) <=> FlightOf(new),
             UNCHANGED <<begunCalls, totalCalls, turnedAway>>
      PROVE  Counted'
  <2>1. (IF FlightOf(mcpCalls[j]) THEN 1 ELSE 0) = (IF FlightOf(new) THEN 1 ELSE 0)
    BY <1>3
  <2>2. PICK x \in {0, 1} : x = (IF FlightOf(mcpCalls[j]) THEN 1 ELSE 0)
    OBVIOUS
  <2>3. begunCalls' + totalCalls + turnedAway + x = begunCalls + totalCalls' + turnedAway' + x
    BY <1>0, <1>3
  <2>4. begunCalls' \in Nat /\ totalCalls' \in Nat /\ turnedAway' \in Nat
    BY <1>0, <1>3
  <2> QED BY <2>1, <2>2, <2>3, <2>4, <1>0, <1>3, FlightMoves
\* A call on the MCP surface is in flight from its arrival to its line.
<1>4. ASSUME NEW k \in Clients, mcpCalls[k].pc \in {"scope", "resolve", "admit", "log"},
             mcpCalls[k].pc = "log" => mcpCalls[k].tool # HomeTool
      PROVE  FlightOf(mcpCalls[k])
  <2>1. CallHolds(mcpCalls[k])
    BY <1>0
  <2>2. mcpCalls[k].pc \in {"scope", "resolve", "admit"} => mcpCalls[k].tool # HomeTool
    BY <2>1 DEF CallHolds
  <2> QED BY <1>4, <2>2 DEF FlightOf
<1>5. ASSUME NEW j \in Clients, NEW c \in Creds, NEW t \in AllTools \union {HomeTool},
             NEW o \in McpOrgs \union {NoOrg}, CallTool(j, c, t, o)
      PROVE  Counted'
  <2> DEFINE new == [NoCall EXCEPT !.pc = IF t = HomeTool THEN "home" ELSE "scope",
                        !.cred = c, !.tool = t, !.org = o, !.late = keyRows[c].revoked]
  <2>1. /\ mcpCalls' = [mcpCalls EXCEPT ![j] = new] /\ mcpCalls[j].pc = "idle"
        /\ begunCalls' = (IF t = HomeTool THEN begunCalls ELSE begunCalls + 1)
        /\ UNCHANGED <<totalCalls, turnedAway>>
    BY <1>5, Zenon DEF CallTool
  <2>2. ~FlightOf(mcpCalls[j]) /\ (FlightOf(new) <=> t # HomeTool)
    BY <2>1 DEF FlightOf, NoCall, HomeTool
  <2> HIDE DEF new
  <2>3. begunCalls' \in Nat /\ totalCalls' \in Nat /\ turnedAway' \in Nat
    BY <2>1, <1>0
  <2>4. begunCalls' + totalCalls + turnedAway + (IF FlightOf(mcpCalls[j]) THEN 1 ELSE 0)
          = begunCalls + totalCalls' + turnedAway' + (IF FlightOf(new) THEN 1 ELSE 0)
    BY <2>1, <2>2, <1>0
  <2> QED BY <2>1, <2>3, <2>4, <1>0, FlightMoves
<1>6. ASSUME NEW j \in Clients, ScopeGate(j) PROVE Counted'
  <2>0. FlightOf(mcpCalls[j])
    BY <1>4, <1>6 DEF ScopeGate
  <2>1. CASE /\ mcpCalls' = [mcpCalls EXCEPT ![j] = NoCall] /\ turnedAway' = turnedAway + 1
             /\ UNCHANGED <<begunCalls, totalCalls>>
    <3>1. begunCalls' \in Nat /\ totalCalls' \in Nat /\ turnedAway' \in Nat
      BY <2>1, <1>0
    <3>2. begunCalls' + totalCalls + turnedAway + (IF FlightOf(mcpCalls[j]) THEN 1 ELSE 0)
            = begunCalls + totalCalls' + turnedAway' + (IF FlightOf(NoCall) THEN 1 ELSE 0)
      <4>1. /\ (IF FlightOf(mcpCalls[j]) THEN 1 ELSE 0) = 1
            /\ (IF FlightOf(NoCall) THEN 1 ELSE 0) = 0
        BY <2>0, <1>1, Zenon
      <4>2. begunCalls' + totalCalls + turnedAway + 1 = begunCalls + totalCalls' + turnedAway' + 0
        BY <2>1, <1>0
      <4> QED BY <4>1, <4>2, Zenon
    <3> QED BY <2>1, <3>1, <3>2, <1>0, FlightMoves
  <2>2. ASSUME NEW fails \in BOOLEAN,
               mcpCalls' = [mcpCalls EXCEPT ![j].pc = "resolve", ![j].failed = fails],
               UNCHANGED <<begunCalls, totalCalls, turnedAway>>
        PROVE  Counted'
    <3> DEFINE new == [mcpCalls[j] EXCEPT !.pc = "resolve", !.failed = fails]
    <3>1. mcpCalls' = [mcpCalls EXCEPT ![j] = new]
      BY <2>2, <1>0 DEF CallsTyped
    <3>2. FlightOf(new)
      BY <2>0, <1>0 DEF FlightOf, CallsTyped, McpCall
    <3> HIDE DEF new
    <3> QED BY <3>1, <3>2, <2>0, <2>2, <1>3
  <2> QED BY <1>6, <2>1, <2>2, Zenon DEF ScopeGate
<1>7. ASSUME NEW j \in Clients, NEW o, FailWith(j, o), FlightOf(mcpCalls[j]) PROVE Counted'
  <2>1. /\ mcpCalls' = [mcpCalls EXCEPT ![j] = [NoCall EXCEPT !.pc = "log", !.org = o]]
        /\ UNCHANGED <<begunCalls, totalCalls, turnedAway>>
    BY <1>7, Zenon DEF FailWith
  <2> QED BY <2>1, <1>1, <1>3, <1>7
<1>8. ASSUME NEW j \in Clients, ReadKey(j) PROVE Counted'
  <2>0. FlightOf(mcpCalls[j])
    BY <1>4, <1>8 DEF ReadKey
  <2>1. ASSUME NEW o,
               mcpCalls' = [mcpCalls EXCEPT ![j].pc = "admit", ![j].org = o,
                              ![j].name = IF mcpCalls[j].cred = "mcp" THEN "key" ELSE "agent"],
               UNCHANGED <<begunCalls, totalCalls, turnedAway>>
        PROVE  Counted'
    <3> DEFINE new == [mcpCalls[j] EXCEPT !.pc = "admit", !.org = o,
                              !.name = IF mcpCalls[j].cred = "mcp" THEN "key" ELSE "agent"]
    <3>1. mcpCalls' = [mcpCalls EXCEPT ![j] = new]
      BY <2>1, <1>0 DEF CallsTyped
    <3>2. FlightOf(new)
      BY <2>0, <1>0 DEF FlightOf, CallsTyped, McpCall
    <3> HIDE DEF new
    <3> QED BY <3>1, <3>2, <2>0, <2>1, <1>3
  <2> QED BY <1>7, <1>8, <2>0, <2>1, Zenon DEF ReadKey
<1>9. ASSUME NEW j \in Clients, Admit(j) PROVE Counted'
  <2>0. FlightOf(mcpCalls[j])
    BY <1>4, <1>9 DEF Admit
  <2>1. ASSUME NEW b, Check(j, b)
        PROVE  \/ mcpCalls' = [mcpCalls EXCEPT ![j] = [mcpCalls[j] EXCEPT !.pc = "tool"]]
               \/ mcpCalls' = [mcpCalls EXCEPT ![j] = [NoCall EXCEPT !.pc = "log"]]
    BY <2>1, Zenon DEF Check
  <2>2. FlightOf([mcpCalls[j] EXCEPT !.pc = "tool"])
    BY <2>0, <1>0 DEF FlightOf, CallsTyped, McpCall
  <2>3. ASSUME UNCHANGED <<begunCalls, totalCalls, turnedAway>>,
               \/ mcpCalls' = [mcpCalls EXCEPT ![j] = [mcpCalls[j] EXCEPT !.pc = "tool"]]
               \/ mcpCalls' = [mcpCalls EXCEPT ![j] = [NoCall EXCEPT !.pc = "log"]]
        PROVE  Counted'
    <3>1. CASE mcpCalls' = [mcpCalls EXCEPT ![j] = [mcpCalls[j] EXCEPT !.pc = "tool"]]
      BY <3>1, <2>0, <2>2, <2>3, <1>3
    <3>2. CASE mcpCalls' = [mcpCalls EXCEPT ![j] = [NoCall EXCEPT !.pc = "log"]]
      BY <3>2, <2>0, <2>3, <1>1, <1>3
    <3> QED BY <2>3, <3>1, <3>2
  <2>4. \/ FailWith(j, NoOrg)
        \/ /\ Check(j, "mcp") \/ Check(j, "agent")
           /\ UNCHANGED <<begunCalls, totalCalls, turnedAway>>
    BY <1>9, Zenon DEF Admit
  <2> QED BY <1>7, <2>0, <2>1, <2>3, <2>4
<1>10. ASSUME NEW j \in Clients, Dispatch(j) PROVE Counted'
  <2>1. CASE mcpCalls[j].tool = HomeTool
    <3>1. ~FlightOf(mcpCalls[j])
      BY <2>1 DEF FlightOf
    <3>2. mcpCalls' = [mcpCalls EXCEPT ![j] = NoCall]
          /\ UNCHANGED <<begunCalls, totalCalls, turnedAway>>
      BY <1>10, <2>1, Zenon DEF Dispatch
    <3> QED BY <3>1, <3>2, <1>1, <1>3
  <2>2. CASE mcpCalls[j].tool # HomeTool
    <3>1. FlightOf(mcpCalls[j])
      BY <1>10, <2>2 DEF FlightOf, Dispatch
    <3>2. mcpCalls' = [mcpCalls EXCEPT ![j] = [NoCall EXCEPT !.pc = "log", !.org = mcpCalls[j].org]]
          /\ UNCHANGED <<begunCalls, totalCalls, turnedAway>>
      BY <1>10, <2>2, Zenon DEF Dispatch
    <3> QED BY <3>1, <3>2, <1>1, <1>3
  <2> QED BY <2>1, <2>2
<1>11. ASSUME NEW j \in Clients, LogEvent(j) PROVE Counted'
  <2>1. /\ mcpCalls[j].pc = "log" /\ mcpCalls' = [mcpCalls EXCEPT ![j] = NoCall]
        /\ totalCalls' = totalCalls + 1 /\ UNCHANGED <<begunCalls, turnedAway>>
    BY <1>11, Zenon DEF LogEvent
  <2>2. FlightOf(mcpCalls[j])
    <3>1. CallHolds(mcpCalls[j])
      BY <1>0
    <3>2. mcpCalls[j].tool # HomeTool
      BY <3>1, <2>1 DEF CallHolds
    <3> QED BY <2>1, <3>2 DEF FlightOf
  <2>3. begunCalls' \in Nat /\ totalCalls' \in Nat /\ turnedAway' \in Nat
    BY <2>1, <1>0
  <2>4. begunCalls' + totalCalls + turnedAway + (IF FlightOf(mcpCalls[j]) THEN 1 ELSE 0)
          = begunCalls + totalCalls' + turnedAway' + (IF FlightOf(NoCall) THEN 1 ELSE 0)
    <3>1. /\ (IF FlightOf(mcpCalls[j]) THEN 1 ELSE 0) = 1
          /\ (IF FlightOf(NoCall) THEN 1 ELSE 0) = 0
      BY <2>2, <1>1, Zenon
    <3>2. begunCalls' + totalCalls + turnedAway + 1 = begunCalls + totalCalls' + turnedAway' + 0
      BY <2>1, <1>0
    <3> QED BY <3>1, <3>2, Zenon
  <2> QED BY <2>1, <2>3, <2>4, <1>0, FlightMoves
<1>12. ASSUME NEW j \in Clients, IntegrationGate(j) PROVE Counted'
  <2>1. /\ mcpCalls[j].pc = "home" /\ UNCHANGED <<begunCalls, totalCalls, turnedAway>>
        /\ \/ mcpCalls' = [mcpCalls EXCEPT ![j] = [mcpCalls[j] EXCEPT !.pc = "tool", !.org = HomeOrg]]
           \/ mcpCalls' = [mcpCalls EXCEPT ![j] = NoCall]
    BY <1>12, Zenon DEF IntegrationGate
  <2>2. CallHolds(mcpCalls[j])
    BY <1>0
  <2>3. mcpCalls[j].tool = HomeTool
    BY <2>1, <2>2 DEF CallHolds
  <2>4. ~FlightOf(mcpCalls[j])
    BY <2>3 DEF FlightOf
  <2>5. ~FlightOf([mcpCalls[j] EXCEPT !.pc = "tool", !.org = HomeOrg])
    BY <2>3, <1>0 DEF FlightOf, CallsTyped, McpCall
  <2>6. CASE mcpCalls' = [mcpCalls EXCEPT ![j] = NoCall]
    BY <2>1, <2>4, <2>6, <1>1, <1>3
  <2>7. CASE mcpCalls' = [mcpCalls EXCEPT ![j] = [mcpCalls[j] EXCEPT !.pc = "tool", !.org = HomeOrg]]
    BY <2>1, <2>4, <2>5, <2>7, <1>3
  <2> QED BY <2>1, <2>6, <2>7
<1>13. ASSUME NEW mode \in {"all", "readonly", "custom"}, NEW ts \in Customs, CreateMcpKey(mode, ts)
       PROVE  Counted'
  BY <1>2, <1>13 DEF CreateMcpKey
<1>14. ASSUME NEW c \in Creds, Revoke(c) PROVE Counted'
  BY <1>2, <1>14 DEF Revoke
<1>15. SwitchSentinel \/ McpTick \/ UNCHANGED mcpVars => Counted'
  BY <1>2 DEF SwitchSentinel, McpTick, mcpVars
<1> QED BY <1>5, <1>6, <1>8, <1>9, <1>10, <1>11, <1>12, <1>13, <1>14, <1>15 DEF McpNext

\* log_event: every call the server took is in flight, was turned away by the
\* scope gate, or is in the tracker's total once, whatever refused it.
THEOREM EveryCallCountedAlways == McpSpec => []EveryCallCounted
<1>1. McpInit => Counted
  <2> SUFFICES ASSUME McpInit PROVE Counted
    OBVIOUS
  <2>1. InFlight = {}
    BY DEF McpInit, InFlight, NoCall
  <2>2. begunCalls = 0 /\ totalCalls = 0 /\ turnedAway = 0
    BY DEF McpInit
  <2> QED BY <2>1, <2>2, FS_EmptySet DEF Counted, EveryCallCounted
<1>2. McpIInv /\ Counted /\ [McpNext]_mcpVars => Counted'
  BY CountedStep
<1>3. Counted => EveryCallCounted
  BY DEF Counted
<1> QED BY <1>1, <1>2, <1>3, McpInvariant, PTL DEF McpSpec

-------------------------------------------------------------------------------
(* The MCP server's sliding windows, and its tracker.  A window holds the    *)
(* last calls that were admitted; those it has let go of have aged.         *)

\* w is what a, the admissions of a bucket, has after the first p, which are
\* all earlier than the cutoff.
LastOf(a, w, cutoff, p) ==
    /\ p <= Len(a) /\ Len(w) = Len(a) - p
    /\ \A i \in 1 .. Len(w) : w[i] = a[p + i]
    /\ \A i \in 1 .. p : a[i] < cutoff

Spaced(a, limit, span) ==
    \A i, j \in DOMAIN a : j >= i + limit => a[j] - a[i] > span

StampsTyped ==
    /\ minutes \in [Buckets -> Seq(Nat)] /\ days \in [Buckets -> Seq(Nat)]
    /\ admits \in [Buckets -> Seq(Nat)] /\ mcpNow \in Nat

\* The two windows of a bucket.
BucketHolds(b) ==
    /\ \E p \in Nat : LastOf(admits[b], minutes[b], mcpNow - MinuteSpan, p)
    /\ \E p \in Nat : LastOf(admits[b], days[b], mcpNow - DaySpan, p)
    /\ Spaced(admits[b], MinuteLimit, MinuteSpan)
    /\ Spaced(admits[b], DailyLimit, DaySpan)

StampsIInv == StampsTyped /\ \A b \in Buckets : BucketHolds(b)

\* Time makes more of them old.
LEMMA LastOfAges ==
    ASSUME NEW a \in Seq(Nat), NEW w \in Seq(Nat), NEW c \in Int, NEW d \in Int, c <= d,
           NEW p \in Nat, LastOf(a, w, c, p)
    PROVE  LastOf(a, w, d, p)
<1>1. ASSUME NEW i \in 1 .. p PROVE a[i] < d
  <2>1. i \in 1 .. Len(a) /\ a[i] < c
    BY <1>1 DEF LastOf
  <2>2. PICK x \in Nat : x = a[i]
    BY <2>1
  <2> QED BY <2>1, <2>2
<1> QED BY <1>1 DEF LastOf

\* What the check pops off the front of a window has aged.
LEMMA PoppedFront ==
    ASSUME NEW a \in Seq(Nat), NEW w \in Seq(Nat), NEW c \in Int, NEW p \in Nat,
           LastOf(a, w, c, p), NEW n \in 0 .. Len(w), \A i \in 1 .. n : w[i] < c
    PROVE  /\ SubSeq(w, n + 1, Len(w)) \in Seq(Nat)
           /\ p + n \in Nat /\ LastOf(a, SubSeq(w, n + 1, Len(w)), c, p + n)
<1> DEFINE v == SubSeq(w, n + 1, Len(w))
<1>0. PICK k \in Nat, m \in Nat : k = Len(w) /\ m = Len(a)
  OBVIOUS
<1>1. p + k = m /\ n \in 0 .. k
  BY <1>0 DEF LastOf
<1>2. v \in Seq(Nat) /\ Len(v) = k - n /\ \A i \in 1 .. k - n : v[i] = w[n + i]
  <2>1. n + 1 \in Int /\ k \in Int /\ \A i \in (n + 1) .. k : w[i] \in Nat
    BY <1>0, <1>1
  <2>2. /\ SubSeq(w, n + 1, k) \in Seq(Nat)
        /\ Len(SubSeq(w, n + 1, k)) = IF n + 1 <= k THEN k - (n + 1) + 1 ELSE 0
        /\ \A i \in 1 .. k - (n + 1) + 1 : SubSeq(w, n + 1, k)[i] = w[n + 1 + i - 1]
    BY <2>1, SubSeqProperties
  <2>3. (IF n + 1 <= k THEN k - (n + 1) + 1 ELSE 0) = k - n /\ k - (n + 1) + 1 = k - n
    BY <1>1
  <2>4. \A i \in 1 .. k - n : n + 1 + i - 1 = n + i
    BY <1>1
  <2> QED BY <1>0, <2>2, <2>3, <2>4
<1> HIDE DEF v
<1>3. ASSUME NEW i \in 1 .. k - n PROVE v[i] = a[p + n + i]
  <2>1. n + i \in 1 .. Len(w) /\ p + (n + i) = p + n + i
    BY <1>0, <1>1, <1>3
  <2>2. w[n + i] = a[p + (n + i)]
    BY <2>1 DEF LastOf
  <2> QED BY <2>1, <2>2, <1>2, <1>3
<1>4. ASSUME NEW i \in 1 .. p + n PROVE a[i] < c
  <2>1. CASE i <= p
    BY <2>1, <1>4 DEF LastOf
  <2>2. CASE i > p
    <3>1. i - p \in 1 .. n /\ i - p \in 1 .. Len(w) /\ p + (i - p) = i
      BY <2>2, <1>0, <1>1, <1>4
    <3>2. w[i - p] = a[p + (i - p)] /\ w[i - p] < c
      BY <3>1 DEF LastOf
    <3> QED BY <3>1, <3>2
  <2> QED BY <2>1, <2>2
<1>5. p + n <= m /\ Len(v) = m - (p + n)
  BY <1>1, <1>2
<1>6. LastOf(a, v, c, p + n)
  BY <1>0, <1>2, <1>3, <1>4, <1>5 DEF LastOf
<1> QED BY <1>2, <1>6 DEF v

\* One more is admitted, to a window with room.
LEMMA AdmittedOneMore ==
    ASSUME NEW a \in Seq(Nat), NEW w \in Seq(Nat), NEW t \in Nat, NEW span \in Nat,
           NEW p \in Nat, LastOf(a, w, t - span, p), NEW limit \in Nat
    PROVE  /\ LastOf(Append(a, t), Append(w, t), t - span, p)
           /\ Len(w) < limit /\ Spaced(a, limit, span) => Spaced(Append(a, t), limit, span)
<1>0. PICK k \in Nat, m \in Nat : k = Len(w) /\ m = Len(a)
  OBVIOUS
<1>1. p + k = m
  BY <1>0 DEF LastOf
<1>2. PICK b \in Seq(Nat) :
        /\ b = Append(a, t) /\ Len(b) = m + 1 /\ b[m + 1] = t
        /\ \A i \in 1 .. m : b[i] = a[i]
  <2>1. /\ Append(a, t) \in Seq(Nat) /\ Len(Append(a, t)) = Len(a) + 1
        /\ Append(a, t)[Len(a) + 1] = t
        /\ \A i \in 1 .. Len(a) : Append(a, t)[i] = a[i]
    BY AppendProperties
  <2> QED BY <2>1, <1>0, Zenon
<1>3. PICK v \in Seq(Nat) :
        /\ v = Append(w, t) /\ Len(v) = k + 1 /\ v[k + 1] = t
        /\ \A i \in 1 .. k : v[i] = w[i]
  <2>1. /\ Append(w, t) \in Seq(Nat) /\ Len(Append(w, t)) = Len(w) + 1
        /\ Append(w, t)[Len(w) + 1] = t
        /\ \A i \in 1 .. Len(w) : Append(w, t)[i] = w[i]
    BY AppendProperties
  <2> QED BY <2>1, <1>0, Zenon
<1>4. ASSUME NEW i \in 1 .. k + 1 PROVE v[i] = b[p + i]
  <2>1. CASE i = k + 1
    <3>1. p + i = m + 1
      BY <2>1, <1>1
    <3> QED BY <2>1, <3>1, <1>2, <1>3
  <2>2. CASE i # k + 1
    <3>1. i \in 1 .. k /\ p + i \in 1 .. m
      BY <2>2, <1>1, <1>4
    <3>2. w[i] = a[p + i]
      BY <3>1, <1>0 DEF LastOf
    <3> QED BY <3>1, <3>2, <1>2, <1>3
  <2> QED BY <2>1, <2>2
<1>5. ASSUME NEW i \in 1 .. p PROVE i \in 1 .. m /\ b[i] < t - span
  <2>1. i \in 1 .. m
    BY <1>1, <1>5
  <2>2. a[i] < t - span /\ b[i] = a[i]
    BY <2>1, <1>2, <1>5 DEF LastOf
  <2> QED BY <2>1, <2>2
<1>6. p <= m + 1 /\ k + 1 = m + 1 - p
  BY <1>1
<1>7. LastOf(b, v, t - span, p)
  <2>1. Len(b) = m + 1 /\ Len(v) = k + 1
    BY <1>2, <1>3
  <2>2. p <= Len(b) /\ Len(v) = Len(b) - p
    BY <1>6, <2>1
  <2>3. (\A i \in 1 .. Len(v) : v[i] = b[p + i]) /\ \A i \in 1 .. p : b[i] < t - span
    BY <1>4, <1>5, <2>1
  <2> QED BY <2>2, <2>3 DEF LastOf
<1>8. ASSUME k < limit, Spaced(a, limit, span) PROVE Spaced(b, limit, span)
  <2> SUFFICES ASSUME NEW i \in 1 .. m + 1, NEW j \in 1 .. m + 1, j >= i + limit
        PROVE  b[j] - b[i] > span
    BY <1>2 DEF Spaced
  <2>1. CASE j = m + 1
    <3>1. i \in 1 .. p
      BY <2>1, <1>1, <1>8
    <3>2. PICK x \in Nat : x = b[i]
      BY <3>1, <1>2, <1>5
    <3>3. x < t - span /\ b[j] = t
      BY <3>1, <3>2, <2>1, <1>2, <1>5
    <3> QED BY <3>2, <3>3
  <2>2. CASE j # m + 1
    <3>1. i \in 1 .. m /\ j \in 1 .. m
      BY <2>2
    <3>2. i \in DOMAIN a /\ j \in DOMAIN a
      BY <3>1, <1>0
    <3>3. a[j] - a[i] > span
      BY <3>2, <1>8 DEF Spaced
    <3>4. b[i] = a[i] /\ b[j] = a[j]
      BY <3>1, <1>2
    <3> QED BY <3>3, <3>4
  <2> QED BY <2>1, <2>2
<1> QED BY <1>0, <1>2, <1>3, <1>7, <1>8

\* A bucket whose day has aged out has no call younger than the minute either.
LEMMA AgedOut ==
    ASSUME NEW a \in Seq(Nat), NEW d \in Seq(Nat), NEW e \in Int, NEW c \in Int, e <= c,
           NEW p \in Nat, LastOf(a, d, e, p), \A i \in DOMAIN d : d[i] < e
    PROVE  Len(a) \in Nat /\ LastOf(a, << >>, c, Len(a)) /\ LastOf(a, << >>, e, Len(a))
<1>0. PICK k \in Nat, m \in Nat : k = Len(d) /\ m = Len(a)
  OBVIOUS
<1>1. p + k = m
  BY <1>0 DEF LastOf
<1>2. ASSUME NEW i \in 1 .. m PROVE a[i] < e /\ a[i] < c
  <2>1. a[i] < e
    <3>1. CASE i <= p
      BY <3>1, <1>2 DEF LastOf
    <3>2. CASE i > p
      <4>1. i - p \in 1 .. Len(d) /\ p + (i - p) = i
        BY <3>2, <1>0, <1>1, <1>2
      <4>2. d[i - p] = a[p + (i - p)] /\ d[i - p] < e
        BY <4>1 DEF LastOf
      <4> QED BY <4>1, <4>2
    <3> QED BY <3>1, <3>2
  <2>2. PICK x \in Nat : x = a[i]
    BY <1>0, <1>2
  <2> QED BY <2>1, <2>2
<1> QED BY <1>0, <1>2 DEF LastOf

\* One check at bucket b, whatever the prune before it dropped.
LEMMA CheckHolds ==
    ASSUME StampsIInv, NEW k, NEW b \in Buckets, Check(k, b), UNCHANGED mcpNow
    PROVE  StampsIInv'
<1> USE McpAssumption
<1> DEFINE gone == {x \in Buckets : PruneDue /\ Pruned(x)}
           m0 == [x \in Buckets |-> IF x \in gone THEN << >> ELSE minutes[x]]
           d0 == [x \in Buckets |-> IF x \in gone THEN << >> ELSE days[x]]
           minute == mcpNow - MinuteSpan
           day == mcpNow - DaySpan
<1>1. /\ minutes \in [Buckets -> Seq(Nat)] /\ days \in [Buckets -> Seq(Nat)]
      /\ admits \in [Buckets -> Seq(Nat)] /\ mcpNow \in Nat
      /\ minute \in Int /\ day \in Int /\ day <= minute
      /\ MinuteSpan \in Nat /\ DaySpan \in Nat /\ MinuteLimit \in Nat /\ DailyLimit \in Nat
  BY DEF StampsIInv, StampsTyped
<1>2. ASSUME NEW x \in Buckets
      PROVE  /\ m0[x] \in Seq(Nat) /\ d0[x] \in Seq(Nat)
             /\ \E p \in Nat : LastOf(admits[x], m0[x], minute, p)
             /\ \E p \in Nat : LastOf(admits[x], d0[x], day, p)
  <2>1. CASE x \in gone
    <3>1. PICK p \in Nat : LastOf(admits[x], days[x], day, p)
      BY <1>2 DEF StampsIInv, BucketHolds
    <3>2. \A i \in DOMAIN days[x] : days[x][i] < day
      BY <2>1 DEF Pruned
    <3>3. /\ Len(admits[x]) \in Nat
          /\ LastOf(admits[x], << >>, minute, Len(admits[x]))
          /\ LastOf(admits[x], << >>, day, Len(admits[x]))
      <4>1. PICK a \in Seq(Nat), d \in Seq(Nat) : a = admits[x] /\ d = days[x]
        BY <1>1, <1>2
      <4> HIDE DEF minute, day
      <4>2. Len(a) \in Nat /\ LastOf(a, << >>, minute, Len(a)) /\ LastOf(a, << >>, day, Len(a))
        BY <3>1, <3>2, <4>1, <1>1, AgedOut
      <4> QED BY <4>1, <4>2, Zenon
    <3>4. m0[x] = << >> /\ d0[x] = << >> /\ << >> \in Seq(Nat)
      BY <2>1, EmptySeq
    <3> QED BY <3>3, <3>4, Zenon
  <2>2. CASE x \notin gone
    <3>1. m0[x] = minutes[x] /\ d0[x] = days[x]
      BY <2>2, <1>2
    <3> QED BY <3>1, <1>1, <1>2, Zenon DEF StampsIInv, BucketHolds
  <2> QED BY <2>1, <2>2
<1>3. PICK old \in 0 .. Len(m0[b]), older \in 0 .. Len(d0[b]) :
        LET m      == SubSeq(m0[b], old + 1, Len(m0[b]))
            d      == SubSeq(d0[b], older + 1, Len(d0[b]))
            passes == Len(m) < MinuteLimit /\ Len(d) < DailyLimit IN
        /\ FrontAged(m0[b], old, MinuteSpan) /\ FrontAged(d0[b], older, DaySpan)
        /\ minutes' = [m0 EXCEPT ![b] = IF passes THEN Append(m, mcpNow) ELSE m]
        /\ days' = [d0 EXCEPT ![b] = IF passes THEN Append(d, mcpNow) ELSE d]
        /\ admits' = IF passes THEN [admits EXCEPT ![b] = Append(@, mcpNow)] ELSE admits
  BY Zenon DEF Check
<1> DEFINE m == SubSeq(m0[b], old + 1, Len(m0[b]))
           d == SubSeq(d0[b], older + 1, Len(d0[b]))
           passes == Len(m) < MinuteLimit /\ Len(d) < DailyLimit
<1>4. m \in Seq(Nat) /\ \E p \in Nat : LastOf(admits[b], m, minute, p)
  <2>1. PICK p \in Nat : LastOf(admits[b], m0[b], minute, p)
    BY <1>2
  <2>2. PICK a \in Seq(Nat), w \in Seq(Nat) : a = admits[b] /\ w = m0[b]
    BY <1>1, <1>2
  <2>3. \A i \in 1 .. old : w[i] < minute
    BY <1>3, <2>2 DEF FrontAged
  <2> HIDE DEF minute, m0
  <2>4. /\ SubSeq(w, old + 1, Len(w)) \in Seq(Nat)
        /\ p + old \in Nat /\ LastOf(a, SubSeq(w, old + 1, Len(w)), minute, p + old)
    BY <2>1, <2>2, <2>3, <1>1, PoppedFront
  <2> QED BY <2>2, <2>4, Zenon
<1>5. d \in Seq(Nat) /\ \E p \in Nat : LastOf(admits[b], d, day, p)
  <2>1. PICK p \in Nat : LastOf(admits[b], d0[b], day, p)
    BY <1>2
  <2>2. PICK a \in Seq(Nat), w \in Seq(Nat) : a = admits[b] /\ w = d0[b]
    BY <1>1, <1>2
  <2>3. \A i \in 1 .. older : w[i] < day
    BY <1>3, <2>2 DEF FrontAged
  <2> HIDE DEF day, d0
  <2>4. /\ SubSeq(w, older + 1, Len(w)) \in Seq(Nat)
        /\ p + older \in Nat /\ LastOf(a, SubSeq(w, older + 1, Len(w)), day, p + older)
    BY <2>1, <2>2, <2>3, <1>1, PoppedFront
  <2> QED BY <2>2, <2>4, Zenon
<1>6. /\ minutes' = [m0 EXCEPT ![b] = IF passes THEN Append(m, mcpNow) ELSE m]
      /\ days' = [d0 EXCEPT ![b] = IF passes THEN Append(d, mcpNow) ELSE d]
      /\ admits' = IF passes THEN [admits EXCEPT ![b] = Append(admits[b], mcpNow)] ELSE admits
      /\ m0 \in [Buckets -> Seq(Nat)] /\ d0 \in [Buckets -> Seq(Nat)]
      /\ mcpNow' = mcpNow
  <2>1. m0 \in [Buckets -> Seq(Nat)]
    BY <1>2
  <2>2. d0 \in [Buckets -> Seq(Nat)]
    BY <1>2
  <2> QED BY <1>3, <2>1, <2>2, Zenon
<1> HIDE DEF m0, d0, m, d, passes
<1>7. ASSUME NEW x \in Buckets, x # b
      PROVE  minutes'[x] = m0[x] /\ days'[x] = d0[x] /\ admits'[x] = admits[x]
  BY <1>6, <1>7, <1>1
<1>8. ASSUME NEW x \in Buckets, x # b PROVE BucketHolds(x)'
  BY <1>2, <1>6, <1>7, <1>8, Zenon DEF StampsIInv, BucketHolds
<1>9. Append(m, mcpNow) \in Seq(Nat) /\ Append(d, mcpNow) \in Seq(Nat)
      /\ Append(admits[b], mcpNow) \in Seq(Nat)
  BY <1>1, <1>4, <1>5, AppendProperties
<1>10. StampsTyped'
  <2>1. (IF passes THEN Append(m, mcpNow) ELSE m) \in Seq(Nat)
    BY <1>4, <1>9, Zenon
  <2>2. (IF passes THEN Append(d, mcpNow) ELSE d) \in Seq(Nat)
    BY <1>5, <1>9, Zenon
  <2>3. minutes' \in [Buckets -> Seq(Nat)]
    BY <2>1, <1>6
  <2>4. days' \in [Buckets -> Seq(Nat)]
    BY <2>2, <1>6
  <2>5. admits' \in [Buckets -> Seq(Nat)]
    BY <1>1, <1>6, <1>9
  <2> QED BY <2>3, <2>4, <2>5, <1>1, <1>6 DEF StampsTyped
<1>11. BucketHolds(b)'
  <2>1. PICK p \in Nat : LastOf(admits[b], m, minute, p)
    BY <1>4
  <2>2. PICK q \in Nat : LastOf(admits[b], d, day, q)
    BY <1>5
  <2>3. PICK a \in Seq(Nat), t \in Nat : a = admits[b] /\ t = mcpNow
    BY <1>1
  <2>4. Spaced(a, MinuteLimit, MinuteSpan) /\ Spaced(a, DailyLimit, DaySpan)
    BY <2>3, Zenon DEF StampsIInv, BucketHolds
  <2>5. CASE passes
    <3>1. minutes'[b] = Append(m, t) /\ days'[b] = Append(d, t) /\ admits'[b] = Append(a, t)
      BY <2>5, <2>3, <1>1, <1>6
    <3>2. LastOf(a, m, t - MinuteSpan, p) /\ LastOf(a, d, t - DaySpan, q)
      BY <2>1, <2>2, <2>3, Zenon
    <3>3. Len(m) < MinuteLimit /\ Len(d) < DailyLimit
      BY <2>5 DEF passes
    <3>4. /\ LastOf(Append(a, t), Append(m, t), t - MinuteSpan, p)
          /\ Spaced(Append(a, t), MinuteLimit, MinuteSpan)
      BY <3>2, <3>3, <2>4, <1>1, <1>4, AdmittedOneMore
    <3>5. /\ LastOf(Append(a, t), Append(d, t), t - DaySpan, q)
          /\ Spaced(Append(a, t), DailyLimit, DaySpan)
      BY <3>2, <3>3, <2>4, <1>1, <1>5, AdmittedOneMore
    <3> QED BY <3>1, <3>4, <3>5, <2>3, <1>6, Zenon DEF BucketHolds
  <2>6. CASE ~passes
    <3>1. minutes'[b] = m /\ days'[b] = d /\ admits'[b] = a
      BY <2>6, <2>3, <1>1, <1>6
    <3>2. LastOf(a, m, t - MinuteSpan, p) /\ LastOf(a, d, t - DaySpan, q)
      BY <2>1, <2>2, <2>3, Zenon
    <3> QED BY <3>1, <3>2, <2>3, <2>4, <1>6, Zenon DEF BucketHolds
  <2> QED BY <2>5, <2>6
<1> QED BY <1>8, <1>10, <1>11 DEF StampsIInv

LEMMA StampsStep == StampsIInv /\ [McpNext]_mcpVars => StampsIInv'
<1> SUFFICES ASSUME StampsIInv, [McpNext]_mcpVars PROVE StampsIInv'
  OBVIOUS
<1>1. CASE UNCHANGED <<minutes, days, admits, mcpNow>>
  BY <1>1 DEF StampsIInv, StampsTyped, BucketHolds
<1>2. ASSUME NEW k \in Clients, Admit(k) PROVE StampsIInv'
  <2>1. CASE FailWith(k, NoOrg)
    BY <2>1, <1>1 DEF FailWith
  <2>2. ASSUME NEW b \in Buckets, Check(k, b), UNCHANGED mcpNow PROVE StampsIInv'
    BY <2>2, CheckHolds
  <2>3. \/ FailWith(k, NoOrg)
        \/ Check(k, "mcp") /\ UNCHANGED mcpNow
        \/ Check(k, "agent") /\ UNCHANGED mcpNow
    BY <1>2, Zenon DEF Admit
  <2>4. "mcp" \in Buckets /\ "agent" \in Buckets
    BY DEF Buckets
  <2> QED BY <2>1, <2>2, <2>3, <2>4
<1>3. CASE McpTick
  <2>1. /\ UNCHANGED <<minutes, days, admits>> /\ mcpNow' = mcpNow + 1
        /\ StampsTyped /\ MinuteSpan \in Nat /\ DaySpan \in Nat
    BY <1>3, McpAssumption DEF McpTick, StampsIInv
  <2>2. StampsTyped'
    BY <2>1 DEF StampsTyped
  <2>3. ASSUME NEW b \in Buckets PROVE BucketHolds(b)'
    <3>1. PICK a \in Seq(Nat), m \in Seq(Nat), d \in Seq(Nat), t \in Nat :
            a = admits[b] /\ m = minutes[b] /\ d = days[b] /\ t = mcpNow
      BY <2>1 DEF StampsTyped
    <3>2. PICK p \in Nat : LastOf(a, m, t - MinuteSpan, p)
      BY <3>1, Zenon DEF StampsIInv, BucketHolds
    <3>3. PICK q \in Nat : LastOf(a, d, t - DaySpan, q)
      BY <3>1, Zenon DEF StampsIInv, BucketHolds
    <3>4. LastOf(a, m, t + 1 - MinuteSpan, p)
      <4>1. t - MinuteSpan \in Int /\ t + 1 - MinuteSpan \in Int
            /\ t - MinuteSpan <= t + 1 - MinuteSpan
        BY <2>1
      <4> QED BY <3>2, <4>1, LastOfAges
    <3>5. LastOf(a, d, t + 1 - DaySpan, q)
      <4>1. t - DaySpan \in Int /\ t + 1 - DaySpan \in Int
            /\ t - DaySpan <= t + 1 - DaySpan
        BY <2>1
      <4> QED BY <3>3, <4>1, LastOfAges
    <3>6. /\ admits'[b] = a /\ minutes'[b] = m /\ days'[b] = d
          /\ mcpNow' - MinuteSpan = t + 1 - MinuteSpan /\ mcpNow' - DaySpan = t + 1 - DaySpan
      BY <2>1, <3>1
    <3>7. Spaced(a, MinuteLimit, MinuteSpan) /\ Spaced(a, DailyLimit, DaySpan)
      BY <3>1, Zenon DEF StampsIInv, BucketHolds
    <3> QED BY <3>4, <3>5, <3>6, <3>7, Zenon DEF BucketHolds
  <2> QED BY <2>2, <2>3 DEF StampsIInv
<1>4. ASSUME NEW k \in Clients, ScopeGate(k) \/ IntegrationGate(k) \/ Dispatch(k) \/ LogEvent(k)
      PROVE  UNCHANGED <<minutes, days, admits, mcpNow>>
  BY <1>4 DEF ScopeGate, IntegrationGate, Dispatch, LogEvent
<1>5. ASSUME NEW k \in Clients, ReadKey(k) PROVE UNCHANGED <<minutes, days, admits, mcpNow>>
  BY <1>5 DEF ReadKey, FailWith
<1>6. ASSUME NEW k \in Clients, NEW c \in Creds, NEW t \in AllTools \cup {HomeTool},
             NEW o \in McpOrgs \cup {NoOrg}, CallTool(k, c, t, o)
      PROVE  UNCHANGED <<minutes, days, admits, mcpNow>>
  BY <1>6 DEF CallTool
<1>7. ASSUME NEW mode \in {"all", "readonly", "custom"}, NEW ts \in Customs, CreateMcpKey(mode, ts)
      PROVE  UNCHANGED <<minutes, days, admits, mcpNow>>
  BY <1>7 DEF CreateMcpKey
<1>8. ASSUME NEW c \in Creds, Revoke(c) PROVE UNCHANGED <<minutes, days, admits, mcpNow>>
  BY <1>8 DEF Revoke
<1>9. SwitchSentinel \/ UNCHANGED mcpVars => UNCHANGED <<minutes, days, admits, mcpNow>>
  BY DEF SwitchSentinel, mcpVars
<1> QED BY <1>1, <1>2, <1>3, <1>4, <1>5, <1>6, <1>7, <1>8, <1>9 DEF McpNext

\* check_at and prune: no minute and no day of a bucket has more admitted calls
\* than its limit, for any limits and spans, however the prune falls.
THEOREM WithinLimitsAlways == McpSpec => []CallsWithinLimits
<1>1. McpInit => StampsIInv
  <2> SUFFICES ASSUME McpInit PROVE StampsIInv
    OBVIOUS
  <2>1. StampsTyped
    BY EmptySeq DEF McpInit, StampsTyped
  <2>2. ASSUME NEW b \in Buckets PROVE BucketHolds(b)
    <3>1. minutes[b] = << >> /\ days[b] = << >> /\ admits[b] = << >>
      BY <2>2 DEF McpInit
    <3>2. \A c : LastOf(<< >>, << >>, c, 0)
      BY DEF LastOf
    <3>3. \A l, s : Spaced(<< >>, l, s)
      BY DEF Spaced
    <3>4. 0 \in Nat
      OBVIOUS
    <3> QED BY <3>1, <3>2, <3>3, <3>4, Zenon DEF BucketHolds
  <2> QED BY <2>1, <2>2 DEF StampsIInv
<1>2. StampsIInv /\ [McpNext]_mcpVars => StampsIInv'
  BY StampsStep
<1>3. StampsIInv => CallsWithinLimits
  BY DEF StampsIInv, BucketHolds, Spaced, CallsWithinLimits
<1> QED BY <1>1, <1>2, <1>3, PTL DEF McpSpec

-------------------------------------------------------------------------------
(* The signing keys.                                                       *)

ClockTyped ==
    /\ keyTime \in Nat /\ lastFetch \in Int /\ trouble \in Int /\ cached.at \in Int
    /\ since \in [Kids -> Nat]
    /\ lastFetch <= keyTime /\ cached.at <= keyTime
    /\ \A k \in Kids : since[k] <= keyTime

KeySetsTyped ==
    /\ published \subseteq Kids /\ retired \subseteq Kids
    /\ published \cap retired = {}
    /\ cached \in [keys : SUBSET Kids, at : Int] /\ reply \subseteq Kids
    /\ fetcher \in Tasks \cup {Nobody}
    /\ task \in [Tasks -> {"idle", "wait", "fetching"}]
    /\ kid \in [Sessions -> Kids] /\ DOMAIN keyAnswer = Sessions

\* An attempt within the limit is in flight, went wrong or was none at all, only
\* the start of a process, or brought the set the cache holds.
AttemptAccounted ==
    keyTime - lastFetch < MinForced =>
        \/ fetcher # Nobody
        \/ trouble >= lastFetch
        \/ cached.at >= lastFetch /\ cached # NoSet

\* Whatever the cache or a reply names was served once; what is neither held
\* nor on its way was published after Clerk answered.
FlightTimed ==
    /\ fetcher # Nobody => keyTime - lastFetch <= FetchTimeout
    /\ fetcher = Nobody => reply = NoReply

KeysServed ==
    /\ cached.keys \subseteq published \cup retired
    /\ reply \subseteq published \cup retired
    /\ reply # NoReply =>
          /\ cached.keys \subseteq reply \cup retired
          /\ \A k \in published \ reply : since[k] >= lastFetch
    /\ cached # NoSet =>
          \A k \in published \ cached.keys : since[k] >= cached.at - FetchTimeout

FetchTyped == ClockTyped /\ KeySetsTyped
KeysIInv ==
    /\ FetchTyped
    /\ AttemptAccounted /\ FlightTimed /\ KeysServed
    /\ NewKeySoonKnown /\ RefusalHasACause

-------------------------------------------------------------------------------
\* What a finished refresh means: only a bad one refuses with 503, only a good
\* one with 401, and only to the session that ran it.
LEMMA Finished ==
    ASSUME NEW t, NEW keys, NEW good \in BOOLEAN, After(t, keys, good), KeySetsTyped
    PROVE  /\ task' \in [Tasks -> {"idle", "wait", "fetching"}]
           /\ DOMAIN keyAnswer' = Sessions
           /\ \A s \in Sessions :
                 /\ keyAnswer'[s] = "503" => keyAnswer[s] = "503" \/ ~good
                 /\ keyAnswer'[s] = "401" => keyAnswer[s] = "401" \/ (good /\ kid[s] \notin keys)
<1>1. task' \in [Tasks -> {"idle", "wait", "fetching"}]
  <2>1. \E w \in {"idle", "wait"} : task' = [task EXCEPT ![t] = w]
    BY DEF After
  <2> QED BY <2>1 DEF KeySetsTyped
<1>2. keyAnswer' = [s \in Sessions |->
                  IF s # t THEN keyAnswer[s]
                  ELSE IF kid[s] \in keys THEN "ok"
                  ELSE IF good THEN "401" ELSE "503"]
  BY Zenon DEF After
<1>3. ASSUME NEW s \in Sessions
      PROVE  /\ keyAnswer'[s] = "503" => keyAnswer[s] = "503" \/ ~good
             /\ keyAnswer'[s] = "401" => keyAnswer[s] = "401" \/ (good /\ kid[s] \notin keys)
  <2>1. keyAnswer'[s] = IF s # t THEN keyAnswer[s]
                  ELSE IF kid[s] \in keys THEN "ok"
                  ELSE IF good THEN "401" ELSE "503"
    BY <1>2
  <2>2. CASE good
    <3>1. keyAnswer'[s] \in {keyAnswer[s], "ok", "401"} /\ (keyAnswer'[s] = "401" => keyAnswer[s] = "401" \/ kid[s] \notin keys)
      BY ONLY <2>1, <2>2
    <3> QED BY <2>2, <3>1, Zenon
  <2>3. CASE ~good
    <3>1. keyAnswer'[s] \in {keyAnswer[s], "ok", "503"}
      BY ONLY <2>1, <2>3
    <3> QED BY <2>3, <3>1, Zenon
  <2> QED BY <2>2, <2>3
<1>4. DOMAIN keyAnswer' = Sessions
  BY <1>2
<1> QED BY <1>1, <1>3, <1>4, Zenon

LEMMA KeysInitIInv == KeysInit => KeysIInv
<1> SUFFICES ASSUME KeysInit PROVE KeysIInv
  OBVIOUS
<1>1. PICK k0 \in Kids : published = {k0} /\ since = [x \in Kids |-> 0]
  BY DEF KeysInit
<1>2. ClockTyped
  BY <1>1, KeysAssumption DEF KeysInit, ClockTyped, NoSet
<1>3. KeySetsTyped
  BY <1>1, KeysAssumption DEF KeysInit, KeySetsTyped, NoSet, NoReply, Tasks
<1>4. AttemptAccounted /\ FlightTimed /\ KeysServed
  BY <1>1, KeysAssumption DEF KeysInit, AttemptAccounted, FlightTimed, KeysServed, NoSet, NoReply
<1>5. NewKeySoonKnown /\ RefusalHasACause
  BY DEF KeysInit, NewKeySoonKnown, RefusalHasACause
<1> QED BY <1>2, <1>3, <1>4, <1>5 DEF KeysIInv, FetchTyped

LEMMA ClockTypedStep ==
    ASSUME ClockTyped, KeySetsTyped, [KeysNext]_keyVars PROVE ClockTyped'
<1> USE DEF ClockTyped
<1>1. ASSUME UNCHANGED <<keyTime, lastFetch, cached, since>>, trouble' \in {trouble, keyTime}
      PROVE  ClockTyped'
  BY <1>1
<1>2. ASSUME NEW s \in Sessions, HangUp(s) PROVE ClockTyped'
  BY <1>2, <1>1 DEF HangUp
<1>3. ASSUME NEW s \in Sessions, NEW k \in Kids, AskKey(s, k) PROVE ClockTyped'
  BY <1>3, <1>1, Zenon DEF AskKey
<1>4. ASSUME NEW t \in Tasks, TakeLock(t) PROVE ClockTyped'
  <2>1. UNCHANGED <<keyTime, cached, since, trouble>> /\ lastFetch' \in {lastFetch, keyTime}
    BY <1>4, Zenon DEF TakeLock
  <2> QED BY <2>1
<1>5. ASSUME ClerkServes PROVE ClockTyped'
  BY <1>5, <1>1, Zenon DEF ClerkServes
<1>6. ASSUME StoreSet PROVE ClockTyped'
  <2>1. UNCHANGED <<keyTime, lastFetch, since, trouble>> /\ cached' = [keys |-> reply, at |-> keyTime]
    BY <1>6, Zenon DEF StoreSet
  <2> QED BY <2>1
<1>7. ASSUME FetchFails PROVE ClockTyped'
  BY <1>7, <1>1, Zenon DEF FetchFails
<1>8. ASSUME NEW k \in Kids, PublishKey(k) PROVE ClockTyped'
  BY <1>8 DEF PublishKey
<1>9. ASSUME NEW k \in Kids, RetireKey(k) PROVE ClockTyped'
  BY <1>9, <1>1, Zenon DEF RetireKey
<1>10. ASSUME KeyTick PROVE ClockTyped'
  BY <1>10 DEF KeyTick
<1>11. CASE UNCHANGED keyVars
  BY <1>11 DEF keyVars
<1> HIDE DEF ClockTyped
<1> QED BY <1>2, <1>3, <1>4, <1>5, <1>6, <1>7, <1>8, <1>9, <1>10, <1>11 DEF KeysNext

LEMMA KeySetsTypedStep ==
    ASSUME ClockTyped, KeySetsTyped, [KeysNext]_keyVars PROVE KeySetsTyped'
<1> USE DEF KeySetsTyped
<1>2. ASSUME NEW s \in Sessions, HangUp(s) PROVE KeySetsTyped'
  BY <1>2 DEF HangUp, Tasks, NoReply
<1>3. ASSUME NEW s \in Sessions, NEW k \in Kids, AskKey(s, k) PROVE KeySetsTyped'
  <2>1. /\ kid' = [kid EXCEPT ![s] = k]
        /\ \/ task' = [task EXCEPT !["bg"] = "wait"]
           \/ task' = [task EXCEPT ![s] = "wait"]
           \/ task' = task
        /\ UNCHANGED <<published, retired, cached, fetcher, reply>>
        /\ \E w \in {"ok", "none"} : keyAnswer' = [keyAnswer EXCEPT ![s] = w]
    BY <1>3 DEF AskKey
  <2> QED BY <2>1 DEF Tasks
<1>4. ASSUME NEW t \in Tasks, TakeLock(t) PROVE KeySetsTyped'
  <2>1. /\ UNCHANGED <<published, retired, cached, reply, kid>>
        /\ \/ After(t, cached.keys, TRUE) /\ fetcher' = fetcher
           \/ After(t, cached.keys, FALSE) /\ fetcher' = fetcher
           \/ fetcher' = t /\ task' = [task EXCEPT ![t] = "fetching"] /\ keyAnswer' = keyAnswer
    BY <1>4, Zenon DEF TakeLock
  <2>2. CASE After(t, cached.keys, TRUE) /\ fetcher' = fetcher
    BY <2>1, <2>2, Finished
  <2>3. CASE After(t, cached.keys, FALSE) /\ fetcher' = fetcher
    BY <2>1, <2>3, Finished
  <2>4. CASE fetcher' = t /\ task' = [task EXCEPT ![t] = "fetching"] /\ keyAnswer' = keyAnswer
    BY <2>1, <2>4
  <2> QED BY <2>1, <2>2, <2>3, <2>4
<1>5. ASSUME ClerkServes PROVE KeySetsTyped'
  BY <1>5 DEF ClerkServes
<1>6. ASSUME StoreSet PROVE KeySetsTyped'
  <2>1. /\ UNCHANGED <<published, retired, kid>> /\ cached' = [keys |-> reply, at |-> keyTime]
        /\ After(fetcher, reply, TRUE) /\ fetcher' = Nobody /\ reply' = NoReply
    BY <1>6, Zenon DEF StoreSet
  <2>2. keyTime \in Int
    BY DEF ClockTyped
  <2> QED BY <2>1, <2>2, Finished DEF NoReply
<1>7. ASSUME FetchFails PROVE KeySetsTyped'
  <2>1. /\ UNCHANGED <<published, retired, kid, cached>>
        /\ After(fetcher, cached.keys, FALSE) /\ fetcher' = Nobody /\ reply' = NoReply
    BY <1>7, Zenon DEF FetchFails
  <2> QED BY <2>1, Finished DEF NoReply
<1>8. ASSUME NEW k \in Kids, PublishKey(k) PROVE KeySetsTyped'
  BY <1>8 DEF PublishKey
<1>9. ASSUME NEW k \in Kids, RetireKey(k) PROVE KeySetsTyped'
  BY <1>9 DEF RetireKey
<1>10. ASSUME KeyTick PROVE KeySetsTyped'
  BY <1>10 DEF KeyTick
<1>11. CASE UNCHANGED keyVars
  BY <1>11 DEF keyVars
<1> HIDE DEF KeySetsTyped
<1> QED BY <1>2, <1>3, <1>4, <1>5, <1>6, <1>7, <1>8, <1>9, <1>10, <1>11 DEF KeysNext

LEMMA AccountedStep ==
    ASSUME FetchTyped, AttemptAccounted, FlightTimed, [KeysNext]_keyVars
    PROVE  AttemptAccounted' /\ FlightTimed'
<1> USE DEF AttemptAccounted, FlightTimed
<1>0. /\ keyTime \in Nat /\ lastFetch \in Int /\ trouble \in Int /\ cached.at \in Int
      /\ lastFetch <= keyTime /\ FetchTimeout \in Nat /\ MinForced \in Nat
      /\ Nobody \notin Tasks
  BY KeysAssumption DEF FetchTyped, ClockTyped, Nobody, Tasks
<1>1. ASSUME UNCHANGED <<keyTime, lastFetch, cached, trouble, fetcher, reply>>
      PROVE  AttemptAccounted' /\ FlightTimed'
  BY <1>1, Zenon DEF SetFresh
<1>2. ASSUME NEW s \in Sessions, HangUp(s) PROVE AttemptAccounted' /\ FlightTimed'
  BY <1>0, <1>2 DEF HangUp
<1>3. ASSUME NEW s \in Sessions, NEW k \in Kids, AskKey(s, k)
      PROVE  AttemptAccounted' /\ FlightTimed'
  BY <1>1, <1>3, Zenon DEF AskKey
<1>4. ASSUME NEW t \in Tasks, TakeLock(t) PROVE AttemptAccounted' /\ FlightTimed'
  <2>1. /\ UNCHANGED <<keyTime, cached, trouble, reply>>
        /\ \/ UNCHANGED <<fetcher, lastFetch>>
           \/ fetcher' = t /\ lastFetch' = keyTime
    BY <1>4, Zenon DEF TakeLock
  <2> QED BY <1>0, <2>1
<1>5. ASSUME ClerkServes PROVE AttemptAccounted' /\ FlightTimed'
  BY <1>0, <1>5 DEF ClerkServes
<1>6. ASSUME StoreSet PROVE AttemptAccounted' /\ FlightTimed'
  <2>1. /\ UNCHANGED <<keyTime, lastFetch>> /\ cached' = [keys |-> reply, at |-> keyTime]
        /\ reply # NoReply /\ fetcher' = Nobody /\ reply' = NoReply
    BY <1>6, Zenon DEF StoreSet
  <2> QED BY <1>0, <2>1 DEF NoSet, NoReply
<1>7. ASSUME FetchFails PROVE AttemptAccounted' /\ FlightTimed'
  <2>1. /\ UNCHANGED <<keyTime, lastFetch>> /\ trouble' = keyTime
        /\ fetcher' = Nobody /\ reply' = NoReply
    BY <1>7, Zenon DEF FetchFails
  <2> QED BY <1>0, <2>1
<1>8. ASSUME NEW k \in Kids, PublishKey(k) PROVE AttemptAccounted' /\ FlightTimed'
  BY <1>1, <1>8, Zenon DEF PublishKey
<1>9. ASSUME NEW k \in Kids, RetireKey(k) PROVE AttemptAccounted' /\ FlightTimed'
  BY <1>1, <1>9, Zenon DEF RetireKey
<1>10. ASSUME KeyTick PROVE AttemptAccounted' /\ FlightTimed'
  BY <1>0, <1>10 DEF KeyTick
<1>11. CASE UNCHANGED keyVars
  BY <1>1, <1>11, Zenon DEF keyVars
<1> HIDE DEF AttemptAccounted, FlightTimed
<1> QED BY <1>2, <1>3, <1>4, <1>5, <1>6, <1>7, <1>8, <1>9, <1>10, <1>11 DEF KeysNext

LEMMA ServedStep ==
    ASSUME FetchTyped, KeysServed, FlightTimed, [KeysNext]_keyVars PROVE KeysServed'
<1> USE DEF KeysServed
<1>0. /\ keyTime \in Nat /\ lastFetch \in Int /\ cached.at \in Int
      /\ since \in [Kids -> Nat] /\ published \subseteq Kids /\ lastFetch <= keyTime
      /\ cached.at <= keyTime /\ FetchTimeout \in Nat
  BY KeysAssumption DEF FetchTyped, ClockTyped, KeySetsTyped
<1>1. ASSUME UNCHANGED <<published, retired, cached, since, lastFetch>>,
             reply' = reply \/ reply' = NoReply
      PROVE  KeysServed'
  BY <1>1 DEF NoReply
<1>2. ASSUME NEW s \in Sessions, HangUp(s) PROVE KeysServed'
  BY <1>1, <1>2 DEF HangUp
<1>3. ASSUME NEW s \in Sessions, NEW k \in Kids, AskKey(s, k) PROVE KeysServed'
  BY <1>1, <1>3, Zenon DEF AskKey
<1>4. ASSUME NEW t \in Tasks, TakeLock(t) PROVE KeysServed'
  <2>1. /\ UNCHANGED <<published, retired, cached, since, reply>> /\ fetcher = Nobody
        /\ lastFetch' = lastFetch \/ lastFetch' = keyTime
    BY <1>4, Zenon DEF TakeLock
  <2>2. reply = NoReply
    BY <2>1 DEF FlightTimed
  <2> QED BY <1>0, <2>1, <2>2 DEF NoReply
<1>5. ASSUME ClerkServes PROVE KeysServed'
  BY <1>0, <1>5 DEF ClerkServes
<1>6. ASSUME StoreSet PROVE KeysServed'
  <2>1. /\ UNCHANGED <<published, retired, lastFetch, since>>
        /\ cached' = [keys |-> reply, at |-> keyTime] /\ fetcher # Nobody
        /\ reply # NoReply /\ reply' = NoReply
    BY <1>6, Zenon DEF StoreSet
  <2>2. keyTime - lastFetch <= FetchTimeout
    BY <2>1 DEF FlightTimed
  <2> QED BY <1>0, <2>1, <2>2 DEF NoReply
<1>7. ASSUME FetchFails PROVE KeysServed'
  BY <1>1, <1>7, Zenon DEF FetchFails
<1>8. ASSUME NEW k \in Kids, PublishKey(k) PROVE KeysServed'
  BY <1>0, <1>8 DEF PublishKey
<1>9. ASSUME NEW k \in Kids, RetireKey(k) PROVE KeysServed'
  BY <1>0, <1>9 DEF RetireKey
<1>10. ASSUME KeyTick PROVE KeysServed'
  BY <1>1, <1>10, Zenon DEF KeyTick
<1>11. CASE UNCHANGED keyVars
  BY <1>1, <1>11, Zenon DEF keyVars
<1> HIDE DEF KeysServed
<1> QED BY <1>2, <1>3, <1>4, <1>5, <1>6, <1>7, <1>8, <1>9, <1>10, <1>11 DEF KeysNext

\* A 401 needs a set, fresh or just fetched, without the key; a 503 needs a
\* failure, or a limit no good fetch explains.
LEMMA AnswerStep ==
    ASSUME KeysIInv, [KeysNext]_keyVars PROVE NewKeySoonKnown' /\ RefusalHasACause'
<1> USE DEF NewKeySoonKnown, RefusalHasACause
<1>0. /\ keyTime \in Nat /\ lastFetch \in Int /\ trouble \in Int /\ cached.at \in Int
      /\ since \in [Kids -> Nat] /\ published \subseteq Kids /\ lastFetch <= keyTime
      /\ kid \in [Sessions -> Kids] /\ DOMAIN keyAnswer = Sessions
      /\ FetchTimeout \in Nat /\ MinForced \in Nat \ {0}
      /\ NewKeySoonKnown /\ RefusalHasACause
  BY KeysAssumption DEF KeysIInv, FetchTyped, ClockTyped, KeySetsTyped
<1>1. ASSUME UNCHANGED <<published, since, kid, keyAnswer, keyTime, trouble>>
      PROVE  NewKeySoonKnown' /\ RefusalHasACause'
  BY <1>0, <1>1
<1>2. ASSUME NEW s \in Sessions, HangUp(s) PROVE NewKeySoonKnown' /\ RefusalHasACause'
  <2>1. UNCHANGED <<published, since, kid, keyAnswer, keyTime>> /\ trouble' \in {trouble, keyTime}
    BY <1>2 DEF HangUp
  <2>2. CASE trouble' = trouble
    BY <1>1, <2>1, <2>2
  <2>3. CASE trouble' = keyTime
    <3>1. keyTime' - trouble' < MinForced
      BY <1>0, <2>1, <2>3
    <3>2. NewKeySoonKnown'
      BY <1>0, <2>1
    <3> QED BY <3>1, <3>2
  <2> QED BY <2>1, <2>2, <2>3
<1>3. ASSUME NEW s \in Sessions, NEW k \in Kids, AskKey(s, k)
      PROVE  NewKeySoonKnown' /\ RefusalHasACause'
  <2>1. UNCHANGED <<published, since, keyTime, trouble>> /\ kid' = [kid EXCEPT ![s] = k]
    BY <1>3, Zenon DEF AskKey
  <2>2. \/ keyAnswer' = [keyAnswer EXCEPT ![s] = "ok"]
        \/ keyAnswer' = [keyAnswer EXCEPT ![s] = "none"]
    BY <1>3, Zenon DEF AskKey
  <2> QED BY <1>0, <2>1, <2>2
<1>4. ASSUME NEW t \in Tasks, TakeLock(t) PROVE NewKeySoonKnown' /\ RefusalHasACause'
  <2>1. UNCHANGED <<published, since, kid, keyTime, trouble, cached>> /\ fetcher = Nobody
    BY <1>4, Zenon DEF TakeLock
  <2>2. \/ SetFresh(MinForced) /\ After(t, cached.keys, TRUE)
        \/ ~SetFresh(MinForced) /\ keyTime - lastFetch < MinForced /\ After(t, cached.keys, FALSE)
        \/ keyAnswer' = keyAnswer
    BY <1>4, Zenon DEF TakeLock
  <2>3. CASE SetFresh(MinForced) /\ After(t, cached.keys, TRUE)
    <3>1. \A s \in Sessions :
             /\ keyAnswer'[s] = "503" => keyAnswer[s] = "503"
             /\ keyAnswer'[s] = "401" => keyAnswer[s] = "401" \/ kid[s] \notin cached.keys
      BY <2>3, Finished DEF KeysIInv, FetchTyped
    <3>2. cached # NoSet /\ keyTime - cached.at < MinForced
      BY <2>3 DEF SetFresh
    <3>3. \A k \in published \ cached.keys : since[k] >= cached.at - FetchTimeout
      BY <3>2 DEF KeysIInv, KeysServed
    <3> QED BY <1>0, <2>1, <3>1, <3>2, <3>3
  <2>4. CASE ~SetFresh(MinForced) /\ keyTime - lastFetch < MinForced /\ After(t, cached.keys, FALSE)
    <3>1. \A s \in Sessions : keyAnswer'[s] = "401" => keyAnswer[s] = "401"
      BY <2>4, Finished DEF KeysIInv, FetchTyped
    <3>2. trouble >= lastFetch
      BY <1>0, <2>1, <2>4 DEF KeysIInv, AttemptAccounted, SetFresh
    <3>3. keyTime - trouble < MinForced
      BY <1>0, <2>4, <3>2
    <3> QED BY <1>0, <2>1, <3>1, <3>3
  <2> QED BY <1>1, <2>1, <2>2, <2>3, <2>4
<1>5. ASSUME ClerkServes PROVE NewKeySoonKnown' /\ RefusalHasACause'
  BY <1>1, <1>5, Zenon DEF ClerkServes
<1>6. ASSUME StoreSet PROVE NewKeySoonKnown' /\ RefusalHasACause'
  <2>1. /\ UNCHANGED <<published, since, kid, keyTime, trouble>>
        /\ fetcher # Nobody /\ reply # NoReply /\ After(fetcher, reply, TRUE)
    BY <1>6, Zenon DEF StoreSet
  <2>2. \A s \in Sessions :
           /\ keyAnswer'[s] = "503" => keyAnswer[s] = "503"
           /\ keyAnswer'[s] = "401" => keyAnswer[s] = "401" \/ kid[s] \notin reply
    BY <2>1, Finished DEF KeysIInv, FetchTyped
  <2>3. keyTime - lastFetch <= FetchTimeout /\ \A k \in published \ reply : since[k] >= lastFetch
    BY <2>1 DEF KeysIInv, FlightTimed, KeysServed
  <2> QED BY <1>0, <2>1, <2>2, <2>3
<1>7. ASSUME FetchFails PROVE NewKeySoonKnown' /\ RefusalHasACause'
  <2>1. /\ UNCHANGED <<published, since, kid, keyTime>>
        /\ trouble' = keyTime /\ After(fetcher, cached.keys, FALSE)
    BY <1>7, Zenon DEF FetchFails
  <2>2. \A s \in Sessions : keyAnswer'[s] = "401" => keyAnswer[s] = "401"
    BY <2>1, Finished DEF KeysIInv, FetchTyped
  <2> QED BY <1>0, <2>1, <2>2
<1>8. ASSUME NEW k \in Kids, PublishKey(k) PROVE NewKeySoonKnown' /\ RefusalHasACause'
  BY <1>0, <1>8 DEF PublishKey
<1>9. ASSUME NEW k \in Kids, RetireKey(k) PROVE NewKeySoonKnown' /\ RefusalHasACause'
  BY <1>0, <1>9 DEF RetireKey
<1>10. ASSUME KeyTick PROVE NewKeySoonKnown' /\ RefusalHasACause'
  BY <1>10 DEF KeyTick
<1>11. CASE UNCHANGED keyVars
  BY <1>1, <1>11, Zenon DEF keyVars
<1> HIDE DEF NewKeySoonKnown, RefusalHasACause
<1> QED BY <1>2, <1>3, <1>4, <1>5, <1>6, <1>7, <1>8, <1>9, <1>10, <1>11 DEF KeysNext

LEMMA KeysStep == KeysIInv /\ [KeysNext]_keyVars => KeysIInv'
  BY ClockTypedStep, KeySetsTypedStep, AccountedStep, ServedStep, AnswerStep
     DEF KeysIInv, FetchTyped

LEMMA KeysInvariant == KeysSpec => []KeysIInv
  BY KeysInitIInv, KeysStep, PTL DEF KeysSpec

\* "Sign-in could not be checked" is said only within one limit of a fetch
\* that failed or was abandoned, or of a start on a host that had just booted:
\* fetch_lock's instant never refuses a task behind a fetch that succeeded
\* (new and refresh in auth/jwks.rs).
THEOREM RefusalHasACauseAlways == KeysSpec => []RefusalHasACause
  BY KeysInvariant, PTL DEF KeysIInv

\* "Clerk does not know this signing key" is said of a key Clerk serves only
\* while it is younger than one limit and one request's timeout (key_for).
THEOREM NewKeySoonKnownAlways == KeysSpec => []NewKeySoonKnown
  BY KeysInvariant, PTL DEF KeysIInv

\* A key leaves the cache only once Clerk has withdrawn it, however a refresh
\* fails, is abandoned or answers late (refresh, key_for).
THEOREM OnlyClerkRetiresKeysAlways == KeysSpec => OnlyClerkRetiresKeys
<1>1. ASSUME KeysIInv, [KeysNext]_keyVars
      PROVE  [\A k \in cached.keys : k \in cached'.keys \/ k \in retired]_keyVars
  <2>1. CASE StoreSet
    <3>1. cached' = [keys |-> reply, at |-> keyTime] /\ reply # NoReply
      BY <2>1, Zenon DEF StoreSet
    <3> QED BY <1>1, <3>1 DEF KeysIInv, KeysServed
  <2>2. ASSUME cached' = cached PROVE \A k \in cached.keys : k \in cached'.keys
    BY <2>2
  <2>3. StoreSet \/ cached' = cached
    BY <1>1, Zenon DEF KeysNext, HangUp, AskKey, TakeLock, ClerkServes, FetchFails, PublishKey,
          RetireKey, KeyTick, keyVars
  <2> QED BY <2>1, <2>2, <2>3
<1> QED BY <1>1, KeysInvariant, PTL DEF KeysSpec, OnlyClerkRetiresKeys

-------------------------------------------------------------------------------
(* The rate limiter.                                                       *)

RateBuckets == Routes \X {"k1", "o1", "f1", "peer"}
Count == [count : Nat, since : Int]

LimiterTyped ==
    /\ store \in {"memory", "redis", "sliding"} /\ now \in Nat
    /\ counters \in [DOMAIN counters -> Count] /\ DOMAIN counters \subseteq RateBuckets
    /\ lastSweep \in Int
    /\ caller \in [Callers -> RateBuckets \union {<< >>}]
    /\ times \in Seq(Nat) /\ admitted \in [Askers -> Seq(Nat)]
    /\ store # "redis" => \A c \in Callers : caller[c] = << >>

\* An asker's admissions are recorded in their order.
InOrder ==
    \A a \in Askers :
        /\ \A i \in 1 .. Len(admitted[a]) : admitted[a][i] <= now
        /\ \A i, j \in 1 .. Len(admitted[a]) : i <= j => admitted[a][i] <= admitted[a][j]

\* A fixed window is open for this asker.
Counting(a) ==
    a \in DOMAIN counters /\ (store = "memory" => now - counters[a].since < Window[a[1]])

\* The admissions after the first p belong to a window that began at start; the
\* window before it, with at most Limit of the rest, had ended by then.
Epoch(a, p, start) ==
    /\ p <= Len(admitted[a]) /\ Len(admitted[a]) - p <= Limit /\ start <= now
    /\ \A i \in 1 .. p : admitted[a][i] <= start
    /\ \A i \in 1 .. (p - Limit) : admitted[a][i] + Window[a[1]] <= start
    /\ ~Counting(a) => start + Window[a[1]] <= now
    /\ Counting(a) =>
         /\ Len(admitted[a]) - p <= counters[a].count
         /\ store = "memory" => start <= counters[a].since /\ counters[a].since <= now
         /\ store = "redis" =>
              counters[a].since = Never \/ start + Window[a[1]] <= counters[a].since

\* The socket limiter keeps the last of what it admitted; the rest has aged.
Slides(p) ==
    /\ p + Len(times) = Len(admitted[Node]) /\ Len(times) <= Limit
    /\ \A i \in 1 .. p : admitted[Node][i] + Window["login"] <= now
    /\ \A i \in 1 .. Len(times) : times[i] = admitted[Node][p + i]

FixedWindows ==
    store # "sliding" => \A a \in Askers : \E p \in Nat, start \in Int : Epoch(a, p, start)
SlidingWindow ==
    store = "sliding" =>
        /\ \E p \in Nat : Slides(p)
        /\ \A a \in Askers \ {Node} : admitted[a] = << >>

LimiterIInv == LimiterTyped /\ InOrder /\ FixedWindows /\ SlidingWindow /\ BurstBounded

-------------------------------------------------------------------------------
\* A request counts against the one it is limited for, whatever headers it has.
LEMMA BucketIsAsker ==
    /\ \A r \in Requests : Asker(r) \in Askers /\ Bucket(r) = Asker(r)
    /\ Askers \subseteq RateBuckets /\ Node \in Askers
<1> USE DEF NoOne
<1>1. ASSUME NEW r \in Requests
      PROVE  Asker(r) \in Askers /\ Bucket(r) = Asker(r) /\ Asker(r) \in RateBuckets
  <2>1. CASE r.route = "login"
    <3>1. r.forwarded \in {NoOne, "f1"}
      BY <2>1 DEF Requests
    <3>2. ClientIp(r) \in {"f1", "peer"}
      BY <3>1 DEF ClientIp
    <3>3. TenantKey(r) = ClientIp(r)
      BY <2>1 DEF TenantKey
    <3> QED BY <2>1, <3>2, <3>3 DEF Asker, Askers, Bucket, RateBuckets, Routes
  <2>2. CASE r.route = "admin"
    <3>1. r.org = "o1" /\ r.key = NoOne
      BY <2>2 DEF Requests
    <3>2. TenantKey(r) = "o1"
      BY <2>2, <3>1 DEF TenantKey
    <3> QED BY <2>2, <3>1, <3>2 DEF Asker, Askers, Bucket, RateBuckets, Routes
  <2> QED BY <2>1, <2>2 DEF Requests
<1>2. Node \in Askers
  <2> DEFINE q == [route |-> "login", key |-> NoOne, org |-> NoOne, forwarded |-> NoOne,
                   role |-> "guest"]
  <2>1. q \in Requests
    BY DEF Requests
  <2>2. Asker(q) = Node
    BY DEF Asker, ClientIp, Node
  <2> QED BY <2>1, <2>2 DEF Askers
<1> QED BY <1>1, <1>2 DEF Askers

LEMMA WindowOf == \A a \in Askers : a[1] \in Routes /\ Window[a[1]] \in Nat \ {0}
BY BucketIsAsker, LimiterAssumption DEF RateBuckets

LEMMA LimiterInitIInv == LimiterInit => LimiterIInv
<1> SUFFICES ASSUME LimiterInit PROVE LimiterIInv
  OBVIOUS
<1> USE LimiterAssumption DEF LimiterInit
<1>1. LimiterTyped
  BY DEF LimiterTyped, Never
<1>2. InOrder /\ BurstBounded
  BY DEF InOrder, BurstBounded
<1>3. FixedWindows
  <2>1. ASSUME NEW a \in Askers PROVE Epoch(a, 0, -Window[a[1]])
    BY <2>1, WindowOf DEF Epoch, Counting
  <2>2. \A a \in Askers : -Window[a[1]] \in Int
    BY WindowOf
  <2> QED BY <2>1, <2>2 DEF FixedWindows
<1>4. SlidingWindow
  <2>1. Slides(0)
    BY BucketIsAsker DEF Slides
  <2> QED BY <2>1 DEF SlidingWindow
<1> QED BY <1>1, <1>2, <1>3, <1>4 DEF LimiterIInv

\* One more admission.
LEMMA OneMore ==
    ASSUME LimiterTyped, InOrder, BurstBounded, NEW a \in Askers, UNCHANGED <<store, now>>,
           admitted' = [admitted EXCEPT ![a] = Append(@, now)],
           \A i \in 1 .. Len(admitted[a]) + 1 :
               Len(admitted[a]) + 1 >= i + (IF store = "sliding" THEN Limit ELSE 2 * Limit)
                   => i <= Len(admitted[a]) /\ admitted[a][i] + Window[a[1]] <= now
    PROVE  /\ admitted' \in [Askers -> Seq(Nat)] /\ InOrder' /\ BurstBounded'
           /\ \A b \in Askers : b # a => admitted'[b] = admitted[b]
           /\ Len(admitted'[a]) = Len(admitted[a]) + 1
           /\ admitted'[a][Len(admitted[a]) + 1] = now
           /\ \A i \in 1 .. Len(admitted[a]) : admitted'[a][i] = admitted[a][i]
<1> USE LimiterAssumption
<1>1. /\ \A b \in Askers : b # a => admitted'[b] = admitted[b]
      /\ admitted'[a] = Append(admitted[a], now)
      /\ admitted \in [Askers -> Seq(Nat)] /\ now \in Nat /\ store \in {"memory", "redis", "sliding"}
  BY DEF LimiterTyped
<1>2. /\ admitted'[a] \in Seq(Nat) /\ Len(admitted[a]) \in Nat
      /\ Len(admitted'[a]) = Len(admitted[a]) + 1
      /\ admitted'[a][Len(admitted[a]) + 1] = now
      /\ \A i \in 1 .. Len(admitted[a]) : admitted'[a][i] = admitted[a][i]
  BY <1>1, AppendProperties
<1>3. admitted' \in [Askers -> Seq(Nat)]
  BY <1>1, <1>2
<1>4. \A i \in 1 .. Len(admitted[a]) : admitted[a][i] \in Nat
  BY <1>1
<1>5. InOrder'
  <2>1. /\ \A i \in 1 .. Len(admitted'[a]) : admitted'[a][i] <= now
        /\ \A i, j \in 1 .. Len(admitted'[a]) : i <= j => admitted'[a][i] <= admitted'[a][j]
    BY <1>1, <1>2, <1>4 DEF InOrder
  <2> QED BY <1>1, <2>1 DEF InOrder
<1>6. BurstBounded'
  <2> DEFINE n == IF store = "sliding" THEN Limit ELSE 2 * Limit
  <2>1. n \in Nat
    OBVIOUS
  <2>2. \A i, j \in 1 .. Len(admitted[a]) :
          j >= i + n => admitted[a][j] - admitted[a][i] >= Window[a[1]]
    BY <1>1, <1>2 DEF BurstBounded
  <2>3. \A i \in 1 .. Len(admitted[a]) + 1 : Len(admitted[a]) + 1 >= i + n =>
          i <= Len(admitted[a]) /\ admitted[a][i] + Window[a[1]] <= now
    OBVIOUS
  <2>4. Window[a[1]] \in Nat
    BY WindowOf
  <2> HIDE DEF n
  <2>5. \A i, j \in 1 .. Len(admitted[a]) + 1 :
          j >= i + n => admitted'[a][j] - admitted'[a][i] >= Window[a[1]]
    <3> SUFFICES ASSUME NEW i \in 1 .. Len(admitted[a]) + 1, NEW j \in 1 .. Len(admitted[a]) + 1,
                        j >= i + n
          PROVE  admitted'[a][j] - admitted'[a][i] >= Window[a[1]]
      OBVIOUS
    <3>1. CASE j <= Len(admitted[a])
      <4>1. i \in 1 .. Len(admitted[a]) /\ j \in 1 .. Len(admitted[a])
        BY <3>1, <2>1, <1>2
      <4> QED BY <4>1, <1>2, <2>2
    <3>2. CASE j = Len(admitted[a]) + 1
      <4>1. i \in 1 .. Len(admitted[a]) /\ admitted[a][i] + Window[a[1]] <= now
        BY <3>2, <2>3, <1>2
      <4>2. admitted'[a][j] = now /\ admitted'[a][i] = admitted[a][i] /\ admitted[a][i] \in Nat
        BY <3>2, <4>1, <1>2, <1>4
      <4>3. PICK x \in Nat, w \in Nat : x = admitted[a][i] /\ w = Window[a[1]]
        BY <4>2, <2>4
      <4>4. now - x >= w
        <5>1. x + w <= now
          BY <4>1, <4>3, Zenon
        <5>2. PICK t \in Nat : t = now
          BY <1>1
        <5> QED BY <5>1, <5>2
      <4> QED BY <4>2, <4>3, <4>4
    <3> QED BY <3>1, <3>2, <1>2
  <2>6. DOMAIN admitted'[a] = 1 .. Len(admitted[a]) + 1
    BY <1>2
  <2>7. ASSUME NEW b \in Askers, NEW i \in DOMAIN admitted'[b], NEW j \in DOMAIN admitted'[b],
               j >= i + n
        PROVE  admitted'[b][j] - admitted'[b][i] >= Window[b[1]]
    <3>1. CASE b = a
      BY <3>1, <2>5, <2>6, <2>7
    <3>2. CASE b # a
      BY <3>2, <2>7, <1>1 DEF BurstBounded, n
    <3> QED BY <3>1, <3>2
  <2> QED BY <2>7 DEF BurstBounded, n
<1> QED BY <1>1, <1>2, <1>3, <1>5, <1>6

-------------------------------------------------------------------------------
\* A request is counted in its fixed window, or opens one, and is let through if
\* the count allows it.
LEMMA CountsOn ==
    ASSUME LimiterTyped, InOrder, BurstBounded, FixedWindows, NEW a \in Askers,
           store # "sliding", UNCHANGED <<store, now>>,
           Counting(a)',
           counters'[a].count = (IF Counting(a) THEN counters[a].count ELSE 0) + 1,
           counters'[a].since = IF Counting(a) THEN counters[a].since
                                ELSE IF store = "memory" THEN now ELSE Never,
           \/ admitted' = admitted
           \/ counters'[a].count <= Limit /\ admitted' = [admitted EXCEPT ![a] = Append(@, now)]
    PROVE  /\ admitted' \in [Askers -> Seq(Nat)] /\ InOrder' /\ BurstBounded'
           /\ \A b \in Askers : b # a => admitted'[b] = admitted[b]
           /\ \E p \in Nat, start \in Int : Epoch(a, p, start)'
<1> USE LimiterAssumption
<1> DEFINE n == Len(admitted[a])
           W == Window[a[1]]
<1>1. PICK p \in Nat, start \in Int : Epoch(a, p, start)
  BY DEF FixedWindows
<1>2. /\ n \in Nat /\ now \in Nat /\ W \in Nat \ {0} /\ Limit \in Nat
      /\ \A i \in 1 .. n : admitted[a][i] \in Nat /\ admitted[a][i] <= now
  <2>1. admitted[a] \in Seq(Nat) /\ now \in Nat
    BY DEF LimiterTyped
  <2>2. n \in Nat /\ \A i \in 1 .. n : admitted[a][i] \in Nat
    BY <2>1
  <2>3. \A i \in 1 .. n : admitted[a][i] <= now
    BY DEF InOrder
  <2>4. W \in Nat \ {0}
    BY WindowOf
  <2> QED BY <2>1, <2>2, <2>3, <2>4
<1>3. PICK q \in Nat, from \in Int :
        /\ q <= n /\ n - q <= Limit /\ from <= now
        /\ \A i \in 1 .. q : admitted[a][i] <= from
        /\ \A i \in 1 .. (q - Limit) : admitted[a][i] + W <= from
        /\ n - q < counters'[a].count
        /\ store = "memory" => from <= counters'[a].since /\ counters'[a].since <= now
        /\ store = "redis" =>
              counters'[a].since = Never \/ from + W <= counters'[a].since
  <2>1. CASE Counting(a)
    <3>1. counters[a].count \in Nat
      BY <2>1, BucketIsAsker DEF LimiterTyped, Counting, Count
    <3>2. n - p < counters'[a].count
      BY <2>1, <1>1, <1>2, <3>1 DEF Epoch
    <3> QED BY <2>1, <1>1, <1>2, <3>2 DEF Epoch
  <2>2. CASE ~Counting(a)
    <3>1. /\ p <= n /\ n - p <= Limit /\ start + W <= now
          /\ \A i \in 1 .. p : admitted[a][i] <= start
      BY <2>2, <1>1 DEF Epoch
    <3>2. \A i \in 1 .. (n - Limit) : admitted[a][i] + W <= now
      <4> SUFFICES ASSUME NEW i \in 1 .. (n - Limit) PROVE admitted[a][i] + W <= now
        OBVIOUS
      <4>1. i \in 1 .. p /\ i \in 1 .. n
        BY <3>1, <1>2
      <4>2. PICK x \in Nat : x = admitted[a][i] /\ x <= start
        BY <4>1, <3>1, <1>2
      <4>3. x + W <= now
        <5>1. start + W <= now /\ W \in Nat /\ now \in Nat
          BY <3>1, <1>2
        <5> HIDE DEF W
        <5> QED BY <4>2, <5>1
      <4> QED BY <4>2, <4>3
    <3>3. n - n < counters'[a].count
      BY <2>2, <1>2
    <3>4. n <= n /\ n - n <= Limit /\ now <= now /\ now \in Int
      BY <1>2
    <3>5. /\ store = "memory" => now <= counters'[a].since /\ counters'[a].since <= now
          /\ store = "redis" => counters'[a].since = Never
      BY <2>2, <1>2
    <3> QED BY <3>2, <3>3, <3>4, <3>5, <1>2
  <2> QED BY <2>1, <2>2
<1>4. counters'[a].count \in Nat
  <2>1. Counting(a) => counters[a].count \in Nat
    BY BucketIsAsker DEF LimiterTyped, Counting, Count
  <2> QED BY <2>1
<1>5. CASE counters'[a].count <= Limit /\ admitted' = [admitted EXCEPT ![a] = Append(@, now)]
  <2>1. admitted' = [admitted EXCEPT ![a] = Append(@, now)]
    BY <1>5
  <2>2. \A i \in 1 .. n + 1 : n + 1 >= i + 2 * Limit => i <= n /\ admitted[a][i] + W <= now
    <3> SUFFICES ASSUME NEW i \in 1 .. n + 1, n + 1 >= i + 2 * Limit
          PROVE  i <= n /\ admitted[a][i] + W <= now
      OBVIOUS
    <3>1. Limit >= 1 /\ n + 1 - q <= Limit
      BY <1>2, <1>3, <1>4, <1>5
    <3>2. i \in 1 .. (q - Limit) /\ i <= n
      BY <3>1, <1>2, <1>3
    <3>3. i \in 1 .. n
      BY <3>2, <1>2
    <3>4. PICK x \in Nat, w \in Nat, t \in Nat : x = admitted[a][i] /\ w = W /\ t = now
      BY <3>3, <1>2
    <3>5. x + w <= from /\ from <= t
      BY <3>2, <3>4, <1>3, Zenon
    <3>6. x + w <= t
      <4> HIDE DEF W
      <4> QED BY <3>5
    <3> QED BY <3>2, <3>4, <3>6, Zenon
  <2>3. /\ admitted' \in [Askers -> Seq(Nat)] /\ InOrder' /\ BurstBounded'
        /\ \A b \in Askers : b # a => admitted'[b] = admitted[b]
        /\ Len(admitted'[a]) = n + 1
        /\ admitted'[a][n + 1] = now
        /\ \A i \in 1 .. n : admitted'[a][i] = admitted[a][i]
    BY <2>1, <2>2, OneMore
  <2>4. Epoch(a, q, from)'
    <3>1. q <= n + 1 /\ n + 1 - q <= Limit /\ n + 1 - q <= counters'[a].count
      BY <1>2, <1>3, <1>4, <1>5
    <3>2. \A i \in 1 .. q : i \in 1 .. n
      BY <1>2, <1>3
    <3>3. \A i \in 1 .. q : admitted'[a][i] <= from
      BY <3>2, <1>3, <2>3, Zenon
    <3>4. \A i \in 1 .. (q - Limit) : i \in 1 .. n
      BY <1>2, <1>3
    <3>5. \A i \in 1 .. (q - Limit) : admitted'[a][i] + W <= from
      BY <3>4, <1>3, <2>3, Zenon
    <3> QED BY <3>1, <3>3, <3>5, <1>3, <2>3 DEF Epoch
  <2> QED BY <2>3, <2>4
<1>6. CASE admitted' = admitted
  <2>1. admitted' = admitted
    BY <1>6
  <2>2. InOrder' /\ BurstBounded'
    BY <2>1 DEF InOrder, BurstBounded
  <2>3. n - q <= counters'[a].count
    BY <1>2, <1>3, <1>4
  <2>4. Epoch(a, q, from)'
    BY <2>1, <2>3, <1>3 DEF Epoch
  <2> QED BY <2>1, <2>2, <2>4 DEF LimiterTyped
<1> QED BY <1>5, <1>6

\* A counter that is left alone, or swept when its window is over.
LEMMA EpochStays ==
    ASSUME NEW b \in Askers, NEW p, NEW start, Epoch(b, p, start),
           admitted'[b] = admitted[b], UNCHANGED <<store, now>>,
           Counting(b)' => Counting(b) /\ counters'[b] = counters[b],
           Counting(b) => Counting(b)'
    PROVE  Epoch(b, p, start)'
BY DEF Epoch

-------------------------------------------------------------------------------
LEMMA ForbiddenHolds ==
    ASSUME LimiterIInv, NEW r \in Requests, Forbidden(r) PROVE LimiterIInv'
<1> USE DEF LimiterIInv
<1>1. UNCHANGED <<store, now, counters, lastSweep, caller, times, admitted>>
  BY DEF Forbidden, Answer
<1>2. LimiterTyped' /\ InOrder' /\ BurstBounded'
  BY <1>1 DEF LimiterTyped, InOrder, BurstBounded
<1>3. FixedWindows'
  BY <1>1 DEF FixedWindows, Epoch, Counting
<1>4. SlidingWindow'
  BY <1>1 DEF SlidingWindow, Slides
<1> QED BY <1>2, <1>3, <1>4

\* The counters with one entry put in.
LEMMA PutStampType ==
    ASSUME LimiterTyped, NEW b \in RateBuckets, NEW put \in Count
    PROVE  /\ DOMAIN PutStamp(b, put) = DOMAIN counters \union {b}
           /\ DOMAIN PutStamp(b, put) \subseteq RateBuckets
           /\ PutStamp(b, put)[b] = put
           /\ \A x \in DOMAIN counters : x # b => PutStamp(b, put)[x] = counters[x]
           /\ \A x \in DOMAIN PutStamp(b, put) : PutStamp(b, put)[x] \in Count
BY DEF PutStamp, LimiterTyped

\* A check in memory, sweep included, counts its asker on and no other.
LEMMA MemoryCheckCounts ==
    ASSUME LimiterIInv, NEW r \in Requests, MemoryCheck(r)
    PROVE  /\ store = "memory" /\ UNCHANGED <<store, now, caller, times>> /\ lastSweep' \in Int
           /\ counters' \in [DOMAIN counters' -> Count] /\ DOMAIN counters' \subseteq RateBuckets
           /\ Counting(Asker(r))'
           /\ counters'[Asker(r)].count =
                (IF Counting(Asker(r)) THEN counters[Asker(r)].count ELSE 0) + 1
           /\ counters'[Asker(r)].since =
                IF Counting(Asker(r)) THEN counters[Asker(r)].since ELSE now
           /\ Answer(Asker(r), IF counters'[Asker(r)].count <= Limit THEN 200 ELSE 429)
           /\ \A b \in Askers : b # Asker(r) =>
                /\ Counting(b)' => Counting(b) /\ counters'[b] = counters[b]
                /\ Counting(b) => Counting(b)'
<1> USE LimiterAssumption DEF LimiterIInv
<1> DEFINE a     == Asker(r)
           held  == Counter(a)
           live  == IF now - held.since >= Window[a[1]] THEN [count |-> 0, since |-> now] ELSE held
           put   == [live EXCEPT !.count = @ + 1]
           all   == PutStamp(a, put)
<1>1. /\ a \in Askers /\ a \in RateBuckets /\ Bucket(r) = a /\ a[1] = r.route
      /\ Window[a[1]] \in Nat \ {0} /\ Window[a[1]] <= SweepHorizon
  BY BucketIsAsker, WindowOf DEF Asker
<1>2. store = "memory" /\ UNCHANGED <<store, now, caller, times>> /\ now \in Nat
  BY DEF MemoryCheck, LimiterTyped
<1>3. /\ counters' = all \/ counters' = Keep(all, {x \in DOMAIN all : now - all[x].since < SweepHorizon})
      /\ lastSweep' \in {now, lastSweep}
      /\ Answer(a, IF put.count <= Limit THEN 200 ELSE 429)
  BY <1>1 DEF MemoryCheck
<1>4. /\ Counting(a) => live = counters[a] /\ counters[a] \in Count
      /\ ~Counting(a) => live = [count |-> 0, since |-> now]
  <2>1. CASE a \in DOMAIN counters
    <3>1. held = counters[a] /\ counters[a] \in Count
      BY <2>1 DEF Counter, LimiterTyped
    <3>2. counters[a].since \in Int
      BY <3>1 DEF Count
    <3> QED BY <2>1, <3>1, <3>2, <1>1, <1>2 DEF Counting
  <2>2. CASE a \notin DOMAIN counters
    <3>1. held = [count |-> 0, since |-> now]
      BY <2>2 DEF Counter
    <3> QED BY <2>2, <3>1, <1>1, <1>2 DEF Counting
  <2> QED BY <2>1, <2>2
<1>5. /\ put \in Count
      /\ put.count = (IF Counting(a) THEN counters[a].count ELSE 0) + 1
      /\ put.since = IF Counting(a) THEN counters[a].since ELSE now
      /\ now - put.since < Window[a[1]]
  <2>1. live \in Count
    BY <1>2, <1>4 DEF Count
  <2>2. PICK k \in Nat, s \in Int : live = [count |-> k, since |-> s]
    BY <2>1 DEF Count
  <2> HIDE DEF live
  <2>3. put = [count |-> k + 1, since |-> s]
    BY <2>2
  <2>4. put \in Count /\ put.count = live.count + 1 /\ put.since = live.since
    BY <2>2, <2>3 DEF Count
  <2> HIDE DEF put
  <2>5. CASE Counting(a)
    BY <2>4, <2>5, <1>4, <1>2 DEF Counting
  <2>6. CASE ~Counting(a)
    BY <2>4, <2>6, <1>4, <1>2, <1>1
  <2> QED BY <2>5, <2>6
<1> HIDE DEF a, held, live, put
<1>6. /\ DOMAIN all = DOMAIN counters \union {a} /\ DOMAIN all \subseteq RateBuckets
      /\ all[a] = put
      /\ \A x \in DOMAIN counters : x # a => all[x] = counters[x]
      /\ \A x \in DOMAIN all : all[x] \in Count
  BY <1>1, <1>5, PutStampType
<1> HIDE DEF all
<1>7. /\ DOMAIN counters' \subseteq DOMAIN all /\ \A x \in DOMAIN counters' : counters'[x] = all[x]
      /\ counters' = [x \in DOMAIN counters' |-> counters'[x]]
      /\ \A x \in DOMAIN all : x \in DOMAIN counters' \/ now - all[x].since >= SweepHorizon
  <2>1. \A x \in DOMAIN all : all[x].since \in Int
    BY <1>6 DEF Count
  <2>2. all = [x \in DOMAIN all |-> all[x]]
    BY DEF all, PutStamp
  <2> QED BY <1>3, <2>1, <2>2, <1>2 DEF Keep
<1>8. a \in DOMAIN counters' /\ counters'[a] = put /\ Counting(a)'
  <2>1. now - put.since < SweepHorizon /\ put.since \in Int
    BY <1>1, <1>2, <1>5 DEF Count
  <2>2. a \in DOMAIN counters' /\ counters'[a] = put
    BY <2>1, <1>2, <1>6, <1>7
  <2> QED BY <2>2, <1>2, <1>5 DEF Counting
<1>9. ASSUME NEW b \in Askers, b # a
      PROVE  /\ Counting(b)' => Counting(b) /\ counters'[b] = counters[b]
             /\ Counting(b) => Counting(b)'
  <2>1. Counting(b)' => Counting(b) /\ counters'[b] = counters[b]
    BY <1>2, <1>6, <1>7, <1>9 DEF Counting
  <2>2. ASSUME Counting(b) PROVE Counting(b)'
    <3>1. b \in DOMAIN counters /\ now - counters[b].since < Window[b[1]]
      BY <1>2, <2>2 DEF Counting
    <3>2. counters[b].since \in Int /\ Window[b[1]] \in Nat /\ Window[b[1]] <= SweepHorizon
      BY <3>1, WindowOf DEF LimiterTyped, Count
    <3>3. b \in DOMAIN counters'
      BY <3>1, <3>2, <1>2, <1>6, <1>7, <1>9
    <3> QED BY <3>1, <3>3, <1>2, <1>6, <1>7, <1>9 DEF Counting
  <2> QED BY <2>1, <2>2
<1>10. counters' \in [DOMAIN counters' -> Count] /\ DOMAIN counters' \subseteq RateBuckets
  <2>1. \A x \in DOMAIN counters' : counters'[x] \in Count
    BY <1>6, <1>7
  <2>2. DOMAIN counters' \subseteq RateBuckets
    BY <1>6, <1>7
  <2> QED BY <2>1, <2>2, <1>7
<1>11. lastSweep' \in Int
  BY <1>2, <1>3 DEF LimiterTyped
<1>12. /\ Counting(a)' /\ Answer(a, IF counters'[a].count <= Limit THEN 200 ELSE 429)
       /\ counters'[a].count = (IF Counting(a) THEN counters[a].count ELSE 0) + 1
       /\ counters'[a].since = IF Counting(a) THEN counters[a].since ELSE now
  BY <1>3, <1>5, <1>8
<1> QED BY <1>2, <1>9, <1>10, <1>11, <1>12 DEF a

LEMMA MemoryCheckHolds ==
    ASSUME LimiterIInv, NEW r \in Requests, MemoryCheck(r) PROVE LimiterIInv'
<1> USE LimiterAssumption DEF LimiterIInv
<1>1. PICK a \in Askers : a = Asker(r)
  BY BucketIsAsker
<1>2. /\ store = "memory" /\ UNCHANGED <<store, now, caller, times>> /\ lastSweep' \in Int
      /\ counters' \in [DOMAIN counters' -> Count] /\ DOMAIN counters' \subseteq RateBuckets
      /\ Counting(a)'
      /\ counters'[a].count = (IF Counting(a) THEN counters[a].count ELSE 0) + 1
      /\ counters'[a].since = IF Counting(a) THEN counters[a].since ELSE now
      /\ Answer(a, IF counters'[a].count <= Limit THEN 200 ELSE 429)
      /\ \A b \in Askers : b # a =>
           /\ Counting(b)' => Counting(b) /\ counters'[b] = counters[b]
           /\ Counting(b) => Counting(b)'
  BY <1>1, MemoryCheckCounts
<1>3. admitted' = IF counters'[a].count <= Limit
                  THEN [admitted EXCEPT ![a] = Append(@, now)] ELSE admitted
  BY <1>2 DEF Answer
<1>4. /\ admitted' \in [Askers -> Seq(Nat)] /\ InOrder' /\ BurstBounded'
      /\ \A b \in Askers : b # a => admitted'[b] = admitted[b]
      /\ \E p \in Nat, start \in Int : Epoch(a, p, start)'
  BY <1>2, <1>3, CountsOn
<1>5. FixedWindows'
  <2> SUFFICES ASSUME NEW b \in Askers, b # a
        PROVE  \E p \in Nat, start \in Int : Epoch(b, p, start)'
    BY <1>4 DEF FixedWindows
  <2>1. PICK p \in Nat, start \in Int : Epoch(b, p, start)
    BY <1>2 DEF FixedWindows
  <2> QED BY <2>1, <1>2, <1>4, EpochStays
<1>6. LimiterTyped'
  BY <1>2, <1>4 DEF LimiterTyped
<1> QED BY <1>2, <1>4, <1>5, <1>6 DEF SlidingWindow

\* Redis counts a request, whether its answer arrives or not.
LEMMA RedisCountsHolds ==
    ASSUME LimiterIInv, NEW a \in Askers,
           store = "redis", UNCHANGED <<store, now, lastSweep, times>>,
           caller' \in [Callers -> RateBuckets \union {<< >>}],
           counters' = PutStamp(a, [count |-> (IF a \in DOMAIN counters
                                               THEN counters[a].count ELSE 0) + 1,
                                    since |-> IF a \in DOMAIN counters
                                              THEN counters[a].since ELSE Never]),
           \/ admitted' = admitted
           \/ /\ (IF a \in DOMAIN counters THEN counters[a].count ELSE 0) + 1 <= Limit
              /\ admitted' = [admitted EXCEPT ![a] = Append(@, now)]
    PROVE  LimiterIInv'
<1> USE LimiterAssumption DEF LimiterIInv
<1> DEFINE count  == (IF a \in DOMAIN counters THEN counters[a].count ELSE 0) + 1
           expiry == IF a \in DOMAIN counters THEN counters[a].since ELSE Never
           put    == [count |-> count, since |-> expiry]
<1>1. a \in RateBuckets
  BY BucketIsAsker
<1>2. /\ store = "redis" /\ UNCHANGED <<store, now, lastSweep, times>>
      /\ counters' = PutStamp(a, put)
      /\ \/ admitted' = admitted
         \/ count <= Limit /\ admitted' = [admitted EXCEPT ![a] = Append(@, now)]
  OBVIOUS
<1>3. a \in DOMAIN counters => counters[a].count \in Nat /\ counters[a].since \in Int
  BY DEF LimiterTyped, Count
<1>4. count \in Nat /\ expiry \in Int
  BY <1>3 DEF Never
<1>5. put \in Count /\ put.count = count /\ put.since = expiry
  BY <1>4 DEF Count
<1>6. Counting(a) <=> a \in DOMAIN counters
  BY <1>2 DEF Counting
<1>7. /\ count = (IF Counting(a) THEN counters[a].count ELSE 0) + 1
      /\ expiry = IF Counting(a) THEN counters[a].since ELSE Never
  BY <1>6
<1> HIDE DEF put, count, expiry
<1>8. /\ DOMAIN counters' = DOMAIN counters \union {a} /\ DOMAIN counters' \subseteq RateBuckets
      /\ counters'[a] = put
      /\ \A x \in DOMAIN counters : x # a => counters'[x] = counters[x]
      /\ \A x \in DOMAIN counters' : counters'[x] \in Count
  <2>1. LimiterTyped /\ put \in Count
    BY <1>5
  <2>2. /\ DOMAIN PutStamp(a, put) = DOMAIN counters \union {a}
        /\ DOMAIN PutStamp(a, put) \subseteq RateBuckets
        /\ PutStamp(a, put)[a] = put
        /\ \A x \in DOMAIN counters : x # a => PutStamp(a, put)[x] = counters[x]
        /\ \A x \in DOMAIN PutStamp(a, put) : PutStamp(a, put)[x] \in Count
    BY <2>1, <1>1, PutStampType
  <2> QED BY <2>2, <1>2, Zenon
<1>9. Counting(a)'
  BY <1>2, <1>8 DEF Counting
<1>10. /\ admitted' \in [Askers -> Seq(Nat)] /\ InOrder' /\ BurstBounded'
       /\ \A b \in Askers : b # a => admitted'[b] = admitted[b]
       /\ \E p \in Nat, start \in Int : Epoch(a, p, start)'
  <2>1. /\ counters'[a].count = (IF Counting(a) THEN counters[a].count ELSE 0) + 1
        /\ counters'[a].since = IF Counting(a) THEN counters[a].since
                                ELSE IF store = "memory" THEN now ELSE Never
    BY <1>2, <1>5, <1>7, <1>8
  <2>2. \/ admitted' = admitted
        \/ counters'[a].count <= Limit /\ admitted' = [admitted EXCEPT ![a] = Append(@, now)]
    BY <1>2, <1>5, <1>8
  <2>3. store # "sliding" /\ UNCHANGED <<store, now>>
    BY <1>2
  <2> QED BY <2>1, <2>2, <2>3, <1>1, <1>9, CountsOn
<1>11. FixedWindows'
  <2> SUFFICES ASSUME NEW b \in Askers, b # a
        PROVE  \E p \in Nat, start \in Int : Epoch(b, p, start)'
    BY <1>10 DEF FixedWindows
  <2>1. PICK p \in Nat, start \in Int : Epoch(b, p, start)
    BY <1>2 DEF FixedWindows
  <2>2. Counting(b)' => Counting(b) /\ counters'[b] = counters[b]
    BY <1>2, <1>8 DEF Counting
  <2>3. Counting(b) => Counting(b)'
    BY <1>2, <1>8 DEF Counting
  <2> QED BY <2>1, <2>2, <2>3, <1>2, <1>10, EpochStays
<1>12. LimiterTyped'
  <2>1. counters' \in [DOMAIN counters' -> Count]
    BY <1>2, <1>8 DEF PutStamp
  <2> QED BY <2>1, <1>2, <1>8, <1>10 DEF LimiterTyped
<1> QED BY <1>2, <1>10, <1>11, <1>12 DEF SlidingWindow

LEMMA RedisIncrHolds ==
    ASSUME LimiterIInv, NEW c \in Callers, NEW r \in Requests, RedisIncr(c, r) PROVE LimiterIInv'
<1>1. PICK a \in Askers : a = Asker(r) /\ a = Bucket(r) /\ a \in RateBuckets
  BY BucketIsAsker
<1> DEFINE count  == (IF a \in DOMAIN counters THEN counters[a].count ELSE 0) + 1
           expiry == IF a \in DOMAIN counters THEN counters[a].since ELSE Never
<1>2. /\ store = "redis" /\ UNCHANGED <<store, now, lastSweep, times>>
      /\ counters' = PutStamp(a, [count |-> count, since |-> expiry])
      /\ caller' = [caller EXCEPT ![c] = IF count = 1 THEN a ELSE << >>]
      /\ admitted' = IF count <= Limit
                     THEN [admitted EXCEPT ![a] = Append(@, now)] ELSE admitted
  BY <1>1 DEF RedisIncr, Answer
<1>3. caller' \in [Callers -> RateBuckets \union {<< >>}]
  <2>1. caller \in [Callers -> RateBuckets \union {<< >>}]
    BY DEF LimiterIInv, LimiterTyped
  <2> HIDE DEF count
  <2> QED BY <2>1, <1>1, <1>2
<1> QED BY <1>2, <1>3, RedisCountsHolds

LEMMA RedisDownHolds ==
    ASSUME LimiterIInv, NEW r \in Requests, RedisDown(r) PROVE LimiterIInv'
<1>1. PICK a \in Askers : a = Asker(r) /\ a = Bucket(r) /\ a \in RateBuckets
  BY BucketIsAsker
<1> DEFINE count  == (IF a \in DOMAIN counters THEN counters[a].count ELSE 0) + 1
           expiry == IF a \in DOMAIN counters THEN counters[a].since ELSE Never
           held   == IF a \in DOMAIN counters THEN [counters[a] EXCEPT !.count = @ + 1]
                     ELSE [count |-> 1, since |-> Never]
<1>2. /\ store = "redis" /\ UNCHANGED <<store, now, lastSweep, caller, times, admitted>>
      /\ counters' \in {counters, PutStamp(a, held)}
  BY <1>1 DEF RedisDown
<1>3. CASE counters' = counters
  <2> USE DEF LimiterIInv
  <2>1. LimiterTyped' /\ InOrder' /\ BurstBounded'
    BY <1>2, <1>3 DEF LimiterTyped, InOrder, BurstBounded
  <2>2. FixedWindows'
    BY <1>2, <1>3 DEF FixedWindows, Epoch, Counting
  <2>3. SlidingWindow'
    BY <1>2 DEF SlidingWindow
  <2> QED BY <2>1, <2>2, <2>3
<1>4. CASE counters' = PutStamp(a, held)
  <2>1. held = [count |-> count, since |-> expiry]
    <3>1. CASE a \in DOMAIN counters
      <4>1. PICK k \in Nat, s \in Int : counters[a] = [count |-> k, since |-> s]
        BY <3>1 DEF LimiterIInv, LimiterTyped, Count
      <4> QED BY <3>1, <4>1
    <3>2. CASE a \notin DOMAIN counters
      BY <3>2
    <3> QED BY <3>1, <3>2
  <2>2. caller' \in [Callers -> RateBuckets \union {<< >>}]
    BY <1>2 DEF LimiterIInv, LimiterTyped
  <2>3. counters' = PutStamp(a, [count |-> count, since |-> expiry])
    BY <1>4, <2>1
  <2> QED BY <1>2, <2>2, <2>3, RedisCountsHolds
<1> QED BY <1>2, <1>3, <1>4

LEMMA RedisExpireHolds ==
    ASSUME LimiterIInv, NEW c \in Callers, RedisExpire(c) PROVE LimiterIInv'
<1> USE LimiterAssumption DEF LimiterIInv
<1>1. PICK b \in RateBuckets : b = caller[c]
  BY DEF RedisExpire, LimiterTyped
<1>2. /\ store = "redis" /\ UNCHANGED <<store, now, lastSweep, times, admitted>>
      /\ now \in Nat /\ Window[b[1]] \in Nat
      /\ caller' = [caller EXCEPT ![c] = << >>]
  BY <1>1 DEF RedisExpire, LimiterTyped, RateBuckets
<1>3. PICK e \in Int : e = now + Window[b[1]]
  BY <1>2
<1>4. counters' = [counters EXCEPT ![b].since = e]
  BY <1>1, <1>3 DEF RedisExpire
<1>5. /\ DOMAIN counters' = DOMAIN counters
      /\ \A x \in DOMAIN counters : x # b => counters'[x] = counters[x]
      /\ b \in DOMAIN counters => counters'[b] = [counters[b] EXCEPT !.since = e]
      /\ counters' = [x \in DOMAIN counters |-> counters'[x]]
  BY <1>4 DEF LimiterTyped
<1>6. b \in DOMAIN counters =>
        /\ counters'[b] \in Count
        /\ counters'[b].count = counters[b].count /\ counters'[b].since = e
  <2> SUFFICES ASSUME b \in DOMAIN counters
        PROVE  /\ counters'[b] \in Count
               /\ counters'[b].count = counters[b].count /\ counters'[b].since = e
    OBVIOUS
  <2>1. PICK k \in Nat, s \in Int : counters[b] = [count |-> k, since |-> s]
    BY DEF LimiterTyped, Count
  <2>2. counters'[b] = [count |-> k, since |-> e]
    BY <2>1, <1>5
  <2> QED BY <2>1, <2>2 DEF Count
<1>7. LimiterTyped'
  <2>1. counters' \in [DOMAIN counters' -> Count] /\ DOMAIN counters' \subseteq RateBuckets
    BY <1>5, <1>6 DEF LimiterTyped
  <2> QED BY <2>1, <1>2 DEF LimiterTyped
<1>8. InOrder' /\ BurstBounded'
  BY <1>2 DEF InOrder, BurstBounded
<1>9. FixedWindows'
  <2> SUFFICES ASSUME NEW a \in Askers
        PROVE  \E p \in Nat, start \in Int : Epoch(a, p, start)'
    BY DEF FixedWindows
  <2>1. PICK p \in Nat, start \in Int : Epoch(a, p, start)
    BY <1>2 DEF FixedWindows
  <2>2. CASE a = b /\ b \in DOMAIN counters
    <3>1. start + Window[b[1]] <= e /\ e # Never
      <4>1. start <= now
        BY <2>1 DEF Epoch
      <4> QED BY <4>1, <1>2, <1>3 DEF Never
    <3>2. Counting(a)' /\ Counting(a)
      BY <2>2, <1>2, <1>5 DEF Counting
    <3> QED BY <2>1, <2>2, <3>1, <3>2, <1>2, <1>6 DEF Epoch
  <2>3. CASE ~(a = b /\ b \in DOMAIN counters)
    <3>1. Counting(a)' => Counting(a) /\ counters'[a] = counters[a]
      BY <2>3, <1>2, <1>5 DEF Counting
    <3>2. Counting(a) => Counting(a)'
      BY <1>2, <1>5 DEF Counting
    <3> QED BY <2>1, <3>1, <3>2, <1>2, EpochStays
  <2> QED BY <2>2, <2>3
<1> QED BY <1>2, <1>7, <1>8, <1>9 DEF SlidingWindow

LEMMA RedisExpireLostHolds ==
    ASSUME LimiterIInv, NEW c \in Callers, RedisExpireLost(c) PROVE LimiterIInv'
<1> USE DEF LimiterIInv
<1>1. /\ UNCHANGED <<store, now, counters, lastSweep, times, admitted>>
      /\ caller' = [caller EXCEPT ![c] = << >>]
  BY DEF RedisExpireLost
<1>2. LimiterTyped' /\ InOrder' /\ BurstBounded'
  BY <1>1 DEF LimiterTyped, InOrder, BurstBounded
<1>3. FixedWindows'
  BY <1>1 DEF FixedWindows, Epoch, Counting
<1>4. SlidingWindow'
  BY <1>1 DEF SlidingWindow, Slides
<1> QED BY <1>2, <1>3, <1>4

-------------------------------------------------------------------------------
LEMMA AllowHolds ==
    ASSUME LimiterIInv, Allow PROVE LimiterIInv'
<1> USE LimiterAssumption DEF LimiterIInv
<1>1. PICK aged \in 0 .. Len(times) :
        LET kept == SubSeq(times, aged + 1, Len(times))
            ok   == Len(kept) < Limit
        IN /\ \A i \in 1 .. aged : now - times[i] >= Window["login"]
           /\ aged < Len(times) => now - times[aged + 1] < Window["login"]
           /\ times' = IF ok THEN Append(kept, now) ELSE kept
           /\ Answer(Node, IF ok THEN 200 ELSE 429)
  BY DEF Allow
<1> DEFINE kept == SubSeq(times, aged + 1, Len(times))
           n == Len(admitted[Node])
           W == Window["login"]
<1>2. /\ store = "sliding" /\ UNCHANGED <<store, now, counters, lastSweep, caller>>
      /\ now \in Nat /\ times \in Seq(Nat) /\ Len(times) \in Nat
      /\ Node \in Askers /\ Node[1] = "login" /\ W \in Nat \ {0}
      /\ admitted \in [Askers -> Seq(Nat)] /\ n \in Nat
      /\ \A i \in 1 .. n : admitted[Node][i] \in Nat
  <2>1. Node \in Askers /\ Node[1] = "login" /\ W \in Nat \ {0}
    BY BucketIsAsker, WindowOf DEF Node, Routes
  <2>2. times \in Seq(Nat) /\ admitted \in [Askers -> Seq(Nat)] /\ now \in Nat
    BY DEF LimiterTyped
  <2>3. admitted[Node] \in Seq(Nat) /\ n \in Nat
    BY <2>1, <2>2
  <2>4. \A i \in 1 .. n : admitted[Node][i] \in Nat
    BY <2>3
  <2>5. store = "sliding" /\ UNCHANGED <<store, now, counters, lastSweep, caller>>
    BY DEF Allow
  <2> QED BY <2>1, <2>2, <2>3, <2>4, <2>5
<1>3. PICK p \in Nat : Slides(p)
  BY <1>2 DEF SlidingWindow
<1>4. /\ kept \in Seq(Nat) /\ Len(kept) = Len(times) - aged
      /\ \A i \in 1 .. Len(times) - aged : kept[i] = times[aged + i]
  <2>1. aged + 1 \in 1 .. Len(times) + 1 /\ Len(times) \in aged .. Len(times)
    BY <1>2
  <2> QED BY <2>1, <1>2, SubSeqProperties
<1>5. /\ \A i \in 1 .. aged : now - times[i] >= W
      /\ times' = IF Len(kept) < Limit THEN Append(kept, now) ELSE kept
      /\ admitted' = IF Len(kept) < Limit
                     THEN [admitted EXCEPT ![Node] = Append(@, now)] ELSE admitted
  BY <1>1 DEF Answer
<1> HIDE DEF kept
<1>6. \A i \in 1 .. p + aged : i <= n /\ admitted[Node][i] + W <= now
  <2> SUFFICES ASSUME NEW i \in 1 .. p + aged
        PROVE  i <= n /\ admitted[Node][i] + W <= now
    OBVIOUS
  <2>1. p + Len(times) = n /\ i <= n
    BY <1>2, <1>3 DEF Slides
  <2>2. CASE i <= p
    BY <2>1, <2>2, <1>2, <1>3 DEF Slides
  <2>3. CASE i > p
    <3>1. i - p \in 1 .. aged /\ i - p \in 1 .. Len(times) /\ p + (i - p) = i
      BY <2>3, <1>2
    <3>2. times[i - p] = admitted[Node][i]
      BY <3>1, <1>3 DEF Slides
    <3>3. now - times[i - p] >= W
      BY <3>1, <1>5
    <3>4. i \in 1 .. n
      BY <2>1, <1>2
    <3>5. PICK x \in Nat, w \in Nat, t \in Nat : x = admitted[Node][i] /\ w = W /\ t = now
      BY <3>4, <1>2
    <3>6. t - x >= w
      BY <3>2, <3>3, <3>5, Zenon
    <3>7. x + w <= t
      <4> HIDE DEF W
      <4> QED BY <3>6
    <3> QED BY <2>1, <3>5, <3>7, Zenon
  <2> QED BY <2>2, <2>3
<1>7. \A i \in 1 .. Len(kept) : kept[i] = admitted[Node][p + aged + i]
  <2> SUFFICES ASSUME NEW i \in 1 .. Len(kept)
        PROVE  kept[i] = admitted[Node][p + aged + i]
    OBVIOUS
  <2>1. aged + i \in 1 .. Len(times) /\ p + (aged + i) = p + aged + i /\ kept[i] = times[aged + i]
    BY <1>2, <1>4
  <2> QED BY <2>1, <1>3 DEF Slides
<1>8. p + aged + Len(kept) = n /\ p + aged \in Nat /\ Len(kept) \in Nat /\ Len(kept) <= Limit
  <2>1. p + Len(times) = n /\ Len(times) <= Limit
    BY <1>3 DEF Slides
  <2>2. PICK t \in Nat : t = Len(times)
    BY <1>2
  <2>3. Len(kept) = t - aged /\ p + t = n /\ t <= Limit /\ aged \in Nat /\ aged <= t
    BY <2>1, <2>2, <1>4
  <2> HIDE DEF n
  <2> QED BY <2>3
<1>9. CASE Len(kept) < Limit
  <2>1. admitted' = [admitted EXCEPT ![Node] = Append(@, now)] /\ times' = Append(kept, now)
    BY <1>5, <1>9
  <2>2. \A i \in 1 .. n + 1 : n + 1 >= i + Limit => i <= n /\ admitted[Node][i] + W <= now
    <3> SUFFICES ASSUME NEW i \in 1 .. n + 1, n + 1 >= i + Limit
          PROVE  i <= n /\ admitted[Node][i] + W <= now
      OBVIOUS
    <3>1. i \in 1 .. p + aged
      BY <1>2, <1>8, <1>9
    <3> QED BY <3>1, <1>6
  <2>3. /\ admitted' \in [Askers -> Seq(Nat)] /\ InOrder' /\ BurstBounded'
        /\ \A b \in Askers : b # Node => admitted'[b] = admitted[b]
        /\ Len(admitted'[Node]) = n + 1
        /\ admitted'[Node][n + 1] = now
        /\ \A i \in 1 .. n : admitted'[Node][i] = admitted[Node][i]
    BY <2>1, <2>2, <1>2, OneMore
  <2>4. /\ times' \in Seq(Nat) /\ Len(times') = Len(kept) + 1 /\ times'[Len(kept) + 1] = now
        /\ \A i \in 1 .. Len(kept) : times'[i] = kept[i]
    BY <2>1, <1>2, <1>4, AppendProperties
  <2>5. Slides(p + aged)'
    <3>1. p + aged + Len(times') = n + 1 /\ Len(times') <= Limit
      <4>1. PICK k \in Nat : k = Len(kept)
        BY <1>8
      <4>2. Len(times') = k + 1 /\ p + aged + k = n /\ p + aged \in Nat /\ k < Limit
        BY <4>1, <2>4, <1>8, <1>9
      <4> HIDE DEF n
      <4> QED BY <4>2
    <3>2. \A i \in 1 .. p + aged : admitted'[Node][i] + W <= now
      BY <1>2, <1>6, <1>8, <2>3
    <3>3. \A i \in 1 .. Len(times') : times'[i] = admitted'[Node][p + aged + i]
      <4> SUFFICES ASSUME NEW i \in 1 .. Len(kept) + 1
            PROVE  times'[i] = admitted'[Node][p + aged + i]
        BY <2>4
      <4>1. CASE i <= Len(kept)
        <5>1. i \in 1 .. Len(kept) /\ p + aged + i \in 1 .. n
          BY <4>1, <1>8
        <5> QED BY <5>1, <2>3, <2>4, <1>7
      <4>2. CASE i = Len(kept) + 1
        <5>1. p + aged + i = n + 1
          BY <4>2, <1>8
        <5> QED BY <4>2, <5>1, <2>3, <2>4
      <4> QED BY <4>1, <4>2, <1>8
    <3> QED BY <3>1, <3>2, <3>3, <2>3, <1>2 DEF Slides
  <2>6. LimiterTyped'
    BY <2>3, <2>4, <1>2 DEF LimiterTyped
  <2>7. FixedWindows' /\ SlidingWindow'
    BY <2>3, <2>5, <1>2, <1>8 DEF FixedWindows, SlidingWindow
  <2> QED BY <2>3, <2>6, <2>7
<1>10. CASE ~(Len(kept) < Limit)
  <2>1. admitted' = admitted /\ times' = kept
    BY <1>5, <1>10
  <2>2. Slides(p + aged)'
    BY <2>1, <1>2, <1>6, <1>7, <1>8 DEF Slides
  <2>3. LimiterTyped' /\ InOrder' /\ BurstBounded'
    BY <2>1, <1>2, <1>4 DEF LimiterTyped, InOrder, BurstBounded
  <2>4. FixedWindows' /\ SlidingWindow'
    BY <2>1, <2>2, <1>2, <1>8 DEF FixedWindows, SlidingWindow
  <2> QED BY <2>3, <2>4
<1> QED BY <1>9, <1>10

LEMMA SweepWindowsHolds ==
    ASSUME LimiterIInv, SweepWindows PROVE LimiterIInv'
<1> USE LimiterAssumption DEF LimiterIInv
<1> DEFINE n == Len(admitted[Node])
           W == Window["login"]
<1>1. /\ store = "sliding" /\ UNCHANGED <<store, now, counters, caller, admitted>>
      /\ lastSweep' = now
      /\ times' = IF now - times[Len(times)] < W THEN times ELSE << >>
      /\ times # << >>
  BY DEF SweepWindows
<1>2. /\ now \in Nat /\ times \in Seq(Nat) /\ Len(times) \in Nat /\ Len(times) >= 1
      /\ Node \in Askers /\ W \in Nat /\ n \in Nat
      /\ \A i \in 1 .. n : admitted[Node][i] \in Nat
  <2>1. Node \in Askers /\ W \in Nat
    BY BucketIsAsker DEF Routes
  <2>2. times \in Seq(Nat) /\ times # << >>
    BY <1>1 DEF LimiterTyped
  <2>3. Len(times) \in Nat /\ Len(times) >= 1
    BY <2>2, EmptySeq
  <2>4. admitted[Node] \in Seq(Nat) /\ now \in Nat
    BY <2>1 DEF LimiterTyped
  <2> QED BY <2>1, <2>2, <2>3, <2>4
<1>3. PICK p \in Nat : Slides(p)
  BY <1>1 DEF SlidingWindow
<1>4. LimiterTyped' /\ InOrder' /\ BurstBounded'
  <2>1. times' \in Seq(Nat) /\ lastSweep' \in Int
    BY <1>1, <1>2
  <2>2. LimiterTyped'
    BY <2>1, <1>1 DEF LimiterTyped
  <2> QED BY <2>2, <1>1 DEF InOrder, BurstBounded
<1>5. \E q \in Nat : Slides(q)'
  <2>1. CASE times' = times
    BY <2>1, <1>1, <1>3 DEF Slides
  <2>2. CASE times' # times
    <3>1. times' = << >> /\ times[Len(times)] + W <= now
      <4>1. times[Len(times)] \in Nat
        BY <1>2
      <4> QED BY <2>2, <4>1, <1>1, <1>2
    <3>2. p + Len(times) = n /\ times[Len(times)] = admitted[Node][n] /\ n \in 1 .. n
      <4>1. p + Len(times) = n /\ Len(times) \in 1 .. Len(times)
        BY <1>2, <1>3 DEF Slides
      <4>2. times[Len(times)] = admitted[Node][p + Len(times)]
        BY <4>1, <1>3 DEF Slides
      <4> QED BY <4>1, <4>2, <1>2
    <3>3. \A i \in 1 .. n : admitted[Node][i] <= admitted[Node][n]
      BY <1>2, <3>2 DEF InOrder
    <3>4. \A i \in 1 .. n : admitted[Node][i] + W <= now
      <4> SUFFICES ASSUME NEW i \in 1 .. n PROVE admitted[Node][i] + W <= now
        OBVIOUS
      <4>1. PICK x \in Nat, y \in Nat : x = admitted[Node][i] /\ y = admitted[Node][n]
        BY <1>2, <3>2
      <4>2. x <= y /\ y + W <= now
        BY <4>1, <3>1, <3>2, <3>3
      <4>3. x + W <= now
        BY <4>2, <1>2
      <4> QED BY <4>1, <4>3
    <3>5. n + Len(times') = n /\ Len(times') = 0
      BY <3>1, <1>2
    <3>6. Slides(n)'
      BY <3>4, <3>5, <1>1 DEF Slides
    <3> QED BY <3>6, <1>2
  <2> QED BY <2>1, <2>2
<1> QED BY <1>1, <1>4, <1>5 DEF FixedWindows, SlidingWindow

LEMMA ForgetHolds ==
    ASSUME LimiterIInv, Forget PROVE LimiterIInv'
<1> USE LimiterAssumption DEF LimiterIInv
<1>1. /\ store = "sliding" /\ UNCHANGED <<store, now, counters, lastSweep, caller>>
      /\ times' = << >> /\ admitted' = [admitted EXCEPT ![Node] = << >>]
  BY DEF Forget
<1>2. /\ admitted' \in [Askers -> Seq(Nat)] /\ admitted'[Node] = << >>
      /\ \A a \in Askers : a # Node => admitted'[a] = admitted[a]
  BY <1>1, BucketIsAsker DEF LimiterTyped
<1>3. LimiterTyped' /\ InOrder' /\ BurstBounded'
  <2>1. LimiterTyped'
    BY <1>1, <1>2 DEF LimiterTyped
  <2>2. \A a \in Askers : admitted'[a] = admitted[a] \/ admitted'[a] = << >>
    BY <1>2
  <2>3. InOrder' /\ BurstBounded'
    BY <1>1, <2>2 DEF InOrder, BurstBounded
  <2> QED BY <2>1, <2>3
<1>4. Slides(0)'
  BY <1>1, <1>2 DEF Slides
<1> QED BY <1>1, <1>2, <1>3, <1>4 DEF FixedWindows, SlidingWindow

LEMMA PassHolds ==
    ASSUME LimiterIInv, Pass PROVE LimiterIInv'
<1> USE LimiterAssumption DEF LimiterIInv
<1>1. /\ UNCHANGED <<store, lastSweep, caller, times, admitted>>
      /\ now \in Nat /\ now' = now + 1
      /\ \A x \in DOMAIN counters' : x \in DOMAIN counters /\ counters'[x] = counters[x]
      /\ counters' = [x \in DOMAIN counters' |-> counters'[x]]
      /\ store # "redis" => counters' = counters
      /\ store = "redis" => \A x \in DOMAIN counters :
           x \in DOMAIN counters' \/ (counters[x].since # Never /\ ~(counters[x].since > now + 1))
  BY DEF Pass, Keep, LimiterTyped
<1>2. \A x \in DOMAIN counters : counters[x].since \in Int
  BY DEF LimiterTyped, Count
<1>3. \A a \in Askers : Window[a[1]] \in Nat
  BY WindowOf
<1>4. LimiterTyped'
  <2>1. counters' \in [DOMAIN counters' -> Count] /\ DOMAIN counters' \subseteq RateBuckets
    BY <1>1 DEF LimiterTyped
  <2> QED BY <2>1, <1>1 DEF LimiterTyped
<1>5. InOrder'
  <2>1. \A a \in Askers : \A i \in 1 .. Len(admitted[a]) : admitted[a][i] \in Nat
    BY DEF LimiterTyped
  <2>2. ASSUME NEW a \in Askers, NEW i \in 1 .. Len(admitted[a])
        PROVE  admitted[a][i] <= now'
    <3>1. admitted[a][i] \in Nat /\ admitted[a][i] <= now
      BY <2>1, <2>2 DEF InOrder
    <3> QED BY <3>1, <1>1
  <2> QED BY <1>1, <2>2 DEF InOrder
<1>6. BurstBounded'
  BY <1>1 DEF BurstBounded
<1>7. FixedWindows'
  <2> SUFFICES ASSUME store # "sliding", NEW a \in Askers
        PROVE  \E p \in Nat, start \in Int : Epoch(a, p, start)'
    BY <1>1 DEF FixedWindows
  <2>1. PICK p \in Nat, start \in Int : Epoch(a, p, start)
    BY DEF FixedWindows
  <2>2. Counting(a)' => Counting(a) /\ counters'[a] = counters[a]
    BY <1>1, <1>2, <1>3 DEF Counting
  <2>3. ~Counting(a)' => start + Window[a[1]] <= now'
    <3> SUFFICES ASSUME ~Counting(a)' PROVE start + Window[a[1]] <= now'
      OBVIOUS
    <3>1. CASE ~Counting(a)
      BY <3>1, <2>1, <1>1, <1>3 DEF Epoch
    <3>2. CASE Counting(a) /\ store = "memory"
      <4>1. a \in DOMAIN counters /\ start <= counters[a].since
        BY <3>2, <2>1 DEF Epoch, Counting
      <4>2. now + 1 - counters[a].since >= Window[a[1]]
        BY <3>2, <4>1, <1>1, <1>2, <1>3 DEF Counting
      <4>3. PICK x \in Int, w \in Nat : x = counters[a].since /\ w = Window[a[1]]
        BY <4>1, <1>2, <1>3
      <4>4. start <= x /\ now + 1 - x >= w
        BY <4>1, <4>2, <4>3, Zenon
      <4>5. start + w <= now + 1
        BY <4>4, <1>1
      <4> QED BY <4>3, <4>5, <1>1, Zenon
    <3>3. CASE Counting(a) /\ store = "redis"
      <4>1. a \in DOMAIN counters /\ a \notin DOMAIN counters'
        BY <3>3, <1>1 DEF Counting
      <4>2. counters[a].since # Never /\ counters[a].since <= now + 1
        BY <3>3, <4>1, <1>1, <1>2
      <4>3. start + Window[a[1]] <= counters[a].since
        BY <3>3, <4>2, <2>1 DEF Epoch
      <4>4. PICK x \in Int, w \in Nat : x = counters[a].since /\ w = Window[a[1]]
        BY <4>1, <1>2, <1>3
      <4>5. start + w <= x /\ x <= now + 1
        BY <4>2, <4>3, <4>4, Zenon
      <4>6. start + w <= now + 1
        BY <4>5, <1>1
      <4> QED BY <4>4, <4>6, <1>1, Zenon
    <3> QED BY <3>1, <3>2, <3>3 DEF LimiterTyped
  <2>4. start <= now'
    BY <2>1, <1>1 DEF Epoch
  <2>5. Epoch(a, p, start)'
    <3>1. CASE Counting(a)'
      <4>1. store = "memory" => counters[a].since <= now
        BY <3>1, <2>1, <2>2 DEF Epoch
      <4>2. store = "memory" => counters[a].since <= now'
        BY <3>1, <2>2, <4>1, <1>1, <1>2 DEF Counting
      <4> QED BY <3>1, <2>1, <2>2, <2>4, <4>2, <1>1 DEF Epoch
    <3>2. CASE ~Counting(a)'
      BY <3>2, <2>1, <2>3, <2>4, <1>1 DEF Epoch
    <3> QED BY <3>1, <3>2
  <2> QED BY <2>5
<1>8. SlidingWindow'
  <2> SUFFICES ASSUME store = "sliding" PROVE SlidingWindow'
    BY <1>1 DEF SlidingWindow
  <2>1. PICK p \in Nat : Slides(p)
    BY DEF SlidingWindow
  <2>2. p <= Len(admitted[Node]) /\ admitted[Node] \in Seq(Nat)
    <3>1. admitted[Node] \in Seq(Nat) /\ Len(times) \in Nat
      BY BucketIsAsker DEF LimiterTyped
    <3>2. p + Len(times) = Len(admitted[Node])
      BY <2>1 DEF Slides
    <3> QED BY <3>1, <3>2
  <2>3. ASSUME NEW i \in 1 .. p PROVE admitted[Node][i] + Window["login"] <= now + 1
    <3>1. admitted[Node][i] \in Nat /\ Window["login"] \in Nat
      BY <2>2 DEF Routes
    <3>2. admitted[Node][i] + Window["login"] <= now
      BY <2>1 DEF Slides
    <3> QED BY <3>1, <3>2, <1>1
  <2>4. Slides(p)'
    BY <2>1, <2>3, <1>1 DEF Slides
  <2> QED BY <2>4, <1>1 DEF SlidingWindow
<1> QED BY <1>4, <1>5, <1>6, <1>7, <1>8

-------------------------------------------------------------------------------
LEMMA LimiterStep == LimiterIInv /\ [LimiterNext]_limiterVars => LimiterIInv'
<1> SUFFICES ASSUME LimiterIInv, [LimiterNext]_limiterVars PROVE LimiterIInv'
  OBVIOUS
<1>1. ASSUME NEW r \in Requests, Forbidden(r) PROVE LimiterIInv'
  BY <1>1, ForbiddenHolds
<1>2. ASSUME NEW r \in Requests, MemoryCheck(r) PROVE LimiterIInv'
  BY <1>2, MemoryCheckHolds
<1>3. ASSUME NEW r \in Requests, RedisDown(r) PROVE LimiterIInv'
  BY <1>3, RedisDownHolds
<1>4. ASSUME NEW r \in Requests, NEW c \in Callers, RedisIncr(c, r) PROVE LimiterIInv'
  BY <1>4, RedisIncrHolds
<1>5. ASSUME NEW c \in Callers, RedisExpire(c) PROVE LimiterIInv'
  BY <1>5, RedisExpireHolds
<1>6. ASSUME NEW c \in Callers, RedisExpireLost(c) PROVE LimiterIInv'
  BY <1>6, RedisExpireLostHolds
<1>7. CASE Allow
  BY <1>7, AllowHolds
<1>8. CASE SweepWindows
  BY <1>8, SweepWindowsHolds
<1>9. CASE Pass
  BY <1>9, PassHolds
<1>10. CASE UNCHANGED limiterVars
  <2>1. UNCHANGED <<store, now, counters, lastSweep, caller, times, admitted>>
    BY <1>10 DEF limiterVars
  <2> QED BY <2>1 DEF LimiterIInv, LimiterTyped, InOrder, FixedWindows, Epoch, Counting,
                      SlidingWindow, Slides, BurstBounded
<1>11. CASE Forget
  BY <1>11, ForgetHolds
<1> QED BY <1>1, <1>2, <1>3, <1>4, <1>5, <1>6, <1>7, <1>8, <1>9, <1>10, <1>11 DEF LimiterNext

\* Any 2 * Limit + 1 requests of an asker that a route counts and lets through
\* span at least its window, and any Limit + 1 of a node between two ends of its
\* sockets: Limiter::check and NodeRateLimiter, for every limit, window, sweep and
\* number of callers.
THEOREM BurstsBounded == LimiterSpec => []BurstBounded
<1>1. LimiterInit => LimiterIInv
  BY LimiterInitIInv
<1>2. LimiterIInv /\ [LimiterNext]_limiterVars => LimiterIInv'
  BY LimiterStep
<1>3. LimiterIInv => BurstBounded
  BY DEF LimiterIInv
<1> QED BY <1>1, <1>2, <1>3, PTL DEF LimiterSpec

-------------------------------------------------------------------------------
\* In memory, what a window has counted was let through in it, as far as the limit.
Spent ==
    store = "memory" => \A a \in Askers : Counting(a) =>
        \E q \in 0 .. Len(admitted[a]) :
            /\ \A i \in q + 1 .. Len(admitted[a]) : admitted[a][i] >= counters[a].since
            /\ counters[a].count <= Limit => Len(admitted[a]) - q >= counters[a].count
            /\ counters[a].count > Limit => Len(admitted[a]) - q >= Limit

LEMMA EnoughOf ==
    ASSUME NEW n \in Nat, NEW q \in 0 .. n, NEW k \in Nat, n - q >= k,
           NEW S \in SUBSET (1 .. n), q + 1 .. n \subseteq S
    PROVE  Cardinality(S) >= k
<1>1. IsFiniteSet(1 .. n)
  BY FS_Interval
<1>2. IsFiniteSet(S) /\ Cardinality(S) \in Nat
  BY <1>1, FS_Subset, FS_CardinalityType
<1>3. Cardinality(q + 1 .. n) <= Cardinality(S)
  BY <1>2, FS_Subset
<1>4. Cardinality(q + 1 .. n) = n - q
  <2>1. q + 1 \in Int /\ n \in Int
    OBVIOUS
  <2>2. Cardinality(q + 1 .. n) = IF q + 1 > n THEN 0 ELSE n - (q + 1) + 1
    BY <2>1, FS_Interval
  <2> QED BY <2>2
<1> QED BY <1>2, <1>3, <1>4

\* A step that lets nobody through and turns nobody away as one too many.
LEMMA NobodyRefused ==
    ASSUME RefusedOnlyAtLimit, UNCHANGED store,
           limitVerdict'.status # 429 \/ UNCHANGED <<limitVerdict, admitted, now>>
    PROVE  RefusedOnlyAtLimit'
BY DEF RefusedOnlyAtLimit

\* An asker that is turned away had spent the limit.
LEMMA SpentFor ==
    ASSUME NEW a, limitVerdict'.asker = a, UNCHANGED <<admitted, now>>,
           Cardinality({i \in DOMAIN admitted[a] : now - admitted[a][i] < Window[a[1]]}) >= Limit
    PROVE  RefusedOnlyAtLimit'
BY DEF RefusedOnlyAtLimit

LEMMA MemoryCheckSpends ==
    ASSUME LimiterIInv, Spent, NEW r \in Requests, MemoryCheck(r)
    PROVE  Spent' /\ RefusedOnlyAtLimit'
<1> USE LimiterAssumption DEF LimiterIInv
<1>1. PICK a \in Askers : a = Asker(r)
  BY BucketIsAsker
<1>2. /\ store = "memory" /\ UNCHANGED <<store, now>>
      /\ counters' \in [DOMAIN counters' -> Count]
      /\ Counting(a)'
      /\ counters'[a].count = (IF Counting(a) THEN counters[a].count ELSE 0) + 1
      /\ counters'[a].since = IF Counting(a) THEN counters[a].since ELSE now
      /\ Answer(a, IF counters'[a].count <= Limit THEN 200 ELSE 429)
      /\ \A b \in Askers : b # a => (Counting(b)' => Counting(b) /\ counters'[b] = counters[b])
  BY <1>1, MemoryCheckCounts
<1> DEFINE n == Len(admitted[a])
<1>3. /\ n \in Nat /\ now \in Nat /\ admitted \in [Askers -> Seq(Nat)]
      /\ \A i \in 1 .. n : admitted[a][i] \in Nat
  <2>1. admitted[a] \in Seq(Nat) /\ now \in Nat
    BY DEF LimiterTyped
  <2> QED BY <2>1 DEF LimiterTyped
<1>4. counters'[a].count \in Nat /\ counters'[a].since \in Int /\ counters'[a].since <= now
  <2>1. a \in DOMAIN counters'
    BY <1>2 DEF Counting
  <2>2. counters'[a] \in Count
    BY <2>1, <1>2
  <2>3. counters'[a].since <= now
    <3>1. CASE Counting(a)
      <4>1. PICK p \in Nat, start \in Int : Epoch(a, p, start)
        BY <1>2 DEF FixedWindows
      <4> QED BY <3>1, <4>1, <1>2 DEF Epoch
    <3>2. CASE ~Counting(a)
      BY <3>2, <1>2, <1>3
    <3> QED BY <3>1, <3>2
  <2> QED BY <2>2, <2>3 DEF Count
<1>5. PICK q \in 0 .. n :
        /\ \A i \in q + 1 .. n : admitted[a][i] >= counters'[a].since
        /\ counters'[a].count <= Limit => n - q + 1 >= counters'[a].count
        /\ counters'[a].count > Limit => n - q >= Limit
  <2>1. CASE Counting(a)
    <3>1. PICK q \in 0 .. n :
            /\ \A i \in q + 1 .. n : admitted[a][i] >= counters[a].since
            /\ counters[a].count <= Limit => n - q >= counters[a].count
            /\ counters[a].count > Limit => n - q >= Limit
      BY <2>1, <1>2 DEF Spent
    <3>2. PICK k \in Nat : k = counters[a].count
      BY <2>1, BucketIsAsker DEF Counting, LimiterTyped, Count
    <3>3. /\ counters'[a].count <= Limit => n - q + 1 >= counters'[a].count
          /\ counters'[a].count > Limit => n - q >= Limit
      <4> HIDE DEF n
      <4>1. counters'[a].count = k + 1
        BY <2>1, <3>2, <1>2
      <4> QED BY <4>1, <3>1, <3>2, <1>3
    <3> QED BY <2>1, <3>1, <3>3, <1>2
  <2>2. CASE ~Counting(a)
    <3>1. counters'[a].count = 1
      BY <2>2, <1>2
    <3>2. /\ n \in 0 .. n /\ \A i \in n + 1 .. n : admitted[a][i] >= counters'[a].since
          /\ counters'[a].count <= Limit => n - n + 1 >= counters'[a].count
          /\ counters'[a].count > Limit => n - n >= Limit
      BY <3>1, <1>3
    <3> QED BY <3>2
  <2> QED BY <2>1, <2>2
<1>6. CASE counters'[a].count <= Limit
  <2>1. /\ limitVerdict' = [asker |-> a, status |-> 200]
        /\ admitted' = [admitted EXCEPT ![a] = Append(@, now)]
    BY <1>2, <1>6 DEF Answer
  <2>2. /\ Len(admitted'[a]) = n + 1 /\ admitted'[a][n + 1] = now
        /\ \A i \in 1 .. n : admitted'[a][i] = admitted[a][i]
        /\ \A b \in Askers : b # a => admitted'[b] = admitted[b]
    <3>1. admitted'[a] = Append(admitted[a], now) /\ admitted[a] \in Seq(Nat)
      BY <2>1, <1>3
    <3>2. \A b \in Askers : b # a => admitted'[b] = admitted[b]
      BY <2>1, <1>3
    <3> QED BY <3>1, <3>2, <1>3, AppendProperties
  <2>3. q \in 0 .. n + 1 /\ n + 1 - q >= counters'[a].count
    BY <1>3, <1>5, <1>6
  <2>4. \A i \in q + 1 .. n + 1 : admitted'[a][i] >= counters'[a].since
    <3> SUFFICES ASSUME NEW i \in q + 1 .. n + 1 PROVE admitted'[a][i] >= counters'[a].since
      OBVIOUS
    <3>1. CASE i = n + 1
      BY <3>1, <2>2, <1>3, <1>4
    <3>2. CASE i # n + 1
      <4>1. i \in q + 1 .. n /\ i \in 1 .. n
        BY <3>2, <1>3
      <4> QED BY <4>1, <2>2, <1>5
    <3> QED BY <3>1, <3>2
  <2>5. Spent'
    <3> SUFFICES ASSUME NEW b \in Askers, Counting(b)'
          PROVE  \E m \in 0 .. Len(admitted'[b]) :
                   /\ \A i \in m + 1 .. Len(admitted'[b]) :
                        admitted'[b][i] >= counters'[b].since
                   /\ counters'[b].count <= Limit =>
                        Len(admitted'[b]) - m >= counters'[b].count
                   /\ counters'[b].count > Limit => Len(admitted'[b]) - m >= Limit
      BY DEF Spent
    <3>1. CASE b = a
      <4>1. ~(counters'[a].count > Limit)
        BY <1>4, <1>6
      <4>2. /\ q \in 0 .. Len(admitted'[a])
            /\ \A i \in q + 1 .. Len(admitted'[a]) : admitted'[a][i] >= counters'[a].since
            /\ Len(admitted'[a]) - q >= counters'[a].count
        BY <2>2, <2>3, <2>4
      <4> QED BY <3>1, <4>1, <4>2, Zenon
    <3>2. CASE b # a
      <4>1. Counting(b) /\ counters'[b] = counters[b] /\ admitted'[b] = admitted[b]
        BY <3>2, <2>2, <1>2
      <4> QED BY <4>1, <1>2 DEF Spent
    <3> QED BY <3>1, <3>2
  <2>6. limitVerdict'.status # 429
    BY <2>1
  <2> QED BY <2>5, <2>6 DEF RefusedOnlyAtLimit
<1>7. CASE ~(counters'[a].count <= Limit)
  <2>1. limitVerdict' = [asker |-> a, status |-> 429] /\ admitted' = admitted
    BY <1>2, <1>7 DEF Answer
  <2>2. n - q >= Limit
    BY <1>4, <1>5, <1>7
  <2>3. Spent'
    BY <2>1, <2>2, <1>2, <1>5, <1>7 DEF Spent
  <2>4. Window[a[1]] \in Nat /\ now - counters'[a].since < Window[a[1]]
    BY <1>2, WindowOf DEF Counting
  <2>5. \A i \in q + 1 .. n : now - admitted[a][i] < Window[a[1]]
    <3> SUFFICES ASSUME NEW i \in q + 1 .. n PROVE now - admitted[a][i] < Window[a[1]]
      OBVIOUS
    <3>1. admitted[a][i] \in Nat /\ admitted[a][i] >= counters'[a].since
      BY <1>3, <1>5
    <3>2. PICK x \in Nat, y \in Int, w \in Nat :
            x = admitted[a][i] /\ y = counters'[a].since /\ w = Window[a[1]]
      BY <3>1, <2>4, <1>4
    <3>3. x >= y /\ now - y < w
      BY <3>1, <3>2, <2>4
    <3>4. now - x < w
      BY <3>3, <1>3
    <3> QED BY <3>2, <3>4
  <2>6. Cardinality({i \in 1 .. n : now - admitted[a][i] < Window[a[1]]}) >= Limit
    <3> DEFINE S == {i \in 1 .. n : now - admitted[a][i] < Window[a[1]]}
    <3>1. S \in SUBSET (1 .. n) /\ q + 1 .. n \subseteq S
      BY <2>5, <1>3
    <3> HIDE DEF n, S
    <3>2. Cardinality(S) >= Limit
      BY <3>1, <2>2, <1>3, EnoughOf
    <3> QED BY <3>2 DEF S
  <2>7. DOMAIN admitted[a] = 1 .. n
    BY <1>3
  <2>8. limitVerdict'.asker = a
    BY <2>1
  <2>9. Cardinality({i \in DOMAIN admitted[a] : now - admitted[a][i] < Window[a[1]]}) >= Limit
    BY <2>6, <2>7
  <2> QED BY <2>1, <2>3, <2>8, <2>9, <1>2, SpentFor
<1> QED BY <1>6, <1>7

LEMMA AllowSpends ==
    ASSUME LimiterIInv, Allow PROVE RefusedOnlyAtLimit'
<1> USE LimiterAssumption DEF LimiterIInv
<1> DEFINE n == Len(admitted[Node])
           W == Window["login"]
<1>1. PICK aged \in 0 .. Len(times) :
        LET kept == SubSeq(times, aged + 1, Len(times))
            ok   == Len(kept) < Limit
        IN /\ \A i \in 1 .. aged : now - times[i] >= Window["login"]
           /\ aged < Len(times) => now - times[aged + 1] < Window["login"]
           /\ times' = IF ok THEN Append(kept, now) ELSE kept
           /\ Answer(Node, IF ok THEN 200 ELSE 429)
  BY DEF Allow
<1>2. /\ store = "sliding" /\ UNCHANGED <<store, now>>
      /\ now \in Nat /\ times \in Seq(Nat) /\ Len(times) \in Nat
      /\ Node \in Askers /\ Node[1] = "login" /\ W \in Nat
      /\ admitted[Node] \in Seq(Nat) /\ n \in Nat
      /\ \A i \in 1 .. n : admitted[Node][i] \in Nat
  <2>1. Node \in Askers /\ Node[1] = "login" /\ W \in Nat
    BY BucketIsAsker DEF Node, Routes
  <2>2. store = "sliding" /\ UNCHANGED <<store, now>>
    BY DEF Allow
  <2>3. admitted[Node] \in Seq(Nat) /\ now \in Nat /\ times \in Seq(Nat)
    BY <2>1 DEF LimiterTyped
  <2>4. n \in Nat /\ \A i \in 1 .. n : admitted[Node][i] \in Nat
    BY <2>3
  <2> QED BY <2>1, <2>2, <2>3, <2>4
<1>3. PICK p \in Nat : Slides(p)
  BY <1>2 DEF SlidingWindow
<1>4. p + Len(times) = n /\ \A i \in 1 .. Len(times) : times[i] = admitted[Node][p + i]
  BY <1>3 DEF Slides
<1>5. Len(SubSeq(times, aged + 1, Len(times))) = Len(times) - aged
  <2>1. aged + 1 \in 1 .. Len(times) + 1 /\ Len(times) \in aged .. Len(times)
    BY <1>2
  <2> QED BY <2>1, <1>2, SubSeqProperties
<1>6. CASE Len(times) - aged < Limit
  <2>1. limitVerdict' = [asker |-> Node, status |-> 200]
    BY <1>1, <1>5, <1>6 DEF Answer
  <2>2. limitVerdict'.status # 429
    BY <2>1
  <2> QED BY <2>2 DEF RefusedOnlyAtLimit
<1>7. CASE ~(Len(times) - aged < Limit)
  <2>1. limitVerdict' = [asker |-> Node, status |-> 429] /\ admitted' = admitted
    BY <1>1, <1>5, <1>7 DEF Answer
  <2>2. \A i \in p + aged + 1 .. n : now - admitted[Node][i] < W
    <3> SUFFICES ASSUME NEW i \in p + aged + 1 .. n PROVE now - admitted[Node][i] < W
      OBVIOUS
    <3>1. /\ aged < Len(times) /\ aged + 1 \in 1 .. Len(times)
          /\ p + (aged + 1) = p + aged + 1 /\ p + aged + 1 \in 1 .. n /\ i \in 1 .. n
      <4>1. PICK m \in Nat : m = Len(times) /\ p + m = n
        BY <1>2, <1>4
      <4>2. aged \in 0 .. m
        BY <4>1
      <4> HIDE DEF n
      <4>3. /\ aged < m /\ aged + 1 \in 1 .. m /\ p + (aged + 1) = p + aged + 1
            /\ p + aged + 1 \in 1 .. n /\ i \in 1 .. n
        BY <4>1, <4>2
      <4> QED BY <4>1, <4>3
    <3>2. now - times[aged + 1] < W /\ times[aged + 1] = admitted[Node][p + aged + 1]
      BY <3>1, <1>1, <1>4
    <3>3. admitted[Node][p + aged + 1] <= admitted[Node][i]
      <4>1. \A j, k \in 1 .. n : j <= k => admitted[Node][j] <= admitted[Node][k]
        BY <1>2 DEF InOrder
      <4>2. p + aged + 1 <= i
        OBVIOUS
      <4> HIDE DEF n
      <4> QED BY <3>1, <4>1, <4>2
    <3>4. PICK x, y \in Nat : x = admitted[Node][p + aged + 1] /\ y = admitted[Node][i]
      BY <3>1, <1>2
    <3>5. now - x < W /\ x <= y
      BY <3>2, <3>3, <3>4
    <3>6. now - y < W
      BY <3>5, <1>2
    <3> QED BY <3>4, <3>6
  <2>3. p + aged \in 0 .. n /\ n - (p + aged) >= Limit
    BY <1>2, <1>4, <1>7
  <2>4. Cardinality({i \in 1 .. n : now - admitted[Node][i] < W}) >= Limit
    <3> DEFINE S == {i \in 1 .. n : now - admitted[Node][i] < W}
               m == p + aged
    <3>1. S \in SUBSET (1 .. n) /\ m + 1 .. n \subseteq S
      BY <2>2, <2>3, <1>2
    <3>2. m \in 0 .. n /\ n - m >= Limit
      BY <2>3
    <3> HIDE DEF n, S, m
    <3>3. Cardinality(S) >= Limit
      BY <3>1, <3>2, <1>2, EnoughOf
    <3> QED BY <3>3 DEF S
  <2>5. DOMAIN admitted[Node] = 1 .. n
    BY <1>2
  <2>6. Cardinality({i \in DOMAIN admitted[Node] : now - admitted[Node][i] < Window[Node[1]]})
          >= Limit
    BY <2>4, <2>5, <1>2
  <2>7. limitVerdict'.asker = Node
    BY <2>1
  <2> QED BY <2>1, <2>6, <2>7, <1>2, SpentFor
<1> QED BY <1>6, <1>7

LEMMA RefusalStep ==
    ASSUME LimiterIInv, Spent, RefusedOnlyAtLimit, [LimiterNext]_limiterVars
    PROVE  Spent' /\ RefusedOnlyAtLimit'
<1>1. ASSUME UNCHANGED <<store, admitted>>, store = "memory" => UNCHANGED <<now, counters>>
      PROVE  Spent'
  BY <1>1 DEF Spent, Counting
<1>2. ASSUME NEW r \in Requests, Forbidden(r) PROVE Spent' /\ RefusedOnlyAtLimit'
  <2>1. UNCHANGED <<store, admitted, now, counters>> /\ limitVerdict'.status # 429
    BY <1>2 DEF Forbidden, Answer
  <2> QED BY <2>1, <1>1, NobodyRefused
<1>3. ASSUME NEW r \in Requests, MemoryCheck(r) PROVE Spent' /\ RefusedOnlyAtLimit'
  BY <1>3, MemoryCheckSpends
<1>4. ASSUME NEW r \in Requests, RedisDown(r) PROVE Spent' /\ RefusedOnlyAtLimit'
  <2>1. UNCHANGED <<store, admitted, now>> /\ store = "redis" /\ limitVerdict'.status # 429
    BY <1>4 DEF RedisDown
  <2> QED BY <2>1, <1>1, NobodyRefused
<1>5. ASSUME NEW r \in Requests, NEW c \in Callers, RedisIncr(c, r)
      PROVE  Spent' /\ RefusedOnlyAtLimit'
  BY <1>5 DEF RedisIncr, Spent, RefusedOnlyAtLimit
<1>6. ASSUME NEW c \in Callers, RedisExpire(c) \/ RedisExpireLost(c)
      PROVE  Spent' /\ RefusedOnlyAtLimit'
  <2>1. UNCHANGED <<store, admitted, now, limitVerdict>>
    BY <1>6 DEF RedisExpire, RedisExpireLost
  <2>2. store = "redis"
    BY <1>6 DEF RedisExpire, RedisExpireLost, LimiterIInv, LimiterTyped
  <2> QED BY <2>1, <2>2, <1>1, NobodyRefused
<1>7. CASE Allow
  <2>1. Spent'
    BY <1>7 DEF Allow, Spent
  <2> QED BY <2>1, <1>7, AllowSpends
<1>8. CASE SweepWindows
  <2>1. UNCHANGED <<store, admitted, now, counters, limitVerdict>>
    BY <1>8 DEF SweepWindows
  <2> QED BY <2>1, <1>1, NobodyRefused
<1>9. CASE Pass
  <2>1. /\ UNCHANGED <<store, admitted>> /\ limitVerdict'.status # 429
        /\ store = "memory" => counters' = counters
        /\ now \in Nat /\ now' = now + 1
    BY <1>9 DEF Pass, NoAnswer, LimiterIInv, LimiterTyped
  <2>2. ASSUME store = "memory", NEW a \in Askers, Counting(a)' PROVE Counting(a)
    <3>1. a \in DOMAIN counters /\ now' - counters[a].since < Window[a[1]]
      <4>1. a \in DOMAIN counters' /\ now' - counters'[a].since < Window[a[1]]
        BY <2>1, <2>2 DEF Counting
      <4>2. counters' = counters
        BY <2>1, <2>2
      <4> QED BY <4>1, <4>2, <2>1
    <3>2. counters[a].since \in Int /\ Window[a[1]] \in Nat
      BY <3>1, WindowOf DEF LimiterIInv, LimiterTyped, Count
    <3> QED BY <2>1, <3>1, <3>2 DEF Counting
  <2>3. Spent'
    BY <2>1, <2>2 DEF Spent
  <2> QED BY <2>1, <2>3, NobodyRefused
<1>10. CASE UNCHANGED limiterVars
  <2>1. UNCHANGED <<store, admitted, now, counters, limitVerdict>>
    BY <1>10 DEF limiterVars
  <2> QED BY <2>1, <1>1, NobodyRefused
<1>11. CASE Forget
  BY <1>11 DEF Forget, Spent, RefusedOnlyAtLimit, NoAnswer
<1> QED BY <1>2, <1>3, <1>4, <1>5, <1>6, <1>7, <1>8, <1>9, <1>10, <1>11 DEF LimiterNext

\* Outside Redis nobody is turned away as one too many before the limit was spent,
\* within the window, by requests that were let through: those refused for who they
\* are cost the org nothing, and neither store counts a request that has aged.
THEOREM RefusalsAtLimit == LimiterSpec => []RefusedOnlyAtLimit
<1>1. LimiterInit => LimiterIInv /\ Spent /\ RefusedOnlyAtLimit
  <2>1. LimiterInit => Spent
    BY DEF LimiterInit, Spent, Counting
  <2>2. LimiterInit => RefusedOnlyAtLimit
    BY DEF LimiterInit, RefusedOnlyAtLimit, NoAnswer
  <2> QED BY <2>1, <2>2, LimiterInitIInv
<1>2. /\ LimiterIInv /\ Spent /\ RefusedOnlyAtLimit
      /\ [LimiterNext]_limiterVars
      => (LimiterIInv /\ Spent /\ RefusedOnlyAtLimit)'
  BY LimiterStep, RefusalStep
<1> QED BY <1>1, <1>2, PTL DEF LimiterSpec

-------------------------------------------------------------------------------
(* The sessions of a self-hosted install.                                  *)

SessionsTyped ==
    /\ secret \in Secrets /\ localTime \in Nat
    /\ lastPassword \in [Secrets -> Int] /\ lastIssue \in [Secrets -> Int]
    /\ \A s \in Secrets : lastIssue[s] <= localTime

\* A token was issued under its secret, after a login under it, and no later
\* than that secret last signed; who was let in holds one that is valid.
TokensIssued ==
    \A t \in tokens :
        /\ t.key \in Secrets /\ t.exp \in Int
        /\ lastPassword[t.key] >= 0 /\ t.exp <= lastIssue[t.key] + TokenTTL
LetIn == accepted \subseteq tokens /\ \A t \in accepted : ValidToken(t)

SessionIInv == SessionsTyped /\ TokensIssued /\ LetIn

\* One more token under the secret in force.
LEMMA TokenIssued ==
    ASSUME SessionIInv, NEW P \in [Secrets -> Int],
           P = lastPassword \/ P = [lastPassword EXCEPT ![secret] = localTime], P[secret] >= 0,
           lastPassword' = P, lastIssue' = [lastIssue EXCEPT ![secret] = localTime],
           tokens' = tokens \cup {NewToken}, UNCHANGED <<secret, localTime>>
    PROVE  SessionsTyped' /\ TokensIssued'
<1>1. TokenTTL \in Nat
  BY LocalAssumption
<1>2. SessionsTyped'
  BY DEF SessionIInv, SessionsTyped
<1>3. \A s \in Secrets : lastIssue[s] <= lastIssue'[s] /\ (lastPassword[s] >= 0 => P[s] >= 0)
  BY DEF SessionIInv, SessionsTyped
<1>4. NewToken.key = secret /\ NewToken.exp = localTime + TokenTTL
  BY DEF NewToken
<1>5. lastIssue'[secret] = localTime /\ secret \in Secrets /\ localTime \in Nat
  BY DEF SessionIInv, SessionsTyped
<1>6. ASSUME NEW t \in tokens
      PROVE  /\ t.key \in Secrets /\ t.exp \in Int
             /\ P[t.key] >= 0 /\ t.exp <= lastIssue'[t.key] + TokenTTL
  <2>1. /\ t.key \in Secrets /\ t.exp \in Int
        /\ lastPassword[t.key] >= 0 /\ t.exp <= lastIssue[t.key] + TokenTTL
    BY DEF SessionIInv, TokensIssued
  <2>2. lastIssue[t.key] \in Int /\ lastIssue'[t.key] \in Int
    BY <1>2, <2>1 DEF SessionIInv, SessionsTyped
  <2> QED BY <1>1, <1>3, <2>1, <2>2
<1> QED BY <1>1, <1>2, <1>4, <1>5, <1>6 DEF TokensIssued

LEMMA SessionStep == SessionIInv /\ [LocalNext]_localVars => SessionIInv'
<1> SUFFICES ASSUME SessionIInv, [LocalNext]_localVars PROVE SessionIInv'
  OBVIOUS
<1>1. CASE UNCHANGED localVars
  BY <1>1 DEF localVars, SessionIInv, SessionsTyped, TokensIssued, LetIn, ValidToken
<1>2. CASE LoginLocal
  <2> DEFINE P == [lastPassword EXCEPT ![secret] = localTime]
  <2>1. P \in [Secrets -> Int] /\ P[secret] >= 0
    BY DEF SessionIInv, SessionsTyped
  <2>2. SessionsTyped' /\ TokensIssued'
    BY <1>2, <2>1, TokenIssued DEF LoginLocal
  <2> QED BY <1>2, <2>2 DEF LoginLocal, SessionIInv, LetIn
<1>3. ASSUME NEW t \in tokens, RefreshLocal(t) PROVE SessionIInv'
  <2>1. lastPassword \in [Secrets -> Int] /\ lastPassword[secret] >= 0
    BY <1>3 DEF SessionIInv, SessionsTyped, TokensIssued, RefreshLocal, ValidToken
  <2>2. SessionsTyped' /\ TokensIssued'
    BY <1>3, <2>1, TokenIssued DEF RefreshLocal
  <2> QED BY <1>3, <2>2 DEF RefreshLocal, SessionIInv, LetIn, ValidToken
<1>4. ASSUME NEW t \in tokens, LocalRequest(t) PROVE SessionIInv'
  BY <1>4 DEF LocalRequest, SessionIInv, SessionsTyped, TokensIssued, LetIn, ValidToken
<1>5. ASSUME NEW s \in Secrets, ChangeSecret(s) PROVE SessionIInv'
  BY <1>5 DEF ChangeSecret, SessionIInv, SessionsTyped, TokensIssued, LetIn
<1>6. CASE LocalTick
  BY <1>6 DEF LocalTick, SessionIInv, SessionsTyped, TokensIssued, LetIn
<1> QED BY <1>1, <1>2, <1>3, <1>4, <1>5, <1>6 DEF LocalNext

\* verify_token and refresh: whoever is let in holds a token by the secret in
\* force, under which somebody logged in, and which has signed within a token's
\* life and the leeway; for every lifetime, leeway and change of the secret.
THEOREM SessionsLapseAlways == LocalSpec => []SessionsLapse
<1>1. LocalInit => SessionIInv
  <2> SUFFICES ASSUME LocalInit PROVE SessionIInv
    OBVIOUS
  <2>1. NeverIssued \in Int /\ NeverIssued <= 0
    BY LocalAssumption DEF NeverIssued
  <2> QED BY <2>1 DEF LocalInit, SessionIInv, SessionsTyped, TokensIssued, LetIn
<1>2. SessionIInv => SessionsLapse
  <2> SUFFICES ASSUME SessionIInv, NEW t \in accepted
               PROVE  /\ lastPassword[secret] >= 0
                      /\ localTime - lastIssue[secret] <= TokenTTL + JwtLeeway
    BY DEF SessionsLapse
  <2>1. t.key = secret /\ t.exp >= localTime - JwtLeeway /\ t \in tokens
    BY DEF SessionIInv, LetIn, ValidToken
  <2>2. t.exp \in Int /\ lastPassword[secret] >= 0 /\ t.exp <= lastIssue[secret] + TokenTTL
    BY <2>1 DEF SessionIInv, TokensIssued
  <2>3. lastIssue[secret] \in Int /\ localTime \in Nat /\ TokenTTL \in Nat /\ JwtLeeway \in Nat
    BY LocalAssumption DEF SessionIInv, SessionsTyped
  <2> QED BY <2>1, <2>2, <2>3
<1> QED BY <1>1, <1>2, SessionStep, PTL DEF LocalSpec

===============================================================================
