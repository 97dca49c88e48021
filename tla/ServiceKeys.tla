----------------------------- MODULE ServiceKeys -----------------------------
(***************************************************************************)
(* The credentials a customer's own tools present, over their life: agent  *)
(* keys in sentinel_agent_keys, MCP and integration keys in mcp_api_keys,  *)
(* told apart by kind.  An admin mints, lists and revokes them; a program  *)
(* presents one; a deleted org's are erased.  Every request awaits the     *)
(* database between two of its statements, where the others run.           *)
(***************************************************************************)
EXTENDS FiniteSets

CONSTANTS
    KeyIds,         \* ids of rows; one is never used twice
    Desks,          \* requests of admins under way at once
    Programs        \* requests that present a key under way at once

VARIABLES
    keyStore,       \* id -> its row
    standing,       \* org -> what billing makes of it
    deskWork,       \* what each admin's request is at
    programWork,    \* what each presented key's request is at
    endedKeys         \* ghost: the keys whose revocation was answered

serviceVars == <<keyStore, standing, deskWork, programWork, endedKeys>>

KeyKinds     == {"agent", "mcp", "integration"}
KeyOrgs   == {"home", "other"}
Standings == {"good", "past_due", "unentitled"}
Unminted  == [org |-> "nobody", kind |-> "none", revoked |-> FALSE]
Erased    == [org |-> "nobody", kind |-> "erased", revoked |-> FALSE]
NoDesk    == [pc |-> "idle", org |-> "nobody", kind |-> "none", id |-> 0, revoked |-> FALSE]
NoProgram == [pc |-> "idle", org |-> "nobody", kind |-> "none", id |-> 0, late |-> FALSE]

ServiceInit ==
    /\ keyStore = [id \in KeyIds |-> Unminted]
    /\ standing = [o \in KeyOrgs |-> "good"]
    /\ deskWork = [a \in Desks |-> NoDesk]
    /\ programWork = [p \in Programs |-> NoProgram]
    /\ endedKeys = {}

Exists(id) == keyStore[id].kind \in KeyKinds

-----------------------------------------------------------------------------
(* Minting *)

\* RequireActiveBilling, and for an agent key the plan's access to Sentinel.
MayMint(o, kind) ==
    /\ standing[o] # "past_due"
    /\ kind = "agent" => standing[o] # "unentitled"

\* create_agent_key, create_mcp_key: the gates, ...
BeginMint(a, o, kind) ==
    /\ deskWork[a] = NoDesk
    /\ kind # "integration" /\ MayMint(o, kind)
    /\ deskWork' = [deskWork EXCEPT ![a] =
         [NoDesk EXCEPT !.pc = "insert", !.org = o, !.kind = kind]]
    /\ UNCHANGED <<keyStore, standing, programWork, endedKeys>>

\* ... then the row, under a hash no other key has.
InsertKey(a, id) ==
    /\ deskWork[a].pc = "insert"
    /\ keyStore[id] = Unminted
    /\ keyStore' = [keyStore EXCEPT ![id] =
         [org |-> deskWork[a].org, kind |-> deskWork[a].kind, revoked |-> FALSE]]
    /\ deskWork' = [deskWork EXCEPT ![a] = NoDesk]
    /\ UNCHANGED <<standing, programWork, endedKeys>>

\* create_integration_key is open to admins on every tier: one statement.
MintIntegrationKey(o, id) ==
    /\ keyStore[id] = Unminted
    /\ keyStore' = [keyStore EXCEPT ![id] =
         [org |-> o, kind |-> "integration", revoked |-> FALSE]]
    /\ UNCHANGED <<standing, deskWork, programWork, endedKeys>>

-----------------------------------------------------------------------------
(* Listing and revoking *)

\* list_agent_keys, list_keys: gated on neither plan nor payment.
ListedKeys(o, kind) ==
    {id \in KeyIds : /\ keyStore[id].org = o /\ keyStore[id].kind = kind
                     /\ ~keyStore[id].revoked}

\* The row a revocation reads: the admin's org and the route's kind, or a 404.
Revocable(o, kind, id) == keyStore[id].org = o /\ keyStore[id].kind = kind

\* revoke_agent_key, revoke: the read, ...
BeginRevoke(a, o, kind, id) ==
    /\ deskWork[a] = NoDesk
    /\ Exists(id) /\ Revocable(o, kind, id)
    /\ deskWork' = [deskWork EXCEPT ![a] =
         [pc |-> "revoke", org |-> o, kind |-> kind, id |-> id,
          revoked |-> keyStore[id].revoked]]
    /\ UNCHANGED <<keyStore, standing, programWork, endedKeys>>

\* ... and the UPDATE by id and org, of a row that was not revoked when read.
EndRevoke(a) ==
    LET desk == deskWork[a] IN
    /\ desk.pc = "revoke"
    /\ keyStore' = IF desk.revoked \/ keyStore[desk.id].org # desk.org THEN keyStore
                   ELSE [keyStore EXCEPT ![desk.id].revoked = TRUE]
    /\ endedKeys' = endedKeys \union {desk.id}
    /\ deskWork' = [deskWork EXCEPT ![a] = NoDesk]
    /\ UNCHANGED <<standing, programWork>>

\* The admin hangs up, or the statement fails.
AbandonDesk(a) ==
    /\ deskWork[a] # NoDesk
    /\ deskWork' = [deskWork EXCEPT ![a] = NoDesk]
    /\ UNCHANGED <<keyStore, standing, programWork, endedKeys>>

-----------------------------------------------------------------------------
(* Presenting *)

\* A key that was minted is presented on a route of some kind, its own or not.
Present(p, kind, id) ==
    /\ programWork[p] = NoProgram
    /\ keyStore[id] # Unminted
    /\ programWork' = [programWork EXCEPT ![p] =
         [NoProgram EXCEPT !.pc = "lookup", !.kind = kind, !.id = id,
                           !.late = id \in endedKeys]]
    /\ UNCHANGED <<keyStore, standing, deskWork, endedKeys>>

\* The lookup of a route by hash, kind and revoked = false.
Accepts(kind, id) == keyStore[id].kind = kind /\ ~keyStore[id].revoked

\* Mutant: the lookup does not filter on revoked.
LookUp_Revoked(p) ==
    LET call == programWork[p] IN
    /\ call.pc = "lookup"
    /\ programWork' = [programWork EXCEPT ![p] =
         IF keyStore[call.id].kind = call.kind
         THEN [call EXCEPT !.pc = "stamp", !.org = keyStore[call.id].org] ELSE NoProgram]
    /\ UNCHANGED <<keyStore, standing, deskWork, endedKeys>>

\* AgentPrincipal, IntegrationUser: the org comes from the row; else a 401.
LookUp(p) ==
    LET call == programWork[p] IN
    /\ call.pc = "lookup"
    /\ programWork' = [programWork EXCEPT ![p] =
         IF Accepts(call.kind, call.id)
         THEN [call EXCEPT !.pc = "stamp", !.org = keyStore[call.id].org] ELSE NoProgram]
    /\ UNCHANGED <<keyStore, standing, deskWork, endedKeys>>

\* last_used_at: best effort but for an integration key, whose request it fails.
StampUse(p) ==
    LET call == programWork[p] IN
    /\ call.pc = "stamp"
    /\ \E fails \in BOOLEAN :
         programWork' = [programWork EXCEPT ![p] =
             IF fails /\ call.kind = "integration" THEN NoProgram
             ELSE [call EXCEPT !.pc = "act"]]
    /\ UNCHANGED <<keyStore, standing, deskWork, endedKeys>>

\* The request is answered, for an agent with its own org's queue.
Serve(p) ==
    /\ programWork[p].pc = "act"
    /\ programWork' = [programWork EXCEPT ![p] = NoProgram]
    /\ UNCHANGED <<keyStore, standing, deskWork, endedKeys>>

-----------------------------------------------------------------------------
\* delete_org_data takes the keys of both tables in one transaction.
EraseKeysOf(o) ==
    /\ \E id \in KeyIds : keyStore[id].org = o
    /\ keyStore' = [id \in KeyIds |-> IF keyStore[id].org = o THEN Erased ELSE keyStore[id]]
    /\ endedKeys' = endedKeys \union {id \in KeyIds : keyStore[id].org = o}
    /\ UNCHANGED <<standing, deskWork, programWork>>

\* Billing moves an org on.
SetStanding(o, s) ==
    /\ standing[o] # s
    /\ standing' = [standing EXCEPT ![o] = s]
    /\ UNCHANGED <<keyStore, deskWork, programWork, endedKeys>>

ServiceNext ==
    \/ \E a \in Desks :
         \/ \E o \in KeyOrgs, kind \in KeyKinds :
              BeginMint(a, o, kind) \/ \E id \in KeyIds : BeginRevoke(a, o, kind, id)
         \/ \E id \in KeyIds : InsertKey(a, id)
         \/ EndRevoke(a) \/ AbandonDesk(a)
    \/ \E p \in Programs :
         \/ \E kind \in KeyKinds, id \in KeyIds : Present(p, kind, id)
         \/ LookUp(p) \/ StampUse(p) \/ Serve(p)
    \/ \E o \in KeyOrgs :
         \/ \E id \in KeyIds : MintIntegrationKey(o, id)
         \/ \E s \in Standings : SetStanding(o, s)
         \/ EraseKeysOf(o)

ServiceSpec == ServiceInit /\ [][ServiceNext]_serviceVars

-----------------------------------------------------------------------------
\* A request that acts began before any revocation or erasure of its key was
\* answered, and if its key is still stored acts for that key's org, on that
\* key's surface: whatever was revoked, erased or minted between its statements.
KeysActForTheirOrg ==
    \A p \in Programs : programWork[p].pc = "act" =>
        LET call == programWork[p] IN
        /\ ~call.late
        /\ Exists(call.id) => keyStore[call.id].org = call.org /\ keyStore[call.id].kind = call.kind

\* list_agent_keys: "an org that downgrades must still be able to see and revoke
\* credentials it already issued".  A key some route accepts is listed to its
\* own org's admins on its own surface, where they can revoke it, and to no one
\* else's.
WhatWorksIsListed ==
    \A kind \in KeyKinds, id \in KeyIds : Accepts(kind, id) =>
        \A o \in KeyOrgs, other \in KeyKinds :
            /\ id \in ListedKeys(o, other) <=> o = keyStore[id].org /\ other = kind
            /\ id \in ListedKeys(o, other) => Revocable(o, other, id)

=============================================================================
