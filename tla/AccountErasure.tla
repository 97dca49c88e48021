-------------------------- MODULE AccountErasure --------------------------
(***************************************************************************)
(* The ways an account and an organization disappear: the app's own        *)
(* account deletion, which works through Clerk and this database step by   *)
(* step and may fail after any of them, and the webhooks by which Clerk    *)
(* reports the same things, delivered late, out of order and more than     *)
(* once.                                                                   *)
(***************************************************************************)
EXTENDS Integers, FiniteSets

CONSTANTS
    Users, OrgIds,
    MaxMoves       \* bound on membership changes and failures

ASSUME ErasureAssumption == MaxMoves \in Nat

VARIABLES
    accounts,   \* Clerk: the accounts that exist
    orgsAtClerk,\* Clerk: the organizations that exist
    role,       \* Clerk: role[o][u], "none" once a membership ends
    hookBox,    \* webhooks Clerk will deliver until they succeed
    orgRows,    \* orgs with rows in the org-scoped tables
    orgNotes,   \* orgs with a membership notification written for them
    idRows,     \* users with rows that carry their id (and their address)
    mailRowsOf, \* users with rows that carry only their address
    deletion,   \* the deletion in progress of each user
    moves,      \* membership changes and failures so far
    missed,     \* ghost: a best-effort follow-up of a webhook failed
    raced       \* ghost: a membership changed while a deletion was in progress

erasureVars == <<accounts, orgsAtClerk, role, hookBox, orgRows, orgNotes,
                 idRows, mailRowsOf, deletion, moves, missed, raced>>

NoDeletion == [pc |-> "idle", orgs |-> {}, org |-> "none"]
MembersOf(o) == {u \in Users : role[o][u] # "none"}
AdminsOf(o)  == {u \in Users : role[o][u] = "admin"}
InProgress   == {u \in Users : deletion[u].pc # "idle"}

ErasureInit ==
    /\ accounts = Users /\ orgsAtClerk = OrgIds
    /\ role \in [OrgIds -> [Users -> {"none", "member", "admin"}]]
    /\ \A o \in OrgIds : AdminsOf(o) # {}
    /\ hookBox = {}
    /\ orgRows = OrgIds /\ orgNotes = {}
    /\ idRows = Users /\ mailRowsOf = Users
    /\ deletion = [u \in Users |-> NoDeletion]
    /\ moves = 0 /\ missed = FALSE /\ raced = FALSE

-----------------------------------------------------------------------------
(* Clerk *)

\* Webhooks for the memberships that end.
Ended(u, os) == {[kind |-> "membership", org |-> o, user |-> u] : o \in os}
OrgGone(o)   == {[kind |-> "organization", org |-> o, user |-> "none"]}
UserGone(u)  == {[kind |-> "user", org |-> "none", user |-> u]}

\* An account goes: every membership ends, each with its webhook.
ClerkDeletesUser(u) ==
    LET os == {o \in OrgIds : role[o][u] # "none"} IN
    /\ accounts' = accounts \ {u}
    /\ role' = [o \in OrgIds |-> [role[o] EXCEPT ![u] = "none"]]
    /\ hookBox' = hookBox \cup Ended(u, os) \cup UserGone(u)

ClerkDeletesOrg(o) ==
    /\ orgsAtClerk' = orgsAtClerk \ {o}
    /\ role' = [role EXCEPT ![o] = [u \in Users |-> "none"]]
    /\ hookBox' = hookBox \cup (IF o \in orgsAtClerk THEN OrgGone(o) ELSE {})

\* An admin removes or promotes somebody, or a member joins.
ChangeMember(o, u, r) ==
    /\ moves < MaxMoves
    /\ o \in orgsAtClerk /\ u \in accounts /\ role[o][u] # r
    /\ AdminsOf(o) \ {u} # {} \/ r = "admin"
    /\ role' = [role EXCEPT ![o][u] = r]
    /\ hookBox' = IF r = "none" THEN hookBox \cup Ended(u, {o}) ELSE hookBox
    /\ moves' = moves + 1
    /\ raced' = (raced \/ InProgress # {})
    /\ UNCHANGED <<accounts, orgsAtClerk, orgRows, orgNotes, idRows, mailRowsOf, deletion, missed>>

\* The account is deleted on Clerk's own screens.
DeletedAtClerk(u) ==
    /\ u \in accounts /\ moves < MaxMoves
    /\ \A o \in OrgIds : u \in AdminsOf(o) => AdminsOf(o) # {u} \/ MembersOf(o) = {u}
    /\ ClerkDeletesUser(u)
    /\ moves' = moves + 1
    /\ raced' = (raced \/ InProgress # {})
    /\ UNCHANGED <<orgsAtClerk, orgRows, orgNotes, idRows, mailRowsOf, deletion, missed>>

-----------------------------------------------------------------------------
(* delete_account *)

\* classify: the org goes with its last member, and an only admin with other
\* members has to hand over first.
Classify(o, u) ==
    IF MembersOf(o) \ {u} = {} THEN "deleted"
    ELSE IF u \in AdminsOf(o) /\ AdminsOf(o) \ {u} = {} THEN "blocking"
    ELSE "left"

\* plan: refused while some org is blocking; otherwise the orgs to delete.
PlanDeletion(u) ==
    LET mine == {o \in orgsAtClerk : role[o][u] # "none"} IN
    /\ deletion[u].pc = "idle" /\ u \in accounts
    /\ \A o \in mine : Classify(o, u) # "blocking"
    /\ deletion' = [deletion EXCEPT ![u] =
         [pc |-> "org", orgs |-> {o \in mine : Classify(o, u) = "deleted"}, org |-> "none"]]
    /\ UNCHANGED <<accounts, orgsAtClerk, role, hookBox, orgRows, orgNotes,
                   idRows, mailRowsOf, moves, raced, missed>>

\* clerk.delete_organization; NotFound is as good as done.
DeleteOrganization(u, o) ==
    /\ deletion[u].pc = "org" /\ o \in deletion[u].orgs
    /\ ClerkDeletesOrg(o)
    /\ raced' = (raced \/ MembersOf(o) \ {u} # {})
    /\ deletion' = [deletion EXCEPT ![u] =
         [pc |-> "erase", orgs |-> @.orgs \ {o}, org |-> o]]
    /\ UNCHANGED <<accounts, orgRows, orgNotes, idRows, mailRowsOf, moves, missed>>

\* erase_org: one transaction over every org-scoped table.
EraseOrg(o) ==
    /\ orgRows' = orgRows \ {o}
    /\ orgNotes' = orgNotes \ {o}

EraseStep(u) ==
    /\ deletion[u].pc = "erase"
    /\ EraseOrg(deletion[u].org)
    /\ deletion' = [deletion EXCEPT ![u].pc = "org", ![u].org = "none"]
    /\ UNCHANGED <<accounts, orgsAtClerk, role, hookBox, idRows, mailRowsOf, moves, raced, missed>>

\* clerk.delete_user, once every org of the plan is gone.
DeleteUser(u) ==
    /\ deletion[u].pc = "org" /\ deletion[u].orgs = {}
    /\ IF u \in accounts THEN ClerkDeletesUser(u) ELSE UNCHANGED <<accounts, role, hookBox>>
    /\ raced' = (raced \/ InProgress # {u})
    /\ deletion' = [deletion EXCEPT ![u].pc = "rows"]
    /\ UNCHANGED <<orgsAtClerk, orgRows, orgNotes, idRows, mailRowsOf, moves, missed>>

\* erase_user_data, with the addresses it was given: the rows by id, and the
\* rows by address if an address is known.
EraseUser(u, known) ==
    /\ idRows' = idRows \ {u}
    /\ mailRowsOf' = IF known THEN mailRowsOf \ {u} ELSE mailRowsOf

\* The addresses were read from Clerk before anything was deleted.
EraseUserStep(u) ==
    /\ deletion[u].pc = "rows"
    /\ EraseUser(u, TRUE)
    /\ deletion' = [deletion EXCEPT ![u] = NoDeletion]
    /\ UNCHANGED <<accounts, orgsAtClerk, role, hookBox, orgRows, orgNotes, moves, raced, missed>>

\* A Clerk call or a statement fails: the handler answers an error and stops.
DeletionFails(u) ==
    /\ deletion[u].pc # "idle" /\ moves < MaxMoves
    /\ moves' = moves + 1
    /\ deletion' = [deletion EXCEPT ![u] = NoDeletion]
    /\ UNCHANGED <<accounts, orgsAtClerk, role, hookBox, orgRows, orgNotes,
                   idRows, mailRowsOf, raced, missed>>

-----------------------------------------------------------------------------
(* The webhooks.  A handled delivery leaves the box; one that fails stays.  *)

\* Mutant: the rows are left to the deletion that removed the org.
OnOrganizationDeleted_KeepsRows(h) ==
    /\ h.kind = "organization"
    /\ hookBox' = hookBox \ {h}
    /\ UNCHANGED <<accounts, orgsAtClerk, role, orgRows, orgNotes, idRows, mailRowsOf,
                   deletion, moves, raced, missed>>

OnOrganizationDeleted(h) ==
    /\ h.kind = "organization"
    /\ EraseOrg(h.org)
    /\ hookBox' = hookBox \ {h}
    /\ UNCHANGED <<accounts, orgsAtClerk, role, idRows, mailRowsOf, deletion, moves, raced, missed>>

\* recorded_emails: an address is known only through rows that carry the id.
OnUserDeleted(h) ==
    /\ h.kind = "user"
    /\ EraseUser(h.user, h.user \in idRows)
    /\ hookBox' = hookBox \ {h}
    /\ UNCHANGED <<accounts, orgsAtClerk, role, orgRows, orgNotes, deletion, moves, raced, missed>>

\* erase_if_account_gone: only if Clerk says the account is gone, and best-effort.
EraseIfAccountGone(h, works) ==
    IF works /\ h.user \notin accounts
    THEN EraseUser(h.user, TRUE) ELSE UNCHANGED <<idRows, mailRowsOf>>

\* delete_org_if_empty: an org nobody is left in is deleted at Clerk.
DeleteOrgIfEmpty(h, works) ==
    IF works /\ h.org \in orgsAtClerk /\ MembersOf(h.org) = {}
    THEN /\ orgsAtClerk' = orgsAtClerk \ {h.org}
         /\ hookBox' = (hookBox \ {h}) \cup OrgGone(h.org)
    ELSE UNCHANGED orgsAtClerk /\ hookBox' = hookBox \ {h}

\* The notification first, then the two follow-ups; works: Clerk answers.
OnMembershipDeleted(h, works) ==
    /\ h.kind = "membership"
    /\ ~works => moves < MaxMoves
    /\ moves' = IF works THEN moves ELSE moves + 1
    /\ missed' = (missed \/ ~works)
    /\ orgNotes' = orgNotes \cup {h.org}
    /\ EraseIfAccountGone(h, works)
    /\ DeleteOrgIfEmpty(h, works)
    /\ UNCHANGED <<accounts, role, orgRows, deletion, raced>>

ErasureNext ==
    \/ \E o \in OrgIds, u \in Users, r \in {"none", "member", "admin"} : ChangeMember(o, u, r)
    \/ \E u \in Users :
         \/ DeletedAtClerk(u) \/ PlanDeletion(u) \/ EraseStep(u) \/ DeleteUser(u)
         \/ EraseUserStep(u) \/ DeletionFails(u)
         \/ \E o \in OrgIds : DeleteOrganization(u, o)
    \/ \E h \in hookBox :
         \/ OnOrganizationDeleted(h) \/ OnUserDeleted(h)
         \/ \E works \in BOOLEAN : OnMembershipDeleted(h, works)

ErasureSpec == ErasureInit /\ [][ErasureNext]_erasureVars

-----------------------------------------------------------------------------
Quiet == InProgress = {} /\ hookBox = {}

\* Whichever way an org disappeared, and wherever its deletion failed, once the
\* webhooks are through none of its rows is left; nor, for a deleted account,
\* any row that carries its id.
NothingLeftBehind ==
    Quiet => /\ orgRows \subseteq orgsAtClerk
             /\ idRows \subseteq accounts

\* An org nobody can open any more does not stay at Clerk: whoever left last,
\* and even if two members left at once, unless a best-effort check failed.
NoAbandonedOrg ==
    Quiet /\ ~missed => \A o \in orgsAtClerk : MembersOf(o) # {}

\* As long as no membership changes under a deletion in progress, deleting an
\* account takes no org from another member and leaves none without an admin.
OthersKeepTheirOrgs ==
    ~raced => \A o \in orgsAtClerk : MembersOf(o) # {} => AdminsOf(o) # {}

\* clerk_webhook.rs: every way an organization disappears reaches the same end
\* state, one in which the database holds nothing of it.
\* TLC refutes it: a membership webhook handled after the erasure writes its
\* notification under the org that is gone.
SameEndState == Quiet => orgRows \cup orgNotes \subseteq orgsAtClerk
=============================================================================
