------------------------------- MODULE Recipients -------------------------------
(***************************************************************************)
(* The directory of who is mailed: the members of an org as Clerk lists    *)
(* them, cached for CACHE_TTL per audience, and dropped when a membership  *)
(* webhook arrives.  The fetch is awaited between the look in the cache    *)
(* and the insertion.                                                      *)
(***************************************************************************)
EXTENDS Integers

CONSTANTS
    People, Reachable,  \* those whose identifier is an address
    Lookups,            \* mails being addressed at the same time
    CacheTTL,
    DirectoryTimeout,       \* how long a Clerk request can take
    MaxTime,            \* bound: the clock
    MaxChanges          \* bound: changes of membership

ASSUME ReachableAssumption == Reachable \subseteq People
ASSUME DurationAssumption == CacheTTL \in Nat /\ DirectoryTimeout \in Nat

Audiences == {"admin", "all"}
MemberRoles == {"none", "member", "admin"}

VARIABLES
    time,
    members,            \* Clerk: person -> role
    webhooks,           \* membership webhooks on their way
    directory,          \* the cache: audience -> [addrs, expires, read]; expires 0: none
    lookup,             \* [at, audience, addrs, read, since]
    invalidated         \* history: when invalidate_org last ran, and whether
                        \* a fetch was under way

directoryVars == <<time, members, webhooks, directory, lookup, invalidated>>

\* fetch_from_clerk: the addresses of an audience, from a membership list.
Addresses(audience, list) ==
    {p \in Reachable : IF audience = "admin" THEN list[p] = "admin"
                                             ELSE list[p] # "none"}

Nothing == [addrs |-> {}, expires |-> 0, read |-> 0]
IdleLookup == [at |-> "idle", audience |-> "all", addrs |-> {}, read |-> 0, since |-> 0]

DirectoryInit ==
    /\ time = 1 /\ webhooks = 0
    /\ members = [p \in People |-> "admin"]
    /\ directory = [a \in Audiences |-> Nothing]
    /\ lookup = [l \in Lookups |-> IdleLookup]
    /\ invalidated = [at |-> 0, clean |-> TRUE]

\* recipient_emails: from the cache while it is fresh.
LookInCache(l) ==
    /\ lookup[l].at = "idle"
    /\ \E a \in Audiences :
         lookup' = [lookup EXCEPT ![l] =
             IF directory[a].expires > time
             THEN [at |-> "done", audience |-> a, addrs |-> directory[a].addrs,
                   read |-> directory[a].read, since |-> time]
             ELSE [IdleLookup EXCEPT !.at = "asked", !.audience = a, !.since = time]]
    /\ UNCHANGED <<time, members, webhooks, directory, invalidated>>

\* Clerk answers, with the members as they are at that moment.
Fetch(l) ==
    /\ lookup[l].at = "asked"
    /\ lookup' = [lookup EXCEPT ![l].at = "fetched", ![l].read = time,
                                ![l].addrs = Addresses(lookup[l].audience, members)]
    /\ UNCHANGED <<time, members, webhooks, directory, invalidated>>

\* ... or does not: nobody is mailed, and nothing is cached.
DirectoryFails(l) ==
    /\ lookup[l].at \in {"asked", "fetched"}
    /\ lookup' = [lookup EXCEPT ![l] = IdleLookup]
    /\ UNCHANGED <<time, members, webhooks, directory, invalidated>>

Insert(l) ==
    /\ lookup[l].at = "fetched"
    /\ directory' = [directory EXCEPT ![lookup[l].audience] =
                   [addrs |-> lookup[l].addrs, expires |-> time + CacheTTL,
                    read |-> lookup[l].read]]
    /\ lookup' = [lookup EXCEPT ![l].at = "done"]
    /\ UNCHANGED <<time, members, webhooks, invalidated>>

Mailed(l) ==
    /\ lookup[l].at = "done"
    /\ lookup' = [lookup EXCEPT ![l] = IdleLookup]
    /\ UNCHANGED <<time, members, webhooks, directory, invalidated>>

\* Mutant: only the list of all members is dropped.
InvalidateOrg_OneAudience ==
    /\ webhooks > 0
    /\ webhooks' = webhooks - 1
    /\ directory' = [directory EXCEPT !["all"] = Nothing]
    /\ invalidated' = [at |-> time,
                       clean |-> \A l \in Lookups : lookup[l].at # "fetched"]
    /\ UNCHANGED <<time, members, lookup>>

\* invalidate_org, from the membership webhook.
InvalidateOrg ==
    /\ webhooks > 0
    /\ webhooks' = webhooks - 1
    /\ directory' = [a \in Audiences |-> Nothing]
    /\ invalidated' = [at |-> time,
                       clean |-> \A l \in Lookups : lookup[l].at # "fetched"]
    /\ UNCHANGED <<time, members, lookup>>

\* Clerk: a member joins, leaves or changes role; the webhook follows.
Change(p, role) ==
    /\ members[p] # role /\ webhooks < MaxChanges
    /\ members' = [members EXCEPT ![p] = role]
    /\ webhooks' = webhooks + 1
    /\ UNCHANGED <<time, directory, lookup, invalidated>>

\* A request to Clerk ends within its timeout, and what it brought is used at
\* once.
Wait ==
    /\ time < MaxTime
    /\ \A l \in Lookups : lookup[l].at # "done" /\
         (lookup[l].at # "idle" => time < lookup[l].since + DirectoryTimeout)
    /\ time' = time + 1
    /\ UNCHANGED <<members, webhooks, directory, lookup, invalidated>>

DirectoryNext ==
    \/ \E l \in Lookups : \/ LookInCache(l) \/ Fetch(l) \/ DirectoryFails(l)
                          \/ Insert(l) \/ Mailed(l)
    \/ InvalidateOrg \/ Wait
    \/ \E p \in People, role \in MemberRoles : Change(p, role)

DirectorySpec == DirectoryInit /\ [][DirectoryNext]_directoryVars

-------------------------------------------------------------------------------
\* A mail never goes by a membership that is older than the cache's lifetime
\* and one request to Clerk: if every webhook is lost, a member who left is
\* mailed for no longer than that.
StalenessBounded ==
    \A l \in Lookups : lookup[l].at = "done" =>
        lookup[l].read >= time - CacheTTL - DirectoryTimeout

\* A membership webhook takes effect at once when no answer of Clerk is waiting
\* to be stored as it arrives: what is cached afterwards was read afterwards.
InvalidationHolds ==
    invalidated.clean =>
        \A a \in Audiences : directory[a].expires > 0 => directory[a].read >= invalidated.at

\* "so an added or removed member takes effect at once rather than at the TTL"
\* (invalidate_org): once every webhook is handled, what is cached is what
\* Clerk says.
\* TLC refutes it: a fetch in flight stores the members of before.
WebhookTakesEffect ==
    webhooks = 0 =>
        \A a \in Audiences :
            directory[a].expires > time => directory[a].addrs = Addresses(a, members)

===============================================================================
