------------------------------ MODULE ViewerUsage ------------------------------
(***************************************************************************)
(* The viewer-hour meter: seconds of live video counted in memory, flushed *)
(* to org_monthly_usage by a loop, read back into a cached total, and      *)
(* compared with the plan's cap before every segment.                      *)
(*                                                                         *)
(* Counters are kept per org and calendar month, and every function asks   *)
(* the clock for the month by itself.  A viewer is one call of             *)
(* get_hls_segment; the flusher is the loop; an erasure deletes the org's  *)
(* rows and then forgets what memory holds.  A restart loses the memory.   *)
(***************************************************************************)
EXTENDS Integers, FiniteSets, FiniteSetsExt

CONSTANTS
    Orgs,
    Viewers,
    Watches,        \* the org of each viewer
    Cap,            \* max_viewer_hours_per_month, in seconds
    MaxMonth,       \* bound: months that begin
    MaxServed,      \* bound: seconds served per org
    MaxRestarts     \* bound: restarts of the process

ASSUME ViewerUsageConstants ==
    /\ Watches \in [Viewers -> Orgs]
    /\ Cap \in Nat /\ MaxMonth \in Nat /\ MaxServed \in Nat /\ MaxRestarts \in Nat

Keys == Orgs \X (0..MaxMonth)
None == -1
NothingYet == [key |-> CHOOSE k \in Keys : TRUE, total |-> 0]

VARIABLES
    month,
    db,         \* org_monthly_usage.viewer_seconds, None for no row
    pending,    \* pending: seconds not flushed
    cached,     \* cached, None for no entry
    vpc, total, \* each viewer: place, total it read
    refusedIn,  \* the month a viewer was refused in
    todo,       \* the flusher's snapshot, by key; 0 for done
    returned,   \* [key, total]: what the last upsert returned
    fpc,        \* the flusher's place
    epc,        \* each org's erasure
    served,     \* history: seconds served
    lost,       \* history: seconds a failed flush, a restart or an erasure dropped
    clean,      \* history: nothing served since the org's rows were deleted
    restarts

memory == <<pending, cached>>
viewer == <<vpc, total, refusedIn>>
flusher == <<fpc, todo, returned>>
history == <<served, lost, clean>>
usageVars == <<month, db, memory, viewer, flusher, epc, history, restarts>>

\* The stored total, zero where there is no row.
Value(n) == IF n = None THEN 0 ELSE n

UsageInit ==
    /\ month = 0
    /\ db = [k \in Keys |-> None]
    /\ pending = [k \in Keys |-> 0]
    /\ cached = [k \in Keys |-> None]
    /\ vpc = [v \in Viewers |-> "idle"]
    /\ total = [v \in Viewers |-> 0]
    /\ refusedIn = [v \in Viewers |-> 0]
    /\ fpc = "sleep"
    /\ todo = [k \in Keys |-> 0]
    /\ returned = NothingYet
    /\ epc = [o \in Orgs |-> "none"]
    /\ served = [k \in Keys |-> 0]
    /\ lost = [k \in Keys |-> 0]
    /\ clean = [o \in Orgs |-> FALSE]
    /\ restarts = 0

\* The key of the viewer's org in the month the clock shows now.
Key(v) == <<Watches[v], month>>

NewMonth ==
    /\ month < MaxMonth
    /\ month' = month + 1
    /\ UNCHANGED <<db, memory, viewer, flusher, epc, history, restarts>>

-------------------------------------------------------------------------------
(***************************************************************************)
(* get_hls_segment and warm_viewer_seconds.                                *)
(***************************************************************************)

\* The decision over a total of n seconds.
Judge(v, n) ==
    /\ vpc' = [vpc EXCEPT ![v] = IF n >= Cap THEN "refused" ELSE "serve"]
    /\ refusedIn' = [refusedIn EXCEPT ![v] = IF n >= Cap THEN month ELSE 0]

\* cached_viewer_seconds: a hit is judged with the pending seconds.
Lookup(v) ==
    /\ vpc[v] = "idle"
    /\ IF cached[Key(v)] # None
       THEN Judge(v, cached[Key(v)] + pending[Key(v)])
       ELSE vpc' = [vpc EXCEPT ![v] = "query"] /\ UNCHANGED refusedIn
    /\ UNCHANGED <<month, db, memory, total, flusher, epc, history, restarts>>

\* The SELECT; a failed one counts as zero.
Query(v) ==
    /\ vpc[v] = "query"
    /\ \E n \in {Value(db[Key(v)]), 0} : total' = [total EXCEPT ![v] = n]
    /\ vpc' = [vpc EXCEPT ![v] = "store"]
    /\ UNCHANGED <<month, db, memory, refusedIn, flusher, epc, history, restarts>>

\* store_cached_viewer_seconds.
Store(v) ==
    /\ vpc[v] = "store"
    /\ cached' = [cached EXCEPT ![Key(v)] = total[v]]
    /\ Judge(v, total[v] + pending[Key(v)])
    /\ total' = [total EXCEPT ![v] = 0]
    /\ UNCHANGED <<month, db, pending, flusher, epc, history, restarts>>

\* Every second an org was ever served.
ServedTo(o) == MapThenSumSet(LAMBDA m : served[<<o, m>>], 0..MaxMonth)

\* The segment is found and charged.
Serve(v) ==
    /\ vpc[v] = "serve" /\ ServedTo(Watches[v]) < MaxServed
    /\ pending' = [pending EXCEPT ![Key(v)] = @ + 1]
    /\ served' = [served EXCEPT ![Key(v)] = @ + 1]
    /\ clean' = [clean EXCEPT ![Watches[v]] = FALSE]
    /\ vpc' = [vpc EXCEPT ![v] = "done"]
    /\ UNCHANGED <<month, db, cached, total, refusedIn, flusher, epc, lost, restarts>>

\* 404: nothing is charged.
NoSegment(v) ==
    /\ vpc[v] = "serve"
    /\ vpc' = [vpc EXCEPT ![v] = "done"]
    /\ UNCHANGED <<month, db, memory, total, refusedIn, flusher, epc, history, restarts>>

\* The player asks for its next segment.
Again(v) ==
    /\ vpc[v] \in {"refused", "done"}
    /\ vpc' = [vpc EXCEPT ![v] = "idle"]
    /\ refusedIn' = [refusedIn EXCEPT ![v] = 0]
    /\ UNCHANGED <<month, db, memory, total, flusher, epc, history, restarts>>

-------------------------------------------------------------------------------
(***************************************************************************)
(* flush_viewer_usage.                                                     *)
(***************************************************************************)

\* Mutant: the pending map is read and left as it is.
Drained_Kept == pending

\* pending.drain().
Drained == [k \in Keys |-> 0]

Drain ==
    /\ fpc = "sleep" /\ \E k \in Keys : pending[k] > 0
    /\ todo' = pending
    /\ pending' = Drained
    /\ fpc' = "write"
    /\ UNCHANGED <<month, db, cached, viewer, returned, epc, history, restarts>>

\* The upsert of one key, in any order.
Upsert(k) ==
    /\ fpc = "write" /\ todo[k] > 0
    /\ db' = [db EXCEPT ![k] = Value(@) + todo[k]]
    /\ returned' = [key |-> k, total |-> Value(db[k]) + todo[k]]
    /\ todo' = [todo EXCEPT ![k] = 0]
    /\ fpc' = "cache"
    /\ UNCHANGED <<month, memory, viewer, epc, history, restarts>>

\* Mutant: the cached total is raised by the flushed seconds' new total.
Refreshed_Added == Value(cached[returned.key]) + returned.total

\* The cached total is what the upsert returned.
Refreshed == returned.total

Refresh ==
    /\ fpc = "cache"
    /\ cached' = [cached EXCEPT ![returned.key] = Refreshed]
    /\ returned' = NothingYet
    /\ fpc' = "write"
    /\ UNCHANGED <<month, db, pending, viewer, todo, epc, history, restarts>>

\* The upsert of k fails, with or without having been applied: the function
\* returns, and what is left of the snapshot is lost.
FlushFails(k) ==
    /\ fpc = "write" /\ todo[k] > 0
    /\ \E applied \in {{}, {k}} :
        /\ db' = [j \in Keys |-> IF j \in applied THEN Value(db[j]) + todo[j] ELSE db[j]]
        /\ lost' = [j \in Keys |-> IF j \in applied THEN lost[j] ELSE lost[j] + todo[j]]
    /\ todo' = [j \in Keys |-> 0]
    /\ fpc' = "sleep"
    /\ UNCHANGED <<month, memory, viewer, returned, epc, served, clean, restarts>>

FlushEnds ==
    /\ fpc = "write" /\ \A k \in Keys : todo[k] = 0
    /\ fpc' = "sleep"
    /\ UNCHANGED <<month, db, memory, viewer, todo, returned, epc, history, restarts>>

-------------------------------------------------------------------------------
(***************************************************************************)
(* Erasure.                                                                *)
(***************************************************************************)

\* delete_org_data commits.
EraseRows(o) ==
    /\ epc[o] = "none"
    /\ db' = [k \in Keys |-> IF k[1] = o THEN None ELSE db[k]]
    /\ lost' = [k \in Keys |-> IF k[1] = o THEN lost[k] + Value(db[k]) ELSE lost[k]]
    /\ clean' = [clean EXCEPT ![o] = TRUE]
    /\ epc' = [epc EXCEPT ![o] = "forget"]
    /\ UNCHANGED <<month, memory, viewer, flusher, served, restarts>>

\* forget_org_viewer_usage.
ForgetUsage(o) ==
    /\ epc[o] = "forget"
    /\ pending' = [k \in Keys |-> IF k[1] = o THEN 0 ELSE pending[k]]
    /\ cached' = [k \in Keys |-> IF k[1] = o THEN None ELSE cached[k]]
    /\ lost' = [k \in Keys |-> IF k[1] = o THEN lost[k] + pending[k] ELSE lost[k]]
    /\ epc' = [epc EXCEPT ![o] = "done"]
    /\ UNCHANGED <<month, db, viewer, flusher, served, clean, restarts>>

\* A deploy or a crash: nothing is flushed on the way out.
Restart ==
    /\ restarts < MaxRestarts
    /\ lost' = [k \in Keys |-> lost[k] + pending[k] + todo[k]]
    /\ pending' = [k \in Keys |-> 0]
    /\ cached' = [k \in Keys |-> None]
    /\ todo' = [k \in Keys |-> 0]
    /\ vpc' = [v \in Viewers |-> "idle"]
    /\ total' = [v \in Viewers |-> 0]
    /\ refusedIn' = [v \in Viewers |-> 0]
    /\ returned' = NothingYet
    /\ fpc' = "sleep"
    /\ epc' = [o \in Orgs |-> IF epc[o] = "forget" THEN "done" ELSE epc[o]]
    /\ restarts' = restarts + 1
    /\ UNCHANGED <<month, db, served, clean>>

-------------------------------------------------------------------------------
View(v) == Lookup(v) \/ Query(v) \/ Store(v) \/ Serve(v) \/ NoSegment(v) \/ Again(v)

Flush == Drain \/ Refresh \/ FlushEnds \/ \E k \in Keys : Upsert(k) \/ FlushFails(k)

UsageNext ==
    \/ NewMonth
    \/ \E v \in Viewers : View(v)
    \/ Flush
    \/ \E o \in Orgs : EraseRows(o) \/ ForgetUsage(o)
    \/ Restart

UsageSpec == UsageInit /\ [][UsageNext]_usageVars

-------------------------------------------------------------------------------
(***************************************************************************)
(* Properties.                                                             *)
(***************************************************************************)

\* Every variable has its type; no counter is ever negative.
UsageTypeOK ==
    /\ month \in 0..MaxMonth
    /\ db \in [Keys -> Nat \union {None}]
    /\ pending \in [Keys -> Nat]
    /\ cached \in [Keys -> Nat \union {None}]
    /\ vpc \in [Viewers -> {"idle", "query", "store", "serve", "refused", "done"}]
    /\ total \in [Viewers -> Nat]
    /\ refusedIn \in [Viewers -> 0..MaxMonth]
    /\ fpc \in {"sleep", "write", "cache"}
    /\ todo \in [Keys -> Nat]
    /\ returned \in [key : Keys, total : Nat]
    /\ epc \in [Orgs -> {"none", "forget", "done"}]
    /\ served \in [Keys -> 0..MaxServed]
    /\ lost \in [Keys -> Nat]
    /\ clean \in [Orgs -> BOOLEAN]
    /\ restarts \in 0..MaxRestarts

\* Every second served is in exactly one place: stored, pending, in the
\* flusher's hands, or dropped by a failed flush, a restart or an erasure.
\* No second is billed twice by record_viewer_second and
\* flush_viewer_usage.
EverySecondOnce ==
    \A k \in Keys :
        LET stored == IF db[k] = None THEN 0 ELSE db[k]
        IN  served[k] = stored + pending[k] + todo[k] + lost[k]

\* Until the month changes, a viewer is refused only when its org has really
\* been served the cap, whatever the flusher, other viewers warming the same
\* total, a restart and an erasure do meanwhile.
RefusedOnlyAtCap ==
    month = 0 => \A v \in Viewers :
        vpc[v] = "refused" => served[<<Watches[v], refusedIn[v]>>] >= Cap

\* hls.rs:586: "Called after an org's data is erased. Without it, seconds
\* watched just before the erasure were flushed a minute AFTER it,
\* recreating an `org_monthly_usage` row for an org that had just been
\* wiped."
\* TLC refutes it: the flusher's own copy is written back after the erasure.
ErasedStaysErased ==
    \A o \in Orgs : epc[o] = "done" /\ clean[o] => \A m \in 0..MaxMonth : db[<<o, m>>] = None

===============================================================================
