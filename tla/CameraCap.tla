------------------------------- MODULE CameraCap -------------------------------
(***************************************************************************)
(* The cameras an org may stream: registrations, which add the cameras a   *)
(* node reports up to the plan's cap and remove those it no longer does,   *)
(* the billing webhooks and the heartbeat, and enforce_camera_cap, which   *)
(* all of them end in and which flags the newest cameras over the cap.     *)
(*                                                                         *)
(* Each statement commits by itself; a worker is one request.              *)
(***************************************************************************)
EXTENDS Integers, FiniteSets, FiniteSetsExt

CONSTANTS
    CamerasOf,              \* node -> the cameras it can report
    CapOf,                  \* plan -> max_cameras; "free" is one of the plans
    Workers,
    MaxRegistrations,       \* bound
    MaxBilling              \* bound: changes of the plan and of the standing

ASSUME CapAssumption ==
    /\ "free" \in DOMAIN CapOf /\ \A p \in DOMAIN CapOf : CapOf[p] \in Nat
    /\ MaxRegistrations \in Nat /\ MaxBilling \in Nat

VARIABLES
    nominal,        \* Setting(org_plan)
    standing,       \* payment: "paid", "grace" (past due), "over" (its 7 days)
    born,           \* the cameras' rows: id -> <<created_at, id of the row>>
    off,            \* those with disabled_by_plan
    worker,
    moment, inserts,    \* registrations, insertions and changes so far
    billing,
    behind,         \* history: the effective plan changed and no enforcement
                    \* has read it since
    mixed,          \* history: it changed while an enforcement was under way, or
                    \* one failed or misread it, and none has begun alone since
    late            \* history: a row was inserted while an enforcement had rows
                    \* still to flip, and none has begun with no other at that

capVars == <<nominal, standing, born, off, worker, moment, inserts, billing, behind,
             mixed, late>>

IdleWorker == [at |-> "idle", node |-> "none", report |-> {}, todo |-> {}, now |-> 0,
               room |-> 0, cap |-> 0, flips |-> {}]

CapInit ==
    /\ nominal \in DOMAIN CapOf /\ standing = "paid"
    /\ born = << >> /\ off = {}
    /\ worker = [w \in Workers |-> IdleWorker]
    /\ moment = 0 /\ inserts = 0 /\ billing = 0
    /\ behind = FALSE /\ mixed = FALSE /\ late = FALSE

\* effective_plan_for_caps, without its cache.
Effective == IF standing = "over" THEN "free" ELSE nominal

Go(w, fields) == worker' = [worker EXCEPT ![w] = fields]
StepTo(w, place) == Go(w, [worker[w] EXCEPT !.at = place])
Keep(f, S) == [c \in S |-> f[c]]
Enforcing == \E w \in Workers : worker[w].at \in {"select", "flip"}
Flipping == \E w \in Workers : worker[w].flips # {}

\* created_at ascending, then id.
CapBefore(p, q) == p[1] < q[1] \/ (p[1] = q[1] /\ p[2] < q[2])
\* Mutant: one camera too many stays on.
Oldest_OffByOne(n) ==
    {c \in DOMAIN born : Cardinality({d \in DOMAIN born : CapBefore(born[d], born[c])}) <= n}

Oldest(n) ==
    {c \in DOMAIN born : Cardinality({d \in DOMAIN born : CapBefore(born[d], born[c])}) < n}

-------------------------------------------------------------------------------
(***************************************************************************)
(* register_node, from the count of the org's cameras on.                  *)
(***************************************************************************)
CountCameras(w, n, report) ==
    /\ worker[w].at = "idle" /\ moment < MaxRegistrations
    /\ moment' = moment + 1
    /\ Go(w, [IdleWorker EXCEPT !.at = "cameras", !.node = n, !.now = moment + 1,
                !.report = report, !.todo = report,
                !.room = CapOf[nominal] - Cardinality(DOMAIN born)])
    /\ UNCHANGED <<nominal, standing, born, off, inserts, billing, behind, mixed,
                   late>>

\* One camera of the report: a row that exists is refreshed; a new one is
\* inserted while the count made at the start leaves room, and skipped after.
AddCamera(w, c) ==
    LET add == c \notin DOMAIN born /\ worker[w].room > 0
        row == <<worker[w].now, inserts + 1>>
    IN /\ worker[w].at = "cameras" /\ c \in worker[w].todo
       /\ born' = IF add THEN [d \in DOMAIN born \union {c} |->
                                 IF d = c THEN row ELSE born[d]]
                         ELSE born
       /\ inserts' = IF add THEN inserts + 1 ELSE inserts
       /\ Go(w, [worker[w] EXCEPT !.todo = @ \ {c}, !.room = IF add THEN @ - 1 ELSE @])
       /\ late' = (late \/ (add /\ Flipping))
       /\ UNCHANGED <<nominal, standing, off, moment, billing, behind, mixed>>

\* The node's rows that were not reported are deleted.
RemoveStale(w) ==
    LET gone == CamerasOf[worker[w].node] \ worker[w].report
    IN /\ worker[w].at = "cameras" /\ worker[w].todo = {}
       /\ born' = Keep(born, DOMAIN born \ gone)
       /\ off' = off \ gone
       /\ Go(w, [IdleWorker EXCEPT !.at = "plan"])
       /\ UNCHANGED <<nominal, standing, moment, inserts, billing, behind, mixed, late>>

-------------------------------------------------------------------------------
(***************************************************************************)
(* enforce_camera_cap.                                                     *)
(***************************************************************************)
\* effective_plan_for_caps: a past-due setting that cannot be read is taken for
\* none, and a plan that cannot be read for "free".  An enforcement that reads the
\* plan as it is, with no other under way, makes up for what went wrong before.
ReadPlan(w) ==
    /\ worker[w].at = "plan"
    /\ \E p \in {Effective, nominal, "free"} :
         /\ Go(w, [worker[w] EXCEPT !.at = "select", !.cap = CapOf[p]])
         /\ behind' = (behind /\ p # Effective)
         /\ mixed' = (p # Effective \/ (mixed /\ Enforcing))
    /\ late' = (late /\ Flipping)
    /\ UNCHANGED <<nominal, standing, born, off, moment, inserts, billing>>

\* The rows that have to flip.
SelectFlips(w) ==
    LET over == DOMAIN born \ Oldest(worker[w].cap)
    IN /\ worker[w].at = "select"
       /\ Go(w, [IdleWorker EXCEPT !.at = "flip",
                   !.flips = {<<c, "off">> : c \in over \ off}
                                 \union {<<c, "on">> : c \in off \ over}])
       /\ UNCHANGED <<nominal, standing, born, off, moment, inserts, billing, behind,
                      mixed, late>>

\* One UPDATE per row that flips; the row may be gone.
Flip(w, f) ==
    /\ worker[w].at = "flip" /\ f \in worker[w].flips
    /\ off' = IF f[2] = "off" THEN off \union ({f[1]} \intersect DOMAIN born) ELSE off \ {f[1]}
    /\ Go(w, [worker[w] EXCEPT !.flips = @ \ {f}])
    /\ UNCHANGED <<nominal, standing, born, moment, inserts, billing, behind, mixed, late>>

Done(w) ==
    /\ worker[w].at = "flip" /\ worker[w].flips = {}
    /\ Go(w, IdleWorker)
    /\ UNCHANGED <<nominal, standing, born, off, moment, inserts, billing, behind,
                   mixed, late>>

\* A statement fails, and with it the request; what was written stays.
Fail(w) ==
    /\ worker[w].at \notin {"idle", "plan"}
    /\ Go(w, IdleWorker)
    /\ mixed' = TRUE
    /\ UNCHANGED <<nominal, standing, born, off, moment, inserts, billing, behind, late>>

-------------------------------------------------------------------------------
(***************************************************************************)
(* Billing.  The plan and the recovery webhooks enforce, the past-due one  *)
(* does not; after the grace the next heartbeat does.                      *)
(***************************************************************************)
Bill(p, s) ==
    /\ billing < MaxBilling
    /\ billing' = billing + 1
    /\ nominal' = p /\ standing' = s
    /\ behind' = (behind \/ Effective' # Effective)
    /\ mixed' = (mixed \/ (Effective' # Effective /\ Enforcing))
    /\ UNCHANGED <<born, off, moment, inserts, late>>

PlanWritten(w, p) == worker[w].at = "idle" /\ p # nominal /\ Bill(p, standing) /\ StepTo(w, "plan")
PastDue == standing = "paid" /\ Bill(nominal, "grace") /\ UNCHANGED worker
GraceEnds == standing = "grace" /\ Bill(nominal, "over") /\ UNCHANGED worker
PaidAgain(w) ==
    worker[w].at = "idle" /\ standing # "paid" /\ Bill(nominal, "paid") /\ StepTo(w, "plan")

\* heartbeat: an org that is past due is enforced.
HeartbeatSweep(w) ==
    /\ worker[w].at = "idle" /\ standing # "paid"
    /\ StepTo(w, "plan")
    /\ UNCHANGED <<nominal, standing, born, off, moment, inserts, billing, behind,
                   mixed, late>>

CapNext ==
    \/ \E w \in Workers :
         \/ \E n \in DOMAIN CamerasOf, r \in SUBSET UNION {CamerasOf[m] : m \in DOMAIN CamerasOf} :
              r \subseteq CamerasOf[n] /\ CountCameras(w, n, r)
         \/ \E c \in worker[w].todo : AddCamera(w, c)
         \/ RemoveStale(w) \/ ReadPlan(w) \/ SelectFlips(w)
         \/ \E f \in worker[w].flips : Flip(w, f)
         \/ Done(w) \/ Fail(w) \/ HeartbeatSweep(w) \/ PaidAgain(w)
         \/ \E p \in DOMAIN CapOf : PlanWritten(w, p)
    \/ PastDue \/ GraceEnds

CapSpec == CapInit /\ [][CapNext]_capVars

-------------------------------------------------------------------------------
AllDone == \A w \in Workers : worker[w] = IdleWorker

\* Once every request has ended, the org streams no more cameras than the plan
\* it is entitled to allows, even though nodes register at the same time
\* against a count that no lock protects.  A failed or misread enforcement, a
\* plan that changes under one, and a row that comes in between an enforcement's
\* SELECT and its last UPDATE can break it, until the next enforcement that
\* reads the plan as it is with none other under way.
CapHolds ==
    (~behind /\ ~mixed /\ ~late /\ AllDone) =>
        Cardinality(DOMAIN born \ off) <= CapOf[Effective]

\* "keep the oldest max_cameras, flag the rest" (enforce_camera_cap, plans.rs:513),
\* which ends every registration as a "safety net for a missed subscription
\* webhook" (node_register.rs:483): with no failure, and no change of plan under
\* an enforcement, every camera past the oldest is flagged in the end.
\* TLC refutes it: an enforcement that has decided to light a camera up again
\* writes that after a registration that began earlier has put its own camera
\* ahead of it and has found nothing to flag.
RestFlagged ==
    (~behind /\ ~mixed /\ AllDone) => DOMAIN born \ Oldest(CapOf[Effective]) \subseteq off

===============================================================================
