------------------------------ MODULE RunDispatch ------------------------------
(***************************************************************************)
(* How a notification, or an operator's "Run now", becomes a pending run.  *)
(*                                                                         *)
(* A dispatcher is one call of maybe_dispatch_for_notification or of       *)
(* post_manual_run.  It passes a list of gates, each a read of its own     *)
(* (the fleet switch and ceiling, the org's config, its plan and licence,  *)
(* the motion cooldown, the monthly cap), resolves the plan again, and     *)
(* inserts the run in a transaction that takes the org's cap lock, inserts *)
(* the row, recounts and commits or rolls back.  Any number of dispatchers *)
(* run at once, and the admin may change config and plan between any two   *)
(* of their steps.                                                         *)
(*                                                                         *)
(* The UTC clock is now, in minutes, and month, the number of the calendar *)
(* month: triggered_at >= start_of_month() is a comparison of months.      *)
(***************************************************************************)
EXTENDS Integers, Sequences, FiniteSets

CONSTANTS
    Orgs,
    Cameras,
    Dispatchers,    \* calls: one notification or manual request each
    Plans,          \* plan slugs
    PlanCap,        \* cap_for_plan: 0 for a plan without Sentinel
    GlobalCap,      \* SENTINEL_GLOBAL_MONTHLY_RUN_CAP, 0 for none
    Cooldown,       \* motion_cooldown_min
    MaxTime,        \* bound on the clock
    NoOne           \* the cap lock is free

ASSUME RunDispatchConstants ==
    /\ PlanCap \in [Plans -> Nat]
    /\ GlobalCap \in Nat
    /\ Cooldown \in Nat
    /\ MaxTime \in Nat
    /\ NoOne \notin Dispatchers

VARIABLES
    now, month, \* the clock
    cfg,        \* sentinel_config per org
    plan,       \* the org's effective plan
    runs,       \* committed rows of sentinel_runs
    capLock,    \* holder of the org's pg_advisory_xact_lock
    pc,         \* where each dispatcher is
    todo,       \* the gates it has still to pass
    event,      \* what it was called for
    cap,        \* the cap of the plan it resolved last
    at          \* the triggered_at it will insert

clock == <<now, month>>
settings == <<cfg, plan>>
calls == <<pc, todo, event, cap, at>>
vars == <<clock, settings, runs, capLock, calls>>

\* motion and incident_created notifications and the manual route; an
\* incident an agent filed itself is an event of its own.
Kinds == {"motion", "incident", "agent_incident", "manual"}
Event == [org : Orgs, camera : Cameras, kind : Kinds]
Config == [enabled : BOOLEAN, motion : BOOLEAN, incident : BOOLEAN]
Stamps == [time : 0..MaxTime, month : 0..MaxTime]
Run == [by : Dispatchers, org : Orgs, camera : Cameras, kind : Kinds, at : Stamps]

\* The order of the gates in maybe_dispatch_for_notification with
\* can_dispatch_for_kind, and in post_manual_run.
NotificationGates ==
    <<"global", "author", "config", "plan", "cooldown", "cap", "replan">>
ManualGates == <<"plan", "global", "config", "plan", "cap">>
Gates == {"global", "author", "config", "plan", "cooldown", "cap", "replan"}
\* Gates that look something up, and refuse when the lookup fails.
Lookups == Gates \ {"author", "replan"}

\* runs_used_this_month and global_runs_this_month.
ThisMonth(S) == {r \in S : r.at.month >= month}
Used(o) == {r \in ThisMonth(runs) : r.org = o}

Init ==
    /\ now = 0 /\ month = 0
    /\ cfg = [o \in Orgs |-> [enabled |-> FALSE, motion |-> TRUE, incident |-> TRUE]]
    /\ plan \in [Orgs -> Plans]
    /\ runs = {}
    /\ capLock = [o \in Orgs |-> NoOne]
    /\ pc = [d \in Dispatchers |-> "idle"]
    /\ todo = [d \in Dispatchers |-> <<>>]
    /\ event \in [Dispatchers -> Event]
    /\ cap = [d \in Dispatchers |-> 0]
    /\ at = [d \in Dispatchers |-> [time |-> 0, month |-> 0]]

-------------------------------------------------------------------------------
\* patch_config: only an org whose plan has Sentinel may write.
PatchConfig(o) ==
    /\ PlanCap[plan[o]] > 0
    /\ \E c \in Config \ {cfg[o]} : cfg' = [cfg EXCEPT ![o] = c]
    /\ UNCHANGED <<clock, plan, runs, capLock, calls>>

\* The org's plan changes through billing.
ChangePlan(o) ==
    /\ \E p \in Plans \ {plan[o]} : plan' = [plan EXCEPT ![o] = p]
    /\ UNCHANGED <<clock, cfg, runs, capLock, calls>>

\* A minute passes; it may be the first of a new month.
Tick ==
    /\ now < MaxTime
    /\ now' = now + 1
    /\ month' \in {month, month + 1}
    /\ UNCHANGED <<settings, runs, capLock, calls>>

\* The notification is emitted, or the request arrives.
Arrive(d) ==
    /\ pc[d] = "idle"
    /\ pc' = [pc EXCEPT ![d] = "gates"]
    /\ todo' = [todo EXCEPT ![d] = IF event[d].kind = "manual"
                                   THEN ManualGates ELSE NotificationGates]
    /\ UNCHANGED <<clock, settings, runs, capLock, event, cap, at>>

\* global_dispatch_allowed.
FleetAllows == GlobalCap = 0 \/ Cardinality(ThisMonth(runs)) < GlobalCap

\* is_agent_authored: the feedback-loop guard.
AgentAuthored(e) == e.kind = "agent_incident"

\* Mutant: the trigger switch alone decides.
ConfigAllows_NoMaster(c, kind) ==
    /\ kind = "motion" => c.motion
    /\ kind \in {"incident", "agent_incident"} => c.incident

\* The master switch and the switch of the event's kind, both of the row
\* fetched once; "Run now" has no switch of its own.
ConfigAllows(c, kind) ==
    /\ c.enabled
    /\ kind = "motion" => c.motion
    /\ kind \in {"incident", "agent_incident"} => c.incident

\* motion_cooldown_allows: no motion run of this camera in the window.
CooldownAllows(e) ==
    e.kind = "motion" /\ Cooldown > 0 =>
        ~ \E r \in runs : /\ r.org = e.org /\ r.camera = e.camera
                          /\ r.kind = "motion" /\ r.at.time >= now - Cooldown

\* Whether gate g is open to dispatcher d in the current state.
Open(d, g) ==
    LET e == event[d] IN
    CASE g = "global"   -> FleetAllows
      [] g = "author"   -> ~AgentAuthored(e)
      [] g = "config"   -> ConfigAllows(cfg[e.org], e.kind)
      [] g = "plan"     -> PlanCap[plan[e.org]] > 0
      [] g = "cooldown" -> CooldownAllows(e)
      [] g = "cap"      -> Cardinality(Used(e.org)) < cap[d]
      [] g = "replan"   -> TRUE

\* One gate is read and found open; a gate that resolves the plan keeps
\* its cap.
PassGate(d) ==
    /\ pc[d] = "gates" /\ todo[d] # <<>>
    /\ Open(d, Head(todo[d]))
    /\ todo' = [todo EXCEPT ![d] = Tail(@)]
    /\ cap' = [cap EXCEPT ![d] = IF Head(todo[d]) \in {"plan", "replan"}
                                 THEN PlanCap[plan[event[d].org]] ELSE @]
    /\ UNCHANGED <<clock, settings, runs, capLock, pc, event, at>>

Refuse(d) ==
    /\ pc' = [pc EXCEPT ![d] = "refused"]
    /\ todo' = [todo EXCEPT ![d] = <<>>]
    /\ UNCHANGED <<clock, settings, runs, capLock, event, cap, at>>

Closed(d) ==
    /\ pc[d] = "gates" /\ todo[d] # <<>>
    /\ ~Open(d, Head(todo[d]))
    /\ Refuse(d)

\* A failed lookup, a camera out of scope, a closed schedule window or a
\* missing licence also end the call.
LookupFails(d) ==
    /\ pc[d] = "gates" /\ todo[d] # <<>>
    /\ Head(todo[d]) \in Lookups
    /\ Refuse(d)

\* insert_run reads triggered_at before its transaction begins.
Stamp(d) ==
    /\ pc[d] = "gates" /\ todo[d] = <<>>
    /\ pc' = [pc EXCEPT ![d] = "lock"]
    /\ at' = [at EXCEPT ![d] = [time |-> now, month |-> month]]
    /\ UNCHANGED <<clock, settings, runs, capLock, todo, event, cap>>

\* Mutant: the transactions of one org are not serialised.
LockFree_Unlocked(o) == TRUE

\* lock_for_update waits for the org's cap lock.
LockFree(o) == capLock[o] = NoOne

TakeLock(d) ==
    /\ pc[d] = "lock"
    /\ LockFree(event[d].org)
    /\ capLock' = [capLock EXCEPT ![event[d].org] = d]
    /\ pc' = [pc EXCEPT ![d] = "recount"]
    /\ UNCHANGED <<clock, settings, runs, todo, event, cap, at>>

\* The row the transaction inserts.
RowOf(d) == [by |-> d, org |-> event[d].org, camera |-> event[d].camera,
             kind |-> event[d].kind, at |-> at[d]]

\* What the recount sees inside the transaction: the committed rows and
\* its own.  start_of_month is read here, not with triggered_at.
Recounted(d) == {r \in ThisMonth(runs \union {RowOf(d)}) : r.org = event[d].org}

Recount(d) ==
    /\ pc[d] = "recount"
    /\ pc' = [pc EXCEPT ![d] = IF Cardinality(Recounted(d)) > cap[d]
                               THEN "rollback" ELSE "commit"]
    /\ UNCHANGED <<clock, settings, runs, capLock, todo, event, cap, at>>

\* Mutant: a session lock, which the transaction's end does not release.
Release_SessionLock(d) == UNCHANGED capLock

\* The transaction's end releases its advisory lock.
Release(d) ==
    capLock' = [o \in Orgs |-> IF capLock[o] = d THEN NoOne ELSE capLock[o]]

Commit(d) ==
    /\ pc[d] = "commit"
    /\ runs' = runs \union {RowOf(d)}
    /\ Release(d)
    /\ pc' = [pc EXCEPT ![d] = "done"]
    /\ UNCHANGED <<clock, settings, todo, event, cap, at>>

Rollback(d) ==
    /\ Release(d)
    /\ pc' = [pc EXCEPT ![d] = "refused"]
    /\ UNCHANGED <<clock, settings, runs, todo, event, cap, at>>

\* The recount found the org over its cap.
LoseRace(d) == pc[d] = "rollback" /\ Rollback(d)

\* A statement fails, or the connection drops, inside the transaction.
TransactionFails(d) ==
    pc[d] \in {"lock", "recount", "rollback", "commit"} /\ Rollback(d)

-------------------------------------------------------------------------------
Advance(d) ==
    \/ PassGate(d) \/ Closed(d) \/ Stamp(d) \/ TakeLock(d)
    \/ Recount(d) \/ Commit(d) \/ LoseRace(d)

Next ==
    \/ \E o \in Orgs : PatchConfig(o) \/ ChangePlan(o)
    \/ Tick
    \/ \E d \in Dispatchers :
          Arrive(d) \/ Advance(d) \/ LookupFails(d) \/ TransactionFails(d)

\* A call is polled until it ends; no failure is assumed.
Fairness == \A d \in Dispatchers : WF_vars(Advance(d))

Spec == Init /\ [][Next]_vars
FairSpec == Spec /\ Fairness

-------------------------------------------------------------------------------
(***************************************************************************)
(* Properties.                                                             *)
(***************************************************************************)

\* Every variable has its type: a cap is never negative, and the month never
\* runs ahead of the minutes.
TypeOK ==
    /\ now \in 0..MaxTime /\ month \in 0..now
    /\ cfg \in [Orgs -> Config]
    /\ plan \in [Orgs -> Plans]
    /\ runs \subseteq Run
    /\ capLock \in [Orgs -> Dispatchers \union {NoOne}]
    /\ pc \in [Dispatchers -> {"idle", "gates", "lock", "recount", "rollback",
                               "commit", "done", "refused"}]
    /\ todo \in [Dispatchers -> Seq(Gates)]
    /\ event \in [Dispatchers -> Event]
    /\ cap \in [Dispatchers -> Nat]
    /\ at \in [Dispatchers -> Stamps]

\* The monthly cap holds against any number of notifications and manual
\* requests at once: the rows of the current month never outnumber the cap
\* one of the dispatchers that queued them had resolved.  (A plan that
\* shrinks during the month leaves its earlier rows in place.)
WithinCap ==
    \A o \in Orgs : Used(o) # {} =>
        \E r \in Used(o) : Cardinality(Used(o)) <= cap[r.by]

\* "Off means off" (sentinel_config.rs:655): a call that arrives while the
\* master switch is off, and finds it off until it ends, queues no run.
OffMeansOff ==
    \A d \in Dispatchers :
        []( pc[d] = "idle" /\ [](~cfg[event[d].org].enabled)
            => [](pc[d] # "done") )

\* Every call ends, queued or refused: the cap lock is released on every
\* path out of the transaction, so no dispatcher waits on it for ever.
CallsEnd ==
    \A d \in Dispatchers : pc[d] = "gates" ~> pc[d] \in {"done", "refused"}

\* sentinel_dispatch.rs:475: "Counting again *after* the insert, inside the
\* same transaction, catches the second writer - it sees its own row."
\* Stated for every calendar month.
MonthlyCapHolds ==
    \A o \in Orgs, m \in 0..month :
        \E p \in Plans :
            Cardinality({r \in runs : r.org = o /\ r.at.month = m}) <= PlanCap[p]

===============================================================================
