-------------------------------- MODULE OrgPlan --------------------------------
(***************************************************************************)
(* The plan stored for one organization, Setting(org_plan): Clerk, which   *)
(* sells the plan; the webhook handler, which is told of changes; and      *)
(* resolve_org_plan and the hourly reconciler, which ask.  What follows    *)
(* from the stored plan, the past-due grace and the suspended cameras, is  *)
(* CameraCap's.                                                            *)
(*                                                                         *)
(* A task is one handler, request or loop pass.  What it has still to do   *)
(* is the sequence of its statements (queries, writes, calls), each of     *)
(* which is one step; a statement may put others before the rest.  Tasks   *)
(* interleave between statements, as they do at every await.               *)
(***************************************************************************)
EXTENDS Naturals, Sequences

CONSTANTS
    Free, Paid,     \* "free_org", and the PAID_PLAN_SLUGS that Clerk sells
    Hooks, Passes,  \* tasks that handle deliveries; that serve requests and
                    \* run loop passes
    MaxSent,        \* bound: events that Clerk sends
    MaxFaults       \* bound: failed statements, lost answers and restarts

Plans == Paid \union {Free}
Unset == ""         \* no row, or a failed read
Tasks == Hooks \union Passes

ASSUME OrgPlanConstants ==
    /\ Free \notin Paid /\ Unset \notin Plans
    /\ MaxSent \in Nat /\ MaxFaults \in Nat

VARIABLES
    live,       \* what Clerk would answer now
    inbox,      \* deliveries Svix has still to get acknowledged
    sent,       \* events sent so far, the last event's id
    plan,       \* Setting(org_plan)
    throttled,  \* a live lookup was made within RESOLVE_THROTTLE
    processed,  \* processed_webhooks
    task,       \* each task: statements to go and what it holds
    faults,     \* faults left
    told,       \* history: the plans Clerk has had
    defaulted   \* history: an ended item was answered with the free default

clerk == <<live, inbox, sent, told>>
planVars == <<clerk, plan, throttled, processed, task, faults, defaulted>>

\* "active" stands for the subscription events and for an item that becomes
\* active, "other" for the events whose branch does not write the plan.
Kinds == {"active", "ended", "other"}
Event == [id: 1..MaxSent, kind: Kinds, slug: Plans]
NoTask == [todo |-> << >>, msg |-> 0, slug |-> Unset, cached |-> Unset]

PlanInit ==
    /\ live \in Plans /\ told = {live}
    /\ inbox = {} /\ sent = 0
    /\ plan \in {live, Unset}
    /\ throttled = FALSE
    /\ processed = {} /\ defaulted = FALSE
    /\ task = [t \in Tasks |-> NoTask]
    /\ faults = MaxFaults

-------------------------------------------------------------------------------
(***************************************************************************)
(* Clerk.  A change is announced by one of the events it can be announced  *)
(* by, or by none: the endpoint may be down past Svix's retries.           *)
(***************************************************************************)
Emit(kind) ==
    /\ sent < MaxSent
    /\ sent' = sent + 1
    /\ inbox' \in {inbox, inbox \union
          {[id |-> sent + 1, kind |-> kind, slug |-> live']}}

Clerk ==
    /\ \/ \E s \in Plans \ {live} :
            /\ live' = s /\ told' = told \union {s}
            /\ \E kind \in Kinds \ {"other"} : Emit(kind)
       \/ /\ UNCHANGED <<live, told>>
          /\ \E kind \in {"active", "other"} : Emit(kind)
    /\ UNCHANGED <<plan, throttled, processed, task, faults, defaulted>>

-------------------------------------------------------------------------------
(***************************************************************************)
(* Tasks.                                                                  *)
(***************************************************************************)

\* dispatch: the branch of an event, up to the dedup row.  Every branch that
\* changes an entitlement ends in reenforce, which resolves the plan again.
Branch(e) ==
    CASE e.kind = "active" -> <<"write", "resolve">>
      [] e.kind = "ended" -> <<"ask_ended", "write", "resolve">>
      [] e.kind = "other" -> <<"resolve">>

\* A read of the plan (for a cap, or by the log cleanup), the reconciler.
Programs == {<<"resolve">>, <<"select_paid">>}

PlanAt(t, s) == task[t].todo # << >> /\ Head(task[t].todo) = s

\* The task goes on with l as what it holds, after the statements in more.
Go(t, l, more) ==
    task' = [task EXCEPT ![t] = [l EXCEPT !.todo = more \o Tail(@)]]

Fault == faults > 0 /\ faults' = faults - 1

\* clerk_webhook up to dispatch: a delivery that was processed is answered at
\* once.  Svix may deliver one event twice at the same time.
Deliver(t) ==
    /\ task[t] = NoTask
    /\ \E e \in inbox :
         IF e.id \in processed
         THEN inbox' = inbox \ {e} /\ UNCHANGED task
         ELSE /\ task' = [task EXCEPT ![t] =
                    [NoTask EXCEPT !.todo = Branch(e) \o <<"mark">>,
                                 !.msg = e.id, !.slug = e.slug]]
              /\ UNCHANGED inbox
    /\ UNCHANGED <<live, sent, told, plan, throttled, processed, faults,
                   defaulted>>

Begin(t, program) ==
    /\ task[t] = NoTask
    /\ task' = [task EXCEPT ![t] = [NoTask EXCEPT !.todo = program]]
    /\ UNCHANGED <<clerk, plan, throttled, processed, faults, defaulted>>

\* settings::set: a failed write is logged and the task goes on.
Write(t) ==
    /\ PlanAt(t, "write")
    /\ \/ plan' = task[t].slug /\ UNCHANGED faults
       \/ Fault /\ UNCHANGED plan
    /\ Go(t, [task[t] EXCEPT !.slug = Unset], << >>)
    /\ UNCHANGED <<clerk, throttled, processed, defaulted>>

\* An ended item: what Clerk says now, or the free plan if it does not answer.
AskEnded(t) ==
    /\ PlanAt(t, "ask_ended")
    /\ \/ /\ Go(t, [task[t] EXCEPT !.slug = live], << >>)
          /\ UNCHANGED <<faults, defaulted>>
       \/ /\ Fault /\ defaulted' = TRUE
          /\ Go(t, [task[t] EXCEPT !.slug = Free], << >>)
    /\ UNCHANGED <<clerk, plan, throttled, processed>>

\* Mutant: a stored plan that is missing is answered and never looked up.
Resolve_NeverAsks(t) ==
    /\ PlanAt(t, "resolve") /\ Go(t, task[t], << >>)
    /\ UNCHANGED <<clerk, plan, throttled, processed, faults, defaulted>>

\* resolve_org_plan: a paid stored plan is the answer; otherwise Clerk is asked,
\* once per throttle window, which is entered before the call.
Resolve(t) ==
    /\ PlanAt(t, "resolve")
    /\ \E c \in {plan, Unset} :
         /\ IF c = plan THEN UNCHANGED faults ELSE Fault
         /\ IF c \in Paid \/ throttled
            THEN Go(t, task[t], << >>) /\ UNCHANGED throttled
            ELSE /\ Go(t, [task[t] EXCEPT !.cached = c], <<"ask">>)
                 /\ throttled' = TRUE
    /\ UNCHANGED <<clerk, plan, processed, defaulted>>

\* fetch_live_plan_slug: an answer that differs is stored; without an answer
\* the stored plan stays.
Ask(t) ==
    /\ PlanAt(t, "ask")
    /\ \/ /\ IF live # task[t].cached
             THEN Go(t, [task[t] EXCEPT !.slug = live, !.cached = Unset],
                     <<"write">>)
             ELSE Go(t, [task[t] EXCEPT !.cached = Unset], << >>)
          /\ UNCHANGED faults
       \/ Fault /\ Go(t, [task[t] EXCEPT !.cached = Unset], << >>)
    /\ UNCHANGED <<clerk, plan, throttled, processed, defaulted>>

\* reconcile_org_plans: only paid rows are selected.
SelectPaid(t) ==
    /\ PlanAt(t, "select_paid")
    /\ IF plan \in Paid
       THEN Go(t, [task[t] EXCEPT !.cached = plan], <<"ask_paid">>)
       ELSE Go(t, task[t], <<"reconciled">>)
    /\ UNCHANGED <<clerk, plan, throttled, processed, faults, defaulted>>

\* No answer, or the answer that is stored, skips the org.
AskPaid(t) ==
    /\ PlanAt(t, "ask_paid")
    /\ \/ /\ IF live # task[t].cached
             THEN Go(t, [task[t] EXCEPT !.slug = live, !.cached = Unset],
                     <<"write", "resolve", "reconciled">>)
             ELSE Go(t, [task[t] EXCEPT !.cached = Unset], <<"reconciled">>)
          /\ UNCHANGED faults
       \/ Fault /\ Go(t, [task[t] EXCEPT !.cached = Unset], << >>)
    /\ UNCHANGED <<clerk, plan, throttled, processed, defaulted>>

\* record_processed, after every write of the branch, then 200.  A statement of
\* the cap's enforcement or the insert itself may fail (500, and Svix delivers
\* again), and the answer may be lost.
RecordProcessed(t) ==
    /\ PlanAt(t, "mark")
    /\ task' = [task EXCEPT ![t] = NoTask]
    /\ \/ /\ processed' = processed \union {task[t].msg}
          /\ \/ inbox' = {e \in inbox : e.id # task[t].msg} /\ UNCHANGED faults
             \/ Fault /\ UNCHANGED inbox
       \/ Fault /\ UNCHANGED <<processed, inbox>>
    /\ UNCHANGED <<live, sent, told, plan, throttled, defaulted>>

End(t) ==
    /\ task[t] # NoTask
    /\ task[t].todo \in {<< >>, <<"reconciled">>}
    /\ task' = [task EXCEPT ![t] = NoTask]
    /\ UNCHANGED <<clerk, plan, throttled, processed, faults, defaulted>>

\* A deploy or a crash: tasks and the throttle map are gone.
RestartTasks ==
    /\ Fault
    /\ task' = [t \in Tasks |-> NoTask]
    /\ throttled' = FALSE
    /\ UNCHANGED <<clerk, plan, processed, defaulted>>

Unthrottle ==
    /\ throttled /\ throttled' = FALSE
    /\ UNCHANGED <<clerk, plan, processed, task, faults, defaulted>>

Statement(t) ==
    \/ Write(t) \/ AskEnded(t) \/ Resolve(t) \/ Ask(t)
    \/ SelectPaid(t) \/ AskPaid(t) \/ RecordProcessed(t) \/ End(t)

PlanNext ==
    \/ Clerk
    \/ \E t \in Hooks : Deliver(t)
    \/ \E t \in Tasks : Statement(t)
    \/ \E t \in Passes, program \in Programs : Begin(t, program)
    \/ RestartTasks \/ Unthrottle

PlanSpec == PlanInit /\ [][PlanNext]_planVars

\* Svix delivers until it is answered, a task is polled until it ends, the
\* throttle window runs out, and the reconciler and the log cleanup (which
\* resolves the plan of every org) come round.  Finitely many statements fail.
PlanFairSpec ==
    /\ PlanSpec
    /\ \A t \in Tasks : WF_planVars(Statement(t))
    /\ SF_planVars(\E t \in Hooks : Deliver(t))
    /\ SF_planVars(\E t \in Passes : Begin(t, <<"select_paid">>))
    /\ SF_planVars(\E t \in Passes : Begin(t, <<"resolve">>))
    /\ WF_planVars(Unthrottle)

-------------------------------------------------------------------------------
\* The plan stored for the org is one Clerk has really had for it: no event
\* that arrives late or twice, no lookup that fails and no pair of writers
\* makes one up.  The one exception is the free plan the code writes on
\* purpose when an item has ended and Clerk does not answer.
PlanFromClerk ==
    plan \in told \union {Unset} \union (IF defaulted THEN {Free} ELSE {})

\* Every event Svix goes on delivering is processed in the end, through failed
\* statements, lost answers and restarts.
EventsProcessed ==
    \A i \in 1..MaxSent :
        (\E e \in inbox : e.id = i) ~> (i \in processed)

\* Once Clerk stops changing its mind, the stored plan becomes and stays what
\* Clerk has, although events are lost, repeated, handled out of order and at
\* the same time as each other and as the readers that write the plan back.
PlanConverges == <>[](plan = live)

\* "Corrects in BOTH directions, which also rescues a scheduled downgrade that
\* the `.ended` handler defaulted to free on a failed lookup" (loops.rs): when
\* a reconcile pass ends, with Clerk answering, a free plan that an ended item
\* was defaulted to is not left in place of a paid one.
\* TLC refutes it: the pass selects orgs by a stored paid plan, and this one
\* is stored as free.
ReconcilerRestores ==
    \A t \in Tasks :
        (PlanAt(t, "reconciled") /\ defaulted /\ faults = 0)
            => (plan = Free => live = Free)

===============================================================================
