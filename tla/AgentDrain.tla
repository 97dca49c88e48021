------------------------------ MODULE AgentDrain ------------------------------
(***************************************************************************)
(* The agent process: wakeups, the poll loop, one drain at a time, the     *)
(* runs a drain works on side by side, and shutdown.                       *)
(*                                                                         *)
(* A drain (process_pending_runs) alternates between filling its free      *)
(* slots from a fresh listing and waiting for one of its futures.  Futures *)
(* are polled only while it waits.  The drain lock is held exactly while   *)
(* drain.pc # "none"; a wakeup that finds it held is acknowledged and      *)
(* dropped.  What a future does between Command Center's answers is        *)
(* RunQueue's subject; here it claims, works and ends.                     *)
(*                                                                         *)
(* Run ids are numbered in the order of triggered_at.  The stamp is taken  *)
(* before the row is written, so rows may come in in any order.            *)
(***************************************************************************)
EXTENDS Integers, FiniteSets

CONSTANTS
    Runs,           \* run ids
    Orgs,
    Org,            \* the org of each run; NoOrg for a row without one
    NoOrg,
    MaxConcurrent,  \* MAX_CONCURRENT_RUNS (4)
    MaxPerOrg,      \* MAX_CONCURRENT_RUNS_PER_ORG (2)
    ListLimit,      \* MAX_RUNS_PER_LIST (20)
    Polling,        \* agent_mode is poll
    MaxStops        \* bound: how often the process stops

ASSUME AgentDrainConstants ==
    /\ Runs \subseteq Nat /\ IsFiniteSet(Runs)
    /\ NoOrg \notin Orgs
    /\ Org \in [Runs -> Orgs \union {NoOrg}]
    /\ MaxConcurrent \in Nat \ {0}
    /\ MaxPerOrg \in Nat \ {0}
    /\ ListLimit \in Nat \ {0}
    /\ Polling \in BOOLEAN
    /\ MaxStops \in Nat

VARIABLES
    row,        \* the run's row at Command Center
    wake,       \* a wakeup webhook is on its way
    server,     \* serve(): where the process is
    stops,      \* how often it has stopped
    drain,      \* [pc, by]: the drain's place and who started it
    listing,    \* the listed runs it has still to consider
    fut,        \* each run's future in the drain, "none" if it has none
    perOrg,     \* per_org
    finished,   \* finished, failed: ids not to be tried again
    failed,
    tried       \* history: the ids this drain has tried in vain and, unless
                \* an older stamp comes in, will be listed again

proc == <<server, stops>>
sets == <<perOrg, finished, failed, tried>>
vars == <<row, wake, proc, drain, listing, fut, sets>>

NoDrain == [pc |-> "none", by |-> "none"]

Pending == {r \in Runs : row[r] = "pending"}
InFlight == {r \in Runs : fut[r] # "none"}
InFlightOf(o) == {r \in InFlight : Org[r] = o}

SlotFree == Cardinality(InFlight) < MaxConcurrent

\* The stop flag, set only after the poll loop has been awaited.
Stopping == server = "stopping"

\* list_pending_runs: the oldest ListLimit pending rows.
Listed == {r \in Pending : Cardinality({s \in Pending : s < r}) < ListLimit}

Init ==
    /\ row = [r \in Runs |-> "absent"]
    /\ wake = FALSE
    /\ server = "serving" /\ stops = 0
    /\ drain = NoDrain
    /\ listing = {}
    /\ fut = [r \in Runs |-> "none"]
    /\ perOrg = [o \in Orgs |-> 0]
    /\ finished = {} /\ failed = {} /\ tried = {}

-------------------------------------------------------------------------------
(***************************************************************************)
(* Command Center, and the other agents of the queue.                      *)
(***************************************************************************)

\* A run is queued, and fire_wakeup_webhook sends a wakeup.
Insert(r) ==
    /\ row[r] = "absent"
    /\ row' = [row EXCEPT ![r] = "pending"]
    /\ wake' = TRUE
    /\ tried' = {s \in tried : s < r}
    /\ UNCHANGED <<proc, drain, listing, fut, perOrg, finished, failed>>

\* Mutant: no re-fire while any run is being worked on.
Refire_OnlyIdle ==
    /\ Pending # {} /\ \A r \in Runs : row[r] # "running"
    /\ wake' = TRUE
    /\ UNCHANGED <<row, proc, drain, listing, fut, sets>>

\* The reaper's second sweep: unclaimed runs re-fire the wakeup.
Refire ==
    /\ Pending # {}
    /\ wake' = TRUE
    /\ UNCHANGED <<row, proc, drain, listing, fut, sets>>

LoseWakeup ==
    /\ wake
    /\ wake' = FALSE
    /\ UNCHANGED <<row, proc, drain, listing, fut, sets>>

\* Another agent claims the run, or the abandonment sweep ends it.
TakenElsewhere(r) ==
    /\ row[r] = "pending"
    /\ row' = [row EXCEPT ![r] = "gone"]
    /\ UNCHANGED <<wake, proc, drain, listing, fut, sets>>

-------------------------------------------------------------------------------
(***************************************************************************)
(* The drain.                                                              *)
(***************************************************************************)

\* drain_once: the first to take the lock starts a drain.
StartDrain(by) ==
    /\ drain' = IF drain = NoDrain THEN [pc |-> "fill", by |-> by] ELSE drain
    /\ UNCHANGED sets

\* The drain's counts and sets live and die with it.
EndDrain ==
    /\ drain' = NoDrain
    /\ perOrg' = [o \in Orgs |-> 0]
    /\ finished' = {} /\ failed' = {} /\ tried' = {}

Wakeup ==
    /\ wake /\ server = "serving"
    /\ wake' = FALSE
    /\ StartDrain("wakeup")
    /\ UNCHANGED <<row, proc, listing, fut>>

\* The poll loop's interval ends; the loop waits for a drain of its own.
Poll ==
    /\ Polling /\ server \in {"serving", "signalled"}
    /\ drain.by # "poll"
    /\ StartDrain("poll")
    /\ UNCHANGED <<row, wake, proc, listing, fut>>

Goto(p) == drain' = [drain EXCEPT !.pc = p]

\* The listing is returned only when no future is left.
AfterFill == IF InFlight = {} THEN EndDrain ELSE Goto("wait") /\ UNCHANGED sets

\* Stopping, or no slot is free: no listing.
SkipFill ==
    /\ drain.pc = "fill"
    /\ Stopping \/ ~SlotFree
    /\ AfterFill
    /\ UNCHANGED <<row, wake, proc, listing, fut>>

\* Mutant: the listing empties the set of failed ids.
List_ForgetsFailed ==
    /\ drain.pc = "fill" /\ ~Stopping /\ SlotFree
    /\ listing' = Listed
    /\ finished' = finished \intersect Listed
    /\ failed' = {}
    /\ Goto("start")
    /\ UNCHANGED <<row, wake, proc, fut, perOrg, tried>>

\* The listing as Command Center answers it.  The stop flag was read
\* before the request.  Only ids still listed are remembered.
List ==
    /\ drain.pc = "fill" /\ ~Stopping /\ SlotFree
    /\ listing' = Listed
    /\ finished' = finished \intersect Listed
    /\ failed' = failed \intersect Listed
    /\ Goto("start")
    /\ UNCHANGED <<row, wake, proc, fut, perOrg, tried>>

ListFails ==
    /\ drain.pc = "fill" /\ ~Stopping /\ SlotFree
    /\ AfterFill
    /\ UNCHANGED <<row, wake, proc, listing, fut>>

\* Mutant: the per-org limit is off by one.
Fits_OffByOne(r) ==
    /\ r \notin failed \union finished \union InFlight
    /\ Org[r] # NoOrg
    /\ perOrg[Org[r]] <= MaxPerOrg

\* Whether the drain starts listed run r.
Fits(r) ==
    /\ r \notin failed \union finished \union InFlight
    /\ Org[r] # NoOrg
    /\ perOrg[Org[r]] < MaxPerOrg

\* One turn of the loop over the listing, oldest run first.
Consider(r) ==
    /\ drain.pc = "start" /\ SlotFree
    /\ r \in listing /\ \A s \in listing : r <= s
    /\ listing' = listing \ {r}
    /\ IF Fits(r)
       THEN /\ fut' = [fut EXCEPT ![r] = "claiming"]
            /\ perOrg' = [perOrg EXCEPT ![Org[r]] = @ + 1]
       ELSE UNCHANGED <<fut, perOrg>>
    /\ UNCHANGED <<row, wake, proc, drain, finished, failed, tried>>

EndFill ==
    /\ drain.pc = "start"
    /\ listing = {} \/ ~SlotFree
    /\ listing' = {}
    /\ AfterFill
    /\ UNCHANGED <<row, wake, proc, fut>>

\* The relist tick while futures are in flight.
Relist ==
    /\ drain.pc = "wait"
    /\ Goto("fill")
    /\ UNCHANGED <<row, wake, proc, listing, fut, sets>>

\* process_one_run's claim.  Lost to another agent, it ends well.
Claim(r) ==
    /\ drain.pc = "wait" /\ fut[r] = "claiming"
    /\ IF row[r] = "pending"
       THEN /\ row' = [row EXCEPT ![r] = "running"]
            /\ fut' = [fut EXCEPT ![r] = "working"]
       ELSE /\ fut' = [fut EXCEPT ![r] = "ok"]
            /\ UNCHANGED row
    /\ UNCHANGED <<wake, proc, drain, listing, sets>>

\* The investigation ends and its report is stored.
Complete(r) ==
    /\ drain.pc = "wait" /\ fut[r] = "working"
    /\ row' = [row EXCEPT ![r] = "gone"]
    /\ fut' = [fut EXCEPT ![r] = "ok"]
    /\ UNCHANGED <<wake, proc, drain, listing, sets>>

\* The future fails (a request, the wall clock); its error report reaches
\* the row or is lost with it.
Fail(r) ==
    /\ drain.pc = "wait" /\ fut[r] \in {"claiming", "working"}
    /\ row' \in {row, [row EXCEPT ![r] = "gone"]}
    /\ fut' = [fut EXCEPT ![r] = "err"]
    /\ UNCHANGED <<wake, proc, drain, listing, sets>>

\* Mutant: a failed run keeps its org's count.
Finish_CountLeft(r) ==
    /\ drain.pc = "wait" /\ fut[r] \in {"ok", "err"}
    /\ fut' = [fut EXCEPT ![r] = "none"]
    /\ perOrg' = IF fut[r] = "ok" THEN [perOrg EXCEPT ![Org[r]] = IF @ > 0 THEN @ - 1 ELSE 0]
                 ELSE perOrg
    /\ finished' = IF fut[r] = "ok" THEN finished \union {r} ELSE finished
    /\ failed' = IF fut[r] = "err" THEN failed \union {r} ELSE failed
    /\ tried' = tried \union ({r} \intersect Listed)
    /\ Goto("fill")
    /\ UNCHANGED <<row, wake, proc, listing>>

\* The drain takes a future's result, frees its slot and fills again.
Finish(r) ==
    /\ drain.pc = "wait" /\ fut[r] \in {"ok", "err"}
    /\ fut' = [fut EXCEPT ![r] = "none"]
    /\ perOrg' = [perOrg EXCEPT ![Org[r]] = IF @ > 0 THEN @ - 1 ELSE 0]
    /\ finished' = IF fut[r] = "ok" THEN finished \union {r} ELSE finished
    /\ failed' = IF fut[r] = "err" THEN failed \union {r} ELSE failed
    /\ tried' = tried \union ({r} \intersect Listed)
    /\ Goto("fill")
    /\ UNCHANGED <<row, wake, proc, listing>>

-------------------------------------------------------------------------------
(***************************************************************************)
(* The process: serve().                                                   *)
(***************************************************************************)

\* SIGTERM: no new connections.
Signal ==
    /\ server = "serving" /\ stops < MaxStops
    /\ server' = "signalled" /\ stops' = stops + 1
    /\ UNCHANGED <<row, wake, drain, listing, fut, sets>>

\* axum::serve has returned and the poll loop is told to end.
Closed ==
    /\ server = "signalled"
    /\ server' = "awaitPoller"
    /\ UNCHANGED <<row, wake, stops, drain, listing, fut, sets>>

\* The poll loop has ended, its drain with it; the flag is set.
SetStopping ==
    /\ server = "awaitPoller" /\ drain.by # "poll"
    /\ server' = "stopping"
    /\ UNCHANGED <<row, wake, stops, drain, listing, fut, sets>>

\* The process is gone, and with it the drain and its futures.
Gone ==
    /\ server' = "down"
    /\ EndDrain /\ listing' = {}
    /\ fut' = [r \in Runs |-> "none"]
    /\ UNCHANGED <<row, wake>>

\* The drain lock is free, or the 285 s are over.
Exit(deadline) ==
    /\ server = "stopping"
    /\ drain = NoDrain \/ deadline
    /\ Gone
    /\ UNCHANGED stops

Crash ==
    /\ server # "down" /\ stops < MaxStops
    /\ stops' = stops + 1
    /\ Gone

Boot ==
    /\ server = "down"
    /\ server' = "serving"
    /\ UNCHANGED <<row, wake, stops, drain, listing, fut, sets>>

-------------------------------------------------------------------------------
Fill == SkipFill \/ List \/ EndFill \/ \E r \in Runs : Consider(r)

Future(r) == Claim(r) \/ Complete(r) \/ Fail(r) \/ Finish(r)

Process ==
    Signal \/ Closed \/ SetStopping \/ Crash \/ Boot \/ \E b \in BOOLEAN : Exit(b)

Next ==
    \/ \E r \in Runs : Insert(r) \/ TakenElsewhere(r) \/ Future(r)
    \/ Refire \/ LoseWakeup \/ Wakeup \/ Poll
    \/ Fill \/ ListFails \/ Relist
    \/ Process

\* The reaper comes round, the process is started again, a wakeup that is
\* sent again and again arrives, listings and claims that are tried again
\* and again get through, and a future in flight moves whenever the drain
\* keeps coming back to wait on it.
Fairness ==
    /\ WF_vars(Refire) /\ SF_vars(Wakeup) /\ WF_vars(Boot)
    /\ WF_vars(Closed) /\ WF_vars(SetStopping) /\ WF_vars(\E b \in BOOLEAN : Exit(b))
    /\ SF_vars(List) /\ WF_vars(Fill)
    /\ \A r \in Runs : SF_vars(Future(r)) /\ SF_vars(Claim(r))

Spec == Init /\ [][Next]_vars
FairSpec == Spec /\ Fairness

-------------------------------------------------------------------------------
(***************************************************************************)
(* Properties.                                                             *)
(***************************************************************************)

\* Every variable has its type: a per-org count never leaves its range.
TypeOK ==
    /\ row \in [Runs -> {"absent", "pending", "running", "gone"}]
    /\ wake \in BOOLEAN
    /\ server \in {"serving", "signalled", "awaitPoller", "stopping", "down"}
    /\ stops \in 0..MaxStops
    /\ drain \in [pc : {"none", "fill", "start", "wait"},
                  by : {"none", "wakeup", "poll"}]
    /\ listing \subseteq Runs
    /\ fut \in [Runs -> {"none", "claiming", "working", "ok", "err"}]
    /\ perOrg \in [Orgs -> 0..MaxPerOrg]
    /\ finished \subseteq Runs /\ failed \subseteq Runs /\ tried \subseteq Runs

\* However listings, finishing runs and restarts interleave, at most
\* MaxConcurrent runs are investigated at once and at most MaxPerOrg of one
\* org.
SlotBounds ==
    /\ Cardinality(InFlight) <= MaxConcurrent
    /\ \A o \in Orgs : Cardinality(InFlightOf(o)) <= MaxPerOrg

\* per_org never drifts from the runs really in flight.  A count left
\* behind would lock the org out for the rest of the drain, and a drain
\* under steady traffic never ends.
PerOrgExact == \A o \in Orgs : perOrg[o] = Cardinality(InFlightOf(o))

\* One attempt per run per drain: an id that failed and is still pending is
\* not started again by this drain, though the sets that remember it are
\* pruned at every listing.  Excepted is a run that a row stamped before it
\* and written after the drain listed it may push out of the window.
OneAttemptPerDrain ==
    [][\A r \in Runs : fut[r] = "none" /\ fut'[r] # "none" => r \notin tried]_vars

\* A queued run is always taken up: wakeups lost, or dropped because a
\* drain was at its end, are made good by the reaper's re-fire, and a
\* drain's slots, sets and listing window never lock a run out for good.
\* (A run never goes back to pending: the queue can only be empty again and
\* again if each of its runs is taken.)
EveryRunTaken == []<>(Pending = {})

===============================================================================
