------------------------------- MODULE RunQueue -------------------------------
(***************************************************************************)
(* The life of a Sentinel run between Command Center and its agents.       *)
(*                                                                         *)
(* Command Center keeps the sentinel_runs table and serves                 *)
(*   POST /runs/{id}/start     (post_run_start)                            *)
(*   POST /runs/{id}/complete  (post_run_complete)                         *)
(* and sweeps the table with reap_stranded_runs.  A worker is one          *)
(* run_with_timeout future of an agent's drain: it claims a run, has the   *)
(* model investigate it, and reports the result, all under a wall clock.   *)
(* Several agents, or the overlapping drains of two deployments, may work  *)
(* on one queue, so two workers may hold the same run id.                  *)
(*                                                                         *)
(* A handler reads the row, may answer early, and then writes: two steps,  *)
(* between which any other handler may run.  A request may be lost, and so *)
(* may the reply of one that was carried out; a client that has given up   *)
(* leaves its handler running.  Time is the age of each row and of each    *)
(* worker, saturating at the largest age the code compares with.           *)
(***************************************************************************)
EXTENDS Integers, FiniteSets

CONSTANTS
    Runs,               \* run ids
    Workers,            \* attempts: one run_with_timeout each
    Attempts,           \* ATTEMPTS of complete_with_retry (3)
    RunTimeout,         \* RUN_TIMEOUT_SECONDS (270 s)
    CompleteBudget,     \* the longest complete_with_retry can take (96 s)
    StrandedRunAge,     \* STRANDED_RUN_AGE_MINUTES (20 min)
    AbandonedPending    \* ABANDONED_PENDING_HOURS (6 h)

ASSUME RunQueueConstants ==
    /\ Attempts \in Nat \ {0}
    /\ RunTimeout \in Nat \ {0}
    /\ CompleteBudget \in Nat \ {0}
    /\ StrandedRunAge \in Nat
    /\ AbandonedPending \in Nat \ {0}
    /\ StrandedRunAge > RunTimeout + CompleteBudget

VARIABLES
    outcome,    \* sentinel_runs.outcome, "absent" before the INSERT
    told,       \* what the row tells of an incident: its severity alone, or
                \* incident_id with it
    age,        \* now - triggered_at
    runAge,     \* now - started_at
    reaper,     \* the reaper's pass: where it is and what it read
    reqs,       \* requests being handled by Command Center
    wpc,        \* where each worker is
    wrun,       \* the run it was given
    claimed,    \* /start answered it claimed: true
    filed,      \* its investigation has filed an incident
    result,     \* the outcome it is reporting
    acked,      \* /complete answered its report
    tries,      \* attempts made in this complete_with_retry
    seq,        \* requests it has sent
    elapsed     \* its wall clock, restarted for the error report

rows == <<outcome, told, age, runAge>>
work == <<wpc, wrun, claimed, filed, result, acked, tries, seq, elapsed>>
vars == <<rows, reaper, reqs, work>>

Real == {"incident", "no_action"}
Terminal == Real \union {"error"}
Outcomes == {"absent", "pending", "running"} \union Terminal

\* Inside process_one_run, hence under the wall clock.
Running == {"start", "investigate", "report"}
\* Blocked on a reply from Command Center.
Waiting == {"start", "report", "fail"}
Active == Running \union {"fail"}

MaxSeq == 1 + 2 * Attempts

Request == [w : Workers, n : 1..MaxSeq, kind : {"start", "complete"},
            run : Runs, outcome : Terminal \union {"none"},
            phase : {"sent", "checked"}]

Older(n, cap) == IF n < cap THEN n + 1 ELSE n

Init ==
    /\ outcome = [r \in Runs |-> "absent"]
    /\ told = [r \in Runs |-> "nothing"]
    /\ age = [r \in Runs |-> 0]
    /\ runAge = [r \in Runs |-> 0]
    /\ reaper = [pc |-> "sleep", stranded |-> {}, old |-> {}]
    /\ reqs = {}
    /\ wpc = [w \in Workers |-> "idle"]
    /\ wrun \in [Workers -> Runs]
    /\ claimed = [w \in Workers |-> FALSE]
    /\ filed = [w \in Workers |-> FALSE]
    /\ result = [w \in Workers |-> "none"]
    /\ acked = [w \in Workers |-> FALSE]
    /\ tries = [w \in Workers |-> 0]
    /\ seq = [w \in Workers |-> 0]
    /\ elapsed = [w \in Workers |-> 0]

-------------------------------------------------------------------------------
(***************************************************************************)
(* The agent's side.                                                       *)
(***************************************************************************)

\* The dispatcher's INSERT (modelled in full by RunDispatch).
Insert(r) ==
    /\ outcome[r] = "absent"
    /\ outcome' = [outcome EXCEPT ![r] = "pending"]
    /\ age' = [age EXCEPT ![r] = 0]
    /\ UNCHANGED <<told, runAge, reaper, reqs, work>>

\* The request worker w sends next.
NewRequest(w, kind, o) ==
    [w |-> w, n |-> seq[w] + 1, kind |-> kind, run |-> wrun[w],
     outcome |-> o, phase |-> "sent"]

Send(w, kind, o) ==
    /\ reqs' = reqs \union {NewRequest(w, kind, o)}
    /\ seq' = [seq EXCEPT ![w] = @ + 1]

\* A drain found the run in its listing and starts the future: the wall
\* clock begins with the /start request.
Begin(w) ==
    /\ wpc[w] = "idle"
    /\ outcome[wrun[w]] = "pending"
    /\ wpc' = [wpc EXCEPT ![w] = "start"]
    /\ elapsed' = [elapsed EXCEPT ![w] = 0]
    /\ Send(w, "start", "none")
    /\ UNCHANGED <<rows, reaper, wrun, claimed, filed, result, acked, tries>>

\* run_with_timeout's error arm: complete the run as an error, whatever
\* the investigation had reached.
Fail(w) ==
    /\ wpc' = [wpc EXCEPT ![w] = "fail"]
    /\ result' = [result EXCEPT ![w] = "error"]
    /\ tries' = [tries EXCEPT ![w] = 1]
    /\ elapsed' = [elapsed EXCEPT ![w] = 0]
    /\ Send(w, "complete", "error")
    /\ UNCHANGED <<rows, reaper, wrun, claimed, filed, acked>>

\* The wall clock fires and drops process_one_run where it stands.
WallClock(w) ==
    /\ wpc[w] \in Running
    /\ elapsed[w] = RunTimeout
    /\ Fail(w)

\* connector.connect answers an error after a won claim.
ConnectFails(w) ==
    /\ wpc[w] = "investigate"
    /\ ~filed[w]
    /\ Fail(w)

\* A tool call of the investigation files an incident.
FileIncident(w) ==
    /\ wpc[w] = "investigate"
    /\ filed' = [filed EXCEPT ![w] = TRUE]
    /\ UNCHANGED <<rows, reaper, reqs, wpc, wrun, claimed, result, acked,
                   tries, seq, elapsed>>

\* What run_agent may return: an investigation that filed an incident
\* reports it even when it is cut short, one that filed none ends in
\* no_action, or in error when the model fails or the budget runs out.
RunAgentResults(w) == IF filed[w] THEN {"incident"} ELSE {"no_action", "error"}

\* run_agent returns and the first attempt to report is sent.
EndInvestigation(w) ==
    /\ wpc[w] = "investigate"
    /\ \E o \in RunAgentResults(w) :
          /\ result' = [result EXCEPT ![w] = o]
          /\ Send(w, "complete", o)
    /\ wpc' = [wpc EXCEPT ![w] = "report"]
    /\ tries' = [tries EXCEPT ![w] = 1]
    /\ UNCHANGED <<rows, reaper, wrun, claimed, filed, acked, elapsed>>

\* complete_with_retry sends the same body again.
Resend(w) ==
    /\ tries[w] < Attempts
    /\ tries' = [tries EXCEPT ![w] = @ + 1]
    /\ Send(w, "complete", result[w])
    /\ UNCHANGED <<rows, reaper, wpc, wrun, claimed, filed, result, acked, elapsed>>

\* The worker's future ends without an answer to its error report.
GiveUp(w) ==
    /\ tries[w] = Attempts
    /\ wpc' = [wpc EXCEPT ![w] = "done"]
    /\ UNCHANGED <<rows, reaper, reqs, wrun, claimed, filed, result, acked,
                   tries, seq, elapsed>>

\* The request worker w waits on errs or times out on the client; its
\* handler may be at any point and may still run.
RequestFails(w) ==
    \/ wpc[w] = "start" /\ Fail(w)
    \/ wpc[w] = "report" /\ Resend(w)
    \/ wpc[w] = "report" /\ tries[w] = Attempts /\ Fail(w)
    \/ wpc[w] = "fail" /\ Resend(w)
    \/ wpc[w] = "fail" /\ GiveUp(w)

\* The agent's process dies: out of memory, a kill, a lost machine.
Crash(w) ==
    /\ wpc[w] \in Active
    /\ wpc' = [wpc EXCEPT ![w] = "crashed"]
    /\ UNCHANGED <<rows, reaper, reqs, wrun, claimed, filed, result, acked,
                   tries, seq, elapsed>>

-------------------------------------------------------------------------------
(***************************************************************************)
(* Command Center's handlers.                                              *)
(***************************************************************************)

\* The reply to request q reaches the worker if it is still waiting for
\* it and the network delivers it.
Answer(q, won) ==
    /\ reqs' = reqs \ {q}
    /\ \E delivered \in BOOLEAN :
          IF delivered /\ wpc[q.w] \in Waiting /\ seq[q.w] = q.n
          THEN /\ wpc' = [wpc EXCEPT ![q.w] = IF won THEN "investigate" ELSE "done"]
               /\ claimed' = [claimed EXCEPT ![q.w] = @ \/ won]
               /\ acked' = [acked EXCEPT ![q.w] = q.kind = "complete"]
               /\ tries' = [tries EXCEPT ![q.w] = 0]
          ELSE UNCHANGED <<wpc, claimed, acked, tries>>
    /\ UNCHANGED <<wrun, filed, result, seq, elapsed>>

\* The handler's read found nothing that answers the request early.
Proceed(q) ==
    /\ reqs' = (reqs \ {q}) \union {[q EXCEPT !.phase = "checked"]}
    /\ UNCHANGED work

\* The request, or the handler before its write, is lost.
Lose(q) ==
    /\ reqs' = reqs \ {q}
    /\ UNCHANGED <<rows, reaper, work>>

\* post_run_start, the read: past pending already means not claimed.
StartRead(q) ==
    /\ q.kind = "start" /\ q.phase = "sent"
    /\ IF outcome[q.run] # "pending" THEN Answer(q, FALSE) ELSE Proceed(q)
    /\ UNCHANGED <<rows, reaper>>

\* Mutants: the claim trusts the handler's read; the UPDATE only spares
\* running rows.
ClaimWins_TrustsRead(q) == TRUE
ClaimWins_NotRunning(q) == outcome[q.run] # "running"

\* Whether the claim's UPDATE still finds the row pending.
ClaimWins(q) == outcome[q.run] = "pending"

\* post_run_start, the write: the claim is the UPDATE.
StartWrite(q) ==
    /\ q.kind = "start" /\ q.phase = "checked"
    /\ IF ClaimWins(q)
       THEN /\ outcome' = [outcome EXCEPT ![q.run] = "running"]
            /\ runAge' = [runAge EXCEPT ![q.run] = 0]
       ELSE UNCHANGED <<outcome, runAge>>
    /\ Answer(q, ClaimWins(q))
    /\ UNCHANGED <<told, age, reaper>>

\* A terminal outcome takes only the one-way upgrade error -> result.
Accepts(stored, o) ==
    stored \notin Terminal \/ (stored = "error" /\ o \in Real)

\* Mutant: the UPDATE of /complete has no condition on the outcome.
CompleteMatches_TrustsRead(stored, o) == TRUE

\* The WHERE clause of the completion's UPDATE repeats it.
CompleteMatches(stored, o) == Accepts(stored, o)

\* post_run_complete, the read.
CompleteRead(q) ==
    /\ q.kind = "complete" /\ q.phase = "sent"
    /\ IF Accepts(outcome[q.run], q.outcome) THEN Proceed(q) ELSE Answer(q, FALSE)
    /\ UNCHANGED <<rows, reaper>>

\* A report of an incident must name a severity and may name the incident;
\* any other stores neither.
Tells(o) == IF o = "incident" THEN {"severity", "incident"} ELSE {"nothing"}

\* post_run_complete, the write; a row that no longer matches is answered
\* with what is stored.
CompleteWrite(q) ==
    /\ q.kind = "complete" /\ q.phase = "checked"
    /\ IF CompleteMatches(outcome[q.run], q.outcome)
       THEN /\ outcome' = [outcome EXCEPT ![q.run] = q.outcome]
            /\ \E t \in Tells(q.outcome) : told' = [told EXCEPT ![q.run] = t]
       ELSE UNCHANGED <<outcome, told>>
    /\ Answer(q, FALSE)
    /\ UNCHANGED <<age, runAge, reaper>>

-------------------------------------------------------------------------------
(***************************************************************************)
(* The reaper: three sweeps in one pass, against the clock read at its     *)
(* start.                                                                  *)
(***************************************************************************)

\* Mutant: the reaper's age is the agent's wall clock.
ReapSelect_TooEarly ==
    /\ reaper.pc = "sleep"
    /\ reaper' = [pc |-> "stamp",
                  stranded |-> {r \in Runs : outcome[r] = "running"
                                             /\ runAge[r] >= RunTimeout},
                  old |-> {r \in Runs : outcome[r] # "absent"
                                        /\ age[r] >= AbandonedPending}]
    /\ UNCHANGED <<rows, reqs, work>>

\* The SELECT of stranded runs, and the cutoff that is fixed with it.
ReapSelect ==
    /\ reaper.pc = "sleep"
    /\ reaper' = [pc |-> "stamp",
                  stranded |-> {r \in Runs : outcome[r] = "running"
                                             /\ runAge[r] >= StrandedRunAge},
                  old |-> {r \in Runs : outcome[r] # "absent"
                                        /\ age[r] >= AbandonedPending}]
    /\ UNCHANGED <<rows, reqs, work>>

\* Mutant: load, then stamp.
ReapMatches_TrustsSelect == reaper.stranded

\* The rows the reaper's UPDATE stamps: the re-check is in the write.
ReapMatches == {r \in reaper.stranded : outcome[r] = "running"}

ReapStamp ==
    /\ reaper.pc = "stamp"
    /\ outcome' = [r \in Runs |-> IF r \in ReapMatches THEN "error" ELSE outcome[r]]
    /\ reaper' = [reaper EXCEPT !.pc = "abandon"]
    /\ UNCHANGED <<told, age, runAge, reqs, work>>

\* Mutant: nothing is given up on.
ReapAbandon_Never ==
    /\ reaper.pc = "abandon"
    /\ reaper' = [pc |-> "sleep", stranded |-> {}, old |-> {}]
    /\ UNCHANGED <<rows, reqs, work>>

\* The terminal backstop for runs no agent ever claimed.
ReapAbandon ==
    /\ reaper.pc = "abandon"
    /\ outcome' = [r \in Runs |-> IF r \in reaper.old /\ outcome[r] = "pending"
                                  THEN "error" ELSE outcome[r]]
    /\ reaper' = [pc |-> "sleep", stranded |-> {}, old |-> {}]
    /\ UNCHANGED <<told, age, runAge, reqs, work>>

\* A pass that fails on a statement is abandoned until the next interval.
ReapError ==
    /\ reaper.pc # "sleep"
    /\ reaper' = [pc |-> "sleep", stranded |-> {}, old |-> {}]
    /\ UNCHANGED <<rows, reqs, work>>

\* Time passes, but never past a deadline a running timer enforces.
Tick ==
    /\ \A w \in Workers :
          /\ wpc[w] \in Running => elapsed[w] < RunTimeout
          /\ wpc[w] = "fail" => elapsed[w] < CompleteBudget
    /\ age' = [r \in Runs |-> IF outcome[r] = "pending"
                              THEN Older(age[r], AbandonedPending) ELSE age[r]]
    /\ runAge' = [r \in Runs |-> IF outcome[r] = "running"
                                 THEN Older(runAge[r], StrandedRunAge) ELSE runAge[r]]
    /\ elapsed' = [w \in Workers |-> IF wpc[w] \in Active
                                     THEN elapsed[w] + 1 ELSE elapsed[w]]
    /\ UNCHANGED <<outcome, told, reaper, reqs, wpc, wrun, claimed, filed,
                   result, acked, tries, seq>>

-------------------------------------------------------------------------------
WorkerStep(w) ==
    \/ Begin(w) \/ WallClock(w) \/ ConnectFails(w) \/ FileIncident(w)
    \/ EndInvestigation(w) \/ RequestFails(w) \/ Crash(w)

Handler(q) ==
    StartRead(q) \/ StartWrite(q) \/ CompleteRead(q) \/ CompleteWrite(q) \/ Lose(q)

Reap == ReapSelect \/ ReapStamp \/ ReapAbandon \/ ReapError

Next ==
    \/ \E r \in Runs : Insert(r)
    \/ \E w \in Workers : WorkerStep(w)
    \/ \E q \in reqs : Handler(q)
    \/ Reap
    \/ Tick

\* Timers fire, a client's own timeout ends every wait, and the reaper's
\* loop comes round with passes that get through.  Nothing is assumed of
\* the agents, the model or the network.
Fairness ==
    /\ WF_vars(Tick)
    /\ \A w \in Workers : WF_vars(WallClock(w)) /\ WF_vars(RequestFails(w))
    /\ WF_vars(ReapSelect) /\ SF_vars(ReapStamp) /\ SF_vars(ReapAbandon)

Spec == Init /\ [][Next]_vars
FairSpec == Spec /\ Fairness

-------------------------------------------------------------------------------
(***************************************************************************)
(* Properties.                                                             *)
(***************************************************************************)

\* Every variable has its type; requests carry the worker's own run and a
\* number it has already used.
TypeOK ==
    /\ outcome \in [Runs -> Outcomes]
    /\ told \in [Runs -> {"nothing", "severity", "incident"}]
    /\ age \in [Runs -> 0..AbandonedPending]
    /\ runAge \in [Runs -> 0..StrandedRunAge]
    /\ reaper \in [pc : {"sleep", "stamp", "abandon"},
                   stranded : SUBSET Runs, old : SUBSET Runs]
    /\ reqs \subseteq Request
    /\ wpc \in [Workers -> Active \union {"idle", "done", "crashed"}]
    /\ wrun \in [Workers -> Runs]
    /\ claimed \in [Workers -> BOOLEAN]
    /\ filed \in [Workers -> BOOLEAN]
    /\ result \in [Workers -> Terminal \union {"none"}]
    /\ acked \in [Workers -> BOOLEAN]
    /\ tries \in [Workers -> 0..Attempts]
    /\ seq \in [Workers -> 0..MaxSeq]
    /\ elapsed \in [Workers -> 0..(RunTimeout + CompleteBudget)]

\* However many /start requests overlap on one run (two drains, a late
\* handler whose client gave up), /start answers claimed: true to at most
\* one worker, so a run is investigated at most once.
OneClaimant ==
    \A v, w \in Workers :
        claimed[v] /\ claimed[w] /\ wrun[v] = wrun[w] => v = w

\* Once /complete has answered a reported result, the row holds that
\* result for good: no error report of a second worker, no late handler and
\* no reaper pass that read the row earlier replaces it.
AckedResultStored ==
    \A w \in Workers :
        acked[w] /\ result[w] \in Real => outcome[wrun[w]] = result[w]

\* A row has a severity, and may have an incident_id, exactly when its
\* outcome is "incident": a stamp that lands beside a completion never
\* leaves "error" next to what the completion stored.
RowConsistent ==
    \A r \in Runs : told[r] = "nothing" <=> outcome[r] # "incident"

\* The reaper never stamps a run whose claimant is still at work: by the
\* time started_at is 20 minutes old, the wall clock and the bounded error
\* report have ended every worker that could hold the run.
ReaperSparesLiveRuns ==
    \A w \in Workers :
        claimed[w] /\ wpc[w] \in Active => wrun[w] \notin ReapMatches

Lifecycle == INSTANCE RunLifecycle WITH Runs <- Runs, outcome <- outcome

\* Every step of handlers, agents and reaper is a step of RunLifecycle on
\* the outcome column: no terminal outcome is downgraded or reopened, and
\* no result appears on a run that was never claimed.
LifecycleSteps == [][Lifecycle!Next]_outcome

\* The whole abstract specification, its promise that no run stays pending
\* or running for ever included: the reaper is the backstop for every lost
\* wakeup, lost reply and crashed agent.
ImplementsLifecycle == Lifecycle!Spec

===============================================================================
