----------------------------- MODULE RunLifecycle -----------------------------
(***************************************************************************)
(* What the run table promises its readers, whoever writes to it: the      *)
(* outcome column of sentinel_runs as a one-way state machine.  A run is   *)
(* inserted pending, is claimed or given up on, and ends in one of three   *)
(* terminal outcomes.  The only terminal outcome that may still change is  *)
(* the defensive "error", and only into a reported result.                 *)
(*                                                                         *)
(* RunQueue, which models the request handlers, the reaper and the agents  *)
(* with their retries and lost replies, is shown to implement this module. *)
(***************************************************************************)
CONSTANT Runs

VARIABLE outcome

Real == {"incident", "no_action"}
Terminal == Real \union {"error"}

Init == outcome = [r \in Runs |-> "absent"]

Move(r, from, to) ==
    /\ outcome[r] \in from
    /\ outcome' = [outcome EXCEPT ![r] = to]

Insert(r) == Move(r, {"absent"}, "pending")
Claim(r)  == Move(r, {"pending"}, "running")

\* The defensive stamp: the agent's own error report, the reaper, or the
\* abandonment sweep.
GiveUp(r) == Move(r, {"pending", "running"}, "error")

\* A reported result; a run that was never claimed has none to report.
Report(r) == \E o \in Real : Move(r, {"running", "error"}, o)

\* One UPDATE of the reaper stamps several rows at once.
GiveUpMany ==
    \E S \in SUBSET {r \in Runs : outcome[r] \in {"pending", "running"}} :
        outcome' = [r \in Runs |-> IF r \in S THEN "error" ELSE outcome[r]]

Settle(r) == GiveUp(r) \/ Report(r)

Next ==
    \/ \E r \in Runs : Insert(r) \/ Claim(r) \/ Settle(r)
    \/ GiveUpMany

\* A step that settles run r, alone or with others.
Settles(r) ==
    /\ outcome[r] \in {"pending", "running"}
    /\ Next
    /\ outcome'[r] \in Terminal

\* Nothing stays unsettled for ever.
Fairness == \A r \in Runs : WF_outcome(Settles(r))

Spec == Init /\ [][Next]_outcome /\ Fairness

===============================================================================
