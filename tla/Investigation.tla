----------------------------- MODULE Investigation -----------------------------
(***************************************************************************)
(* One run inside the agent: the conversation between the model and the    *)
(* tools, and the report that ends it (src/backend-rs/src/agent/run.rs,    *)
(* llm.rs, mcp_client.rs, and run_with_timeout, process_one_run and        *)
(* complete_with_retry of processor.rs).                                   *)
(*                                                                         *)
(* Each iteration sends the whole transcript to the model.  A turn of tool *)
(* calls is executed in order, its results follow it in the transcript,    *)
(* the frames the tools returned follow the results, and frames of earlier *)
(* iterations are pruned.  A tool call may be refused, may fail, or may    *)
(* time out here although Command Center carried it out.  The model may    *)
(* fail or time out, the iteration budget may run out, and the run's wall  *)
(* clock may drop the whole conversation at any await.                     *)
(***************************************************************************)
EXTENDS Integers, Sequences, SequencesExt, FiniteSets

CONSTANTS MaxIterations, MaxCalls, CompleteAttempts

ASSUME InvestigationAssumption ==
  /\ MaxIterations \in Nat \ {0} /\ MaxCalls \in Nat \ {0}
  /\ CompleteAttempts \in Nat \ {0}

VARIABLES turn,        \* iteration under way, from 1
          stage,       \* "model", "tools", "report" or "over"
          calls,       \* tool calls of this turn still to run
          transcript,     \* the messages, as [kind, turn]
          frames,      \* this turn's frames, held back until its results are in
          seen,        \* turns whose frames the model has been sent
          incident,    \* run_agent's incident_id: an incident this run wrote to
          wrote,       \* incidents Command Center really wrote for this run
          named,    \* incidents a tool result told the run about
          outcomeReport,      \* the completion to send
          attempts,    \* complete_with_retry attempts spent on it
          cutBy,       \* what ended the conversation
          recorded     \* the run's outcome on Command Center

investigationVars == <<turn, stage, calls, transcript, frames, seen, incident, wrote,
                       named, outcomeReport, attempts, cutBy, recorded>>

Unfiled == 0
NoReport == [outcome |-> "none", incident |-> Unfiled]

\* What a tool does: open an incident, add to the one open, look, or nothing
\* (an unknown name, arguments the tool refuses).
AgentTools == {"create_incident", "add_observation", "view_camera", "unknown"}
Entry(kind) == [kind |-> kind, turn |-> turn]

InvestigationInit ==
  /\ turn = 1 /\ stage = "model" /\ calls = <<>>
  /\ transcript = <<[kind |-> "system", turn |-> 0], [kind |-> "user", turn |-> 0]>>
  /\ frames = 0 /\ seen = {}
  /\ incident = Unfiled /\ wrote = {} /\ named = {}
  /\ outcomeReport = NoReport /\ attempts = 0 /\ cutBy = "none"
  /\ recorded = NoReport

FramesIn(h) == {h[i].turn : i \in {j \in 1 .. Len(h) : h[j].kind = "frame"}}

\* Mutant: a conversation cut short reports a plain error.
Report_DropsOnTruncation(cut, clean) ==
  /\ outcomeReport' = [outcome |-> IF ~clean THEN "error"
                                   ELSE IF incident # Unfiled THEN "incident" ELSE "no_action",
                       incident |-> IF clean THEN incident ELSE Unfiled]
  /\ cutBy' = cut
  /\ stage' = "report"

\* The conversation ends with a completion; run_agent's own endings carry the
\* incident it knows of, whatever cut it short.
Report(cut, clean) ==
  /\ outcomeReport' = [outcome |-> IF incident # Unfiled THEN "incident"
                            ELSE IF clean THEN "no_action" ELSE "error",
                incident |-> incident]
  /\ cutBy' = cut
  /\ stage' = "report"

\* The model answers with tool calls.
ModelCalls(names) ==
  /\ stage = "model"
  /\ seen' = seen \cup FramesIn(transcript)
  /\ transcript' = Append(transcript, Entry("assistant"))
  /\ calls' = names
  /\ stage' = "tools"
  /\ UNCHANGED <<turn, frames, incident, wrote, named, outcomeReport, attempts, cutBy, recorded>>

\* It answers without a tool call, an empty answer included: the run ends.
ModelCloses ==
  /\ stage = "model"
  /\ seen' = seen \cup FramesIn(transcript)
  /\ Report("model", TRUE)
  /\ UNCHANGED <<turn, calls, transcript, frames, incident, wrote, named, attempts, recorded>>

\* The call times out as a whole or the provider fails: truncated_result.
ModelFails ==
  /\ stage = "model"
  /\ Report("provider", FALSE)
  /\ UNCHANGED <<turn, calls, transcript, frames, seen, incident, wrote, named,
                 attempts, recorded>>

\* One tool call.  Its result always reaches the history as text; only a
\* result that names an incident moves incident_id, and only the write tools'.
RunTool(result) ==
  /\ stage = "tools" /\ calls # <<>>
  /\ LET name == Head(calls)
         target == IF name = "create_incident" THEN Cardinality(wrote) + 1
                   ELSE IF name = "add_observation" /\ wrote # {} THEN Cardinality(wrote)
                   ELSE Unfiled
         done == result # "failed" /\ target # Unfiled
         told == result = "ok" /\ target # Unfiled
     IN /\ wrote' = IF done THEN wrote \cup {target} ELSE wrote
        /\ incident' = IF told THEN target ELSE incident
        /\ named' = IF told THEN named \cup {target} ELSE named
        /\ frames' = IF name = "view_camera" /\ result = "ok" THEN frames + 1 ELSE frames
  /\ transcript' = Append(transcript, Entry("result"))
  /\ calls' = Tail(calls)
  /\ UNCHANGED <<turn, stage, seen, outcomeReport, attempts, cutBy, recorded>>

\* After the turn's last call: its frames go behind its results, and every
\* earlier frame is pruned to a note.
Pruned(h) ==
  [i \in 1 .. Len(h) |-> IF h[i].kind = "frame" /\ h[i].turn < turn
                            THEN [h[i] EXCEPT !.kind = "note"] ELSE h[i]]
EndTurn ==
  /\ stage = "tools" /\ calls = <<>>
  /\ transcript' = Pruned(transcript) \o [i \in 1 .. frames |-> Entry("frame")]
  /\ frames' = 0
  /\ turn' = turn + 1
  /\ IF turn < MaxIterations THEN stage' = "model" /\ UNCHANGED <<outcomeReport, cutBy>>
     ELSE Report("budget", FALSE)
  /\ UNCHANGED <<calls, seen, incident, wrote, named, attempts, recorded>>

\* run_with_timeout: the conversation is dropped where it waits and a plain
\* error takes its place.  The clock also covers sending the report.
WallClock ==
  /\ stage \in {"model", "tools", "report"} /\ cutBy \notin {"clock", "harness"}
  /\ outcomeReport' = [outcome |-> "error", incident |-> Unfiled]
  /\ cutBy' = "clock"
  /\ stage' = "report" /\ calls' = <<>> /\ attempts' = 0
  /\ UNCHANGED <<turn, transcript, frames, seen, incident, wrote, named, recorded>>

\* complete_with_retry.  Command Center keeps a terminal outcome it already
\* has, except that an error gives way to a result.
Recorded(r) ==
  IF recorded.outcome = "none" \/ (recorded.outcome = "error" /\ r.outcome # "error")
     THEN r ELSE recorded
CompleteArrives(confirmed) ==
  /\ stage = "report"
  /\ recorded' = Recorded(outcomeReport)
  /\ IF confirmed THEN stage' = "over" /\ UNCHANGED <<outcomeReport, attempts, cutBy>>
     ELSE attempts' = attempts + 1 /\ UNCHANGED <<stage, outcomeReport, cutBy>>
  /\ attempts < CompleteAttempts
  /\ UNCHANGED <<turn, calls, transcript, frames, seen, incident, wrote, named>>

CompleteLost ==
  /\ stage = "report" /\ attempts < CompleteAttempts
  /\ attempts' = attempts + 1
  /\ UNCHANGED <<turn, stage, calls, transcript, frames, seen, incident, wrote, named,
                 outcomeReport, cutBy, recorded>>

\* Three failures in a row: the run's own report is given up for an error
\* report, and that one for nothing.
CompleteGivenUp ==
  /\ stage = "report" /\ attempts = CompleteAttempts
  /\ IF cutBy \in {"clock", "harness"}
     THEN stage' = "over" /\ UNCHANGED <<outcomeReport, cutBy, attempts>>
     ELSE /\ outcomeReport' = [outcome |-> "error", incident |-> Unfiled]
          /\ cutBy' = "harness" /\ attempts' = 0
          /\ UNCHANGED stage
  /\ UNCHANGED <<turn, calls, transcript, frames, seen, incident, wrote, named, recorded>>

InvestigationNext ==
  \/ \E n \in 1 .. MaxCalls : \E names \in [1 .. n -> AgentTools] : ModelCalls(names)
  \/ ModelCloses \/ ModelFails \/ EndTurn \/ WallClock
  \/ \E result \in {"ok", "failed", "timed_out"} : RunTool(result)
  \/ \E b \in BOOLEAN : CompleteArrives(b)
  \/ CompleteLost \/ CompleteGivenUp

InvestigationSpec == InvestigationInit /\ [][InvestigationNext]_investigationVars

-----------------------------------------------------------------------------

\* The model sees every frame, whole batches at a time, and each only once:
\* when it is called, the frames in the history are the previous turn's, and
\* every older one has been sent before it was pruned.
FramesSeenOnce ==
  stage = "model" =>
    /\ FramesIn(transcript) \subseteq {turn - 1}
    /\ \A i \in 1 .. Len(transcript) :
         /\ transcript[i].kind = "note" => transcript[i].turn \in seen
         /\ transcript[i].kind = "frame" => transcript[i].turn \notin seen

\* What both providers insist on: the results of a turn's calls follow it
\* without anything in between.
ResultsFollowCalls ==
  \A i \in 2 .. Len(transcript) :
    transcript[i].kind = "result" =>
      /\ transcript[i - 1].kind \in {"assistant", "result"}
      /\ transcript[i - 1].turn = transcript[i].turn

\* A run that ended by itself reports an incident it was told of, and one
\* Command Center holds: never prose, never dropped by a truncation.
OwnEndingReports ==
  outcomeReport # NoReport /\ cutBy \in {"model", "provider", "budget"} =>
    /\ (outcomeReport.outcome = "incident") = (named # {})
    /\ outcomeReport.outcome = "incident" => outcomeReport.incident \in wrote

\* "A run cut short still reports the incident it filed", also when the wall
\* clock or a failing report cut it.
CutShortStillReports ==
  stage = "over" /\ recorded # NoReport /\ named # {} => recorded.outcome = "incident"
==============================================================================
