------------------------------- MODULE Incidents --------------------------------
(***************************************************************************)
(* Incidents and their evidence, written by people through the dashboard   *)
(* and by agents through the tools.  A person's PATCH reads the row and    *)
(* writes every column back; an agent's update is one statement per        *)
(* column; both check first that the incident is the org's.  Filing one    *)
(* notifies the org, and the notification may start a Sentinel run.        *)
(***************************************************************************)
EXTENDS Integers, FiniteSets

CONSTANTS
    Jobs,           \* requests at the same time
    DailyCap,       \* MAX_INCIDENTS_PER_ORG_PER_DAY
    MaxFiled,       \* bound: incidents filed
    MaxJobs         \* bound: requests about the incident

Terminated == {"resolved", "dismissed"}
IncidentStatuses == {"open", "acknowledged"} \union Terminated
NoActor == "nobody"

ASSUME IncidentsAssumption == IsFiniteSet(Jobs) /\ DailyCap \in Nat \ {0}

VARIABLES
    incident,       \* the incident the requests are about
    evidenceRows,       \* its evidence rows: kind, data and data_mime
    job,            \* each request: where it is, what it asks and what it read
    jobs,           \* requests so far
    filed,          \* rows of today's other incidents, those of agents among
                    \* them, and all that people ever filed
    started,        \* Sentinel runs started by an incident_created notification
    overlapped      \* history: two requests overlapped, or one failed half-way

incidentVars == <<incident, evidenceRows, job, jobs, filed, started, overlapped>>

NoJob == [at |-> "idle"]

IncidentsInit ==
    /\ incident = [there |-> TRUE, status |-> "open", resolver |-> NoActor, report |-> "unwritten"]
    /\ evidenceRows = {}
    /\ job = [j \in Jobs |-> NoJob]
    /\ jobs = 0
    /\ filed = [today |-> 0, byAgents |-> 0, byPeople |-> 0]
    /\ started = 0 /\ overlapped = FALSE

AtWork == \E j \in Jobs : job[j] # NoJob

\* An UPDATE of a row that is gone changes nothing.
SetRow(next) == incident' = IF incident.there THEN next ELSE incident

Goes(j, at) == job' = [job EXCEPT ![j].at = at]
Ends(j) == job' = [job EXCEPT ![j] = NoJob]

\* owned_incident: 404 for another org's as for none, and the row otherwise.
Read(j, kind, given, at) ==
    /\ job[j] = NoJob /\ jobs < MaxJobs
    /\ jobs' = jobs + 1
    /\ overlapped' = (overlapped \/ AtWork)
    /\ job' = [job EXCEPT ![j] =
                 IF incident.there
                 THEN [at |-> at, kind |-> kind, given |-> given, row |-> incident]
                 ELSE NoJob]
    /\ UNCHANGED <<incident, evidenceRows, filed, started>>

-------------------------------------------------------------------------------
(***************************************************************************)
(* The dashboard: update_incident and delete_incident.                     *)
(***************************************************************************)
\* Mutant: a dismissal is not stamped.
Resolver_ResolvedOnly(was, status, resolver, who) ==
    CASE status = "resolved" /\ was \notin Terminated -> who
      [] status = "open" -> NoActor
      [] OTHER -> resolver

\* Entering a terminal status stamps who did it, and reopening clears it.
Resolver(was, status, resolver, who) ==
    CASE status \in Terminated /\ was \notin Terminated -> who
      [] status = "open" -> NoActor
      [] OTHER -> resolver

PatchStatus(j, status) == Read(j, "patch", [status |-> status], "write")
PatchReport(j, text) == Read(j, "patch", [report |-> text], "write")

Patched(row, given) ==
    IF "status" \in DOMAIN given
    THEN [row EXCEPT !.status = given.status,
                     !.resolver = Resolver(row.status, given.status, @, "person")]
    ELSE [row EXCEPT !.report = given.report]

\* Every column is written from the row that was read, if any is to change.
WritePatch(j) ==
    LET next == Patched(job[j].row, job[j].given)
    IN /\ job[j].at = "write" /\ job[j].kind = "patch"
       /\ SetRow(IF next # job[j].row THEN next ELSE incident)
       /\ Ends(j)
       /\ UNCHANGED <<evidenceRows, jobs, filed, started, overlapped>>

AskDelete(j) == Read(j, "delete", << >>, "write")

\* ON DELETE CASCADE takes the evidence.
DeleteIncident(j) ==
    /\ job[j].at = "write" /\ job[j].kind = "delete"
    /\ incident' = [incident EXCEPT !.there = FALSE]
    /\ evidenceRows' = {}
    /\ Ends(j)
    /\ UNCHANGED <<jobs, filed, started, overlapped>>

-------------------------------------------------------------------------------
(***************************************************************************)
(* The agents' tools.                                                      *)
(***************************************************************************)
\* update_incident: the stamp, the status and the report are three statements.
ToolStatus(j, status) == Read(j, "tool", [status |-> status], "stamp")

WriteStamp(j) ==
    LET was == job[j].row.status
        status == job[j].given.status
    IN /\ job[j].at = "stamp"
       /\ SetRow([incident EXCEPT !.resolver = Resolver(was, status, @, "agent")])
       /\ Goes(j, "status")
       /\ UNCHANGED <<evidenceRows, jobs, filed, started, overlapped>>

WriteStatus(j) ==
    /\ job[j].at = "status"
    /\ SetRow([incident EXCEPT !.status = job[j].given.status])
    /\ Ends(j)
    /\ UNCHANGED <<evidenceRows, jobs, filed, started, overlapped>>

\* finalize_incident: only the first report.
AskFinalize(j, text) == Read(j, "finalize", [report |-> text], "write")

WriteReport(j) ==
    /\ job[j].at = "write" /\ job[j].kind = "finalize"
    /\ SetRow(IF job[j].row.report = "unwritten" THEN [incident EXCEPT !.report = job[j].given.report]
              ELSE incident)
    /\ Ends(j)
    /\ UNCHANGED <<evidenceRows, jobs, filed, started, overlapped>>

\* add_observation, attach_snapshot and attach_clip: ownership before the
\* capture, which can take as long as the node does, and then the row.
AskAttach(j, kind) == Read(j, "attach", [evidence |-> kind], "capture")

InsertEvidence(j) ==
    LET kind == job[j].given.evidence
        row == [kind |-> kind, data |-> kind # "observation", mime |-> kind # "observation"]
    IN /\ job[j].at = "capture"
       /\ evidenceRows' = IF incident.there THEN evidenceRows \union {row} ELSE evidenceRows
       /\ Ends(j)
       /\ UNCHANGED <<incident, jobs, filed, started, overlapped>>

\* The capture fails, or a statement does; what was written stays.
JobFails(j) ==
    /\ job[j] # NoJob
    /\ Ends(j)
    /\ overlapped' = TRUE
    /\ UNCHANGED <<incident, evidenceRows, jobs, filed, started>>

\* run_log_cleanup: the clip's row stays, its video and the mark of it go.
ExpireClips ==
    /\ \E e \in evidenceRows : e.kind = "clip" /\ e.data
    /\ evidenceRows' = {IF e.kind = "clip" THEN [e EXCEPT !.data = FALSE, !.mime = FALSE] ELSE e
                      : e \in evidenceRows}
    /\ UNCHANGED <<incident, job, jobs, filed, started, overlapped>>

-------------------------------------------------------------------------------
(***************************************************************************)
(* Filing, and the notification that follows.                              *)
(***************************************************************************)

\* is_agent_authored: the meta of an agent's notification names its author.
AgentAuthored(author) == author = "agent"

Notify(author) == started' = IF AgentAuthored(author) THEN started ELSE started + 1

PersonFiles ==
    /\ filed.byPeople < MaxFiled
    /\ filed' = [filed EXCEPT !.today = @ + 1, !.byPeople = @ + 1]
    /\ Notify("person")
    /\ UNCHANGED <<incident, evidenceRows, job, jobs, overlapped>>

\* daily_cap_refusal.
CapReached(createdToday) == createdToday >= DailyCap

AgentCounts(j) ==
    /\ job[j] = NoJob /\ ~CapReached(filed.today) /\ filed.byAgents < MaxFiled
    /\ job' = [job EXCEPT ![j] = [at |-> "file", kind |-> "file"]]
    /\ UNCHANGED <<incident, evidenceRows, jobs, filed, started, overlapped>>

AgentFiles(j) ==
    /\ job[j].at = "file"
    /\ filed' = [filed EXCEPT !.today = @ + 1, !.byAgents = @ + 1]
    /\ Ends(j)
    /\ Notify("agent")
    /\ UNCHANGED <<incident, evidenceRows, jobs, overlapped>>

\* delete_incident of one of today's others: the count is of the rows that are
\* there, so it makes room again.
DeleteFiled ==
    /\ \/ filed.byAgents > 0 /\ filed' = [filed EXCEPT !.today = @ - 1, !.byAgents = @ - 1]
       \/ filed.byAgents < filed.today /\ filed' = [filed EXCEPT !.today = @ - 1]
    /\ UNCHANGED <<incident, evidenceRows, job, jobs, started, overlapped>>

Midnight ==
    /\ filed.today > 0
    /\ filed' = [filed EXCEPT !.today = 0, !.byAgents = 0]
    /\ UNCHANGED <<incident, evidenceRows, job, jobs, started, overlapped>>

IncidentsNext ==
    \/ \E j \in Jobs :
         \/ \E s \in IncidentStatuses : PatchStatus(j, s) \/ ToolStatus(j, s)
         \/ PatchReport(j, "edited") \/ AskFinalize(j, "final")
         \/ \E k \in {"observation", "clip"} : AskAttach(j, k)
         \/ AskDelete(j) \/ WritePatch(j) \/ DeleteIncident(j) \/ WriteStamp(j)
         \/ WriteStatus(j) \/ WriteReport(j) \/ InsertEvidence(j) \/ JobFails(j)
         \/ AgentCounts(j) \/ AgentFiles(j)
    \/ ExpireClips \/ PersonFiles \/ DeleteFiled \/ Midnight

IncidentsSpec == IncidentsInit /\ [][IncidentsNext]_incidentVars

-------------------------------------------------------------------------------
\* Who closed an incident is recorded exactly as long as it is closed, whether
\* people or agents close and reopen it, if their requests neither overlap nor
\* fail half-way: a closed one names somebody, an open one nobody.
ResolutionMatchesStatus ==
    (~overlapped /\ ~AtWork) =>
        /\ incident.status \in Terminated => incident.resolver # NoActor
        /\ incident.status = "open" => incident.resolver = NoActor

\* Evidence captured while its incident is being deleted does not survive it.
NoOrphanEvidence == ~incident.there => evidenceRows = {}

\* The dashboard offers no clip whose video retention has removed.
OfferedClipsPlay == \A e \in evidenceRows : e.mime => e.data

\* Agents that count at the same time overrun the day's cap by no more than their
\* number: of no day are there more rows that agents filed, however rows are
\* deleted, and room is made for others, between a count and an insertion.
CapOvershootBounded == filed.byAgents <= DailyCap + Cardinality(Jobs) - 1

\* An incident an agent filed starts no run, so runs and incidents cannot feed
\* each other: there are never more runs than incidents people filed.
OnlyPeopleStartRuns == started <= filed.byPeople

\* "The contract is "the FIRST report write"" (finalize_incident): a report
\* that is there is not replaced by another agent's first one.
\* TLC refutes it: two agents both read that there is none.
FirstReportStands ==
    [][\A j \in Jobs : (job[j] # NoJob /\ job[j].kind = "finalize" /\ incident' # incident)
          => (job'[j] = job[j] \/ incident.report = "unwritten")]_incidentVars

===============================================================================
