-------------------------------- MODULE Presence --------------------------------
(***************************************************************************)
(* Whether a CameraNode and its camera are up, and what the org is told:   *)
(* the heartbeats (over HTTP and over the socket), the offline sweep, and  *)
(* the debounced announcements both make once their writes are done.       *)
(*                                                                         *)
(* Every statement commits by itself.  A heartbeat reads the node's row    *)
(* when it authenticates and the camera's row before it writes it; what it *)
(* announces is the difference between the report and what it read.        *)
(***************************************************************************)
EXTENDS Sequences, FiniteSets

CONSTANTS
    Beats,          \* heartbeats that can be handled at the same time
    Reports         \* what a heartbeat can say of the camera

Things == {"node", "camera"}
\* "failed" stands for starting, restarting, failed and error.
Statuses == {"offline", "online", "streaming", "failed"}
Words == {"online", "offline"}

ASSUME ReportsAssumption == Reports \subseteq Statuses

VARIABLES
    status,         \* the status column of the two rows
    stale,          \* last_seen is older than OFFLINE_HEARTBEAT_TIMEOUT
    beat,           \* each heartbeat: where it is, what it read and reports
    sweep,          \* the sweep: where it is, what it has still to announce
    debounced,      \* DEBOUNCE: what was announced within the last minute
    lastWord,       \* history: the last announcement about each thing
    disturbed       \* history: heartbeats and sweeps overlapped, a statement
                    \* failed or an announcement was dropped

presenceVars == <<status, stale, beat, sweep, debounced, lastWord, disturbed>>

IdleBeat == [at |-> "idle", node |-> "unread", camera |-> "unread", report |-> "online"]
IdleSweep == [at |-> "idle", tell |-> << >>]

PresenceInit ==
    /\ status = [x \in Things |-> "offline"]
    /\ stale = [x \in Things |-> TRUE]
    /\ beat = [b \in Beats |-> IdleBeat]
    /\ sweep = IdleSweep
    /\ debounced = {}
    /\ lastWord = [x \in Things |-> "offline"]
    /\ disturbed = FALSE

Busy == sweep # IdleSweep \/ \E b \in Beats : beat[b] # IdleBeat

\* emit_node_transition and emit_camera_transition: a repetition within the
\* minute is dropped.
Announce(x, word) ==
    IF <<x, word>> \in debounced
    THEN disturbed' = TRUE /\ UNCHANGED <<debounced, lastWord>>
    ELSE /\ debounced' = debounced \union {<<x, word>>}
         /\ lastWord' = [lastWord EXCEPT ![x] = word]
         /\ UNCHANGED disturbed

Silence == UNCHANGED <<debounced, lastWord, disturbed>>

\* camera_transition: online and streaming are one state, and a return is
\* announced only from offline.
CameraTransition(previous, new) ==
    IF new = "offline" /\ previous # "offline" THEN "offline"
    ELSE IF new \in {"online", "streaming"} /\ previous = "offline" THEN "online"
    ELSE "none"

\* node_came_online.
NodeCameOnline(previous) == previous # "online"

-------------------------------------------------------------------------------
(***************************************************************************)
(* node_heartbeat and handle_heartbeat.                                    *)
(***************************************************************************)
BeatReads(b) ==
    /\ beat[b] = IdleBeat
    /\ \E r \in Reports :
         beat' = [beat EXCEPT ![b] =
                    [at |-> "node", node |-> status["node"], camera |-> "unread",
                     report |-> r]]
    /\ disturbed' = (disturbed \/ Busy)
    /\ UNCHANGED <<status, stale, sweep, debounced, lastWord>>

\* Mutant: the node's previous status is taken from the row as it was written.
BeatWritesNode_ReadsBack(b) ==
    /\ beat[b].at = "node"
    /\ status' = [status EXCEPT !["node"] = "online"]
    /\ stale' = [stale EXCEPT !["node"] = FALSE]
    /\ beat' = [beat EXCEPT ![b].at = "known", ![b].node = "online"]
    /\ UNCHANGED sweep /\ Silence

BeatWritesNode(b) ==
    /\ beat[b].at = "node"
    /\ status' = [status EXCEPT !["node"] = "online"]
    /\ stale' = [stale EXCEPT !["node"] = FALSE]
    /\ beat' = [beat EXCEPT ![b].at = "known"]
    /\ UNCHANGED sweep /\ Silence

BeatReadsCamera(b) ==
    /\ beat[b].at = "known"
    /\ beat' = [beat EXCEPT ![b].at = "camera", ![b].camera = status["camera"]]
    /\ UNCHANGED <<status, stale, sweep>> /\ Silence

BeatWritesCamera(b) ==
    /\ beat[b].at = "camera"
    /\ status' = [status EXCEPT !["camera"] = beat[b].report]
    /\ stale' = [stale EXCEPT !["camera"] = FALSE]
    /\ beat' = [beat EXCEPT ![b].at = "tell_node"]
    /\ UNCHANGED sweep /\ Silence

\* emit_transitions: the node first.
BeatTellsNode(b) ==
    /\ beat[b].at = "tell_node"
    /\ IF NodeCameOnline(beat[b].node) THEN Announce("node", "online") ELSE Silence
    /\ beat' = [beat EXCEPT ![b].at = "tell_camera"]
    /\ UNCHANGED <<status, stale, sweep>>

BeatTellsCamera(b) ==
    LET word == CameraTransition(beat[b].camera, beat[b].report)
    IN /\ beat[b].at = "tell_camera"
       /\ IF word # "none" THEN Announce("camera", word) ELSE Silence
       /\ beat' = [beat EXCEPT ![b] = IdleBeat]
       /\ UNCHANGED <<status, stale, sweep>>

\* A failed statement ends the heartbeat; what it had collected is not
\* announced, what it had written stays.
BeatFails(b) ==
    /\ beat[b].at \in {"node", "known", "camera"}
    /\ beat' = [beat EXCEPT ![b] = IdleBeat]
    /\ disturbed' = TRUE
    /\ UNCHANGED <<status, stale, sweep, debounced, lastWord>>

-------------------------------------------------------------------------------
(***************************************************************************)
(* run_offline_sweep: two UPDATE ... RETURNING statements, and then what   *)
(* they returned is announced.                                             *)
(***************************************************************************)

StaleBeat(x) == stale[x] /\ IF x = "node" THEN status[x] = "online"
                                     ELSE status[x] # "offline"

SweepThing(x, from, to) ==
    /\ sweep.at = from
    /\ status' = [status EXCEPT ![x] = IF StaleBeat(x) THEN "offline" ELSE @]
    /\ sweep' = [at |-> to,
                 tell |-> IF StaleBeat(x) THEN Append(sweep.tell, x) ELSE sweep.tell]
    /\ disturbed' = (disturbed \/ \E b \in Beats : beat[b] # IdleBeat)
    /\ UNCHANGED <<stale, beat, debounced, lastWord>>

SweepNodes == SweepThing("node", "idle", "cameras")
SweepCameras == SweepThing("camera", "cameras", "tell")

SweepTells ==
    /\ sweep.at = "tell"
    /\ IF sweep.tell = << >>
       THEN sweep' = IdleSweep /\ Silence
       ELSE /\ Announce(Head(sweep.tell), "offline")
            /\ sweep' = [sweep EXCEPT !.tell = Tail(@)]
    /\ UNCHANGED <<status, stale, beat>>

-------------------------------------------------------------------------------
\* Ninety seconds without a heartbeat.  A sweep takes the time once.
Lapse(x) ==
    /\ ~stale[x] /\ sweep = IdleSweep
    /\ stale' = [stale EXCEPT ![x] = TRUE]
    /\ UNCHANGED <<status, beat, sweep>> /\ Silence

\* A minute after an announcement.
ForgetWord(x, word) ==
    /\ <<x, word>> \in debounced
    /\ debounced' = debounced \ {<<x, word>>}
    /\ UNCHANGED <<status, stale, beat, sweep, lastWord, disturbed>>

PresenceNext ==
    \/ \E b \in Beats :
         \/ BeatReads(b) \/ BeatWritesNode(b) \/ BeatReadsCamera(b)
         \/ BeatWritesCamera(b) \/ BeatTellsNode(b) \/ BeatTellsCamera(b)
         \/ BeatFails(b)
    \/ SweepNodes \/ SweepCameras \/ SweepTells
    \/ \E x \in Things : Lapse(x) \/ \E word \in Words : ForgetWord(x, word)

PresenceSpec == PresenceInit /\ [][PresenceNext]_presenceVars

-------------------------------------------------------------------------------
\* What the org was told last is so, for every sequence of reports a node can
\* send and every sweep, as long as they do not overlap, no statement fails and
\* nothing was dropped as a repetition: nobody is told that a thing is up which
\* is gone, a thing that is gone is known to be, and a node that is back too.
LastWordTrue ==
    (~disturbed /\ ~Busy) =>
        /\ lastWord["node"] = status["node"]
        /\ status["camera"] = "offline" => lastWord["camera"] = "offline"

\* A flapping thing is not announced twice in the same direction within a
\* minute, however many heartbeats and sweeps find the same change at once.
NoRepetition ==
    [][\A x \in Things, w \in Words :
          (<<x, w>> \in debounced /\ lastWord[x] # w) => lastWord'[x] # w]_presenceVars

\* "whoever wanted the 3am alert wants the all-clear too" (INBOX_KIND_TO_SETTING):
\* a camera that was announced as gone and streams again has been announced as
\* back, with no overlap, no failure and no repetition in the way.
\* TLC refutes it: a camera that comes back through another status, such as
\* starting, is no longer coming back from offline.
AllClearFollows ==
    (~disturbed /\ ~Busy /\ status["camera"] \in {"online", "streaming"})
        => lastWord["camera"] = "online"

===============================================================================
