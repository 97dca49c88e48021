------------------------------ MODULE NodeSettings ------------------------------
(***************************************************************************)
(* Two things a node and its row both know.  The storage cap: an admin     *)
(* changes it by a command over the socket, the node applies it, and the   *)
(* row is written from the answer and by every heartbeat.  The codec: each *)
(* camera reports its own, and the node's row takes it while it has none.  *)
(***************************************************************************)
EXTENDS Integers, Sequences

CONSTANTS
    Caps,               \* caps an admin can ask for; Refused: too large for the disk
    Refused,
    Askers,             \* requests at the same time
    Reporters,          \* cameras reporting their codec
    MaxSettings         \* bound: commands and heartbeats sent

VARIABLES
    nodeCap, rowCap,    \* the node's cap; camera_nodes.storage_max_bytes
    ask,                \* each admin's request: [at, cap]
    wire,               \* what the node has sent and the backend not handled
    sentCount,
    had,                \* history: the caps the node has had
    codecRow,           \* camera_nodes.video_codec
    codecReport,        \* each camera's report: where it is, what it read
    firstCodec          \* history: the first codec that was committed

settingsVars == <<nodeCap, rowCap, ask, wire, sentCount, had, codecRow, codecReport, firstCodec>>

NoCodec == ""
IdleAsk == [at |-> "idle", cap |-> 0]

SettingsInit ==
    /\ nodeCap = 0 /\ rowCap = 0 /\ had = {0} /\ sentCount = 0
    /\ ask = [a \in Askers |-> IdleAsk]
    /\ wire = << >>
    /\ codecRow = NoCodec /\ firstCodec = NoCodec
    /\ codecReport = [r \in Reporters |-> [at |-> "idle", empty |-> FALSE]]

codecVars == <<codecRow, codecReport, firstCodec>>

\* set_storage_cap: the node is connected, and the command is sent.
AskCap(a, cap) ==
    /\ ask[a].at = "idle" /\ sentCount < MaxSettings
    /\ sentCount' = sentCount + 1
    /\ ask' = [ask EXCEPT ![a] = [at |-> "sent", cap |-> cap]]
    /\ UNCHANGED <<nodeCap, rowCap, wire, had, codecVars>>

\* The node (external) applies or refuses the value and answers.
NodeApplies(a) ==
    LET ok == ask[a].cap \notin Refused
    IN /\ ask[a].at \in {"sent", "given up"}
       /\ nodeCap' = IF ok THEN ask[a].cap ELSE nodeCap
       /\ had' = had \union {nodeCap'}
       /\ ask' = [ask EXCEPT ![a] = IF ask[a].at = "given up" THEN IdleAsk
                    ELSE [@ EXCEPT !.at = IF ok THEN "answered" ELSE "refused"]]
       /\ UNCHANGED <<rowCap, wire, sentCount, codecVars>>

\* cap_answer_ok: only a success is written to the row.
WriteCap(a) ==
    /\ ask[a].at = "answered"
    /\ rowCap' = ask[a].cap
    /\ ask' = [ask EXCEPT ![a] = IdleAsk]
    /\ UNCHANGED <<nodeCap, wire, sentCount, had, codecVars>>

CapAnswerRefused(a) ==
    /\ ask[a].at = "refused"
    /\ ask' = [ask EXCEPT ![a] = IdleAsk]
    /\ UNCHANGED <<nodeCap, rowCap, wire, sentCount, had, codecVars>>

\* 504: the node may still apply the change, or never have got the command;
\* an answer that was on its way is dropped.
CapTimeout(a) ==
    /\ ask[a].at \in {"sent", "answered", "refused"}
    /\ ask' = [ask EXCEPT ![a] = IF ask[a].at = "sent" THEN [@ EXCEPT !.at = "given up"]
                                 ELSE IdleAsk]
    /\ UNCHANGED <<nodeCap, rowCap, wire, sentCount, had, codecVars>>

CommandLost(a) ==
    /\ ask[a].at = "given up"
    /\ ask' = [ask EXCEPT ![a] = IdleAsk]
    /\ UNCHANGED <<nodeCap, rowCap, wire, sentCount, had, codecVars>>

\* The node reports the cap it has; the backend handles the reports in turn.
SendBeat ==
    /\ sentCount < MaxSettings
    /\ sentCount' = sentCount + 1
    /\ wire' = Append(wire, nodeCap)
    /\ UNCHANGED <<nodeCap, rowCap, ask, had, codecVars>>

HandleBeat ==
    /\ wire # << >>
    /\ rowCap' = Head(wire)
    /\ wire' = Tail(wire)
    /\ UNCHANGED <<nodeCap, ask, sentCount, had, codecVars>>

-------------------------------------------------------------------------------
\* report_camera_codec: the node's codec is read with its key, outside the
\* transaction that writes the camera's and, if there was none, the node's.
ReadCodec(r) ==
    /\ codecReport[r].at = "idle"
    /\ codecReport' = [codecReport EXCEPT ![r] = [at |-> "read", empty |-> codecRow = NoCodec]]
    /\ UNCHANGED <<nodeCap, rowCap, ask, wire, sentCount, had, codecRow, firstCodec>>

CommitCodec(r) ==
    /\ codecReport[r].at = "read"
    /\ codecRow' = IF codecReport[r].empty THEN r ELSE codecRow
    /\ firstCodec' = IF firstCodec = NoCodec THEN r ELSE firstCodec
    /\ codecReport' = [codecReport EXCEPT ![r].at = "done"]
    /\ UNCHANGED <<nodeCap, rowCap, ask, wire, sentCount, had>>

SettingsNext ==
    \/ \E a \in Askers :
         \/ \E cap \in Caps \union Refused : AskCap(a, cap)
         \/ NodeApplies(a) \/ WriteCap(a) \/ CapAnswerRefused(a) \/ CapTimeout(a)
         \/ CommandLost(a)
    \/ SendBeat \/ HandleBeat
    \/ \E r \in Reporters : ReadCodec(r) \/ CommitCodec(r)

SettingsSpec == SettingsInit /\ [][SettingsNext]_settingsVars

-------------------------------------------------------------------------------
\* Whatever commands time out, are refused, cross each other or are applied
\* after the admin was told they failed, the dashboard never shows a cap that
\* the node has not had.
RowCapWasReal == rowCap \in had

\* The node keeps the codec it has: once a report has seen it, no later one
\* replaces it.
CodecSettles ==
    [][(/\ codecRow # NoCodec
        /\ \A r \in Reporters : codecReport[r].at = "read" => ~codecReport[r].empty)
          => codecRow' = codecRow]_settingsVars

\* "The node inherits the first codec any of its cameras reports"
\* (report_camera_codec).
\* TLC refutes it: two reports both read that there is none.
FirstCodecInherited == codecRow = firstCodec

===============================================================================
