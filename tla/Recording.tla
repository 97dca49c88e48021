------------------------------- MODULE Recording --------------------------------
(***************************************************************************)
(* How one camera is to record, and what its node is told.  Four writers   *)
(* change the four columns: the dashboard's record button and the Home     *)
(* Assistant switch, the settings PATCH, and the agents' tool.  Each reads *)
(* the row and writes it in another statement.  Every heartbeat is         *)
(* answered with whether to record in the current minute.                  *)
(***************************************************************************)
EXTENDS Integers

CONSTANTS
    Writers,        \* requests at the same time
    DayMinutes,     \* minutes of a day
    MaxEdits        \* bound: requests

NoTime == -1
Minutes == 0 .. DayMinutes - 1
Modes == {TRUE, FALSE}

ASSUME DayAssumption == DayMinutes \in Nat /\ DayMinutes > 1

VARIABLES
    policy,         \* continuous_24_7, scheduled_recording and the window
    edit,           \* each writer: idle, or what it asks and what it read
    edits,
    pressed,        \* history: a button or switch turned continuous on
    crossed         \* history: two writers overlapped

recordingVars == <<policy, edit, edits, pressed, crossed>>

NoEdit == [at |-> "idle"]

RecordingInit ==
    /\ policy = [continuous |-> FALSE, scheduled |-> FALSE, start |-> NoTime, end |-> NoTime]
    /\ edit = [w \in Writers |-> NoEdit]
    /\ edits = 0 /\ pressed = FALSE /\ crossed = FALSE

\* What the row will hold: the given values, else the stored ones.
Resulting(row, given) == [c \in DOMAIN row |-> IF c \in DOMAIN given THEN given[c] ELSE row[c]]

\* The two refusals of update_recording_policy and set_camera_recording_policy.
BothModes(next) == next.continuous /\ next.scheduled
EmptyWindow(next) == next.scheduled /\ next.start # NoTime /\ next.start = next.end

StartEdit(w, kind, given) ==
    /\ edit[w] = NoEdit /\ edits < MaxEdits
    /\ edits' = edits + 1
    /\ edit' = [edit EXCEPT ![w] =
                  [at |-> "read", kind |-> kind, given |-> given, row |-> policy]]
    /\ crossed' = (crossed \/ \E v \in Writers : edit[v] # NoEdit)
    /\ UNCHANGED <<policy, pressed>>

\* toggle_recording and set_recording: only continuous_24_7, and unchecked.
PressButton(w, on) ==
    StartEdit(w, "button", [continuous |-> on])

\* The PATCH and the tool: one mode, or one end of the window, or a switch of
\* modes in one request.
Patches ==
    [continuous : Modes] \union [scheduled : Modes]
        \union {[continuous |-> m, scheduled |-> ~m] : m \in Modes}
        \union [start : {0, DayMinutes - 1, NoTime}] \union [end : {0, 1}]

AskPatch(w, kind, given) == StartEdit(w, kind, given)

\* The button writes its column when it differs from what was read, the PATCH
\* all four columns as it computed them, the tool the columns it was given.
Written(e) ==
    CASE e.kind = "button" -> IF e.row.continuous = e.given.continuous THEN policy
                              ELSE Resulting(policy, e.given)
      [] e.kind = "patch"  -> IF Resulting(e.row, e.given) = e.row THEN policy
                              ELSE Resulting(e.row, e.given)
      [] e.kind = "tool"   -> Resulting(policy, e.given)

RefusedEdit(e) ==
    e.kind # "button" /\ LET next == Resulting(e.row, e.given)
                         IN BothModes(next) \/ EmptyWindow(next)

EndEdit(w) ==
    /\ edit[w].at = "read"
    /\ policy' = IF RefusedEdit(edit[w]) THEN policy ELSE Written(edit[w])
    /\ pressed' = (pressed \/ (edit[w].kind = "button" /\ policy'.continuous))
    /\ edit' = [edit EXCEPT ![w] = NoEdit]
    /\ UNCHANGED <<edits, crossed>>

-------------------------------------------------------------------------------

\* camera_should_record_now, which a heartbeat is answered with: the start is in
\* the window, the end is not, and an end before the start is a window over
\* midnight.
InWindow(start, end, now) ==
    IF start <= end THEN start <= now /\ now < end
                    ELSE now >= start \/ now < end

ShouldRecord(row, now) ==
    \/ row.continuous
    \/ /\ row.scheduled /\ row.start # NoTime /\ row.end # NoTime
       /\ InWindow(row.start, row.end, now)

RecordingNext ==
    \/ \E w \in Writers :
         \/ \E on \in Modes : PressButton(w, on)
         \/ \E kind \in {"patch", "tool"}, p \in Patches : AskPatch(w, kind, p)
         \/ EndEdit(w)

RecordingSpec == RecordingInit /\ [][RecordingNext]_recordingVars

-------------------------------------------------------------------------------
\* A schedule records exactly the minutes from its start up to its end, going
\* round the clock: what a node is told agrees with the distance from the
\* start, for windows inside a day and over midnight alike.
ScheduleGoesRound ==
    (policy.scheduled /\ ~policy.continuous /\ policy.start # NoTime /\ policy.end # NoTime) =>
        \A now \in Minutes :
            ShouldRecord(policy, now)
                <=> (now - policy.start) % DayMinutes < (policy.end - policy.start) % DayMinutes

\* However the columns were set, one at a time and by whom, writers that did
\* not overlap never leave a schedule on whose window holds no minute.
ScheduleNeverEmpty == ~crossed => ~EmptyWindow(policy)

\* Unless somebody pressed the record button, writers that did not overlap
\* never leave both modes on, in which the schedule is ignored.
ModesExclude == (~crossed /\ ~pressed) => ~BothModes(policy)

\* "Validate the *resulting* state, not the patch, so the row can never reach
\* an impossible combination even via a direct API call" (update_recording_policy).
\* TLC refutes it: the record button validates nothing.
NeverBothModes == ~BothModes(policy)

===============================================================================
