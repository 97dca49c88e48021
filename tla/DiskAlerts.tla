----------------------------- MODULE DiskAlerts -----------------------------
(***************************************************************************)
(* Debounced alerts.  The operator's disk alert keeps its stamp in the     *)
(* check's own loop and loses it in a restart; a node's disk-low alert and *)
(* the plan-limit notice keep theirs in a settings row, read and written   *)
(* on either side of the notification, so two heartbeats can overlap.      *)
(***************************************************************************)
EXTENDS Integers, FiniteSets

CONSTANTS
    Pulses,      \* heartbeats that may be handled at once
    Reemit,      \* the re-emit interval
    MaxAlertTime \* bound on the clock

ASSUME DiskAssumption == Reemit \in Nat \ {0}

VARIABLES
    diskTime,
    diskFull,    \* the reading is at or above the threshold
    loopStamp,   \* DiskDebounce.last_emit_seconds
    rowStamp,    \* Setting cameranode_disk_low_emit_at
    pulses,      \* the heartbeats: step, time of arrival
    loopAlerts,  \* ghost: times of the operator's alerts since its last all-clear
    rowAlerts    \* ghost: times of the node's alerts since its last all-clear

diskVars == <<diskTime, diskFull, loopStamp, rowStamp, pulses, loopAlerts, rowAlerts>>

Never == -1
AtEase == [pc |-> "idle", at |-> 0]

DiskInit ==
    /\ diskTime = 0 /\ diskFull = FALSE
    /\ loopStamp = Never /\ rowStamp = Never
    /\ pulses = [p \in Pulses |-> AtEase]
    /\ loopAlerts = {} /\ rowAlerts = {}

\* Whether a stamp still silences an alert at time t.
Silences(stamp, t) == stamp # Never /\ t - stamp < Reemit

\* alert_due, from the loop's reading of the volume (check_disk_critical) or of
\* the cluster (check_cluster_disk): below the threshold the stamp is cleared.
CheckDisk ==
    /\ IF ~diskFull
       THEN loopStamp' = Never /\ loopAlerts' = {}
       ELSE /\ loopStamp' = IF Silences(loopStamp, diskTime) THEN loopStamp ELSE diskTime
            /\ loopAlerts' = IF Silences(loopStamp, diskTime) THEN loopAlerts
                             ELSE loopAlerts \cup {diskTime}
    /\ UNCHANGED <<diskTime, diskFull, rowStamp, pulses, rowAlerts>>

\* A restart starts the loop afresh; the settings row stays.  A handler killed
\* between its notification and its stamp leaves that alert unrecorded, and the
\* ghost starts over with it.
RestartLoop ==
    /\ loopStamp # Never \/ \E p \in Pulses : pulses[p].pc # "idle"
    /\ loopStamp' = Never /\ loopAlerts' = {}
    /\ pulses' = [p \in Pulses |-> AtEase]
    /\ rowAlerts' = IF \E p \in Pulses : pulses[p].pc = "stamp" THEN {} ELSE rowAlerts
    /\ UNCHANGED <<diskTime, diskFull, rowStamp>>

-----------------------------------------------------------------------------
\* check_and_emit_disk_low: a healthy reading clears the row at once, a full one
\* goes on to read it.
Pulse(p) ==
    /\ pulses[p].pc = "idle"
    /\ IF diskFull
       THEN /\ pulses' = [pulses EXCEPT ![p] = [pc |-> "read", at |-> diskTime]]
            /\ UNCHANGED <<rowStamp, rowAlerts>>
       ELSE /\ rowStamp' = Never /\ rowAlerts' = {}
            /\ UNCHANGED pulses
    /\ UNCHANGED <<diskTime, diskFull, loopStamp, loopAlerts>>

\* The stamp is judged by the heartbeat's own time.
ReadStamp(p) ==
    /\ pulses[p].pc = "read"
    /\ pulses' = [pulses EXCEPT ![p] =
         IF Silences(rowStamp, pulses[p].at) THEN AtEase ELSE [@ EXCEPT !.pc = "emit"]]
    /\ UNCHANGED <<diskTime, diskFull, loopStamp, rowStamp, loopAlerts, rowAlerts>>

\* create_notification.
EmitLow(p) ==
    /\ pulses[p].pc = "emit"
    /\ rowAlerts' = rowAlerts \cup {<<p, diskTime>>}
    /\ pulses' = [pulses EXCEPT ![p].pc = "stamp"]
    /\ UNCHANGED <<diskTime, diskFull, loopStamp, rowStamp, loopAlerts>>

\* The row takes the time of the write; a write that fails is only logged, and the
\* ghost starts over with the alert it left unrecorded.
StampLow(p) ==
    /\ pulses[p].pc = "stamp"
    /\ \/ rowStamp' = diskTime /\ UNCHANGED rowAlerts
       \/ UNCHANGED rowStamp /\ rowAlerts' = {}
    /\ pulses' = [pulses EXCEPT ![p] = AtEase]
    /\ UNCHANGED <<diskTime, diskFull, loopStamp, loopAlerts>>

FillOrFree ==
    /\ diskFull' = ~diskFull
    /\ UNCHANGED <<diskTime, loopStamp, rowStamp, pulses, loopAlerts, rowAlerts>>

DiskTick ==
    /\ diskTime < MaxAlertTime
    /\ diskTime' = diskTime + 1
    /\ UNCHANGED <<diskFull, loopStamp, rowStamp, pulses, loopAlerts, rowAlerts>>

DiskNext ==
    \/ CheckDisk \/ RestartLoop \/ FillOrFree \/ DiskTick
    \/ \E p \in Pulses : Pulse(p) \/ ReadStamp(p) \/ EmitLow(p) \/ StampLow(p)

DiskSpec == DiskInit /\ [][DiskNext]_diskVars

-----------------------------------------------------------------------------
\* alert_due: while the disk stays full the operator's alerts are at least the
\* re-emit interval apart.
OperatorAlertsSpaced ==
    \A s, t \in loopAlerts : s < t => t - s >= Reemit

\* One heartbeat alone never repeats itself: two disk-low alerts of one handler
\* within the interval need an all-clear, or a second handler, in between.
NodeAlertsSpaced ==
    \A a, b \in rowAlerts :
        a[2] < b[2] /\ a[1] = b[1] => b[2] - a[2] >= Reemit

=============================================================================
