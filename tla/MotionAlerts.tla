------------------------------ MODULE MotionAlerts ------------------------------
(***************************************************************************)
(* Motion e-mail of one camera: the first event of a window is mailed at   *)
(* once and anchors the window in a setting, the events after it are       *)
(* silenced, and the digest loop counts them when the window has closed.   *)
(* An event's handler and the loop are sequences of database statements,   *)
(* each one step; they interleave with each other.                         *)
(***************************************************************************)
EXTENDS Integers, FiniteSets

CONSTANTS
    Events,     \* motion events of the camera
    Cooldown,   \* Setting(email_motion_cooldown_minutes), at least 1
    Fallback,   \* the minutes taken when that setting cannot be read: 15
    Stamps,     \* the times that nodes give their events
    MaxClock    \* bound: the clock

ASSUME MotionConstants ==
    /\ Cooldown \in Nat \ {0} /\ Fallback \in Nat \ {0}
    /\ Stamps \subseteq Nat \ {0} /\ MaxClock \in Nat

VARIABLES
    clock,      \* now_naive()
    anchor,     \* Setting(motion_email_cooldown_start:<camera>), 0: no row
    mailMotion, \* Setting(email_motion)
    stamp,      \* the motion_events rows: timestamp, 0: no row
    report,     \* each event's handler: where it is; the anchor it has read,
                \* then the time it is to write
    tick,       \* the digest loop: where it is, what it selected and counted
    digested,   \* history: events counted in a digest that was mailed
    silencedBy, \* history: the anchor that silenced an event, 0: none
    closed,     \* history: anchors a tick removed with all it counted mailed
    misread,    \* history: the fallback was taken for another cooldown
    unsaid      \* history: motion mail has been off, or a digest was not mailed

motionVars == <<clock, anchor, mailMotion, stamp, report, tick, digested,
                silencedBy, closed, misread, unsaid>>
motionHistory == <<digested, silencedBy, closed, misread, unsaid>>

IdleTick == [at |-> "idle", now |-> 0, anchor |-> 0, extra |-> {}, told |-> FALSE]

MotionInit ==
    /\ clock = 1
    /\ anchor = 0
    /\ mailMotion \in BOOLEAN /\ unsaid = ~mailMotion
    /\ stamp = [e \in Events |-> 0]
    /\ report = [e \in Events |-> [at |-> "none", held |-> 0]]
    /\ tick = IdleTick
    /\ digested = {} /\ closed = {} /\ misread = FALSE
    /\ silencedBy = [e \in Events |-> 0]

-------------------------------------------------------------------------------
(***************************************************************************)
(* handle_motion_event, then create_notification.                          *)
(***************************************************************************)

\* The row is stamped with the time the node gives, its offset dropped, or with
\* now if it gives none; the node's clock need not agree with the server's.  A
\* refused event, and a failed insert, leave nothing.
SaveMotion(e) ==
    /\ report[e].at = "none"
    /\ \/ /\ \E ts \in Stamps \union {clock} : stamp' = [stamp EXCEPT ![e] = ts]
          /\ report' = [report EXCEPT ![e].at = "gate"]
       \/ /\ report' = [report EXCEPT ![e].at = "done"]
          /\ UNCHANGED stamp
    /\ UNCHANGED <<clock, anchor, mailMotion, tick, motionHistory>>

\* The inbox row, whose failed insert ends the handler, and the e-mail gate,
\* which is shut when it cannot be read.
MailGate(e) ==
    /\ report[e].at = "gate"
    /\ \/ mailMotion /\ report' = [report EXCEPT ![e].at = "claim"]
       \/ report' = [report EXCEPT ![e].at = "done"]
    /\ UNCHANGED <<clock, anchor, mailMotion, stamp, tick, motionHistory>>

Open(a, now, span) == a # 0 /\ now - a < span

\* The cooldown as a statement of its own reads it.
Spans == {Cooldown, Fallback}
ReadSpan(span) == misread' = (misread \/ span # Cooldown)

\* claim_motion_cooldown_or_silence: the anchor is read; none is seen when the
\* read fails.
ClaimRead(e) ==
    /\ report[e].at = "claim"
    /\ \E seen \in {anchor, 0} : report' = [report EXCEPT ![e] = [at |-> "judge", held |-> seen]]
    /\ UNCHANGED <<clock, anchor, mailMotion, stamp, tick, motionHistory>>

\* Then the cooldown and the clock: an event in an open window is silenced.
ClaimJudge(e) ==
    /\ report[e].at = "judge"
    /\ \E span \in Spans :
         /\ ReadSpan(span)
         /\ IF Open(report[e].held, clock, span)
            THEN /\ report' = [report EXCEPT ![e] = [at |-> "done", held |-> 0]]
                 /\ silencedBy' = [silencedBy EXCEPT ![e] = report[e].held]
            ELSE /\ report' = [report EXCEPT ![e] = [at |-> "anchor", held |-> clock]]
                 /\ UNCHANGED silencedBy
    /\ UNCHANGED <<clock, anchor, mailMotion, stamp, tick, digested, closed, unsaid>>

\* The anchor is written in a statement of its own, and the event is mailed
\* whether or not the write succeeds.
ClaimWrite(e) ==
    /\ report[e].at = "anchor"
    /\ anchor' \in {report[e].held, anchor}
    /\ report' = [report EXCEPT ![e] = [at |-> "done", held |-> 0]]
    /\ UNCHANGED <<clock, mailMotion, stamp, tick, motionHistory>>

-------------------------------------------------------------------------------
(***************************************************************************)
(* run_motion_digest.                                                      *)
(***************************************************************************)
SelectAnchor ==
    /\ tick.at = "idle" /\ anchor # 0
    /\ tick' = [IdleTick EXCEPT !.at = "count", !.now = clock, !.anchor = anchor]
    /\ UNCHANGED <<clock, anchor, mailMotion, stamp, report, motionHistory>>

\* Mutant: the minute after the anchor is left out.
Extra_Late(a, span) == {e \in Events : stamp[e] > a + 1 /\ stamp[e] <= a + span}

\* Strictly after the anchor, up to the end of the window.
Extra(a, span) == {e \in Events : stamp[e] > a /\ stamp[e] <= a + span}

CountExtra ==
    /\ tick.at = "count"
    /\ \E span \in Spans :
         /\ ReadSpan(span)
         /\ tick' = IF Open(tick.anchor, tick.now, span)
                    THEN IdleTick
                    ELSE [tick EXCEPT !.at = "emit", !.extra = Extra(tick.anchor, span)]
    /\ UNCHANGED <<clock, anchor, mailMotion, stamp, report, digested, silencedBy,
                   closed, unsaid>>

\* A digest is not mailed when mail is off or the gate cannot be read, when its
\* inbox row or its outbox rows cannot be written, or nobody receives it; the tick
\* goes on all the same.
EmitDigest ==
    /\ tick.at = "emit"
    /\ \E sent \in BOOLEAN :
         /\ sent => mailMotion /\ tick.extra # {}
         /\ tick' = [tick EXCEPT !.at = "delete", !.told = sent \/ tick.extra = {}]
         /\ digested' = IF sent THEN digested \union tick.extra ELSE digested
         /\ unsaid' = (unsaid \/ ~(sent \/ tick.extra = {}))
    /\ UNCHANGED <<clock, anchor, mailMotion, stamp, report, silencedBy, closed,
                   misread>>

\* DELETE ... WHERE id = $1 AND value = $2.
DeleteAnchor ==
    /\ tick.at = "delete"
    /\ IF anchor = tick.anchor
       THEN /\ anchor' = 0
            /\ closed' = IF tick.told THEN closed \union {anchor} ELSE closed
       ELSE UNCHANGED <<anchor, closed>>
    /\ tick' = IdleTick
    /\ UNCHANGED <<clock, mailMotion, stamp, report, digested, silencedBy, misread,
                   unsaid>>

\* A failed statement, or a restart, ends the tick: every anchor that is left
\* waits for the next one.
AbandonTick ==
    /\ tick.at # "idle" /\ tick' = IdleTick
    /\ UNCHANGED <<clock, anchor, mailMotion, stamp, report, motionHistory>>

\* update_email_preferences.
SetMailMotion ==
    /\ mailMotion' = ~mailMotion /\ unsaid' = TRUE
    /\ UNCHANGED <<clock, anchor, stamp, report, tick, digested, silencedBy, closed,
                   misread>>

AdvanceClock ==
    /\ clock < MaxClock /\ clock' = clock + 1
    /\ UNCHANGED <<anchor, mailMotion, stamp, report, tick, motionHistory>>

MotionNext ==
    \/ \E e \in Events :
         \/ SaveMotion(e) \/ MailGate(e)
         \/ ClaimRead(e) \/ ClaimJudge(e) \/ ClaimWrite(e)
    \/ SelectAnchor \/ CountExtra \/ EmitDigest \/ DeleteAnchor \/ AbandonTick
    \/ SetMailMotion \/ AdvanceClock

MotionSpec == MotionInit /\ [][MotionNext]_motionVars

-------------------------------------------------------------------------------
\* A digest tick never closes a window that is still open: an event that
\* re-armed the anchor while the tick was counting keeps its window, so the
\* next event is silenced and not mailed at once again; the setting having been
\* readable so far.
FreshWindowKept ==
    [][(anchor # 0 /\ anchor' = 0 /\ ~misread) => ~Open(anchor, clock, Cooldown)]_motionVars

\* An event that a window silenced and whose row the node's clock puts in it.
SilencedIn(e, a) ==
    silencedBy[e] = a /\ stamp[e] > a /\ stamp[e] <= a + Cooldown

\* When a tick removes an anchor with what it counted mailed, every event that
\* this window silenced is in a mailed digest, however handlers, ticks, failed
\* ticks, failed reads and re-arming interleave.  Outside are the rows that the
\* node's clock puts before or after the window, the digests whose mail fails
\* (their anchor is dropped all the same), and, once the cooldown has been read as
\* another than it is, everything.
ClosedWindowDigested ==
    ~misread => \A e \in Events : \A a \in closed : SilencedIn(e, a) => e \in digested

\* "the rest reach the inbox and the SSE above but skip the outbox, and the
\* digest loop summarises them when the window closes" (create_notification):
\* once the window that silenced an event is gone and no tick is at work, the
\* event has been counted in a digest, mail having been on and sent throughout.
\* TLC refutes it with three events: an event that finds the anchor expired
\* re-arms it before the tick comes round, and the tick counts from there.
SilencedSummarised ==
    (tick.at = "idle" /\ ~unsaid /\ ~misread)
        => \A e \in Events :
             (silencedBy[e] \notin {0, anchor} /\ SilencedIn(e, silencedBy[e]))
                 => e \in digested

===============================================================================
