----------------------------- MODULE Retention -----------------------------
(***************************************************************************)
(* The daily clean-up of one org's logs, of settled mail and of the        *)
(* markers that recognise a redelivered webhook.  Each DELETE is a         *)
(* statement of its own that may fail and end the pass; plans change and   *)
(* rows arrive in between.  Days are the unit; the tables are handled in   *)
(* the order of the constant TableOrder.                                   *)
(***************************************************************************)
EXTENDS Integers, Sequences, FiniteSets

CONSTANTS
    TableOrder,    \* the statements of one org, in order; the last is the clips
    NodeStamped,   \* the tables whose rows carry a node's own timestamp
    FreeDays,      \* log_retention_days of the free plan
    PaidDays,      \* ... of a paid plan
    OutboxDays,    \* OUTBOX_TERMINAL_DAYS
    MarkerDays,    \* WEBHOOK_MARKER_DAYS
    RetryDays,     \* how long the sender redelivers a webhook
    Deliveries,    \* the deliveries of one webhook that may overlap
    MaxLogRows,    \* bound on the rows of a table
    MaxDay         \* bound on the calendar

ASSUME RetentionAssumption ==
    /\ FreeDays \in Nat /\ PaidDays \in Nat /\ FreeDays < PaidDays
    /\ RetryDays \in Nat /\ MarkerDays \in Nat /\ RetryDays < MarkerDays
    /\ OutboxDays \in Nat /\ TableOrder \in Seq(STRING)

VARIABLES
    today,
    logRows,     \* rows by table: the days they carry
    mailRows,    \* email_outbox: [status, at]
    lateRows,    \* history: older than the pass's cutoff, but come after its statement
    hookMark,    \* the webhook's row in processed_webhooks: its processed_at
    hookTold,    \* history: a delivery of the webhook has been answered 200
    hookCall,    \* delivery -> [at, told: the webhook was answered when it began]
    planRow,     \* the org_plan setting: "paid", "free" or unreadable
    sweep,       \* the pass: statement, day it began, retention it resolved
    wronged      \* history: a paid org's row was deleted while its plan row was readable

hookVars      == <<hookMark, hookTold, hookCall>>
retentionVars == <<today, logRows, mailRows, lateRows, hookVars, planRow, sweep, wronged>>

Tables      == {TableOrder[i] : i \in DOMAIN TableOrder}
SettledMail == {"sent", "failed", "suppressed"}
NoMark   == -1
AtRest   == [pc |-> 0, began |-> 0, keep |-> 0]
Undelivered == [at |-> "idle", told |-> FALSE]

RetentionInit ==
    /\ today = 0
    /\ logRows = [t \in Tables |-> {}]
    /\ mailRows = {}
    /\ lateRows = {}
    /\ hookMark = NoMark /\ hookTold = FALSE
    /\ hookCall = [d \in Deliveries |-> Undelivered]
    /\ planRow \in {"paid", "free"}
    /\ sweep = AtRest
    /\ wronged = FALSE

\* The statements after the org's own: the outbox, the markers, the end.
MailStep   == Len(TableOrder) + 1
MarkerStep == MailStep + 1
Finished   == MarkerStep + 1

\* A row is written with the day it happened; a motion event with the day its
\* node says, which may be any.
AddLog(t, day) ==
    /\ day = today \/ t \in NodeStamped
    /\ day \notin logRows[t] /\ Cardinality(logRows[t]) < MaxLogRows
    /\ logRows' = [logRows EXCEPT ![t] = @ \cup {day}]
    /\ lateRows' = IF /\ \E i \in DOMAIN TableOrder : TableOrder[i] = t /\ i < sweep.pc
                      /\ day < sweep.began - sweep.keep
                   THEN lateRows \cup {<<t, day>>} ELSE lateRows
    /\ UNCHANGED <<today, mailRows, hookVars, planRow, sweep, wronged>>

AddMail ==
    /\ Cardinality(mailRows) < MaxLogRows
    /\ mailRows' = mailRows \cup {[status |-> "pending", at |-> today]}
    /\ UNCHANGED <<today, logRows, lateRows, hookVars, planRow, sweep, wronged>>

\* The worker settles a mail; the row keeps the day it was queued.
SettleMail(m, status) ==
    /\ m.status = "pending"
    /\ mailRows' = (mailRows \ {m}) \cup {[m EXCEPT !.status = status]}
    /\ lateRows' = IF sweep.pc > MailStep /\ m.at < sweep.began - OutboxDays
                   THEN lateRows \cup {<<"email_outbox", m.at>>} ELSE lateRows
    /\ UNCHANGED <<today, logRows, hookVars, planRow, sweep, wronged>>

-----------------------------------------------------------------------------
(* A delivery of the webhook: the handler looks for the marker, applies the *)
(* effects, writes the marker and answers.  It may fail or be dropped       *)
(* between any two, and the sender, until RetryDays, delivers again.        *)
CheckMarker(d) ==
    /\ today =< RetryDays /\ hookCall[d].at = "idle"
    /\ IF hookMark # NoMark
       THEN hookTold' = TRUE /\ UNCHANGED hookCall
       ELSE /\ hookCall' = [hookCall EXCEPT ![d] = [at |-> "unseen", told |-> hookTold]]
            /\ UNCHANGED hookTold
    /\ UNCHANGED <<today, logRows, mailRows, lateRows, hookMark, planRow, sweep, wronged>>

ApplyHook(d) ==
    /\ hookCall[d].at = "unseen"
    /\ hookCall' = [hookCall EXCEPT ![d].at = "applied"]
    /\ UNCHANGED <<today, logRows, mailRows, lateRows, hookMark, hookTold, planRow, sweep,
                   wronged>>

\* The marker of an overlapping delivery is a unique violation, and benign.
MarkHook(d) ==
    /\ hookCall[d].at = "applied"
    /\ hookMark' = IF hookMark = NoMark THEN today ELSE hookMark
    /\ hookTold' = TRUE
    /\ hookCall' = [hookCall EXCEPT ![d] = Undelivered]
    /\ UNCHANGED <<today, logRows, mailRows, lateRows, planRow, sweep, wronged>>

FailHook(d) ==
    /\ hookCall[d].at # "idle"
    /\ hookCall' = [hookCall EXCEPT ![d] = Undelivered]
    /\ UNCHANGED <<today, logRows, mailRows, lateRows, hookMark, hookTold, planRow, sweep,
                   wronged>>

SetPlan(p) ==
    /\ planRow # p /\ planRow' = p
    /\ UNCHANGED <<today, logRows, mailRows, lateRows, hookVars, sweep, wronged>>

-----------------------------------------------------------------------------
(* resolve_org_plan, as this pass sees it: the row if it names a paid plan; *)
(* a failed read is an empty row, and a failed live lookup then is "free".  *)
Resolutions == CASE planRow = "paid"       -> {PaidDays}
                 [] planRow = "free"       -> {FreeDays}
                 [] planRow = "unreadable" -> {FreeDays, PaidDays}

StartPass ==
    /\ sweep.pc = 0
    /\ \E keep \in Resolutions :
         sweep' = [pc |-> 1, began |-> today, keep |-> keep]
    /\ UNCHANGED <<today, logRows, mailRows, lateRows, hookVars, planRow, wronged>>

\* What a statement with this cutoff deletes: strictly older rows only.
Older(days, keep) == {d \in days : d < sweep.began - keep}

\* DELETE FROM <table> WHERE org_id = $1 AND <timestamp> < $2 (for clips the
\* video is nulled and the evidence row stays).
DeleteLogs ==
    /\ sweep.pc \in DOMAIN TableOrder
    /\ LET t == TableOrder[sweep.pc] IN
       /\ logRows' = [logRows EXCEPT ![t] = @ \ Older(@, sweep.keep)]
       /\ wronged' = \/ wronged
                     \/ /\ planRow = "paid" /\ sweep.keep = PaidDays
                        /\ \E d \in logRows[t] \ logRows'[t] : today - d =< PaidDays
    /\ sweep' = [sweep EXCEPT !.pc = @ + 1]
    /\ UNCHANGED <<today, mailRows, lateRows, hookVars, planRow>>

\* Settled mail goes; a pending or sending row is never touched.
DeleteOutbox ==
    /\ sweep.pc = MailStep
    /\ mailRows' = {m \in mailRows : ~(m.status \in SettledMail
                                       /\ m.at < sweep.began - OutboxDays)}
    /\ sweep' = [sweep EXCEPT !.pc = @ + 1]
    /\ UNCHANGED <<today, logRows, lateRows, hookVars, planRow, wronged>>

DeleteMarkers ==
    /\ sweep.pc = MarkerStep
    /\ hookMark' = IF hookMark < sweep.began - MarkerDays THEN NoMark ELSE hookMark
    /\ sweep' = [sweep EXCEPT !.pc = @ + 1]
    /\ UNCHANGED <<today, logRows, mailRows, lateRows, hookTold, hookCall, planRow, wronged>>

\* A failed statement ends the pass; so does its last one.
EndPass ==
    /\ sweep.pc # 0
    /\ sweep' = AtRest /\ lateRows' = {}
    /\ UNCHANGED <<today, logRows, mailRows, hookVars, planRow, wronged>>

NextDay ==
    /\ today < MaxDay
    /\ today' = today + 1
    /\ UNCHANGED <<logRows, mailRows, lateRows, hookVars, planRow, sweep, wronged>>

RetentionNext ==
    \/ \E t \in Tables, day \in 0 .. MaxDay : AddLog(t, day)
    \/ AddMail
    \/ \E m \in mailRows, s \in SettledMail : SettleMail(m, s)
    \/ \E d \in Deliveries :
         CheckMarker(d) \/ ApplyHook(d) \/ MarkHook(d) \/ FailHook(d)
    \/ \E p \in {"paid", "free", "unreadable"} : SetPlan(p)
    \/ StartPass \/ DeleteLogs \/ DeleteOutbox \/ DeleteMarkers \/ EndPass
    \/ NextDay

RetentionSpec == RetentionInit /\ [][RetentionNext]_retentionVars

-----------------------------------------------------------------------------
\* A pass that resolved the paid tier never takes from a paid org a row that is
\* still within that tier, however long the pass runs and whichever statement
\* failed before.
PaidHistoryKept == ~wronged

\* run_log_cleanup: when a pass reaches its end, a row of the org older than the
\* cutoff the pass computed is one that came after its table's statement, and
\* only a node's stamp can make a row that old; a settled mail that old settled
\* after the outbox's statement.  The clips are cleared like the tables.
PassClearsAll ==
    sweep.pc = Finished =>
        /\ \A t \in Tables : \A d \in logRows[t] :
             \/ d >= sweep.began - sweep.keep
             \/ t \in NodeStamped /\ <<t, d>> \in lateRows
        /\ \A m \in mailRows :
             \/ m.status = "pending" \/ m.at >= sweep.began - OutboxDays
             \/ <<"email_outbox", m.at>> \in lateRows

\* clerk_webhook and the markers' clean-up: once a delivery was answered 200, no
\* later delivery gets past the check to apply the effects again, however the
\* passes fall.  (Before that, a delivery that fails after the effects, or two
\* that overlap, apply them again, as the handler's comment says.)
HookAppliedOnce == \A d \in Deliveries : ~hookCall[d].told

=============================================================================
