------------------------------ MODULE EmailOutbox ------------------------------
(***************************************************************************)
(* The email outbox: the producer, the worker that drains it in ticks, the *)
(* provider behind it, and the writers that meet the worker half way (a    *)
(* bounce or an unsubscribe, an erasure).                                  *)
(*                                                                         *)
(* A tick reclaims rows left in "sending", selects a batch, marks it, and  *)
(* takes its rows one by one: suppression lookup, request, outcome, log    *)
(* line.  Each is a statement of its own; the process may die, and a       *)
(* statement may fail, between any two.  Rows are numbered in the order    *)
(* of created_at.  Only the age of last_attempt_at is kept of time.        *)
(***************************************************************************)
EXTENDS Naturals, Sequences, FiniteSets

CONSTANTS
    Rows,           \* outbox ids
    BatchSize,      \* EMAIL_WORKER_BATCH_SIZE (20)
    MaxAttempts,    \* EMAIL_MAX_ATTEMPTS (3)
    ReclaimAge,     \* _SENDING_RECLAIM_AGE_SECONDS, in units of Tick
    MaxCrashes      \* bound: how often the process dies or a tick fails

ASSUME EmailOutboxConstants ==
    /\ Rows \subseteq Nat /\ IsFiniteSet(Rows)
    /\ BatchSize \in Nat \ {0}
    /\ MaxAttempts \in Nat \ {0}
    /\ ReclaimAge \in Nat
    /\ MaxCrashes \in Nat

VARIABLES
    status, attempts, age,  \* columns of email_outbox; age of last_attempt_at
    messageId,  \* resend_message_id is stored
    log,        \* lines of email_log per row
    suppressed, \* rows whose address is on email_suppression
    accepted,   \* the provider has taken the message (idempotency key)
    pc,         \* the worker's place in its tick
    batch,      \* rows of the batch still to do, oldest first
    read,       \* attempts as the batch's SELECT read it
    outcome,    \* process_row's result for the row at hand
    enabled,    \* EMAIL_ENABLED, read from the environment at start-up
    crashes

columns == <<status, attempts, age, messageId>>
worker == <<pc, batch, read, outcome, enabled>>
vars == <<columns, log, suppressed, accepted, worker, crashes>>

Settled == {"sent", "failed", "suppressed"}

Init ==
    /\ status = [m \in Rows |-> "absent"]
    /\ attempts = [m \in Rows |-> 0]
    /\ age = [m \in Rows |-> 0]
    /\ messageId = [m \in Rows |-> FALSE]
    /\ log = [m \in Rows |-> 0]
    /\ suppressed = {} /\ accepted = {}
    /\ pc = "idle" /\ batch = <<>>
    /\ read = [m \in Rows |-> 0]
    /\ outcome = "none" /\ enabled \in BOOLEAN
    /\ crashes = 0

-------------------------------------------------------------------------------
\* enqueue_email commits a row.
Enqueue(m) ==
    /\ status[m] = "absent"
    /\ \A k \in Rows : k < m => status[k] # "absent"
    /\ status' = [status EXCEPT ![m] = "pending"]
    /\ UNCHANGED <<attempts, age, messageId, log, suppressed, accepted, worker, crashes>>

\* An unsubscribe link is followed.
Unsubscribe(m) ==
    /\ status[m] # "absent" /\ m \notin suppressed
    /\ suppressed' = suppressed \union {m}
    /\ UNCHANGED <<columns, log, accepted, worker, crashes>>

\* resend_webhook reports a bounce or a complaint; the row is marked when
\* it is "sent" and its message id is stored already.
Bounce(m) ==
    /\ m \in accepted /\ m \notin suppressed
    /\ suppressed' = suppressed \union {m}
    /\ status' = [status EXCEPT ![m] =
                    IF @ = "sent" /\ messageId[m] THEN "suppressed" ELSE @]
    /\ UNCHANGED <<attempts, age, messageId, log, accepted, worker, crashes>>

\* erase_org deletes the org's outbox rows and log lines, whatever their
\* state.
Erase(m) ==
    /\ status[m] \notin {"absent", "deleted"}
    /\ status' = [status EXCEPT ![m] = "deleted"]
    /\ log' = [log EXCEPT ![m] = 0]
    /\ UNCHANGED <<attempts, age, messageId, suppressed, accepted, worker, crashes>>

-------------------------------------------------------------------------------
(***************************************************************************)
(* run_one_tick.                                                           *)
(***************************************************************************)

\* Mutant: the reclaim is left out.
Stuck_Never(m) == FALSE

\* A row a worker left in "sending".
Stuck(m) == status[m] = "sending" /\ age[m] >= ReclaimAge

Reclaim ==
    /\ pc = "idle"
    /\ status' = [m \in Rows |-> IF Stuck(m) THEN "pending" ELSE status[m]]
    /\ pc' = "select"
    /\ UNCHANGED <<attempts, age, messageId, log, suppressed, accepted, batch,
                   read, outcome, enabled, crashes>>

Pending == {m \in Rows : status[m] = "pending"}

\* The oldest BatchSize pending rows in order.
Oldest(b) ==
    /\ Len(b) = IF Cardinality(Pending) < BatchSize
                THEN Cardinality(Pending) ELSE BatchSize
    /\ \A i \in 1..Len(b) :
          b[i] \in Pending /\ Cardinality({m \in Pending : m < b[i]}) = i - 1

Select ==
    /\ pc = "select"
    /\ \E b \in UNION {[1..n -> Rows] : n \in 0..BatchSize} :
          /\ Oldest(b)
          /\ batch' = b
          /\ pc' = IF b = <<>> THEN "idle" ELSE "mark"
    /\ read' = attempts
    /\ UNCHANGED <<columns, log, suppressed, accepted, outcome, enabled, crashes>>

InBatch(m) == \E i \in 1..Len(batch) : batch[i] = m
Exists(m) == status[m] # "deleted"

\* The UPDATE to "sending", by id.
Mark ==
    /\ pc = "mark"
    /\ status' = [m \in Rows |-> IF InBatch(m) /\ Exists(m) THEN "sending" ELSE status[m]]
    /\ age' = [m \in Rows |-> IF InBatch(m) THEN 0 ELSE age[m]]
    /\ pc' = "check"
    /\ UNCHANGED <<attempts, messageId, log, suppressed, accepted, batch, read,
                   outcome, enabled, crashes>>

Row == Head(batch)

\* The suppression lookup; one that fails finds nobody suppressed.
Check ==
    /\ pc = "check"
    /\ \/ Row \in suppressed /\ pc' = "finalize" /\ outcome' = "suppressed"
       \/ pc' = "send" /\ UNCHANGED outcome
    /\ UNCHANGED <<columns, log, suppressed, accepted, batch, read, enabled, crashes>>

\* send_email: skipped when the switch is off; or a request that the
\* provider takes or not and whose answer may be lost, a missing key being
\* one that it does not take.
Send ==
    /\ pc = "send"
    /\ \/ ~enabled /\ outcome' = "skipped" /\ UNCHANGED accepted
       \/ enabled /\ outcome' = "failed" /\ UNCHANGED accepted
       \/ enabled /\ outcome' \in {"sent", "failed"} /\ accepted' = accepted \union {Row}
    /\ pc' = "finalize"
    /\ UNCHANGED <<columns, log, suppressed, batch, read, enabled, crashes>>

\* The state a row ends in; a failure below the cap goes back to pending.
Terminal ==
    CASE outcome \in {"sent", "skipped"} -> "sent"
      [] outcome = "suppressed" -> "suppressed"
      [] outcome = "failed" -> IF read[Row] + 1 >= MaxAttempts THEN "failed" ELSE "pending"

\* finalize_row's UPDATE, by id.
Finalize ==
    /\ pc = "finalize"
    /\ IF Exists(Row)
       THEN /\ status' = [status EXCEPT ![Row] = Terminal]
            /\ attempts' = [attempts EXCEPT ![Row] = read[Row] + 1]
            /\ messageId' = [messageId EXCEPT ![Row] =
                               IF Terminal = "sent" THEN outcome = "sent" ELSE @]
       ELSE UNCHANGED <<status, attempts, messageId>>
    /\ outcome' = Terminal
    /\ pc' = "log"
    /\ UNCHANGED <<age, log, suppressed, accepted, batch, read, enabled, crashes>>

\* Mutant: every attempt is logged.
Logs_EveryAttempt == TRUE

\* write_log is for an outcome that settled.
Logs == outcome # "pending"

\* The log line, which may fail without stopping the tick; then the next
\* row of the batch.
WriteLog ==
    /\ pc = "log"
    /\ \/ Logs /\ log' = [log EXCEPT ![Row] = @ + 1]
       \/ UNCHANGED log
    /\ batch' = Tail(batch)
    /\ pc' = IF Tail(batch) = <<>> THEN "idle" ELSE "check"
    /\ outcome' = "none"
    /\ UNCHANGED <<columns, suppressed, accepted, read, enabled, crashes>>

\* A statement of the tick fails, or the process dies and starts again: the
\* tick is over, its rows stay as they are, and a new process reads its
\* environment again.
Abort ==
    /\ pc # "idle" /\ crashes < MaxCrashes
    /\ pc' = "idle" /\ batch' = <<>> /\ outcome' = "none"
    /\ crashes' = crashes + 1
    /\ enabled' \in BOOLEAN
    /\ UNCHANGED <<columns, log, suppressed, accepted, read>>

\* Time passes.
Tick ==
    /\ \E m \in Rows : status[m] = "sending" /\ age[m] < ReclaimAge
    /\ age' = [m \in Rows |-> IF status[m] = "sending" /\ age[m] < ReclaimAge
                              THEN age[m] + 1 ELSE age[m]]
    /\ UNCHANGED <<status, attempts, messageId, log, suppressed, accepted, worker, crashes>>

-------------------------------------------------------------------------------
TickStep == Reclaim \/ Select \/ Mark \/ Check \/ Send \/ Finalize \/ WriteLog

Next ==
    \/ \E m \in Rows : Enqueue(m) \/ Unsubscribe(m) \/ Bounce(m) \/ Erase(m)
    \/ TickStep \/ Abort \/ Tick

\* The worker's loop comes round, and time passes.
Fairness == WF_vars(TickStep) /\ WF_vars(Tick)

Spec == Init /\ [][Next]_vars
FairSpec == Spec /\ Fairness

-------------------------------------------------------------------------------
(***************************************************************************)
(* Properties.                                                             *)
(***************************************************************************)

\* Every variable has its type; a row is attempted at most MaxAttempts
\* times.
TypeOK ==
    /\ status \in [Rows -> {"absent", "pending", "sending", "deleted"} \union Settled]
    /\ attempts \in [Rows -> 0..MaxAttempts]
    /\ age \in [Rows -> 0..ReclaimAge]
    /\ messageId \in [Rows -> BOOLEAN]
    /\ log \in [Rows -> Nat]
    /\ suppressed \subseteq Rows /\ accepted \subseteq Rows
    /\ pc \in {"idle", "select", "mark", "check", "send", "finalize", "log"}
    /\ batch \in Seq(Rows)
    /\ read \in [Rows -> 0..MaxAttempts]
    /\ outcome \in {"none", "skipped", "pending"} \union Settled
    /\ enabled \in BOOLEAN
    /\ crashes \in 0..MaxCrashes

\* email_worker.rs:20: one log line per row that settles, however often it
\* was tried, its tick died or it was reclaimed, and none for a row that
\* will be tried again.
LogOnce ==
    \A m \in Rows :
        /\ log[m] <= 1
        /\ log[m] = 1 => status[m] \notin {"pending", "sending"}

\* A settled row is never taken up again, though every UPDATE of the worker
\* names rows by id alone: only a bounce moves it, from sent to suppressed.
SettledStays ==
    [][\A m \in Rows : status[m] \in Settled =>
         \/ status'[m] \in {status[m], "deleted"}
         \/ status[m] = "sent" /\ status'[m] = "suppressed"]_vars

\* Every row settles (or is erased), whatever the provider answers and
\* wherever a tick dies: a row left in "sending" is reclaimed, and rows
\* that fail do not keep newer ones out of the batch for ever.
EveryRowSettles ==
    \A m \in Rows : status[m] = "pending" ~> status[m] \in Settled \union {"deleted"}

\* api/notifications.rs:524: "a hard-bounced or unsubscribed address stops
\* being mailed for every org, which is the whole point of the table".
\* TLC refutes it: a look-up that fails counts as no suppression.
SuppressedNotMailed ==
    [][pc = "check" /\ pc' = "send" => Row \notin suppressed]_vars

===============================================================================
