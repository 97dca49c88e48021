----------------------------- MODULE TenancyProofs ----------------------------
(***************************************************************************)
(* Theorems about an org's own data: its mail, the list of those who get   *)
(* it, its viewer-hours, its incidents, its erasure and its export, its    *)
(* plan, its inbox and how long its rows are kept; for every number of     *)
(* rows, people, viewers, orgs and requests.  Each section proves one      *)
(* module.                                                                 *)
(*                                                                         *)
(* A mail's attempts and log are tied to the place of the worker that has  *)
(* its row in hand; a cached list to the webhook its fetch may have        *)
(* missed; the meter's seconds to the three places they are kept in; what  *)
(* is gone at Clerk to the webhook that will say so; an incident's         *)
(* resolver to the request that has still to write its stamp; and what an  *)
(* export has still to write to the incidents its archive has.  A recorded *)
(* plan is one that Clerk stated.  An inbox tab's place is tied to the     *)
(* rows of the reply it shows.  A retention pass in progress has cleared   *)
(* what lies behind it, and a webhook's marker outlives the retries it     *)
(* answers.                                                                *)
(***************************************************************************)
EXTENDS EmailOutbox, Recipients, ViewerUsage, AccountErasure, Incidents,
        DataExport, OrgPlan, Inbox, Retention, SequenceTheorems,
        FiniteSetTheorems, TLAPS

-------------------------------------------------------------------------------
(* The email outbox.                                                       *)

RowStates == {"absent", "pending", "sending", "deleted"} \union Settled

OutboxTyped ==
    /\ status \in [Rows -> RowStates] /\ log \in [Rows -> Nat]
    /\ attempts \in [Rows -> Nat] /\ read \in [Rows -> Nat]
    /\ batch \in Seq(Rows)
    /\ pc \in {"idle", "select", "mark", "check", "send", "finalize", "log"}

\* A tick under way has a batch, which names no row twice.
BatchUnderWay ==
    /\ pc \in {"idle", "select"} <=> batch = <<>>
    /\ \A i, j \in 1..Len(batch) : batch[i] = batch[j] => i = j

\* The rows of the batch that the tick has yet to settle: nothing but an erasure
\* takes them from it, and none has a log line.
Ahead(i) ==
    /\ (pc = "mark" => status[batch[i]] \in {"pending", "deleted"})
    /\ (pc \in {"check", "send", "finalize"} \/ (pc = "log" /\ i > 1) =>
          status[batch[i]] \in {"sending", "deleted"})
    /\ log[batch[i]] = 0 /\ read[batch[i]] < MaxAttempts

BatchAhead == \A i \in 1..Len(batch) : Ahead(i)

\* The row that was finalized is where its outcome put it, or was erased, or a
\* bounce found it sent.
AtHand ==
    /\ pc = "finalize" => outcome \in {"sent", "skipped", "suppressed", "failed"}
    /\ pc = "log" =>
         /\ outcome \in {"sent", "suppressed", "failed", "pending"}
         /\ \/ status[batch[1]] \in {outcome, "deleted"}
            \/ outcome = "sent" /\ status[batch[1]] = "suppressed"

\* A row is attempted at most EMAIL_MAX_ATTEMPTS times, and one that will be
\* tried again has been tried less often.
AttemptsBounded ==
    \A m \in Rows :
        /\ attempts[m] <= MaxAttempts
        /\ status[m] \in {"pending", "sending"} => attempts[m] < MaxAttempts
        /\ status[m] = "absent" => attempts[m] = 0 /\ log[m] = 0

OutboxIInv ==
    /\ OutboxTyped /\ BatchUnderWay /\ BatchAhead /\ AtHand
    /\ AttemptsBounded /\ LogOnce
-------------------------------------------------------------------------------
LEMMA OutboxInitIInv == Init => OutboxIInv
  BY EmailOutboxConstants
     DEF Init, OutboxIInv, OutboxTyped, RowStates, Settled, BatchUnderWay, BatchAhead, Ahead,
         AtHand, AttemptsBounded, LogOnce

\* The row at hand, and the rest of a batch.
LEMMA BatchParts ==
    ASSUME batch \in Seq(Rows), batch # <<>>
    PROVE  /\ Row = batch[1] /\ batch[1] \in Rows /\ 1 \in 1..Len(batch)
           /\ Tail(batch) \in Seq(Rows)
           /\ (Tail(batch) = <<>>) <=> (Len(batch) = 1)
           /\ \A i \in 1..Len(Tail(batch)) :
                 i + 1 \in 1..Len(batch) /\ i + 1 > 1 /\ Tail(batch)[i] = batch[i + 1]
<1>1. Len(batch) \in Nat /\ Len(batch) # 0 /\ \A i \in 1..Len(batch) : batch[i] \in Rows
  BY EmptySeq
<1>2. Row = batch[1] /\ batch[1] \in Rows /\ 1 \in 1..Len(batch)
  BY <1>1, HeadTailProperties DEF Row
<1>3. /\ Tail(batch) \in Seq(Rows) /\ Len(Tail(batch)) = Len(batch) - 1
      /\ \A i \in 1..Len(Tail(batch)) : Tail(batch)[i] = batch[i + 1]
  BY HeadTailProperties
<1>4. (Tail(batch) = <<>>) <=> (Len(Tail(batch)) = 0)
  BY <1>3, EmptySeq
<1> QED BY <1>1, <1>2, <1>3, <1>4

\* What a step does to a row that it does not settle: nothing, or it is erased.
Untouched(m) ==
    /\ \/ status'[m] = status[m] /\ log'[m] = log[m]
       \/ status'[m] = "deleted" /\ log'[m] \in {0, log[m]}
    /\ attempts'[m] = attempts[m]

\* A writer that meets the worker half way: it erases rows, adds one that is new,
\* or marks one that was sent.
LEMMA WriterStep ==
    ASSUME OutboxIInv, UNCHANGED <<pc, batch, read, outcome, attempts>>,
           status' \in [Rows -> RowStates], log' \in [Rows -> Nat],
           \A m \in Rows :
              \/ Untouched(m)
              \/ log'[m] = log[m] /\ status[m] = "absent" /\ status'[m] = "pending"
              \/ log'[m] = log[m] /\ status[m] = "sent" /\ status'[m] = "suppressed"
    PROVE  OutboxIInv'
<1>0. /\ OutboxTyped /\ BatchUnderWay /\ BatchAhead /\ AtHand
      /\ AttemptsBounded /\ LogOnce
  BY DEF OutboxIInv
<1>1. OutboxTyped' /\ BatchUnderWay'
  BY <1>0 DEF OutboxTyped, BatchUnderWay
<1>2. BatchAhead'
  <2> SUFFICES ASSUME NEW i \in 1..Len(batch) PROVE Ahead(i)'
    BY DEF BatchAhead
  <2>1. batch[i] \in Rows /\ Ahead(i)
    BY <1>0 DEF OutboxTyped, BatchAhead
  <2>2. batch # <<>>
    OBVIOUS
  <2>3. pc \notin {"idle", "select"}
    BY <1>0, <2>2 DEF BatchUnderWay
  <2> QED BY <2>1, <2>3 DEF Ahead, Untouched
<1>3. AtHand'
  <2>1. pc = "log" => batch # <<>> /\ Ahead(1)
    BY <1>0, BatchParts DEF OutboxTyped, BatchUnderWay, BatchAhead
  <2>2. pc = "log" => batch[1] \in Rows
    BY <1>0, <2>1, BatchParts DEF OutboxTyped
  <2> QED BY <1>0, <2>2 DEF AtHand, Untouched
<1>4. AttemptsBounded' /\ LogOnce'
  BY <1>0, EmailOutboxConstants DEF OutboxTyped, AttemptsBounded, LogOnce, Untouched
<1> QED BY <1>1, <1>2, <1>3, <1>4 DEF OutboxIInv

\* The reclaim finds no batch.
LEMMA ReclaimStep == ASSUME OutboxIInv, Reclaim PROVE OutboxIInv'
<1>0. /\ OutboxTyped /\ BatchUnderWay /\ BatchAhead /\ AtHand
      /\ AttemptsBounded /\ LogOnce
  BY DEF OutboxIInv
<1>1. /\ pc = "idle" /\ pc' = "select" /\ UNCHANGED <<attempts, log, batch, read, outcome>>
      /\ DOMAIN status' = Rows
      /\ \A m \in Rows : \/ status'[m] = status[m]
                         \/ status[m] = "sending" /\ status'[m] = "pending"
      /\ status' = [m \in Rows |-> status'[m]]
  BY DEF Reclaim, Stuck
<1>2. batch = <<>> /\ Len(batch) = 0
  BY <1>0, <1>1 DEF BatchUnderWay
<1>3. OutboxTyped' /\ BatchUnderWay' /\ BatchAhead' /\ AtHand'
  BY <1>0, <1>1, <1>2 DEF OutboxTyped, RowStates, BatchUnderWay, BatchAhead, AtHand
<1>4. AttemptsBounded' /\ LogOnce'
  BY <1>0, <1>1 DEF AttemptsBounded, LogOnce
<1> QED BY <1>3, <1>4 DEF OutboxIInv

\* The batch is the oldest rows that are pending, each once.
LEMMA SelectStep == ASSUME OutboxIInv, Select PROVE OutboxIInv'
<1>0. /\ OutboxTyped /\ BatchUnderWay /\ BatchAhead /\ AtHand
      /\ AttemptsBounded /\ LogOnce
  BY DEF OutboxIInv
<1>1. PICK b \in UNION {[1..n -> Rows] : n \in 0..BatchSize} :
        Oldest(b) /\ batch' = b /\ pc' = IF b = <<>> THEN "idle" ELSE "mark"
  BY DEF Select
<1>2. PICK n \in 0..BatchSize : b \in [1..n -> Rows]
  OBVIOUS
<1>2a. b \in Seq(Rows)
  BY <1>2, EmailOutboxConstants
<1>3. \A i \in 1..Len(b) : status[b[i]] = "pending" /\ b[i] \in Rows
  BY <1>1 DEF Oldest, Pending
<1>4. \A i, j \in 1..Len(b) : b[i] = b[j] => i = j
  <2> SUFFICES ASSUME NEW i \in 1..Len(b), NEW j \in 1..Len(b), b[i] = b[j] PROVE i = j
    OBVIOUS
  <2>1. /\ Cardinality({m \in Pending : m < b[i]}) = i - 1
        /\ Cardinality({m \in Pending : m < b[j]}) = j - 1
    BY <1>1 DEF Oldest
  <2>2. i - 1 = j - 1
    BY <2>1
  <2> QED BY <1>2a, <2>2
<1>5. UNCHANGED <<status, attempts, log, outcome>> /\ read' = attempts
  BY DEF Select, columns
<1>6. \A i \in 1..Len(b) : log[b[i]] = 0 /\ attempts[b[i]] < MaxAttempts
  BY <1>0, <1>3 DEF LogOnce, AttemptsBounded, OutboxTyped
<1>7. OutboxTyped' /\ BatchUnderWay'
  BY <1>0, <1>1, <1>2a, <1>4, <1>5 DEF OutboxTyped, BatchUnderWay
<1>8. BatchAhead'
  <2> SUFFICES ASSUME NEW i \in 1..Len(batch') PROVE Ahead(i)'
    BY DEF BatchAhead
  <2>1. batch' = b /\ i \in 1..Len(b) /\ pc' \in {"idle", "mark"}
    BY <1>1
  <2> QED BY <1>3, <1>5, <1>6, <2>1 DEF Ahead
<1>9. AtHand'
  BY <1>1 DEF AtHand
<1> QED BY <1>0, <1>5, <1>7, <1>8, <1>9 DEF OutboxIInv, AttemptsBounded, LogOnce

\* The UPDATE to "sending" takes the rows of the batch that are still there.
LEMMA MarkStep == ASSUME OutboxIInv, Mark PROVE OutboxIInv'
<1>0. /\ OutboxTyped /\ BatchUnderWay /\ BatchAhead /\ AtHand
      /\ AttemptsBounded /\ LogOnce
  BY DEF OutboxIInv
<1>1. /\ pc = "mark" /\ pc' = "check" /\ UNCHANGED <<attempts, log, batch, read, outcome>>
      /\ status' = [m \in Rows |-> IF InBatch(m) /\ Exists(m) THEN "sending" ELSE status[m]]
  BY DEF Mark
<1>2. ASSUME NEW m \in Rows, InBatch(m)
      PROVE  status[m] \in {"pending", "deleted"} /\ log[m] = 0
  BY <1>0, <1>1, <1>2 DEF InBatch, BatchAhead, Ahead
<1>3. \A m \in Rows : \/ status'[m] = status[m] /\ (InBatch(m) => status[m] = "deleted")
                      \/ status'[m] = "sending" /\ status[m] = "pending"
  BY <1>1, <1>2 DEF Exists
<1>4. OutboxTyped' /\ BatchUnderWay' /\ AtHand'
  BY <1>0, <1>1 DEF OutboxTyped, RowStates, BatchUnderWay, AtHand
<1>5. BatchAhead'
  <2> SUFFICES ASSUME NEW i \in 1..Len(batch) PROVE Ahead(i)'
    BY <1>1 DEF BatchAhead
  <2>1. InBatch(batch[i]) /\ batch[i] \in Rows /\ Ahead(i)
    BY <1>0 DEF InBatch, OutboxTyped, BatchAhead
  <2>2. status'[batch[i]] \in {"sending", "deleted"}
    BY <1>3, <2>1
  <2> QED BY <1>1, <2>1, <2>2 DEF Ahead
<1>6. AttemptsBounded' /\ LogOnce'
  BY <1>0, <1>1, <1>3 DEF AttemptsBounded, LogOnce
<1> QED BY <1>4, <1>5, <1>6 DEF OutboxIInv

\* The suppression lookup and the request touch no row.
LEMMA RequestStep == ASSUME OutboxIInv, Check \/ Send PROVE OutboxIInv'
<1>0. /\ OutboxTyped /\ BatchUnderWay /\ BatchAhead /\ AtHand
      /\ AttemptsBounded /\ LogOnce
  BY DEF OutboxIInv
<1>1. /\ pc \in {"check", "send"} /\ pc' \in {"send", "finalize"}
      /\ pc' = "finalize" => outcome' \in {"sent", "skipped", "suppressed", "failed"}
      /\ UNCHANGED <<status, attempts, log, batch, read>>
  BY DEF Check, Send, columns
<1>2. OutboxTyped' /\ BatchUnderWay' /\ AtHand'
  BY <1>0, <1>1 DEF OutboxTyped, BatchUnderWay, AtHand
<1>3. BatchAhead'
  BY <1>0, <1>1 DEF BatchAhead, Ahead
<1> QED BY <1>0, <1>1, <1>2, <1>3 DEF OutboxIInv, AttemptsBounded, LogOnce

\* finalize_row settles the row at hand, or puts it back below the cap.
LEMMA FinalizeStep == ASSUME OutboxIInv, Finalize PROVE OutboxIInv'
<1>0. /\ OutboxTyped /\ BatchUnderWay /\ BatchAhead /\ AtHand
      /\ AttemptsBounded /\ LogOnce
  BY DEF OutboxIInv
<1>1. /\ pc = "finalize" /\ pc' = "log" /\ outcome' = Terminal
      /\ UNCHANGED <<log, batch, read>>
      /\ \/ status[Row] = "deleted" /\ UNCHANGED <<status, attempts>>
         \/ /\ status[Row] # "deleted"
            /\ status' = [status EXCEPT ![Row] = Terminal]
            /\ attempts' = [attempts EXCEPT ![Row] = read[Row] + 1]
  BY DEF Finalize, Exists
<1>2. /\ batch # <<>> /\ Row = batch[1] /\ batch[1] \in Rows /\ 1 \in 1..Len(batch)
  BY <1>0, <1>1, BatchParts DEF OutboxTyped, BatchUnderWay
<1>3. /\ status[Row] \in {"sending", "deleted"} /\ log[Row] = 0
      /\ read[Row] < MaxAttempts /\ read[Row] \in Nat
  BY <1>0, <1>1, <1>2 DEF BatchAhead, Ahead, OutboxTyped
<1>4. /\ Terminal \in {"sent", "suppressed", "failed", "pending"}
      /\ Terminal = "pending" => read[Row] + 1 < MaxAttempts
  BY <1>0, <1>1, <1>3, EmailOutboxConstants DEF AtHand, Terminal
<1>5. OutboxTyped' /\ BatchUnderWay'
  <2>1. Terminal \in RowStates /\ read[Row] + 1 \in Nat /\ Row \in Rows
    BY <1>2, <1>3, <1>4 DEF RowStates, Settled
  <2>2. status' \in [Rows -> RowStates] /\ attempts' \in [Rows -> Nat]
    BY <1>0, <1>1, <2>1 DEF OutboxTyped
  <2> QED BY <1>0, <1>1, <2>2 DEF OutboxTyped, BatchUnderWay
<1>6. AtHand'
  BY <1>0, <1>1, <1>2, <1>4 DEF AtHand, OutboxTyped
<1>7. BatchAhead'
  <2> SUFFICES ASSUME NEW i \in 1..Len(batch) PROVE Ahead(i)'
    BY <1>1 DEF BatchAhead
  <2>1. batch[i] \in Rows /\ Ahead(i)
    BY <1>0 DEF OutboxTyped, BatchAhead
  <2>2. i > 1 => batch[i] # Row
    BY <1>0, <1>2 DEF BatchUnderWay
  <2>3. i > 1 => status'[batch[i]] = status[batch[i]]
    BY <1>0, <1>1, <2>1, <2>2 DEF OutboxTyped
  <2> QED BY <1>1, <2>1, <2>3 DEF Ahead
<1>8. AttemptsBounded' /\ LogOnce'
  <2> SUFFICES ASSUME NEW m \in Rows
               PROVE  /\ attempts'[m] <= MaxAttempts
                      /\ status'[m] \in {"pending", "sending"} => attempts'[m] < MaxAttempts
                      /\ status'[m] = "absent" => attempts'[m] = 0 /\ log[m] = 0
                      /\ log[m] <= 1
                      /\ log[m] = 1 => status'[m] \notin {"pending", "sending"}
    BY <1>1 DEF AttemptsBounded, LogOnce
  <2>1. /\ attempts[m] <= MaxAttempts
        /\ status[m] \in {"pending", "sending"} => attempts[m] < MaxAttempts
        /\ status[m] = "absent" => attempts[m] = 0 /\ log[m] = 0
        /\ log[m] <= 1
        /\ log[m] = 1 => status[m] \notin {"pending", "sending"}
    BY <1>0 DEF AttemptsBounded, LogOnce
  <2>2. CASE m # Row
    BY <1>0, <1>1, <2>1, <2>2 DEF OutboxTyped
  <2>3. CASE m = Row
    BY <1>0, <1>1, <1>3, <1>4, <2>1, <2>3, EmailOutboxConstants DEF OutboxTyped
  <2> QED BY <2>2, <2>3
<1> QED BY <1>5, <1>6, <1>7, <1>8 DEF OutboxIInv

\* write_log, for an outcome that settled; then the next row.
LEMMA WriteLogStep == ASSUME OutboxIInv, WriteLog PROVE OutboxIInv'
<1>0. /\ OutboxTyped /\ BatchUnderWay /\ BatchAhead /\ AtHand
      /\ AttemptsBounded /\ LogOnce
  BY DEF OutboxIInv
<1>1. /\ pc = "log" /\ batch' = Tail(batch)
      /\ pc' = IF Tail(batch) = <<>> THEN "idle" ELSE "check"
      /\ \/ outcome # "pending" /\ log' = [log EXCEPT ![Row] = @ + 1]
         \/ UNCHANGED log
      /\ UNCHANGED <<status, attempts, read>>
  BY DEF WriteLog, Logs, columns
<1>2. /\ batch # <<>> /\ Row = batch[1] /\ batch[1] \in Rows /\ 1 \in 1..Len(batch)
      /\ Tail(batch) \in Seq(Rows)
      /\ (Tail(batch) = <<>>) <=> (Len(batch) = 1)
      /\ \A i \in 1..Len(Tail(batch)) :
            i + 1 \in 1..Len(batch) /\ i + 1 > 1 /\ Tail(batch)[i] = batch[i + 1]
  BY <1>0, <1>1, BatchParts DEF OutboxTyped, BatchUnderWay
<1>3. log[Row] = 0 /\ (outcome # "pending" => status[Row] \notin {"pending", "sending", "absent"})
  BY <1>0, <1>1, <1>2 DEF BatchAhead, Ahead, AtHand
<1>4. \A m \in Rows : \/ log'[m] = log[m]
                      \/ /\ m = Row /\ log'[m] = 1
                         /\ status[m] \notin {"pending", "sending", "absent"}
  BY <1>0, <1>1, <1>3 DEF OutboxTyped
<1>5. OutboxTyped'
  <2>1. Row \in Rows /\ log[Row] + 1 \in Nat
    BY <1>2, <1>3
  <2>2. log' \in [Rows -> Nat]
    BY <1>0, <1>1, <2>1 DEF OutboxTyped
  <2>3. pc' \in {"idle", "check"}
    BY <1>1
  <2> QED BY <1>0, <1>1, <1>2, <2>2, <2>3 DEF OutboxTyped
<1>6. BatchUnderWay'
  <2>1. pc' \in {"idle", "select"} <=> batch' = <<>>
    BY <1>1
  <2>2. ASSUME NEW i \in 1..Len(batch'), NEW j \in 1..Len(batch'), batch'[i] = batch'[j]
        PROVE  i = j
    <3>1. i + 1 = j + 1
      BY <1>0, <1>1, <1>2, <2>2 DEF BatchUnderWay
    <3>2. i \in Int /\ j \in Int
      BY <1>1, <1>2
    <3> QED BY <3>1, <3>2
  <2> QED BY <2>1, <2>2 DEF BatchUnderWay
<1>7. BatchAhead'
  <2> SUFFICES ASSUME NEW i \in 1..Len(batch') PROVE Ahead(i)'
    BY DEF BatchAhead
  <2>1. i + 1 \in 1..Len(batch) /\ i + 1 > 1 /\ batch'[i] = batch[i + 1]
    BY <1>1, <1>2
  <2>2. Ahead(i + 1) /\ batch[i + 1] \in Rows
    BY <1>0, <2>1 DEF BatchAhead, OutboxTyped
  <2>3. batch[i + 1] # Row
    BY <1>0, <1>2, <2>1 DEF BatchUnderWay
  <2>4. log'[batch[i + 1]] = log[batch[i + 1]]
    BY <1>4, <2>2, <2>3
  <2>5. pc' \in {"idle", "check"}
    BY <1>1
  <2> QED BY <1>1, <2>1, <2>2, <2>4, <2>5 DEF Ahead
<1>8. AtHand'
  BY <1>1 DEF AtHand
<1>9. AttemptsBounded' /\ LogOnce'
  BY <1>0, <1>1, <1>4 DEF AttemptsBounded, LogOnce
<1> QED BY <1>5, <1>6, <1>7, <1>8, <1>9 DEF OutboxIInv

\* A tick that dies drops its batch and leaves the rows as they are.
LEMMA AbortStep == ASSUME OutboxIInv, Abort PROVE OutboxIInv'
<1>1. /\ pc' = "idle" /\ batch' = <<>> /\ Len(batch') = 0
      /\ UNCHANGED <<status, attempts, log, read>>
  BY DEF Abort, columns
<1> QED BY <1>1 DEF OutboxIInv, OutboxTyped, BatchUnderWay, BatchAhead, AtHand,
                    AttemptsBounded, LogOnce

LEMMA OutboxStep == ASSUME OutboxIInv, [Next]_vars PROVE OutboxIInv'
<1>0. /\ OutboxTyped /\ AttemptsBounded /\ LogOnce
  BY DEF OutboxIInv
<1>1. ASSUME NEW m \in Rows, Enqueue(m) \/ Unsubscribe(m) \/ Bounce(m) \/ Erase(m)
      PROVE  OutboxIInv'
  <2>1. /\ UNCHANGED <<pc, batch, read, outcome, attempts>>
        /\ \/ UNCHANGED <<status, log>>
           \/ status[m] = "absent" /\ status' = [status EXCEPT ![m] = "pending"] /\ UNCHANGED log
           \/ /\ status[m] = "sent" /\ UNCHANGED log
              /\ status' = [status EXCEPT ![m] = "suppressed"]
           \/ /\ status' = [status EXCEPT ![m] = "deleted"]
              /\ log' = [log EXCEPT ![m] = 0]
    BY <1>0, <1>1 DEF Enqueue, Unsubscribe, Bounce, Erase, columns, worker, OutboxTyped
  <2>2. status' \in [Rows -> RowStates] /\ log' \in [Rows -> Nat]
    <3>1. {"pending", "suppressed", "deleted"} \subseteq RowStates
      BY DEF RowStates, Settled
    <3>2. status \in [Rows -> RowStates] /\ log \in [Rows -> Nat] /\ 0 \in Nat
      BY <1>0 DEF OutboxTyped
    <3>3. UNCHANGED log \/ log' = [log EXCEPT ![m] = 0]
      BY <2>1
    <3>4. \/ UNCHANGED status
          \/ \E place \in {"pending", "suppressed", "deleted"} :
                status' = [status EXCEPT ![m] = place]
      BY <2>1
    <3>5. status' \in [Rows -> RowStates]
      BY <3>1, <3>2, <3>4
    <3> QED BY <3>2, <3>3, <3>5
  <2>3. ASSUME NEW k \in Rows
        PROVE  \/ Untouched(k)
               \/ log'[k] = log[k] /\ status[k] = "absent" /\ status'[k] = "pending"
               \/ log'[k] = log[k] /\ status[k] = "sent" /\ status'[k] = "suppressed"
    BY <1>0, <2>1 DEF OutboxTyped, Untouched
  <2> QED BY <2>1, <2>2, <2>3, WriterStep
<1>2. ASSUME Tick \/ UNCHANGED vars PROVE OutboxIInv'
  <2>1. UNCHANGED <<pc, batch, read, outcome, attempts, status, log>>
    BY <1>2 DEF Tick, vars, columns, worker
  <2> QED BY <1>0, <2>1, WriterStep DEF Untouched, OutboxTyped
<1> QED BY <1>1, <1>2, ReclaimStep, SelectStep, MarkStep, RequestStep, FinalizeStep,
           WriteLogStep, AbortStep DEF Next, TickStep

LEMMA OutboxInvariant == Spec => []OutboxIInv
  BY OutboxInitIInv, OutboxStep, PTL DEF Spec

\* email_worker.rs:20: however often a row is tried, its tick dies or it is
\* reclaimed, one log line is written when it settles, and none before.
THEOREM LogOnceAlways == Spec => []LogOnce
  BY OutboxInvariant, PTL DEF OutboxIInv

\* finalize_row and the retry below EMAIL_MAX_ATTEMPTS: no outcome beyond that is
\* stored, with whatever the batch's SELECT read.  (A request whose outcome a crash
\* lost is not counted.)
THEOREM AttemptsBoundedAlways == Spec => []AttemptsBounded
  BY OutboxInvariant, PTL DEF OutboxIInv

\* The worker's UPDATEs name rows by id alone, yet a settled row is never taken up
\* again: the rows of a batch cannot settle while it is under way but by its own
\* hand.
THEOREM SettledStaysAlways == Spec => SettledStays
<1> DEFINE Stays == \A m \in Rows : status[m] \in Settled =>
                      \/ status'[m] \in {status[m], "deleted"}
                      \/ status[m] = "sent" /\ status'[m] = "suppressed"
<1>1. ASSUME OutboxIInv, [Next]_vars PROVE Stays
  <2>0. /\ OutboxTyped /\ BatchUnderWay /\ BatchAhead
    BY <1>1 DEF OutboxIInv
  <2>1. ASSUME NEW m \in Rows, Enqueue(m) \/ Unsubscribe(m) \/ Bounce(m) \/ Erase(m)
        PROVE  Stays
    BY <2>0, <2>1 DEF Enqueue, Unsubscribe, Bounce, Erase, columns, OutboxTyped, Settled
  <2>2. ASSUME Reclaim PROVE Stays
    BY <2>2 DEF Reclaim, Stuck, Settled
  <2>3. ASSUME Mark PROVE Stays
    <3>1. \A m \in Rows : InBatch(m) => status[m] \notin Settled
      BY <2>0, <2>3 DEF Mark, InBatch, BatchAhead, Ahead, Settled
    <3> QED BY <2>3, <3>1 DEF Mark
  <2>4. ASSUME Finalize PROVE Stays
    <3>1. batch # <<>> /\ Row = batch[1] /\ 1 \in 1..Len(batch)
      BY <2>0, <2>4, BatchParts DEF Finalize, OutboxTyped, BatchUnderWay
    <3>2. status[Row] \notin Settled
      BY <2>0, <2>4, <3>1 DEF Finalize, BatchAhead, Ahead, Settled
    <3> QED BY <2>0, <2>4, <3>2 DEF Finalize, OutboxTyped
  <2>5. ASSUME UNCHANGED status PROVE Stays
    BY <2>5
  <2> QED BY <1>1, <2>1, <2>2, <2>3, <2>4, <2>5
          DEF Next, TickStep, Select, Check, Send, WriteLog, Abort, Tick, vars, columns
<1> QED BY <1>1, OutboxInvariant, PTL DEF Spec, SettledStays

-------------------------------------------------------------------------------
(* The directory of recipients.                                            *)

LookupRow == [at : {"idle", "asked", "fetched", "done"}, audience : Audiences,
           addrs : SUBSET People, read : Int, since : Int]
Entry  == [addrs : SUBSET People, expires : Int, read : Int]

DirectoryTyped ==
    /\ time \in Nat
    /\ lookup \in [Lookups -> LookupRow] /\ directory \in [Audiences -> Entry]
    /\ invalidated \in [at : Int, clean : BOOLEAN]

\* A list is fetched after it is asked for and within the timeout; what is used
\* or cached was fetched not long before.
LookupHolds(l) ==
    /\ (lookup[l].at # "idle" =>
          (lookup[l].since <= time /\ time <= lookup[l].since + DirectoryTimeout))
    /\ (lookup[l].at = "fetched" =>
          (lookup[l].since <= lookup[l].read /\ lookup[l].read <= time))
    /\ (lookup[l].at = "done" => lookup[l].read >= time - CacheTTL - DirectoryTimeout)

EntryHolds(a) ==
    directory[a].expires > 0 =>
        directory[a].expires <= directory[a].read + CacheTTL + DirectoryTimeout

\* No answer fetched before the last clean invalidation waits to be stored.
FetchedSince ==
    invalidated.clean =>
        \A l \in Lookups : lookup[l].at = "fetched" => lookup[l].read >= invalidated.at

DirectorySound ==
    /\ invalidated.at <= time
    /\ \A l \in Lookups : LookupHolds(l)
    /\ \A a \in Audiences : EntryHolds(a)
    /\ FetchedSince /\ InvalidationHolds

DirectoryIInv == DirectoryTyped /\ DirectorySound

-------------------------------------------------------------------------------
LEMMA DirectoryInitIInv == DirectoryInit => DirectoryIInv
  BY DurationAssumption
     DEF DirectoryInit, DirectoryIInv, DirectorySound, DirectoryTyped, LookupHolds, EntryHolds, FetchedSince,
         InvalidationHolds, LookupRow, Entry, Audiences, Nothing, IdleLookup

\* Every step keeps the types.
LEMMA DirectoryTypedStep ==
    ASSUME DirectoryTyped, [DirectoryNext]_directoryVars PROVE DirectoryTyped'
<1> USE DEF DirectoryTyped, LookupRow, Entry, Audiences
<1>1. ASSUME NEW l \in Lookups, LookInCache(l) PROVE DirectoryTyped'
  <2>1. PICK a \in Audiences :
          lookup' = [lookup EXCEPT ![l] =
             IF directory[a].expires > time
             THEN [at |-> "done", audience |-> a, addrs |-> directory[a].addrs,
                   read |-> directory[a].read, since |-> time]
             ELSE [IdleLookup EXCEPT !.at = "asked", !.audience = a, !.since = time]]
    BY <1>1 DEF LookInCache
  <2>2. UNCHANGED <<time, directory, invalidated>>
    BY <1>1 DEF LookInCache
  <2>3. CASE lookup' = [lookup EXCEPT ![l] =
                [at |-> "done", audience |-> a, addrs |-> directory[a].addrs,
                 read |-> directory[a].read, since |-> time]]
    BY <2>2, <2>3
  <2>4. CASE lookup' = [lookup EXCEPT ![l] =
                [IdleLookup EXCEPT !.at = "asked", !.audience = a, !.since = time]]
    <3>1. time \in Int /\ IdleLookup \in LookupRow
      BY DEF IdleLookup
    <3>2. [IdleLookup EXCEPT !.at = "asked", !.audience = a, !.since = time] \in LookupRow
      <4> HIDE DEF DirectoryTyped
      <4> QED BY <3>1
    <3> QED BY <2>2, <2>4, <3>2
  <2> QED BY <2>1, <2>3, <2>4
<1>2. ASSUME NEW l \in Lookups, Fetch(l) PROVE DirectoryTyped'
  <2>1. Addresses(lookup[l].audience, members) \in SUBSET People
    BY ReachableAssumption DEF Addresses
  <2>2. /\ lookup' = [lookup EXCEPT ![l] = [lookup[l] EXCEPT !.at = "fetched", !.read = time,
                           !.addrs = Addresses(lookup[l].audience, members)]]
        /\ UNCHANGED <<time, directory, invalidated>>
    BY <1>2 DEF Fetch
  <2>3. [lookup[l] EXCEPT !.at = "fetched", !.read = time,
                          !.addrs = Addresses(lookup[l].audience, members)] \in LookupRow
    <3>1. lookup[l] \in LookupRow /\ time \in Int
      OBVIOUS
    <3> HIDE DEF DirectoryTyped
    <3> QED BY <2>1, <3>1
  <2> QED BY <2>2, <2>3
<1>3. ASSUME NEW l \in Lookups, lookup' = [lookup EXCEPT ![l] = IdleLookup],
             UNCHANGED <<time, directory, invalidated>>
      PROVE  DirectoryTyped'
  BY <1>3 DEF IdleLookup
<1>4. ASSUME NEW l \in Lookups, Insert(l) PROVE DirectoryTyped'
  BY <1>4, DurationAssumption DEF Insert
<1>5. CASE InvalidateOrg
  BY <1>5 DEF InvalidateOrg, Nothing
<1>6. CASE Wait
  BY <1>6 DEF Wait
<1>7. CASE UNCHANGED <<time, directory, lookup, invalidated>>
  BY <1>7
<1> HIDE DEF DirectoryTyped, LookupRow, Entry, Audiences
<1> QED BY <1>1, <1>2, <1>3, <1>4, <1>5, <1>6, <1>7
        DEF DirectoryNext, DirectoryFails, Mailed, Change, directoryVars

\* Every step keeps the rest of the invariant.
LEMMA DirectoryStep ==
    ASSUME DirectoryIInv, [DirectoryNext]_directoryVars PROVE DirectoryIInv'
<1>0. DirectoryTyped /\ DirectorySound /\ DirectoryTyped'
  BY DirectoryTypedStep DEF DirectoryIInv
<1> USE DurationAssumption
        DEF DirectorySound, LookupHolds, EntryHolds, FetchedSince, InvalidationHolds
<1>1. ASSUME NEW l \in Lookups, LookInCache(l) PROVE DirectorySound'
  BY <1>0, <1>1 DEF LookInCache, IdleLookup, DirectoryTyped, LookupRow, Entry
<1>2. ASSUME NEW l \in Lookups, Fetch(l) PROVE DirectorySound'
  <2>1. /\ lookup'[l].at = "fetched" /\ lookup'[l].read = time /\ lookup'[l].since = lookup[l].since
        /\ \A k \in Lookups : k # l => lookup'[k] = lookup[k]
        /\ UNCHANGED <<time, directory, invalidated>>
    BY <1>0, <1>2 DEF Fetch, DirectoryTyped, LookupRow
  <2>2. lookup[l].at = "asked" /\ lookup[l] \in LookupRow /\ time \in Nat /\ invalidated.at <= time
    BY <1>0, <1>2 DEF Fetch, DirectoryTyped
  <2>3. time <= lookup[l].since + DirectoryTimeout
    BY <1>0, <2>2
  <2>4. ASSUME NEW k \in Lookups PROVE LookupHolds(k)'
    <3>1. LookupHolds(l)'
      <4>1. lookup[l].since \in Int /\ DirectoryTimeout \in Nat
        BY <2>2 DEF LookupRow
      <4>2. lookup[l].since <= time
        BY <1>0, <2>2, <2>3, <4>1
      <4> QED BY <2>1, <2>2, <2>3, <4>1, <4>2
    <3>2. CASE k # l
      BY <1>0, <2>1, <3>2
    <3> QED BY <3>1, <3>2
  <2> QED BY <1>0, <2>1, <2>2, <2>4
<1>3. ASSUME NEW l \in Lookups, lookup' = [lookup EXCEPT ![l] = IdleLookup],
             UNCHANGED <<time, directory, invalidated>>
      PROVE  DirectorySound'
  BY <1>0, <1>3 DEF IdleLookup, DirectoryTyped, LookupRow, Entry
<1>4. ASSUME NEW l \in Lookups, Insert(l) PROVE DirectorySound'
  BY <1>0, <1>4 DEF Insert, DirectoryTyped, LookupRow, Entry
<1>5. ASSUME InvalidateOrg PROVE DirectorySound'
  <2>1. /\ \A a \in Audiences : directory'[a].expires = 0
        /\ invalidated'.at = time /\ UNCHANGED <<time, lookup>>
        /\ invalidated'.clean => \A l \in Lookups : lookup[l].at # "fetched"
    BY <1>5 DEF InvalidateOrg, Nothing
  <2> QED BY <1>0, <2>1 DEF DirectoryTyped, LookupRow
<1>6. ASSUME Wait PROVE DirectorySound'
  <2>1. /\ time' = time + 1 /\ UNCHANGED <<directory, lookup, invalidated>>
        /\ \A l \in Lookups : lookup[l].at # "done"
        /\ \A l \in Lookups :
              lookup[l].at # "idle" => time < lookup[l].since + DirectoryTimeout
    BY <1>6 DEF Wait
  <2>2. \A l \in Lookups : LookupHolds(l)'
    <3> SUFFICES ASSUME NEW l \in Lookups PROVE LookupHolds(l)'
      OBVIOUS
    <3>1. lookup[l].since \in Int /\ lookup[l].read \in Int /\ time \in Nat
      BY <1>0 DEF DirectoryTyped, LookupRow
    <3>2. LookupHolds(l)
      BY <1>0
    <3>3. /\ time' = time + 1 /\ lookup' = lookup /\ lookup[l].at # "done"
          /\ (lookup[l].at # "idle" => time < lookup[l].since + DirectoryTimeout)
      BY <2>1
    <3> QED BY <3>1, <3>2, <3>3
  <2> QED BY <1>0, <2>1, <2>2 DEF DirectoryTyped
<1>7. ASSUME UNCHANGED <<time, directory, lookup, invalidated>> PROVE DirectorySound'
  BY <1>0, <1>7
<1> HIDE DEF DirectorySound
<1> QED BY <1>0, <1>1, <1>2, <1>3, <1>4, <1>5, <1>6, <1>7
        DEF DirectoryNext, DirectoryFails, Mailed, Change, directoryVars, DirectoryIInv

LEMMA DirectoryInvariant == DirectorySpec => []DirectoryIInv
  BY DirectoryInitIInv, DirectoryStep, PTL DEF DirectorySpec

\* invalidate_org: a membership webhook that comes while no answer of Clerk waits
\* to be stored holds, whatever is looked up, fetched or cached around it.
THEOREM InvalidationHoldsAlways == DirectorySpec => []InvalidationHolds
  BY DirectoryInvariant, PTL DEF DirectoryIInv, DirectorySound

\* Even if every webhook is lost, no mail goes by a list that was read longer ago
\* than CACHE_TTL and one request to Clerk.
THEOREM StalenessBoundedAlways == DirectorySpec => []StalenessBounded
<1>1. DirectoryIInv => StalenessBounded
  BY DEF DirectoryIInv, DirectorySound, LookupHolds, StalenessBounded
<1> QED BY <1>1, DirectoryInvariant, PTL

-------------------------------------------------------------------------------
(* The viewer-hour meter.                                                  *)

MeterTyped ==
    /\ month \in 0..MaxMonth
    /\ db \in [Keys -> Nat \union {None}] /\ cached \in [Keys -> Nat \union {None}]
    /\ pending \in [Keys -> Nat] /\ todo \in [Keys -> Nat]
    /\ served \in [Keys -> Nat] /\ lost \in [Keys -> Nat]

ViewersTyped ==
    /\ vpc \in [Viewers -> {"idle", "query", "store", "serve", "refused", "done"}]
    /\ total \in [Viewers -> Nat] /\ refusedIn \in [Viewers -> Nat]

\* The seconds of a key that were stored, or dropped, by now.
Gone(k) == Value(db[k]) + lost[k]

\* A sleeping flusher holds nothing, and what an upsert returned was stored.
FlusherHolds ==
    /\ fpc = "sleep" => \A k \in Keys : todo[k] = 0
    /\ fpc = "cache" =>
          returned.key \in Keys /\ returned.total \in Nat /\ returned.total <= Gone(returned.key)

\* In the month they were read for, no total is more than what was stored.
TotalsReal ==
    month = 0 =>
        /\ \A k \in Keys : cached[k] # None => cached[k] <= Gone(k)
        /\ \A v \in Viewers : vpc[v] = "store" => total[v] <= Gone(<<Watches[v], 0>>)
        /\ \A v \in Viewers : refusedIn[v] = 0

MeterIInv == MeterTyped /\ ViewersTyped /\ FlusherHolds /\ EverySecondOnce
             /\ TotalsReal /\ RefusedOnlyAtCap

-------------------------------------------------------------------------------
LEMMA KeyTyped ==
    ASSUME MeterTyped, NEW v \in Viewers
    PROVE  Key(v) \in Keys /\ (month = 0 => Key(v) = <<Watches[v], 0>>)
  BY ViewerUsageConstants DEF MeterTyped, Key, Keys

LEMMA GoneTyped == ASSUME MeterTyped, NEW k \in Keys PROVE Gone(k) \in Nat
  BY DEF MeterTyped, Gone, Value, None

LEMMA MeterInitIInv == UsageInit => MeterIInv
<1> SUFFICES ASSUME UsageInit PROVE MeterIInv
  OBVIOUS
<1>1. MeterTyped /\ ViewersTyped
  BY ViewerUsageConstants DEF UsageInit, MeterTyped, ViewersTyped, None
<1>2. FlusherHolds /\ TotalsReal /\ RefusedOnlyAtCap
  BY DEF UsageInit, FlusherHolds, TotalsReal, RefusedOnlyAtCap
<1>3. EverySecondOnce
  BY DEF UsageInit, EverySecondOnce
<1> QED BY <1>1, <1>2, <1>3 DEF MeterIInv

\* What stays of the totals when the stored seconds only grow and no viewer moves.
LEMMA TotalsKept ==
    ASSUME MeterTyped, MeterTyped', TotalsReal, RefusedOnlyAtCap, ViewersTyped,
           UNCHANGED <<month, viewer>>,
           \A k \in Keys : /\ Gone(k)' >= Gone(k)
                           /\ served'[k] = served[k]
                           /\ cached'[k] = cached[k] \/ cached'[k] = None
    PROVE  TotalsReal' /\ RefusedOnlyAtCap'
<1>0. UNCHANGED <<month, vpc, total, refusedIn>>
  BY DEF viewer
<1>1. \A k \in Keys : Gone(k) \in Nat /\ Gone(k)' \in Nat
  <2>1. \A k \in Keys : Gone(k)' \in Nat
    BY DEF MeterTyped, Gone, Value, None
  <2> QED BY <2>1, GoneTyped
<1>2. ASSUME month = 0, NEW v \in Viewers
      PROVE  <<Watches[v], 0>> \in Keys
  BY <1>2, ViewerUsageConstants DEF Keys
<1>3. TotalsReal'
  <2> SUFFICES ASSUME month' = 0
               PROVE  /\ \A k \in Keys : cached'[k] # None => cached'[k] <= Gone(k)'
                      /\ \A v \in Viewers : vpc'[v] = "store" => total'[v] <= Gone(<<Watches[v], 0>>)'
                      /\ \A v \in Viewers : refusedIn'[v] = 0
    BY DEF TotalsReal
  <2>1. ASSUME NEW k \in Keys, cached'[k] # None PROVE cached'[k] <= Gone(k)'
    <3>1. cached'[k] = cached[k] /\ cached[k] <= Gone(k)
      BY <1>0, <2>1 DEF TotalsReal
    <3>2. cached[k] \in Nat
      BY <2>1, <3>1 DEF MeterTyped
    <3> QED BY <1>1, <3>1, <3>2
  <2>2. ASSUME NEW v \in Viewers, vpc'[v] = "store" PROVE total'[v] <= Gone(<<Watches[v], 0>>)'
    <3>1. total'[v] <= Gone(<<Watches[v], 0>>) /\ total'[v] \in Nat
      BY <1>0, <2>2 DEF TotalsReal, ViewersTyped
    <3>2. <<Watches[v], 0>> \in Keys
      BY <1>0, <1>2
    <3>3. Gone(<<Watches[v], 0>>)' >= Gone(<<Watches[v], 0>>)
      BY <3>2
    <3>4. Gone(<<Watches[v], 0>>) \in Nat /\ Gone(<<Watches[v], 0>>)' \in Nat
      BY <1>1, <3>2
    <3> QED BY <3>1, <3>3, <3>4
  <2> QED BY <1>0, <2>1, <2>2 DEF TotalsReal
<1>4. RefusedOnlyAtCap'
  <2>1. ASSUME month = 0, NEW v \in Viewers, vpc[v] = "refused"
        PROVE  served'[<<Watches[v], refusedIn[v]>>] >= Cap
    <3>1. refusedIn[v] = 0 /\ served[<<Watches[v], refusedIn[v]>>] >= Cap
      BY <2>1 DEF TotalsReal, RefusedOnlyAtCap
    <3> QED BY <1>2, <2>1, <3>1
  <2> QED BY <1>0, <2>1 DEF RefusedOnlyAtCap
<1> QED BY <1>3, <1>4

\* A viewer judged on no more than was served is refused only at the cap.
LEMMA Judged ==
    ASSUME MeterIInv, NEW v \in Viewers, NEW n \in Nat, Judge(v, n),
           UNCHANGED <<month, served>>,
           month = 0 => n <= served[<<Watches[v], 0>>]
    PROVE  /\ ViewersTyped' <=> total' \in [Viewers -> Nat]
           /\ month = 0 => RefusedOnlyAtCap' /\ \A x \in Viewers : refusedIn'[x] = 0
           /\ \A x \in Viewers : vpc'[x] = "store" => vpc[x] = "store" /\ x # v
<1>0. /\ month \in Nat /\ Cap \in Nat /\ served \in [Keys -> Nat] /\ ViewersTyped
      /\ <<Watches[v], 0>> \in Keys
  BY ViewerUsageConstants DEF MeterIInv, MeterTyped, Keys
<1>1. /\ vpc' = [vpc EXCEPT ![v] = IF n >= Cap THEN "refused" ELSE "serve"]
      /\ refusedIn' = [refusedIn EXCEPT ![v] = IF n >= Cap THEN month ELSE 0]
  BY DEF Judge
<1>2. vpc' \in [Viewers -> {"idle", "query", "store", "serve", "refused", "done"}]
      /\ refusedIn' \in [Viewers -> Nat]
  BY <1>0, <1>1 DEF ViewersTyped
<1>3. ASSUME month = 0 PROVE RefusedOnlyAtCap' /\ \A x \in Viewers : refusedIn'[x] = 0
  <2>1. \A x \in Viewers : refusedIn'[x] = 0
    BY <1>0, <1>1, <1>3 DEF MeterIInv, TotalsReal, ViewersTyped
  <2>2. ASSUME NEW x \in Viewers, vpc'[x] = "refused" PROVE served[<<Watches[x], 0>>] >= Cap
    <3>1. CASE x = v
      <4>1. n >= Cap
        BY <1>0, <1>1, <2>2, <3>1 DEF ViewersTyped
      <4>2. n <= served[<<Watches[v], 0>>] /\ served[<<Watches[v], 0>>] \in Nat
        BY <1>0, <1>3
      <4> QED BY <1>0, <3>1, <4>1, <4>2
    <3>2. CASE x # v
      BY <1>0, <1>1, <1>3, <2>2, <3>2 DEF MeterIInv, TotalsReal, RefusedOnlyAtCap, ViewersTyped
    <3> QED BY <3>1, <3>2
  <2> QED BY <2>1, <2>2 DEF RefusedOnlyAtCap
<1>4. \A x \in Viewers : vpc'[x] = "store" => vpc[x] = "store" /\ x # v
  BY <1>0, <1>1 DEF ViewersTyped
<1> QED BY <1>2, <1>3, <1>4 DEF ViewersTyped

\* What is stored, dropped and pending is no more than what was served.
LEMMA NoMoreThanServed ==
    ASSUME MeterTyped, EverySecondOnce, NEW k \in Keys, NEW n \in Nat, n <= Gone(k)
    PROVE  n + pending[k] \in Nat /\ n + pending[k] <= served[k]
<1>1. served[k] = Gone(k) + pending[k] + todo[k]
  BY DEF EverySecondOnce, MeterTyped, Gone, Value, None
<1> QED BY <1>1, GoneTyped DEF MeterTyped

\* What neither counts, stores nor judges.
LEMMA MeterAside ==
    ASSUME MeterIInv, UNCHANGED <<month, db, pending, cached, todo, returned, served, lost>>,
           fpc' = fpc \/ (fpc # "cache" /\ fpc' = "sleep" /\ \A k \in Keys : todo[k] = 0)
    PROVE  MeterTyped' /\ FlusherHolds' /\ EverySecondOnce'
<1>1. MeterTyped'
  BY DEF MeterIInv, MeterTyped
<1>2. FlusherHolds'
  BY DEF MeterIInv, FlusherHolds, Gone
<1>3. EverySecondOnce'
  BY DEF MeterIInv, EverySecondOnce
<1> QED BY <1>1, <1>2, <1>3

LEMMA ViewStep == ASSUME MeterIInv, NEW v \in Viewers, View(v) PROVE MeterIInv'
<1>0. /\ MeterTyped /\ ViewersTyped /\ TotalsReal /\ RefusedOnlyAtCap /\ EverySecondOnce
      /\ FlusherHolds
  BY DEF MeterIInv
<1>k. Key(v) \in Keys /\ (month = 0 => Key(v) = <<Watches[v], 0>>)
  BY <1>0, KeyTyped
<1>1. CASE Lookup(v)
  <2>1. UNCHANGED <<month, db, memory, total, flusher, epc, history, restarts>>
    BY <1>1, Zenon DEF Lookup
  <2>2. MeterTyped' /\ FlusherHolds' /\ EverySecondOnce'
    BY <2>1, MeterAside DEF memory, flusher, history
  <2>3. CASE cached[Key(v)] # None /\ Judge(v, cached[Key(v)] + pending[Key(v)])
    <3>1. cached[Key(v)] \in Nat /\ pending[Key(v)] \in Nat
      BY <1>0, <1>k, <2>3 DEF MeterTyped
    <3>2. ASSUME month = 0 PROVE cached[Key(v)] + pending[Key(v)] <= served[<<Watches[v], 0>>]
      <4>1. cached[Key(v)] <= Gone(Key(v))
        BY <1>0, <1>k, <2>3, <3>2 DEF TotalsReal
      <4> QED BY <1>0, <1>k, <3>1, <3>2, <4>1, NoMoreThanServed
    <3>3. /\ ViewersTyped' <=> total' \in [Viewers -> Nat]
          /\ month = 0 => RefusedOnlyAtCap' /\ \A x \in Viewers : refusedIn'[x] = 0
          /\ \A x \in Viewers : vpc'[x] = "store" => vpc[x] = "store" /\ x # v
      <4>1. cached[Key(v)] + pending[Key(v)] \in Nat
        BY <3>1
      <4>2. UNCHANGED <<month, served>>
        BY <2>1 DEF history
      <4> QED BY <2>3, <3>2, <4>1, <4>2, Judged
    <3>4. ViewersTyped'
      BY <1>0, <2>1, <3>3 DEF ViewersTyped
    <3>5. TotalsReal'
      BY <1>0, <2>1, <3>3 DEF TotalsReal, Gone, memory, history
    <3>6. RefusedOnlyAtCap'
      BY <2>1, <3>3 DEF RefusedOnlyAtCap
    <3> QED BY <2>2, <3>4, <3>5, <3>6 DEF MeterIInv
  <2>4. CASE vpc' = [vpc EXCEPT ![v] = "query"] /\ UNCHANGED refusedIn
    <3>1. ViewersTyped'
      BY <1>0, <2>1, <2>4 DEF ViewersTyped
    <3>2. \A x \in Viewers : vpc'[x] \in {"store", "refused"} => vpc'[x] = vpc[x]
      BY <1>0, <2>4 DEF ViewersTyped
    <3>3. TotalsReal'
      BY <1>0, <2>1, <2>4, <3>2 DEF TotalsReal, Gone, memory, history
    <3>4. RefusedOnlyAtCap'
      BY <1>0, <2>1, <2>4, <3>2 DEF RefusedOnlyAtCap, history
    <3> QED BY <2>2, <3>1, <3>3, <3>4 DEF MeterIInv
  <2> QED BY <1>1, <2>3, <2>4, Zenon DEF Lookup
<1>2. CASE Query(v)
  <2>1. /\ UNCHANGED <<month, db, memory, refusedIn, flusher, epc, history, restarts>>
        /\ vpc' = [vpc EXCEPT ![v] = "store"]
        /\ \E n \in {Value(db[Key(v)]), 0} : total' = [total EXCEPT ![v] = n]
    BY <1>2, Zenon DEF Query
  <2>2. MeterTyped' /\ FlusherHolds' /\ EverySecondOnce'
    BY <2>1, MeterAside DEF memory, flusher, history
  <2>3. PICK n \in {Value(db[Key(v)]), 0} : total' = [total EXCEPT ![v] = n]
    BY <2>1
  <2>4. n \in Nat /\ n <= Gone(Key(v))
    BY <1>0, <1>k, <2>3 DEF MeterTyped, Gone, Value, None
  <2>5. ViewersTyped'
    BY <1>0, <2>1, <2>3, <2>4 DEF ViewersTyped
  <2>6. TotalsReal'
    BY <1>0, <1>k, <2>1, <2>3, <2>4 DEF TotalsReal, Gone, memory, history, ViewersTyped
  <2>7. RefusedOnlyAtCap'
    BY <1>0, <2>1 DEF RefusedOnlyAtCap, ViewersTyped, history
  <2> QED BY <2>2, <2>5, <2>6, <2>7 DEF MeterIInv
<1>3. CASE Store(v)
  <2>1. /\ UNCHANGED <<month, db, pending, flusher, epc, history, restarts>>
        /\ vpc[v] = "store" /\ cached' = [cached EXCEPT ![Key(v)] = total[v]]
        /\ Judge(v, total[v] + pending[Key(v)]) /\ total' = [total EXCEPT ![v] = 0]
    BY <1>3, Zenon DEF Store
  <2>2. total[v] \in Nat /\ pending[Key(v)] \in Nat
    BY <1>0, <1>k DEF MeterTyped, ViewersTyped
  <2>3. MeterTyped'
    BY <1>0, <1>k, <2>1, <2>2 DEF MeterTyped, history, flusher
  <2>4. FlusherHolds' /\ EverySecondOnce'
    BY <1>0, <2>1 DEF FlusherHolds, EverySecondOnce, Gone, flusher, history
  <2>5. ASSUME month = 0
        PROVE  total[v] <= Gone(Key(v)) /\ total[v] + pending[Key(v)] <= served[<<Watches[v], 0>>]
    <3>1. total[v] <= Gone(Key(v))
      BY <1>0, <1>k, <2>1, <2>5 DEF TotalsReal
    <3> QED BY <1>0, <1>k, <2>2, <2>5, <3>1, NoMoreThanServed
  <2>6. /\ ViewersTyped' <=> total' \in [Viewers -> Nat]
        /\ month = 0 => RefusedOnlyAtCap' /\ \A x \in Viewers : refusedIn'[x] = 0
        /\ \A x \in Viewers : vpc'[x] = "store" => vpc[x] = "store" /\ x # v
    <3>1. total[v] + pending[Key(v)] \in Nat /\ UNCHANGED <<month, served>>
      BY <2>1, <2>2 DEF history
    <3> QED BY <2>1, <2>5, <3>1, Judged
  <2>7. ViewersTyped'
    BY <1>0, <2>1, <2>6 DEF ViewersTyped
  <2>8. TotalsReal'
    <3> SUFFICES ASSUME month = 0
                 PROVE  /\ \A k \in Keys : cached'[k] # None => cached'[k] <= Gone(k)
                        /\ \A x \in Viewers : vpc'[x] = "store" => total'[x] <= Gone(<<Watches[x], 0>>)
                        /\ \A x \in Viewers : refusedIn'[x] = 0
      BY <2>1 DEF TotalsReal, Gone, history
    <3>1. \A k \in Keys : cached'[k] # None => cached'[k] <= Gone(k)
      BY <1>0, <1>k, <2>1, <2>5 DEF TotalsReal, MeterTyped
    <3>2. \A x \in Viewers : vpc'[x] = "store" => total'[x] <= Gone(<<Watches[x], 0>>)
      BY <1>0, <2>1, <2>6 DEF TotalsReal, ViewersTyped
    <3> QED BY <2>6, <3>1, <3>2
  <2>9. RefusedOnlyAtCap'
    BY <2>1, <2>6 DEF RefusedOnlyAtCap
  <2> QED BY <2>3, <2>4, <2>7, <2>8, <2>9 DEF MeterIInv
<1>4. CASE Serve(v)
  <2>1. /\ UNCHANGED <<month, db, cached, total, refusedIn, flusher, epc, lost, restarts>>
        /\ pending' = [pending EXCEPT ![Key(v)] = @ + 1]
        /\ served' = [served EXCEPT ![Key(v)] = @ + 1]
        /\ vpc' = [vpc EXCEPT ![v] = "done"]
    BY <1>4, Zenon DEF Serve
  <2>2. MeterTyped'
    BY <1>0, <1>k, <2>1 DEF MeterTyped, flusher
  <2>3. FlusherHolds'
    BY <1>0, <2>1 DEF FlusherHolds, Gone, flusher
  <2>4. EverySecondOnce'
    BY <1>0, <1>k, <2>1 DEF EverySecondOnce, MeterTyped, flusher, None
  <2>5. ViewersTyped'
    BY <1>0, <2>1 DEF ViewersTyped
  <2>6. TotalsReal'
    BY <1>0, <2>1 DEF TotalsReal, Gone, ViewersTyped
  <2>7. RefusedOnlyAtCap'
    <3> SUFFICES ASSUME month = 0, NEW x \in Viewers, vpc'[x] = "refused"
                 PROVE  served'[<<Watches[x], refusedIn[x]>>] >= Cap
      BY <2>1 DEF RefusedOnlyAtCap
    <3>1. refusedIn[x] = 0 /\ served[<<Watches[x], refusedIn[x]>>] >= Cap
      BY <1>0, <2>1 DEF TotalsReal, RefusedOnlyAtCap, ViewersTyped
    <3>2. <<Watches[x], 0>> \in Keys
      BY ViewerUsageConstants DEF Keys
    <3> QED BY <1>0, <2>1, <3>1, <3>2, ViewerUsageConstants DEF MeterTyped
  <2> QED BY <2>2, <2>3, <2>4, <2>5, <2>6, <2>7 DEF MeterIInv
<1>5. CASE NoSegment(v) \/ Again(v)
  <2>1. /\ UNCHANGED <<month, db, memory, total, flusher, epc, history, restarts>>
        /\ \E at \in {"done", "idle"} : vpc' = [vpc EXCEPT ![v] = at]
        /\ refusedIn' = refusedIn \/ refusedIn' = [refusedIn EXCEPT ![v] = 0]
    BY <1>5 DEF NoSegment, Again
  <2>2. MeterTyped' /\ FlusherHolds' /\ EverySecondOnce'
    BY <2>1, MeterAside DEF memory, flusher, history
  <2>3. ViewersTyped'
    BY <1>0, <2>1 DEF ViewersTyped
  <2>4. /\ \A x \in Viewers : vpc'[x] \in {"store", "refused"} => vpc'[x] = vpc[x] /\ refusedIn'[x] = refusedIn[x]
        /\ \A x \in Viewers : refusedIn'[x] \in {0, refusedIn[x]}
    BY <1>0, <2>1 DEF ViewersTyped
  <2>5. TotalsReal'
    BY <1>0, <2>1, <2>4 DEF TotalsReal, Gone, memory, history
  <2>6. RefusedOnlyAtCap'
    BY <1>0, <2>1, <2>4 DEF RefusedOnlyAtCap, history
  <2> QED BY <2>2, <2>3, <2>5, <2>6 DEF MeterIInv
<1> QED BY <1>1, <1>2, <1>3, <1>4, <1>5 DEF View

\* The flusher, an erasure and a restart move seconds and never lose count.
LEMMA MoveStep ==
    ASSUME MeterIInv, UNCHANGED <<month, viewer, served>>, MeterTyped', FlusherHolds', EverySecondOnce',
           \A k \in Keys : Gone(k)' >= Gone(k) /\ (cached'[k] = cached[k] \/ cached'[k] = None)
    PROVE  MeterIInv'
<1>1. TotalsReal' /\ RefusedOnlyAtCap'
  BY TotalsKept DEF MeterIInv
<1>2. ViewersTyped'
  BY DEF MeterIInv, ViewersTyped, viewer
<1> QED BY <1>1, <1>2 DEF MeterIInv

LEMMA FlushStep == ASSUME MeterIInv, Flush PROVE MeterIInv'
<1>0. /\ MeterTyped /\ ViewersTyped /\ TotalsReal /\ RefusedOnlyAtCap /\ EverySecondOnce
      /\ FlusherHolds
  BY DEF MeterIInv
<1>g. \A k \in Keys : Gone(k) \in Nat
  BY <1>0, GoneTyped
<1>1. CASE Drain
  <2>1. /\ fpc = "sleep" /\ fpc' = "write" /\ todo' = pending /\ pending' = [k \in Keys |-> 0]
        /\ UNCHANGED <<month, db, cached, viewer, returned, served, lost>>
    BY <1>1 DEF Drain, Drained, history
  <2>2. MeterTyped'
    BY <1>0, <2>1 DEF MeterTyped
  <2>3. FlusherHolds'
    BY <2>1 DEF FlusherHolds
  <2>4. EverySecondOnce'
    BY <1>0, <2>1 DEF EverySecondOnce, FlusherHolds, MeterTyped, None
  <2>5. \A k \in Keys : Gone(k)' >= Gone(k)
    BY <1>g, <2>1 DEF Gone
  <2> QED BY <2>1, <2>2, <2>3, <2>4, <2>5, MoveStep
<1>2. ASSUME NEW k \in Keys, Upsert(k) PROVE MeterIInv'
  <2>1. /\ db' = [db EXCEPT ![k] = Value(@) + todo[k]]
        /\ returned' = [key |-> k, total |-> Value(db[k]) + todo[k]]
        /\ todo' = [todo EXCEPT ![k] = 0] /\ fpc' = "cache"
        /\ UNCHANGED <<month, pending, cached, viewer, served, lost>>
    BY <1>2 DEF Upsert, memory, history
  <2>2. Value(db[k]) \in Nat /\ todo[k] \in Nat /\ lost[k] \in Nat
    BY <1>0 DEF MeterTyped, Value, None
  <2>3. MeterTyped'
    BY <1>0, <2>1, <2>2 DEF MeterTyped
  <2>4. /\ db'[k] = Value(db[k]) + todo[k] /\ db'[k] # None
        /\ \A j \in Keys : j # k => db'[j] = db[j]
    BY <1>0, <2>1, <2>2 DEF MeterTyped, None
  <2>5. \A j \in Keys : Gone(j)' >= Gone(j)
    BY <1>0, <1>g, <2>1, <2>2, <2>4 DEF Gone, Value
  <2>6. FlusherHolds'
    BY <2>1, <2>2, <2>4 DEF FlusherHolds, Gone, Value
  <2>7. EverySecondOnce'
    BY <1>0, <2>1, <2>2, <2>4 DEF EverySecondOnce, MeterTyped, Value
  <2> QED BY <2>1, <2>3, <2>5, <2>6, <2>7, MoveStep
<1>3. CASE Refresh
  <2>1. /\ fpc = "cache" /\ cached' = [cached EXCEPT ![returned.key] = returned.total]
        /\ fpc' = "write" /\ UNCHANGED <<month, db, pending, viewer, todo, served, lost>>
    BY <1>3 DEF Refresh, Refreshed, history
  <2>2. returned.key \in Keys /\ returned.total \in Nat /\ returned.total <= Gone(returned.key)
    BY <1>0, <2>1 DEF FlusherHolds
  <2>3. MeterTyped'
    BY <1>0, <2>1, <2>2 DEF MeterTyped
  <2>4. FlusherHolds' /\ EverySecondOnce'
    BY <1>0, <2>1 DEF FlusherHolds, EverySecondOnce
  <2>5. TotalsReal'
    BY <1>0, <2>1, <2>2 DEF TotalsReal, Gone, viewer, MeterTyped
  <2>6. ViewersTyped' /\ RefusedOnlyAtCap'
    BY <1>0, <2>1 DEF ViewersTyped, RefusedOnlyAtCap, viewer
  <2> QED BY <2>3, <2>4, <2>5, <2>6 DEF MeterIInv
<1>4. ASSUME NEW k \in Keys, FlushFails(k) PROVE MeterIInv'
  <2>1. /\ fpc = "write" /\ todo' = [j \in Keys |-> 0] /\ fpc' = "sleep"
        /\ UNCHANGED <<month, pending, cached, viewer, served>>
    BY <1>4 DEF FlushFails, memory
  <2>2. PICK applied \in {{}, {k}} :
          /\ db' = [j \in Keys |-> IF j \in applied THEN Value(db[j]) + todo[j] ELSE db[j]]
          /\ lost' = [j \in Keys |-> IF j \in applied THEN lost[j] ELSE lost[j] + todo[j]]
    BY <1>4 DEF FlushFails
  <2>3. \A j \in Keys : Value(db[j]) \in Nat /\ todo[j] \in Nat /\ lost[j] \in Nat
    BY <1>0 DEF MeterTyped, Value, None
  <2>4. MeterTyped'
    <3>1. db' \in [Keys -> Nat \union {None}]
      BY <1>0, <2>2, <2>3 DEF MeterTyped
    <3>2. lost' \in [Keys -> Nat]
      BY <2>2, <2>3
    <3> QED BY <1>0, <2>1, <3>1, <3>2 DEF MeterTyped
  <2>5. \A j \in Keys : Gone(j)' = Gone(j) + todo[j]
    <3>1. ASSUME NEW j \in Keys PROVE Value(db'[j]) + lost'[j] = Value(db[j]) + lost[j] + todo[j]
      BY <2>2, <2>3 DEF Value, None
    <3> QED BY <3>1 DEF Gone
  <2>6. \A j \in Keys : Gone(j)' >= Gone(j)
    BY <1>g, <2>3, <2>5
  <2>7. EverySecondOnce'
    <3>1. \A j \in Keys : served[j] = Gone(j) + pending[j] + todo[j]
      BY <1>0 DEF EverySecondOnce, Gone, Value, MeterTyped, None
    <3>2. \A j \in Keys : Gone(j)' + pending[j] + 0 = served[j]
      BY <1>0, <1>g, <2>3, <2>5, <3>1 DEF MeterTyped
    <3>3. \A j \in Keys : Value(db'[j]) + pending[j] + 0 + lost'[j] = Value(db'[j]) + lost'[j] + pending[j] + 0
      BY <1>0, <2>4 DEF MeterTyped, Value, None
    <3> QED BY <2>1, <3>2, <3>3 DEF EverySecondOnce, Gone, Value
  <2>8. FlusherHolds'
    BY <2>1 DEF FlusherHolds
  <2> QED BY <2>1, <2>4, <2>6, <2>7, <2>8, MoveStep
<1>5. CASE FlushEnds
  <2>1. /\ UNCHANGED <<month, db, pending, cached, viewer, todo, returned, served, lost>>
        /\ fpc = "write" /\ fpc' = "sleep" /\ \A k \in Keys : todo[k] = 0
    BY <1>5 DEF FlushEnds, memory, history
  <2>2. MeterTyped' /\ FlusherHolds' /\ EverySecondOnce'
    BY <2>1, MeterAside
  <2>3. \A k \in Keys : Gone(k)' >= Gone(k)
    BY <1>g, <2>1 DEF Gone
  <2> QED BY <2>1, <2>2, <2>3, MoveStep
<1> QED BY <1>1, <1>2, <1>3, <1>4, <1>5 DEF Flush

LEMMA MeterStep == MeterIInv /\ [UsageNext]_usageVars => MeterIInv'
<1> SUFFICES ASSUME MeterIInv, [UsageNext]_usageVars PROVE MeterIInv'
  OBVIOUS
<1>0. /\ MeterTyped /\ ViewersTyped /\ TotalsReal /\ RefusedOnlyAtCap /\ EverySecondOnce
      /\ FlusherHolds
  BY DEF MeterIInv
<1>n. \A k \in Keys : /\ Value(db[k]) \in Nat /\ todo[k] \in Nat /\ lost[k] \in Nat
                      /\ pending[k] \in Nat /\ Gone(k) \in Nat
                      /\ served[k] = Value(db[k]) + pending[k] + todo[k] + lost[k]
  BY <1>0, GoneTyped DEF MeterTyped, Value, None, EverySecondOnce
<1>1. CASE NewMonth
  <2>1. /\ month' = month + 1 /\ month < MaxMonth
        /\ UNCHANGED <<db, pending, cached, viewer, fpc, todo, returned, served, lost>>
    BY <1>1 DEF NewMonth, memory, flusher, history
  <2>2. MeterTyped' /\ month' # 0
    BY <1>0, <2>1, ViewerUsageConstants DEF MeterTyped
  <2>3. FlusherHolds' /\ EverySecondOnce' /\ ViewersTyped'
    BY <1>0, <2>1 DEF FlusherHolds, EverySecondOnce, ViewersTyped, Gone, viewer
  <2>4. TotalsReal' /\ RefusedOnlyAtCap'
    BY <2>2 DEF TotalsReal, RefusedOnlyAtCap
  <2> QED BY <2>2, <2>3, <2>4 DEF MeterIInv
<1>2. ASSUME NEW v \in Viewers, View(v) PROVE MeterIInv'
  BY <1>2, ViewStep
<1>3. CASE Flush
  BY <1>3, FlushStep
<1>4. ASSUME NEW o \in Orgs, EraseRows(o) PROVE MeterIInv'
  <2>1. /\ db' = [k \in Keys |-> IF k[1] = o THEN None ELSE db[k]]
        /\ lost' = [k \in Keys |-> IF k[1] = o THEN lost[k] + Value(db[k]) ELSE lost[k]]
        /\ UNCHANGED <<month, pending, cached, viewer, fpc, todo, returned, served>>
    BY <1>4 DEF EraseRows, memory, flusher
  <2>2. MeterTyped'
    <3>1. db' \in [Keys -> Nat \union {None}]
      BY <1>0, <2>1 DEF MeterTyped
    <3>2. lost' \in [Keys -> Nat]
      BY <1>n, <2>1
    <3> QED BY <1>0, <2>1, <3>1, <3>2 DEF MeterTyped
  <2>3. \A k \in Keys : Value(db'[k]) + lost'[k] = Value(db[k]) + lost[k]
    BY <1>n, <2>1 DEF Value
  <2>4. \A k \in Keys : Gone(k)' = Gone(k)
    BY <2>3 DEF Gone
  <2>5. EverySecondOnce'
    <3>1. \A k \in Keys : Value(db'[k]) \in Nat /\ lost'[k] \in Nat
      BY <2>2 DEF MeterTyped, Value, None
    <3>2. \A k \in Keys : served[k] = Value(db'[k]) + pending[k] + todo[k] + lost'[k]
      BY <1>n, <2>3, <3>1
    <3> QED BY <2>1, <3>2 DEF EverySecondOnce, Value
  <2>6. FlusherHolds'
    BY <1>0, <2>1, <2>4 DEF FlusherHolds
  <2> QED BY <1>n, <2>1, <2>2, <2>4, <2>5, <2>6, MoveStep
<1>5. ASSUME NEW o \in Orgs, ForgetUsage(o) PROVE MeterIInv'
  <2>1. /\ pending' = [k \in Keys |-> IF k[1] = o THEN 0 ELSE pending[k]]
        /\ cached' = [k \in Keys |-> IF k[1] = o THEN None ELSE cached[k]]
        /\ lost' = [k \in Keys |-> IF k[1] = o THEN lost[k] + pending[k] ELSE lost[k]]
        /\ UNCHANGED <<month, db, viewer, fpc, todo, returned, served>>
    BY <1>5 DEF ForgetUsage, flusher
  <2>2. MeterTyped'
    <3>1. cached' \in [Keys -> Nat \union {None}]
      BY <1>0, <2>1 DEF MeterTyped
    <3>2. lost' \in [Keys -> Nat] /\ pending' \in [Keys -> Nat]
      BY <1>n, <2>1
    <3> QED BY <1>0, <2>1, <3>1, <3>2 DEF MeterTyped
  <2>3. \A k \in Keys : lost'[k] >= lost[k] /\ pending'[k] + lost'[k] = pending[k] + lost[k]
                        /\ lost'[k] \in Nat /\ pending'[k] \in Nat
    BY <1>n, <2>1
  <2>4. \A k \in Keys : Gone(k)' >= Gone(k) /\ Gone(k)' \in Nat
    BY <1>n, <2>1, <2>3 DEF Gone
  <2>5. EverySecondOnce'
    <3>1. ASSUME NEW k \in Keys
          PROVE  served[k] = Value(db[k]) + pending'[k] + todo[k] + lost'[k]
      <4>1. /\ Value(db[k]) \in Nat /\ todo[k] \in Nat /\ lost[k] \in Nat /\ pending[k] \in Nat
            /\ served[k] = Value(db[k]) + pending[k] + todo[k] + lost[k]
        BY <1>n
      <4>2. /\ pending'[k] + lost'[k] = pending[k] + lost[k]
            /\ lost'[k] \in Nat /\ pending'[k] \in Nat
        BY <2>3
      <4> QED BY ONLY <4>1, <4>2
    <3> QED BY <2>1, <3>1 DEF EverySecondOnce, Value
  <2>6. FlusherHolds'
    BY <1>0, <1>n, <2>1, <2>4 DEF FlusherHolds
  <2>7. \A k \in Keys : cached'[k] = cached[k] \/ cached'[k] = None
    BY <2>1
  <2> QED BY <1>n, <2>1, <2>2, <2>4, <2>5, <2>6, <2>7, MoveStep
<1>6. CASE Restart
  <2>1. /\ lost' = [k \in Keys |-> lost[k] + pending[k] + todo[k]]
        /\ pending' = [k \in Keys |-> 0] /\ cached' = [k \in Keys |-> None]
        /\ todo' = [k \in Keys |-> 0] /\ fpc' = "sleep"
        /\ vpc' = [v \in Viewers |-> "idle"] /\ total' = [v \in Viewers |-> 0]
        /\ refusedIn' = [v \in Viewers |-> 0]
        /\ UNCHANGED <<month, db, served>>
    BY <1>6 DEF Restart
  <2>2. MeterTyped'
    <3>1. lost' \in [Keys -> Nat]
      BY <1>n, <2>1
    <3> QED BY <1>0, <2>1, <3>1 DEF MeterTyped
  <2>3. EverySecondOnce'
    <3>1. \A k \in Keys : served[k] = Value(db[k]) + 0 + 0 + lost'[k]
      BY <1>n, <2>1
    <3> QED BY <2>1, <3>1 DEF EverySecondOnce, Value
  <2>4. ViewersTyped' /\ FlusherHolds' /\ TotalsReal' /\ RefusedOnlyAtCap'
    BY <2>1 DEF ViewersTyped, FlusherHolds, TotalsReal, RefusedOnlyAtCap
  <2> QED BY <2>2, <2>3, <2>4 DEF MeterIInv
<1>7. CASE UNCHANGED usageVars
  <2>1. UNCHANGED <<month, db, pending, cached, viewer, fpc, todo, returned, served, lost>>
    BY <1>7 DEF usageVars, memory, flusher, history
  <2>2. MeterTyped' /\ FlusherHolds' /\ EverySecondOnce'
    BY <2>1, MeterAside
  <2>3. \A k \in Keys : Gone(k)' >= Gone(k)
    BY <1>n, <2>1 DEF Gone
  <2> QED BY <2>1, <2>2, <2>3, MoveStep
<1> QED BY <1>1, <1>2, <1>3, <1>4, <1>5, <1>6, <1>7 DEF UsageNext

LEMMA MeterInvariant == UsageSpec => []MeterIInv
  BY MeterInitIInv, MeterStep, PTL DEF UsageSpec

\* Every second of video served is stored, pending, in the flusher's hands or
\* dropped by a failure, and in one of them only (record_viewer_second,
\* flush_viewer_usage, forget_org_viewer_usage).
THEOREM EverySecondOnceAlways == UsageSpec => []EverySecondOnce
  BY MeterInvariant, PTL DEF MeterIInv

\* Until the month changes nobody is refused under the cap, whatever a flush,
\* another viewer's warm-up, an erasure or a restart does between a viewer's
\* read and its decision (get_hls_segment, warm_viewer_seconds).
THEOREM RefusedOnlyAtCapAlways == UsageSpec => []RefusedOnlyAtCap
  BY MeterInvariant, PTL DEF MeterIInv

-------------------------------------------------------------------------------
(* The ways an account and an organization disappear.                      *)

\* Whatever is gone at Clerk and still has rows here has its webhook to come.
OrgHookDue ==
    \A o \in orgRows : o \notin orgsAtClerk =>
        [kind |-> "organization", org |-> o, user |-> "none"] \in hookBox

UserHookDue ==
    \A u \in idRows : u \notin accounts =>
        [kind |-> "user", org |-> "none", user |-> u] \in hookBox

HooksDue == OrgHookDue /\ UserHookDue

\* A membership webhook is still to come for an org that was left by everybody.
EmptyHookDue ==
    ~missed => \A o \in orgsAtClerk : MembersOf(o) = {} =>
        \E h \in hookBox : h.kind = "membership" /\ h.org = o

RolesTyped ==
    /\ role \in [OrgIds -> [Users -> {"none", "member", "admin"}]]
    /\ orgsAtClerk \subseteq OrgIds

DeletionsTyped ==
    deletion \in [Users -> [pc : {"idle", "org", "erase", "rows"}, orgs : SUBSET OrgIds,
                            org : OrgIds \union {"none"}]]

\* What a deletion planned still stands while nobody else moves: the orgs of the
\* account are to be deleted, or can spare it.
PlanStands ==
    ~raced => \A u \in Users : deletion[u].pc \in {"org", "erase"} =>
        \A o \in orgsAtClerk : role[o][u] # "none" =>
            o \in deletion[u].orgs \/ Classify(o, u) = "left"

ErasureIInv ==
    /\ RolesTyped /\ DeletionsTyped /\ HooksDue /\ EmptyHookDue
    /\ OthersKeepTheirOrgs /\ PlanStands

-------------------------------------------------------------------------------
LEMMA ErasureInitIInv == ErasureInit => ErasureIInv
<1> SUFFICES ASSUME ErasureInit PROVE ErasureIInv
  OBVIOUS
<1>1. /\ accounts = Users /\ orgsAtClerk = OrgIds /\ orgRows = OrgIds /\ idRows = Users
      /\ deletion = [u \in Users |-> NoDeletion]
      /\ role \in [OrgIds -> [Users -> {"none", "member", "admin"}]]
      /\ \A o \in OrgIds : AdminsOf(o) # {}
  BY Zenon DEF ErasureInit
<1>2. RolesTyped /\ HooksDue
  BY <1>1 DEF RolesTyped, HooksDue, OrgHookDue, UserHookDue
<1>3. DeletionsTyped
  BY <1>1 DEF DeletionsTyped, NoDeletion
<1>4. PlanStands
  BY <1>1 DEF PlanStands, NoDeletion
<1>5. \A o \in OrgIds : MembersOf(o) # {}
  BY <1>1 DEF MembersOf, AdminsOf
<1>6. EmptyHookDue /\ OthersKeepTheirOrgs
  BY <1>1, <1>5 DEF EmptyHookDue, OthersKeepTheirOrgs
<1> QED BY <1>2, <1>3, <1>4, <1>6 DEF ErasureIInv

\* Rows only go, and Clerk's deletions are followed by their webhooks.
LEMMA HooksDueStep == ASSUME HooksDue, [ErasureNext]_erasureVars PROVE HooksDue'
<1> USE DEF HooksDue, OrgHookDue, UserHookDue
<1>1. ASSUME NEW o \in OrgIds, NEW u \in Users, NEW r, ChangeMember(o, u, r) PROVE HooksDue'
  <2>1. hookBox \subseteq hookBox' /\ UNCHANGED <<accounts, orgsAtClerk, orgRows, idRows>>
    BY <1>1 DEF ChangeMember
  <2> QED BY <2>1
<1>2. ASSUME NEW u \in Users, DeletedAtClerk(u) \/ DeleteUser(u) PROVE HooksDue'
  <2>1. /\ UNCHANGED <<orgsAtClerk, orgRows, idRows>> /\ hookBox \subseteq hookBox'
        /\ \/ UNCHANGED accounts
           \/ accounts' = accounts \ {u} /\ UserGone(u) \subseteq hookBox'
    BY <1>2 DEF DeletedAtClerk, DeleteUser, ClerkDeletesUser
  <2> QED BY <2>1 DEF UserGone
<1>3. ASSUME NEW u \in Users,
             \/ PlanDeletion(u) \/ DeletionFails(u) \/ EraseStep(u) \/ EraseUserStep(u)
      PROVE  HooksDue'
  <2>1. /\ UNCHANGED <<accounts, orgsAtClerk, hookBox>>
        /\ orgRows' \subseteq orgRows /\ idRows' \subseteq idRows
    BY <1>3 DEF PlanDeletion, DeletionFails, EraseStep, EraseUserStep, EraseOrg, EraseUser
  <2> QED BY <2>1
<1>4. ASSUME NEW u \in Users, NEW o \in OrgIds, DeleteOrganization(u, o) PROVE HooksDue'
  <2>1. /\ UNCHANGED <<accounts, orgRows, idRows>> /\ hookBox \subseteq hookBox'
        /\ orgsAtClerk' = orgsAtClerk \ {o}
        /\ o \in orgsAtClerk => OrgGone(o) \subseteq hookBox'
    BY <1>4 DEF DeleteOrganization, ClerkDeletesOrg
  <2> QED BY <2>1 DEF OrgGone
<1>5. ASSUME NEW h \in hookBox, OnOrganizationDeleted(h) PROVE HooksDue'
  BY <1>5 DEF OnOrganizationDeleted, EraseOrg
<1>6. ASSUME NEW h \in hookBox, OnUserDeleted(h) PROVE HooksDue'
  <2>1. /\ h.kind = "user" /\ hookBox' = hookBox \ {h} /\ idRows' = idRows \ {h.user}
        /\ UNCHANGED <<accounts, orgsAtClerk, orgRows>>
    BY <1>6, Zenon DEF OnUserDeleted, EraseUser
  <2> QED BY <2>1
<1>7. ASSUME NEW h \in hookBox, NEW works \in BOOLEAN, OnMembershipDeleted(h, works)
      PROVE  HooksDue'
  <2>1. /\ h.kind = "membership" /\ UNCHANGED <<accounts, orgRows>>
        /\ hookBox \ {h} \subseteq hookBox'
        /\ \/ UNCHANGED orgsAtClerk
           \/ orgsAtClerk' = orgsAtClerk \ {h.org} /\ OrgGone(h.org) \subseteq hookBox'
    BY <1>7, Zenon DEF OnMembershipDeleted, DeleteOrgIfEmpty
  <2>2. idRows' \subseteq idRows
    BY <1>7 DEF OnMembershipDeleted, EraseIfAccountGone, EraseUser
  <2> QED BY <2>1, <2>2 DEF OrgGone
<1>8. ASSUME UNCHANGED erasureVars PROVE HooksDue'
  BY <1>8 DEF erasureVars
<1> HIDE DEF HooksDue
<1> QED BY <1>1, <1>2, <1>3, <1>4, <1>5, <1>6, <1>7, <1>8 DEF ErasureNext

\* Every step keeps the types.
LEMMA ErasureTyped ==
    ASSUME RolesTyped, DeletionsTyped, [ErasureNext]_erasureVars
    PROVE  RolesTyped' /\ DeletionsTyped'
<1>1. RolesTyped'
  <2> USE DEF RolesTyped
  <2>1. ASSUME NEW o \in OrgIds, NEW u \in Users, NEW r \in {"none", "member", "admin"},
               ChangeMember(o, u, r)
        PROVE  RolesTyped'
    BY <2>1 DEF ChangeMember
  <2>2. ASSUME NEW u \in Users, ClerkDeletesUser(u), UNCHANGED orgsAtClerk PROVE RolesTyped'
    BY <2>2 DEF ClerkDeletesUser
  <2>3. ASSUME NEW o \in OrgIds, ClerkDeletesOrg(o) PROVE RolesTyped'
    BY <2>3 DEF ClerkDeletesOrg
  <2>4. ASSUME UNCHANGED role, orgsAtClerk' \subseteq orgsAtClerk PROVE RolesTyped'
    BY <2>4
  <2> HIDE DEF RolesTyped
  <2>5. ASSUME NEW h \in hookBox, NEW works, OnMembershipDeleted(h, works) PROVE RolesTyped'
    <3>1. UNCHANGED role /\ orgsAtClerk' \subseteq orgsAtClerk
      BY <2>5, Zenon DEF OnMembershipDeleted, DeleteOrgIfEmpty
    <3> QED BY <2>4, <3>1
  <2>6. ASSUME NEW u \in Users, DeletedAtClerk(u) \/ DeleteUser(u) PROVE RolesTyped'
    BY <2>2, <2>4, <2>6 DEF DeletedAtClerk, DeleteUser
  <2>7. ASSUME NEW u \in Users, NEW o \in OrgIds, DeleteOrganization(u, o) PROVE RolesTyped'
    BY <2>3, <2>7 DEF DeleteOrganization
  <2>8. ASSUME NEW h \in hookBox, OnOrganizationDeleted(h) \/ OnUserDeleted(h) PROVE RolesTyped'
    BY <2>4, <2>8 DEF OnOrganizationDeleted, OnUserDeleted
  <2>9. ASSUME NEW u \in Users,
               PlanDeletion(u) \/ DeletionFails(u) \/ EraseStep(u) \/ EraseUserStep(u)
        PROVE  RolesTyped'
    BY <2>4, <2>9 DEF PlanDeletion, DeletionFails, EraseStep, EraseUserStep
  <2>10. ASSUME UNCHANGED erasureVars PROVE RolesTyped'
    BY <2>4, <2>10 DEF erasureVars
  <2> QED BY <2>1, <2>5, <2>6, <2>7, <2>8, <2>9, <2>10 DEF ErasureNext
<1>2. DeletionsTyped'
  <2> USE DEF DeletionsTyped
  <2>1. ASSUME UNCHANGED deletion PROVE DeletionsTyped'
    BY <2>1
  <2>2. ASSUME NEW u \in Users, PlanDeletion(u) PROVE DeletionsTyped'
    <3>1. {o \in orgsAtClerk : role[o][u] # "none"} \subseteq OrgIds
      BY DEF RolesTyped
    <3>2. PICK os \in SUBSET OrgIds :
            deletion' = [deletion EXCEPT ![u] = [pc |-> "org", orgs |-> os, org |-> "none"]]
      BY <2>2, <3>1 DEF PlanDeletion
    <3> QED BY <3>2
  <2>3. ASSUME NEW u \in Users, NEW o \in OrgIds, DeleteOrganization(u, o) PROVE DeletionsTyped'
    BY <2>3 DEF DeleteOrganization
  <2>4. ASSUME NEW u \in Users, EraseStep(u) PROVE DeletionsTyped'
    BY <2>4 DEF EraseStep
  <2>5. ASSUME NEW u \in Users, DeleteUser(u) PROVE DeletionsTyped'
    <3>1. deletion' = [deletion EXCEPT ![u].pc = "rows"]
      BY <2>5 DEF DeleteUser
    <3> QED BY <3>1
  <2>6. ASSUME NEW u \in Users, EraseUserStep(u) \/ DeletionFails(u) PROVE DeletionsTyped'
    <3>1. deletion' = [deletion EXCEPT ![u] = NoDeletion]
      BY <2>6 DEF EraseUserStep, DeletionFails
    <3>2. NoDeletion \in [pc : {"idle", "org", "erase", "rows"}, orgs : SUBSET OrgIds,
                          org : OrgIds \union {"none"}]
      BY DEF NoDeletion
    <3> QED BY <3>1, <3>2
  <2> HIDE DEF DeletionsTyped
  <2> QED BY <2>1, <2>2, <2>3, <2>4, <2>5, <2>6
          DEF ErasureNext, ChangeMember, DeletedAtClerk, OnOrganizationDeleted, OnUserDeleted,
              OnMembershipDeleted, erasureVars
<1> QED BY <1>1, <1>2

\* The last to leave an org leaves a webhook behind, and only its handling, which
\* looks at who is left, removes it.
LEMMA EmptyHookDueStep ==
    ASSUME RolesTyped, EmptyHookDue, [ErasureNext]_erasureVars PROVE EmptyHookDue'
<1> USE DEF EmptyHookDue
<1>1. ASSUME hookBox \subseteq hookBox', UNCHANGED <<role, missed>>,
             orgsAtClerk' \subseteq orgsAtClerk
      PROVE  EmptyHookDue'
  BY <1>1 DEF MembersOf
<1>2. ASSUME NEW o \in OrgIds, NEW u \in Users, NEW r \in {"none", "member", "admin"},
             ChangeMember(o, u, r)
      PROVE  EmptyHookDue'
  <2>1. /\ UNCHANGED <<orgsAtClerk, missed>> /\ role' = [role EXCEPT ![o][u] = r]
        /\ hookBox \subseteq hookBox' /\ (r = "none" => Ended(u, {o}) \subseteq hookBox')
    BY <1>2 DEF ChangeMember
  <2> SUFFICES ASSUME ~missed, NEW p \in orgsAtClerk, MembersOf(p)' = {}
               PROVE  \E h \in hookBox' : h.kind = "membership" /\ h.org = p
    BY <2>1
  <2>2. CASE p = o
    <3>1. role'[o][u] = r
      BY <2>1, <2>2 DEF RolesTyped
    <3>2. r = "none"
      BY <2>2, <3>1 DEF MembersOf
    <3>3. [kind |-> "membership", org |-> o, user |-> u] \in hookBox'
      BY <2>1, <3>2 DEF Ended
    <3> QED BY <2>2, <3>3
  <2>3. CASE p # o
    <3>1. role'[p] = role[p]
      BY <2>1, <2>3 DEF RolesTyped
    <3>2. MembersOf(p) = {}
      BY <3>1 DEF MembersOf
    <3> QED BY <2>1, <3>2
  <2> QED BY <2>2, <2>3
<1>3. ASSUME NEW u \in Users, ClerkDeletesUser(u), UNCHANGED <<orgsAtClerk, missed>>
      PROVE  EmptyHookDue'
  <2>1. /\ role' = [o \in OrgIds |-> [role[o] EXCEPT ![u] = "none"]]
        /\ hookBox \subseteq hookBox'
        /\ \A o \in OrgIds : role[o][u] # "none" =>
              [kind |-> "membership", org |-> o, user |-> u] \in hookBox'
    BY <1>3 DEF ClerkDeletesUser, Ended
  <2> SUFFICES ASSUME ~missed, NEW p \in orgsAtClerk, MembersOf(p)' = {}
               PROVE  \E h \in hookBox' : h.kind = "membership" /\ h.org = p
    BY <1>3
  <2>2. p \in OrgIds
    BY DEF RolesTyped
  <2>3. CASE role[p][u] # "none"
    BY <2>1, <2>2, <2>3
  <2>4. CASE role[p][u] = "none"
    <3>1. \A v \in Users : role'[p][v] = role[p][v]
      BY <2>1, <2>2, <2>4 DEF RolesTyped
    <3>2. MembersOf(p) = {}
      BY <3>1 DEF MembersOf
    <3> QED BY <2>1, <3>2
  <2> QED BY <2>3, <2>4
<1>4. ASSUME NEW u \in Users, NEW o \in OrgIds, DeleteOrganization(u, o) PROVE EmptyHookDue'
  <2>1. /\ orgsAtClerk' = orgsAtClerk \ {o} /\ UNCHANGED missed
        /\ role' = [role EXCEPT ![o] = [v \in Users |-> "none"]] /\ hookBox \subseteq hookBox'
    BY <1>4 DEF DeleteOrganization, ClerkDeletesOrg
  <2> SUFFICES ASSUME ~missed, NEW p \in orgsAtClerk, p # o, MembersOf(p)' = {}
               PROVE  \E h \in hookBox' : h.kind = "membership" /\ h.org = p
    BY <2>1
  <2>2. role'[p] = role[p]
    BY <2>1 DEF RolesTyped
  <2> QED BY <2>1, <2>2 DEF MembersOf
<1>5. ASSUME NEW h \in hookBox, OnOrganizationDeleted(h) \/ OnUserDeleted(h) PROVE EmptyHookDue'
  <2>1. /\ hookBox' = hookBox \ {h} /\ h.kind # "membership"
        /\ UNCHANGED <<role, orgsAtClerk, missed>>
    BY <1>5 DEF OnOrganizationDeleted, OnUserDeleted
  <2> QED BY <2>1 DEF MembersOf
<1>6. ASSUME NEW h \in hookBox, NEW works \in BOOLEAN, OnMembershipDeleted(h, works)
      PROVE  EmptyHookDue'
  <2>1. missed' = (missed \/ ~works) /\ UNCHANGED role /\ DeleteOrgIfEmpty(h, works)
    BY <1>6 DEF OnMembershipDeleted
  <2> SUFFICES ASSUME ~missed', NEW p \in orgsAtClerk', MembersOf(p)' = {}
               PROVE  \E g \in hookBox' : g.kind = "membership" /\ g.org = p
    OBVIOUS
  <2>2. works /\ ~missed
    BY <2>1, Zenon
  <2>3. MembersOf(p) = {}
    BY <2>1 DEF MembersOf
  <2>4. hookBox \ {h} \subseteq hookBox' /\ orgsAtClerk' \subseteq orgsAtClerk
    BY <2>1, Zenon DEF DeleteOrgIfEmpty
  <2>5. p # h.org
    <3>1. CASE h.org \in orgsAtClerk /\ MembersOf(h.org) = {}
      BY <2>1, <2>2, <3>1, Zenon DEF DeleteOrgIfEmpty
    <3> QED BY <2>3, <2>4, <3>1
  <2>6. PICK g \in hookBox : g.kind = "membership" /\ g.org = p
    BY <2>2, <2>3, <2>4
  <2> QED BY <2>4, <2>5, <2>6
<1> HIDE DEF EmptyHookDue
<1> QED BY <1>1, <1>2, <1>3, <1>4, <1>5, <1>6
        DEF ErasureNext, DeletedAtClerk, PlanDeletion, EraseStep, DeleteUser, EraseUserStep,
            DeletionFails, erasureVars

\* Where nobody's role changed and no deletion went back to its beginning.
LEMMA PlanKept ==
    ASSUME OthersKeepTheirOrgs, PlanStands, ~raced' => ~raced, UNCHANGED role,
           orgsAtClerk' \subseteq orgsAtClerk,
           \A u \in Users : deletion'[u].pc \in {"org", "erase"} =>
              deletion[u].pc \in {"org", "erase"} /\ deletion'[u].orgs = deletion[u].orgs
    PROVE  OthersKeepTheirOrgs' /\ PlanStands'
<1>1. OthersKeepTheirOrgs'
  BY DEF OthersKeepTheirOrgs, MembersOf, AdminsOf
<1>2. PlanStands'
  BY DEF PlanStands, Classify, MembersOf, AdminsOf
<1> QED BY <1>1, <1>2

\* As long as nobody else moves, a deletion leaves every org that it does not
\* delete with an admin.
LEMMA OthersKeepStep ==
    ASSUME RolesTyped, DeletionsTyped, OthersKeepTheirOrgs, PlanStands,
           [ErasureNext]_erasureVars
    PROVE  OthersKeepTheirOrgs' /\ PlanStands'
<1> DEFINE Goal == OthersKeepTheirOrgs' /\ PlanStands'
<1>1. ASSUME NEW o \in OrgIds, NEW u \in Users, NEW r \in {"none", "member", "admin"},
             ChangeMember(o, u, r)
      PROVE  Goal
  <2>1. /\ UNCHANGED <<orgsAtClerk, deletion>> /\ role' = [role EXCEPT ![o][u] = r]
        /\ AdminsOf(o) \ {u} # {} \/ r = "admin"
    BY <1>1 DEF ChangeMember
  <2>2. ~raced' => ~raced /\ InProgress = {}
    BY <1>1, Zenon DEF ChangeMember
  <2>3. PlanStands'
    BY <2>1, <2>2 DEF PlanStands, InProgress
  <2>4. OthersKeepTheirOrgs'
    <3> SUFFICES ASSUME ~raced', NEW p \in orgsAtClerk, MembersOf(p)' # {} PROVE AdminsOf(p)' # {}
      BY <2>1 DEF OthersKeepTheirOrgs
    <3>1. CASE p = o
      <4>1. /\ role'[o][u] = r /\ \A v \in Users : v # u => role'[o][v] = role[o][v]
        BY <2>1 DEF RolesTyped
      <4> QED BY <2>1, <3>1, <4>1 DEF AdminsOf
    <3>2. CASE p # o
      <4>1. role'[p] = role[p]
        BY <2>1, <3>2 DEF RolesTyped
      <4> QED BY <2>2, <4>1 DEF OthersKeepTheirOrgs, AdminsOf, MembersOf
    <3> QED BY <3>1, <3>2
  <2> QED BY <2>3, <2>4
<1>2. ASSUME NEW u \in Users, ClerkDeletesUser(u), UNCHANGED orgsAtClerk,
             ~raced' => ~raced /\ InProgress \subseteq {u},
             deletion'[u].pc \notin {"org", "erase"},
             \A v \in Users : v # u => deletion'[v] = deletion[v],
             ~raced' => \A o \in orgsAtClerk :
                role[o][u] # "none" => AdminsOf(o) # {u} \/ MembersOf(o) = {u}
      PROVE  Goal
  <2>1. role' = [o \in OrgIds |-> [role[o] EXCEPT ![u] = "none"]]
    BY <1>2 DEF ClerkDeletesUser
  <2>2. PlanStands'
    BY <1>2 DEF PlanStands, InProgress
  <2>3. OthersKeepTheirOrgs'
    <3> SUFFICES ASSUME ~raced', NEW p \in orgsAtClerk, MembersOf(p)' # {} PROVE AdminsOf(p)' # {}
      BY <1>2 DEF OthersKeepTheirOrgs
    <3>1. /\ role'[p][u] = "none" /\ \A v \in Users : v # u => role'[p][v] = role[p][v]
      BY <2>1 DEF RolesTyped
    <3>2. PICK w \in Users : w # u /\ role[p][w] # "none"
      BY <3>1 DEF MembersOf
    <3>3. MembersOf(p) # {} /\ MembersOf(p) # {u}
      BY <3>2 DEF MembersOf
    <3>4. AdminsOf(p) # {}
      BY <1>2, <3>3 DEF OthersKeepTheirOrgs
    <3>5. AdminsOf(p) # {u}
      BY <1>2, <3>3 DEF AdminsOf
    <3>6. PICK a \in AdminsOf(p) : a # u
      BY <3>4, <3>5
    <3> QED BY <3>1, <3>6 DEF AdminsOf
  <2> QED BY <2>2, <2>3
<1>3. ASSUME NEW u \in Users, DeletedAtClerk(u) PROVE Goal
  <2>1. ~raced' => ~raced /\ InProgress = {}
    BY <1>3, Zenon DEF DeletedAtClerk
  <2>2. /\ ClerkDeletesUser(u) /\ UNCHANGED <<orgsAtClerk, deletion>>
        /\ \A o \in OrgIds : u \in AdminsOf(o) => AdminsOf(o) # {u} \/ MembersOf(o) = {u}
    BY <1>3 DEF DeletedAtClerk
  <2>3. \A o \in orgsAtClerk : role[o][u] # "none" => AdminsOf(o) # {u} \/ MembersOf(o) = {u}
    BY <2>2 DEF RolesTyped
  <2>4. CASE raced'
    BY <2>4 DEF OthersKeepTheirOrgs, PlanStands
  <2>5. CASE ~raced'
    <3>1. deletion[u].pc \notin {"org", "erase"}
      BY <2>1, <2>5 DEF InProgress
    <3> QED BY <1>2, <2>1, <2>2, <2>3, <3>1
  <2> QED BY <2>4, <2>5
<1>4. ASSUME NEW u \in Users, DeleteUser(u) PROVE Goal
  <2>1. /\ deletion[u].pc = "org" /\ deletion[u].orgs = {} /\ UNCHANGED orgsAtClerk
        /\ deletion' = [deletion EXCEPT ![u].pc = "rows"]
        /\ ClerkDeletesUser(u) \/ UNCHANGED role
    BY <1>4 DEF DeleteUser
  <2>2. ~raced' => ~raced /\ InProgress = {u}
    BY <1>4, Zenon DEF DeleteUser
  <2>3. /\ deletion'[u].pc = "rows" /\ \A v \in Users : v # u => deletion'[v] = deletion[v]
    BY <2>1 DEF DeletionsTyped
  <2>4. CASE UNCHANGED role
    BY <2>1, <2>2, <2>3, <2>4, PlanKept
  <2>5. CASE ClerkDeletesUser(u)
    <3>1. ASSUME ~raced, NEW o \in orgsAtClerk, role[o][u] # "none"
          PROVE  AdminsOf(o) # {u} \/ MembersOf(o) = {u}
      <4>1. Classify(o, u) = "left"
        BY <2>1, <3>1 DEF PlanStands
      <4>2. u \notin AdminsOf(o) \/ AdminsOf(o) \ {u} # {}
        BY <4>1 DEF Classify
      <4> QED BY <4>2
    <3> QED BY <1>2, <2>1, <2>2, <2>3, <2>5, <3>1
  <2> QED BY <2>1, <2>4, <2>5
<1>5. ASSUME NEW u \in Users, PlanDeletion(u) PROVE Goal
  <2>1. /\ UNCHANGED <<role, orgsAtClerk, raced>>
        /\ \A v \in Users : v # u => deletion'[v] = deletion[v]
        /\ \A o \in orgsAtClerk : role[o][u] # "none" =>
              o \in deletion'[u].orgs \/ Classify(o, u) = "left"
    <3>1. \A o \in orgsAtClerk : role[o][u] # "none" =>
              Classify(o, u) \in {"deleted", "left"}
      BY <1>5 DEF PlanDeletion, Classify
    <3>2. /\ UNCHANGED <<role, orgsAtClerk, raced>>
          /\ deletion' = [deletion EXCEPT ![u] =
               [pc |-> "org",
                orgs |-> {o \in {o \in orgsAtClerk : role[o][u] # "none"} :
                             Classify(o, u) = "deleted"},
                org |-> "none"]]
      BY <1>5, Zenon DEF PlanDeletion
    <3>3. /\ \A v \in Users : v # u => deletion'[v] = deletion[v]
          /\ deletion'[u].orgs = {o \in {o \in orgsAtClerk : role[o][u] # "none"} :
                                   Classify(o, u) = "deleted"}
      BY <3>2 DEF DeletionsTyped
    <3> QED BY <3>1, <3>2, <3>3
  <2>2. OthersKeepTheirOrgs'
    BY <2>1 DEF OthersKeepTheirOrgs, MembersOf, AdminsOf
  <2>3. \A o : Classify(o, u)' = Classify(o, u)
    BY <2>1 DEF Classify, MembersOf, AdminsOf
  <2>4. PlanStands'
    <3> SUFFICES ASSUME ~raced, NEW v \in Users, deletion'[v].pc \in {"org", "erase"},
                        NEW o \in orgsAtClerk, role[o][v] # "none"
                 PROVE  o \in deletion'[v].orgs \/ Classify(o, v)' = "left"
      BY <2>1 DEF PlanStands
    <3>1. CASE v = u
      BY <2>1, <2>3, <3>1
    <3>2. CASE v # u
      BY <2>1, <3>2 DEF PlanStands, Classify, MembersOf, AdminsOf
    <3> QED BY <3>1, <3>2
  <2> QED BY <2>2, <2>4
<1>6. ASSUME NEW u \in Users, NEW o \in OrgIds, DeleteOrganization(u, o) PROVE Goal
  <2>1. /\ orgsAtClerk' = orgsAtClerk \ {o}
        /\ role' = [role EXCEPT ![o] = [v \in Users |-> "none"]]
        /\ deletion[u].pc = "org"
        /\ deletion' = [deletion EXCEPT ![u] =
              [pc |-> "erase", orgs |-> deletion[u].orgs \ {o}, org |-> o]]
    BY <1>6, Zenon DEF DeleteOrganization, ClerkDeletesOrg
  <2>2. ~raced' => ~raced
    BY <1>6, Zenon DEF DeleteOrganization
  <2>3. \A p \in orgsAtClerk' : p \in orgsAtClerk /\ p # o /\ role'[p] = role[p]
    BY <2>1 DEF RolesTyped
  <2>4. OthersKeepTheirOrgs'
    BY <2>2, <2>3 DEF OthersKeepTheirOrgs, MembersOf, AdminsOf
  <2>5. ASSUME NEW v \in Users
        PROVE  /\ deletion'[v].pc \in {"org", "erase"} => deletion[v].pc \in {"org", "erase"}
               /\ deletion[v].orgs \ {o} \subseteq deletion'[v].orgs
    BY <2>1 DEF DeletionsTyped
  <2>6. PlanStands'
    <3> SUFFICES ASSUME ~raced', NEW v \in Users, deletion'[v].pc \in {"org", "erase"},
                        NEW p \in orgsAtClerk', role'[p][v] # "none"
                 PROVE  p \in deletion'[v].orgs \/ Classify(p, v)' = "left"
      BY DEF PlanStands
    <3>1. p \in deletion[v].orgs \/ Classify(p, v) = "left"
      BY <2>2, <2>3, <2>5 DEF PlanStands
    <3>2. Classify(p, v)' = Classify(p, v)
      BY <2>3 DEF Classify, MembersOf, AdminsOf
    <3> QED BY <2>3, <2>5, <3>1, <3>2
  <2> QED BY <2>4, <2>6
<1>7. ASSUME NEW u \in Users, EraseStep(u) \/ EraseUserStep(u) \/ DeletionFails(u) PROVE Goal
  <2>1. /\ UNCHANGED <<role, orgsAtClerk, raced>>
        /\ \/ deletion[u].pc = "erase" /\ deletion' = [deletion EXCEPT ![u].pc = "org", ![u].org = "none"]
           \/ deletion' = [deletion EXCEPT ![u] = NoDeletion]
    BY <1>7 DEF EraseStep, EraseUserStep, DeletionFails
  <2>2. ASSUME NEW v \in Users, deletion'[v].pc \in {"org", "erase"}
        PROVE  deletion[v].pc \in {"org", "erase"} /\ deletion'[v].orgs = deletion[v].orgs
    BY <2>1, <2>2 DEF DeletionsTyped, NoDeletion
  <2> QED BY <2>1, <2>2, PlanKept
<1>8. ASSUME NEW h \in hookBox, NEW works \in BOOLEAN,
             \/ OnOrganizationDeleted(h) \/ OnUserDeleted(h) \/ OnMembershipDeleted(h, works)
      PROVE  Goal
  <2>1. UNCHANGED <<role, deletion, raced>> /\ orgsAtClerk' \subseteq orgsAtClerk
    BY <1>8, Zenon DEF OnOrganizationDeleted, OnUserDeleted, OnMembershipDeleted, DeleteOrgIfEmpty
  <2> QED BY <2>1, PlanKept
<1>9. ASSUME UNCHANGED erasureVars PROVE Goal
  BY <1>9, PlanKept DEF erasureVars
<1> HIDE DEF Goal
<1>10. Goal
  BY <1>1, <1>3, <1>4, <1>5, <1>6, <1>7, <1>8, <1>9 DEF ErasureNext
<1> QED BY <1>10 DEF Goal

LEMMA ErasureInvariant == ErasureSpec => []ErasureIInv
<1>1. ErasureIInv /\ [ErasureNext]_erasureVars => ErasureIInv'
  BY HooksDueStep, ErasureTyped, EmptyHookDueStep, OthersKeepStep DEF ErasureIInv
<1> QED BY <1>1, ErasureInitIInv, PTL DEF ErasureSpec

\* Whichever way an org or an account goes at Clerk, and wherever the deletion that
\* took it stopped, its webhook erases what is left.
THEOREM NothingLeftBehindAlways == ErasureSpec => []NothingLeftBehind
<1>1. ErasureIInv => NothingLeftBehind
  BY DEF ErasureIInv, HooksDue, OrgHookDue, UserHookDue, NothingLeftBehind, Quiet
<1> QED BY <1>1, ErasureInvariant, PTL

\* delete_org_if_empty: the handling of the last member's webhook finds the org
\* empty, also when two members left at once.
THEOREM NoAbandonedOrgAlways == ErasureSpec => []NoAbandonedOrg
<1>1. ErasureIInv => NoAbandonedOrg
  BY DEF ErasureIInv, EmptyHookDue, NoAbandonedOrg, Quiet
<1> QED BY <1>1, ErasureInvariant, PTL

\* delete_account's plan: what classify found stands until the account is gone,
\* unless a membership changes in between.
THEOREM OthersKeepTheirOrgsAlways == ErasureSpec => []OthersKeepTheirOrgs
  BY ErasureInvariant, PTL DEF ErasureIInv

-------------------------------------------------------------------------------
(* Incidents and their evidence.                                           *)

IncidentRow == [there : BOOLEAN, status : IncidentStatuses,
                resolver : {NoActor, "person", "agent"},
                report : {"unwritten", "edited", "final"}]
Asked == [status : IncidentStatuses] \union [report : {"edited", "final"}]
         \union [evidence : {"observation", "clip"}] \union {<< >>}
Request == [at : {"write", "stamp", "status", "capture"},
            kind : {"patch", "delete", "tool", "finalize", "attach"},
            given : Asked, row : IncidentRow]
AgentFiling == [at |-> "file", kind |-> "file"]

IncidentTyped == incident \in IncidentRow
JobsTyped == job \in [Jobs -> {NoJob, AgentFiling} \union Request]

\* A request under way reads or writes the incident.
Busy(j) == job[j].at \in {"write", "stamp", "status", "capture"}

\* A request asks for what its kind can, about an incident that was there.
AsksStatus(j) ==
    /\ job[j].kind = "patch" =>
         job[j].given \in [status : IncidentStatuses] \union [report : {"edited", "final"}]
    /\ job[j].kind = "finalize" => job[j].given \in [report : {"edited", "final"}]
    /\ job[j].at \in {"stamp", "status"} => job[j].given \in [status : IncidentStatuses]
    /\ job[j].row.there

Matches(to, resolver) ==
    /\ to \in Terminated => resolver # NoActor
    /\ to = "open" => resolver = NoActor

\* While requests do not overlap, the only one under way goes by the row as it is,
\* and an agent's that has stamped is about to write the status that goes with it.
Undisturbed ==
    ~overlapped =>
        /\ \A j, k \in Jobs : Busy(j) /\ Busy(k) => j = k
        /\ \A j \in Jobs : job[j].at \in {"write", "stamp"} => job[j].row = incident
        /\ \A j \in Jobs : job[j].at = "status" =>
              incident.there /\ Matches(job[j].given.status, incident.resolver)
        /\ (\A j \in Jobs : job[j].at # "status") => Matches(incident.status, incident.resolver)

ResolutionIInv ==
    IncidentTyped /\ JobsTyped /\ (\A j \in Jobs : Busy(j) => AsksStatus(j)) /\ Undisturbed

\* The requests of agents that have counted and not yet filed.
Counted == {j \in Jobs : job[j].at = "file"}

FilingIInv ==
    /\ filed \in [today : Nat, byAgents : Nat, byPeople : Nat] /\ started \in Nat
    /\ filed.byAgents <= filed.today /\ OnlyPeopleStartRuns
    /\ filed.byAgents + Cardinality(Counted) <= DailyCap + Cardinality(Jobs) - 1

IncidentsIInv == ResolutionIInv /\ FilingIInv /\ NoOrphanEvidence /\ OfferedClipsPlay

-------------------------------------------------------------------------------
\* A request that begins while none is under way, or that overlaps and is noted.
LEMMA ReadStep ==
    ASSUME ResolutionIInv, NEW j \in Jobs, NEW kind, NEW given, NEW at, Read(j, kind, given, at),
           [at |-> at, kind |-> kind, given |-> given] \in
              [at : {"write", "stamp", "capture"},
               kind : {"patch", "delete", "tool", "finalize", "attach"}, given : Asked],
           kind = "patch" =>
              given \in [status : IncidentStatuses] \union [report : {"edited", "final"}],
           kind = "finalize" => given \in [report : {"edited", "final"}],
           at = "stamp" => given \in [status : IncidentStatuses]
    PROVE  ResolutionIInv'
<1> DEFINE r == [at |-> at, kind |-> kind, given |-> given, row |-> incident]
<1>0. IncidentTyped /\ JobsTyped /\ (\A k \in Jobs : Busy(k) => AsksStatus(k)) /\ Undisturbed
  BY DEF ResolutionIInv
<1>1. /\ job[j] = NoJob /\ UNCHANGED incident
      /\ job' = [job EXCEPT ![j] = IF incident.there THEN r ELSE NoJob]
  BY Zenon DEF Read
<1>2. ~overlapped' => ~overlapped /\ \A k \in Jobs : job[k] = NoJob
  BY Zenon DEF Read, AtWork
<1>3. at \in {"write", "stamp", "capture"} /\ given \in Asked
      /\ kind \in {"patch", "delete", "tool", "finalize", "attach"}
  OBVIOUS
<1>4. r \in Request
  BY <1>0, <1>3 DEF IncidentTyped, Request
<1>5. /\ r.at = at /\ r.kind = kind /\ r.given = given /\ r.row = incident
  OBVIOUS
<1> HIDE DEF r
<1>6. /\ \A k \in Jobs : k # j => job'[k] = job[k]
      /\ (job'[j] = r /\ incident.there) \/ job'[j] = NoJob
  BY <1>0, <1>1 DEF JobsTyped
<1>7. IncidentTyped' /\ JobsTyped'
  BY <1>0, <1>1, <1>4 DEF IncidentTyped, JobsTyped
<1>8. ASSUME NEW k \in Jobs, Busy(k)' PROVE AsksStatus(k)'
  <2>1. CASE k # j
    BY <1>0, <1>6, <1>8, <2>1 DEF Busy, AsksStatus
  <2>2. CASE k = j
    <3>1. job'[j] = r /\ incident.there
      BY <1>6, <1>8, <2>2 DEF Busy, NoJob
    <3> QED BY <1>3, <1>5, <2>2, <3>1 DEF AsksStatus
  <2> QED BY <2>1, <2>2
<1>9. Undisturbed'
  <2> SUFFICES ASSUME ~overlapped'
               PROVE  /\ \A k, i \in Jobs : Busy(k)' /\ Busy(i)' => k = i
                      /\ \A k \in Jobs : job'[k].at \in {"write", "stamp"} => job'[k].row = incident'
                      /\ \A k \in Jobs : job'[k].at = "status" =>
                            incident'.there /\ Matches(job'[k].given.status, incident'.resolver)
                      /\ (\A k \in Jobs : job'[k].at # "status")
                            => Matches(incident'.status, incident'.resolver)
    BY DEF Undisturbed
  <2>1. \A k \in Jobs : k # j => job'[k].at = "idle"
    BY <1>2, <1>6 DEF NoJob
  <2>2. \A k \in Jobs : job[k].at = "idle"
    BY <1>2 DEF NoJob
  <2>3. Matches(incident.status, incident.resolver)
    BY <1>0, <1>2, <2>2 DEF Undisturbed
  <2>4. job'[j].at \in {"write", "stamp"} => job'[j].row = incident
    BY <1>5, <1>6 DEF NoJob
  <2>5. job'[j].at # "status"
    BY <1>3, <1>5, <1>6 DEF NoJob
  <2> QED BY <1>1, <2>1, <2>3, <2>4, <2>5 DEF Busy
<1> QED BY <1>7, <1>8, <1>9 DEF ResolutionIInv

\* The step that ends a request.
LEMMA EndsStep ==
    ASSUME ResolutionIInv, NEW j \in Jobs, job' = [job EXCEPT ![j] = NoJob], Busy(j),
           IncidentTyped', UNCHANGED overlapped,
           ~overlapped => Matches(incident'.status, incident'.resolver)
    PROVE  ResolutionIInv'
<1>0. IncidentTyped /\ JobsTyped /\ (\A k \in Jobs : Busy(k) => AsksStatus(k)) /\ Undisturbed
  BY DEF ResolutionIInv
<1>1. JobsTyped' /\ \A k \in Jobs : job'[k] = IF k = j THEN NoJob ELSE job[k]
  BY <1>0 DEF JobsTyped
<1>2. \A k \in Jobs : Busy(k)' => Busy(k) /\ job'[k] = job[k] /\ k # j
  BY <1>1 DEF Busy, NoJob
<1>3. \A k \in Jobs : Busy(k)' => AsksStatus(k)'
  BY <1>0, <1>2 DEF AsksStatus
<1>4. ~overlapped => \A k \in Jobs : ~Busy(k)'
  BY <1>0, <1>2 DEF Undisturbed
<1>5. Undisturbed'
  BY <1>4 DEF Undisturbed, Busy
<1> QED BY <1>1, <1>3, <1>5 DEF ResolutionIInv

\* The statements of a person's PATCH, of a deletion and of an agent's report.
LEMMA WriteStep ==
    ASSUME ResolutionIInv, NEW j \in Jobs, WritePatch(j) \/ DeleteIncident(j) \/ WriteReport(j)
    PROVE  ResolutionIInv'
<1>0. IncidentTyped /\ JobsTyped /\ (\A k \in Jobs : Busy(k) => AsksStatus(k)) /\ Undisturbed
  BY DEF ResolutionIInv
<1>1. /\ job[j].at = "write" /\ UNCHANGED overlapped /\ job' = [job EXCEPT ![j] = NoJob]
  BY DEF WritePatch, DeleteIncident, WriteReport, Ends
<1>2. /\ Busy(j) /\ AsksStatus(j) /\ job[j] \in Request
  BY <1>0, <1>1 DEF Busy, JobsTyped, NoJob, AgentFiling
<1>3. ~overlapped => job[j].row = incident /\ Matches(incident.status, incident.resolver)
  BY <1>0, <1>1, <1>2 DEF Undisturbed, Busy
<1>4. incident \in IncidentRow /\ job[j].row \in IncidentRow
  BY <1>0, <1>2 DEF IncidentTyped, Request
<1>5. ASSUME WritePatch(j) PROVE ResolutionIInv'
  <2> DEFINE next == Patched(job[j].row, job[j].given)
  <2>1. /\ job[j].kind = "patch"
        /\ \/ UNCHANGED incident \/ incident' = next
    BY <1>5, Zenon DEF WritePatch, SetRow
  <2>2. \/ job[j].given \in [status : IncidentStatuses]
        \/ job[j].given \in [report : {"edited", "final"}]
    BY <1>2, <2>1 DEF AsksStatus
  <2>3. ASSUME NEW row \in IncidentRow, NEW given \in [status : IncidentStatuses]
        PROVE  /\ Patched(row, given) \in IncidentRow
               /\ Matches(row.status, row.resolver) =>
                    Matches(Patched(row, given).status, Patched(row, given).resolver)
    BY DEF Patched, IncidentRow, Matches, Resolver, IncidentStatuses, Terminated, NoActor
  <2>4. ASSUME NEW row \in IncidentRow, NEW given \in [report : {"edited", "final"}]
        PROVE  /\ Patched(row, given) \in IncidentRow
               /\ Patched(row, given).status = row.status
               /\ Patched(row, given).resolver = row.resolver
    BY DEF Patched, IncidentRow
  <2>5. /\ next \in IncidentRow
        /\ Matches(job[j].row.status, job[j].row.resolver) => Matches(next.status, next.resolver)
    BY <1>4, <2>2, <2>3, <2>4
  <2> HIDE DEF next
  <2>6. IncidentTyped'
    BY <1>4, <2>1, <2>5 DEF IncidentTyped
  <2>7. ~overlapped => Matches(incident'.status, incident'.resolver)
    BY <1>3, <2>1, <2>5
  <2> QED BY <1>1, <1>2, <2>6, <2>7, EndsStep
<1>6. ASSUME DeleteIncident(j) \/ WriteReport(j) PROVE ResolutionIInv'
  <2>1. \/ UNCHANGED incident
        \/ incident' = [incident EXCEPT !.there = FALSE]
        \/ job[j].kind = "finalize" /\ incident' = [incident EXCEPT !.report = job[j].given.report]
    BY <1>6, Zenon DEF DeleteIncident, WriteReport, SetRow
  <2>2. job[j].kind = "finalize" => job[j].given.report \in {"edited", "final"}
    BY <1>2 DEF AsksStatus
  <2>3. /\ incident' \in IncidentRow /\ incident'.status = incident.status
        /\ incident'.resolver = incident.resolver
    <3>1. CASE UNCHANGED incident
      BY <1>4, <3>1
    <3>2. CASE incident' = [incident EXCEPT !.there = FALSE]
      BY <1>4, <3>2 DEF IncidentRow
    <3>3. ASSUME NEW text \in {"edited", "final"}, incident' = [incident EXCEPT !.report = text]
          PROVE  /\ incident' \in IncidentRow /\ incident'.status = incident.status
                 /\ incident'.resolver = incident.resolver
      BY <1>4, <3>3 DEF IncidentRow
    <3> QED BY <2>1, <2>2, <3>1, <3>2, <3>3
  <2> QED BY <1>1, <1>2, <1>3, <2>3, EndsStep DEF IncidentTyped
<1> QED BY <1>5, <1>6

\* An agent's update: the stamp, and the status that goes with it.
LEMMA StampStep ==
    ASSUME ResolutionIInv, NEW j \in Jobs, WriteStamp(j) PROVE ResolutionIInv'
<1> DEFINE was == job[j].row.status
           to == job[j].given.status
<1>0. IncidentTyped /\ JobsTyped /\ (\A k \in Jobs : Busy(k) => AsksStatus(k)) /\ Undisturbed
  BY DEF ResolutionIInv
<1>1. /\ job[j].at = "stamp" /\ UNCHANGED overlapped
      /\ job' = [job EXCEPT ![j].at = "status"]
      /\ incident' = IF incident.there
                     THEN [incident EXCEPT !.resolver = Resolver(was, to, incident.resolver, "agent")]
                     ELSE incident
  BY Zenon DEF WriteStamp, SetRow, Goes
<1>2. /\ Busy(j) /\ AsksStatus(j) /\ job[j] \in Request
  BY <1>0, <1>1 DEF Busy, JobsTyped, NoJob, AgentFiling
<1>3. /\ job[j].given \in [status : IncidentStatuses] /\ job[j].row.there
      /\ job[j].row \in IncidentRow /\ incident \in IncidentRow
  BY <1>0, <1>1, <1>2 DEF AsksStatus, Request, IncidentTyped
<1>4. to \in IncidentStatuses /\ was \in IncidentStatuses
      /\ incident.resolver \in {NoActor, "person", "agent"}
  BY <1>3 DEF IncidentRow
<1> HIDE DEF to, was
<1>5. Resolver(was, to, incident.resolver, "agent") \in {NoActor, "person", "agent"}
  BY <1>4 DEF Resolver
<1>6. Matches(was, incident.resolver) =>
        Matches(to, Resolver(was, to, incident.resolver, "agent"))
  BY <1>4 DEF Matches, Resolver, IncidentStatuses, Terminated, NoActor
<1>7. ~overlapped => job[j].row = incident /\ Matches(incident.status, incident.resolver)
  BY <1>0, <1>1, <1>2 DEF Undisturbed, Busy
<1>8. IncidentTyped'
  <2>1. CASE incident.there
    <3>1. incident' = [incident EXCEPT !.resolver = Resolver(was, to, incident.resolver, "agent")]
      BY <1>1, <2>1
    <3> QED BY <1>3, <1>5, <3>1 DEF IncidentTyped, IncidentRow
  <2>2. CASE ~incident.there
    BY <1>1, <1>3, <2>2 DEF IncidentTyped
  <2> QED BY <2>1, <2>2
<1>9. /\ job'[j] \in Request /\ job'[j].at = "status" /\ job'[j].given = job[j].given
      /\ job'[j].row = job[j].row /\ job'[j].kind = job[j].kind
      /\ \A k \in Jobs : k # j => job'[k] = job[k]
  BY <1>0, <1>1, <1>2 DEF JobsTyped, Request
<1>10. JobsTyped'
  BY <1>0, <1>1, <1>9 DEF JobsTyped
<1>11. \A k \in Jobs : Busy(k)' => AsksStatus(k)'
  BY <1>0, <1>1, <1>2, <1>3, <1>9 DEF Busy, AsksStatus
<1>12. Undisturbed'
  <2> SUFFICES ASSUME ~overlapped
               PROVE  /\ \A k, i \in Jobs : Busy(k)' /\ Busy(i)' => k = i
                      /\ \A k \in Jobs : job'[k].at \in {"write", "stamp"} => job'[k].row = incident'
                      /\ \A k \in Jobs : job'[k].at = "status" =>
                            incident'.there /\ Matches(job'[k].given.status, incident'.resolver)
                      /\ (\A k \in Jobs : job'[k].at # "status")
                            => Matches(incident'.status, incident'.resolver)
    BY <1>1 DEF Undisturbed
  <2>1. \A k \in Jobs : k # j => ~Busy(k) /\ ~Busy(k)'
    BY <1>0, <1>2, <1>9 DEF Undisturbed, Busy
  <2>2. incident.there
    BY <1>3, <1>7
  <2>3. /\ incident'.resolver = Resolver(was, to, incident.resolver, "agent")
        /\ incident'.there
    <3>1. incident' = [incident EXCEPT !.resolver = Resolver(was, to, incident.resolver, "agent")]
      BY <1>1, <2>2
    <3> QED BY <1>3, <2>2, <3>1 DEF IncidentRow
  <2>4. was = incident.status
    BY <1>7 DEF was
  <2>5. Matches(job'[j].given.status, incident'.resolver)
    BY <1>6, <1>7, <1>9, <2>3, <2>4 DEF to
  <2> QED BY <1>9, <2>1, <2>3, <2>5 DEF Busy
<1> QED BY <1>8, <1>10, <1>11, <1>12 DEF ResolutionIInv

LEMMA StatusStep ==
    ASSUME ResolutionIInv, NEW j \in Jobs, WriteStatus(j) PROVE ResolutionIInv'
<1>0. IncidentTyped /\ JobsTyped /\ (\A k \in Jobs : Busy(k) => AsksStatus(k)) /\ Undisturbed
  BY DEF ResolutionIInv
<1>1. /\ job[j].at = "status" /\ UNCHANGED overlapped /\ job' = [job EXCEPT ![j] = NoJob]
      /\ incident' = IF incident.there THEN [incident EXCEPT !.status = job[j].given.status]
                     ELSE incident
  BY Zenon DEF WriteStatus, SetRow, Ends
<1>2. Busy(j) /\ AsksStatus(j)
  BY <1>0, <1>1 DEF Busy
<1>3. job[j].given.status \in IncidentStatuses /\ incident \in IncidentRow
  BY <1>0, <1>1, <1>2 DEF AsksStatus, IncidentTyped
<1>4. IncidentTyped'
  BY <1>1, <1>3 DEF IncidentTyped, IncidentRow
<1>5. ~overlapped => incident.there /\ Matches(job[j].given.status, incident.resolver)
  BY <1>0, <1>1 DEF Undisturbed
<1>6. incident.there =>
        incident'.status = job[j].given.status /\ incident'.resolver = incident.resolver
  BY <1>1, <1>3 DEF IncidentRow
<1> QED BY <1>1, <1>2, <1>4, <1>5, <1>6, EndsStep

\* The steps that neither read nor write the incident.
LEMMA AsideStep ==
    ASSUME ResolutionIInv, UNCHANGED <<incident, overlapped>>, NEW j \in Jobs, ~Busy(j),
           \/ UNCHANGED job
           \/ job' = [job EXCEPT ![j] = NoJob]
           \/ job' = [job EXCEPT ![j] = AgentFiling]
    PROVE  ResolutionIInv'
<1>0. IncidentTyped /\ JobsTyped /\ (\A k \in Jobs : Busy(k) => AsksStatus(k)) /\ Undisturbed
  BY DEF ResolutionIInv
<1>1. /\ JobsTyped' /\ \A k \in Jobs : k # j => job'[k] = job[k]
      /\ ~Busy(j)'
  BY <1>0 DEF JobsTyped, Busy, NoJob, AgentFiling
<1>2. /\ \A k \in Jobs : Busy(k)' <=> Busy(k)
      /\ \A k \in Jobs : Busy(k) => job'[k] = job[k]
  BY <1>1 DEF Busy
<1>3. \A k \in Jobs : Busy(k)' => AsksStatus(k)'
  BY <1>0, <1>2 DEF AsksStatus
<1>4. Undisturbed'
  <2> SUFFICES ASSUME ~overlapped
               PROVE  /\ \A k, i \in Jobs : Busy(k)' /\ Busy(i)' => k = i
                      /\ \A k \in Jobs : job'[k].at \in {"write", "stamp"} => job'[k].row = incident
                      /\ \A k \in Jobs : job'[k].at = "status" =>
                            incident.there /\ Matches(job'[k].given.status, incident.resolver)
                      /\ (\A k \in Jobs : job'[k].at # "status")
                            => Matches(incident.status, incident.resolver)
    BY DEF Undisturbed
  <2>1. \A k, i \in Jobs : Busy(k)' /\ Busy(i)' => k = i
    BY <1>0, <1>2 DEF Undisturbed
  <2>2. \A k \in Jobs : job'[k].at \in {"write", "stamp", "status"} => job'[k] = job[k]
    BY <1>1, <1>2 DEF Busy
  <2>3. \A k \in Jobs : job[k].at = "status" => job'[k] = job[k]
    BY <1>2 DEF Busy
  <2> QED BY <1>0, <2>1, <2>2, <2>3 DEF Undisturbed
<1> QED BY <1>0, <1>1, <1>3, <1>4 DEF ResolutionIInv, IncidentTyped

LEMMA ResolutionStep ==
    ASSUME ResolutionIInv, [IncidentsNext]_incidentVars PROVE ResolutionIInv'
<1>0. IncidentTyped /\ JobsTyped /\ (\A k \in Jobs : Busy(k) => AsksStatus(k)) /\ Undisturbed
  BY DEF ResolutionIInv
<1>1. ASSUME NEW j \in Jobs, NEW s \in IncidentStatuses, PatchStatus(j, s) \/ ToolStatus(j, s)
      PROVE  ResolutionIInv'
  <2>1. [status |-> s] \in [status : IncidentStatuses] /\ [status |-> s] \in Asked
    BY DEF Asked
  <2>2. CASE PatchStatus(j, s)
    BY <2>1, <2>2, ReadStep DEF PatchStatus
  <2>3. CASE ToolStatus(j, s)
    BY <2>1, <2>3, ReadStep DEF ToolStatus
  <2> QED BY <1>1, <2>2, <2>3
<1>2. ASSUME NEW j \in Jobs, PatchReport(j, "edited") \/ AskFinalize(j, "final")
      PROVE  ResolutionIInv'
  <2>1. \A text \in {"edited", "final"} :
          [report |-> text] \in [report : {"edited", "final"}] /\ [report |-> text] \in Asked
    BY DEF Asked
  <2>2. CASE PatchReport(j, "edited")
    BY <2>1, <2>2, ReadStep DEF PatchReport
  <2>3. CASE AskFinalize(j, "final")
    BY <2>1, <2>3, ReadStep DEF AskFinalize
  <2> QED BY <1>2, <2>2, <2>3
<1>3. ASSUME NEW j \in Jobs, NEW k \in {"observation", "clip"}, AskAttach(j, k)
      PROVE  ResolutionIInv'
  <2>1. [evidence |-> k] \in Asked
    BY DEF Asked
  <2> QED BY <1>3, <2>1, ReadStep DEF AskAttach
<1>4. ASSUME NEW j \in Jobs, AskDelete(j) PROVE ResolutionIInv'
  <2>1. << >> \in Asked
    BY DEF Asked
  <2> QED BY <1>4, <2>1, ReadStep DEF AskDelete
<1>5. ASSUME NEW j \in Jobs, InsertEvidence(j) PROVE ResolutionIInv'
  <2>1. /\ job[j].at = "capture" /\ UNCHANGED <<incident, overlapped>>
        /\ job' = [job EXCEPT ![j] = NoJob]
    BY <1>5, Zenon DEF InsertEvidence, Ends
  <2>2. Busy(j)
    BY <2>1 DEF Busy
  <2>3. ~overlapped => Matches(incident.status, incident.resolver)
    BY <1>0, <2>1, <2>2 DEF Undisturbed, Busy
  <2> QED BY <1>0, <2>1, <2>2, <2>3, EndsStep DEF IncidentTyped
<1>6. ASSUME NEW j \in Jobs, JobFails(j) PROVE ResolutionIInv'
  <2>1. UNCHANGED incident /\ overlapped' = TRUE /\ job' = [job EXCEPT ![j] = NoJob]
    BY <1>6 DEF JobFails, Ends
  <2>2. JobsTyped' /\ \A k \in Jobs : job'[k] = NoJob \/ job'[k] = job[k]
    BY <1>0, <2>1 DEF JobsTyped
  <2>3. \A k \in Jobs : Busy(k)' => AsksStatus(k)'
    BY <1>0, <2>2 DEF Busy, AsksStatus, NoJob
  <2> QED BY <1>0, <2>1, <2>2, <2>3 DEF ResolutionIInv, IncidentTyped, Undisturbed
<1>7. ASSUME NEW j \in Jobs, AgentCounts(j) \/ AgentFiles(j) PROVE ResolutionIInv'
  <2>1. /\ UNCHANGED <<incident, overlapped>>
        /\ \/ job[j] = NoJob /\ job' = [job EXCEPT ![j] = AgentFiling]
           \/ job[j].at = "file" /\ job' = [job EXCEPT ![j] = NoJob]
    BY <1>7, Zenon DEF AgentCounts, AgentFiles, Ends, AgentFiling
  <2>2. ~Busy(j)
    BY <2>1 DEF Busy, NoJob
  <2> QED BY <2>1, <2>2, AsideStep
<1>8. ASSUME UNCHANGED <<incident, job, overlapped>> PROVE ResolutionIInv'
  BY <1>8 DEF ResolutionIInv, IncidentTyped, JobsTyped, AsksStatus, Busy, Undisturbed
<1> QED BY <1>1, <1>2, <1>3, <1>4, <1>5, <1>6, <1>7, <1>8, WriteStep, StampStep, StatusStep
        DEF IncidentsNext, ExpireClips, PersonFiles, DeleteFiled, Midnight, incidentVars

-------------------------------------------------------------------------------
\* Evidence goes with its incident, and the mark of a clip with its video.
LEMMA EvidenceStep ==
    ASSUME NoOrphanEvidence, OfferedClipsPlay, ResolutionIInv, [IncidentsNext]_incidentVars
    PROVE  NoOrphanEvidence' /\ OfferedClipsPlay'
<1> USE DEF NoOrphanEvidence, OfferedClipsPlay
<1>0. IncidentTyped /\ JobsTyped /\ (\A k \in Jobs : Busy(k) => AsksStatus(k))
  BY DEF ResolutionIInv
<1>1. ASSUME incident'.there = incident.there, UNCHANGED evidenceRows
      PROVE  NoOrphanEvidence' /\ OfferedClipsPlay'
  BY <1>1
<1>2. ASSUME NEW j \in Jobs, WritePatch(j) \/ WriteReport(j) \/ WriteStamp(j) \/ WriteStatus(j)
      PROVE  NoOrphanEvidence' /\ OfferedClipsPlay'
  <2>1. UNCHANGED evidenceRows
    BY <1>2, Zenon DEF WritePatch, WriteReport, WriteStamp, WriteStatus
  <2>2. CASE ~incident.there
    BY <1>2, <2>1, <2>2, Zenon DEF WritePatch, WriteReport, WriteStamp, WriteStatus, SetRow
  <2>3. CASE incident.there
    <3>1. NoOrphanEvidence'
      <4>1. IncidentTyped /\ job[j].at \in {"write", "stamp", "status"} /\ Busy(j)
        BY <1>0, <1>2 DEF WritePatch, WriteReport, WriteStamp, WriteStatus, Busy
      <4>2. AsksStatus(j) /\ job[j] \in Request
        BY <1>0, <4>1 DEF JobsTyped, NoJob, AgentFiling
      <4>3. ASSUME WritePatch(j) PROVE incident'.there
        <5>1. \/ UNCHANGED incident \/ incident' = Patched(job[j].row, job[j].given)
          BY <4>3, Zenon DEF WritePatch, SetRow
        <5>2. job[j].row \in IncidentRow /\ job[j].row.there
          BY <4>2 DEF Request, AsksStatus
        <5>3. Patched(job[j].row, job[j].given).there = job[j].row.there
          BY <5>2 DEF Patched, IncidentRow
        <5> QED BY <2>3, <5>1, <5>2, <5>3
      <4>4. ASSUME WriteReport(j) \/ WriteStamp(j) \/ WriteStatus(j) PROVE incident'.there
        <5>1. \/ UNCHANGED incident
              \/ \E text : incident' = [incident EXCEPT !.report = text]
              \/ \E who : incident' = [incident EXCEPT !.resolver = who]
              \/ \E to : incident' = [incident EXCEPT !.status = to]
          BY <4>4, Zenon DEF WriteReport, WriteStamp, WriteStatus, SetRow
        <5> QED BY <1>0, <2>3, <5>1 DEF IncidentTyped, IncidentRow
      <4> QED BY <1>2, <4>3, <4>4
    <3> QED BY <2>1, <3>1
  <2> QED BY <2>2, <2>3
<1>3. ASSUME NEW j \in Jobs, DeleteIncident(j) PROVE NoOrphanEvidence' /\ OfferedClipsPlay'
  BY <1>3 DEF DeleteIncident
<1>4. ASSUME NEW j \in Jobs, InsertEvidence(j) PROVE NoOrphanEvidence' /\ OfferedClipsPlay'
  <2> DEFINE kind == job[j].given.evidence
             full == kind # "observation"
             row == [kind |-> kind, data |-> full, mime |-> full]
  <2>1. /\ UNCHANGED incident
        /\ evidenceRows' = IF incident.there THEN evidenceRows \union {row} ELSE evidenceRows
    BY <1>4, Zenon DEF InsertEvidence
  <2>2. row.mime => row.data
    <3>1. row.mime = full /\ row.data = full
      BY Zenon
    <3> QED BY <3>1, Zenon
  <2> HIDE DEF row
  <2> QED BY <2>1, <2>2
<1>5. ASSUME ExpireClips PROVE NoOrphanEvidence' /\ OfferedClipsPlay'
  <2> DEFINE Bare(e) == IF e.kind = "clip" THEN [e EXCEPT !.data = FALSE, !.mime = FALSE] ELSE e
  <2>1. UNCHANGED incident /\ evidenceRows' = {Bare(e) : e \in evidenceRows} /\ evidenceRows # {}
    BY <1>5 DEF ExpireClips
  <2>2. ASSUME NEW e \in evidenceRows, Bare(e).mime PROVE Bare(e).data
    BY <2>2
  <2> HIDE DEF Bare
  <2> QED BY <2>1, <2>2
<1> HIDE DEF NoOrphanEvidence, OfferedClipsPlay
<1> QED BY <1>1, <1>2, <1>3, <1>4, <1>5
        DEF IncidentsNext, Read, PatchStatus, PatchReport, ToolStatus, AskDelete, AskFinalize,
            AskAttach, JobFails, AgentCounts, AgentFiles, PersonFiles, DeleteFiled, Midnight, incidentVars

-------------------------------------------------------------------------------
\* Who has counted and not yet filed makes room for no one above the cap.
LEMMA FilingStep ==
    ASSUME FilingIInv, JobsTyped, [IncidentsNext]_incidentVars PROVE FilingIInv'
<1>0. /\ filed \in [today : Nat, byAgents : Nat, byPeople : Nat] /\ started \in Nat
      /\ filed.byAgents <= filed.today /\ OnlyPeopleStartRuns
      /\ filed.byAgents + Cardinality(Counted) <= DailyCap + Cardinality(Jobs) - 1
  BY DEF FilingIInv
<1>a. /\ IsFiniteSet(Counted) /\ Cardinality(Counted) \in Nat
      /\ Cardinality(Jobs) \in Nat /\ DailyCap \in Nat \ {0}
  BY IncidentsAssumption, FS_Subset, FS_CardinalityType DEF Counted
<1>b. /\ IsFiniteSet(Counted') /\ Cardinality(Counted') \in Nat
      /\ Cardinality(Counted') <= Cardinality(Jobs)
  BY IncidentsAssumption, FS_Subset, FS_CardinalityType DEF Counted
<1>1. ASSUME UNCHANGED <<filed, started>>, Counted' \subseteq Counted PROVE FilingIInv'
  <2>1. Cardinality(Counted') <= Cardinality(Counted)
    BY <1>1, <1>a, FS_Subset
  <2> QED BY <1>0, <1>1, <1>a, <1>b, <2>1 DEF FilingIInv, OnlyPeopleStartRuns
<1>2. ASSUME NEW j \in Jobs, AgentCounts(j) PROVE FilingIInv'
  <2>1. UNCHANGED <<filed, started>> /\ ~(filed.today >= DailyCap)
    BY <1>2, Zenon DEF AgentCounts, CapReached
  <2> QED BY <1>0, <2>1, <1>a, <1>b DEF FilingIInv, OnlyPeopleStartRuns
<1>3. ASSUME NEW j \in Jobs, AgentFiles(j) PROVE FilingIInv'
  <2>1. /\ job[j].at = "file" /\ job' = [job EXCEPT ![j] = NoJob] /\ UNCHANGED started
        /\ filed' = [filed EXCEPT !.today = @ + 1, !.byAgents = @ + 1]
    BY <1>3 DEF AgentFiles, Ends, Notify, AgentAuthored
  <2>2. j \in Counted /\ Counted' = Counted \ {j}
    BY <2>1 DEF Counted, JobsTyped, NoJob
  <2>3. Cardinality(Counted') = Cardinality(Counted) - 1
    BY <1>a, <2>2, FS_RemoveElement
  <2>4. /\ filed' \in [today : Nat, byAgents : Nat, byPeople : Nat]
        /\ filed'.today = filed.today + 1 /\ filed'.byAgents = filed.byAgents + 1
        /\ filed'.byPeople = filed.byPeople
    <3>1. filed \in [today : Nat, byAgents : Nat, byPeople : Nat]
      BY <1>0
    <3>2. filed' = [filed EXCEPT !.today = @ + 1, !.byAgents = @ + 1]
      BY <2>1
    <3>3. /\ filed'.today = filed.today + 1 /\ filed'.byAgents = filed.byAgents + 1
          /\ filed'.byPeople = filed.byPeople
      BY ONLY <3>1, <3>2
    <3>4. /\ filed.today + 1 \in Nat /\ filed.byAgents + 1 \in Nat /\ filed.byPeople \in Nat
      BY ONLY <3>1
    <3>5. filed' \in [today : Nat, byAgents : Nat, byPeople : Nat]
      BY ONLY <3>1, <3>2, <3>4
    <3> QED BY <3>3, <3>5
  <2> QED BY <1>0, <1>a, <1>b, <2>1, <2>3, <2>4 DEF FilingIInv, OnlyPeopleStartRuns
<1>4. ASSUME PersonFiles PROVE FilingIInv'
  <2>1. /\ started' = started + 1 /\ UNCHANGED job
        /\ filed' = [filed EXCEPT !.today = @ + 1, !.byPeople = @ + 1]
    BY <1>4 DEF PersonFiles, Notify, AgentAuthored
  <2>2. /\ filed' \in [today : Nat, byAgents : Nat, byPeople : Nat]
        /\ filed'.today = filed.today + 1 /\ filed'.byAgents = filed.byAgents
        /\ filed'.byPeople = filed.byPeople + 1
    <3>1. filed \in [today : Nat, byAgents : Nat, byPeople : Nat]
      BY <1>0
    <3>2. filed' = [filed EXCEPT !.today = @ + 1, !.byPeople = @ + 1]
      BY <2>1
    <3>3. /\ filed'.today = filed.today + 1 /\ filed'.byPeople = filed.byPeople + 1
          /\ filed'.byAgents = filed.byAgents
      BY ONLY <3>1, <3>2
    <3>4. /\ filed.today + 1 \in Nat /\ filed.byPeople + 1 \in Nat /\ filed.byAgents \in Nat
      BY ONLY <3>1
    <3>5. filed' \in [today : Nat, byAgents : Nat, byPeople : Nat]
      BY ONLY <3>1, <3>2, <3>4
    <3> QED BY <3>3, <3>5
  <2>3. Counted' = Counted
    BY <2>1 DEF Counted
  <2> QED BY <1>0, <1>a, <2>1, <2>2, <2>3 DEF FilingIInv, OnlyPeopleStartRuns
<1>5. ASSUME Midnight PROVE FilingIInv'
  <2>1. UNCHANGED started /\ filed' = [filed EXCEPT !.today = 0, !.byAgents = 0]
    BY <1>5 DEF Midnight
  <2>2. /\ filed' \in [today : Nat, byAgents : Nat, byPeople : Nat]
        /\ filed'.today = 0 /\ filed'.byAgents = 0 /\ filed'.byPeople = filed.byPeople
    BY <1>0, <2>1
  <2> QED BY <1>0, <1>a, <1>b, <2>1, <2>2 DEF FilingIInv, OnlyPeopleStartRuns
<1>10. ASSUME DeleteFiled PROVE FilingIInv'
  <2>1. UNCHANGED <<started, job>>
    BY <1>10 DEF DeleteFiled
  <2>2. /\ filed' \in [today : Nat, byAgents : Nat, byPeople : Nat]
        /\ filed'.byAgents <= filed'.today /\ filed'.byAgents <= filed.byAgents
        /\ filed'.byPeople = filed.byPeople
    <3>1. filed \in [today : Nat, byAgents : Nat, byPeople : Nat] /\ filed.byAgents <= filed.today
      BY <1>0
    <3>2. CASE filed.byAgents > 0 /\ filed' = [filed EXCEPT !.today = @ - 1, !.byAgents = @ - 1]
      <4>1. /\ filed.today - 1 \in Nat /\ filed.byAgents - 1 \in Nat /\ filed.byPeople \in Nat
        BY ONLY <3>1, <3>2
      <4>2. /\ filed'.today = filed.today - 1 /\ filed'.byAgents = filed.byAgents - 1
            /\ filed'.byPeople = filed.byPeople
        BY ONLY <3>1, <3>2
      <4>3. filed' \in [today : Nat, byAgents : Nat, byPeople : Nat]
        BY ONLY <3>1, <3>2, <4>1
      <4> QED BY ONLY <3>1, <4>1, <4>2, <4>3
    <3>3. CASE filed.byAgents < filed.today /\ filed' = [filed EXCEPT !.today = @ - 1]
      <4>1. filed.today - 1 \in Nat /\ filed.byAgents \in Nat
        BY ONLY <3>1, <3>3
      <4>2. /\ filed'.today = filed.today - 1 /\ filed'.byAgents = filed.byAgents
            /\ filed'.byPeople = filed.byPeople
        BY ONLY <3>1, <3>3
      <4>3. filed' \in [today : Nat, byAgents : Nat, byPeople : Nat]
        BY ONLY <3>1, <3>3, <4>1
      <4> QED BY ONLY <3>1, <3>3, <4>1, <4>2, <4>3
    <3> QED BY <1>10, <3>2, <3>3 DEF DeleteFiled
  <2>3. Counted' = Counted
    BY <2>1 DEF Counted
  <2> QED BY <1>0, <1>a, <2>1, <2>2, <2>3 DEF FilingIInv, OnlyPeopleStartRuns
<1>6. ASSUME NEW j \in Jobs, NEW kind, NEW given, NEW at \in {"write", "stamp", "capture"},
             Read(j, kind, given, at)
      PROVE  FilingIInv'
  <2>1. UNCHANGED <<filed, started>>
    BY <1>6, Zenon DEF Read
  <2>2. PICK r : /\ job' = [job EXCEPT ![j] = r]
                 /\ \/ r = NoJob
                    \/ r = [at |-> at, kind |-> kind, given |-> given, row |-> incident]
    BY <1>6 DEF Read
  <2>3. r.at # "file"
    BY <2>2 DEF NoJob
  <2>4. Counted' \subseteq Counted
    BY <2>2, <2>3 DEF Counted, JobsTyped
  <2> QED BY <1>1, <2>1, <2>4
<1>7. ASSUME NEW j \in Jobs,
             \/ WritePatch(j) \/ DeleteIncident(j) \/ WriteReport(j) \/ WriteStatus(j)
             \/ InsertEvidence(j) \/ JobFails(j)
      PROVE  FilingIInv'
  <2>1. UNCHANGED <<filed, started>> /\ job' = [job EXCEPT ![j] = NoJob]
    BY <1>7, Zenon
       DEF WritePatch, DeleteIncident, WriteReport, WriteStatus, InsertEvidence, JobFails, Ends
  <2>2. Counted' \subseteq Counted
    BY <2>1 DEF Counted, JobsTyped, NoJob
  <2> QED BY <1>1, <2>1, <2>2
<1>8. ASSUME NEW j \in Jobs, WriteStamp(j) PROVE FilingIInv'
  <2>1. /\ UNCHANGED <<filed, started>> /\ job[j].at = "stamp"
        /\ job' = [job EXCEPT ![j].at = "status"]
    BY <1>8, Zenon DEF WriteStamp, Goes
  <2>2. job'[j].at = "status"
    BY <2>1 DEF JobsTyped, Request, NoJob, AgentFiling
  <2>3. Counted' \subseteq Counted
    BY <2>1, <2>2 DEF Counted, JobsTyped
  <2> QED BY <1>1, <2>1, <2>3
<1>9. ASSUME UNCHANGED <<filed, started, job>> PROVE FilingIInv'
  BY <1>1, <1>9 DEF Counted
<1> HIDE DEF FilingIInv
<1> QED BY <1>2, <1>3, <1>4, <1>5, <1>6, <1>7, <1>8, <1>9, <1>10
        DEF IncidentsNext, PatchStatus, PatchReport, ToolStatus, AskDelete, AskFinalize,
            AskAttach, ExpireClips, incidentVars

LEMMA IncidentsInitIInv == IncidentsInit => IncidentsIInv
<1> SUFFICES ASSUME IncidentsInit PROVE IncidentsIInv
  OBVIOUS
<1>1. /\ incident = [there |-> TRUE, status |-> "open", resolver |-> NoActor, report |-> "unwritten"]
      /\ evidenceRows = {} /\ job = [j \in Jobs |-> NoJob] /\ started = 0
      /\ filed = [today |-> 0, byAgents |-> 0, byPeople |-> 0]
  BY Zenon DEF IncidentsInit
<1>2. IncidentTyped /\ JobsTyped
  BY <1>1 DEF IncidentTyped, IncidentRow, JobsTyped, IncidentStatuses
<1>3. \A j \in Jobs : job[j].at = "idle"
  BY <1>1 DEF NoJob
<1>4. Matches(incident.status, incident.resolver)
  BY <1>1 DEF Matches, Terminated
<1>5. ResolutionIInv
  BY <1>2, <1>3, <1>4 DEF ResolutionIInv, Busy, Undisturbed
<1>6. Counted = {} /\ Cardinality(Counted) = 0 /\ Cardinality(Jobs) \in Nat
  BY <1>3, FS_EmptySet, FS_CardinalityType, IncidentsAssumption DEF Counted
<1>7. FilingIInv
  BY <1>1, <1>6, IncidentsAssumption DEF FilingIInv, OnlyPeopleStartRuns
<1> QED BY <1>1, <1>5, <1>7 DEF IncidentsIInv, NoOrphanEvidence, OfferedClipsPlay

LEMMA IncidentsInvariant == IncidentsSpec => []IncidentsIInv
<1>1. IncidentsIInv /\ [IncidentsNext]_incidentVars => IncidentsIInv'
  BY ResolutionStep, EvidenceStep, FilingStep DEF IncidentsIInv, ResolutionIInv
<1> QED BY <1>1, IncidentsInitIInv, PTL DEF IncidentsSpec

\* update_incident, of the dashboard and of the tools: who closed an incident is
\* recorded as long as it is closed, unless requests overlap or fail half-way.
THEOREM ResolutionMatchesStatusAlways == IncidentsSpec => []ResolutionMatchesStatus
<1>1. IncidentsIInv => ResolutionMatchesStatus
  <2> SUFFICES ASSUME IncidentsIInv, ~overlapped, ~AtWork
               PROVE  /\ incident.status \in Terminated => incident.resolver # NoActor
                      /\ incident.status = "open" => incident.resolver = NoActor
    BY DEF ResolutionMatchesStatus
  <2>1. \A j \in Jobs : job[j].at # "status"
    BY DEF AtWork, NoJob
  <2> QED BY <2>1 DEF IncidentsIInv, ResolutionIInv, Undisturbed, Matches
<1> QED BY <1>1, IncidentsInvariant, PTL

\* ON DELETE CASCADE, and an insertion that finds the incident gone: no evidence
\* is left without its incident.
THEOREM NoOrphanEvidenceAlways == IncidentsSpec => []NoOrphanEvidence
  BY IncidentsInvariant, PTL DEF IncidentsIInv

\* daily_cap_refusal is a count and then an insertion: a burst of agents overruns
\* MAX_INCIDENTS_PER_ORG_PER_DAY by fewer than there are of them: no day ever has
\* more rows that agents filed, though deletions make room for new ones.
THEOREM CapOvershootBoundedAlways == IncidentsSpec => []CapOvershootBounded
<1>1. IncidentsIInv => CapOvershootBounded
  <2> SUFFICES ASSUME FilingIInv PROVE CapOvershootBounded
    BY DEF IncidentsIInv
  <2>1. Cardinality(Counted) \in Nat /\ Cardinality(Jobs) \in Nat /\ DailyCap \in Nat
    BY IncidentsAssumption, FS_Subset, FS_CardinalityType DEF Counted
  <2> QED BY <2>1 DEF FilingIInv, CapOvershootBounded
<1> QED BY <1>1, IncidentsInvariant, PTL

\* is_agent_authored: an incident that an agent filed starts no run, so there are
\* never more runs than incidents that people filed.
THEOREM OnlyPeopleStartRunsAlways == IncidentsSpec => []OnlyPeopleStartRuns
  BY IncidentsInvariant, PTL DEF IncidentsIInv, FilingIInv

-------------------------------------------------------------------------------
(* The data export.                                                        *)

ExportTyped ==
    /\ incidentRows \subseteq Parents
    /\ exporter \in [pc : {"idle", "incidents", "evidence", "blobs", "done"},
                     listed : SUBSET Parents, rows : SUBSET (Parents \X BOOLEAN),
                     todo : SUBSET Parents]
    /\ archive \in [incidents : SUBSET Parents, evidence : SUBSET Parents,
                    files : SUBSET Parents, named : SUBSET Parents, counted : Nat]

\* What is still to be written belongs to incidents the archive has, and what
\* was written has left the list.
ArchiveGrows ==
    /\ exporter.pc \in {"idle", "incidents", "evidence"} => archive = Empty
    /\ exporter.pc = "incidents" => exporter.rows = {}
    /\ exporter.pc = "evidence" => \A r \in exporter.rows : r[1] \in exporter.listed
    /\ exporter.pc = "evidence" => exporter.todo \subseteq exporter.listed
    /\ exporter.pc = "blobs" => exporter.todo \subseteq archive.incidents
    /\ exporter.pc \in {"blobs", "done"} =>
         /\ archive.evidence \subseteq archive.incidents
         /\ archive.named = archive.files /\ IsFiniteSet(archive.files)
         /\ archive.counted = Cardinality(archive.files)
    /\ exporter.pc = "blobs" => archive.files \cap exporter.todo = {}

ExportIInv == ExportTyped /\ ArchiveGrows

LEMMA EmptyTyped ==
    /\ Empty \in [incidents : SUBSET Parents, evidence : SUBSET Parents,
                  files : SUBSET Parents, named : SUBSET Parents, counted : Nat]
    /\ Idle \in [pc : {"idle", "incidents", "evidence", "blobs", "done"},
                 listed : SUBSET Parents, rows : SUBSET (Parents \X BOOLEAN),
                 todo : SUBSET Parents]
    /\ Idle.pc = "idle"
BY DEF Empty, Idle

LEMMA ExportStep == ExportIInv /\ [ExportNext]_exportVars => ExportIInv'
<1> SUFFICES ASSUME ExportIInv, [ExportNext]_exportVars PROVE ExportIInv'
  OBVIOUS
<1> USE DEF ExportIInv
<1> DEFINE Doing == [pc : {"idle", "incidents", "evidence", "blobs", "done"},
                     listed : SUBSET Parents, rows : SUBSET (Parents \X BOOLEAN),
                     todo : SUBSET Parents]
           Held  == [incidents : SUBSET Parents, evidence : SUBSET Parents,
                     files : SUBSET Parents, named : SUBSET Parents, counted : Nat]
<1>1. CASE UNCHANGED <<exporter, archive>> /\ incidentRows' \subseteq Parents
  BY <1>1 DEF ExportTyped, ArchiveGrows
<1>2. CASE exporter' = Idle /\ archive' = Empty /\ UNCHANGED incidentRows
  BY <1>2, EmptyTyped DEF ExportTyped, ArchiveGrows
<1>3. CASE StartExport
  <2>1. exporter' = [Idle EXCEPT !.pc = "incidents"] /\ archive' = Empty
        /\ incidentRows' = incidentRows
    BY <1>3 DEF StartExport
  <2>2. exporter' = [pc |-> "incidents", listed |-> {}, rows |-> {}, todo |-> {}]
    BY <2>1 DEF Idle
  <2> QED BY <2>1, <2>2, EmptyTyped DEF ExportTyped, ArchiveGrows
<1>4. CASE ListParents
  <2>1. /\ exporter.pc = "incidents" /\ archive' = archive
        /\ incidentRows' = incidentRows
        /\ exporter' = [exporter EXCEPT !.pc = "evidence", !.listed = incidentRows,
                                        !.todo = incidentRows]
    BY <1>4 DEF ListParents
  <2>2. exporter' = [pc |-> "evidence", listed |-> incidentRows, rows |-> exporter.rows,
                     todo |-> incidentRows]
    BY <2>1 DEF ExportTyped
  <2>3. exporter.rows = {}
    BY <2>1 DEF ArchiveGrows
  <2> QED BY <2>1, <2>2, <2>3, EmptyTyped DEF ExportTyped, ArchiveGrows
<1>5. ASSUME NEW p \in Parents, ListChildren(p) PROVE ExportIInv'
  <2>1. PICK R : /\ exporter.pc = "evidence" /\ p \in exporter.todo
                 /\ archive' = archive /\ incidentRows' = incidentRows
                 /\ exporter' = [exporter EXCEPT !.todo = @ \ {p}, !.rows = R]
                 /\ \A r \in R : r \in exporter.rows \/ r \in {p} \X BOOLEAN
    <3>1. \A r \in exporter.rows \cup {<<p, evidence[p] = "blob">>} :
            r \in exporter.rows \/ r \in {p} \X BOOLEAN
      <4>1. PICK b \in BOOLEAN : b = (evidence[p] = "blob")
        BY Zenon
      <4>2. <<p, b>> \in {p} \X BOOLEAN
        OBVIOUS
      <4>3. <<p, evidence[p] = "blob">> \in {p} \X BOOLEAN
        BY <4>1, <4>2, Zenon
      <4> QED BY <4>3, Zenon
    <3> QED BY <1>5, <3>1 DEF ListChildren
  <2>2. exporter' = [pc |-> "evidence", listed |-> exporter.listed, rows |-> R,
                     todo |-> exporter.todo \ {p}]
    BY <2>1 DEF ExportTyped
  <2>3. /\ exporter'.pc = "evidence" /\ exporter'.listed = exporter.listed
        /\ exporter'.rows = R /\ exporter'.todo = exporter.todo \ {p}
    BY <2>2
  <2>4. R \subseteq Parents \X BOOLEAN
    <3>1. exporter.rows \subseteq Parents \X BOOLEAN
      BY DEF ExportTyped
    <3> QED BY <2>1, <3>1
  <2>5. \A r \in R : r[1] \in exporter.listed
    <3>1. p \in exporter.listed /\ \A r \in exporter.rows : r[1] \in exporter.listed
      BY <2>1 DEF ArchiveGrows
    <3> QED BY <2>1, <3>1
  <2>6. exporter' \in Doing
    BY <2>2, <2>4 DEF ExportTyped
  <2> QED BY <2>1, <2>3, <2>5, <2>6 DEF ExportTyped, ArchiveGrows
<1>6. CASE WriteParents
  <2>1. /\ exporter.pc = "evidence" /\ incidentRows' = incidentRows
        /\ archive' = [archive EXCEPT !.incidents = exporter.listed]
        /\ exporter' = [exporter EXCEPT !.pc = "blobs",
                                        !.todo = {r[1] : r \in exporter.rows}]
    BY <1>6 DEF WriteParents
  <2>2. exporter' = [pc |-> "blobs", listed |-> exporter.listed, rows |-> exporter.rows,
                     todo |-> {r[1] : r \in exporter.rows}]
    BY <2>1 DEF ExportTyped
  <2>3. archive' = [incidents |-> exporter.listed, evidence |-> {}, files |-> {},
                    named |-> {}, counted |-> 0]
    BY <2>1 DEF ArchiveGrows, Empty
  <2>4. \A r \in exporter.rows : r[1] \in exporter.listed
    BY <2>1 DEF ArchiveGrows
  <2>5. {r[1] : r \in exporter.rows} \subseteq Parents
    BY <2>4 DEF ExportTyped
  <2>6. exporter' \in Doing /\ archive' \in Held
    BY <2>2, <2>3, <2>5 DEF ExportTyped
  <2>7. Cardinality({}) = 0 /\ IsFiniteSet({})
    BY FS_EmptySet
  <2>8. {r[1] : r \in exporter.rows} \subseteq exporter.listed
    BY <2>4
  <2>9. /\ exporter'.pc = "blobs" /\ exporter'.todo = {r[1] : r \in exporter.rows}
        /\ archive'.incidents = exporter.listed /\ archive'.evidence = {}
        /\ archive'.files = {} /\ archive'.named = {} /\ archive'.counted = 0
    BY <2>2, <2>3
  <2>10. ArchiveGrows'
    BY <2>7, <2>8, <2>9 DEF ArchiveGrows
  <2> QED BY <2>1, <2>6, <2>10 DEF ExportTyped
<1>7. ASSUME NEW p \in Parents, WriteBlob(p),
             exporter' # Idle \/ archive' # Empty
      PROVE  ExportIInv'
  <2>1. /\ exporter.pc = "blobs" /\ p \in exporter.todo
        /\ incidentRows' = incidentRows /\ archive' = Written(p)
        /\ exporter' = [exporter EXCEPT !.todo = @ \ {p}]
    BY <1>7 DEF WriteBlob
  <2>2. exporter' = [pc |-> "blobs", listed |-> exporter.listed, rows |-> exporter.rows,
                     todo |-> exporter.todo \ {p}]
    BY <2>1 DEF ExportTyped
  <2>3. /\ exporter.todo \subseteq archive.incidents
        /\ archive.evidence \subseteq archive.incidents
        /\ archive.named = archive.files /\ IsFiniteSet(archive.files)
        /\ archive.counted = Cardinality(archive.files)
        /\ archive.files \cap exporter.todo = {}
    BY <2>1 DEF ArchiveGrows
  <2>4. PICK F, n : /\ archive' = [incidents |-> archive.incidents,
                                   evidence |-> archive.evidence \cup {p},
                                   files |-> F, named |-> F, counted |-> n]
                    /\ \/ F = archive.files /\ n = archive.counted
                       \/ F = archive.files \cup {p} /\ n = archive.counted + 1
    BY <2>1, <2>3 DEF Written, ExportTyped
  <2>5. IsFiniteSet(F) /\ n = Cardinality(F)
    <3>1. p \notin archive.files
      BY <2>1, <2>3
    <3>2. /\ IsFiniteSet(archive.files \cup {p})
          /\ Cardinality(archive.files \cup {p}) = Cardinality(archive.files) + 1
      BY <2>3, <3>1, FS_AddElement
    <3> QED BY <2>3, <2>4, <3>2
  <2>6. n \in Nat
    BY <2>5, FS_CardinalityType
  <2>7. exporter' \in Doing /\ archive' \in Held
    BY <2>1, <2>2, <2>4, <2>6 DEF ExportTyped
  <2>8. F \cap (exporter.todo \ {p}) = {}
    BY <2>3, <2>4
  <2>9. archive.evidence \cup {p} \subseteq archive.incidents
    BY <2>1, <2>3
  <2>10. /\ exporter'.pc = "blobs" /\ exporter'.todo = exporter.todo \ {p}
         /\ archive'.incidents = archive.incidents
         /\ archive'.evidence = archive.evidence \cup {p}
         /\ archive'.files = F /\ archive'.named = F /\ archive'.counted = n
    BY <2>2, <2>4
  <2>11. ArchiveGrows'
    BY <2>3, <2>5, <2>8, <2>9, <2>10 DEF ArchiveGrows
  <2> QED BY <2>1, <2>7, <2>11 DEF ExportTyped
<1>8. CASE FinishExport
  <2>1. /\ exporter.pc = "blobs" /\ archive' = archive /\ incidentRows' = incidentRows
        /\ exporter' = [Idle EXCEPT !.pc = "done"]
    BY <1>8 DEF FinishExport
  <2>2. exporter' = [pc |-> "done", listed |-> {}, rows |-> {}, todo |-> {}]
    BY <2>1 DEF Idle
  <2>3. exporter' \in Doing /\ exporter'.pc = "done"
    BY <2>2
  <2>4. ArchiveGrows'
    <3>1. /\ archive.evidence \subseteq archive.incidents
          /\ archive.named = archive.files /\ IsFiniteSet(archive.files)
          /\ archive.counted = Cardinality(archive.files)
      BY <2>1 DEF ArchiveGrows
    <3> QED BY <2>1, <2>3, <3>1 DEF ArchiveGrows
  <2> QED BY <2>1, <2>3, <2>4 DEF ExportTyped
<1> QED
  BY <1>1, <1>2, <1>3, <1>4, <1>5, <1>6, <1>7, <1>8
  DEF ExportNext, exportVars, FileIncident, ExpireBlob, DropIncident, TakeExport,
      TellNodes, CommitReset, AnswerReset, WriteBlob, ExportTyped

\* write_archive: whatever comes, expires and goes while an export runs, a full
\* reset included, the archive it finishes holds the incident of every evidence
\* row, a file for every name and a name for every file, and the number of files
\* its manifest says.
THEOREM ArchiveClosedAlways == ExportSpec => []ArchiveClosed
<1>1. ExportInit => ExportIInv
  BY EmptyTyped DEF ExportInit, ExportIInv, ExportTyped, ArchiveGrows
<1>2. ExportIInv => ArchiveClosed
  BY DEF ExportIInv, ArchiveGrows, ArchiveClosed
<1> QED BY <1>1, <1>2, ExportStep, PTL DEF ExportSpec

-------------------------------------------------------------------------------
(* The stored plan.                                                        *)

\* The plans that Clerk has had, none at all, and the default once it was used.
KnownPlans == told \union {Unset} \union (IF defaulted THEN {Free} ELSE {})
Statements == {"ask", "ask_ended", "ask_paid", "mark", "reconciled", "resolve",
               "select_paid", "write"}
PlanTask == [todo : Seq(Statements), msg : Nat, slug : KnownPlans, cached : KnownPlans]

\* Every plan that is announced, or that a task goes by, is one of them.
PlansReal ==
    /\ live \in told /\ sent \in Nat
    /\ inbox \subseteq [id : Nat, kind : Kinds, slug : told]
    /\ task \in [Tasks -> PlanTask]
    /\ plan \in KnownPlans

LEMMA NoTaskHolds == NoTask \in PlanTask
BY DEF NoTask, PlanTask, KnownPlans

LEMMA KnownGrows ==
    ASSUME told \subseteq told', defaulted => defaulted'
    PROVE  KnownPlans \subseteq KnownPlans' /\ PlanTask \subseteq PlanTask'
BY DEF KnownPlans, PlanTask

\* A task that goes on holds what it is given, and nothing else of it changes.
LEMMA GoesOn ==
    ASSUME PlansReal, NEW t \in Tasks, NEW l, NEW more \in Seq(Statements),
           l \in PlanTask', l.todo # << >>, Go(t, l, more),
           PlanTask \subseteq PlanTask'
    PROVE  task' \in [Tasks -> PlanTask']
<1> DEFINE next == [l EXCEPT !.todo = more \o Tail(@)]
<1>1. l.todo \in Seq(Statements)
  BY DEF PlanTask
<1>2. Tail(l.todo) \in Seq(Statements)
  BY <1>1, HeadTailProperties
<1>3. more \o Tail(l.todo) \in Seq(Statements)
  BY <1>2
<1>4. next \in PlanTask'
  BY <1>3 DEF PlanTask
<1>5. task \in [Tasks -> PlanTask']
  BY DEF PlansReal
<1>6. task' = [task EXCEPT ![t] = next]
  BY DEF Go
<1> QED BY <1>4, <1>5, <1>6

LEMMA PlanStep == PlansReal /\ [PlanNext]_planVars => PlansReal'
<1> SUFFICES ASSUME PlansReal, [PlanNext]_planVars PROVE PlansReal'
  OBVIOUS
<1>0. CASE UNCHANGED planVars
  BY <1>0 DEF planVars, clerk, PlansReal, PlanTask, KnownPlans
<1>1. CASE Clerk
  <2>1. /\ told \subseteq told' /\ live' \in told' /\ sent' \in Nat
        /\ UNCHANGED <<plan, task, defaulted>>
    BY <1>1 DEF Clerk, Emit, PlansReal
  <2>2. PICK kind \in Kinds : Emit(kind)
    BY <1>1 DEF Clerk, Kinds
  <2>3. inbox' \subseteq [id : Nat, kind : Kinds, slug : told']
    <3>1. inbox \subseteq [id : Nat, kind : Kinds, slug : told']
      BY <2>1 DEF PlansReal
    <3>2. [id |-> sent + 1, kind |-> kind, slug |-> live']
            \in [id : Nat, kind : Kinds, slug : told']
      BY <2>1 DEF PlansReal
    <3> QED BY <2>2, <3>1, <3>2 DEF Emit
  <2>4. KnownPlans \subseteq KnownPlans' /\ PlanTask \subseteq PlanTask'
    BY <2>1, KnownGrows
  <2> QED BY <2>1, <2>3, <2>4 DEF PlansReal
<1> HIDE DEF PlanTask, KnownPlans
<1>2. ASSUME UNCHANGED <<live, sent, told, plan, defaulted>>, inbox' \subseteq inbox,
             PlanTask' = PlanTask => task' \in [Tasks -> PlanTask]
      PROVE  PlansReal'
  <2>1. KnownPlans' = KnownPlans /\ PlanTask' = PlanTask
    BY <1>2 DEF KnownPlans, PlanTask
  <2> QED BY <1>2, <2>1 DEF PlansReal
<1>3. ASSUME NEW t \in Hooks, Deliver(t) PROVE PlansReal'
  <2>1. task' \in [Tasks -> PlanTask]
    <3>1. CASE UNCHANGED task
      BY <3>1 DEF PlansReal
    <3>2. ASSUME NEW e \in inbox,
                 task' = [task EXCEPT ![t] = [NoTask EXCEPT !.todo = Branch(e) \o <<"mark">>,
                                                     !.msg = e.id, !.slug = e.slug]]
          PROVE  task' \in [Tasks -> PlanTask]
      <4>1. e.id \in Nat /\ e.kind \in Kinds /\ e.slug \in KnownPlans
        BY DEF PlansReal, KnownPlans
      <4>2. Branch(e) \in Seq(Statements) /\ <<"mark">> \in Seq(Statements)
        <5>1. /\ <<"write", "resolve">> \in Seq(Statements) /\ <<"resolve">> \in Seq(Statements)
              /\ <<"ask_ended", "write", "resolve">> \in Seq(Statements)
              /\ <<"mark">> \in Seq(Statements)
          BY DEF Statements
        <5>2. CASE e.kind = "active"
          BY <5>1, <5>2 DEF Branch
        <5>3. CASE e.kind = "ended"
          BY <5>1, <5>3 DEF Branch
        <5>4. CASE e.kind = "other"
          BY <5>1, <5>4 DEF Branch
        <5> QED BY <4>1, <5>1, <5>2, <5>3, <5>4 DEF Kinds
      <4>3. Branch(e) \o <<"mark">> \in Seq(Statements)
        BY <4>2
      <4>4. [NoTask EXCEPT !.todo = Branch(e) \o <<"mark">>, !.msg = e.id, !.slug = e.slug]
              \in PlanTask
        BY <4>1, <4>3, NoTaskHolds DEF PlanTask
      <4> QED BY <3>2, <4>4 DEF PlansReal
    <3> QED BY <1>3, <3>1, <3>2 DEF Deliver
  <2> QED BY <1>2, <1>3, <2>1 DEF Deliver
<1>4. ASSUME NEW t \in Tasks, NEW program \in Programs, Begin(t, program) PROVE PlansReal'
  <2>1. program \in Seq(Statements)
    <3>1. <<"resolve">> \in Seq(Statements) /\ <<"select_paid">> \in Seq(Statements)
      BY DEF Statements
    <3> QED BY <3>1, Zenon DEF Programs
  <2>2. [NoTask EXCEPT !.todo = program] \in PlanTask
    BY <2>1, NoTaskHolds DEF PlanTask
  <2>3. task' \in [Tasks -> PlanTask]
    BY <1>4, <2>2 DEF Begin, PlansReal
  <2> QED BY <1>2, <1>4, <2>3 DEF Begin, clerk
<1>5. ASSUME NEW t \in Tasks, Write(t) PROVE PlansReal'
  <2>1. /\ UNCHANGED <<clerk, defaulted>> /\ plan' \in KnownPlans
        /\ Go(t, [task[t] EXCEPT !.slug = Unset], << >>) /\ task[t].todo # << >>
    BY <1>5 DEF Write, PlanAt, PlansReal, PlanTask
  <2>2. KnownPlans' = KnownPlans /\ PlanTask' = PlanTask
    BY <2>1 DEF KnownPlans, PlanTask, clerk
  <2>3. [task[t] EXCEPT !.slug = Unset] \in PlanTask
    BY DEF PlansReal, PlanTask, KnownPlans
  <2>4. [task[t] EXCEPT !.slug = Unset].todo # << >>
    BY <2>1 DEF PlansReal, PlanTask
  <2>5. task' \in [Tasks -> PlanTask']
    BY <2>1, <2>2, <2>3, <2>4, GoesOn, EmptySeq
  <2> QED BY <2>1, <2>2, <2>5 DEF PlansReal, clerk
<1>6. ASSUME NEW t \in Tasks, AskEnded(t) PROVE PlansReal'
  <2>1. PICK s : /\ s = live \/ (s = Free /\ defaulted')
                 /\ Go(t, [task[t] EXCEPT !.slug = s], << >>)
                 /\ UNCHANGED <<clerk, plan>> /\ (defaulted => defaulted')
                 /\ task[t].todo # << >>
    <3>1. task[t].todo # << >> /\ UNCHANGED <<clerk, plan>>
      BY <1>6 DEF AskEnded, PlanAt
    <3>2. CASE Go(t, [task[t] EXCEPT !.slug = live], << >>) /\ UNCHANGED defaulted
      BY <3>1, <3>2
    <3>3. CASE Go(t, [task[t] EXCEPT !.slug = Free], << >>) /\ defaulted' = TRUE
      BY <3>1, <3>3
    <3> QED BY <1>6, <3>2, <3>3, Zenon DEF AskEnded
  <2>2. KnownPlans \subseteq KnownPlans' /\ PlanTask \subseteq PlanTask'
    BY <2>1, KnownGrows DEF clerk
  <2>3. s \in KnownPlans'
    BY <2>1 DEF KnownPlans, PlansReal, clerk
  <2>4. task[t] \in PlanTask'
    BY <2>2 DEF PlansReal
  <2>5. [task[t] EXCEPT !.slug = s] \in PlanTask' /\ [task[t] EXCEPT !.slug = s].todo # << >>
    BY <2>1, <2>3, <2>4 DEF PlanTask
  <2>6. task' \in [Tasks -> PlanTask']
    BY <2>1, <2>2, <2>5, GoesOn, EmptySeq
  <2> QED BY <2>1, <2>2, <2>6 DEF PlansReal, clerk
<1>7. ASSUME NEW t \in Tasks, UNCHANGED <<clerk, plan, defaulted>>, task[t].todo # << >>,
             NEW s \in KnownPlans, NEW c \in KnownPlans, NEW more \in Seq(Statements),
             Go(t, [task[t] EXCEPT !.slug = s, !.cached = c], more)
      PROVE  PlansReal'
  <2>1. KnownPlans' = KnownPlans /\ PlanTask' = PlanTask
    BY <1>7 DEF KnownPlans, PlanTask, clerk
  <2>2. task[t] \in PlanTask
    BY DEF PlansReal
  <2>3. /\ [task[t] EXCEPT !.slug = s, !.cached = c] \in PlanTask
        /\ [task[t] EXCEPT !.slug = s, !.cached = c].todo = task[t].todo
    BY <1>7, <2>2 DEF PlanTask
  <2>4. task' \in [Tasks -> PlanTask']
    BY <1>7, <2>1, <2>3, GoesOn
  <2> QED BY <1>7, <2>1, <2>4 DEF PlansReal, clerk
<1>8. /\ << >> \in Seq(Statements) /\ <<"ask">> \in Seq(Statements)
      /\ <<"write">> \in Seq(Statements) /\ <<"ask_paid">> \in Seq(Statements)
      /\ <<"reconciled">> \in Seq(Statements)
      /\ <<"write", "resolve", "reconciled">> \in Seq(Statements)
  BY DEF Statements
<1>9. /\ plan \in KnownPlans /\ Unset \in KnownPlans /\ live \in KnownPlans
  BY DEF PlansReal, KnownPlans
<1>10. ASSUME NEW t \in Tasks, UNCHANGED <<clerk, plan, defaulted>>, task[t].todo # << >>,
              NEW c \in KnownPlans, NEW more \in Seq(Statements),
              \/ Go(t, task[t], more)
              \/ Go(t, [task[t] EXCEPT !.cached = c], more)
       PROVE  PlansReal'
  <2>1. task[t] \in PlanTask
    BY DEF PlansReal
  <2>2. /\ task[t].slug \in KnownPlans /\ task[t].cached \in KnownPlans
        /\ task[t] = [task[t] EXCEPT !.slug = task[t].slug, !.cached = task[t].cached]
        /\ [task[t] EXCEPT !.cached = c]
             = [task[t] EXCEPT !.slug = task[t].slug, !.cached = c]
    BY <2>1 DEF PlanTask
  <2>3. CASE Go(t, task[t], more)
    <3>1. Go(t, [task[t] EXCEPT !.slug = task[t].slug, !.cached = task[t].cached], more)
      BY <2>2, <2>3, Zenon
    <3> QED BY <1>7, <1>10, <2>2, <3>1
  <2>4. CASE Go(t, [task[t] EXCEPT !.cached = c], more)
    <3>1. Go(t, [task[t] EXCEPT !.slug = task[t].slug, !.cached = c], more)
      BY <2>2, <2>4, Zenon
    <3> QED BY <1>7, <1>10, <2>2, <3>1
  <2> QED BY <1>10, <2>3, <2>4
<1>11. ASSUME NEW t \in Tasks, Resolve(t) PROVE PlansReal'
  <2>1. task[t].todo # << >> /\ UNCHANGED <<clerk, plan, defaulted>>
    BY <1>11 DEF Resolve, PlanAt
  <2>2. \/ Go(t, task[t], << >>)
        \/ \E c \in {plan, Unset} : Go(t, [task[t] EXCEPT !.cached = c], <<"ask">>)
    BY <1>11 DEF Resolve
  <2> QED BY <1>7, <1>8, <1>9, <1>10, <2>1, <2>2
<1>12. ASSUME NEW t \in Tasks, Ask(t) PROVE PlansReal'
  <2>1. task[t].todo # << >> /\ UNCHANGED <<clerk, plan, defaulted>>
    BY <1>12 DEF Ask, PlanAt
  <2>2. \/ Go(t, [task[t] EXCEPT !.slug = live, !.cached = Unset], <<"write">>)
        \/ Go(t, [task[t] EXCEPT !.cached = Unset], << >>)
    BY <1>12 DEF Ask
  <2> QED BY <1>7, <1>8, <1>9, <1>10, <2>1, <2>2
<1>13. ASSUME NEW t \in Tasks, SelectPaid(t) PROVE PlansReal'
  <2>1. task[t].todo # << >> /\ UNCHANGED <<clerk, plan, defaulted>>
    BY <1>13 DEF SelectPaid, PlanAt
  <2>2. \/ Go(t, [task[t] EXCEPT !.cached = plan], <<"ask_paid">>)
        \/ Go(t, task[t], <<"reconciled">>)
    BY <1>13 DEF SelectPaid
  <2> QED BY <1>7, <1>8, <1>9, <1>10, <2>1, <2>2
<1>14. ASSUME NEW t \in Tasks, AskPaid(t) PROVE PlansReal'
  <2>1. task[t].todo # << >> /\ UNCHANGED <<clerk, plan, defaulted>>
    BY <1>14 DEF AskPaid, PlanAt
  <2>2. \/ Go(t, [task[t] EXCEPT !.slug = live, !.cached = Unset],
              <<"write", "resolve", "reconciled">>)
        \/ Go(t, [task[t] EXCEPT !.cached = Unset], <<"reconciled">>)
        \/ Go(t, [task[t] EXCEPT !.cached = Unset], << >>)
    BY <1>14 DEF AskPaid
  <2> QED BY <1>7, <1>8, <1>9, <1>10, <2>1, <2>2
<1>15. ASSUME UNCHANGED <<live, sent, told, plan, defaulted>>, inbox' \subseteq inbox,
              NEW t \in Tasks, task' = [task EXCEPT ![t] = NoTask]
       PROVE  PlansReal'
  <2>1. task' \in [Tasks -> PlanTask]
    BY <1>15, NoTaskHolds DEF PlansReal
  <2> QED BY <1>2, <1>15, <2>1
<1>16. ASSUME NEW t \in Tasks, RecordProcessed(t) PROVE PlansReal'
  BY <1>15, <1>16 DEF RecordProcessed
<1>17. ASSUME NEW t \in Tasks, End(t) PROVE PlansReal'
  BY <1>15, <1>17 DEF End, clerk
<1>18. CASE RestartTasks
  <2>1. task' \in [Tasks -> PlanTask]
    BY <1>18, NoTaskHolds DEF RestartTasks
  <2> QED BY <1>2, <1>18, <2>1 DEF RestartTasks, clerk
<1>19. CASE Unthrottle
  <2>1. task' \in [Tasks -> PlanTask]
    BY <1>19 DEF Unthrottle, PlansReal
  <2> QED BY <1>2, <1>19, <2>1 DEF Unthrottle, clerk
<1> QED
  BY <1>0, <1>1, <1>3, <1>4, <1>5, <1>6, <1>11, <1>12, <1>13, <1>14, <1>16, <1>17, <1>18,
     <1>19
  DEF PlanNext, Statement, Tasks

\* Setting(org_plan): the plan stored for an org is one that Clerk has had, or
\* the free plan that an ended item without an answer is stored as; for any
\* number of events, tasks and plans, however late the events, in whatever order
\* and how often, and whichever statements fail.
THEOREM PlanFromClerkAlways == PlanSpec => []PlanFromClerk
<1>1. PlanInit => PlansReal
  <2> SUFFICES ASSUME PlanInit PROVE PlansReal
    OBVIOUS
  <2>1. task \in [Tasks -> PlanTask]
    BY NoTaskHolds DEF PlanInit
  <2> QED BY <2>1 DEF PlanInit, PlansReal, KnownPlans
<1>2. PlansReal => PlanFromClerk
  BY DEF PlansReal, KnownPlans, PlanFromClerk
<1> QED BY <1>1, <1>2, PlanStep, PTL DEF PlanSpec

-------------------------------------------------------------------------------
(* The inbox.                                                              *)

TabState == [at : {"idle", "absent", "made", "known", "stamped"}, kind : InboxRequests,
             stamp : Nat, shown : Nat, cleared : Nat]
InboxTyped ==
    /\ hour \in Nat \ {0} /\ shown \in Nat /\ cleared \in Nat
    /\ rows \subseteq [created : Nat, audience : {"all", "admin"}]
    /\ incoming \in {NoStamp} \union (Nat \X {"all", "admin"})
    /\ tab \in [Tabs -> TabState]
    /\ touched \in BOOLEAN /\ dismissRaced \in BOOLEAN

\* Whoever is past the insertion finds the row; nothing was stamped ahead of the
\* clock, and what is about to be inserted is a time.
RowMade ==
    /\ shown <= hour /\ cleared <= hour
    /\ \A t \in Tabs :
         /\ tab[t].at \in {"made", "known", "stamped"} => shown # NoWatermark
         /\ tab[t].at \in {"absent", "stamped"} => 0 < tab[t].stamp /\ tab[t].stamp <= hour

\* One request at a time writes the row, with a time past both of its stamps.
OneWriter ==
    ~dismissRaced =>
        /\ cleared <= shown
        /\ \A t, u \in Tabs : tab[t].at = "stamped" /\ tab[u].at = "stamped" => t = u
        /\ \A t \in Tabs : tab[t].at = "stamped" => shown <= tab[t].stamp

InboxIInv == InboxTyped /\ RowMade /\ OneWriter /\ FirstLoadsAgree

LEMMA InboxStep == InboxIInv /\ [InboxNext]_inboxVars => InboxIInv'
<1> SUFFICES ASSUME InboxIInv, [InboxNext]_inboxVars PROVE InboxIInv'
  OBVIOUS
<1> USE DEF NoWatermark
<1>0. InboxTyped /\ RowMade /\ OneWriter /\ FirstLoadsAgree
  BY DEF InboxIInv
<1>1. CASE UNCHANGED <<hour, shown, cleared, tab, touched, dismissRaced>>
           /\ rows' \subseteq [created : Nat, audience : {"all", "admin"}]
           /\ incoming' \in {NoStamp} \union (Nat \X {"all", "admin"})
  BY <1>0, <1>1 DEF InboxTyped, RowMade, OneWriter, FirstLoadsAgree, InboxIInv
<1>2. ASSUME NEW audience \in {"all", "admin"}, Compose(audience) PROVE InboxIInv'
  BY <1>0, <1>1, <1>2 DEF Compose, InboxTyped
<1>3. CASE InsertRow
  <2>1. incoming[1] \in Nat /\ incoming[2] \in {"all", "admin"}
    BY <1>0, <1>3 DEF InsertRow, InboxTyped
  <2> QED BY <1>0, <1>1, <1>3, <2>1 DEF InsertRow, InboxTyped
<1>4. CASE PassHour
  <2>1. /\ hour' = hour + 1
        /\ UNCHANGED <<rows, incoming, shown, cleared, tab, touched, dismissRaced>>
    BY <1>4 DEF PassHour
  <2>2. InboxTyped'
    BY <1>0, <2>1 DEF InboxTyped
  <2>3. hour \in Nat /\ shown \in Nat /\ cleared \in Nat /\ \A t \in Tabs : tab[t].stamp \in Nat
    BY <1>0 DEF InboxTyped, TabState
  <2>4. RowMade'
    BY <1>0, <2>1, <2>3 DEF RowMade
  <2>5. OneWriter' /\ FirstLoadsAgree'
    BY <1>0, <2>1 DEF OneWriter, FirstLoadsAgree
  <2> QED BY <2>2, <2>4, <2>5 DEF InboxIInv
<1>5. ASSUME NEW t \in Tabs, NEW s \in TabState, tab' = [tab EXCEPT ![t] = s],
             UNCHANGED <<hour, rows, incoming, shown, cleared, touched>>,
             dismissRaced' \in BOOLEAN, dismissRaced => dismissRaced',
             s.at \in {"made", "known", "stamped"} => shown # 0,
             s.at \in {"absent", "stamped"} => s.stamp = hour,
             s.at = "known" => s.shown = shown,
             s.at = "stamped" => dismissRaced' \/ \A u \in Tabs : tab[u].at # "stamped"
      PROVE  InboxIInv'
  <2>1. tab'[t] = s /\ \A u \in Tabs \ {t} : tab'[u] = tab[u]
    BY <1>0, <1>5 DEF InboxTyped
  <2>2. InboxTyped'
    BY <1>0, <1>5 DEF InboxTyped
  <2>3. RowMade'
    BY <1>0, <1>5, <2>1 DEF RowMade, InboxTyped
  <2>4. OneWriter'
    BY <1>0, <1>5, <2>1 DEF OneWriter, RowMade, InboxTyped
  <2>5. FirstLoadsAgree'
    BY <1>0, <1>5, <2>1 DEF FirstLoadsAgree
  <2> QED BY <2>2, <2>3, <2>4, <2>5 DEF InboxIInv
<1>6. ASSUME NEW t \in Tabs, NEW kind \in InboxRequests, LookInState(t, kind)
      PROVE  InboxIInv'
  <2>1. PICK w \in {"absent", "known"} : w = IF shown = 0 THEN "absent" ELSE "known"
    OBVIOUS
  <2>2. PICK s : s = [IdleTab EXCEPT !.kind = kind, !.shown = shown, !.cleared = cleared,
                                     !.stamp = hour, !.at = w]
    OBVIOUS
  <2>3. IdleTab \in TabState
    BY DEF IdleTab, TabState, InboxRequests
  <2>4. hour \in Nat /\ shown \in Nat /\ cleared \in Nat
    BY <1>0 DEF InboxTyped
  <2>5. s \in TabState /\ s.at = w /\ s.stamp = hour /\ s.shown = shown
    BY <2>1, <2>2, <2>3, <2>4 DEF TabState
  <2>6. tab' = [tab EXCEPT ![t] = s]
    BY <1>6, <2>1, <2>2, Zenon DEF LookInState
  <2> QED BY <1>0, <1>5, <1>6, <2>1, <2>5, <2>6 DEF LookInState, InboxTyped
<1>7. ASSUME NEW t \in Tabs, InitState(t) PROVE InboxIInv'
  <2>1. /\ tab[t].at = "absent" /\ UNCHANGED <<hour, rows, incoming, cleared, touched,
                                               dismissRaced>>
        /\ shown' = IF shown = 0 THEN tab[t].stamp ELSE shown
        /\ tab' = [tab EXCEPT ![t].at = "made"]
    BY <1>7 DEF InitState
  <2>2. /\ \A u \in Tabs \ {t} : tab'[u] = tab[u]
        /\ tab'[t].at = "made" /\ tab' \in [Tabs -> TabState]
    BY <1>0, <2>1 DEF InboxTyped, TabState
  <2>3. 0 < tab[t].stamp /\ tab[t].stamp <= hour /\ tab[t].stamp \in Nat
    BY <1>0, <2>1 DEF RowMade, InboxTyped, TabState
  <2>4. InboxTyped' /\ RowMade'
    BY <1>0, <2>1, <2>2, <2>3 DEF InboxTyped, RowMade
  <2>5. shown = 0 => \A u \in Tabs : tab[u].at \notin {"known", "stamped"}
    BY <1>0 DEF RowMade
  <2>6. OneWriter'
    BY <1>0, <2>1, <2>2, <2>3, <2>5 DEF OneWriter, InboxTyped
  <2>7. FirstLoadsAgree'
    BY <1>0, <2>1, <2>2, <2>5 DEF FirstLoadsAgree
  <2> QED BY <2>4, <2>6, <2>7 DEF InboxIInv
<1>8. ASSUME NEW t \in Tabs, ReadBack(t) PROVE InboxIInv'
  <2>1. tab[t] \in TabState
    BY <1>0 DEF InboxTyped
  <2>2. PICK s : /\ s = [tab[t] EXCEPT !.at = "known", !.shown = shown, !.cleared = cleared]
                 /\ tab' = [tab EXCEPT ![t] = s]
    BY <1>8, <2>1 DEF ReadBack, TabState
  <2>3. s \in TabState /\ s.at = "known" /\ s.shown = shown
    BY <1>0, <2>1, <2>2 DEF TabState, InboxTyped
  <2> QED BY <1>0, <1>5, <1>8, <2>2, <2>3 DEF ReadBack, RowMade, InboxTyped
<1>9. ASSUME NEW t \in Tabs, Stamp(t) PROVE InboxIInv'
  <2>1. tab[t] \in TabState
    BY <1>0 DEF InboxTyped
  <2>2. PICK s : /\ s = [tab[t] EXCEPT !.at = "stamped", !.stamp = hour]
                 /\ tab' = [tab EXCEPT ![t] = s]
    BY <1>9, <2>1 DEF Stamp, TabState
  <2>3. s \in TabState /\ s.at = "stamped" /\ s.stamp = hour
    BY <1>0, <2>1, <2>2 DEF TabState, InboxTyped
  <2>4. /\ tab[t].at = "known" /\ UNCHANGED <<hour, rows, incoming, shown, cleared, touched>>
        /\ dismissRaced' = (dismissRaced \/ \E u \in Tabs : tab[u].at = "stamped")
    BY <1>9 DEF Stamp
  <2>5. /\ dismissRaced' \in BOOLEAN /\ (dismissRaced => dismissRaced')
        /\ dismissRaced' \/ \A u \in Tabs : tab[u].at # "stamped"
    BY <2>4
  <2> QED BY <1>0, <1>5, <2>2, <2>3, <2>4, <2>5 DEF RowMade
<1>10. ASSUME NEW t \in Tabs, WriteState(t) PROVE InboxIInv'
  <2>1. /\ tab[t].at = "stamped" /\ shown' = tab[t].stamp
        /\ cleared' = IF tab[t].kind = "clear" THEN tab[t].stamp ELSE cleared
        /\ tab' = [tab EXCEPT ![t] = IdleTab] /\ touched' = TRUE
        /\ UNCHANGED <<hour, rows, incoming, dismissRaced>>
    BY <1>10 DEF WriteState
  <2>2. /\ \A u \in Tabs \ {t} : tab'[u] = tab[u]
        /\ tab'[t].at = "idle" /\ tab' \in [Tabs -> TabState]
    BY <1>0, <2>1 DEF InboxTyped, TabState, IdleTab, InboxRequests
  <2>3. 0 < tab[t].stamp /\ tab[t].stamp <= hour /\ tab[t].stamp \in Nat
    BY <1>0, <2>1 DEF RowMade, InboxTyped, TabState
  <2>4. InboxTyped' /\ RowMade'
    BY <1>0, <2>1, <2>2, <2>3 DEF InboxTyped, RowMade
  <2>5. ~dismissRaced => \A u \in Tabs \ {t} : tab[u].at # "stamped"
    BY <1>0, <2>1 DEF OneWriter
  <2>6. OneWriter'
    BY <1>0, <2>1, <2>2, <2>3, <2>5 DEF OneWriter, InboxTyped
  <2>7. FirstLoadsAgree'
    BY <2>1 DEF FirstLoadsAgree
  <2> QED BY <2>4, <2>6, <2>7 DEF InboxIInv
<1>11. ASSUME NEW t \in Tabs, Show(t) PROVE InboxIInv'
  <2>1. IdleTab \in TabState /\ IdleTab.at = "idle"
    BY DEF IdleTab, TabState, InboxRequests
  <2> QED BY <1>0, <1>5, <1>11, <2>1 DEF Show, InboxTyped
<1> QED
  BY <1>0, <1>1, <1>2, <1>3, <1>4, <1>6, <1>7, <1>8, <1>9, <1>10, <1>11
  DEF InboxNext, inboxVars, InboxTyped

LEMMA InboxStart == InboxInit => InboxIInv
<1> SUFFICES ASSUME InboxInit PROVE InboxIInv
  OBVIOUS
<1>1. /\ hour = 1 /\ rows = {} /\ incoming = NoStamp /\ shown = 0 /\ cleared = 0
      /\ touched = FALSE /\ dismissRaced = FALSE
  BY DEF InboxInit, NoWatermark
<1>2. IdleTab \in TabState /\ IdleTab.at = "idle"
  BY DEF IdleTab, TabState, InboxRequests
<1>3. tab \in [Tabs -> TabState] /\ \A t \in Tabs : tab[t].at = "idle"
  BY <1>2 DEF InboxInit
<1>4. InboxTyped
  <2>1. hour \in Nat \ {0} /\ shown \in Nat /\ cleared \in Nat
    BY <1>1
  <2>2. /\ rows \subseteq [created : Nat, audience : {"all", "admin"}]
        /\ incoming \in {NoStamp} \union (Nat \X {"all", "admin"})
        /\ touched \in BOOLEAN /\ dismissRaced \in BOOLEAN
    BY <1>1, Zenon
  <2> QED BY <1>3, <2>1, <2>2 DEF InboxTyped
<1> QED BY <1>1, <1>3, <1>4 DEF InboxIInv, RowMade, OneWriter, FirstLoadsAgree

\* get_or_init_state: until the row is written again, every request that has it
\* goes by the row as it is, whichever of them made it.
THEOREM FirstLoadsAgreeAlways == InboxSpec => []FirstLoadsAgree
<1>1. InboxIInv => FirstLoadsAgree
  BY DEF InboxIInv
<1> QED BY <1>1, InboxStart, InboxStep, PTL DEF InboxSpec

\* list_notifications and unread_count: within the list's window the badge counts
\* what the list shows as new, and it counts nothing that was cleared, for any
\* number of notifications and requests, until two requests were about to write
\* the row at once.
THEOREM BadgeMatchesListAlways == InboxSpec => []BadgeMatchesList
<1>1. ASSUME InboxIInv, ~dismissRaced
      PROVE  /\ Unread(shown, cleared) = {n \in Badge(shown) : Recent(n)}
             /\ \A n \in Badge(shown) : n.created > cleared
  <2>1. cleared <= shown /\ cleared \in Nat /\ shown \in Nat
    BY <1>1 DEF InboxIInv, OneWriter, InboxTyped
  <2>2. \A n \in rows : n.created \in Nat
    BY <1>1 DEF InboxIInv, InboxTyped
  <2>3. \A n \in rows : n.created > shown => n.created > cleared
    BY <2>1, <2>2
  <2>4. Unread(shown, cleared) = {n \in Badge(shown) : Recent(n)}
    BY <2>3 DEF Badge, Unread, Listed
  <2>5. \A n \in Badge(shown) : n.created > cleared
    BY <2>3 DEF Badge
  <2> QED BY <2>4, <2>5
<1>2. InboxIInv => BadgeMatchesList
  BY <1>1 DEF BadgeMatchesList
<1> QED BY <1>2, InboxStart, InboxStep, PTL DEF InboxSpec

-------------------------------------------------------------------------------
(* The daily clean-up.                                                     *)

Pass == [pc : Nat, began : Nat, keep : {0, FreeDays, PaidDays}]
Call == [at : {"idle", "unseen", "applied"}, told : BOOLEAN]
RetentionTyped ==
    /\ today \in Nat /\ sweep \in Pass /\ sweep.began <= today
    /\ logRows \in [Tables -> SUBSET Nat]
    /\ mailRows \subseteq [status : {"pending"} \union SettledMail, at : Nat]
    /\ hookMark \in Nat \union {NoMark}
    /\ hookTold \in BOOLEAN /\ hookCall \in [Deliveries -> Call]

\* The pass has cleared what it has gone past, but for what came since.
ClearedSoFar ==
    /\ \A i \in DOMAIN TableOrder : i < sweep.pc =>
         \A d \in logRows[TableOrder[i]] :
           \/ d >= sweep.began - sweep.keep
           \/ TableOrder[i] \in NodeStamped /\ <<TableOrder[i], d>> \in lateRows
    /\ sweep.pc > MailStep =>
         \A m \in mailRows :
           \/ m.status = "pending" \/ m.at >= sweep.began - OutboxDays
           \/ <<"email_outbox", m.at>> \in lateRows

\* The marker of an answered webhook is there while the sender may deliver again.
MarkerHeld == hookTold => hookMark # NoMark \/ today > RetryDays

PlanRead == planRow \in {"paid", "free", "unreadable"}

RetentionIInv ==
    /\ RetentionTyped /\ ClearedSoFar /\ MarkerHeld /\ HookAppliedOnce
    /\ PaidHistoryKept

LEMMA RetentionConstants ==
    /\ FreeDays \in Nat /\ PaidDays \in Nat /\ OutboxDays \in Nat /\ RetryDays \in Nat
    /\ MarkerDays \in Nat /\ RetryDays < MarkerDays
    /\ DOMAIN TableOrder = 1 .. Len(TableOrder) /\ Len(TableOrder) \in Nat
    /\ \A i \in DOMAIN TableOrder : TableOrder[i] \in Tables
    /\ \A t \in Tables : \E i \in DOMAIN TableOrder : TableOrder[i] = t
<1>1. TableOrder \in Seq(STRING)
  BY RetentionAssumption
<1> QED BY <1>1, RetentionAssumption DEF Tables

\* A row that is written today is past every cutoff of the pass.
LEMMA NewRowsLate ==
    ASSUME RetentionTyped
    PROVE  /\ today \in Nat /\ today >= sweep.began - sweep.keep
           /\ sweep.began - sweep.keep \in Int
<1>1. sweep.began \in Nat /\ sweep.keep \in Nat /\ today \in Nat /\ sweep.began <= today
  BY RetentionConstants DEF RetentionTyped, Pass
<1> QED BY <1>1, RetentionConstants

LEMMA PlanReadStep == PlanRead /\ [RetentionNext]_retentionVars => PlanRead'
BY DEF PlanRead, RetentionNext, retentionVars, AddLog, AddMail, SettleMail, CheckMarker,
       ApplyHook, MarkHook, FailHook, SetPlan, StartPass, DeleteLogs, DeleteOutbox,
       DeleteMarkers, EndPass, NextDay

\* A delivery's step: no table and no mail changes, and a delivery that begins
\* after an answer finds the marker.
LEMMA HookStep ==
    ASSUME RetentionIInv, NEW d \in Deliveries,
           CheckMarker(d) \/ ApplyHook(d) \/ MarkHook(d) \/ FailHook(d)
    PROVE  RetentionIInv'
<1>0. RetentionTyped /\ ClearedSoFar /\ MarkerHeld /\ HookAppliedOnce /\ ~wronged
  BY DEF RetentionIInv, PaidHistoryKept
<1>1. UNCHANGED <<today, logRows, mailRows, lateRows, planRow, sweep, wronged>>
  BY DEF CheckMarker, ApplyHook, MarkHook, FailHook
<1>2. today \in Nat /\ today # NoMark /\ RetryDays \in Nat
  BY <1>0, RetentionConstants DEF RetentionTyped, NoMark
<1>3. Undelivered \in Call /\ ~Undelivered.told
  BY DEF Undelivered, Call
<1>4. hookCall[d] \in Call /\ ~hookCall[d].told
  BY <1>0 DEF RetentionTyped, HookAppliedOnce
<1>5. SUFFICES /\ hookMark' \in Nat \union {NoMark} /\ hookTold' \in BOOLEAN
               /\ hookCall' \in [Deliveries -> Call]
               /\ MarkerHeld' /\ HookAppliedOnce'
  BY <1>0, <1>1 DEF RetentionTyped, ClearedSoFar, RetentionIInv, PaidHistoryKept, MailStep
<1>6. CASE CheckMarker(d)
  <2>1. CASE hookMark # NoMark
    <3>1. UNCHANGED <<hookMark, hookCall>>
      BY <1>6, <2>1 DEF CheckMarker
    <3>2. hookTold' = TRUE
      BY <1>6, <2>1 DEF CheckMarker
    <3> QED BY <1>0, <2>1, <3>1, <3>2 DEF RetentionTyped, MarkerHeld, HookAppliedOnce
  <2>2. CASE hookMark = NoMark
    <3>1. /\ hookCall' = [hookCall EXCEPT ![d] = [at |-> "unseen", told |-> hookTold]]
          /\ UNCHANGED <<hookMark, hookTold>> /\ today <= RetryDays
      BY <1>6, <2>2 DEF CheckMarker
    <3>2. hookTold = FALSE
      <4>1. ~hookTold
        BY <1>0, <1>2, <2>2, <3>1 DEF MarkerHeld
      <4> QED BY <1>0, <4>1 DEF RetentionTyped
    <3>3. [at |-> "unseen", told |-> hookTold] \in Call
      BY <3>2 DEF Call
    <3> QED BY <1>0, <1>1, <3>1, <3>2, <3>3 DEF RetentionTyped, MarkerHeld, HookAppliedOnce
  <2> QED BY <2>1, <2>2
<1>7. CASE ApplyHook(d)
  <2>1. /\ hookCall' = [hookCall EXCEPT ![d] = [hookCall[d] EXCEPT !.at = "applied"]]
        /\ UNCHANGED <<hookMark, hookTold>>
    BY <1>7 DEF ApplyHook
  <2>2. [hookCall[d] EXCEPT !.at = "applied"] \in Call
    BY <1>4 DEF Call
  <2>3. ~[hookCall[d] EXCEPT !.at = "applied"].told
    BY <1>4 DEF Call
  <2> QED BY <1>0, <1>1, <2>1, <2>2, <2>3 DEF RetentionTyped, MarkerHeld, HookAppliedOnce
<1>8. CASE MarkHook(d)
  <2>1. /\ hookMark' = IF hookMark = NoMark THEN today ELSE hookMark
        /\ hookCall' = [hookCall EXCEPT ![d] = Undelivered] /\ hookTold' = TRUE
    BY <1>8 DEF MarkHook
  <2> QED BY <1>0, <1>1, <1>2, <1>3, <2>1 DEF RetentionTyped, MarkerHeld, HookAppliedOnce
<1>9. CASE FailHook(d)
  <2>1. /\ hookCall' = [hookCall EXCEPT ![d] = Undelivered]
        /\ UNCHANGED <<hookMark, hookTold>>
    BY <1>9 DEF FailHook
  <2> QED BY <1>0, <1>1, <1>3, <2>1 DEF RetentionTyped, MarkerHeld, HookAppliedOnce
<1> QED BY <1>6, <1>7, <1>8, <1>9

LEMMA RetentionStep ==
    PlanRead /\ RetentionIInv /\ [RetentionNext]_retentionVars => RetentionIInv'
<1> SUFFICES ASSUME PlanRead, RetentionIInv, [RetentionNext]_retentionVars PROVE RetentionIInv'
  OBVIOUS
<1>0. RetentionTyped /\ ClearedSoFar /\ MarkerHeld /\ HookAppliedOnce /\ ~wronged
  BY DEF RetentionIInv, PaidHistoryKept
<1>a. ASSUME RetentionTyped', ClearedSoFar', UNCHANGED <<today, hookVars, wronged>>
      PROVE  RetentionIInv'
  BY <1>0, <1>a DEF MarkerHeld, HookAppliedOnce, RetentionIInv, PaidHistoryKept, hookVars
<1>1. CASE UNCHANGED <<today, logRows, mailRows, lateRows, hookVars, sweep, wronged>>
  BY <1>0, <1>1, <1>a DEF RetentionTyped, ClearedSoFar, MailStep, hookVars
<1>2. ASSUME NEW t \in Tables, NEW day \in 0 .. MaxDay, AddLog(t, day) PROVE RetentionIInv'
  <2>1. /\ logRows' = [logRows EXCEPT ![t] = logRows[t] \cup {day}]
        /\ UNCHANGED <<today, mailRows, hookVars, sweep, wronged>>
        /\ day = today \/ t \in NodeStamped
    BY <1>2 DEF AddLog
  <2>2. /\ logRows' \in [Tables -> SUBSET Nat]
        /\ \A u \in Tables : \A d \in logRows'[u] : d \in logRows[u] \/ (u = t /\ d = day)
    BY <1>0, <2>1 DEF RetentionTyped
  <2>3. RetentionTyped'
    BY <1>0, <2>1, <2>2 DEF RetentionTyped, hookVars
  <2>4. lateRows \subseteq lateRows'
    BY <1>2 DEF AddLog
  <2>5. ASSUME NEW i \in DOMAIN TableOrder, i < sweep.pc, t = TableOrder[i]
        PROVE  \/ day >= sweep.began - sweep.keep
               \/ t \in NodeStamped /\ <<t, day>> \in lateRows'
    <3>1. CASE day < sweep.began - sweep.keep
      <4>1. <<t, day>> \in lateRows'
        BY <1>2, <2>5, <3>1 DEF AddLog
      <4>2. day # today
        BY <1>0, <3>1, NewRowsLate
      <4> QED BY <2>1, <4>1, <4>2
    <3>2. CASE ~(day < sweep.began - sweep.keep)
      BY <1>0, <3>2, NewRowsLate
    <3> QED BY <3>1, <3>2
  <2>6. ASSUME NEW i \in DOMAIN TableOrder, i < sweep.pc, NEW d \in logRows'[TableOrder[i]]
        PROVE  \/ d >= sweep.began - sweep.keep
               \/ TableOrder[i] \in NodeStamped /\ <<TableOrder[i], d>> \in lateRows'
    <3>1. CASE TableOrder[i] = t /\ d = day
      BY <2>5, <2>6, <3>1
    <3>2. CASE d \in logRows[TableOrder[i]]
      BY <1>0, <2>4, <2>6, <3>2 DEF ClearedSoFar
    <3> QED BY <2>2, <2>6, <3>1, <3>2, RetentionConstants
  <2>7. sweep.pc > MailStep =>
          \A m \in mailRows :
            \/ m.status = "pending" \/ m.at >= sweep.began - OutboxDays
            \/ <<"email_outbox", m.at>> \in lateRows'
    BY <1>0, <2>4 DEF ClearedSoFar
  <2>8. ClearedSoFar'
    BY <2>1, <2>6, <2>7 DEF ClearedSoFar, MailStep
  <2> QED BY <1>a, <2>1, <2>3, <2>8
<1>3. CASE AddMail
  <2>1. /\ mailRows' = mailRows \cup {[status |-> "pending", at |-> today]}
        /\ UNCHANGED <<today, logRows, lateRows, hookVars, sweep, wronged>>
    BY <1>3 DEF AddMail
  <2>2. RetentionTyped'
    BY <1>0, <2>1 DEF RetentionTyped, hookVars
  <2>3. ClearedSoFar'
    BY <1>0, <2>1 DEF ClearedSoFar, MailStep
  <2> QED BY <1>a, <2>1, <2>2, <2>3
<1>4. ASSUME NEW m \in mailRows, NEW s \in SettledMail, SettleMail(m, s) PROVE RetentionIInv'
  <2>1. /\ mailRows' = (mailRows \ {m}) \cup {[m EXCEPT !.status = s]}
        /\ UNCHANGED <<today, logRows, hookVars, sweep, wronged>>
        /\ lateRows \subseteq lateRows'
        /\ sweep.pc > MailStep /\ m.at < sweep.began - OutboxDays =>
             <<"email_outbox", m.at>> \in lateRows'
    BY <1>4 DEF SettleMail
  <2>2. m.at \in Nat /\ m \in [status : {"pending"} \union SettledMail, at : Nat]
    BY <1>0 DEF RetentionTyped
  <2>3. /\ [m EXCEPT !.status = s] \in [status : {"pending"} \union SettledMail, at : Nat]
        /\ [m EXCEPT !.status = s].at = m.at
    BY <2>2
  <2>4. RetentionTyped'
    BY <1>0, <2>1, <2>3 DEF RetentionTyped, hookVars
  <2>5. sweep.pc > MailStep =>
          \A q \in mailRows' :
            \/ q.status = "pending" \/ q.at >= sweep.began - OutboxDays
            \/ <<"email_outbox", q.at>> \in lateRows'
    <3> SUFFICES ASSUME sweep.pc > MailStep, NEW q \in mailRows'
                 PROVE  \/ q.status = "pending" \/ q.at >= sweep.began - OutboxDays
                        \/ <<"email_outbox", q.at>> \in lateRows'
      OBVIOUS
    <3>1. CASE q \in mailRows
      BY <1>0, <2>1, <3>1 DEF ClearedSoFar
    <3>2. CASE q = [m EXCEPT !.status = s]
      <4>1. q.at = m.at
        BY <2>3, <3>2
      <4>2. sweep.began \in Nat /\ OutboxDays \in Nat
        BY <1>0, RetentionConstants DEF RetentionTyped, Pass
      <4>3. m.at < sweep.began - OutboxDays \/ m.at >= sweep.began - OutboxDays
        BY <2>2, <4>2
      <4> QED BY <2>1, <4>1, <4>3
    <3> QED BY <2>1, <3>1, <3>2
  <2>6. ClearedSoFar'
    BY <1>0, <2>1, <2>5 DEF ClearedSoFar, MailStep
  <2> QED BY <1>a, <2>1, <2>4, <2>6
<1>5. CASE StartPass
  <2>1. PICK keep \in {FreeDays, PaidDays} :
          sweep' = [pc |-> 1, began |-> today, keep |-> keep]
    <3>1. Resolutions \subseteq {FreeDays, PaidDays}
      BY DEF Resolutions, PlanRead
    <3> QED BY <1>5, <3>1, Zenon DEF StartPass
  <2>2. UNCHANGED <<today, logRows, mailRows, lateRows, hookVars, wronged>>
    BY <1>5 DEF StartPass
  <2>3. RetentionTyped'
    BY <1>0, <2>1, <2>2 DEF RetentionTyped, Pass, hookVars
  <2>4. ClearedSoFar'
    BY <2>1, RetentionConstants DEF ClearedSoFar, MailStep
  <2> QED BY <1>a, <2>2, <2>3, <2>4
<1>6. sweep.pc \in Nat /\ sweep.began \in Nat /\ sweep.keep \in Nat /\ today \in Nat
      /\ sweep.began <= today /\ sweep \in Pass
  BY <1>0, RetentionConstants DEF RetentionTyped, Pass
<1>7. ASSUME sweep' = [sweep EXCEPT !.pc = sweep.pc + 1]
      PROVE  /\ sweep'.pc = sweep.pc + 1 /\ sweep'.began = sweep.began
             /\ sweep'.keep = sweep.keep /\ sweep' \in Pass
  BY <1>6, <1>7 DEF Pass
<1>8. CASE DeleteLogs
  <2>1. PICK t : t = TableOrder[sweep.pc]
    OBVIOUS
  <2>2. /\ sweep.pc \in DOMAIN TableOrder /\ sweep' = [sweep EXCEPT !.pc = sweep.pc + 1]
        /\ UNCHANGED <<today, mailRows, lateRows, hookVars>>
        /\ logRows' = [logRows EXCEPT ![t] = logRows[t] \ Older(logRows[t], sweep.keep)]
        /\ wronged' = \/ wronged
                      \/ /\ planRow = "paid" /\ sweep.keep = PaidDays
                         /\ \E d \in logRows[t] \ logRows'[t] : today - d =< PaidDays
    BY <1>8, <2>1 DEF DeleteLogs
  <2>3. t \in Tables
    BY <2>1, <2>2, RetentionConstants
  <2>4. /\ logRows' \in [Tables -> SUBSET Nat]
        /\ \A u \in Tables : logRows'[u] \subseteq logRows[u]
        /\ logRows'[t] = logRows[t] \ Older(logRows[t], sweep.keep)
    BY <1>0, <2>2, <2>3 DEF RetentionTyped
  <2>5. \A d \in logRows[t] : d \in Nat
    BY <1>0, <2>3 DEF RetentionTyped
  <2>6. \A d \in logRows'[t] : d >= sweep.began - sweep.keep
    BY <1>6, <2>4, <2>5 DEF Older
  <2>7. sweep.keep = PaidDays => \A d \in logRows[t] \ logRows'[t] : ~(today - d <= PaidDays)
    BY <1>6, <2>4, <2>5 DEF Older
  <2>8. ~wronged'
    BY <1>0, <2>2, <2>7
  <2>9. RetentionTyped'
    BY <1>0, <1>7, <2>2, <2>4 DEF RetentionTyped, hookVars
  <2>10. ASSUME NEW i \in DOMAIN TableOrder, i < sweep.pc + 1
         PROVE  \A d \in logRows'[TableOrder[i]] :
                  \/ d >= sweep.began - sweep.keep
                  \/ TableOrder[i] \in NodeStamped /\ <<TableOrder[i], d>> \in lateRows
    <3>1. CASE i = sweep.pc
      BY <2>1, <2>6, <3>1, Zenon
    <3>2. CASE i < sweep.pc
      <4>1. \A d \in logRows[TableOrder[i]] :
              \/ d >= sweep.began - sweep.keep
              \/ TableOrder[i] \in NodeStamped /\ <<TableOrder[i], d>> \in lateRows
        BY <1>0, <3>2 DEF ClearedSoFar
      <4>2. TableOrder[i] \in Tables
        BY RetentionConstants
      <4> QED BY <2>4, <4>1, <4>2
    <3>3. i = sweep.pc \/ i < sweep.pc
      <4>1. i \in Nat
        BY RetentionConstants
      <4> QED BY <1>6, <2>10, <4>1
    <3> QED BY <3>1, <3>2, <3>3, Zenon
  <2>11. ~(sweep.pc + 1 > MailStep)
    BY <1>6, <2>2, RetentionConstants DEF MailStep
  <2>12. ClearedSoFar'
    BY <1>7, <2>2, <2>10, <2>11 DEF ClearedSoFar, MailStep
  <2>13. MarkerHeld' /\ HookAppliedOnce'
    BY <1>0, <2>2 DEF MarkerHeld, HookAppliedOnce, hookVars
  <2> QED BY <2>8, <2>9, <2>12, <2>13 DEF RetentionIInv, PaidHistoryKept
<1>9. CASE DeleteOutbox
  <2>1. /\ sweep.pc = MailStep /\ sweep' = [sweep EXCEPT !.pc = sweep.pc + 1]
        /\ mailRows' = {m \in mailRows : ~(m.status \in SettledMail
                                           /\ m.at < sweep.began - OutboxDays)}
        /\ UNCHANGED <<today, logRows, lateRows, hookVars, wronged>>
    BY <1>9 DEF DeleteOutbox
  <2>2. \A m \in mailRows' : m.status = "pending" \/ m.at >= sweep.began - OutboxDays
    BY <1>0, <1>6, <2>1, RetentionConstants DEF RetentionTyped, SettledMail
  <2>3. RetentionTyped'
    BY <1>0, <1>7, <2>1 DEF RetentionTyped, hookVars
  <2>4. \A i \in DOMAIN TableOrder : i < sweep.pc
    BY <2>1, RetentionConstants DEF MailStep
  <2>5. ClearedSoFar'
    BY <1>0, <1>7, <2>1, <2>2, <2>4 DEF ClearedSoFar
  <2> QED BY <1>a, <2>1, <2>3, <2>5
<1>10. CASE DeleteMarkers
  <2>1. /\ sweep.pc = MarkerStep /\ sweep' = [sweep EXCEPT !.pc = sweep.pc + 1]
        /\ hookMark' = IF hookMark < sweep.began - MarkerDays THEN NoMark ELSE hookMark
        /\ UNCHANGED <<today, logRows, mailRows, lateRows, hookTold, hookCall, wronged>>
    BY <1>10 DEF DeleteMarkers
  <2>2. RetentionTyped'
    BY <1>0, <1>7, <2>1 DEF RetentionTyped
  <2>3. MarkerHeld'
    <3>1. CASE hookMark' = hookMark
      BY <1>0, <2>1, <3>1 DEF MarkerHeld
    <3>2. CASE hookMark # NoMark /\ hookMark < sweep.began - MarkerDays
      <4>1. hookMark \in Nat
        BY <1>0, <3>2 DEF RetentionTyped
      <4>2. today > RetryDays
        BY <1>6, <3>2, <4>1, RetentionConstants
      <4> QED BY <2>1, <4>2 DEF MarkerHeld
    <3> QED BY <2>1, <3>1, <3>2
  <2>4. \A i \in DOMAIN TableOrder : i < sweep.pc
    BY <2>1, RetentionConstants DEF MarkerStep, MailStep
  <2>5. sweep.pc > MailStep
    BY <2>1, RetentionConstants DEF MarkerStep, MailStep
  <2>6. ClearedSoFar'
    BY <1>0, <1>7, <2>1, <2>4, <2>5 DEF ClearedSoFar
  <2> QED BY <1>0, <2>1, <2>2, <2>3, <2>6 DEF HookAppliedOnce, RetentionIInv, PaidHistoryKept
<1>11. CASE EndPass
  <2>1. sweep' = AtRest /\ UNCHANGED <<today, logRows, mailRows, hookVars, wronged>>
    BY <1>11 DEF EndPass
  <2>2. AtRest \in Pass /\ AtRest.pc = 0 /\ AtRest.began = 0
    BY DEF AtRest, Pass
  <2>3. RetentionTyped'
    BY <1>0, <1>6, <2>1, <2>2 DEF RetentionTyped, hookVars
  <2>4. ClearedSoFar'
    BY <2>1, <2>2, RetentionConstants DEF ClearedSoFar, MailStep
  <2> QED BY <1>a, <2>1, <2>3, <2>4
<1>12. CASE NextDay
  <2>1. /\ today' = today + 1
        /\ UNCHANGED <<logRows, mailRows, lateRows, hookVars, sweep, wronged>>
    BY <1>12 DEF NextDay
  <2>2. RetentionTyped'
    BY <1>0, <1>6, <2>1 DEF RetentionTyped, hookVars
  <2>3. MarkerHeld'
    BY <1>0, <1>6, <2>1, RetentionConstants DEF MarkerHeld, hookVars
  <2>4. ClearedSoFar'
    BY <1>0, <2>1 DEF ClearedSoFar, MailStep
  <2> QED BY <1>0, <2>1, <2>2, <2>3, <2>4
          DEF HookAppliedOnce, RetentionIInv, PaidHistoryKept, hookVars
<1>13. ASSUME NEW p, SetPlan(p) PROVE RetentionIInv'
  BY <1>1, <1>13 DEF SetPlan
<1> QED
  BY <1>1, <1>2, <1>3, <1>4, <1>5, <1>8, <1>9, <1>10, <1>11, <1>12, <1>13, HookStep
  DEF RetentionNext, retentionVars

LEMMA RetentionStart == RetentionInit => PlanRead /\ RetentionIInv
<1> SUFFICES ASSUME RetentionInit PROVE PlanRead /\ RetentionIInv
  OBVIOUS
<1>1. AtRest \in Pass /\ AtRest.pc = 0 /\ AtRest.began = 0
  BY DEF AtRest, Pass
<1>a. Undelivered \in Call
  BY DEF Undelivered, Call
<1>b. /\ logRows \in [Tables -> SUBSET Nat] /\ hookCall \in [Deliveries -> Call]
      /\ mailRows \subseteq [status : {"pending"} \union SettledMail, at : Nat]
  BY <1>a DEF RetentionInit
<1>c. /\ hookTold \in BOOLEAN /\ hookMark \in Nat \union {NoMark}
      /\ today \in Nat /\ sweep \in Pass
  BY <1>1 DEF RetentionInit
<1>d. sweep.began <= today
  BY <1>1 DEF RetentionInit
<1>2. RetentionTyped
  BY <1>b, <1>c, <1>d DEF RetentionTyped
<1>3. ClearedSoFar
  BY <1>1, RetentionConstants DEF RetentionInit, ClearedSoFar, MailStep
<1>4. PlanRead
  BY DEF RetentionInit, PlanRead
<1>5. MarkerHeld /\ HookAppliedOnce
  BY DEF RetentionInit, MarkerHeld, HookAppliedOnce, Undelivered
<1> QED BY <1>2, <1>3, <1>4, <1>5 DEF RetentionInit, RetentionIInv, PaidHistoryKept

LEMMA RetentionInvariant == RetentionSpec => []RetentionIInv
BY RetentionStart, PlanReadStep, RetentionStep, PTL DEF RetentionSpec

\* run_log_cleanup: when a pass reaches its end, a log row older than the cutoff
\* of the pass came after its table's statement with a node's old stamp, and a
\* settled mail that old settled after the outbox's; for any tables, retention
\* periods and number of rows.
THEOREM PassClearsAllAlways == RetentionSpec => []PassClearsAll
<1>1. ASSUME RetentionIInv, sweep.pc = Finished
      PROVE  PassClearsAll
  <2>1. \A i \in DOMAIN TableOrder : i < sweep.pc
    BY <1>1, RetentionConstants DEF Finished, MarkerStep, MailStep
  <2>2. sweep.pc > MailStep
    BY <1>1, RetentionConstants DEF Finished, MarkerStep, MailStep
  <2>3. ClearedSoFar
    BY <1>1 DEF RetentionIInv
  <2> QED BY <2>1, <2>2, <2>3, RetentionConstants DEF ClearedSoFar, PassClearsAll
<1>2. RetentionIInv => PassClearsAll
  BY <1>1 DEF PassClearsAll
<1> QED BY <1>2, RetentionInvariant, PTL

\* A pass that resolved the paid tier takes from a paid org no row within that
\* tier, however long the pass runs.
THEOREM PaidHistoryKeptAlways == RetentionSpec => []PaidHistoryKept
<1>1. RetentionIInv => PaidHistoryKept
  BY DEF RetentionIInv
<1> QED BY <1>1, RetentionInvariant, PTL

\* clerk_webhook and the markers' clean-up: once a delivery was answered 200, no
\* later one gets past the check, for any number of overlapping deliveries and
\* however the passes fall, as the markers are kept for longer than the sender
\* delivers again.
THEOREM HookAppliedOnceAlways == RetentionSpec => []HookAppliedOnce
<1>1. RetentionIInv => HookAppliedOnce
  BY DEF RetentionIInv
<1> QED BY <1>1, RetentionInvariant, PTL

===============================================================================
