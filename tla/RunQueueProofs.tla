---------------------------- MODULE RunQueueProofs ----------------------------
(***************************************************************************)
(* Theorems about the run queue, for any number of runs, workers and       *)
(* attempts and any time bounds the code's constants satisfy.              *)
(*                                                                         *)
(* What makes the properties inductive is knowledge of the messages under  *)
(* way: a result can only be in a request whose worker won the claim, a    *)
(* claim is won only while the row is pending, and the last request a      *)
(* worker sent carries the result it is reporting.  The reaper's safety is *)
(* arithmetic: a row's age never exceeds the wall clock of its claimant.   *)
(***************************************************************************)
EXTENDS RunQueue, TLAPS

\* The row is past the point where it could be claimed.
Past(r) == outcome[r] \notin {"absent", "pending"}

\* Every place of a worker bounds the requests it has sent and its clock.
Sends(w) ==
    /\ wpc[w] = "idle" => seq[w] = 0 /\ tries[w] = 0
    /\ wpc[w] \in {"start", "investigate"} => seq[w] = 1 /\ tries[w] = 0
    /\ wpc[w] = "report" => tries[w] >= 1 /\ seq[w] = 1 + tries[w]
    /\ wpc[w] = "fail" => /\ tries[w] >= 1
                          /\ seq[w] >= 2 /\ seq[w] <= 1 + Attempts + tries[w]
    /\ wpc[w] \in Running => elapsed[w] <= RunTimeout
    /\ wpc[w] = "fail" => elapsed[w] <= CompleteBudget
SendsOK == \A w \in Workers : Sends(w)

\* What a worker's place says of its run and of its result.
Knows(w) ==
    /\ wpc[w] # "idle" => outcome[wrun[w]] # "absent"
    /\ claimed[w] => Past(wrun[w])
    /\ wpc[w] \in {"investigate", "report"} => claimed[w]
    /\ result[w] \in Real => claimed[w]
    /\ acked[w] => wpc[w] = "done"
    /\ wpc[w] \in {"idle", "start", "investigate"} => result[w] = "none"
    /\ wpc[w] = "report" => result[w] \in Terminal
    /\ wpc[w] = "fail" => result[w] = "error"
KnowsOK == \A w \in Workers : Knows(w)

\* What a request under way says of its worker.
Honest(q) ==
    /\ q.run = wrun[q.w]
    /\ q.n <= seq[q.w]
    /\ outcome[q.run] # "absent"
    /\ q.kind = "start" => q.n = 1 /\ q.outcome = "none"
    /\ q.kind = "complete" => q.outcome \in Terminal
    /\ q.outcome \in Real => claimed[q.w] /\ result[q.w] \in {q.outcome, "error"}
    /\ q.kind = "complete" /\ q.n = seq[q.w] => q.outcome = result[q.w]
HonestOK == \A q \in reqs : Honest(q)

\* A stored result is its claimant's.
Stored ==
    \A r \in Runs : outcome[r] \in Real =>
        \E w \in Workers : /\ wrun[w] = r /\ claimed[w]
                           /\ result[w] \in {outcome[r], "error"}

\* A claimed row is never older than its worker's clock.
Timed ==
    \A w \in Workers : claimed[w] =>
        /\ wpc[w] \in Running => runAge[wrun[w]] <= elapsed[w]
        /\ wpc[w] = "fail" => runAge[wrun[w]] <= RunTimeout + elapsed[w]

\* What the reaper has read was claimed, by workers that have ended.
Reaped ==
    /\ \A r \in reaper.stranded : Past(r)
    /\ \A w \in Workers : claimed[w] /\ wpc[w] \in Active => wrun[w] \notin reaper.stranded

IInv ==
    /\ TypeOK /\ SendsOK /\ KnowsOK /\ HonestOK /\ Stored /\ Timed /\ Reaped
    /\ OneClaimant /\ AckedResultStored /\ RowConsistent

-------------------------------------------------------------------------------
(***************************************************************************)
(* The steps, by what they do to the messages and to the rows.             *)
(***************************************************************************)

\* The initial state satisfies the invariant.
LEMMA InitIInv == Init => IInv
<1> SUFFICES ASSUME Init PROVE IInv
  OBVIOUS
<1> USE DEF Init
<1>1. TypeOK
  BY RunQueueConstants DEF TypeOK, Outcomes, Terminal, Real, Active, Running, MaxSeq
<1>2. SendsOK /\ Timed
  BY DEF SendsOK, Sends, Timed, Running
<1>3. KnowsOK /\ HonestOK /\ Stored /\ Reaped
  BY DEF KnowsOK, Knows, HonestOK, Stored, Reaped, Real
<1>4. OneClaimant /\ AckedResultStored /\ RowConsistent
  BY DEF OneClaimant, AckedResultStored, RowConsistent
<1> QED BY <1>1, <1>2, <1>3, <1>4 DEF IInv

\* Constants are natural numbers, as the provers like to be told.
LEMMA Bounds ==
    /\ Attempts \in Nat /\ Attempts >= 1 /\ MaxSeq \in Nat
    /\ MaxSeq = 1 + Attempts + Attempts
    /\ RunTimeout \in Nat /\ CompleteBudget \in Nat
    /\ StrandedRunAge \in Nat /\ AbandonedPending \in Nat
  BY RunQueueConstants DEF MaxSeq

\* A new request has its type if the worker may still send one.
LEMMA NewRequestType ==
    ASSUME TypeOK, NEW w \in Workers, seq[w] < MaxSeq,
           NEW kind \in {"start", "complete"}, NEW o \in Terminal \union {"none"},
           Send(w, kind, o)
    PROVE  /\ NewRequest(w, kind, o) \in Request
           /\ reqs' \subseteq Request
           /\ seq' \in [Workers -> 0..MaxSeq]
  BY Bounds DEF TypeOK, Request, NewRequest, Send

\* The error arm keeps the types.
LEMMA FailType ==
    ASSUME TypeOK, NEW w \in Workers, seq[w] < MaxSeq, Fail(w)
    PROVE  TypeOK'
<1>1. reqs' \subseteq Request /\ seq' \in [Workers -> 0..MaxSeq]
  BY NewRequestType DEF Fail, Terminal
<1>2. /\ wpc' \in [Workers -> Active \union {"idle", "done", "crashed"}]
      /\ result' \in [Workers -> Terminal \union {"none"}]
  BY DEF TypeOK, Fail, Active, Terminal
<1>3. /\ tries' \in [Workers -> 0..Attempts]
      /\ elapsed' \in [Workers -> 0..(RunTimeout + CompleteBudget)]
  BY Bounds DEF TypeOK, Fail
<1>4. UNCHANGED <<rows, reaper, wrun, claimed, filed, acked>>
  BY DEF Fail
<1> QED BY <1>1, <1>2, <1>3, <1>4 DEF TypeOK, rows

\* Whatever a worker's place, there is room for the error report.
LEMMA RoomToFail ==
    ASSUME TypeOK, SendsOK, NEW w \in Workers, wpc[w] \in Running
    PROVE  seq[w] < MaxSeq
  BY Bounds DEF SendsOK, Sends, TypeOK, Running

\* An answer keeps the types of what it changes.
LEMMA AnswerType ==
    ASSUME TypeOK, NEW q \in reqs, NEW won \in BOOLEAN, Answer(q, won)
    PROVE  /\ reqs' \subseteq Request
           /\ wpc' \in [Workers -> Active \union {"idle", "done", "crashed"}]
           /\ claimed' \in [Workers -> BOOLEAN]
           /\ acked' \in [Workers -> BOOLEAN]
           /\ tries' \in [Workers -> 0..Attempts]
           /\ UNCHANGED <<wrun, filed, result, seq, elapsed>>
<1>1. q.w \in Workers
  BY DEF TypeOK, Request
<1>2. wpc' \in [Workers -> Active \union {"idle", "done", "crashed"}]
  BY <1>1 DEF TypeOK, Answer, Active, Running
<1>3. claimed' \in [Workers -> BOOLEAN] /\ acked' \in [Workers -> BOOLEAN]
  BY <1>1, Zenon DEF TypeOK, Answer
<1>4. tries' \in [Workers -> 0..Attempts]
  BY <1>1, Bounds DEF TypeOK, Answer
<1>5. reqs' \subseteq Request
  BY DEF TypeOK, Answer
<1> QED BY <1>2, <1>3, <1>4, <1>5 DEF Answer

\* Every step keeps the types.
LEMMA TypeStep == ASSUME TypeOK, SendsOK, KnowsOK, HonestOK, [Next]_vars PROVE TypeOK'
<1> USE Bounds
<1>1. ASSUME NEW r \in Runs, Insert(r) PROVE TypeOK'
  BY <1>1 DEF Insert, TypeOK, Outcomes, work
<1>2. ASSUME NEW w \in Workers, Begin(w) PROVE TypeOK'
  <2>1. seq[w] < MaxSeq
    BY <1>2 DEF Begin, SendsOK, Sends, TypeOK
  <2>2. reqs' \subseteq Request /\ seq' \in [Workers -> 0..MaxSeq]
    BY <1>2, <2>1, NewRequestType DEF Begin
  <2>3. wpc' \in [Workers -> Active \union {"idle", "done", "crashed"}]
    BY <1>2 DEF Begin, TypeOK, Active, Running
  <2>4. elapsed' \in [Workers -> 0..(RunTimeout + CompleteBudget)]
    BY <1>2 DEF Begin, TypeOK
  <2>5. UNCHANGED <<rows, reaper, wrun, claimed, filed, result, acked, tries>>
    BY <1>2 DEF Begin
  <2> QED BY <2>2, <2>3, <2>4, <2>5 DEF TypeOK, rows
<1>3. ASSUME NEW w \in Workers, wpc[w] \in Running, Fail(w) PROVE TypeOK'
  BY <1>3, RoomToFail, FailType
<1>4. ASSUME NEW w \in Workers, FileIncident(w) PROVE TypeOK'
  BY <1>4 DEF FileIncident, TypeOK, rows
<1>5. ASSUME NEW w \in Workers, EndInvestigation(w) PROVE TypeOK'
  <2>1. PICK o \in RunAgentResults(w) :
          result' = [result EXCEPT ![w] = o] /\ Send(w, "complete", o)
    BY <1>5 DEF EndInvestigation
  <2>2. o \in Terminal
    BY DEF RunAgentResults, Terminal, Real
  <2>3. seq[w] < MaxSeq
    BY <1>5, RoomToFail DEF EndInvestigation, Running
  <2>4. reqs' \subseteq Request /\ seq' \in [Workers -> 0..MaxSeq]
    BY <2>1, <2>2, <2>3, NewRequestType
  <2>5. /\ wpc' \in [Workers -> Active \union {"idle", "done", "crashed"}]
        /\ result' \in [Workers -> Terminal \union {"none"}]
    BY <1>5, <2>1, <2>2 DEF EndInvestigation, TypeOK, Active, Running
  <2>6. tries' \in [Workers -> 0..Attempts]
    BY <1>5 DEF EndInvestigation, TypeOK
  <2>7. UNCHANGED <<rows, reaper, wrun, claimed, filed, acked, elapsed>>
    BY <1>5 DEF EndInvestigation
  <2> QED BY <2>4, <2>5, <2>6, <2>7 DEF TypeOK, rows
<1>6. ASSUME NEW w \in Workers, wpc[w] \in {"report", "fail"}, Resend(w) PROVE TypeOK'
  <2>1. seq[w] < MaxSeq
    BY <1>6 DEF Resend, SendsOK, Sends, TypeOK
  <2>2. result[w] \in Terminal
    BY <1>6 DEF KnowsOK, Knows, Terminal
  <2>3. reqs' \subseteq Request /\ seq' \in [Workers -> 0..MaxSeq]
    BY <1>6, <2>1, <2>2, NewRequestType DEF Resend
  <2>4. tries' \in [Workers -> 0..Attempts]
    BY <1>6 DEF Resend, TypeOK
  <2>5. UNCHANGED <<rows, reaper, wpc, wrun, claimed, filed, result, acked, elapsed>>
    BY <1>6 DEF Resend
  <2> QED BY <2>3, <2>4, <2>5 DEF TypeOK, rows
<1>7. ASSUME NEW w \in Workers, GiveUp(w) \/ Crash(w) PROVE TypeOK'
  BY <1>7 DEF GiveUp, Crash, TypeOK, rows
<1>8. ASSUME NEW q \in reqs, Lose(q) PROVE TypeOK'
  BY <1>8 DEF Lose, TypeOK, rows, work
<1>9. ASSUME NEW q \in reqs, Proceed(q), UNCHANGED <<rows, reaper>> PROVE TypeOK'
  <2>1. [q EXCEPT !.phase = "checked"] \in Request
    BY DEF TypeOK, Request
  <2> QED BY <1>9, <2>1 DEF Proceed, TypeOK, rows, work
<1>10. ASSUME NEW q \in reqs, Answer(q, FALSE), UNCHANGED <<rows, reaper>> PROVE TypeOK'
  BY <1>10, AnswerType DEF TypeOK, rows
<1>11. ASSUME NEW q \in reqs, StartWrite(q) PROVE TypeOK'
  <2>1. q.run \in Runs /\ ClaimWins(q) \in BOOLEAN
    BY DEF TypeOK, Request, ClaimWins
  <2>2. outcome' \in [Runs -> Outcomes] /\ runAge' \in [Runs -> 0..StrandedRunAge]
    BY <1>11, <2>1 DEF StartWrite, TypeOK, Outcomes
  <2> QED BY <1>11, <2>1, <2>2, AnswerType DEF StartWrite, TypeOK
<1>12. ASSUME NEW q \in reqs, CompleteWrite(q) PROVE TypeOK'
  <2>1. q.run \in Runs /\ q.outcome \in Terminal
    BY <1>12 DEF CompleteWrite, TypeOK, Request, HonestOK, Honest
  <2>2. outcome' \in [Runs -> Outcomes]
    BY <1>12, <2>1 DEF CompleteWrite, TypeOK, Outcomes
  <2>3. told' \in [Runs -> {"nothing", "severity", "incident"}]
    BY <1>12, <2>1 DEF CompleteWrite, Tells, TypeOK
  <2> QED BY <1>12, <2>2, <2>3, AnswerType DEF CompleteWrite, TypeOK
<1>13. CASE Reap
  BY <1>13 DEF Reap, ReapSelect, ReapStamp, ReapAbandon, ReapError, TypeOK, Outcomes,
                Terminal, rows, work
<1>14. CASE Tick
  <2>1. elapsed' \in [Workers -> 0..(RunTimeout + CompleteBudget)]
    BY <1>14 DEF Tick, TypeOK, Active
  <2>2. age' \in [Runs -> 0..AbandonedPending] /\ runAge' \in [Runs -> 0..StrandedRunAge]
    BY <1>14 DEF Tick, TypeOK, Older
  <2> QED BY <1>14, <2>1, <2>2 DEF Tick, TypeOK
<1>15. CASE UNCHANGED vars
  BY <1>15 DEF vars, rows, work, TypeOK
<1>16. ASSUME NEW w \in Workers, WorkerStep(w) PROVE TypeOK'
  BY <1>2, <1>3, <1>4, <1>5, <1>6, <1>7, <1>16
     DEF WorkerStep, WallClock, ConnectFails, RequestFails, Running
<1>17. ASSUME NEW q \in reqs, Handler(q) PROVE TypeOK'
  BY <1>8, <1>9, <1>10, <1>11, <1>12, <1>17 DEF Handler, StartRead, CompleteRead
<1> QED BY <1>1, <1>13, <1>14, <1>15, <1>16, <1>17 DEF Next

\* A request that tells the truth about its worker keeps the messages honest.
LEMMA SendHonest ==
    ASSUME TypeOK, TypeOK', HonestOK, NEW w \in Workers, NEW kind, NEW o,
           reqs' = reqs \union {NewRequest(w, kind, o)},
           seq' = [seq EXCEPT ![w] = @ + 1],
           UNCHANGED <<outcome, wrun, claimed>>,
           \A v \in Workers : v # w => result'[v] = result[v],
           result'[w] \in {result[w], "error"} \/ result[w] = "none",
           outcome[wrun[w]] # "absent",
           \/ kind = "start" /\ seq[w] = 0 /\ o = "none"
           \/ kind = "complete" /\ o \in Terminal /\ result'[w] = o,
           o \in Real => claimed[w]
    PROVE  HonestOK'
<1> USE DEF TypeOK, Real, Terminal
<1>0. PICK new : new = NewRequest(w, kind, o)
  OBVIOUS
<1>1. Honest(new)'
  <2>1. /\ new.w = w /\ new.run = wrun[w] /\ new.n = seq[w] + 1
        /\ new.kind = kind /\ new.outcome = o
    BY <1>0 DEF NewRequest
  <2>2. seq'[w] = new.n /\ seq[w] \in Nat
    BY <2>1
  <2> QED BY <2>1, <2>2 DEF Honest
<1>2. ASSUME NEW q \in reqs PROVE Honest(q)'
  <2>1. /\ Honest(q) /\ q.w \in Workers /\ q.n \in Nat
    BY DEF HonestOK, Request
  <2>2. CASE q.w = w
    BY <2>1, <2>2 DEF Honest
  <2>3. CASE q.w # w
    BY <2>1, <2>3 DEF Honest
  <2> QED BY <2>2, <2>3
<1> QED BY <1>0, <1>1, <1>2 DEF HonestOK

\* An inserted row is new to everyone.
LEMMA InsertStep ==
    ASSUME IInv, TypeOK', NEW r \in Runs, Insert(r)
    PROVE  IInv'
<1> USE Bounds DEF TypeOK
<1>0. /\ outcome[r] = "absent" /\ outcome' = [outcome EXCEPT ![r] = "pending"]
      /\ UNCHANGED <<told, runAge, reaper, reqs, wpc, wrun, claimed, filed, result,
                     acked, tries, seq, elapsed>>
  BY DEF Insert, work
<1>1. SendsOK'
  BY <1>0 DEF IInv, SendsOK, Sends, Running
<1>2. KnowsOK'
  BY <1>0 DEF IInv, KnowsOK, Knows, Past, Real, Terminal
<1>3. HonestOK'
  BY <1>0 DEF IInv, HonestOK, Honest, Request, Real, Terminal
<1>4. Stored'
  BY <1>0 DEF IInv, Stored, Real
<1>5. Timed'
  BY <1>0 DEF IInv, Timed, Running
<1>6. Reaped'
  BY <1>0 DEF IInv, Reaped, Past, Active, Running
<1>7. OneClaimant'
  BY <1>0 DEF IInv, OneClaimant
<1>8. AckedResultStored'
  BY <1>0 DEF IInv, AckedResultStored, Real
<1>9. RowConsistent'
  BY <1>0 DEF IInv, RowConsistent
<1> QED BY <1>1, <1>2, <1>3, <1>4, <1>5, <1>6, <1>7, <1>8, <1>9 DEF IInv

\* A worker's first request asks for a claim.
LEMMA BeginStep ==
    ASSUME IInv, TypeOK', NEW w \in Workers, Begin(w)
    PROVE  IInv'
<1> USE Bounds DEF TypeOK
<1>0. /\ wpc[w] = "idle" /\ outcome[wrun[w]] = "pending"
      /\ wpc' = [wpc EXCEPT ![w] = "start"]
      /\ elapsed' = [elapsed EXCEPT ![w] = 0]
      /\ reqs' = reqs \union {NewRequest(w, "start", "none")}
      /\ seq' = [seq EXCEPT ![w] = @ + 1]
      /\ UNCHANGED <<outcome, told, runAge, reaper, wrun, claimed, filed, result,
                     acked, tries>>
  BY DEF Begin, Send, rows
<1>1. SendsOK'
  BY <1>0 DEF IInv, SendsOK, Sends, Running
<1>2. KnowsOK'
  BY <1>0 DEF IInv, KnowsOK, Knows, Past, Real, Terminal
<1>3. HonestOK'
  BY <1>0, SendHonest DEF IInv, KnowsOK, Knows, SendsOK, Sends, Running, Real, Terminal, Past
<1>4. Stored'
  BY <1>0 DEF IInv, Stored, Real
<1>5. Timed'
  BY <1>0 DEF IInv, Timed, KnowsOK, Knows, Past
<1>6. Reaped'
  BY <1>0 DEF IInv, Reaped, Past, Active, Running
<1>7. OneClaimant'
  BY <1>0 DEF IInv, OneClaimant
<1>8. AckedResultStored'
  BY <1>0 DEF IInv, AckedResultStored, Real
<1>9. RowConsistent'
  BY <1>0 DEF IInv, RowConsistent
<1> QED BY <1>1, <1>2, <1>3, <1>4, <1>5, <1>6, <1>7, <1>8, <1>9 DEF IInv

\* The error report replaces whatever the worker was reporting.
LEMMA FailStep ==
    ASSUME IInv, TypeOK', NEW w \in Workers, wpc[w] \in Running, Fail(w)
    PROVE  IInv'
<1> USE Bounds DEF TypeOK
<1>0. /\ wpc' = [wpc EXCEPT ![w] = "fail"]
      /\ result' = [result EXCEPT ![w] = "error"]
      /\ tries' = [tries EXCEPT ![w] = 1]
      /\ elapsed' = [elapsed EXCEPT ![w] = 0]
      /\ reqs' = reqs \union {NewRequest(w, "complete", "error")}
      /\ seq' = [seq EXCEPT ![w] = @ + 1]
      /\ UNCHANGED <<outcome, told, runAge, reaper, wrun, claimed, filed, acked>>
  BY DEF Fail, Send, rows
<1>1. SendsOK'
  BY <1>0 DEF IInv, SendsOK, Sends, Running
<1>2. KnowsOK'
  BY <1>0 DEF IInv, KnowsOK, Knows, Past, Real, Terminal, Running
<1>3. HonestOK'
  <2>1. outcome[wrun[w]] # "absent"
    BY <1>0 DEF IInv, KnowsOK, Knows, Running
  <2>2. HonestOK /\ TypeOK
    BY DEF IInv
  <2>3. result'[w] = "error"
    BY <1>0
  <2>4. \A v \in Workers : v # w => result'[v] = result[v]
    BY <1>0
  <2> QED BY <1>0, <2>1, <2>2, <2>3, <2>4, SendHonest DEF Terminal, Real
<1>4. Stored'
  BY <1>0 DEF IInv, Stored, Real
<1>5. Timed'
  BY <1>0 DEF IInv, Timed, SendsOK, Sends, Running
<1>6. Reaped'
  BY <1>0 DEF IInv, Reaped, Past, Active, Running
<1>7. OneClaimant'
  BY <1>0 DEF IInv, OneClaimant
<1>8. AckedResultStored'
  BY <1>0 DEF IInv, AckedResultStored, Real
<1>9. RowConsistent'
  BY <1>0 DEF IInv, RowConsistent
<1> QED BY <1>1, <1>2, <1>3, <1>4, <1>5, <1>6, <1>7, <1>8, <1>9 DEF IInv

\* The investigation's result is in the request that reports it.
LEMMA EndStep ==
    ASSUME IInv, TypeOK', NEW w \in Workers, EndInvestigation(w)
    PROVE  IInv'
<1> USE Bounds DEF TypeOK
<1>0. PICK o \in Terminal :
        /\ wpc[w] = "investigate"
        /\ result' = [result EXCEPT ![w] = o]
        /\ wpc' = [wpc EXCEPT ![w] = "report"]
        /\ tries' = [tries EXCEPT ![w] = 1]
        /\ reqs' = reqs \union {NewRequest(w, "complete", o)}
        /\ seq' = [seq EXCEPT ![w] = @ + 1]
        /\ UNCHANGED <<outcome, told, runAge, reaper, wrun, claimed, filed, acked, elapsed>>
  BY DEF EndInvestigation, RunAgentResults, Terminal, Real, Send, rows
<1>1. SendsOK'
  BY <1>0 DEF IInv, SendsOK, Sends, Running
<1>2. KnowsOK'
  BY <1>0 DEF IInv, KnowsOK, Knows, Past, Real, Terminal
<1>3. HonestOK'
  <2>1. outcome[wrun[w]] # "absent"
    BY <1>0 DEF IInv, KnowsOK, Knows, Running
  <2>2. HonestOK /\ TypeOK
    BY DEF IInv
  <2>3. result'[w] = o /\ result[w] = "none" /\ claimed[w]
    BY <1>0 DEF IInv, KnowsOK, Knows
  <2>4. \A v \in Workers : v # w => result'[v] = result[v]
    BY <1>0
  <2> QED BY <1>0, <2>1, <2>2, <2>3, <2>4, SendHonest DEF Terminal, Real
<1>4. Stored'
  <2>1. result[w] = "none"
    BY <1>0 DEF IInv, KnowsOK, Knows
  <2> QED BY <1>0, <2>1 DEF IInv, Stored, Real
<1>5. Timed'
  BY <1>0 DEF IInv, Timed, Running
<1>6. Reaped'
  BY <1>0 DEF IInv, Reaped, Past, Active, Running
<1>7. OneClaimant'
  BY <1>0 DEF IInv, OneClaimant
<1>8. AckedResultStored'
  BY <1>0 DEF IInv, AckedResultStored, KnowsOK, Knows
<1>9. RowConsistent'
  BY <1>0 DEF IInv, RowConsistent
<1> QED BY <1>1, <1>2, <1>3, <1>4, <1>5, <1>6, <1>7, <1>8, <1>9 DEF IInv

\* A retry sends the same result again.
LEMMA ResendStep ==
    ASSUME IInv, TypeOK', NEW w \in Workers, wpc[w] \in {"report", "fail"}, Resend(w)
    PROVE  IInv'
<1> USE Bounds DEF TypeOK
<1>0. /\ tries[w] < Attempts
      /\ tries' = [tries EXCEPT ![w] = @ + 1]
      /\ reqs' = reqs \union {NewRequest(w, "complete", result[w])}
      /\ seq' = [seq EXCEPT ![w] = @ + 1]
      /\ UNCHANGED <<outcome, told, runAge, reaper, wpc, wrun, claimed, filed, result,
                     acked, elapsed>>
  BY DEF Resend, Send, rows
<1>1. SendsOK'
  BY <1>0 DEF IInv, SendsOK, Sends, Running
<1>2. KnowsOK'
  BY <1>0 DEF IInv, KnowsOK, Knows, Past, Real, Terminal
<1>3. HonestOK'
  BY <1>0, SendHonest DEF IInv, KnowsOK, Knows, SendsOK, Sends, Running, Real, Terminal, Past
<1>4. Stored'
  BY <1>0 DEF IInv, Stored, Real
<1>5. Timed'
  BY <1>0 DEF IInv, Timed, Running
<1>6. Reaped'
  BY <1>0 DEF IInv, Reaped, Past, Active, Running
<1>7. OneClaimant'
  BY <1>0 DEF IInv, OneClaimant
<1>8. AckedResultStored'
  BY <1>0 DEF IInv, AckedResultStored, Real
<1>9. RowConsistent'
  BY <1>0 DEF IInv, RowConsistent
<1> QED BY <1>1, <1>2, <1>3, <1>4, <1>5, <1>6, <1>7, <1>8, <1>9 DEF IInv

\* A worker that ends, dies or files an incident leaves rows and messages alone.
LEMMA LeaveStep ==
    ASSUME IInv, TypeOK', NEW w \in Workers,
           (wpc[w] = "fail" /\ GiveUp(w)) \/ Crash(w) \/ FileIncident(w)
    PROVE  IInv'
<1> USE Bounds DEF TypeOK
<1>0. /\ wpc[w] \in Active
      /\ wpc' = wpc \/ wpc' = [wpc EXCEPT ![w] = "done"]
                   \/ wpc' = [wpc EXCEPT ![w] = "crashed"]
      /\ UNCHANGED <<outcome, told, runAge, reaper, reqs, wrun, claimed, result,
                     acked, tries, seq, elapsed>>
  BY DEF GiveUp, Crash, FileIncident, rows, Active, Running
<1>1. SendsOK'
  BY <1>0 DEF IInv, SendsOK, Sends, Running
<1>2. KnowsOK'
  BY <1>0 DEF IInv, KnowsOK, Knows, Past, Active, Running
<1>3. HonestOK'
  BY <1>0 DEF IInv, HonestOK, Honest, Request, Real, Terminal
<1>4. Stored'
  BY <1>0 DEF IInv, Stored, Real
<1>5. Timed'
  BY <1>0 DEF IInv, Timed, Running
<1>6. Reaped'
  BY <1>0 DEF IInv, Reaped, Past, Active, Running
<1>7. OneClaimant'
  BY <1>0 DEF IInv, OneClaimant
<1>8. AckedResultStored'
  BY <1>0 DEF IInv, AckedResultStored, Real
<1>9. RowConsistent'
  BY <1>0 DEF IInv, RowConsistent
<1> QED BY <1>1, <1>2, <1>3, <1>4, <1>5, <1>6, <1>7, <1>8, <1>9 DEF IInv

\* A lost request and a handler's read change no row and no worker.
LEMMA MessageStep ==
    ASSUME IInv, TypeOK', NEW q \in reqs,
           Lose(q) \/ (Proceed(q) /\ UNCHANGED <<rows, reaper>>)
    PROVE  IInv'
<1> USE Bounds DEF TypeOK
<1>0. /\ reqs' \subseteq reqs \union {[q EXCEPT !.phase = "checked"]}
      /\ UNCHANGED <<outcome, told, runAge, reaper, wpc, wrun, claimed, filed, result,
                     acked, tries, seq, elapsed>>
  BY DEF Lose, Proceed, rows, work
<1>1. SendsOK'
  BY <1>0 DEF IInv, SendsOK, Sends, Running
<1>2. KnowsOK'
  BY <1>0 DEF IInv, KnowsOK, Knows, Past, Real, Terminal
<1>3. HonestOK'
  BY <1>0 DEF IInv, HonestOK, Honest, Request, Real, Terminal
<1>4. Stored'
  BY <1>0 DEF IInv, Stored, Real
<1>5. Timed'
  BY <1>0 DEF IInv, Timed, Running
<1>6. Reaped'
  BY <1>0 DEF IInv, Reaped, Past, Active, Running
<1>7. OneClaimant'
  BY <1>0 DEF IInv, OneClaimant
<1>8. AckedResultStored'
  BY <1>0 DEF IInv, AckedResultStored, Real
<1>9. RowConsistent'
  BY <1>0 DEF IInv, RowConsistent
<1> QED BY <1>1, <1>2, <1>3, <1>4, <1>5, <1>6, <1>7, <1>8, <1>9 DEF IInv

\* The reaper's pass.
LEMMA ReapStep ==
    ASSUME IInv, TypeOK', Reap
    PROVE  IInv'
<1> USE Bounds DEF TypeOK
<1>0. /\ \A r \in Runs : outcome'[r] = outcome[r]
                          \/ (outcome[r] \in {"pending", "running"} /\ outcome'[r] = "error")
      /\ UNCHANGED <<told, runAge, reqs, wpc, wrun, claimed, filed, result,
                     acked, tries, seq, elapsed>>
      /\ reaper'.stranded \subseteq reaper.stranded
           \/ reaper'.stranded \subseteq {r \in Runs : outcome[r] = "running" /\ runAge[r] >= StrandedRunAge}
  BY DEF Reap, ReapSelect, ReapStamp, ReapAbandon, ReapError, ReapMatches, rows, work
<1>1. SendsOK'
  BY <1>0 DEF IInv, SendsOK, Sends, Running
<1>2. KnowsOK'
  BY <1>0 DEF IInv, KnowsOK, Knows, Past, Real, Terminal
<1>3. HonestOK'
  BY <1>0 DEF IInv, HonestOK, Honest, Request, Real, Terminal
<1>4. Stored'
  BY <1>0 DEF IInv, Stored, Real
<1>5. Timed'
  BY <1>0 DEF IInv, Timed, Running
<1>6. Reaped'
  <2>1. \A r \in Runs : Past(r) => Past(r)'
    BY <1>0 DEF Past
  <2>2. CASE reaper'.stranded \subseteq reaper.stranded
    BY <1>0, <2>1, <2>2 DEF IInv, Reaped
  <2>3. CASE reaper'.stranded \subseteq
               {r \in Runs : outcome[r] = "running" /\ runAge[r] >= StrandedRunAge}
    <3>1. \A w \in Workers : claimed[w] /\ wpc[w] \in Active =>
            runAge[wrun[w]] < StrandedRunAge
      BY RunQueueConstants DEF IInv, Timed, SendsOK, Sends, Active
    <3>2. \A r \in reaper'.stranded : /\ r \in Runs /\ outcome[r] = "running"
                                         /\ runAge[r] >= StrandedRunAge
      BY <2>3
    <3>3. \A w \in Workers : claimed[w] /\ wpc[w] \in Active => wrun[w] \notin reaper'.stranded
      BY <3>1, <3>2 DEF IInv
    <3>4. \A r \in reaper'.stranded : Past(r)'
      BY <2>1, <3>2 DEF Past
    <3> QED BY <1>0, <3>3, <3>4 DEF Reaped
  <2> QED BY <1>0, <2>2, <2>3
<1>7. OneClaimant'
  BY <1>0 DEF IInv, OneClaimant
<1>8. AckedResultStored'
  BY <1>0 DEF IInv, AckedResultStored, Real
<1>9. RowConsistent'
  BY <1>0 DEF IInv, RowConsistent
<1> QED BY <1>1, <1>2, <1>3, <1>4, <1>5, <1>6, <1>7, <1>8, <1>9 DEF IInv

\* Time passes.
LEMMA TickStep ==
    ASSUME IInv, TypeOK', Tick
    PROVE  IInv'
<1> USE Bounds DEF TypeOK
<1>0. /\ UNCHANGED <<outcome, told, reaper, reqs, wpc, wrun, claimed, filed, result,
                     acked, tries, seq>>
      /\ \A w \in Workers :
            /\ wpc[w] \in Running => elapsed[w] < RunTimeout
            /\ wpc[w] = "fail" => elapsed[w] < CompleteBudget
            /\ elapsed'[w] = IF wpc[w] \in Active THEN elapsed[w] + 1 ELSE elapsed[w]
      /\ \A r \in Runs : runAge'[r] \in {runAge[r], runAge[r] + 1}
  BY DEF Tick, Older
<1>1. SendsOK'
  <2>1. ASSUME NEW w \in Workers PROVE Sends(w)'
    BY <1>0 DEF IInv, SendsOK, Sends, Active, Running
  <2> QED BY <2>1 DEF SendsOK
<1>2. KnowsOK'
  BY <1>0 DEF IInv, KnowsOK, Knows, Past, Real, Terminal
<1>3. HonestOK'
  BY <1>0 DEF IInv, HonestOK, Honest, Request, Real, Terminal
<1>4. Stored'
  BY <1>0 DEF IInv, Stored, Real
<1>5. Timed'
  BY <1>0 DEF IInv, Timed, Active, Running
<1>6. Reaped'
  BY <1>0 DEF IInv, Reaped, Past, Active, Running
<1>7. OneClaimant'
  BY <1>0 DEF IInv, OneClaimant
<1>8. AckedResultStored'
  BY <1>0 DEF IInv, AckedResultStored, Real
<1>9. RowConsistent'
  BY <1>0 DEF IInv, RowConsistent
<1> QED BY <1>1, <1>2, <1>3, <1>4, <1>5, <1>6, <1>7, <1>8, <1>9 DEF IInv

\* An answer either reaches the worker that waits for it or changes nothing
\* but the messages.
LEMMA AnswerCases ==
    ASSUME IInv, NEW q \in reqs, NEW won \in BOOLEAN, Answer(q, won)
    PROVE  /\ q.w \in Workers /\ Honest(q) /\ reqs' \subseteq reqs
           /\ UNCHANGED <<wrun, filed, result, seq, elapsed>>
           /\ \/ UNCHANGED <<wpc, claimed, acked, tries>>
              \/ /\ wpc[q.w] \in Waiting /\ seq[q.w] = q.n
                 /\ wpc' = [wpc EXCEPT ![q.w] = IF won THEN "investigate" ELSE "done"]
                 /\ claimed' = [claimed EXCEPT ![q.w] = @ \/ won]
                 /\ acked' = [acked EXCEPT ![q.w] = q.kind = "complete"]
                 /\ tries' = [tries EXCEPT ![q.w] = 0]
<1>1. q.w \in Workers /\ Honest(q)
  BY DEF IInv, TypeOK, Request, HonestOK
<1> QED BY <1>1, Zenon DEF Answer

\* A request answered in the negative ends the worker that waits for it, and
\* nothing else.
LEMMA DenyFacts ==
    ASSUME IInv, NEW q \in reqs, Answer(q, FALSE)
    PROVE  /\ UNCHANGED <<claimed, wrun, result, seq, elapsed>>
           /\ reqs' \subseteq reqs
           /\ \A w \in Workers :
                \/ wpc'[w] = wpc[w] /\ tries'[w] = tries[w] /\ acked'[w] = acked[w]
                \/ /\ w = q.w /\ seq[w] = q.n
                   /\ wpc[w] \in Waiting /\ wpc'[w] = "done"
                   /\ acked'[w] => q.kind = "complete"
<1>1. /\ q.w \in Workers
      /\ wpc \in [Workers -> Active \union {"idle", "done", "crashed"}]
      /\ tries \in [Workers -> 0..Attempts]
      /\ claimed \in [Workers -> BOOLEAN] /\ acked \in [Workers -> BOOLEAN]
  BY AnswerCases DEF IInv, TypeOK
<1>2. claimed' = claimed
  <2>1. ASSUME claimed' = [claimed EXCEPT ![q.w] = @ \/ FALSE] PROVE claimed' = claimed
    BY <1>1, <2>1
  <2> QED BY <2>1, AnswerCases
<1>3. CASE UNCHANGED <<wpc, claimed, acked, tries>>
  BY <1>2, <1>3, AnswerCases
<1>4. CASE /\ wpc[q.w] \in Waiting /\ seq[q.w] = q.n
           /\ wpc' = [wpc EXCEPT ![q.w] = "done"]
           /\ acked' = [acked EXCEPT ![q.w] = q.kind = "complete"]
           /\ tries' = [tries EXCEPT ![q.w] = 0]
  <2>1. ASSUME NEW w \in Workers, w # q.w
        PROVE  wpc'[w] = wpc[w] /\ tries'[w] = tries[w] /\ acked'[w] = acked[w]
    BY <1>1, <1>4, <2>1
  <2>2. wpc'[q.w] = "done"
    BY <1>1, <1>4
  <2>3. acked'[q.w] => q.kind = "complete"
    BY <1>1, <1>4
  <2> QED BY <1>2, <1>4, <2>1, <2>2, <2>3, AnswerCases
<1> QED BY <1>3, <1>4, AnswerCases

\* What a negative answer does to the rest of the invariant, when the rows
\* move no further back and keep their results.
LEMMA DenyKeeps ==
    ASSUME IInv, TypeOK', NEW q \in reqs, Answer(q, FALSE), UNCHANGED <<runAge, reaper>>,
           \A r \in Runs : /\ Past(r) => Past(r)'
                           /\ outcome[r] # "absent" => outcome'[r] # "absent"
    PROVE  SendsOK' /\ KnowsOK' /\ HonestOK' /\ Timed' /\ Reaped' /\ OneClaimant'
<1> USE Bounds DEF TypeOK, Waiting, Active, Running
<1>0. TypeOK /\ SendsOK /\ KnowsOK /\ HonestOK /\ Timed /\ Reaped /\ OneClaimant
  BY DEF IInv
<1>a. /\ UNCHANGED <<claimed, wrun, result, seq, elapsed>>
      /\ reqs' \subseteq reqs
      /\ \A w \in Workers :
           \/ wpc'[w] = wpc[w] /\ tries'[w] = tries[w] /\ acked'[w] = acked[w]
           \/ wpc'[w] = "done" /\ wpc[w] \in Waiting
  BY DenyFacts
<1>1. SendsOK'
  BY <1>0, <1>a DEF SendsOK, Sends
<1>2. KnowsOK'
  <2>1. ASSUME NEW w \in Workers PROVE Knows(w)'
    <3>1. /\ wrun'[w] = wrun[w] /\ wrun[w] \in Runs /\ claimed'[w] = claimed[w]
          /\ result'[w] = result[w] /\ Knows(w)
      BY <1>0, DenyFacts DEF KnowsOK
    <3>2. /\ wpc[w] # "idle" => outcome'[wrun[w]] # "absent"
          /\ claimed[w] => Past(wrun[w])'
      BY <3>1, DenyFacts DEF Knows, Past
    <3> QED BY <1>0, <3>1, <3>2, DenyFacts DEF Knows
  <2> QED BY <2>1 DEF KnowsOK
<1>3. HonestOK'
  BY <1>0, <1>a DEF HonestOK, Honest, Request
<1>4. Timed'
  BY <1>0, <1>a DEF Timed
<1>5. Reaped'
  BY <1>0, <1>a DEF Reaped
<1>6. OneClaimant'
  BY <1>0, <1>a DEF OneClaimant
<1> QED BY <1>1, <1>2, <1>3, <1>4, <1>5, <1>6

\* A claimant that reports a result finds it stored, if any result is.
LEMMA ResultIsMine ==
    ASSUME IInv, NEW w \in Workers, result[w] \in Real, outcome[wrun[w]] \in Real
    PROVE  outcome[wrun[w]] = result[w]
<1>1. claimed[w] /\ wrun[w] \in Runs
  BY DEF IInv, KnowsOK, Knows, TypeOK
<1>2. PICK v \in Workers : /\ wrun[v] = wrun[w] /\ claimed[v]
                           /\ result[v] \in {outcome[wrun[w]], "error"}
  BY <1>1 DEF IInv, Stored
<1>3. v = w
  BY <1>1, <1>2 DEF IInv, OneClaimant
<1> QED BY <1>2, <1>3 DEF Real

\* A request that is answered with what is stored.
LEMMA DenyStep ==
    ASSUME IInv, TypeOK', NEW q \in reqs, Answer(q, FALSE), UNCHANGED <<rows, reaper>>,
           q.kind = "complete" => ~Accepts(outcome[q.run], q.outcome)
    PROVE  IInv'
<1>0. UNCHANGED <<outcome, told, runAge>>
  BY DEF rows
<1>1. SendsOK' /\ KnowsOK' /\ HonestOK' /\ Timed' /\ Reaped' /\ OneClaimant'
  BY <1>0, DenyKeeps DEF Past
<1>2. Stored'
  BY <1>0, DenyFacts DEF IInv, Stored
<1>3. AckedResultStored'
  <2> SUFFICES ASSUME NEW w \in Workers, acked'[w], result[w] \in Real
               PROVE  outcome[wrun[w]] = result[w]
    BY <1>0, DenyFacts DEF AckedResultStored
  <2>1. CASE acked[w]
    BY <2>1 DEF IInv, AckedResultStored
  <2>2. CASE ~acked[w]
    <3>1. w = q.w /\ q.kind = "complete" /\ seq[w] = q.n
      BY <2>2, DenyFacts
    <3>2. Honest(q) /\ q.run = wrun[w] /\ q.outcome = result[w]
      BY <3>1, AnswerCases DEF Honest
    <3>3. outcome[wrun[w]] \in Real
      BY <3>1, <3>2 DEF Accepts, Terminal
    <3> QED BY <3>3, ResultIsMine
  <2> QED BY <2>1, <2>2
<1>4. RowConsistent'
  BY <1>0 DEF IInv, RowConsistent
<1> QED BY <1>1, <1>2, <1>3, <1>4 DEF IInv

\* A completion that is stored.
LEMMA StoreStep ==
    ASSUME IInv, TypeOK', NEW q \in reqs, CompleteWrite(q),
           CompleteMatches(outcome[q.run], q.outcome)
    PROVE  IInv'
<1>0. /\ outcome' = [outcome EXCEPT ![q.run] = q.outcome]
      /\ \E t \in Tells(q.outcome) : told' = [told EXCEPT ![q.run] = t]
      /\ Answer(q, FALSE) /\ UNCHANGED <<runAge, reaper>> /\ q.kind = "complete"
  BY DEF CompleteWrite
<1>1. /\ q.w \in Workers /\ q.run \in Runs /\ Honest(q) /\ q.outcome \in Terminal
      /\ outcome \in [Runs -> Outcomes]
      /\ told \in [Runs -> {"nothing", "severity", "incident"}]
      /\ outcome[q.run] \notin Real
  BY <1>0, AnswerCases DEF IInv, TypeOK, Request, Honest, CompleteMatches, Accepts, Real, Terminal
<1>2. SendsOK' /\ KnowsOK' /\ HonestOK' /\ Timed' /\ Reaped' /\ OneClaimant'
  BY <1>0, <1>1, DenyKeeps DEF Past, Terminal, Real
<1>3. Stored'
  <2> SUFFICES ASSUME NEW r \in Runs, outcome'[r] \in Real
               PROVE  \E w \in Workers : /\ wrun[w] = r /\ claimed[w]
                                         /\ result[w] \in {outcome'[r], "error"}
    BY <1>0, DenyFacts DEF Stored
  <2>1. CASE r = q.run
    BY <1>0, <1>1, <2>1 DEF Honest
  <2>2. CASE r # q.run
    BY <1>0, <1>1, <2>2 DEF IInv, Stored
  <2> QED BY <2>1, <2>2
<1>4. AckedResultStored'
  <2> SUFFICES ASSUME NEW w \in Workers, acked'[w], result[w] \in Real
               PROVE  outcome'[wrun[w]] = result[w]
    BY <1>0, DenyFacts DEF AckedResultStored
  <2>1. CASE acked[w]
    <3>1. outcome[wrun[w]] = result[w] /\ wrun[w] \in Runs
      BY <2>1 DEF IInv, AckedResultStored, TypeOK
    <3> QED BY <1>0, <1>1, <3>1
  <2>2. CASE ~acked[w]
    <3>1. w = q.w /\ seq[w] = q.n
      BY <1>0, <2>2, DenyFacts
    <3> QED BY <1>0, <1>1, <3>1 DEF Honest
  <2> QED BY <2>1, <2>2
<1>5. RowConsistent'
  <2>1. PICK t \in Tells(q.outcome) : told' = [told EXCEPT ![q.run] = t]
    BY <1>0
  <2>2. t = "nothing" <=> q.outcome # "incident"
    BY DEF Tells
  <2>3. ASSUME NEW r \in Runs PROVE told'[r] = "nothing" <=> outcome'[r] # "incident"
    BY <1>0, <1>1, <2>1, <2>2 DEF IInv, RowConsistent
  <2> QED BY <2>3 DEF RowConsistent
<1> QED BY <1>2, <1>3, <1>4, <1>5 DEF IInv

\* A won claim: nobody held the run, and the worker that hears of it was
\* waiting for exactly this answer.
LEMMA ClaimStep ==
    ASSUME IInv, TypeOK', NEW q \in reqs, StartWrite(q), ClaimWins(q)
    PROVE  IInv'
<1> USE Bounds DEF TypeOK
<1>0. /\ outcome[q.run] = "pending" /\ outcome' = [outcome EXCEPT ![q.run] = "running"]
      /\ runAge' = [runAge EXCEPT ![q.run] = 0]
      /\ UNCHANGED <<told, reaper>> /\ q.kind = "start" /\ Answer(q, TRUE)
  BY DEF StartWrite, ClaimWins
<1>1. /\ q.w \in Workers /\ q.run \in Runs /\ Honest(q) /\ q.n = 1 /\ reqs' \subseteq reqs
      /\ UNCHANGED <<wrun, filed, result, seq, elapsed>>
      /\ TypeOK /\ q.run = wrun[q.w]
  BY <1>0, AnswerCases DEF IInv, Request, Honest
<1>2. \A w \in Workers : wrun[w] = q.run => ~claimed[w]
  BY <1>0 DEF IInv, KnowsOK, Knows, Past
<1>3. \/ UNCHANGED <<wpc, claimed, acked, tries>>
      \/ /\ wpc[q.w] = "start"
         /\ wpc' = [wpc EXCEPT ![q.w] = "investigate"]
         /\ claimed' = [claimed EXCEPT ![q.w] = TRUE]
         /\ acked' = [acked EXCEPT ![q.w] = FALSE]
         /\ tries' = [tries EXCEPT ![q.w] = 0]
  <2>1. wpc[q.w] \in Waiting /\ seq[q.w] = 1 => wpc[q.w] = "start"
    BY <1>1 DEF IInv, SendsOK, Sends, Waiting
  <2>2. [claimed EXCEPT ![q.w] = @ \/ TRUE] = [claimed EXCEPT ![q.w] = TRUE]
    BY <1>1
  <2>3. (q.kind = "complete") = FALSE
    BY <1>0
  <2> QED BY <1>0, <1>1, <2>1, <2>2, <2>3, AnswerCases
<1>4. SendsOK'
  BY <1>1, <1>3 DEF IInv, SendsOK, Sends, Running
<1>5. KnowsOK'
  BY <1>0, <1>1, <1>3 DEF IInv, KnowsOK, Knows, Past, Real
<1>6. HonestOK'
  <2>1. ASSUME NEW p \in reqs PROVE Honest(p)'
    <3>1. Honest(p) /\ p.w \in Workers /\ p.run \in Runs
      BY <1>1 DEF IInv, HonestOK, Request
    <3>2. claimed[p.w] => claimed'[p.w]
      BY <1>1, <1>3, <3>1
    <3> QED BY <1>0, <1>1, <3>1, <3>2 DEF Honest
  <2> QED BY <1>1, <2>1 DEF HonestOK
<1>7. Stored'
  <2>1. \A w \in Workers : claimed[w] => claimed'[w]
    BY <1>1, <1>3
  <2> QED BY <1>0, <1>1, <2>1 DEF IInv, Stored, Real
<1>8. Timed'
  BY <1>0, <1>1, <1>2, <1>3 DEF IInv, Timed, Running
<1>9. Reaped'
  <2>1. q.run \notin reaper.stranded
    BY <1>0 DEF IInv, Reaped, Past
  <2> QED BY <1>0, <1>1, <1>3, <2>1 DEF IInv, Reaped, Past, Active, Running
<1>10. OneClaimant'
  BY <1>1, <1>2, <1>3 DEF IInv, OneClaimant
<1>11. AckedResultStored'
  BY <1>0, <1>1, <1>3 DEF IInv, AckedResultStored, Real
<1>12. RowConsistent'
  BY <1>0, <1>1 DEF IInv, RowConsistent
<1> QED BY <1>4, <1>5, <1>6, <1>7, <1>8, <1>9, <1>10, <1>11, <1>12 DEF IInv

\* Every step keeps the invariant.
LEMMA IInvStep == ASSUME IInv, [Next]_vars PROVE IInv'
<1>0. TypeOK'
  BY TypeStep DEF IInv
<1>1. ASSUME NEW w \in Workers, WorkerStep(w) PROVE IInv'
  BY <1>0, <1>1, BeginStep, FailStep, EndStep, ResendStep, LeaveStep
     DEF WorkerStep, WallClock, ConnectFails, RequestFails, Running
<1>2. ASSUME NEW q \in reqs, StartRead(q) PROVE IInv'
  BY <1>0, <1>2, MessageStep, DenyStep DEF StartRead
<1>3. ASSUME NEW q \in reqs, StartWrite(q) PROVE IInv'
  <2>1. CASE ClaimWins(q)
    BY <1>0, <1>3, <2>1, ClaimStep
  <2>2. CASE ~ClaimWins(q)
    <3>1. ClaimWins(q) = FALSE
      BY <2>2 DEF ClaimWins
    <3>2. Answer(q, FALSE) /\ UNCHANGED <<rows, reaper>> /\ q.kind # "complete"
      BY <1>3, <3>1 DEF StartWrite, rows
    <3> QED BY <1>0, <3>2, DenyStep
  <2> QED BY <2>1, <2>2
<1>4. ASSUME NEW q \in reqs, CompleteRead(q) PROVE IInv'
  BY <1>0, <1>4, MessageStep, DenyStep DEF CompleteRead
<1>5. ASSUME NEW q \in reqs, CompleteWrite(q) PROVE IInv'
  <2>1. CASE CompleteMatches(outcome[q.run], q.outcome)
    BY <1>0, <1>5, <2>1, StoreStep
  <2>2. CASE ~CompleteMatches(outcome[q.run], q.outcome)
    <3>1. Answer(q, FALSE) /\ UNCHANGED <<rows, reaper>>
      BY <1>5, <2>2 DEF CompleteWrite, rows
    <3> QED BY <1>0, <2>2, <3>1, DenyStep DEF CompleteMatches
  <2> QED BY <2>1, <2>2
<1>6. ASSUME NEW q \in reqs, Handler(q) PROVE IInv'
  BY <1>0, <1>2, <1>3, <1>4, <1>5, <1>6, MessageStep DEF Handler
<1>7. CASE UNCHANGED vars
  BY <1>7 DEF vars, rows, work, IInv, TypeOK, SendsOK, Sends, KnowsOK, Knows, Past, HonestOK,
              Honest, Stored, Timed, Reaped, OneClaimant, AckedResultStored, RowConsistent
<1> QED BY <1>0, <1>1, <1>6, <1>7, InsertStep, ReapStep, TickStep DEF Next

-------------------------------------------------------------------------------
\* The invariant always holds.
THEOREM Invariance == Spec => []IInv
  BY InitIInv, IInvStep, PTL DEF Spec

\* The variables of the run queue keep their types: no worker ever sends more
\* than one claim and two rounds of completion attempts.
THEOREM TypeCorrect == Spec => []TypeOK
<1>1. IInv => TypeOK BY DEF IInv
<1> QED BY <1>1, Invariance, PTL

\* post_run_start hands a run to at most one worker.
THEOREM ClaimedOnce == Spec => []OneClaimant
<1>1. IInv => OneClaimant BY DEF IInv
<1> QED BY <1>1, Invariance, PTL

\* A result that post_run_complete has acknowledged is never replaced.
THEOREM AckIsFinal == Spec => []AckedResultStored
<1>1. IInv => AckedResultStored BY DEF IInv
<1> QED BY <1>1, Invariance, PTL

\* A row tells of an incident, its severity and perhaps its id, exactly when
\* its outcome is "incident".
THEOREM RowsConsistent == Spec => []RowConsistent
<1>1. IInv => RowConsistent BY DEF IInv
<1> QED BY <1>1, Invariance, PTL

\* reap_stranded_runs never stamps a run whose claimant is still at work, for
\* every wall clock and report budget that add up to less than the stranded
\* age.
THEOREM ReaperIsSafe == Spec => []ReaperSparesLiveRuns
<1>1. IInv => ReaperSparesLiveRuns
  BY DEF IInv, Reaped, ReaperSparesLiveRuns, ReapMatches
<1> QED BY <1>1, Invariance, PTL

\* Every step of handlers, agents and reaper is a step of the abstract life
\* cycle of a run.
THEOREM StepsImplementLifecycle == Spec => LifecycleSteps
<1>1. ASSUME IInv, [Next]_vars PROVE [Lifecycle!Next]_outcome
  <2> USE DEF Lifecycle!Next, Lifecycle!Move, TypeOK
  <2>1. ASSUME NEW r \in Runs, Insert(r) PROVE Lifecycle!Next
    BY <2>1 DEF Insert, Lifecycle!Insert
  <2>2. ASSUME NEW w \in Workers, WorkerStep(w) PROVE UNCHANGED outcome
    BY <2>2 DEF WorkerStep, Begin, WallClock, ConnectFails, FileIncident, EndInvestigation,
                RequestFails, Crash, Fail, Resend, GiveUp, rows
  <2>3. ASSUME NEW q \in reqs, StartWrite(q) PROVE [Lifecycle!Next]_outcome
    <3>1. q.run \in Runs
      BY <1>1 DEF IInv, Request
    <3> QED BY <2>3, <3>1 DEF StartWrite, ClaimWins, Lifecycle!Claim
  <2>4. ASSUME NEW q \in reqs, CompleteWrite(q) PROVE [Lifecycle!Next]_outcome
    <3>1. q.run \in Runs /\ q.w \in Workers /\ Honest(q) /\ KnowsOK
          /\ outcome[q.run] \in Outcomes
      BY <1>1 DEF IInv, Request, HonestOK
    <3>2. CASE UNCHANGED outcome
      BY <3>2
    <3>3. CASE /\ Accepts(outcome[q.run], q.outcome)
               /\ outcome' = [outcome EXCEPT ![q.run] = q.outcome]
      <4>1. q.outcome \in Terminal /\ outcome[q.run] \in {"pending", "running", "error"}
        BY <2>4, <3>1, <3>3 DEF CompleteWrite, Honest, Accepts, Outcomes, Terminal, Real
      <4>2. CASE q.outcome \in Real
        <5>1. outcome[q.run] \in {"running", "error"}
          BY <3>1, <4>1, <4>2 DEF Honest, KnowsOK, Knows, Past
        <5>2. Lifecycle!Report(q.run)
          BY <3>3, <4>2, <5>1 DEF Lifecycle!Report, Lifecycle!Real, Real
        <5> QED BY <3>1, <5>2 DEF Lifecycle!Settle
      <4>3. CASE q.outcome = "error"
        <5>1. outcome[q.run] \in {"pending", "running"}
          BY <3>3, <4>1, <4>3 DEF Accepts, Terminal, Real
        <5>2. Lifecycle!GiveUp(q.run)
          BY <3>3, <4>3, <5>1 DEF Lifecycle!GiveUp
        <5> QED BY <3>1, <5>2 DEF Lifecycle!Settle
      <4> QED BY <4>1, <4>2, <4>3 DEF Terminal
    <3> QED BY <2>4, <3>2, <3>3 DEF CompleteWrite, CompleteMatches
  <2>5. ASSUME NEW q \in reqs, Handler(q) PROVE [Lifecycle!Next]_outcome
    BY <2>3, <2>4, <2>5 DEF Handler, StartRead, CompleteRead, Lose, rows
  <2>6. CASE ReapStamp
    <3>1. ReapMatches \in SUBSET {r \in Runs : outcome[r] \in {"pending", "running"}}
      BY <1>1 DEF IInv, ReapMatches
    <3> QED BY <2>6, <3>1 DEF ReapStamp, Lifecycle!GiveUpMany
  <2>7. CASE ReapAbandon
    <3> DEFINE S == {r \in Runs : r \in reaper.old /\ outcome[r] = "pending"}
    <3>1. S \in SUBSET {r \in Runs : outcome[r] \in {"pending", "running"}}
      OBVIOUS
    <3>2. outcome' = [r \in Runs |-> IF r \in S THEN "error" ELSE outcome[r]]
      BY <2>7 DEF ReapAbandon
    <3> QED BY <3>1, <3>2 DEF Lifecycle!GiveUpMany
  <2>8. CASE ReapSelect \/ ReapError \/ Tick \/ UNCHANGED vars
    BY <2>8 DEF ReapSelect, ReapError, Tick, vars, rows
  <2> QED BY <1>1, <2>1, <2>2, <2>5, <2>6, <2>7, <2>8 DEF Next, Reap
<1> QED BY <1>1, Invariance, PTL DEF Spec, LifecycleSteps

===============================================================================
