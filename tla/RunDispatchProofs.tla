--------------------------- MODULE RunDispatchProofs ---------------------------
(***************************************************************************)
(* The monthly cap of runs, for any number of orgs, dispatchers, plans and *)
(* months.                                                                 *)
(*                                                                         *)
(* The argument: the org's cap lock is held from before the recount until  *)
(* the transaction's end, so what a dispatcher recounted is what the table *)
(* holds when it commits; a new month can only make that set smaller,      *)
(* because no row is stamped later than the clock.                         *)
(***************************************************************************)
EXTENDS RunDispatch, FiniteSetTheorems, TLAPS

\* Places inside the transaction, after the lock.
Locked == {"recount", "rollback", "commit"}

\* A dispatcher inside the transaction holds its org's cap lock.
LockHeld ==
    \A d \in Dispatchers : pc[d] \in Locked => capLock[event[d].org] = d

\* No stamp is later than the clock.
StampsPast ==
    /\ \A r \in runs : r.at.month <= month
    /\ \A d \in Dispatchers : at[d].month <= month

\* A row's dispatcher has ended, so the cap it resolved is final.
RunsDone == \A r \in runs : pc[r.by] = "done"

\* What the dispatcher counted still fits when it commits.
CommitFits ==
    \A d \in Dispatchers : pc[d] = "commit" => Cardinality(Recounted(d)) <= cap[d]

RunsFinite == IsFiniteSet(runs)

IInv ==
    /\ TypeOK /\ LockHeld /\ StampsPast /\ RunsDone /\ RunsFinite
    /\ CommitFits /\ WithinCap

-------------------------------------------------------------------------------
\* The initial state satisfies the invariant.
LEMMA InitIInv == Init => IInv
<1> SUFFICES ASSUME Init PROVE IInv
  OBVIOUS
<1>1. TypeOK
  BY RunDispatchConstants DEF Init, TypeOK, Config, Stamps
<1>2. LockHeld /\ StampsPast /\ RunsDone /\ CommitFits
  BY DEF Init, LockHeld, StampsPast, RunsDone, CommitFits, Locked
<1>4. RunsFinite
  BY FS_EmptySet DEF Init, RunsFinite
<1>3. WithinCap
  BY DEF Init, WithinCap, Used, ThisMonth
<1> QED BY <1>1, <1>2, <1>3, <1>4 DEF IInv

\* The lists of gates are lists of gates.
LEMMA GateLists == NotificationGates \in Seq(Gates) /\ ManualGates \in Seq(Gates)
  BY DEF NotificationGates, ManualGates, Gates

\* Every step keeps the types.
LEMMA TypeStep == ASSUME TypeOK, [Next]_vars PROVE TypeOK'
<1> USE DEF TypeOK
<1>1. ASSUME NEW o \in Orgs, PatchConfig(o) PROVE TypeOK'
  BY <1>1 DEF PatchConfig, clock, calls
<1>2. ASSUME NEW o \in Orgs, ChangePlan(o) PROVE TypeOK'
  BY <1>2 DEF ChangePlan, clock, calls
<1>3. CASE Tick
  BY <1>3, RunDispatchConstants DEF Tick, settings, calls
<1>4. ASSUME NEW d \in Dispatchers, Arrive(d) PROVE TypeOK'
  BY <1>4, GateLists DEF Arrive, clock, settings
<1>5. ASSUME NEW d \in Dispatchers, PassGate(d) PROVE TypeOK'
  <2>1. Tail(todo[d]) \in Seq(Gates)
    BY <1>5 DEF PassGate
  <2>2. PlanCap[plan[event[d].org]] \in Nat
    BY RunDispatchConstants DEF Event
  <2>3. cap' \in [Dispatchers -> Nat] /\ todo' \in [Dispatchers -> Seq(Gates)]
    BY <1>5, <2>1, <2>2 DEF PassGate
  <2> QED BY <1>5, <2>3 DEF PassGate, clock, settings
<1>6. ASSUME NEW d \in Dispatchers, Refuse(d) PROVE TypeOK'
  BY <1>6 DEF Refuse, clock, settings
<1>7. ASSUME NEW d \in Dispatchers, Stamp(d) PROVE TypeOK'
  <2>1. [time |-> now, month |-> month] \in Stamps
    BY RunDispatchConstants DEF Stamps
  <2> QED BY <1>7, <2>1 DEF Stamp, clock, settings
<1>8. ASSUME NEW d \in Dispatchers, TakeLock(d) PROVE TypeOK'
  BY <1>8 DEF TakeLock, clock, settings
<1>9. ASSUME NEW d \in Dispatchers, Recount(d) PROVE TypeOK'
  BY <1>9 DEF Recount, clock, settings
<1>10. ASSUME NEW d \in Dispatchers, Commit(d) PROVE TypeOK'
  <2>1. RowOf(d) \in Run
    BY DEF RowOf, Run, Event
  <2> QED BY <1>10, <2>1 DEF Commit, Release, clock, settings
<1>11. ASSUME NEW d \in Dispatchers, Rollback(d) PROVE TypeOK'
  BY <1>11 DEF Rollback, Release, clock, settings
<1>12. CASE UNCHANGED vars
  BY <1>12 DEF vars, clock, settings, calls
<1> QED
  BY <1>1, <1>2, <1>3, <1>4, <1>5, <1>6, <1>7, <1>8, <1>9, <1>10, <1>11, <1>12
     DEF Next, Advance, Closed, LookupFails, LoseRace, TransactionFails

\* The month's rows depend on the table and the clock alone.
LEMMA UsedSame ==
    ASSUME UNCHANGED <<runs, month>>
    PROVE  /\ \A o \in Orgs : Used(o)' = Used(o)
           /\ \A d \in Dispatchers :
                at'[d] = at[d] /\ event' = event => Recounted(d)' = Recounted(d)
  BY DEF Used, ThisMonth, Recounted, RowOf

\* Nothing has been counted in a month that has just begun.
LEMMA NewMonthEmpty ==
    ASSUME TypeOK, StampsPast, Tick, month' # month
    PROVE  /\ \A o \in Orgs : Used(o)' = {}
           /\ \A d \in Dispatchers : Recounted(d)' = {}
<1>1. month' = month + 1 /\ month \in Nat /\ runs' = runs /\ at' = at /\ event' = event
  BY RunDispatchConstants DEF Tick, calls, TypeOK
<1>2. \A r \in runs : r.at.month \in Nat
  BY DEF TypeOK, Run, Stamps
<1>3. \A d \in Dispatchers : at[d].month \in Nat
  BY DEF TypeOK, Stamps
<1>4. \A r \in runs : ~(r.at.month >= month')
  BY <1>1, <1>2 DEF StampsPast
<1>5. \A d \in Dispatchers : ~(at[d].month >= month')
  BY <1>1, <1>3 DEF StampsPast
<1>6. \A o \in Orgs : Used(o)' = {}
  BY <1>1, <1>4 DEF Used, ThisMonth
<1>7. ASSUME NEW d \in Dispatchers PROVE Recounted(d)' = {}
  BY <1>1, <1>4, <1>5 DEF Recounted, ThisMonth, RowOf
<1> QED BY <1>6, <1>7

\* A step that touches neither the table, the lock nor the clock, and leaves
\* the dispatchers inside a transaction alone, keeps the invariant.
LEMMA QuietStep ==
    ASSUME IInv, TypeOK', UNCHANGED <<runs, month, capLock, event>>,
           \A d \in Dispatchers : pc[d] \in Locked \union {"done"} =>
                pc'[d] = pc[d] /\ cap'[d] = cap[d] /\ at'[d] = at[d],
           \A d \in Dispatchers : pc'[d] \in Locked => pc[d] \in Locked,
           \A d \in Dispatchers : at'[d].month <= month
    PROVE  IInv'
<1> USE DEF Locked
<1>1. LockHeld' /\ StampsPast' /\ RunsDone' /\ RunsFinite'
  BY DEF IInv, LockHeld, StampsPast, RunsDone, RunsFinite, TypeOK, Run
<1>2. CommitFits'
  BY UsedSame DEF IInv, CommitFits, TypeOK
<1>3. WithinCap'
  <2>1. \A o \in Orgs : Used(o)' = Used(o)
    BY UsedSame
  <2>2. \A o \in Orgs : \A r \in Used(o) : cap'[r.by] = cap[r.by]
    BY DEF IInv, RunsDone, Used, ThisMonth, TypeOK, Run
  <2> QED BY <2>1, <2>2 DEF IInv, WithinCap
<1> QED BY <1>1, <1>2, <1>3 DEF IInv

\* A commit adds exactly the row its dispatcher counted.
LEMMA CommitUsed ==
    ASSUME TypeOK, NEW d \in Dispatchers, Commit(d)
    PROVE  /\ Used(event[d].org)' = Recounted(d)
           /\ \A o \in Orgs : o # event[d].org => Used(o)' = Used(o)
           /\ RowOf(d).by = d /\ RowOf(d).org = event[d].org
           /\ Used(event[d].org)' \subseteq Used(event[d].org) \union {RowOf(d)}
           /\ RowOf(d) \notin Used(event[d].org)' =>
                Used(event[d].org)' = Used(event[d].org)
<1>1. runs' = runs \union {RowOf(d)} /\ month' = month
  BY DEF Commit, clock
<1>2. RowOf(d).by = d /\ RowOf(d).org = event[d].org
  BY DEF RowOf
<1>3. event' = event
  BY DEF Commit
<1>4. Used(event[d].org)' = Recounted(d)
  BY <1>1, <1>3 DEF Used, ThisMonth, Recounted
<1>5. ASSUME NEW o \in Orgs, o # event[d].org PROVE Used(o)' = Used(o)
  BY <1>1, <1>2, <1>5 DEF Used, ThisMonth
<1>6. Used(event[d].org)' \subseteq Used(event[d].org) \union {RowOf(d)}
  BY <1>1, <1>3 DEF Used, ThisMonth
<1>7. RowOf(d) \notin Used(event[d].org)' =>
        Used(event[d].org)' = Used(event[d].org)
  BY <1>1, <1>3 DEF Used, ThisMonth
<1> QED BY <1>2, <1>4, <1>5, <1>6, <1>7

\* A commit keeps the invariant.
LEMMA CommitStep ==
    ASSUME IInv, TypeOK', NEW d \in Dispatchers, Commit(d)
    PROVE  IInv'
<1> USE DEF Locked
<1>0. /\ TypeOK /\ pc[d] = "commit" /\ d # NoOne
      /\ UNCHANGED <<month, event, cap, at>>
      /\ runs' = runs \union {RowOf(d)}
      /\ pc' = [pc EXCEPT ![d] = "done"]
      /\ capLock' = [o \in Orgs |-> IF capLock[o] = d THEN NoOne ELSE capLock[o]]
  BY RunDispatchConstants DEF Commit, Release, clock, IInv
<1>1. LockHeld'
  BY <1>0 DEF IInv, LockHeld, TypeOK, Event
<1>2. StampsPast' /\ RunsDone'
  BY <1>0 DEF IInv, StampsPast, RunsDone, RowOf, TypeOK, Run
<1>3. CommitFits'
  <2> SUFFICES ASSUME NEW e \in Dispatchers, pc'[e] = "commit"
               PROVE  Cardinality(Recounted(e)') <= cap'[e]
    BY DEF CommitFits
  <2>1. e # d /\ pc[e] = "commit"
    BY <1>0 DEF TypeOK
  <2>2. event[e].org # event[d].org
    BY <1>0, <2>1 DEF IInv, LockHeld
  <2>3. Recounted(e)' = Recounted(e)
    BY <1>0, <2>2 DEF Recounted, ThisMonth, RowOf
  <2> QED BY <1>0, <2>1, <2>3 DEF IInv, CommitFits
<1>4. RunsFinite'
  BY <1>0, FS_AddElement DEF IInv, RunsFinite
<1>5. WithinCap'
  <2> SUFFICES ASSUME NEW o \in Orgs, Used(o)' # {}
               PROVE  \E r \in Used(o)' : Cardinality(Used(o)') <= cap'[r.by]
    BY DEF WithinCap
  <2>1. CASE o # event[d].org \/ RowOf(d) \notin Used(o)'
    <3>1. Used(o)' = Used(o)
      BY <1>0, <2>1, CommitUsed
    <3> QED BY <1>0, <3>1 DEF IInv, WithinCap
  <2>2. CASE o = event[d].org /\ RowOf(d) \in Used(o)'
    <3>1. Cardinality(Used(o)') <= cap'[RowOf(d).by]
      BY <1>0, <2>2, CommitUsed DEF IInv, CommitFits
    <3> QED BY <2>2, <3>1
  <2> QED BY <2>1, <2>2
<1> QED BY <1>1, <1>2, <1>3, <1>4, <1>5 DEF IInv

\* A rollback, whatever the reason, keeps the invariant.
LEMMA RollbackStep ==
    ASSUME IInv, TypeOK', NEW d \in Dispatchers, Rollback(d), pc[d] # "done"
    PROVE  IInv'
<1> USE DEF Locked
<1>0. /\ TypeOK /\ d # NoOne
      /\ UNCHANGED <<month, event, cap, at, runs>>
      /\ pc' = [pc EXCEPT ![d] = "refused"]
      /\ capLock' = [o \in Orgs |-> IF capLock[o] = d THEN NoOne ELSE capLock[o]]
  BY RunDispatchConstants DEF Rollback, Release, clock, IInv
<1>1. LockHeld'
  BY <1>0 DEF IInv, LockHeld, TypeOK, Event
<1>2. StampsPast' /\ RunsDone' /\ RunsFinite'
  BY <1>0 DEF IInv, StampsPast, RunsDone, RunsFinite, TypeOK, Run
<1>3. CommitFits'
  BY <1>0, UsedSame DEF IInv, CommitFits, TypeOK
<1>4. WithinCap'
  BY <1>0, UsedSame DEF IInv, WithinCap
<1> QED BY <1>1, <1>2, <1>3, <1>4 DEF IInv

\* The clock keeps the invariant, over a month's end too.
LEMMA TickStep == ASSUME IInv, TypeOK', Tick PROVE IInv'
<1>0. /\ TypeOK /\ UNCHANGED <<runs, capLock, pc, event, cap, at>>
      /\ month \in Nat /\ month' \in {month, month + 1}
  BY RunDispatchConstants DEF Tick, settings, calls, IInv, TypeOK
<1>1. LockHeld' /\ RunsDone' /\ RunsFinite'
  BY <1>0 DEF IInv, LockHeld, RunsDone, RunsFinite
<1>2. StampsPast'
  <2>1. \A r \in runs : r.at.month \in Nat
    BY <1>0 DEF TypeOK, Run, Stamps
  <2>2. \A d \in Dispatchers : at[d].month \in Nat
    BY <1>0 DEF TypeOK, Stamps
  <2> QED BY <1>0, <2>1, <2>2 DEF IInv, StampsPast
<1>3. CASE month' = month
  BY <1>0, <1>1, <1>2, <1>3, UsedSame DEF IInv, CommitFits, WithinCap
<1>4. CASE month' # month
  <2>1. /\ \A o \in Orgs : Used(o)' = {}
        /\ \A d \in Dispatchers : Recounted(d)' = {}
    BY <1>0, <1>4, NewMonthEmpty DEF IInv
  <2>2. CommitFits'
    <3>1. Cardinality({}) = 0
      BY FS_EmptySet
    <3>2. \A d \in Dispatchers : 0 <= cap'[d]
      BY <1>0 DEF TypeOK
    <3> QED BY <2>1, <3>1, <3>2 DEF CommitFits
  <2>3. WithinCap'
    BY <2>1 DEF WithinCap
  <2> QED BY <1>1, <1>2, <2>2, <2>3 DEF IInv
<1> QED BY <1>3, <1>4

\* Every step keeps the invariant.
LEMMA IInvStep == ASSUME IInv, [Next]_vars PROVE IInv'
<1> USE DEF Locked
<1>0. TypeOK /\ TypeOK' /\ StampsPast
  BY TypeStep DEF IInv
<1>1. ASSUME NEW o \in Orgs, PatchConfig(o) \/ ChangePlan(o) PROVE IInv'
  BY <1>0, <1>1, QuietStep DEF PatchConfig, ChangePlan, clock, calls, StampsPast
<1>2. CASE Tick
  BY <1>0, <1>2, TickStep
<1>3. ASSUME NEW d \in Dispatchers,
             Arrive(d) \/ PassGate(d) \/ (Refuse(d) /\ pc[d] = "gates")
      PROVE  IInv'
  BY <1>0, <1>3, QuietStep
     DEF Arrive, PassGate, Refuse, clock, settings, StampsPast, TypeOK
<1>4. ASSUME NEW d \in Dispatchers, Stamp(d) PROVE IInv'
  BY <1>0, <1>4, QuietStep DEF Stamp, clock, settings, StampsPast, TypeOK
<1>5. ASSUME NEW d \in Dispatchers, TakeLock(d) PROVE IInv'
  <2>0. /\ pc[d] = "lock" /\ capLock[event[d].org] = NoOne
        /\ capLock' = [capLock EXCEPT ![event[d].org] = d]
        /\ pc' = [pc EXCEPT ![d] = "recount"]
        /\ UNCHANGED <<month, runs, event, cap, at>>
    BY <1>5 DEF TakeLock, LockFree, clock, settings
  <2>1. LockHeld'
    BY <1>0, <2>0, RunDispatchConstants DEF IInv, LockHeld, TypeOK, Event
  <2>2. StampsPast' /\ RunsDone' /\ RunsFinite'
    BY <1>0, <2>0 DEF IInv, StampsPast, RunsDone, RunsFinite, TypeOK, Run
  <2>3. CommitFits' /\ WithinCap'
    BY <1>0, <2>0, UsedSame DEF IInv, CommitFits, WithinCap, TypeOK
  <2> QED BY <1>0, <2>1, <2>2, <2>3 DEF IInv
<1>6. ASSUME NEW d \in Dispatchers, Recount(d) PROVE IInv'
  <2>0. /\ pc[d] = "recount"
        /\ pc' = [pc EXCEPT ![d] = IF Cardinality(Recounted(d)) > cap[d]
                                   THEN "rollback" ELSE "commit"]
        /\ UNCHANGED <<month, runs, event, cap, at, capLock>>
    BY <1>6 DEF Recount, clock, settings
  <2>1. LockHeld'
    BY <1>0, <2>0 DEF IInv, LockHeld, TypeOK
  <2>2. StampsPast' /\ RunsDone' /\ RunsFinite'
    BY <1>0, <2>0 DEF IInv, StampsPast, RunsDone, RunsFinite, TypeOK, Run
  <2>3. WithinCap' /\ \A e \in Dispatchers : Recounted(e)' = Recounted(e)
    BY <2>0, UsedSame DEF IInv, WithinCap
  <2>4. Cardinality(Recounted(d)) \in Nat /\ cap[d] \in Nat
    <3>1. IsFiniteSet(runs \union {RowOf(d)})
      BY FS_AddElement DEF IInv, RunsFinite
    <3>2. Recounted(d) \subseteq runs \union {RowOf(d)}
      BY DEF Recounted, ThisMonth
    <3>3. IsFiniteSet(Recounted(d))
      BY <3>1, <3>2, FS_Subset
    <3>4. Cardinality(Recounted(d)) \in Nat
      BY <3>3, FS_CardinalityType
    <3> QED BY <3>4, <1>0 DEF TypeOK
  <2>5. CommitFits'
    BY <1>0, <2>0, <2>3, <2>4 DEF IInv, CommitFits, TypeOK
  <2> QED BY <1>0, <2>1, <2>2, <2>3, <2>5 DEF IInv
<1>7. ASSUME NEW d \in Dispatchers, Commit(d) PROVE IInv'
  BY <1>0, <1>7, CommitStep
<1>8. ASSUME NEW d \in Dispatchers, LoseRace(d) \/ TransactionFails(d) PROVE IInv'
  BY <1>0, <1>8, RollbackStep DEF LoseRace, TransactionFails
<1>9. CASE UNCHANGED vars
  BY <1>0, <1>9, QuietStep DEF vars, clock, settings, calls, StampsPast
<1>10. ASSUME NEW d \in Dispatchers, Advance(d) PROVE IInv'
  BY <1>3, <1>4, <1>5, <1>6, <1>7, <1>8, <1>10 DEF Advance, Closed
<1>11. ASSUME NEW d \in Dispatchers, LookupFails(d) PROVE IInv'
  BY <1>3, <1>11 DEF LookupFails
<1> QED BY <1>1, <1>2, <1>3, <1>8, <1>9, <1>10, <1>11 DEF Next

-------------------------------------------------------------------------------
\* The invariant always holds.
THEOREM Invariance == Spec => []IInv
  BY InitIInv, IInvStep, PTL DEF Spec

\* The variables of the dispatch path keep their types: in particular a cap
\* is never negative.
THEOREM TypeCorrect == Spec => []TypeOK
<1>1. IInv => TypeOK BY DEF IInv
<1> QED BY <1>1, Invariance, PTL

\* However many notifications and "Run now" requests are dispatched at once,
\* insert_run's locked recount keeps every org within a cap that one of its
\* dispatchers resolved.
THEOREM MonthlyCap == Spec => []WithinCap
<1>1. IInv => WithinCap BY DEF IInv
<1> QED BY <1>1, Invariance, PTL

-------------------------------------------------------------------------------
\* A call that cannot queue a run while its org's switch is off: it has not begun,
\* was refused, or has still to pass the gate that reads the config.
Barred(d) ==
    \/ pc[d] \in {"idle", "refused"}
    \/ pc[d] = "gates" /\ \E i \in 1 .. Len(todo[d]) : todo[d][i] = "config"

\* Both lists of gates have the gate that reads the config.
LEMMA ConfigIsAGate ==
    /\ \E i \in 1 .. Len(NotificationGates) : NotificationGates[i] = "config"
    /\ \E i \in 1 .. Len(ManualGates) : ManualGates[i] = "config"
<1>1. Len(NotificationGates) = 7 /\ NotificationGates[3] = "config"
  BY DEF NotificationGates
<1>2. Len(ManualGates) = 5 /\ ManualGates[3] = "config"
  BY DEF ManualGates
<1> QED BY <1>1, <1>2

\* The gate that reads the config is shut, and no step goes round it.
LEMMA BarredStays ==
    ASSUME NEW d \in Dispatchers, TypeOK, ~cfg[event[d].org].enabled, Barred(d), [Next]_vars
    PROVE  Barred(d)'
<1>1. CASE UNCHANGED <<pc[d], todo[d]>>
  BY <1>1 DEF Barred
<1>2. CASE Arrive(d)
  <2>1. pc'[d] = "gates" /\ todo'[d] \in {NotificationGates, ManualGates}
    BY <1>2 DEF Arrive, TypeOK
  <2> QED BY <2>1, ConfigIsAGate DEF Barred
<1>3. CASE PassGate(d)
  <2>1. pc[d] = "gates" /\ pc' = pc /\ todo[d] \in Seq(Gates) /\ todo[d] # << >>
    BY <1>3 DEF PassGate, TypeOK
  <2>2. todo'[d] = Tail(todo[d]) /\ Open(d, Head(todo[d]))
    BY <1>3 DEF PassGate, TypeOK
  <2>3. Head(todo[d]) # "config"
    BY <2>2 DEF Open, ConfigAllows
  <2>4. PICK i \in 1 .. Len(todo[d]) : todo[d][i] = "config"
    BY <2>1 DEF Barred
  <2>5. i # 1 /\ Len(todo[d]) \in Nat
    BY <2>1, <2>3, <2>4
  <2>6. i - 1 \in 1 .. Len(Tail(todo[d])) /\ Tail(todo[d])[i - 1] = todo[d][i]
    BY <2>1, <2>4, <2>5
  <2> QED BY <2>1, <2>2, <2>4, <2>6 DEF Barred
<1>4. CASE Closed(d) \/ LookupFails(d)
  BY <1>4 DEF Closed, LookupFails, Refuse, TypeOK, Barred
<1>5. ~Stamp(d)
  BY DEF Stamp, Barred, TypeOK
<1>6. ~TakeLock(d) /\ ~Recount(d) /\ ~Commit(d) /\ ~LoseRace(d) /\ ~TransactionFails(d)
  BY DEF TakeLock, Recount, Commit, LoseRace, TransactionFails, Barred
<1>7. ASSUME NEW e \in Dispatchers, e # d,
             Arrive(e) \/ Advance(e) \/ LookupFails(e) \/ TransactionFails(e)
      PROVE  UNCHANGED <<pc[d], todo[d]>>
  BY <1>7 DEF TypeOK, Arrive, Advance, PassGate, Closed, Refuse, Stamp, TakeLock, Recount,
              Commit, LoseRace, Rollback, LookupFails, TransactionFails
<1>8. ASSUME NEW o \in Orgs, PatchConfig(o) \/ ChangePlan(o) PROVE UNCHANGED <<pc[d], todo[d]>>
  BY <1>8 DEF PatchConfig, ChangePlan, calls
<1>9. Tick \/ UNCHANGED vars => UNCHANGED <<pc[d], todo[d]>>
  BY DEF Tick, vars, calls
<1> QED BY <1>1, <1>2, <1>3, <1>4, <1>5, <1>6, <1>7, <1>8, <1>9 DEF Next, Advance

\* "Off means off": a call that begins while its org's master switch is off, and
\* finds it off until it ends, queues no run, whichever of its gates are open and
\* whatever other calls do.
THEOREM MasterSwitchHolds == Spec => OffMeansOff
<1>1. ASSUME NEW d \in Dispatchers
      PROVE  Spec => []( pc[d] = "idle" /\ [](~cfg[event[d].org].enabled)
                         => [](pc[d] # "done") )
  <2>1. TypeOK /\ ~cfg[event[d].org].enabled /\ Barred(d) /\ [Next]_vars => Barred(d)'
    BY BarredStays
  <2>2. pc[d] = "idle" => Barred(d)
    BY DEF Barred
  <2>3. Barred(d) => pc[d] # "done"
    BY DEF Barred
  <2> QED BY <2>1, <2>2, <2>3, TypeCorrect, PTL DEF Spec
<1> QED BY <1>1 DEF OffMeansOff

===============================================================================
