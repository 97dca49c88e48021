--------------------------- MODULE AgentDrainProofs ---------------------------
(***************************************************************************)
(* Theorems about the agent's drain, for any number of runs, orgs and      *)
(* slots.                                                                  *)
(*                                                                         *)
(* The slot bounds follow once per_org is known to count exactly the runs  *)
(* in flight.  That a run is tried once per drain rests on the listing     *)
(* window: the ids that finished and failed forget at a listing are no     *)
(* longer pending, because a pending run falls out of the window of the    *)
(* oldest ListLimit only when a row with an older stamp comes in.          *)
(***************************************************************************)
EXTENDS AgentDrain, FiniteSetTheorems, TLAPS

\* Without a drain there is no future and no memory; a listing exists only
\* while a drain goes through it.
Idle ==
    /\ drain.pc = "none" => drain = NoDrain
    /\ drain = NoDrain => InFlight = {} /\ tried = {}
    /\ drain.pc # "start" => listing = {}

\* Only runs that have an org are started.
HaveOrg == \A r \in InFlight : Org[r] \in Orgs

\* The drain knows only runs whose rows have come in.
Existing == \A r \in InFlight \union listing \union tried : row[r] # "absent"

\* The pending rows older than r leave it in the listing's window.
Older(r) == {s \in Pending : s < r}
InWindow(r) == Cardinality(Older(r)) < ListLimit
Windows == \A r \in tried : row[r] = "pending" => InWindow(r)

\* A run this drain has tried, and could meet again, is remembered.
Remembered ==
    \A r \in tried : row[r] = "pending" \/ r \in listing => r \in finished \union failed

IInv ==
    /\ TypeOK /\ Idle /\ HaveOrg /\ Existing /\ Windows /\ Remembered
    /\ SlotBounds /\ PerOrgExact

-------------------------------------------------------------------------------
\* Cardinalities are numbers: every set of runs is finite.
LEMMA RunSets ==
    ASSUME NEW S, S \subseteq Runs
    PROVE  IsFiniteSet(S) /\ Cardinality(S) \in Nat
  BY AgentDrainConstants, FS_Subset, FS_CardinalityType

\* The sets that are counted are sets of runs.
LEMMA Counted ==
    /\ InFlight \subseteq Runs
    /\ \A o \in Orgs : InFlightOf(o) \subseteq Runs
    /\ \A r \in Runs : Older(r) \subseteq Runs
  BY DEF InFlight, InFlightOf, Older, Pending

\* The initial state satisfies the invariant.
LEMMA InitIInv == Init => IInv
<1> SUFFICES ASSUME Init PROVE IInv
  OBVIOUS
<1> USE DEF Init
<1>1. InFlight = {} /\ \A o \in Orgs : InFlightOf(o) = {}
  BY DEF InFlight, InFlightOf
<1>2. TypeOK
  <2>1. perOrg \in [Orgs -> 0..MaxPerOrg] /\ stops \in 0..MaxStops
    BY AgentDrainConstants
  <2> QED BY <2>1 DEF TypeOK, NoDrain
<1>3. Idle /\ HaveOrg /\ Existing /\ Windows /\ Remembered
  BY <1>1 DEF Idle, HaveOrg, Existing, Windows, Remembered, NoDrain
<1>4. SlotBounds /\ PerOrgExact
  BY <1>1, FS_EmptySet, AgentDrainConstants DEF SlotBounds, PerOrgExact
<1> QED BY <1>2, <1>3, <1>4 DEF IInv

\* The end of a drain leaves its counts and sets empty.
LEMMA EndTyped ==
    ASSUME EndDrain
    PROVE  /\ perOrg' \in [Orgs -> 0..MaxPerOrg]
           /\ drain' \in [pc : {"none", "fill", "start", "wait"},
                          by : {"none", "wakeup", "poll"}]
           /\ finished' \subseteq Runs /\ failed' \subseteq Runs /\ tried' \subseteq Runs
<1>1. perOrg' = [o \in Orgs |-> 0] /\ 0 \in 0..MaxPerOrg
  BY AgentDrainConstants DEF EndDrain
<1>2. perOrg' \in [Orgs -> 0..MaxPerOrg]
  BY <1>1
<1> QED BY <1>2 DEF EndDrain, NoDrain

\* Every step keeps the types.
LEMMA TypeStep == ASSUME TypeOK, HaveOrg, [Next]_vars PROVE TypeOK'
<1> USE AgentDrainConstants DEF TypeOK, proc, sets, NoDrain
<1>1. ASSUME NEW r \in Runs, Insert(r) \/ TakenElsewhere(r) PROVE TypeOK'
  BY <1>1 DEF Insert, TakenElsewhere
<1>2. ASSUME NEW r \in Runs, Claim(r) \/ Complete(r) \/ Fail(r) PROVE TypeOK'
  BY <1>2 DEF Claim, Complete, Fail
<1>3. ASSUME NEW r \in Runs, Finish(r) PROVE TypeOK'
  <2>1. Org[r] \in Orgs
    BY <1>3 DEF Finish, HaveOrg, InFlight
  <2>2. perOrg' \in [Orgs -> 0..MaxPerOrg]
    BY <1>3, <2>1 DEF Finish
  <2> QED BY <1>3, <2>2 DEF Finish, Goto
<1>4. CASE Refire \/ LoseWakeup
  BY <1>4 DEF Refire, LoseWakeup
<1>5. CASE Wakeup \/ Poll
  <2>1. PICK by \in {"wakeup", "poll"} : StartDrain(by)
    BY <1>5 DEF Wakeup, Poll
  <2>2. /\ drain' \in [pc : {"none", "fill", "start", "wait"},
                       by : {"none", "wakeup", "poll"}]
        /\ UNCHANGED sets
    BY <2>1 DEF StartDrain
  <2>3. wake' \in BOOLEAN /\ UNCHANGED <<row, server, stops, listing, fut>>
    BY <1>5 DEF Wakeup, Poll
  <2> QED BY <2>2, <2>3
<1>6. CASE SkipFill \/ ListFails \/ EndFill \/ Relist
  <2>1. listing' \in {listing, {}} /\ UNCHANGED <<row, wake, server, stops, fut>>
    BY <1>6 DEF SkipFill, ListFails, EndFill, Relist
  <2>2. \/ EndDrain
        \/ Goto("wait") /\ UNCHANGED sets
        \/ Goto("fill") /\ UNCHANGED sets
    BY <1>6 DEF SkipFill, ListFails, EndFill, Relist, AfterFill
  <2>3. CASE EndDrain
    BY <2>1, <2>3, EndTyped
  <2>4. CASE (Goto("wait") \/ Goto("fill")) /\ UNCHANGED sets
    BY <2>1, <2>4 DEF Goto
  <2> QED BY <2>2, <2>3, <2>4
<1>7. CASE List
  BY <1>7 DEF List, Listed, Pending, Goto
<1>8. ASSUME NEW r \in Runs, Consider(r) PROVE TypeOK'
  <2>1. CASE Fits(r)
    <3>1. Org[r] \in Orgs /\ perOrg[Org[r]] < MaxPerOrg
      BY <2>1 DEF Fits
    <3>2. perOrg' \in [Orgs -> 0..MaxPerOrg]
      BY <1>8, <2>1, <3>1 DEF Consider
    <3> QED BY <1>8, <2>1, <3>2 DEF Consider
  <2>2. CASE ~Fits(r)
    BY <1>8, <2>2 DEF Consider
  <2> QED BY <2>1, <2>2
<1>9. CASE Process
  <2>1. stops' \in 0..MaxStops
    BY <1>9 DEF Process, Signal, Closed, SetStopping, Crash, Boot, Exit, Gone
  <2>2. /\ server' \in {"serving", "signalled", "awaitPoller", "stopping", "down"}
        /\ UNCHANGED <<row, wake>>
    BY <1>9 DEF Process, Signal, Closed, SetStopping, Crash, Boot, Exit, Gone
  <2>3. \/ UNCHANGED <<drain, listing, fut, sets>>
        \/ EndDrain /\ listing' = {} /\ fut' = [r \in Runs |-> "none"]
    BY <1>9 DEF Process, Signal, Closed, SetStopping, Crash, Boot, Exit, Gone
  <2>4. CASE UNCHANGED <<drain, listing, fut, sets>>
    BY <2>1, <2>2, <2>4
  <2>5. CASE EndDrain /\ listing' = {} /\ fut' = [r \in Runs |-> "none"]
    <3>1. fut' \in [Runs -> {"none", "claiming", "working", "ok", "err"}]
      BY <2>5
    <3> QED BY <2>1, <2>2, <2>5, <3>1, EndTyped
  <2> QED BY <2>3, <2>4, <2>5
<1>10. CASE UNCHANGED vars
  BY <1>10 DEF vars
<1> QED BY <1>1, <1>2, <1>3, <1>4, <1>5, <1>6, <1>7, <1>8, <1>9, <1>10
           DEF Next, Future, Fill

\* The same futures, the same counts.
LEMMA SameFlight ==
    ASSUME InFlight' = InFlight
    PROVE  \A o \in Orgs : InFlightOf(o)' = InFlightOf(o)
  BY DEF InFlightOf

\* Fewer pending rows keep every run's place in the window.
LEMMA WindowKept ==
    ASSUME NEW r \in Runs, InWindow(r), Older(r)' \subseteq Older(r)
    PROVE  InWindow(r)'
<1>1. /\ IsFiniteSet(Older(r)) /\ Cardinality(Older(r)) \in Nat
      /\ Cardinality(Older(r)') \in Nat
  BY Counted, RunSets
<1>2. Cardinality(Older(r)') <= Cardinality(Older(r))
  BY <1>1, FS_Subset
<1> QED BY <1>1, <1>2, AgentDrainConstants DEF InWindow

\* A step of a row that leaves the futures, the counts and the memory alone;
\* what is still remembered keeps its place.
LEMMA RowStep ==
    ASSUME IInv, TypeOK', UNCHANGED <<drain, listing, fut, perOrg, finished, failed>>,
           tried' \subseteq tried,
           \A r \in InFlight \union listing \union tried : row'[r] # "absent",
           \A r \in tried' :
              row'[r] = "pending" => row[r] = "pending" /\ Older(r)' \subseteq Older(r)
    PROVE  IInv'
<1>1. InFlight' = InFlight
  BY DEF InFlight
<1>2. Idle' /\ HaveOrg' /\ Existing'
  BY <1>1 DEF IInv, Idle, HaveOrg, Existing
<1>3. Windows'
  <2>1. ASSUME NEW r \in tried', row'[r] = "pending" PROVE InWindow(r)'
    BY <2>1, WindowKept DEF IInv, Windows, TypeOK
  <2> QED BY <2>1 DEF Windows
<1>4. Remembered'
  BY DEF IInv, Remembered
<1>5. SlotBounds' /\ PerOrgExact'
  BY <1>1, SameFlight DEF IInv, SlotBounds, PerOrgExact
<1> QED BY <1>2, <1>3, <1>4, <1>5 DEF IInv

\* A step that leaves the rows and the futures alone.
LEMMA DrainStep ==
    ASSUME IInv, TypeOK', UNCHANGED <<row, fut, perOrg>>, Idle',
           listing' \subseteq listing, tried' \subseteq tried,
           UNCHANGED <<finished, failed>>
    PROVE  IInv'
<1>1. InFlight' = InFlight
  BY DEF InFlight
<1>2. HaveOrg' /\ Existing' /\ Remembered'
  BY <1>1 DEF IInv, HaveOrg, Existing, Remembered
<1>3. Windows'
  BY DEF IInv, Windows, InWindow, Older, Pending
<1>4. SlotBounds' /\ PerOrgExact'
  BY <1>1, SameFlight DEF IInv, SlotBounds, PerOrgExact
<1> QED BY <1>2, <1>3, <1>4 DEF IInv

\* A drain ends with no future in flight and forgets everything.
LEMMA EndStep ==
    ASSUME TypeOK', EndDrain, listing' = {}, InFlight' = {}
    PROVE  IInv'
<1>1. Idle' /\ HaveOrg' /\ Existing' /\ Windows' /\ Remembered'
  BY DEF EndDrain, Idle, HaveOrg, Existing, Windows, Remembered
<1>2. \A o \in Orgs : InFlightOf(o)' = {}
  BY DEF InFlightOf
<1>3. PerOrgExact'
  BY <1>2, FS_EmptySet DEF EndDrain, PerOrgExact
<1>4. SlotBounds'
  BY <1>2, FS_EmptySet, AgentDrainConstants DEF SlotBounds
<1> QED BY <1>1, <1>3, <1>4 DEF IInv

\* One more future: a slot was free, and its org had room.
LEMMA StartStep ==
    ASSUME IInv, TypeOK', NEW r \in Runs, Consider(r), Fits(r)
    PROVE  IInv'
<1> USE AgentDrainConstants
<1>0. /\ TypeOK /\ r \notin InFlight /\ Org[r] \in Orgs /\ perOrg[Org[r]] < MaxPerOrg
      /\ r \in listing /\ drain.pc = "start" /\ SlotFree
      /\ listing' = listing \ {r}
      /\ fut' = [fut EXCEPT ![r] = "claiming"]
      /\ perOrg' = [perOrg EXCEPT ![Org[r]] = @ + 1]
      /\ UNCHANGED <<row, drain, finished, failed, tried>>
  BY DEF IInv, TypeOK, Fits, Consider
<1>1. InFlight' = InFlight \union {r}
  BY <1>0 DEF InFlight, TypeOK
<1>2. drain # NoDrain
  BY <1>0 DEF NoDrain
<1>3. Idle' /\ HaveOrg' /\ Existing'
  BY <1>0, <1>1, <1>2 DEF IInv, Idle, HaveOrg, Existing
<1>4. Windows'
  BY <1>0 DEF IInv, Windows, InWindow, Older, Pending
<1>5. Remembered'
  BY <1>0, <1>1, <1>2 DEF IInv, Remembered
<1>6. /\ Cardinality(InFlight) \in Nat
      /\ Cardinality(InFlight') = Cardinality(InFlight) + 1
  BY <1>0, <1>1, Counted, RunSets, FS_AddElement
<1>7. ASSUME NEW o \in Orgs
      PROVE  /\ Cardinality(InFlightOf(o)) \in Nat
             /\ Cardinality(InFlightOf(o)') =
                  IF o = Org[r] THEN Cardinality(InFlightOf(o)) + 1
                  ELSE Cardinality(InFlightOf(o))
  <2>1. IsFiniteSet(InFlightOf(o)) /\ Cardinality(InFlightOf(o)) \in Nat
    BY Counted, RunSets
  <2>2. CASE o = Org[r]
    <3>1. InFlightOf(o)' = InFlightOf(o) \union {r} /\ r \notin InFlightOf(o)
      BY <1>0, <1>1, <2>2 DEF InFlightOf
    <3> QED BY <2>1, <2>2, <3>1, FS_AddElement
  <2>3. CASE o # Org[r]
    <3>1. InFlightOf(o)' = InFlightOf(o)
      BY <1>1, <2>3 DEF InFlightOf
    <3> QED BY <2>1, <2>3, <3>1
  <2> QED BY <2>2, <2>3
<1>8. \A o \in Orgs : perOrg[o] = Cardinality(InFlightOf(o))
  BY <1>2 DEF IInv, PerOrgExact
<1>9. PerOrgExact'
  BY <1>0, <1>7, <1>8 DEF PerOrgExact, TypeOK
<1>10. SlotBounds'
  <2>1. Cardinality(InFlight') <= MaxConcurrent
    BY <1>0, <1>6 DEF SlotFree
  <2>2. \A o \in Orgs : Cardinality(InFlightOf(o)') <= MaxPerOrg
    BY <1>0, <1>7, <1>8 DEF IInv, SlotBounds
  <2> QED BY <2>1, <2>2 DEF SlotBounds
<1> QED BY <1>3, <1>4, <1>5, <1>9, <1>10 DEF IInv

\* One future less.
LEMMA FinishStep ==
    ASSUME IInv, TypeOK', NEW r \in Runs, Finish(r)
    PROVE  IInv'
<1> USE AgentDrainConstants
<1>0. /\ TypeOK /\ fut[r] \in {"ok", "err"} /\ drain.pc = "wait"
      /\ fut' = [fut EXCEPT ![r] = "none"]
      /\ perOrg' = [perOrg EXCEPT ![Org[r]] = IF @ > 0 THEN @ - 1 ELSE 0]
      /\ finished' = IF fut[r] = "ok" THEN finished \union {r} ELSE finished
      /\ failed' = IF fut[r] = "err" THEN failed \union {r} ELSE failed
      /\ tried' = tried \union ({r} \intersect Listed)
      /\ drain' = [drain EXCEPT !.pc = "fill"]
      /\ UNCHANGED <<row, listing>>
  BY DEF IInv, Finish, Goto
<1>1. InFlight' = InFlight \ {r} /\ r \in InFlight
  BY <1>0 DEF InFlight, TypeOK
<1>2. drain # NoDrain /\ drain' # NoDrain /\ Org[r] \in Orgs /\ drain'.pc = "fill"
  BY <1>0, <1>1 DEF NoDrain, IInv, HaveOrg, TypeOK
<1>3. Idle' /\ HaveOrg' /\ Existing'
  BY <1>0, <1>1, <1>2 DEF IInv, Idle, HaveOrg, Existing
<1>4. Windows'
  <2>1. r \in Listed => InWindow(r)
    BY DEF Listed, InWindow, Older
  <2> QED BY <1>0, <2>1 DEF IInv, Windows, InWindow, Older, Pending
<1>5. Remembered'
  BY <1>0, <1>1, <1>2 DEF IInv, Remembered
<1>6. Cardinality(InFlight') <= Cardinality(InFlight) /\ Cardinality(InFlight) \in Nat
      /\ Cardinality(InFlight') \in Nat
  BY <1>1, Counted, RunSets, FS_Subset
<1>7. ASSUME NEW o \in Orgs
      PROVE  /\ Cardinality(InFlightOf(o)) \in Nat
             /\ Cardinality(InFlightOf(o)') \in Nat
             /\ o = Org[r] => Cardinality(InFlightOf(o)) = Cardinality(InFlightOf(o)') + 1
             /\ o # Org[r] => Cardinality(InFlightOf(o)) = Cardinality(InFlightOf(o)')
  <2>1. /\ IsFiniteSet(InFlightOf(o)) /\ Cardinality(InFlightOf(o)) \in Nat
        /\ Cardinality(InFlightOf(o)') \in Nat
    <3>1. InFlightOf(o)' \subseteq InFlightOf(o)
      BY <1>1 DEF InFlightOf
    <3> QED BY <3>1, Counted, RunSets
  <2>2. CASE o = Org[r]
    <3>1. InFlightOf(o)' = InFlightOf(o) \ {r} /\ r \in InFlightOf(o)
      BY <1>1, <2>2 DEF InFlightOf
    <3>2. Cardinality(InFlightOf(o)') = Cardinality(InFlightOf(o)) - 1
      BY <2>1, <3>1, FS_RemoveElement
    <3> QED BY <2>1, <2>2, <3>2
  <2>3. CASE o # Org[r]
    <3>1. InFlightOf(o)' = InFlightOf(o)
      BY <1>1, <2>3 DEF InFlightOf
    <3> QED BY <2>1, <2>3, <3>1
  <2> QED BY <2>2, <2>3
<1>8. \A o \in Orgs : perOrg[o] = Cardinality(InFlightOf(o))
  BY <1>2 DEF IInv, PerOrgExact
<1>9. PerOrgExact'
  BY <1>0, <1>2, <1>7, <1>8 DEF PerOrgExact, TypeOK
<1>10. SlotBounds'
  BY <1>6, <1>7 DEF IInv, SlotBounds
<1> QED BY <1>3, <1>4, <1>5, <1>9, <1>10 DEF IInv

\* A future moves and stays in flight; its row can only leave pending.
LEMMA FutureStep ==
    ASSUME IInv, TypeOK', NEW r \in Runs, Claim(r) \/ Complete(r) \/ Fail(r)
    PROVE  IInv'
<1>0. /\ TypeOK /\ fut[r] # "none" /\ fut'[r] # "none"
      /\ \A s \in Runs : s # r => fut'[s] = fut[s] /\ row'[s] = row[s]
      /\ row'[r] = row[r] \/ row'[r] \in {"running", "gone"}
      /\ UNCHANGED <<drain, listing, perOrg, finished, failed, tried>>
  BY DEF IInv, Claim, Complete, Fail, sets, TypeOK
<1>1. InFlight' = InFlight
  BY <1>0 DEF InFlight
<1>2. \A s \in Runs : row[s] # "absent" => row'[s] # "absent"
  BY <1>0 DEF IInv, Existing, InFlight
<1>3. Idle' /\ HaveOrg' /\ Existing'
  BY <1>0, <1>1, <1>2, Counted DEF IInv, Idle, HaveOrg, Existing, TypeOK
<1>4. \A s \in Runs : Older(s)' \subseteq Older(s)
  BY <1>0 DEF Older, Pending
<1>5. Windows'
  <2>1. ASSUME NEW s \in tried, row'[s] = "pending" PROVE InWindow(s)'
    <3>1. s \in Runs /\ InWindow(s)
      BY <1>0, <2>1 DEF IInv, Windows, TypeOK
    <3> QED BY <1>4, <3>1, WindowKept
  <2> QED BY <1>0, <2>1 DEF Windows
<1>6. Remembered'
  BY <1>0, <1>1 DEF IInv, Remembered, TypeOK
<1>7. SlotBounds' /\ PerOrgExact'
  BY <1>0, <1>1, SameFlight DEF IInv, SlotBounds, PerOrgExact
<1> QED BY <1>3, <1>5, <1>6, <1>7 DEF IInv

\* A row that comes in stands before only runs the drain then forgets having
\* tried.
LEMMA InsertStep == ASSUME IInv, TypeOK', NEW r \in Runs, Insert(r) PROVE IInv'
<1>0. /\ TypeOK /\ row[r] = "absent"
      /\ row' = [row EXCEPT ![r] = "pending"]
      /\ tried' = {s \in tried : s < r}
      /\ UNCHANGED <<drain, listing, fut, perOrg, finished, failed>>
  BY DEF IInv, Insert
<1>1. r \notin tried /\ \A s \in Runs : row[s] # "absent" => row'[s] # "absent"
  BY <1>0 DEF IInv, Existing, TypeOK
<1>2. ASSUME NEW s \in tried', row'[s] = "pending"
      PROVE  row[s] = "pending" /\ Older(s)' \subseteq Older(s)
  <2>1. s \in Runs /\ s # r /\ s < r /\ ~(r < s)
    BY <1>0, <1>1, AgentDrainConstants DEF TypeOK
  <2> QED BY <1>0, <1>2, <2>1 DEF Older, Pending, TypeOK
<1>3. \A s \in InFlight \union listing \union tried : row'[s] # "absent"
  BY <1>1, Counted DEF IInv, Existing, TypeOK
<1> QED BY <1>0, <1>2, <1>3, RowStep

\* A listing forgets only ids it does not list, and lists nothing the drain
\* has tried without remembering it.
LEMMA ListStep == ASSUME IInv, TypeOK', List PROVE IInv'
<1>0. /\ TypeOK /\ drain.pc = "fill" /\ listing' = Listed
      /\ finished' = finished \intersect Listed
      /\ failed' = failed \intersect Listed
      /\ drain' = [drain EXCEPT !.pc = "start"]
      /\ UNCHANGED <<row, fut, perOrg, tried>>
  BY DEF IInv, List, Goto
<1>1. InFlight' = InFlight /\ drain # NoDrain /\ drain' # NoDrain /\ drain'.pc = "start"
  BY <1>0 DEF InFlight, NoDrain, TypeOK
<1>2. \A r \in Runs : r \in Listed <=> row[r] = "pending" /\ InWindow(r)
  BY DEF Listed, Pending, InWindow, Older
<1>3. Windows'
  BY <1>0 DEF IInv, Windows, InWindow, Older, Pending
<1>4. Remembered'
  <2>1. ASSUME NEW r \in tried, row[r] = "pending" \/ r \in Listed
        PROVE  r \in Listed /\ r \in finished \union failed
    <3>1. r \in Runs /\ row[r] = "pending" /\ InWindow(r)
      BY <1>0, <1>2, <2>1 DEF IInv, Windows, TypeOK
    <3> QED BY <1>2, <3>1 DEF IInv, Remembered
  <2> QED BY <1>0, <2>1 DEF Remembered
<1>5. Idle' /\ HaveOrg' /\ Existing'
  BY <1>0, <1>1, <1>2, Counted DEF IInv, Idle, HaveOrg, Existing, TypeOK, Listed, Pending
<1>6. SlotBounds' /\ PerOrgExact'
  BY <1>0, <1>1, SameFlight DEF IInv, SlotBounds, PerOrgExact
<1> QED BY <1>3, <1>4, <1>5, <1>6 DEF IInv

\* A drain begins with nothing in flight and nothing remembered.
LEMMA BeginStep ==
    ASSUME IInv, TypeOK', NEW by \in {"wakeup", "poll"}, StartDrain(by),
           UNCHANGED <<row, listing, fut>>
    PROVE  IInv'
<1>1. InFlight' = InFlight /\ UNCHANGED <<perOrg, finished, failed, tried>>
  BY DEF InFlight, StartDrain, sets
<1>2. \/ drain' = drain
      \/ drain = NoDrain /\ drain' = [pc |-> "fill", by |-> by]
  BY DEF StartDrain
<1>3. drain' = [pc |-> "fill", by |-> by] => drain'.pc = "fill" /\ drain' # NoDrain
  BY DEF NoDrain
<1>4. drain = NoDrain => listing = {}
  BY DEF IInv, Idle, NoDrain
<1>5. Idle'
  BY <1>1, <1>2, <1>3, <1>4 DEF IInv, Idle
<1> QED BY <1>1, <1>5, DrainStep

\* The end of a fill keeps or ends the drain.
LEMMA AfterFillStep ==
    ASSUME IInv, TypeOK', AfterFill, listing' = {}, drain.pc \in {"fill", "start"},
           UNCHANGED <<row, fut>>
    PROVE  IInv'
<1>0. InFlight' = InFlight /\ drain # NoDrain /\ TypeOK
  BY DEF InFlight, NoDrain, IInv
<1>1. CASE EndDrain /\ InFlight = {}
  BY <1>0, <1>1, EndStep
<1>2. CASE Goto("wait") /\ UNCHANGED sets
  <2>1. drain' = [drain EXCEPT !.pc = "wait"] /\ UNCHANGED <<perOrg, finished, failed, tried>>
    BY <1>2 DEF Goto, sets
  <2>2. drain'.pc = "wait" /\ drain' # NoDrain
    BY <1>0, <2>1 DEF TypeOK, NoDrain
  <2>3. Idle'
    BY <2>2 DEF Idle
  <2> QED BY <2>1, <2>3, DrainStep
<1> QED BY <1>1, <1>2 DEF AfterFill

\* Every step keeps the invariant.
LEMMA IInvStep == ASSUME IInv, [Next]_vars PROVE IInv'
<1>0. TypeOK /\ TypeOK' /\ Idle
  BY TypeStep DEF IInv
<1> USE DEF proc, sets
<1>1. ASSUME NEW r \in Runs, TakenElsewhere(r) PROVE IInv'
  <2>1. /\ row[r] = "pending" /\ row' = [row EXCEPT ![r] = "gone"]
        /\ UNCHANGED <<drain, listing, fut, perOrg, finished, failed, tried>>
    BY <1>1 DEF TakenElsewhere
  <2>2. \A s \in InFlight \union listing \union tried : row'[s] # "absent"
    BY <1>0, <2>1, Counted DEF IInv, Existing, TypeOK
  <2>3. \A s \in tried : row'[s] = "pending" =>
              row[s] = "pending" /\ Older(s)' \subseteq Older(s)
    BY <1>0, <2>1 DEF TypeOK, Older, Pending
  <2> QED BY <1>0, <2>1, <2>2, <2>3, RowStep
<1>2. CASE UNCHANGED <<row, drain, listing, fut, sets>>
  <2>1. Idle'
    BY <1>0, <1>2 DEF Idle, InFlight
  <2> QED BY <1>0, <1>2, <2>1, DrainStep
<1>3. CASE Wakeup \/ Poll
  BY <1>0, <1>3, BeginStep DEF Wakeup, Poll
<1>4. CASE SkipFill \/ ListFails
  BY <1>0, <1>4, AfterFillStep DEF SkipFill, ListFails, Idle
<1>5. CASE EndFill
  BY <1>0, <1>5, AfterFillStep DEF EndFill
<1>6. CASE Relist
  <2>1. /\ drain.pc = "wait" /\ drain' = [drain EXCEPT !.pc = "fill"]
        /\ UNCHANGED <<row, listing, fut, perOrg, finished, failed, tried>>
    BY <1>6 DEF Relist, Goto
  <2>2. drain'.pc = "fill" /\ drain # NoDrain /\ drain' # NoDrain
    BY <1>0, <2>1 DEF TypeOK, NoDrain
  <2>3. Idle'
    BY <1>0, <2>1, <2>2 DEF Idle
  <2> QED BY <1>0, <2>1, <2>3, DrainStep
<1>7. ASSUME NEW r \in Runs, Consider(r), ~Fits(r) PROVE IInv'
  <2>1. /\ drain.pc = "start" /\ listing' = listing \ {r}
        /\ UNCHANGED <<row, drain, fut, perOrg, finished, failed, tried>>
    BY <1>7 DEF Consider
  <2>2. Idle'
    BY <1>0, <2>1 DEF Idle, InFlight
  <2> QED BY <1>0, <2>1, <2>2, DrainStep
<1>8. CASE Gone
  <2>1. InFlight' = {}
    BY <1>8 DEF Gone, InFlight
  <2> QED BY <1>0, <1>8, <2>1, EndStep DEF Gone
<1>9. CASE Process
  BY <1>2, <1>8, <1>9 DEF Process, Signal, Closed, SetStopping, Crash, Boot, Exit
<1>10. ASSUME NEW r \in Runs, Future(r) PROVE IInv'
  BY <1>0, <1>10, FutureStep, FinishStep DEF Future
<1>11. ASSUME NEW r \in Runs, Insert(r) PROVE IInv'
  BY <1>0, <1>11, InsertStep
<1>12. CASE Fill
  BY <1>0, <1>4, <1>5, <1>7, <1>12, ListStep, StartStep DEF Fill
<1>13. CASE Refire \/ LoseWakeup \/ UNCHANGED vars
  BY <1>2, <1>13 DEF Refire, LoseWakeup, vars
<1> QED BY <1>1, <1>3, <1>4, <1>6, <1>9, <1>10, <1>11, <1>12, <1>13 DEF Next

-------------------------------------------------------------------------------
\* The invariant always holds.
THEOREM Invariance == Spec => []IInv
  BY InitIInv, IInvStep, PTL DEF Spec

\* The variables of the agent's process keep their types.
THEOREM TypeCorrect == Spec => []TypeOK
<1>1. IInv => TypeOK BY DEF IInv
<1> QED BY <1>1, Invariance, PTL

\* process_pending_runs never works on more runs than it has slots, nor on
\* more of one org than the org's share.
THEOREM SlotsBounded == Spec => []SlotBounds
<1>1. IInv => SlotBounds BY DEF IInv
<1> QED BY <1>1, Invariance, PTL

\* per_org counts exactly the runs in flight, so it never locks an org out.
THEOREM PerOrgCounts == Spec => []PerOrgExact
<1>1. IInv => PerOrgExact BY DEF IInv
<1> QED BY <1>1, Invariance, PTL

\* A drain starts each run at most once, though the sets that remember the
\* runs it tried are pruned at every listing.
THEOREM TriedOnce == Spec => OneAttemptPerDrain
<1>1. ASSUME IInv, [Next]_vars, NEW r \in Runs, fut[r] = "none", fut'[r] # "none"
      PROVE  r \notin tried
  <2>1. Consider(r) /\ Fits(r)
    <3>1. ASSUME NEW s \in Runs, Future(s) PROVE FALSE
      BY <1>1, <3>1 DEF Future, Claim, Complete, Fail, Finish, IInv, TypeOK
    <3>2. CASE Process
      BY <1>1, <3>2 DEF Process, Signal, Closed, SetStopping, Crash, Boot, Exit, Gone
    <3>3. ASSUME NEW s \in Runs, Consider(s) PROVE s = r /\ Fits(r)
      BY <1>1, <3>3 DEF Consider, IInv, TypeOK
    <3>4. CASE SkipFill \/ List \/ EndFill \/ ListFails \/ Relist
      BY <1>1, <3>4 DEF SkipFill, List, EndFill, ListFails, Relist
    <3>5. CASE Refire \/ LoseWakeup \/ Wakeup \/ Poll \/ UNCHANGED vars
      BY <1>1, <3>5 DEF Refire, LoseWakeup, Wakeup, Poll, vars
    <3>6. ASSUME NEW s \in Runs, Insert(s) \/ TakenElsewhere(s) PROVE FALSE
      BY <1>1, <3>6 DEF Insert, TakenElsewhere
    <3> QED BY <1>1, <3>1, <3>2, <3>3, <3>4, <3>5, <3>6 DEF Next, Fill
  <2>2. r \in listing /\ drain # NoDrain
    BY <2>1 DEF Consider, NoDrain
  <2> QED BY <1>1, <2>1, <2>2 DEF IInv, Remembered, Fits
<1>2. ASSUME IInv, [Next]_vars
      PROVE  [\A r \in Runs : fut[r] = "none" /\ fut'[r] # "none" => r \notin tried]_vars
  BY <1>1, <1>2
<1> QED BY <1>2, Invariance, PTL DEF Spec, OneAttemptPerDrain

===============================================================================
