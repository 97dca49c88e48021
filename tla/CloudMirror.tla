------------------------------ MODULE CloudMirror ------------------------------
(***************************************************************************)
(* The one-way mirror of one table to Sentinel-Sync-Service                *)
(* (src/backend-rs/src/sync.rs, spawn_data_sync in loops.rs).              *)
(*                                                                         *)
(* A cycle pages through the rows past the stored cursor, in the order of  *)
(* the key (timestamp, id), leaves rows younger than Settle for the next   *)
(* cycle, posts a page, and only after the service confirmed it moves the  *)
(* cursor -- two Setting rows, written one after the other and read at the *)
(* next cycle, failures ignored.  Rows are stamped when their statement    *)
(* runs and seen when their transaction commits; one statement may stamp   *)
(* many rows with one time.  A post may be lost on the way or its answer   *)
(* on the way back, and the process may stop anywhere.                     *)
(*                                                                         *)
(* A row's version is its stamp: a row is pushed only once its stamp is    *)
(* too old to be given to another write.                                   *)
(***************************************************************************)
EXTENDS Integers, FiniteSets

CONSTANTS RowIds,        \* primary keys, integers
          BatchSize,     \* BATCH_SIZE
          Settle,        \* SETTLE_SECONDS
          Reconcile,     \* reconcile_deletes of this table
          MaxSyncTime, MaxSyncFaults

ASSUME MirrorAssumption ==
  /\ RowIds \subseteq Nat /\ BatchSize \in Nat \ {0} /\ Settle \in Nat
  /\ Reconcile \in BOOLEAN /\ MaxSyncTime \in Nat /\ MaxSyncFaults \in Nat

VARIABLES rowAt,       \* each row's stamp; Gone when there is no such row
          writing,     \* stamped, not committed: the stamp each open write gave
          cursorAt, cursorId,  \* the two stored halves of the cursor
          push,        \* the cycle in progress
          mirror,      \* what the service holds of each row
          torn,        \* history: the two halves were not stored together, or
                       \* were not read together before the cursor moved on
          syncTime, faults

mirrorVars == <<rowAt, writing, cursorAt, cursorId, push, mirror, torn, syncTime, faults>>

Gone == -1
NoCursor == -1
NoId == -1
NoWrite == -1
IdlePush == [step |-> "idle"]

\* The page key order, and the WHERE clause that starts past a cursor.  An
\* absent id compares as SQL's NULL: no row of that timestamp qualifies.
Before(a, b) == rowAt[a] < rowAt[b] \/ (rowAt[a] = rowAt[b] /\ a < b)
\* Mutant: rows that share the cursor's time are taken as pushed.
Past_NoTie(id, at, lastId) == at = NoCursor \/ rowAt[id] > at

Past(id, at, lastId) ==
  \/ at = NoCursor
  \/ rowAt[id] > at
  \/ rowAt[id] = at /\ lastId # NoId /\ id > lastId

\* Rows written before the cursor column existed compare as the epoch.
MirrorInit ==
  /\ rowAt \in [RowIds -> {Gone, 0}]
  /\ writing = [r \in RowIds |-> NoWrite]
  /\ cursorAt = NoCursor /\ cursorId = NoId
  /\ push = IdlePush
  /\ mirror = [r \in RowIds |-> Gone]
  /\ torn = FALSE
  /\ syncTime = 1 /\ faults = 0

\* A statement inserts or updates rows, all with one stamp; its transaction
\* commits later.
Stamp(rows) ==
  /\ rows # {} /\ \A r \in rows : writing[r] = NoWrite
  /\ writing' = [r \in RowIds |-> IF r \in rows THEN syncTime ELSE writing[r]]
  /\ UNCHANGED <<rowAt, cursorAt, cursorId, push, mirror, torn, syncTime, faults>>

Commit(r) ==
  /\ writing[r] # NoWrite
  /\ rowAt' = [rowAt EXCEPT ![r] = writing[r]]
  /\ writing' = [writing EXCEPT ![r] = NoWrite]
  /\ UNCHANGED <<cursorAt, cursorId, push, mirror, torn, syncTime, faults>>

DeleteRow(r) ==
  /\ rowAt[r] # Gone /\ writing[r] = NoWrite
  /\ rowAt' = [rowAt EXCEPT ![r] = Gone]
  /\ UNCHANGED <<writing, cursorAt, cursorId, push, mirror, torn, syncTime, faults>>

\* push_table: read the cursor, a half that cannot be read as if it were not
\* there (the second alone says nothing), and fix how far this cycle goes.
StartPush ==
  /\ push = IdlePush
  /\ \E at \in {cursorAt, NoCursor}, id \in {cursorId, NoId} :
       push' = [step |-> "page", at |-> at, id |-> IF at = NoCursor THEN NoId ELSE id,
                until |-> syncTime - Settle]
  /\ UNCHANGED <<rowAt, writing, cursorAt, cursorId, mirror, torn, syncTime, faults>>

\* The next page past the cursor in memory: its rows, stamps included, up to
\* the one that fills it or ends the table.
PageRows ==
  {r \in RowIds : rowAt[r] # Gone /\ Past(r, push.at, push.id) /\ rowAt[r] < push.until}
PageUpTo(last) == {r \in PageRows : r = last \/ Before(r, last)}
ReadPage ==
  /\ push.step = "page"
  /\ \/ PageRows = {} /\ push' = IdlePush
     \/ \E last \in PageRows :
          /\ \/ Cardinality(PageUpTo(last)) = BatchSize
             \/ Cardinality(PageUpTo(last)) < BatchSize /\ PageUpTo(last) = PageRows
          /\ push' = [step |-> IF Reconcile THEN "known" ELSE "post",
                      until |-> push.until, at |-> push.at, id |-> push.id, last |-> last,
                      rows |-> [r \in PageUpTo(last) |-> rowAt[r]], known |-> RowIds]
  /\ UNCHANGED <<rowAt, writing, cursorAt, cursorId, mirror, torn, syncTime, faults>>

\* The full id set, read after the page.
ReadKnown ==
  /\ push.step = "known"
  /\ push' = [push EXCEPT !.step = "post", !.known = {r \in RowIds : rowAt[r] # Gone}]
  /\ UNCHANGED <<rowAt, writing, cursorAt, cursorId, mirror, torn, syncTime, faults>>

\* The service stores the rows and drops those it is told are gone (external).
Applied(p) ==
  [r \in RowIds |-> IF r \notin p.known THEN Gone
                    ELSE IF r \in DOMAIN p.rows THEN p.rows[r] ELSE mirror[r]]

PostConfirmed ==
  /\ push.step = "post"
  /\ mirror' = Applied(push)
  /\ push' = [push EXCEPT !.step = "cursor"]
  /\ UNCHANGED <<rowAt, writing, cursorAt, cursorId, torn, syncTime, faults>>

\* A refused, lost or unanswered post ends the table for this cycle; the
\* service may have applied it.
PostFails(applied) ==
  /\ push.step = "post" /\ faults < MaxSyncFaults
  /\ mirror' = IF applied THEN Applied(push) ELSE mirror
  /\ push' = IdlePush
  /\ faults' = faults + 1
  /\ UNCHANGED <<rowAt, writing, cursorAt, cursorId, torn, syncTime>>

\* A push without the second half passes over what is left of the cursor's stamp.
SkipsTies == push.id = NoId /\ push.at # NoCursor

\* The two halves of the cursor, each written with .ok(); a short page ends
\* the table, a full one goes on from the cursor in memory.
WriteCursorAt(succeeds) ==
  /\ push.step = "cursor"
  /\ succeeds \/ faults < MaxSyncFaults
  /\ cursorAt' = IF succeeds THEN push.rows[push.last] ELSE cursorAt
  /\ torn' = (torn \/ ~succeeds \/ SkipsTies)
  /\ faults' = IF succeeds THEN faults ELSE faults + 1
  /\ push' = [push EXCEPT !.step = "id"]
  /\ UNCHANGED <<rowAt, writing, cursorId, mirror, syncTime>>

WriteCursorId(succeeds) ==
  /\ push.step = "id"
  /\ succeeds \/ faults < MaxSyncFaults
  /\ cursorId' = IF succeeds THEN push.last ELSE cursorId
  /\ torn' = (torn \/ ~succeeds)
  /\ faults' = IF succeeds THEN faults ELSE faults + 1
  /\ push' = IF Cardinality(DOMAIN push.rows) < BatchSize THEN IdlePush
             ELSE [step |-> "page", until |-> push.until,
                   at |-> push.rows[push.last], id |-> push.last]
  /\ UNCHANGED <<rowAt, writing, cursorAt, mirror, syncTime>>

\* The process stops; the next one starts from what is stored.
StopPush ==
  /\ push # IdlePush /\ faults < MaxSyncFaults
  /\ push' = IdlePush
  /\ torn' = (torn \/ push.step = "id")
  /\ faults' = faults + 1
  /\ UNCHANGED <<rowAt, writing, cursorAt, cursorId, mirror, syncTime>>

\* Time passes; a transaction commits before its stamp has settled.
SyncTick ==
  /\ syncTime < MaxSyncTime
  /\ \A r \in RowIds : writing[r] # NoWrite => syncTime < writing[r] + Settle
  /\ syncTime' = syncTime + 1
  /\ UNCHANGED <<rowAt, writing, cursorAt, cursorId, push, mirror, torn, faults>>

MirrorNext ==
  \/ \E rows \in SUBSET RowIds : Stamp(rows)
  \/ \E r \in RowIds : Commit(r) \/ DeleteRow(r)
  \/ StartPush \/ ReadPage \/ ReadKnown \/ PostConfirmed \/ StopPush \/ SyncTick
  \/ \E b \in BOOLEAN : PostFails(b) \/ WriteCursorAt(b) \/ WriteCursorId(b)

MirrorSpec == MirrorInit /\ [][MirrorNext]_mirrorVars

-----------------------------------------------------------------------------

\* A row the stored cursor has passed will not be pushed again until it
\* changes: the mirror must hold it as it is.
LeftBehind(r) ==
  /\ rowAt[r] # Gone /\ ~Past(r, cursorAt, cursorId)
  /\ mirror[r] # rowAt[r]

\* No row is lost to the mirror by paging, ties between stamps, late commits,
\* deletions, failed posts, lost answers, a stop, or a first half that cannot be
\* read -- as long as the two halves of the cursor are stored together, and no
\* push went on from the first without the second.
NothingMissed == push = IdlePush /\ ~torn => \A r \in RowIds : ~LeftBehind(r)

\* The same with the halves stored apart, as the code stores them: what
\* push_table's comment calls "data silently missing from the mirror".
NothingMissedEver == push = IdlePush => \A r \in RowIds : ~LeftBehind(r)
==============================================================================
