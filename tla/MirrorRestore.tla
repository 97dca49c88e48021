----------------------------- MODULE MirrorRestore -----------------------------
(***************************************************************************)
(* Restoring an install from its cloud mirror                              *)
(* (src/backend-rs/src/bin/restore_from_cloud.rs).                         *)
(*                                                                         *)
(* The tool asks the service which tables it holds, puts referenced tables *)
(* before those that reference them, and writes each mirrored row with a   *)
(* statement of its own: a row that is already here is left alone unless   *)
(* --overwrite, a row the database refuses is counted and stepped over,    *)
(* and the exit code says whether anything was refused.  The service may   *)
(* fail half-way; the operator may run the tool again, with other flags.   *)
(***************************************************************************)
EXTENDS Integers, Sequences, FiniteSets, SequencesExt

CONSTANTS MirrorRows,    \* what the mirror may hold: [table, id, parent, sound]
          MaxRestores

\* The tables of the instance: a referenced one, one that references it, one
\* without references and one this build does not sync.
KnownTables == {"incidents", "incident_evidence", "notifications"}
MirrorTables == KnownTables \cup {"widgets"}
NoParent == 0

ASSUME RestoreAssumption ==
  /\ MaxRestores \in Nat
  /\ \A r \in MirrorRows : r.table \in MirrorTables /\ r.sound \in BOOLEAN

VARIABLES held,        \* the rows the service holds
          here,        \* the local database: what each row is, "none", "local" or "mirror"
          before,      \* the local database as the run found it
          flags,       \* this run's arguments
          plan,        \* rows still to restore, in order
          refused,     \* rows the database refused in this run
          exit,        \* "none" while running
          restores

restoreVars == <<held, here, before, flags, plan, refused, exit, restores>>

AllTables == "all"

\* restore_rank: parents, then children, then the rest.
RestoreRank(t) ==
  IF t = "incidents" THEN 0 ELSE IF t = "incident_evidence" THEN 1 ELSE 2

\* A row's parent is present locally.
ParentHere(r, db) ==
  \/ r.parent = NoParent
  \/ \E p \in MirrorRows : p.table = "incidents" /\ p.id = r.parent /\ db[p] # "none"

RestoreInit ==
  /\ held \in SUBSET MirrorRows
  /\ here \in [MirrorRows -> {"none", "local"}]
  /\ \A r \in MirrorRows : here[r] = "local" => r.sound /\ ParentHere(r, here)
  /\ before = here
  /\ flags = [overwrite |-> FALSE, dry |-> FALSE, table |-> AllTables]
  /\ plan = <<>> /\ refused = {} /\ exit = "0"
  /\ restores = 0

\* run: list the tables in the service's order, keep the wanted and known
\* ones, sort stably by rank, and walk each table's rows.
InOrder(order, r) == CHOOSE i \in 1 .. Len(order) : order[i] = r.table
RowBefore(order, r, q) ==
  LET rank(x) == RestoreRank(x.table) IN
  \/ rank(r) < rank(q)
  \/ rank(r) = rank(q) /\ InOrder(order, r) < InOrder(order, q)
  \/ r.table = q.table /\ r.id < q.id
RestorePlan(order, f) ==
  SetToSortSeq({r \in held : r.table \in KnownTables
                             /\ f.table \in {AllTables, r.table}},
               LAMBDA r, q : RowBefore(order, r, q))

StartRestore(f, order) ==
  /\ exit # "none" /\ restores < MaxRestores
  /\ flags' = f
  /\ before' = here
  /\ plan' = RestorePlan(order, f)
  /\ refused' = {}
  /\ exit' = "none"
  /\ restores' = restores + 1
  /\ UNCHANGED <<held, here>>

\* One row of restore_table: skipped, counted (dry run), written or refused.
RestoreRow ==
  /\ exit = "none" /\ plan # <<>>
  /\ LET r == Head(plan)
         skip == ~flags.overwrite /\ here[r] # "none"
         accepted == r.sound /\ ParentHere(r, here)
     IN /\ here' = IF ~skip /\ ~flags.dry /\ accepted
                      THEN [here EXCEPT ![r] = "mirror"] ELSE here
        /\ refused' = IF ~skip /\ ~flags.dry /\ ~accepted THEN refused \cup {r} ELSE refused
  /\ plan' = Tail(plan)
  /\ UNCHANGED <<held, before, flags, exit, restores>>

\* The service refuses or disappears: the tool stops with what it has done.
ServiceLost ==
  /\ exit = "none"
  /\ exit' = "1" /\ plan' = <<>>
  /\ UNCHANGED <<held, here, before, flags, refused, restores>>

EndRestore ==
  /\ exit = "none" /\ plan = <<>>
  /\ exit' = IF refused # {} THEN "2" ELSE "0"
  /\ UNCHANGED <<held, here, before, flags, plan, refused, restores>>

RunFlags == [overwrite : BOOLEAN, dry : BOOLEAN, table : {AllTables, "incident_evidence"}]

RestoreNext ==
  \/ \E f \in RunFlags, order \in SetToSeqs(KnownTables) : StartRestore(f, order)
  \/ RestoreRow \/ ServiceLost \/ EndRestore

RestoreSpec == RestoreInit /\ [][RestoreNext]_restoreVars

-----------------------------------------------------------------------------

\* "Non-destructive by default": without --overwrite a row that was here stays
\* as it was, and a dry run changes nothing, however far the run got.
LocalRowsKept ==
  \A r \in MirrorRows :
    /\ ~flags.overwrite /\ before[r] # "none" => here[r] = before[r]
    /\ flags.dry => here[r] = before[r]

\* A full run needs no second one: a row is refused only for its own defect or
\* because its parent is neither here nor restorable -- never because the
\* mirror listed the tables the other way round.
RefusedForCause ==
  \A r \in refused :
    flags.table = AllTables /\ r.sound
      => ~\E p \in held : p.table = "incidents" /\ p.id = r.parent /\ p.sound

\* A restore that says 0 brought everything back: no partial run looks clean.
CleanMeansComplete ==
  restores > 0 /\ exit = "0" /\ ~flags.dry /\ flags.table = AllTables
     => \A r \in held : r.table \in KnownTables => here[r] # "none"
==============================================================================
