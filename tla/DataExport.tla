----------------------------- MODULE DataExport -----------------------------
(***************************************************************************)
(* The data export of an organization: one statement per table, no         *)
(* snapshot, while rows come, expire and go.  Parents are listed before    *)
(* their children, and the children are fetched parent by parent; each     *)
(* blob is read by its own statement when the archive is written.  A full  *)
(* reset of the org runs beside it.                                        *)
(***************************************************************************)
EXTENDS Integers, FiniteSets

CONSTANTS
    Parents,      \* incidents (and, the same way, nodes)
    MaxExportEdits

ASSUME ExportAssumption == MaxExportEdits \in Nat

VARIABLES
    incidentRows, \* Parents that exist
    evidence,     \* their evidence: parent -> "none", "blob" or "expired"
    exporter,     \* step, parents listed, evidence rows listed, rows still to write
    archive,      \* what the archive holds
    resetter,     \* the full reset: step
    exportEdits

exportVars == <<incidentRows, evidence, exporter, archive, resetter, exportEdits>>

Idle  == [pc |-> "idle", listed |-> {}, rows |-> {}, todo |-> {}]
Empty == [incidents |-> {}, evidence |-> {}, files |-> {}, named |-> {}, counted |-> 0]

ExportInit ==
    /\ incidentRows = Parents
    /\ evidence = [p \in Parents |-> "blob"]
    /\ exporter = Idle /\ archive = Empty
    /\ resetter = "idle"
    /\ exportEdits = 0

-----------------------------------------------------------------------------
(* The rows change underneath. *)

Edit == exportEdits < MaxExportEdits /\ exportEdits' = exportEdits + 1

FileIncident(p) ==
    /\ Edit /\ p \notin incidentRows
    /\ incidentRows' = incidentRows \cup {p}
    /\ evidence' = [evidence EXCEPT ![p] = "blob"]
    /\ UNCHANGED <<exporter, archive, resetter>>

\* Retention nulls a clip; deleting an incident takes its evidence along.
ExpireBlob(p) ==
    /\ Edit /\ evidence[p] = "blob"
    /\ evidence' = [evidence EXCEPT ![p] = "expired"]
    /\ UNCHANGED <<incidentRows, exporter, archive, resetter>>

DropIncident(p) ==
    /\ Edit /\ p \in incidentRows
    /\ incidentRows' = incidentRows \ {p}
    /\ evidence' = [evidence EXCEPT ![p] = "none"]
    /\ UNCHANGED <<exporter, archive, resetter>>

-----------------------------------------------------------------------------
(* export_org_data and write_archive *)

StartExport ==
    /\ exporter.pc = "idle"
    /\ exporter' = [Idle EXCEPT !.pc = "incidents"]
    /\ archive' = Empty
    /\ UNCHANGED <<incidentRows, evidence, resetter, exportEdits>>

\* SELECT ... FROM incidents WHERE org_id = $1
ListParents ==
    /\ exporter.pc = "incidents"
    /\ exporter' = [exporter EXCEPT !.pc = "evidence", !.listed = incidentRows,
                                    !.todo = incidentRows]
    /\ UNCHANGED <<incidentRows, evidence, archive, resetter, exportEdits>>

\* The evidence of one listed incident; a row with bytes carries its mime type.
ListChildren(p) ==
    /\ exporter.pc = "evidence" /\ p \in exporter.todo
    /\ exporter' = [exporter EXCEPT
         !.todo = @ \ {p},
         !.rows = IF evidence[p] = "none" THEN @ ELSE @ \cup {<<p, evidence[p] = "blob">>}]
    /\ UNCHANGED <<incidentRows, evidence, archive, resetter, exportEdits>>

\* The incidents are written, then each evidence row with its blob.
WriteParents ==
    /\ exporter.pc = "evidence" /\ exporter.todo = {}
    /\ archive' = [archive EXCEPT !.incidents = exporter.listed]
    /\ exporter' = [exporter EXCEPT !.pc = "blobs", !.todo = {r[1] : r \in exporter.rows}]
    /\ UNCHANGED <<incidentRows, evidence, resetter, exportEdits>>

\* The bytes are read again now: gone with their row, the export fails; nulled
\* since, the row is written without a file.
Written(p) ==
    LET withFile == <<p, TRUE>> \in exporter.rows /\ evidence[p] = "blob" IN
    [archive EXCEPT !.evidence = @ \cup {p},
                    !.files    = IF withFile THEN @ \cup {p} ELSE @,
                    !.named    = IF withFile THEN @ \cup {p} ELSE @,
                    !.counted  = IF withFile THEN @ + 1 ELSE @]

WriteBlob(p) ==
    /\ exporter.pc = "blobs" /\ p \in exporter.todo
    /\ IF <<p, TRUE>> \in exporter.rows /\ evidence[p] = "none"
       THEN exporter' = Idle /\ archive' = Empty
       ELSE /\ archive' = Written(p)
            /\ exporter' = [exporter EXCEPT !.todo = @ \ {p}]
    /\ UNCHANGED <<incidentRows, evidence, resetter, exportEdits>>

\* The manifest closes the archive.
FinishExport ==
    /\ exporter.pc = "blobs" /\ exporter.todo = {}
    /\ exporter' = [Idle EXCEPT !.pc = "done"]
    /\ UNCHANGED <<incidentRows, evidence, archive, resetter, exportEdits>>

TakeExport ==
    /\ exporter.pc = "done"
    /\ exporter' = Idle /\ archive' = Empty
    /\ UNCHANGED <<incidentRows, evidence, resetter, exportEdits>>

-----------------------------------------------------------------------------
(* full_reset: the nodes are told, the rows go in one transaction, and only  *)
(* after the commit is the audit row written and success answered.           *)

TellNodes ==
    /\ resetter = "idle" /\ exportEdits < MaxExportEdits
    /\ resetter' = "told"
    /\ UNCHANGED <<incidentRows, evidence, exporter, archive, exportEdits>>

\* delete_org_data and its commit, which may fail as a whole.
CommitReset ==
    /\ resetter = "told"
    /\ \/ /\ resetter' = "erased"
          /\ incidentRows' = {} /\ evidence' = [p \in Parents |-> "none"]
       \/ /\ resetter' = "idle"
          /\ UNCHANGED <<incidentRows, evidence>>
    /\ UNCHANGED <<exporter, archive, exportEdits>>

AnswerReset ==
    /\ resetter = "erased"
    /\ resetter' = "idle"
    /\ UNCHANGED <<incidentRows, evidence, exporter, archive, exportEdits>>

ExportNext ==
    \/ \E p \in Parents :
         \/ FileIncident(p) \/ ExpireBlob(p) \/ DropIncident(p)
         \/ ListChildren(p) \/ WriteBlob(p)
    \/ StartExport \/ ListParents \/ WriteParents \/ FinishExport \/ TakeExport
    \/ TellNodes \/ CommitReset \/ AnswerReset

ExportSpec == ExportInit /\ [][ExportNext]_exportVars

-----------------------------------------------------------------------------
\* write_archive: a finished archive is closed under its references whatever
\* happened to the rows meanwhile: every evidence row's incident is in it, a row
\* names a file exactly when the file is there, and the manifest counts them.
ArchiveClosed ==
    exporter.pc = "done" =>
        /\ archive.evidence \subseteq archive.incidents
        /\ archive.named = archive.files
        /\ archive.counted = Cardinality(archive.files)
=============================================================================
