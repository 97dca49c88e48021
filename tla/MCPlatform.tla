------------------------------- MODULE MCPlatform -------------------------------
(***************************************************************************)
(* TLC instances of the components that carry video, presence and alerts,  *)
(* of the self-hosted install's licence and mirror, and of one run inside  *)
(* the agent.  They share no variable, so a behaviour is one component's:  *)
(* focus names it, the others stay in one of their initial states.         *)
(***************************************************************************)
EXTENDS ViewerUsage, Presence, Broadcaster, LiveCache, MotionAlerts, CameraCap,
        Recording, DiskAlerts, Licence, CloudMirror, MirrorRestore, Investigation, Readiness

VARIABLE focus

Members == [v \in Viewers |-> CHOOSE o \in Orgs : TRUE]
NodeCameras == [n1 |-> {"a1"}, n2 |-> {"b1", "b2"}]
PlanCaps == [free |-> 1, pro |-> 2]
MirroredRow(t, i, p, s) == [table |-> t, id |-> i, parent |-> p, sound |-> s]
Mirrored ==
    {MirroredRow("incidents", 1, NoParent, TRUE),
     MirroredRow("incidents", 2, NoParent, FALSE),
     MirroredRow("incident_evidence", 1, 1, TRUE),
     MirroredRow("incident_evidence", 2, 2, TRUE),
     MirroredRow("notifications", 1, NoParent, TRUE),
     MirroredRow("widgets", 1, NoParent, TRUE)}

Components ==
    {"usage", "presence", "streams", "segments", "motion", "cap", "recording",
     "disk", "licence", "mirror", "restore", "run", "health"}

\* The choices among initial states are the moving component's alone.
Only(component, choices, rest) == IF focus = component THEN choices ELSE {rest}

PlatformInit ==
    /\ focus \in Components
    /\ mailMotion \in Only("motion", BOOLEAN, TRUE)
    /\ nominal \in Only("cap", DOMAIN CapOf, "free")
    /\ licensed \in Only("licence", BOOLEAN, TRUE)
    /\ rowAt \in Only("mirror", [RowIds -> {Gone, 0}], [r \in RowIds |-> Gone])
    /\ held \in Only("restore", SUBSET MirrorRows, {})
    /\ here \in Only("restore", [MirrorRows -> {"none", "local"}],
                     [r \in MirrorRows |-> "none"])
    /\ configured \in Only("health", {{"worker"}}, {})
    /\ UsageInit /\ PresenceInit /\ SseInit /\ CacheInit /\ MotionInit /\ CapInit
    /\ RecordingInit /\ DiskInit /\ LicenceInit /\ MirrorInit /\ RestoreInit
    /\ InvestigationInit /\ HealthInit

\* Everything but one component's variables.
Still(component) ==
    /\ UNCHANGED focus
    /\ component # "usage" => UNCHANGED usageVars
    /\ component # "presence" => UNCHANGED presenceVars
    /\ component # "streams" => UNCHANGED sseVars
    /\ component # "segments" => UNCHANGED cacheVars
    /\ component # "motion" => UNCHANGED motionVars
    /\ component # "cap" => UNCHANGED capVars
    /\ component # "recording" => UNCHANGED recordingVars
    /\ component # "disk" => UNCHANGED diskVars
    /\ component # "licence" => UNCHANGED licenceVars
    /\ component # "mirror" => UNCHANGED mirrorVars
    /\ component # "restore" => UNCHANGED restoreVars
    /\ component # "run" => UNCHANGED investigationVars
    /\ component # "health" => UNCHANGED healthVars

PlatformNext ==
    \/ focus = "usage" /\ UsageNext /\ Still("usage")
    \/ focus = "presence" /\ PresenceNext /\ Still("presence")
    \/ focus = "streams" /\ SseNext /\ Still("streams")
    \/ focus = "segments" /\ CacheNext /\ Still("segments")
    \/ focus = "motion" /\ MotionNext /\ Still("motion")
    \/ focus = "cap" /\ CapNext /\ Still("cap")
    \/ focus = "recording" /\ RecordingNext /\ Still("recording")
    \/ focus = "disk" /\ DiskNext /\ Still("disk")
    \/ focus = "licence" /\ LicenceNext /\ Still("licence")
    \/ focus = "mirror" /\ MirrorNext /\ Still("mirror")
    \/ focus = "restore" /\ RestoreNext /\ Still("restore")
    \/ focus = "run" /\ InvestigationNext /\ Still("run")
    \/ focus = "health" /\ HealthNext /\ Still("health")

===============================================================================
