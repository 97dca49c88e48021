-------------------------------- MODULE MCFleet --------------------------------
(***************************************************************************)
(* TLC instances of the components that follow a CameraNode and its org:   *)
(* the command sockets, the stored plan, the nodes' rows and the settings  *)
(* a node and its row share.  They share no variable, so a behaviour is    *)
(* one component's: focus names it, the others stay as they started.       *)
(***************************************************************************)
EXTENDS NodeSocket, OrgPlan, NodeRegistry, NodeSettings

VARIABLE focus

FleetInit ==
    /\ focus \in {"socket", "plan", "registry", "settings"}
    /\ Init /\ PlanInit /\ RegistryInit /\ SettingsInit
    /\ focus # "plan" => live = Free /\ plan = live

FleetNext ==
    /\ UNCHANGED focus
    /\ \/ focus = "socket" /\ Next /\ UNCHANGED <<planVars, registryVars, settingsVars>>
       \/ focus = "plan" /\ PlanNext /\ UNCHANGED <<vars, registryVars, settingsVars>>
       \/ focus = "registry" /\ RegistryNext /\ UNCHANGED <<vars, planVars, settingsVars>>
       \/ focus = "settings" /\ SettingsNext /\ UNCHANGED <<vars, planVars, registryVars>>

fleetVars == <<focus, vars, planVars, registryVars, settingsVars>>

\* The fairness of the component that moves.
FleetSpec ==
    /\ FleetInit /\ [][FleetNext]_fleetVars
    /\ \A c \in Commands :
         /\ WF_vars(focus = "socket" /\ (Enqueue(c) \/ SendFails(c) \/ Timeout(c)))
         /\ WF_vars(focus = "socket" /\ Return(c))
    /\ \A s \in Sockets :
         /\ WF_vars(focus = "socket" /\ queue[s] # <<>> /\ (WriteFrame(s) \/ SocketLost(s)))
         /\ WF_vars(focus = "socket" /\ ChannelClosed(s))
    /\ \A t \in Tasks : WF_planVars(focus = "plan" /\ Statement(t))
    /\ SF_planVars(focus = "plan" /\ \E t \in Hooks : Deliver(t))
    /\ SF_planVars(focus = "plan" /\ \E t \in Passes : Begin(t, <<"select_paid">>))
    /\ SF_planVars(focus = "plan" /\ \E t \in Passes : Begin(t, <<"resolve">>))
    /\ WF_planVars(focus = "plan" /\ Unthrottle)

===============================================================================
