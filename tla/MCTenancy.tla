------------------------------- MODULE MCTenancy -------------------------------
(***************************************************************************)
(* TLC instances of the components that decide who may do what, who is     *)
(* told, and how long an org's rows live.  They share no variable, so a    *)
(* behaviour is one component's: focus names it, the others stay in one    *)
(* of their initial states.                                                *)
(***************************************************************************)
EXTENDS AuthCache, RateLimiter, Recipients, Inbox, Incidents, McpAccess,
        AccountErasure, Retention, DataExport, SigningKeys, LocalSession,
        ClerkClaims, ServiceKeys

VARIABLE focus

OneMap == [f \in Facts |-> "nodes"]
RouteWindows == [login |-> 2, admin |-> 3]
CustomScopes == {{}, {"incident"}, {"typo"}}
Statements == <<"motion", "clips">>
FeatureLists == {<<"cameras">>, <<"x", "cameras">>}
PermissionLists ==
    {<<"manage_cameras">>, <<"", "manage_cameras", "view">>, <<"view", "">>}

Components ==
    {"cache", "limiter", "directory", "inbox", "incidents", "mcp", "erasure",
     "retention", "export", "keys", "local", "claims", "service"}

\* The choices among initial states are the moving component's alone.
Only(component, choices, rest) == IF focus = component THEN choices ELSE {rest}

Member == [user |-> "u", org |-> "o", role |-> "member", grants |-> {}]

TenancyInit ==
    /\ focus \in Components
    /\ db \in Only("cache", [Facts -> Answers \union {None}], [f \in Facts |-> None])
    /\ asked \in Only("cache", [Readers -> Facts],
                      [r \in Readers |-> CHOOSE f \in Facts : TRUE])
    /\ store \in Only("limiter", {"memory", "redis", "sliding"}, "memory")
    /\ role \in Only("erasure", [OrgIds -> [Users -> {"none", "member", "admin"}]],
                     [o \in OrgIds |-> [u \in Users |-> "admin"]])
    /\ planRow \in Only("retention", {"paid", "free"}, "free")
    /\ published \in Only("keys", {{k} : k \in Kids}, {CHOOSE k \in Kids : TRUE})
    /\ lastFetch \in Only("keys", {-MinForced, 0}, -MinForced)
    /\ kid \in Only("keys", [Sessions -> Kids], [s \in Sessions |-> CHOOSE k \in Kids : TRUE])
    /\ secret \in Only("local", Secrets, "")
    /\ pastDue \in Only("claims", BOOLEAN, FALSE)
    /\ IF focus = "claims" THEN ClaimsInit
       ELSE /\ membership = Member
            /\ claims = Encoded(Member, "v1", <<"cameras">>, <<"manage_cameras">>)
            /\ verdict = [g \in Gates |-> "unasked"]
    /\ Init /\ LimiterInit /\ DirectoryInit /\ InboxInit /\ IncidentsInit /\ McpInit
    /\ ErasureInit /\ RetentionInit /\ ExportInit /\ KeysInit /\ LocalInit /\ ServiceInit

\* Everything but one component's variables.
Still(component) ==
    /\ UNCHANGED focus
    /\ component # "cache" => UNCHANGED vars
    /\ component # "limiter" => UNCHANGED limiterVars
    /\ component # "directory" => UNCHANGED directoryVars
    /\ component # "inbox" => UNCHANGED inboxVars
    /\ component # "incidents" => UNCHANGED incidentVars
    /\ component # "mcp" => UNCHANGED mcpVars
    /\ component # "erasure" => UNCHANGED erasureVars
    /\ component # "retention" => UNCHANGED retentionVars
    /\ component # "export" => UNCHANGED exportVars
    /\ component # "keys" => UNCHANGED keyVars
    /\ component # "local" => UNCHANGED localVars
    /\ component # "claims" => UNCHANGED claimVars
    /\ component # "service" => UNCHANGED serviceVars

TenancyNext ==
    \/ focus = "cache" /\ Next /\ Still("cache")
    \/ focus = "limiter" /\ LimiterNext /\ Still("limiter")
    \/ focus = "directory" /\ DirectoryNext /\ Still("directory")
    \/ focus = "inbox" /\ InboxNext /\ Still("inbox")
    \/ focus = "incidents" /\ IncidentsNext /\ Still("incidents")
    \/ focus = "mcp" /\ McpNext /\ Still("mcp")
    \/ focus = "erasure" /\ ErasureNext /\ Still("erasure")
    \/ focus = "retention" /\ RetentionNext /\ Still("retention")
    \/ focus = "export" /\ ExportNext /\ Still("export")
    \/ focus = "keys" /\ KeysNext /\ Still("keys")
    \/ focus = "local" /\ LocalNext /\ Still("local")
    \/ focus = "claims" /\ ClaimsNext /\ Still("claims")
    \/ focus = "service" /\ ServiceNext /\ Still("service")

===============================================================================
