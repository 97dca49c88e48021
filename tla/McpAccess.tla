----------------------------- MODULE McpAccess -----------------------------
(***************************************************************************)
(* A tool call on the MCP server: the scope gate, the resolver with its    *)
(* two sliding windows, the tool, and the line in the activity tracker.    *)
(* Calls, key creation, revocation, the Sentinel switch and the hourly     *)
(* prune interleave at the awaits.  The home-automation surface, which     *)
(* reads the same key table under another kind, is a call of its own.      *)
(***************************************************************************)
EXTENDS Integers, Sequences, FiniteSets

CONSTANTS
    Clients,      \* concurrent callers
    MinuteLimit,  \* rate_limits(plan).0
    DailyLimit,   \* rate_limits(plan).1
    MinuteSpan,   \* 60 s
    DaySpan,      \* 86400 s
    PruneEvery,   \* PRUNE_INTERVAL
    Customs,      \* tool lists a custom scope may be created with
    MaxTools,     \* bound on the number of calls
    MaxMcpNow     \* bound on the clock

ASSUME McpAssumption ==
    /\ MinuteLimit \in Nat /\ DailyLimit \in Nat
    /\ MinuteSpan \in Nat \ {0} /\ DaySpan \in Nat /\ MinuteSpan =< DaySpan

VARIABLES
    keyRows,    \* mcp_api_keys and sentinel_agent_keys: credential -> row
    sentinel,   \* "on"; "paused" while a manual run still runs; "off"
    mcpCalls,   \* the call each client has in flight
    minutes,    \* Windows.minute
    days,       \* Windows.daily
    lastPrune,  \* Windows.last_prune
    totalCalls, \* the tracker's total, over all orgs
    mcpNow,
    begunCalls, \* calls begun so far
    turnedAway, \* calls the scope gate ended
    admits      \* ghost: when each bucket was admitted

mcpVars == <<keyRows, sentinel, mcpCalls, minutes, days, lastPrune, totalCalls,
             mcpNow, begunCalls, turnedAway, admits>>

\* The tools by what the scopes tell apart.
ReadTools       == {"view"}
AgentWriteTools == {"incident"}
AllTools        == ReadTools \cup AgentWriteTools \cup {"policy"}
HomeTool        == "home"

Creds     == {"mcp", "integration", "scoped", "shared"}
McpOrgs   == {"o1", "o2"}
HomeOrg   == "o1"      \* the org of every stored key
NoOrg     == "no_org"
Buckets   == {"mcp", "agent"}   \* the key's hash, the org's agent bucket

NoRow  == [kind |-> "none", mode |-> "all", tools |-> {}, revoked |-> FALSE]
NoCall == [pc |-> "idle", cred |-> "mcp", tool |-> "view", org |-> NoOrg,
           failed |-> FALSE, late |-> FALSE, name |-> "unnamed"]

McpInit ==
    /\ keyRows = [c \in Creds |->
                    CASE c = "integration" -> [NoRow EXCEPT !.kind = "integration"]
                      [] c = "scoped"      -> [NoRow EXCEPT !.kind = "agent"]
                      [] OTHER             -> NoRow]
    /\ sentinel = "on"
    /\ mcpCalls = [k \in Clients |-> NoCall]
    /\ minutes = [b \in Buckets |-> <<>>] /\ days = [b \in Buckets |-> <<>>]
    /\ lastPrune = 0
    /\ totalCalls = 0 /\ turnedAway = 0
    /\ mcpNow = 0 /\ begunCalls = 0 /\ admits = [b \in Buckets |-> <<>>]

-----------------------------------------------------------------------------
(* Keys *)

\* create_mcp_key: a custom scope names at least one tool and only known ones.
CreateMcpKey(mode, tools) ==
    /\ keyRows["mcp"] = NoRow
    /\ mode = "custom" => tools # {} /\ tools \subseteq AllTools
    /\ keyRows' = [keyRows EXCEPT !["mcp"] =
         [kind |-> "mcp", mode |-> mode, revoked |-> FALSE,
          tools |-> IF mode = "custom" THEN tools ELSE {}]]
    /\ UNCHANGED <<sentinel, mcpCalls, minutes, days, lastPrune, totalCalls,
                   mcpNow, begunCalls, turnedAway, admits>>

\* revoke: the row stays, and is filtered out of every lookup.
Revoke(c) ==
    /\ keyRows[c].kind # "none" /\ ~keyRows[c].revoked
    /\ keyRows' = [keyRows EXCEPT ![c].revoked = TRUE]
    /\ UNCHANGED <<sentinel, mcpCalls, minutes, days, lastPrune, totalCalls,
                   mcpNow, begunCalls, turnedAway, admits>>

\* Mutant: a revoked row is still found.
Live_Any(c, kind) == keyRows[c].kind = kind

\* A row the lookups of one kind can see.
Live(c, kind) == keyRows[c].kind = kind /\ ~keyRows[c].revoked

-----------------------------------------------------------------------------
(* Scopes *)

\* compute_agent_allowed_tools
AgentTools == {t \in AllTools : t \in ReadTools \cup AgentWriteTools}

\* compute_allowed_tools
ComputeAllowed(row) ==
    CASE row.mode = "readonly" -> ReadTools
      [] row.mode = "custom"   -> row.tools \cap AllTools
      [] OTHER                 -> AllTools

\* Whether lookup_allowed recognises the credential, and the set it answers.
Recognised(c) == c = "shared" \/ Live(c, "agent") \/ Live(c, "mcp")
LookupAllowed(c) ==
    IF c = "shared" \/ Live(c, "agent") THEN AgentTools ELSE ComputeAllowed(keyRows[c])

\* A request reaches call_tool, or the home-automation routes.  late: it arrives
\* after its key was revoked.
CallTool(k, c, t, o) ==
    /\ mcpCalls[k].pc = "idle"
    /\ begunCalls < MaxTools
    /\ c = "mcp" => keyRows[c].kind = "mcp"   \* a key is presented once it exists
    /\ c \in {"shared", "scoped"} \/ o = NoOrg   \* only agents send the header
    /\ begunCalls' = IF t = HomeTool THEN begunCalls ELSE begunCalls + 1
    /\ mcpCalls' = [mcpCalls EXCEPT ![k] =
         [NoCall EXCEPT !.pc = IF t = HomeTool THEN "home" ELSE "scope",
                        !.cred = c, !.tool = t, !.org = o, !.late = keyRows[c].revoked]]
    /\ UNCHANGED <<keyRows, sentinel, minutes, days, lastPrune, totalCalls,
                   mcpNow, turnedAway, admits>>

\* The scope gate: a refused call ends here.  A lookup that fails on the
\* database and an unrecognised key both defer to resolve.
ScopeGate(k) ==
    LET call == mcpCalls[k] IN
    /\ call.pc = "scope"
    /\ \E fails \in (IF call.cred = "shared" THEN {FALSE} ELSE BOOLEAN) :
         IF ~fails /\ Recognised(call.cred) /\ call.tool \notin LookupAllowed(call.cred)
         THEN /\ mcpCalls' = [mcpCalls EXCEPT ![k] = NoCall]
              /\ turnedAway' = turnedAway + 1
         ELSE /\ mcpCalls' = [mcpCalls EXCEPT ![k].pc = "resolve", ![k].failed = fails]
              /\ UNCHANGED turnedAway
    /\ UNCHANGED <<keyRows, sentinel, minutes, days, lastPrune, totalCalls,
                   mcpNow, begunCalls, admits>>

-----------------------------------------------------------------------------
(* resolve *)

\* The org a credential acts for: its row's, or for the shared key the one the
\* header names; a scoped key's header may only agree.
ActsFor(c, o) ==
    CASE c = "shared"          -> {o} \ {NoOrg}
      [] Live(c, "agent")      -> IF o \in {NoOrg, HomeOrg} THEN {HomeOrg} ELSE {}
      [] Live(c, "mcp")        -> {HomeOrg}
      [] OTHER                 -> {}

FailWith(k, org) ==
    /\ mcpCalls' = [mcpCalls EXCEPT ![k] = [NoCall EXCEPT !.pc = "log", !.org = org]]
    /\ UNCHANGED <<keyRows, sentinel, minutes, days, lastPrune, totalCalls,
                   mcpNow, begunCalls, turnedAway, admits>>

\* The row read: the credential's org, or the error that is logged under no org.
ReadKey(k) ==
    LET call == mcpCalls[k]
        orgs == ActsFor(call.cred, call.org) IN
    /\ call.pc = "resolve"
    /\ \/ FailWith(k, NoOrg)
       \/ /\ orgs # {}
          /\ \E o \in orgs :
               mcpCalls' = [mcpCalls EXCEPT ![k].pc = "admit", ![k].org = o,
                              ![k].name = IF call.cred = "mcp" THEN "key" ELSE "agent"]
          /\ UNCHANGED <<keyRows, sentinel, minutes, days, lastPrune, totalCalls,
                   mcpNow, begunCalls, turnedAway, admits>>

\* The stamps a check pops off the front: those older than the span.
FrontAged(s, n, span) ==
    /\ \A i \in 1 .. n : s[i] < mcpNow - span
    /\ n < Len(s) => s[n + 1] >= mcpNow - span

\* prune: a key whose daily window has aged out loses both.
Pruned(b) == \A i \in DOMAIN days[b] : days[b][i] < mcpNow - DaySpan

PruneDue == mcpNow - lastPrune >= PruneEvery

\* check_at for bucket b, with the opportunistic prune before it.
Check(k, b) ==
    LET gone == {x \in Buckets : PruneDue /\ Pruned(x)}
        m0   == [x \in Buckets |-> IF x \in gone THEN <<>> ELSE minutes[x]]
        d0   == [x \in Buckets |-> IF x \in gone THEN <<>> ELSE days[x]] IN
    /\ lastPrune' = IF PruneDue THEN mcpNow ELSE lastPrune
    /\ \E old \in 0 .. Len(m0[b]), older \in 0 .. Len(d0[b]) :
         LET m      == SubSeq(m0[b], old + 1, Len(m0[b]))
             d      == SubSeq(d0[b], older + 1, Len(d0[b]))
             passes == Len(m) < MinuteLimit /\ Len(d) < DailyLimit IN
         /\ FrontAged(m0[b], old, MinuteSpan) /\ FrontAged(d0[b], older, DaySpan)
         /\ minutes' = [m0 EXCEPT ![b] = IF passes THEN Append(m, mcpNow) ELSE m]
         /\ days' = [d0 EXCEPT ![b] = IF passes THEN Append(d, mcpNow) ELSE d]
         /\ admits' = IF passes THEN [admits EXCEPT ![b] = Append(@, mcpNow)] ELSE admits
         /\ mcpCalls' = [mcpCalls EXCEPT ![k] =
              IF passes THEN [@ EXCEPT !.pc = "tool"] ELSE [NoCall EXCEPT !.pc = "log"]]

\* resolve_via_agent_key: the switch, with the exemption for a manual run.
AgentMayAct == sentinel \in {"on", "paused"}

\* The gates after the row: the agent's switch, then the windows.
Admit(k) ==
    LET call == mcpCalls[k] IN
    /\ call.pc = "admit"
    /\ IF call.name = "agent" /\ ~(call.org = HomeOrg /\ AgentMayAct)
       THEN FailWith(k, NoOrg)
       ELSE /\ Check(k, IF call.name = "key" THEN "mcp" ELSE "agent")
            /\ UNCHANGED <<keyRows, sentinel, totalCalls, mcpNow, begunCalls,
                   turnedAway>>

-----------------------------------------------------------------------------
(* The tool and its log line *)

\* dispatch: the tool runs for the resolved org, and its call is then logged;
\* a home-automation request answers and is not.
Dispatch(k) ==
    LET call == mcpCalls[k] IN
    /\ call.pc = "tool"
    /\ mcpCalls' = [mcpCalls EXCEPT ![k] =
         IF call.tool = HomeTool THEN NoCall
         ELSE [NoCall EXCEPT !.pc = "log", !.org = call.org]]
    /\ UNCHANGED <<keyRows, sentinel, minutes, days, lastPrune, totalCalls, mcpNow,
                   begunCalls, turnedAway, admits>>

\* log_event: one line, under the lock, for every call that reached resolve.
LogEvent(k) ==
    /\ mcpCalls[k].pc = "log"
    /\ totalCalls' = totalCalls + 1
    /\ mcpCalls' = [mcpCalls EXCEPT ![k] = NoCall]
    /\ UNCHANGED <<keyRows, sentinel, minutes, days, lastPrune, mcpNow,
                   begunCalls, turnedAway, admits>>

\* IntegrationUser: the other surface over the same table, by kind.
IntegrationGate(k) ==
    LET call == mcpCalls[k] IN
    /\ call.pc = "home"
    /\ mcpCalls' = [mcpCalls EXCEPT ![k] =
         IF Live(call.cred, "integration")
         THEN [call EXCEPT !.pc = "tool", !.org = HomeOrg] ELSE NoCall]
    /\ UNCHANGED <<keyRows, sentinel, minutes, days, lastPrune, totalCalls, mcpNow,
                   begunCalls, turnedAway, admits>>

\* The operator's switch; a manual run started while it was on outlives it.
SwitchSentinel ==
    /\ \/ sentinel = "on" /\ sentinel' \in {"paused", "off"}
       \/ sentinel = "paused" /\ sentinel' \in {"on", "off"}
       \/ sentinel = "off" /\ sentinel' = "on"
    /\ UNCHANGED <<keyRows, mcpCalls, minutes, days, lastPrune, totalCalls,
                   mcpNow, begunCalls, turnedAway, admits>>

McpTick ==
    /\ mcpNow < MaxMcpNow
    /\ mcpNow' = mcpNow + 1
    /\ UNCHANGED <<keyRows, sentinel, mcpCalls, minutes, days, lastPrune,
                   totalCalls, begunCalls, turnedAway, admits>>

McpNext ==
    \/ \E mode \in {"all", "readonly", "custom"}, ts \in Customs :
         (mode # "custom" => ts = {}) /\ CreateMcpKey(mode, ts)
    \/ \E c \in Creds : Revoke(c)
    \/ \E k \in Clients, c \in Creds, t \in AllTools \cup {HomeTool}, o \in McpOrgs \cup {NoOrg} :
         CallTool(k, c, t, o)
    \/ \E k \in Clients :
         \/ ScopeGate(k) \/ IntegrationGate(k) \/ ReadKey(k) \/ Admit(k)
         \/ Dispatch(k) \/ LogEvent(k)
    \/ SwitchSentinel
    \/ McpTick

McpSpec == McpInit /\ [][McpNext]_mcpVars

-----------------------------------------------------------------------------
(* What each credential is for. *)
ScopeOf(c) ==
    CASE c \in {"shared", "scoped"} -> AgentTools
      [] c = "mcp"                  -> ComputeAllowed(keyRows[c])
      [] c = "integration"          -> {HomeTool}
      [] OTHER                      -> {}

\* The calls whose tool is about to run.
Running == {mcpCalls[k] : k \in {x \in Clients : mcpCalls[x].pc = "tool"}}

\* A tool runs only for a credential whose scope has it and in the org that
\* credential is bound to; the one exception is a call whose own scope lookup
\* failed on the database (call_tool defers it to resolve).
ScopeHolds ==
    \A r \in Running :
        /\ ~r.failed => r.tool \in ScopeOf(r.cred)
        /\ r.cred = "integration" <=> r.tool = HomeTool
        /\ r.org = HomeOrg

\* A call that arrives after its key was revoked never reaches a tool, even
\* though the scope gate lets an unrecognised key through to resolve.
RevokedStaysOut == \A r \in Running : ~r.late

\* check_at and prune: in no span of a minute or a day does a bucket admit more
\* calls than its limit, whatever the prune dropped in between: a call and the
\* one that comes a limit's worth of calls later are more than the span apart.
CallsWithinLimits ==
    \A b \in Buckets : \A i, j \in DOMAIN admits[b] :
        /\ j >= i + MinuteLimit => admits[b][j] - admits[b][i] > MinuteSpan
        /\ j >= i + DailyLimit => admits[b][j] - admits[b][i] > DaySpan

InFlight == {k \in Clients : mcpCalls[k].pc # "idle" /\ mcpCalls[k].tool # HomeTool}

\* log_event: every call the server took is in flight, was turned away by the
\* scope gate, or is in the tracker's total exactly once, refusals included.
EveryCallCounted ==
    begunCalls = totalCalls + turnedAway
                   + Cardinality(InFlight)

\* activity.rs: exactly one event is logged per tool call.
\* TLC refutes it: a call the scope gate turns away is logged nowhere.
OneEventPerCall ==
    begunCalls = totalCalls + Cardinality(InFlight)
=============================================================================
