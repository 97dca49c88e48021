------------------------------ MODULE Readiness ------------------------------
(***************************************************************************)
(* The health endpoints.  /api/health/ready answers from a cache of its    *)
(* last report or runs the probes again: the database and Clerk side by    *)
(* side, then the disk and the mail worker's tick stamp.  Pollers that     *)
(* miss the cache all probe, and each writes its own report when done, so  *)
(* an early reading can be stored late.  /api/health/detailed runs the     *)
(* same probes and leaves the cache alone.                                 *)
(***************************************************************************)
EXTENDS Integers, FiniteSets

CONSTANTS
    Pollers,        \* monitors that may ask at once
    ReadyTTL,       \* READY_CACHE_TTL
    ProbeTime,      \* the longest the two awaited probes take
    StaleAfter,     \* EMAIL_WORKER_STALE_AFTER_SECONDS
    StartGrace,     \* EMAIL_WORKER_STARTUP_GRACE_SECONDS
    WorkEvery,      \* the mail worker's interval, a slow tick included
    MaxDown         \* bound on the parts that are out of order at once

ASSUME HealthAssumption ==
    /\ ReadyTTL \in Nat \ {0} /\ ProbeTime \in Nat
    /\ StaleAfter \in Nat /\ StartGrace \in Nat /\ WorkEvery \in Nat
    /\ WorkEvery <= StaleAfter /\ WorkEvery < StartGrace

\* Times are kept as ages, each up to the age beyond which nothing changes.
VARIABLES
    uptime,         \* since started_at
    configured,     \* the optional probes this install has: Clerk, mail
    down,           \* the parts that are out of order
    tickAge,        \* seconds_since_last_tick
    readyCache,     \* READY_CACHE: the report and its age
    pollers,        \* what each poller is at
    told,           \* the answer just given, beside what it should have been
    downFor,        \* ghost: part -> how long it has been out of order
    upFor           \* ghost: how long nothing has been

healthVars == <<uptime, configured, down, tickAge, readyCache, pollers, told, downFor, upFor>>

Awaited  == {"database", "clerk"}
Optional == {"clerk", "worker"}
Parts    == Awaited \union {"disk", "worker"}
Unticked == -1
Nothing  == [unhealthy |-> FALSE, age |-> -1]
Waiting  == [route |-> "none", took |-> 0, todo |-> {}, hit |-> FALSE, young |-> FALSE]
Untold   == [unhealthy |-> FALSE, overdue |-> FALSE, works |-> FALSE]

\* A cached answer is at most this much older than what it reports.
CacheWindow == ReadyTTL + ProbeTime
\* The worker's silence is an outage once the longer of its limits has passed.
Lag(part) == CASE part # "worker" -> 0
               [] part = "worker" /\ StaleAfter < StartGrace -> StartGrace
               [] OTHER -> StaleAfter + 1

HealthInit ==
    /\ uptime = 0
    /\ configured \in SUBSET Optional
    /\ down = {}
    /\ tickAge = Unticked
    /\ readyCache = Nothing
    /\ pollers = [p \in Pollers |-> Waiting]
    /\ told = Untold
    /\ downFor = [part \in Parts |-> 0] /\ upFor = 0

-----------------------------------------------------------------------------
(* The probes *)

\* probe_email_worker_with: no tick is forgiven in a young process, which is one
\* whose uptime was within the startup grace when the poll began.
WorkerCritical(young) ==
    /\ "worker" \in configured
    /\ IF tickAge = Unticked THEN ~young ELSE tickAge > StaleAfter

\* What a probe run now reports as critical: an unconfigured Clerk is not.
Critical(part) == part \in down /\ (part = "clerk" => part \in configured)

\* rollup: warnings colour the dashboard and never page.
Rollup(critical, warned) ==
    IF critical THEN "unhealthy" ELSE IF warned THEN "degraded" ELSE "healthy"

-----------------------------------------------------------------------------
(* The endpoints *)

\* The parts whose failure concerns this install.
Relevant == (Parts \ Optional) \union configured

\* The answer, beside what has been true for as long as its route allows.
Tell(unhealthy, window) ==
    told' = [unhealthy |-> unhealthy,
             overdue   |-> \E part \in down \cap Relevant : downFor[part] >= Lag(part) + window,
             works     |-> upFor >= window]

\* Mutant: the entry is served in its last second too.
CacheFreshAt_OffByOne(age) == age <= ReadyTTL

\* cache_is_fresh
CacheFreshAt(age) == age < ReadyTTL

\* serve_from_cache: a plain poll is answered from a fresh entry; with nocache,
\* and on /detailed, the probes run.
Poll(p, route) ==
    /\ pollers[p] = Waiting
    /\ IF route = "ready" /\ readyCache # Nothing /\ CacheFreshAt(readyCache.age)
       THEN /\ Tell(readyCache.unhealthy, CacheWindow)
            /\ UNCHANGED pollers
       ELSE /\ pollers' = [pollers EXCEPT ![p] =
                 [route |-> IF route = "detailed" THEN route ELSE "ready",
                  took |-> 0, todo |-> Awaited, hit |-> FALSE,
                  young |-> uptime < StartGrace]]
            /\ told' = Untold
    /\ UNCHANGED <<uptime, configured, down, tickAge, readyCache, downFor, upFor>>

\* One of the two awaited probes answers, in either order.
Probe(p, part) ==
    /\ part \in pollers[p].todo
    /\ pollers' = [pollers EXCEPT ![p].todo = @ \ {part},
                                  ![p].hit = @ \/ Critical(part)]
    /\ told' = Untold
    /\ UNCHANGED <<uptime, configured, down, tickAge, readyCache, downFor, upFor>>

\* run_readiness_probes_with ends with the disk and the tick stamp.
AnyCritical(p) ==
    pollers[p].hit \/ Critical("disk") \/ WorkerCritical(pollers[p].young)

\* health_ready: the report is stored with the time of storing, and answered.
StoreReport(p) ==
    /\ pollers[p].route = "ready" /\ pollers[p].todo = {}
    /\ Tell(AnyCritical(p), ProbeTime + 1)
    /\ readyCache' = [unhealthy |-> AnyCritical(p), age |-> 0]
    /\ pollers' = [pollers EXCEPT ![p] = Waiting]
    /\ UNCHANGED <<uptime, configured, down, tickAge, downFor, upFor>>

\* health_detailed: the same probes, rolled up with the warnings of the licence
\* probe, the viewer backlog and the disk; the queue depth is only shown.
AnswerDetailed(p, warned) ==
    /\ pollers[p].route = "detailed" /\ pollers[p].todo = {}
    /\ Tell(Rollup(AnyCritical(p), warned) = "unhealthy", ProbeTime + 1)
    /\ pollers' = [pollers EXCEPT ![p] = Waiting]
    /\ UNCHANGED <<uptime, configured, down, tickAge, readyCache, downFor, upFor>>

\* The poller hangs up: its report is neither stored nor told.
HangUpPoll(p) ==
    /\ pollers[p] # Waiting
    /\ pollers' = [pollers EXCEPT ![p] = Waiting]
    /\ told' = Untold
    /\ UNCHANGED <<uptime, configured, down, tickAge, readyCache, downFor, upFor>>

-----------------------------------------------------------------------------
(* The system that is probed *)

\* The mail worker's loop stamps its tick.
StampTick ==
    /\ "worker" \in configured \ down
    /\ tickAge' = 0 /\ told' = Untold
    /\ UNCHANGED <<uptime, configured, down, readyCache, pollers, downFor, upFor>>

\* A part fails, or all but a dead worker recover.
FailPart(part) ==
    /\ Cardinality(down) < MaxDown
    /\ part \notin down /\ (part = "worker" => part \in configured)
    /\ down' = down \union {part}
    /\ downFor' = [downFor EXCEPT ![part] = 0]
    /\ upFor' = IF part \in Relevant THEN 0 ELSE upFor
    /\ told' = Untold
    /\ UNCHANGED <<uptime, configured, tickAge, readyCache, pollers>>

RecoverParts ==
    /\ down \ {"worker"} # {}
    /\ down' = down \cap {"worker"}
    /\ downFor' = [part \in Parts |-> IF part \in down' THEN downFor[part] ELSE 0]
    /\ told' = Untold
    /\ UNCHANGED <<uptime, configured, tickAge, readyCache, pollers, upFor>>

\* A restart revives the worker and forgets the stamp and the cached report.
RestartProcess ==
    /\ "worker" \in down
    /\ uptime' = 0
    /\ down' = down \ {"worker"}
    /\ downFor' = [downFor EXCEPT !["worker"] = 0]
    /\ tickAge' = Unticked
    /\ readyCache' = Nothing
    /\ pollers' = [p \in Pollers |-> Waiting]
    /\ told' = Untold
    /\ UNCHANGED <<configured, upFor>>

Aged(age, cap) == IF age < cap THEN age + 1 ELSE cap

\* A second passes.  A probe ends within ProbeTime, and a worker that runs
\* ticks in time.
HealthTick ==
    /\ \A p \in Pollers : pollers[p] # Waiting => pollers[p].took < ProbeTime
    /\ "worker" \in configured \ down =>
         (IF tickAge = Unticked THEN uptime ELSE tickAge) < WorkEvery
    /\ uptime' = Aged(uptime, StartGrace)
    /\ tickAge' = IF tickAge = Unticked THEN tickAge ELSE Aged(tickAge, StaleAfter + 1)
    /\ readyCache' = IF readyCache = Nothing \/ readyCache.age >= ReadyTTL THEN Nothing
                     ELSE [readyCache EXCEPT !.age = @ + 1]
    /\ pollers' = [p \in Pollers |-> IF pollers[p] = Waiting THEN Waiting
                                     ELSE [pollers[p] EXCEPT !.took = @ + 1]]
    /\ downFor' = [part \in Parts |->
         IF part \in down THEN Aged(downFor[part], Lag(part) + CacheWindow) ELSE 0]
    /\ upFor' = IF down \cap Relevant = {} THEN Aged(upFor, CacheWindow) ELSE 0
    /\ told' = Untold
    /\ UNCHANGED <<configured, down>>

HealthNext ==
    \/ \E p \in Pollers :
         \/ \E route \in {"ready", "nocache", "detailed"} : Poll(p, route)
         \/ \E part \in Awaited : Probe(p, part)
         \/ StoreReport(p)
         \/ \E warned \in BOOLEAN : AnswerDetailed(p, warned)
         \/ HangUpPoll(p)
    \/ \E part \in Parts : FailPart(part)
    \/ StampTick \/ RecoverParts \/ RestartProcess \/ HealthTick

HealthSpec == HealthInit /\ [][HealthNext]_healthVars

-----------------------------------------------------------------------------
\* READY_CACHE_TTL, "short enough that a real outage surfaces inside half a
\* minute": a part that has been out of order for the cache's life and one probe
\* is never answered as ready, although pollers that missed the cache together
\* store what they read in any order.
OutageSurfaces == told.overdue => told.unhealthy

\* The converse: once everything this install has works for that long, no poller
\* is told otherwise, by a stale entry, by a warning or by a worker that has
\* only just started.
RecoveryShows == told.works => ~told.unhealthy
=============================================================================
