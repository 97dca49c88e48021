------------------------------ MODULE RateLimiter ------------------------------
(***************************************************************************)
(* The request limiter, with its two stores, and the limiter of the node   *)
(* sockets.                                                                *)
(*                                                                         *)
(* The store is chosen when the process starts: counters in Redis, where   *)
(* INCR and EXPIRE are two round trips, or counters in memory under one    *)
(* lock.  A route names its limit and window; the bucket is named by the   *)
(* route and by who asks.  The socket limiter keeps a sliding window per   *)
(* node, for its messages and, in a second instance, for its connects; the *)
(* window of the messages is forgotten whenever a socket of the node ends, *)
(* one that a newer socket has replaced included.                          *)
(***************************************************************************)
EXTENDS Integers, Sequences, FiniteSets

CONSTANTS
    Limit,          \* requests a route admits in its window
    Window,         \* the routes' windows
    SweepHorizon,   \* age at which the memory sweep drops a counter
    SweepEvery,     \* MEMORY_SWEEP_EVERY
    SweepAbove,     \* counters before a sweep is considered
    TrustProxy,     \* proxy_headers_trusted
    Callers,        \* requests Redis can be handling at once
    MaxNow,         \* bound: the clock
    MaxAsked        \* bound: requests in a behaviour

Routes == {"login", "admin"}
NoOne == "none"

ASSUME LimiterAssumption ==
    /\ Limit \in Nat /\ Window \in [Routes -> Nat \ {0}]
    /\ SweepHorizon \in Nat /\ \A r \in Routes : Window[r] <= SweepHorizon
    /\ SweepEvery \in Nat /\ SweepAbove \in Nat /\ TrustProxy \in BOOLEAN
    /\ MaxNow \in Nat /\ MaxAsked \in Nat

\* A login carries whatever headers its caller likes; the other route is an
\* admin's, and a member of the same org can call it too.
Requests ==
    [route : {"login"}, key : {NoOne, "k1"}, org : {NoOne, "o1"},
     forwarded : {NoOne, "f1"}, role : {"guest"}]
    \union [route : {"admin"}, key : {NoOne}, org : {"o1"},
            forwarded : {NoOne}, role : {"admin", "member"}]

VARIABLES
    store,          \* "memory", "redis" or "sliding"
    now,
    askedCount,
    counters,       \* bucket -> [count, since]; Redis: since is the expiry
    lastSweep,
    caller,         \* Redis: the bucket a caller has yet to EXPIRE
    times,          \* the socket limiter's window
    limitVerdict,   \* the last answer
    admitted        \* history: when requests of an asker were counted and let
                    \* through; for a node, since its window was last forgotten

limiterVars == <<store, now, askedCount, counters, lastSweep, caller, times,
                 limitVerdict, admitted>>

\* client_ip: the forwarded address counts only behind a trusted proxy.
ClientIp(r) == IF TrustProxy /\ r.forwarded # NoOne THEN r.forwarded ELSE "peer"

\* Whom a route's limit is for: a login's address, and elsewhere the org.
Asker(r) == <<r.route, IF r.route = "login" THEN ClientIp(r) ELSE r.org>>
Askers == {Asker(r) : r \in Requests}
Node == <<"login", "peer">>

Never == -1
NoAnswer == [asker |-> Node, status |-> 0]

LimiterInit ==
    /\ store \in {"memory", "redis", "sliding"}
    /\ now = 0 /\ askedCount = 0 /\ lastSweep = Never
    /\ counters = << >>
    /\ caller = [c \in Callers |-> << >>]
    /\ times = << >>
    /\ limitVerdict = NoAnswer
    /\ admitted = [a \in Askers |-> << >>]

\* Mutant: a login is known by the headers it carries.
TenantKey_ByHeader(r) ==
    CASE r.key # NoOne -> r.key
      [] r.key = NoOne /\ r.org # NoOne -> r.org
      [] OTHER -> ClientIp(r)

\* tenant_key_with: a login is known by its address alone.
TenantKey(r) ==
    CASE r.route = "login" -> ClientIp(r)
      [] r.route # "login" /\ r.key # NoOne -> r.key
      [] r.route # "login" /\ r.key = NoOne /\ r.org # NoOne -> r.org
      [] OTHER -> ClientIp(r)

Bucket(r) == <<r.route, TenantKey(r)>>

\* The handler authenticates before it spends a slot.
Refused(r) == r.route = "admin" /\ r.role # "admin"

Answer(asker, status) ==
    /\ limitVerdict' = [asker |-> asker, status |-> status]
    /\ admitted' = IF status = 200
                   THEN [admitted EXCEPT ![asker] = Append(@, now)] ELSE admitted

AskLimiter == askedCount < MaxAsked /\ askedCount' = askedCount + 1

Forbidden(r) ==
    /\ AskLimiter /\ Refused(r) /\ store # "sliding"
    /\ Answer(Asker(r), 403)
    /\ UNCHANGED <<store, now, counters, lastSweep, caller, times>>

-------------------------------------------------------------------------------
(***************************************************************************)
(* Limiter::check.                                                         *)
(***************************************************************************)
Counter(b) ==
    IF b \in DOMAIN counters THEN counters[b] ELSE [count |-> 0, since |-> now]

PutStamp(b, entry) ==
    [x \in DOMAIN counters \union {b} |-> IF x = b THEN entry ELSE counters[x]]

Keep(f, S) == [x \in S |-> f[x]]

MemoryCheck(r) ==
    LET b     == Bucket(r)
        held  == Counter(b)
        live  == IF now - held.since >= Window[r.route]
                 THEN [count |-> 0, since |-> now] ELSE held
        entry == [live EXCEPT !.count = @ + 1]
        all   == PutStamp(b, entry)
        due   == lastSweep = Never \/ now - lastSweep >= SweepEvery
        sweep == due /\ Cardinality(DOMAIN all) > SweepAbove
    IN /\ store = "memory" /\ AskLimiter /\ ~Refused(r)
       /\ counters' = IF sweep
                      THEN Keep(all, {x \in DOMAIN all : now - all[x].since < SweepHorizon})
                      ELSE all
       /\ lastSweep' = IF sweep THEN now ELSE lastSweep
       /\ Answer(Asker(r), IF entry.count <= Limit THEN 200 ELSE 429)
       /\ UNCHANGED <<store, now, caller, times>>

\* INCR.  A count of one is followed by the EXPIRE.
RedisIncr(c, r) ==
    LET b     == Bucket(r)
        count == (IF b \in DOMAIN counters THEN counters[b].count ELSE 0) + 1
        since == IF b \in DOMAIN counters THEN counters[b].since ELSE Never
    IN /\ store = "redis" /\ caller[c] = << >> /\ AskLimiter /\ ~Refused(r)
       /\ counters' = PutStamp(b, [count |-> count, since |-> since])
       /\ caller' = [caller EXCEPT ![c] = IF count = 1 THEN b ELSE << >>]
       /\ Answer(Asker(r), IF count <= Limit THEN 200 ELSE 429)
       /\ UNCHANGED <<store, now, lastSweep, times>>

RedisExpire(c) ==
    /\ caller[c] # << >>
    /\ counters' = [counters EXCEPT ![caller[c]].since = now + Window[caller[c][1]]]
    /\ caller' = [caller EXCEPT ![c] = << >>]
    /\ UNCHANGED <<store, now, askedCount, lastSweep, times, limitVerdict, admitted>>

\* The EXPIRE fails, or the process dies before it.
RedisExpireLost(c) ==
    /\ caller[c] # << >>
    /\ caller' = [caller EXCEPT ![c] = << >>]
    /\ UNCHANGED <<store, now, askedCount, counters, lastSweep, times, limitVerdict, admitted>>

\* The INCR fails, or its answer does not come and Redis may have counted all
\* the same: the request goes through, past the limit.
RedisDown(r) ==
    LET b     == Bucket(r)
        entry == IF b \in DOMAIN counters THEN [counters[b] EXCEPT !.count = @ + 1]
                 ELSE [count |-> 1, since |-> Never]
    IN /\ store = "redis" /\ AskLimiter /\ ~Refused(r)
       /\ counters' \in {counters, PutStamp(b, entry)}
       /\ limitVerdict' = [asker |-> Asker(r), status |-> 200]
       /\ UNCHANGED <<store, now, lastSweep, caller, times, admitted>>

-------------------------------------------------------------------------------
(***************************************************************************)
(* NodeRateLimiter, for one node, on the route "login"'s window.           *)
(***************************************************************************)
\* The stamps at the front that have aged are dropped.
Allow ==
    /\ store = "sliding" /\ AskLimiter
    /\ \E aged \in 0 .. Len(times) :
         LET kept == SubSeq(times, aged + 1, Len(times))
             ok   == Len(kept) < Limit
         IN /\ \A i \in 1 .. aged : now - times[i] >= Window["login"]
            /\ aged < Len(times) => now - times[aged + 1] < Window["login"]
            /\ times' = IF ok THEN Append(kept, now) ELSE kept
            /\ Answer(Node, IF ok THEN 200 ELSE 429)
    /\ UNCHANGED <<store, now, counters, lastSweep, caller>>

\* The sweep of a request for another node drops a window that has aged out.
SweepWindows ==
    /\ store = "sliding" /\ times # << >>
    /\ lastSweep = Never \/ now - lastSweep >= Window["login"]
    /\ lastSweep' = now
    /\ times' = IF now - times[Len(times)] < Window["login"] THEN times ELSE << >>
    /\ UNCHANGED <<store, now, askedCount, counters, caller, limitVerdict, admitted>>

\* A socket of the node ends.  The connects' limiter is never told to forget.
Forget ==
    /\ store = "sliding"
    /\ times' = << >>
    /\ admitted' = [admitted EXCEPT ![Node] = << >>]
    /\ limitVerdict' = NoAnswer
    /\ UNCHANGED <<store, now, askedCount, counters, lastSweep, caller>>

\* Time passes; Redis drops the keys that expire.
Pass ==
    /\ now < MaxNow
    /\ now' = now + 1
    /\ counters' = IF store = "redis"
                   THEN Keep(counters, {b \in DOMAIN counters :
                               counters[b].since = Never \/ counters[b].since > now + 1})
                   ELSE counters
    /\ limitVerdict' = NoAnswer
    /\ UNCHANGED <<store, askedCount, lastSweep, caller, times, admitted>>

LimiterNext ==
    \/ \E r \in Requests :
         \/ Forbidden(r) \/ MemoryCheck(r) \/ RedisDown(r)
         \/ \E c \in Callers : RedisIncr(c, r)
    \/ \E c \in Callers : RedisExpire(c) \/ RedisExpireLost(c)
    \/ Allow \/ SweepWindows \/ Forget \/ Pass

LimiterSpec == LimiterInit /\ [][LimiterNext]_limiterVars

-------------------------------------------------------------------------------
\* A fixed window can be straddled once and no more: of any twice its limit and
\* one requests of an asker that a route counts and lets through, the last comes a
\* window after the first, whatever headers a login carries, and whatever the sweep
\* drops or Redis forgets.  A node's window slides: between two ends of its sockets
\* (and for its connects always) the limit itself holds.  The requests that go
\* through because Redis fails are outside the bound.
BurstBounded ==
    \A a \in Askers : \A i, j \in DOMAIN admitted[a] :
        j >= i + (IF store = "sliding" THEN Limit ELSE 2 * Limit) =>
            admitted[a][j] - admitted[a][i] >= Window[a[1]]

\* A request is turned away as one too many only after the limit was spent
\* within the window by requests that were let through: refusals by the
\* authentication cost the org nothing.
RefusedOnlyAtLimit ==
    (limitVerdict.status = 429 /\ store # "redis") =>
        LET a == limitVerdict.asker IN
        Cardinality({i \in DOMAIN admitted[a] :
                        now - admitted[a][i] < Window[a[1]]}) >= Limit

\* "A crash between the two would leave a key without a TTL, so the EXPIRE is
\* re-issued whenever the count is at 1": a key that no caller is about to
\* expire has an expiry.
\* TLC refutes it: the count is 1 only once, and the EXPIRE after it is lost.
EveryKeyExpires ==
    (store = "redis" /\ \A c \in Callers : caller[c] = << >>) =>
        \A b \in DOMAIN counters : counters[b].since # Never

===============================================================================
