------------------------------- MODULE AuthCache -------------------------------
(***************************************************************************)
(* The live path's auth cache: what the push and viewer routes remember    *)
(* of the database for a few seconds.                                      *)
(*                                                                         *)
(* A fact is what one lookup asks (the node behind a key hash, a node's    *)
(* camera, the node an org's camera is on); its answer is None when the    *)
(* database has no such row.  A reader is one lookup of one request: the   *)
(* cache, and on a miss the generation, the query and the insert.  A       *)
(* writer is one call that changes facts (key rotation, node deletion and  *)
(* decommission, registration, the camera cap, the reset): one or more     *)
(* statements or transactions that commit by themselves, then one          *)
(* invalidation.  Readers and writers run on any number of threads.        *)
(***************************************************************************)
EXTENDS Naturals, FiniteSets

CONSTANTS
    Facts,
    Map,            \* which of the three maps holds the fact
    Maps,
    Answers,
    None,           \* no such row
    Readers,
    Writers,
    MaxEntries,     \* AUTH_CACHE_MAX_ENTRIES
    MaxCommits      \* bound: statements of one writer

ASSUME AuthCacheConstants ==
    /\ Map \in [Facts -> Maps]
    /\ None \notin Answers
    /\ MaxEntries \in Nat
    /\ MaxCommits \in Nat

VARIABLES
    db,         \* the committed answer to each fact
    gen,        \* AUTH_GENERATION
    cacheGen,   \* AuthCache.generation
    entry,      \* the cached answer, None for no entry or an expired one
    rpc, asked, seen, answer,   \* each reader: place, fact, tag, answer
    wpc, left,                  \* each writer: place, statements to go
    owed,       \* history: <<fact, former answer>> committed by the writer
                \* and not invalidated by it
    legit       \* history: what the reader may truthfully answer

reader == <<rpc, asked, seen, answer, legit>>
writer == <<wpc, left, owed>>
cache == <<cacheGen, entry>>
vars == <<db, gen, cache, reader, writer>>

\* The committed answer, and the ones whose change some writer has still to
\* announce.
Current(f) == {db[f]} \union {v \in Answers \union {None} :
                                 \E w \in Writers : <<f, v>> \in owed[w]}

Init ==
    /\ db \in [Facts -> Answers \union {None}]
    /\ gen = 0 /\ cacheGen = 0
    /\ entry = [f \in Facts |-> None]
    /\ rpc = [r \in Readers |-> "idle"]
    /\ asked \in [Readers -> Facts]
    /\ seen = [r \in Readers |-> 0]
    /\ answer = [r \in Readers |-> None]
    /\ legit = [r \in Readers |-> {}]
    /\ wpc = [w \in Writers |-> "idle"]
    /\ left = [w \in Writers |-> 0]
    /\ owed = [w \in Writers |-> {}]

-------------------------------------------------------------------------------
(***************************************************************************)
(* Readers.  Every access to the cache holds its mutex and begins with     *)
(* sync.                                                                   *)
(***************************************************************************)

\* sync: the maps as they are after a generation that moved emptied them.
Synced == IF cacheGen = gen THEN entry ELSE [f \in Facts |-> None]

\* A request arrives and needs one fact.
Ask(r) ==
    /\ rpc[r] = "idle"
    /\ rpc' = [rpc EXCEPT ![r] = "look"]
    /\ legit' = [legit EXCEPT ![r] = Current(asked[r])]
    /\ UNCHANGED <<db, gen, cache, asked, seen, answer, writer>>

\* Mutant: a lookup that forgets to sync.
Look_NoSync(r) ==
    /\ rpc[r] = "look"
    /\ IF entry[asked[r]] # None
       THEN /\ answer' = [answer EXCEPT ![r] = entry[asked[r]]]
            /\ rpc' = [rpc EXCEPT ![r] = "answered"]
       ELSE /\ rpc' = [rpc EXCEPT ![r] = "sample"]
            /\ UNCHANGED answer
    /\ UNCHANGED <<db, gen, cache, asked, seen, legit, writer>>

\* cached_push_node, cached_push_camera, cached_viewable.
Look(r) ==
    /\ rpc[r] = "look"
    /\ cacheGen' = gen
    /\ entry' = Synced
    /\ IF Synced[asked[r]] # None
       THEN /\ answer' = [answer EXCEPT ![r] = Synced[asked[r]]]
            /\ rpc' = [rpc EXCEPT ![r] = "answered"]
       ELSE /\ rpc' = [rpc EXCEPT ![r] = "sample"]
            /\ UNCHANGED answer
    /\ UNCHANGED <<db, gen, asked, seen, legit, writer>>

\* auth_generation, before the query.
Sample(r) ==
    /\ rpc[r] = "sample"
    /\ seen' = [seen EXCEPT ![r] = gen]
    /\ rpc' = [rpc EXCEPT ![r] = "query"]
    /\ UNCHANGED <<db, gen, cache, asked, answer, legit, writer>>

\* The SELECT.  A negative answer is refused and never cached.
Query(r) ==
    /\ rpc[r] = "query"
    /\ answer' = [answer EXCEPT ![r] = db[asked[r]]]
    /\ rpc' = [rpc EXCEPT ![r] = IF db[asked[r]] = None THEN "answered" ELSE "put"]
    /\ UNCHANGED <<db, gen, cache, asked, seen, legit, writer>>

\* The SELECT fails: the request ends with a 500.
QueryFails(r) ==
    /\ rpc[r] = "query"
    /\ rpc' = [rpc EXCEPT ![r] = "failed"]
    /\ UNCHANGED <<db, gen, cache, asked, seen, answer, legit, writer>>

\* Entries of the map that fact f belongs to.
Peers(f) == {g \in Facts : Map[g] = Map[f]}
Full(f) == Cardinality({g \in Peers(f) : Synced[g] # None}) >= MaxEntries

\* Mutant: no look at the tag.
Tagged_Never(r) == TRUE

\* put's first test: the answer's tag is the current generation.
Tagged(r) == seen[r] = gen

\* cache_push_node, cache_push_camera, cache_viewable: insert unless the
\* world moved on; a full map is emptied first.
Put(r) ==
    /\ rpc[r] = "put"
    /\ cacheGen' = gen
    /\ entry' = IF Tagged(r)
                THEN [f \in Facts |->
                        IF f = asked[r] THEN answer[r]
                        ELSE IF f \in Peers(asked[r]) /\ Full(asked[r]) THEN None
                        ELSE Synced[f]]
                ELSE Synced
    /\ rpc' = [rpc EXCEPT ![r] = "answered"]
    /\ UNCHANGED <<db, gen, asked, seen, answer, legit, writer>>

\* An entry's few seconds are over.
Expire(f) ==
    /\ entry[f] # None
    /\ entry' = [entry EXCEPT ![f] = None]
    /\ UNCHANGED <<db, gen, cacheGen, reader, writer>>

\* The request's task is free for another.
Rest(r) ==
    /\ rpc[r] \in {"answered", "failed"}
    /\ rpc' = [rpc EXCEPT ![r] = "idle"]
    /\ \E f \in Facts : asked' = [asked EXCEPT ![r] = f]
    /\ legit' = [legit EXCEPT ![r] = {}]
    /\ UNCHANGED <<db, gen, cache, seen, answer, writer>>

-------------------------------------------------------------------------------
(***************************************************************************)
(* Writers.                                                                *)
(***************************************************************************)

\* A write begins: it will commit one to MaxCommits times.
Begin(w) ==
    /\ wpc[w] = "idle"
    /\ wpc' = [wpc EXCEPT ![w] = "writing"]
    /\ \E n \in 1..MaxCommits : left' = [left EXCEPT ![w] = n]
    /\ UNCHANGED <<db, gen, cache, reader, owed>>

\* One statement or transaction commits and changes some facts.
Commit(w) ==
    /\ wpc[w] = "writing" /\ left[w] > 0
    /\ \E new \in [Facts -> Answers \union {None}] :
          /\ db' = new
          /\ owed' = [owed EXCEPT ![w] = @ \union
                        {<<f, db[f]>> : f \in {g \in Facts : new[g] # db[g]}}]
          /\ legit' = [r \in Readers |->
                         IF rpc[r] \in {"look", "sample", "query", "put"}
                         THEN legit[r] \union {new[asked[r]]} ELSE legit[r]]
    /\ left' = [left EXCEPT ![w] = @ - 1]
    /\ UNCHANGED <<gen, cache, rpc, asked, seen, answer, wpc>>

\* invalidate_auth_cache, after the last commit.
Invalidate(w) ==
    /\ wpc[w] = "writing" /\ left[w] = 0
    /\ gen' = gen + 1
    /\ owed' = [owed EXCEPT ![w] = {}]
    /\ wpc' = [wpc EXCEPT ![w] = "done"]
    /\ UNCHANGED <<db, cache, reader, left>>

\* A statement fails, or the answer to a commit is lost, and the call
\* returns early: what has committed stays committed.
Abort(w) ==
    /\ wpc[w] = "writing"
    /\ wpc' = [wpc EXCEPT ![w] = "aborted"]
    /\ UNCHANGED <<db, gen, cache, reader, left, owed>>

-------------------------------------------------------------------------------
Lookup(r) ==
    \/ Ask(r) \/ Look(r) \/ Sample(r) \/ Query(r) \/ QueryFails(r) \/ Put(r)
    \/ Rest(r)

Write(w) == Begin(w) \/ Commit(w) \/ Invalidate(w) \/ Abort(w)

Next ==
    \/ \E r \in Readers : Lookup(r)
    \/ \E f \in Facts : Expire(f)
    \/ \E w \in Writers : Write(w)

Spec == Init /\ [][Next]_vars

-------------------------------------------------------------------------------
(***************************************************************************)
(* Properties.                                                             *)
(***************************************************************************)

\* Every variable has its type, and no tag is from the future.
TypeOK ==
    /\ db \in [Facts -> Answers \union {None}]
    /\ gen \in Nat /\ cacheGen \in 0..gen
    /\ entry \in [Facts -> Answers \union {None}]
    /\ rpc \in [Readers -> {"idle", "look", "sample", "query", "put",
                            "answered", "failed"}]
    /\ asked \in [Readers -> Facts]
    /\ seen \in [Readers -> 0..gen]
    /\ answer \in [Readers -> Answers \union {None}]
    /\ legit \in [Readers -> SUBSET (Answers \union {None})]
    /\ wpc \in [Writers -> {"idle", "writing", "done", "aborted"}]
    /\ left \in [Writers -> 0..MaxCommits]
    /\ owed \in [Writers -> SUBSET (Facts \X (Answers \union {None}))]

\* An entry that a lookup would return is what the database holds, or what
\* it held before a change whose writer has not invalidated yet: a lookup
\* that raced a rotation cannot put the old key back.
CacheFresh ==
    cacheGen = gen => \A f \in Facts : entry[f] # None => entry[f] \in Current(f)

\* No request is answered with a fact that was revoked, and its revocation
\* announced, before the request began: the answer was committed at some
\* moment of the request, or its change was still to be announced when the
\* request began.
AnswersLegit ==
    \A r \in Readers : rpc[r] = "answered" => answer[r] \in legit[r]

\* hls.rs:145: "Every write that changes a cached fact calls
\* invalidate_auth_cache AFTER it commits".  Stated as what a request can
\* see: an entry that differs from the database belongs to a write that is
\* still on its way to its invalidation.
\* TLC refutes it: a writer that fails between its commits returns without
\* invalidating.
StaleOnlyDuringWrite ==
    cacheGen = gen =>
        \A f \in Facts : entry[f] \notin {None, db[f]} =>
            \E w \in Writers : wpc[w] = "writing" /\ <<f, entry[f]>> \in owed[w]

===============================================================================
