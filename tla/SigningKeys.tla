------------------------------ MODULE SigningKeys ------------------------------
(***************************************************************************)
(* Verifying a Clerk session against the cached key set                    *)
(* (src/backend-rs/src/auth/jwks.rs, the key lookup of auth.rs).           *)
(*                                                                         *)
(* Clerk rotates its signing keys: it publishes a new one, later it        *)
(* retires an old one, and never publishes a retired one again.  A request *)
(* whose token names a held key is answered at once; a set older than      *)
(* RefreshAfter is refreshed behind the request.  Only an unknown key      *)
(* waits for a fetch, one task at a time under fetch_lock and at most one  *)
(* fetch per MinForced.  A fetch fails, times out, or dies with the        *)
(* request that ran it when the client hangs up.                           *)
(*                                                                         *)
(* Any number of refreshes may be spawned behind stale hits; all but the   *)
(* first find the lock taken, a fresh set or the limit and change nothing, *)
(* so one, "bg", stands for them.                                          *)
(***************************************************************************)
EXTENDS Integers, FiniteSets

CONSTANTS Kids, Sessions, RefreshAfter, MinForced, FetchTimeout, WarmAttempts,
          MaxKeyTime

ASSUME KeysAssumption ==
  /\ FetchTimeout \in Nat /\ MinForced \in Nat \ {0} /\ FetchTimeout <= MinForced
  /\ RefreshAfter \in Nat /\ MinForced <= RefreshAfter
  /\ WarmAttempts \in Nat /\ MaxKeyTime \in Nat
  /\ Sessions \cap {"warm", "bg", "nobody"} = {}

VARIABLES published,   \* the keys Clerk serves now
          since,       \* when each was first served
          retired,     \* keys Clerk has withdrawn
          cached,      \* JwksCache.cached: the key set and its age
          fetcher,     \* the task holding fetch_lock
          lastFetch,   \* the instant inside fetch_lock
          reply,       \* the set Clerk answered with, on its way back
          task,        \* what each task is doing
          kid,         \* the key a session's token names
          keyAnswer,      \* what the session was told
          warmTries, warmAt,
          trouble,     \* when a fetch last failed or was abandoned, or the
                       \* process started on a host that had just booted
          keyTime

keyVars == <<published, since, retired, cached, fetcher, lastFetch, reply, task,
             kid, keyAnswer, warmTries, warmAt, trouble, keyTime>>

Tasks == Sessions \cup {"warm", "bg"}
Nobody == "nobody"
NoSet == [keys |-> {}, at |-> -RefreshAfter]
NoReply == {}

HeldKey(k) == k \in cached.keys

SetFresh(age) == cached # NoSet /\ keyTime - cached.at < age

\* The last fetch is set one limit back, or, where the host has not been up that
\* long (checked_sub), to the start itself.
KeysInit ==
  /\ \E k \in Kids : published = {k} /\ since = [x \in Kids |-> 0]
  /\ retired = {}
  /\ cached = NoSet
  /\ fetcher = Nobody
  /\ lastFetch \in {-MinForced, 0}
  /\ reply = NoReply
  /\ task = [t \in Tasks |-> IF t = "warm" THEN "wait" ELSE "idle"]
  /\ kid \in [Sessions -> Kids]
  /\ keyAnswer = [s \in Sessions |-> "none"]
  /\ warmTries = 1 /\ warmAt = 0
  /\ trouble = lastFetch
  /\ keyTime = 0

\* key_for, up to its first await: a held key answers, a stale one also
\* starts a refresh unless somebody is fetching (try_lock).
AskKey(s, k) ==
  /\ task[s] = "idle"
  /\ kid' = [kid EXCEPT ![s] = k]
  /\ \/ /\ HeldKey(k)
        /\ keyAnswer' = [keyAnswer EXCEPT ![s] = "ok"]
        /\ task' = IF ~SetFresh(RefreshAfter) /\ fetcher = Nobody
                      THEN [task EXCEPT !["bg"] = "wait"] ELSE task
     \/ /\ ~HeldKey(k)
        /\ keyAnswer' = [keyAnswer EXCEPT ![s] = "none"]
        /\ task' = [task EXCEPT ![s] = "wait"]
  /\ UNCHANGED <<published, since, retired, cached, fetcher, lastFetch, reply,
                 warmTries, warmAt, trouble, keyTime>>

\* What the refresh's result means to the task that ran it: a session looks
\* for its key again whatever the result; the warm-up stops, or sleeps past
\* the limit; a background refresh only logs.
After(t, keys, good) ==
  /\ task' = [task EXCEPT ![t] = IF t = "warm" /\ ~good /\ warmTries < WarmAttempts
                                    THEN "wait" ELSE "idle"]
  /\ keyAnswer' = [s \in Sessions |->
                  IF s # t THEN keyAnswer[s]
                  ELSE IF kid[s] \in keys THEN "ok"
                  ELSE IF good THEN "401" ELSE "503"]
  /\ warmTries' = IF t = "warm" /\ ~good THEN warmTries + 1 ELSE warmTries
  /\ warmAt' = IF t = "warm" /\ ~good THEN keyTime + MinForced + 1 ELSE warmAt

\* Mutant: the limit is looked at before the set a waiting task was given.
TakeLock_LimitFirst(t) ==
  /\ task[t] = "wait" /\ fetcher = Nobody
  /\ t = "warm" => keyTime >= warmAt
  /\ \/ /\ keyTime - lastFetch < MinForced
        /\ After(t, cached.keys, FALSE)
        /\ UNCHANGED <<fetcher, lastFetch>>
     \/ /\ keyTime - lastFetch >= MinForced
        /\ fetcher' = t
        /\ lastFetch' = keyTime
        /\ task' = [task EXCEPT ![t] = "fetching"]
        /\ UNCHANGED <<keyAnswer, warmTries, warmAt>>
  /\ UNCHANGED <<published, since, retired, cached, reply, kid, trouble, keyTime>>

\* refresh: a fresh set is taken as it is, a recent attempt refuses a new one.
TakeLock(t) ==
  /\ task[t] = "wait" /\ fetcher = Nobody
  /\ t = "warm" => keyTime >= warmAt
  /\ \/ /\ SetFresh(MinForced)
        /\ After(t, cached.keys, TRUE)
        /\ UNCHANGED <<fetcher, lastFetch>>
     \/ /\ ~SetFresh(MinForced) /\ keyTime - lastFetch < MinForced
        /\ After(t, cached.keys, FALSE)
        /\ UNCHANGED <<fetcher, lastFetch>>
     \/ /\ ~SetFresh(MinForced) /\ keyTime - lastFetch >= MinForced
        /\ fetcher' = t
        /\ lastFetch' = keyTime
        /\ task' = [task EXCEPT ![t] = "fetching"]
        /\ UNCHANGED <<keyAnswer, warmTries, warmAt>>
  /\ UNCHANGED <<published, since, retired, cached, reply, kid, trouble, keyTime>>

\* Clerk answers the fetch with what it serves at that moment (external).
ClerkServes ==
  /\ fetcher # Nobody /\ reply = NoReply
  /\ reply' = published
  /\ UNCHANGED <<published, since, retired, cached, fetcher, lastFetch, task, kid,
                 keyAnswer, warmTries, warmAt, trouble, keyTime>>

\* The parsed set replaces the old one, still under the lock.
StoreSet ==
  /\ fetcher # Nobody /\ reply # NoReply
  /\ cached' = [keys |-> reply, at |-> keyTime]
  /\ After(fetcher, reply, TRUE)
  /\ fetcher' = Nobody /\ reply' = NoReply
  /\ UNCHANGED <<published, since, retired, lastFetch, kid, trouble, keyTime>>

\* A network error, a bad status, an unreadable body or a set without one
\* usable RSA key: the old set stays.
FetchFails ==
  /\ fetcher # Nobody
  /\ After(fetcher, cached.keys, FALSE)
  /\ fetcher' = Nobody /\ reply' = NoReply
  /\ trouble' = keyTime
  /\ UNCHANGED <<published, since, retired, cached, lastFetch, kid, keyTime>>

\* The client hangs up: the handler is dropped where it waits, lock and all.
HangUp(s) ==
  /\ task[s] # "idle"
  /\ task' = [task EXCEPT ![s] = "idle"]
  /\ fetcher' = IF fetcher = s THEN Nobody ELSE fetcher
  /\ reply' = IF fetcher = s THEN NoReply ELSE reply
  /\ trouble' = IF fetcher = s THEN keyTime ELSE trouble
  /\ UNCHANGED <<published, since, retired, cached, lastFetch, kid, keyAnswer,
                 warmTries, warmAt, keyTime>>

\* Clerk's rotation (external): a new key is served, an old one withdrawn.
PublishKey(k) ==
  /\ k \notin published \cup retired
  /\ published' = published \cup {k}
  /\ since' = [since EXCEPT ![k] = keyTime]
  /\ UNCHANGED <<retired, cached, fetcher, lastFetch, reply, task, kid, keyAnswer,
                 warmTries, warmAt, trouble, keyTime>>

RetireKey(k) ==
  /\ k \in published /\ Cardinality(published) > 1
  /\ published' = published \ {k}
  /\ retired' = retired \cup {k}
  /\ UNCHANGED <<since, cached, fetcher, lastFetch, reply, task, kid, keyAnswer,
                 warmTries, warmAt, trouble, keyTime>>

\* Time passes, never past the timeout of the request in flight.
KeyTick ==
  /\ keyTime < MaxKeyTime
  /\ fetcher # Nobody => keyTime - lastFetch < FetchTimeout
  /\ keyTime' = keyTime + 1
  /\ keyAnswer' = [s \in Sessions |-> "none"]
  /\ UNCHANGED <<published, since, retired, cached, fetcher, lastFetch, reply,
                 task, kid, warmTries, warmAt, trouble>>

KeysNext ==
  \/ \E s \in Sessions : HangUp(s) \/ \E k \in Kids : AskKey(s, k)
  \/ \E t \in Tasks : TakeLock(t)
  \/ ClerkServes \/ StoreSet \/ FetchFails
  \/ \E k \in Kids : PublishKey(k) \/ RetireKey(k)
  \/ KeyTick

KeysSpec == KeysInit /\ [][KeysNext]_keyVars

-----------------------------------------------------------------------------

\* An outage signs nobody out: a key leaves the cache only because Clerk
\* withdrew it, whatever fetch fails, is abandoned or answers late
\* (refresh stores only a set with a usable key; key_for serves a stale one).
OnlyClerkRetiresKeys ==
  [][\A k \in cached.keys : k \in cached'.keys \/ k \in retired]_keyVars

\* "Clerk does not know this signing key" (401, which signs the user out) is
\* said of a key Clerk serves only while it is newer than one refresh
\* interval and one request's timeout.
NewKeySoonKnown ==
  \A s \in Sessions :
    keyAnswer[s] = "401" /\ kid[s] \in published
       => keyTime - since[kid[s]] < MinForced + FetchTimeout

\* "Sign-in could not be checked" (503) is never the answer while fetches
\* succeed: a fetch failed or was abandoned within the last interval, or the
\* process started in it on a host too young to stamp an earlier fetch.
RefusalHasACause ==
  \A s \in Sessions :
    keyAnswer[s] = "503" => keyTime - trouble < MinForced
==============================================================================
