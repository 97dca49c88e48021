------------------------------ MODULE Broadcaster ------------------------------
(***************************************************************************)
(* One per-org event broadcaster (notifications, motion, Home Assistant):  *)
(* subscribe under the plan's cap, a fan-out that never waits, a bounded   *)
(* queue per stream, and streams that end when they are let go.  Events    *)
(* are numbered in the order they are sent.                                *)
(***************************************************************************)
EXTENDS Naturals, Sequences, FiniteSets

CONSTANTS
    Streams,        \* open responses
    StreamAdmins,         \* the streams of admins
    StreamCap,      \* max_sse_subscribers of the org's plan
    QueueDepth,     \* QUEUE_DEPTH
    MaxEvents       \* bound: events sent

ASSUME BroadcasterConstants ==
    /\ StreamAdmins \subseteq Streams
    /\ StreamCap \in Nat /\ QueueDepth \in Nat \ {0} /\ MaxEvents \in Nat

VARIABLES
    eventLog,       \* the events sent so far: each one's audience
    subscribers,    \* Inner.subscribers of the org
    streamQueue,          \* each stream's channel
    phase,          \* each stream: "none", "open", "ended"
    since,          \* events sent when the stream subscribed
    received        \* what the stream has written to its client

sseVars == <<eventLog, subscribers, streamQueue, phase, since, received>>

SseInit ==
    /\ eventLog = << >>
    /\ subscribers = {}
    /\ streamQueue = [s \in Streams |-> << >>]
    /\ phase = [s \in Streams |-> "none"]
    /\ since = [s \in Streams |-> 0]
    /\ received = [s \in Streams |-> << >>]

\* subscribe: refused at the cap (429).
Subscribe(s) ==
    /\ phase[s] = "none"
    /\ Cardinality(subscribers) < StreamCap
    /\ subscribers' = subscribers \union {s}
    /\ phase' = [phase EXCEPT ![s] = "open"]
    /\ since' = [since EXCEPT ![s] = Len(eventLog)]
    /\ UNCHANGED <<eventLog, streamQueue, received>>

Sees(s, audience) == audience = "all" \/ s \in StreamAdmins

\* Mutant: a stream whose queue is full misses the event and stays.
Notify_KeepsFull(audience) ==
    LET reached == {s \in subscribers : Sees(s, audience)}
        full == {s \in reached : Len(streamQueue[s]) = QueueDepth}
    IN /\ Len(eventLog) < MaxEvents
       /\ eventLog' = Append(eventLog, audience)
       /\ streamQueue' = [s \in Streams |->
                      IF s \in reached \ full
                      THEN Append(streamQueue[s], Len(eventLog) + 1) ELSE streamQueue[s]]
       /\ UNCHANGED <<subscribers, phase, since, received>>

\* notify: an event goes into every queue it may go into that has room; a
\* stream whose queue is full loses its place, and its sender with it.
Notify(audience) ==
    LET reached == {s \in subscribers : Sees(s, audience)}
        full == {s \in reached : Len(streamQueue[s]) = QueueDepth}
    IN /\ Len(eventLog) < MaxEvents
       /\ eventLog' = Append(eventLog, audience)
       /\ streamQueue' = [s \in Streams |->
                      IF s \in reached \ full
                      THEN Append(streamQueue[s], Len(eventLog) + 1) ELSE streamQueue[s]]
       /\ subscribers' = subscribers \ full
       /\ UNCHANGED <<phase, since, received>>

\* recv, and the frame it makes: what is queued first, also for a stream that
\* was let go.
Receive(s) ==
    /\ phase[s] = "open" /\ streamQueue[s] # << >>
    /\ received' = [received EXCEPT ![s] = Append(@, Head(streamQueue[s]))]
    /\ streamQueue' = [streamQueue EXCEPT ![s] = Tail(@)]
    /\ UNCHANGED <<eventLog, subscribers, phase, since>>

\* recv gives None: no sender is left and the queue is empty.
EndStream(s) ==
    /\ phase[s] = "open" /\ streamQueue[s] = << >> /\ s \notin subscribers
    /\ phase' = [phase EXCEPT ![s] = "ended"]
    /\ UNCHANGED <<eventLog, subscribers, streamQueue, since, received>>

\* The client goes away: the subscription is dropped, and unsubscribes.
HangUp(s) ==
    /\ phase[s] = "open"
    /\ phase' = [phase EXCEPT ![s] = "ended"]
    /\ subscribers' = subscribers \ {s}
    /\ streamQueue' = [streamQueue EXCEPT ![s] = << >>]
    /\ UNCHANGED <<eventLog, since, received>>

SseNext ==
    \/ \E s \in Streams :
         Subscribe(s) \/ Receive(s) \/ EndStream(s) \/ HangUp(s)
    \/ \E audience \in {"all", "admin"} : Notify(audience)

SseSpec == SseInit /\ [][SseNext]_sseVars

-------------------------------------------------------------------------------
\* The events a stream was sent while it was subscribed, and those of them it
\* has been given: written to its client, or queued for it.
Owed(s) == {e \in since[s] + 1 .. Len(eventLog) : Sees(s, eventLog[e])}
Given(s) == received[s] \o streamQueue[s]

\* A stream is never silently incomplete.  What a client has been given, with
\* what is queued for it, is in order, with no repetition and nothing for admins
\* only, and has no gap: an event it may see and was not given is later than all
\* it was, and has cost it its place.
NoSilentGap ==
    \A s \in Streams :
        phase[s] = "open" =>
            /\ \A i, j \in DOMAIN Given(s) : i < j => Given(s)[i] < Given(s)[j]
            /\ \A i \in DOMAIN Given(s) : Given(s)[i] \in Owed(s)
            /\ \A e \in Owed(s) :
                 \/ \E i \in DOMAIN Given(s) : Given(s)[i] = e
                 \/ s \notin subscribers /\ \A i \in DOMAIN Given(s) : Given(s)[i] < e

\* The cap bounds the streams of an org that hold a place, and only open ones
\* hold one: no path out of a stream leaks its slot.
SlotsHeldByOpenStreams ==
    /\ subscribers \subseteq {s \in Streams : phase[s] = "open"}
    /\ Cardinality(subscribers) <= StreamCap

===============================================================================
