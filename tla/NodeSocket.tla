------------------------------ MODULE NodeSocket ------------------------------
(***************************************************************************)
(* The CameraNode command channel: the registry of sockets, the receive    *)
(* loop of each socket, and the commands that request handlers send.       *)
(*                                                                         *)
(* A node may connect again while its old socket's loop is still running,  *)
(* so several loops of one node may be alive; the registry names one.  A   *)
(* command registers its pending entry and takes a clone of the socket's   *)
(* sender in one step, then queues its frame, then waits for the answer,   *)
(* all within one deadline; its caller may go away at any await.  Every    *)
(* access to the registry holds its mutex and is one step.  The rate       *)
(* limiters that the handshake and the loop consult are left out.          *)
(***************************************************************************)
EXTENDS Naturals, Sequences, FiniteSets, SequencesExt

CONSTANTS
    Nodes,
    Commands,       \* calls of send_command
    QueueCap,       \* frames a socket's channel holds (32)
    MaxSockets,     \* bound: handshakes
    NoNode

ASSUME NodeSocketConstants ==
    /\ QueueCap \in Nat \ {0}
    /\ MaxSockets \in Nat
    /\ NoNode \notin Nodes

Sockets == 1..MaxSockets

VARIABLES
    conn,       \* connections: the socket registered for each node, or 0
    order,      \* order
    nextId,     \* next_id
    owner,      \* the node of each socket
    loop,       \* the receive loop of each socket
    queue,      \* frames in its channel
    pending,    \* pending: commands with an entry
    cpc,        \* each command's place
    target, via,\* the node and the socket it was sent to
    answered    \* its oneshot channel holds an answer

registry == <<conn, order, nextId>>
sockets == <<owner, loop, queue>>
command == <<cpc, target, via, answered>>
vars == <<registry, sockets, pending, command>>

InFlight == {"sending", "waiting"}
Outcomes == {"answer", "not_connected", "send_failed", "timeout",
             "disconnected", "abandoned"}

Init ==
    /\ conn = [n \in Nodes |-> 0]
    /\ order = <<>>
    /\ nextId = 0
    /\ owner = [s \in Sockets |-> NoNode]
    /\ loop = [s \in Sockets |-> "none"]
    /\ queue = [s \in Sockets |-> <<>>]
    /\ pending = {}
    /\ cpc = [c \in Commands |-> "idle"]
    /\ target = [c \in Commands |-> NoNode]
    /\ via = [c \in Commands |-> 0]
    /\ answered = [c \in Commands |-> FALSE]

-------------------------------------------------------------------------------
(***************************************************************************)
(* Sockets.                                                                *)
(***************************************************************************)

\* Mutant: the replaced socket's commands are left to time out.
CancelOnReplace_Never(n) == pending

\* cancel_pending for node n.
Cancel(n) == {c \in pending : target[c] # n}
CancelOnReplace(n) == IF conn[n] = 0 THEN pending ELSE Cancel(n)

Ordered(n) == IF conn[n] = 0 THEN Append(order, n) ELSE order

\* serve_node registers an authenticated socket, replacing any older one.
Connect(n) ==
    /\ nextId < MaxSockets
    /\ nextId' = nextId + 1
    /\ conn' = [conn EXCEPT ![n] = nextId']
    /\ order' = Ordered(n)
    /\ owner' = [owner EXCEPT ![nextId'] = n]
    /\ loop' = [loop EXCEPT ![nextId'] = "open"]
    /\ pending' = CancelOnReplace(n)
    /\ UNCHANGED <<queue, command>>

\* The loop writes the next queued frame to the socket.
WriteFrame(s) ==
    /\ loop[s] = "open" /\ queue[s] # <<>>
    /\ queue' = [queue EXCEPT ![s] = Tail(@)]
    /\ UNCHANGED <<registry, owner, loop, pending, command>>

Break(s) ==
    /\ loop[s] = "open"
    /\ loop' = [loop EXCEPT ![s] = "ending"]
    /\ UNCHANGED <<registry, owner, queue, pending, command>>

\* The peer closed, or a read or a write failed.
SocketLost(s) == Break(s)

\* Commands that hold a clone of the socket's sender.
Senders(s) == {c \in Commands : cpc[c] \in InFlight /\ via[c] = s}

\* Mutant: the loop keeps a sender of its own.
ChannelClosed_Never(s) == FALSE /\ Break(s)

\* The channel is closed and drained: the socket was replaced.
ChannelClosed(s) ==
    /\ loop[s] = "open" /\ conn[owner[s]] # s
    /\ queue[s] = <<>> /\ Senders(s) = {}
    /\ Break(s)

\* Mutant: a blind removal.
Owns_Blind(n, s) == conn[n] # 0

\* The identity guard.
Owns(n, s) == conn[n] = s

\* disconnect(n, s); done are entries their guard drops at the same time.
Disconnect(n, s, done) ==
    /\ IF Owns(n, s)
       THEN /\ conn' = [conn EXCEPT ![n] = 0]
            /\ order' = Remove(order, n)
            /\ pending' = Cancel(n) \ done
       ELSE UNCHANGED <<conn, order>> /\ pending' = pending \ done
    /\ UNCHANGED nextId

\* The loop has ended: it disconnects its own id.
LoopEnds(s) ==
    /\ loop[s] = "ending"
    /\ Disconnect(owner[s], s, {})
    /\ loop' = [loop EXCEPT ![s] = "left"]
    /\ UNCHANGED <<owner, queue, command>>

\* serve_node returns and its receiver is dropped.
ReceiverDropped(s) ==
    /\ loop[s] = "left"
    /\ loop' = [loop EXCEPT ![s] = "closed"]
    /\ queue' = [queue EXCEPT ![s] = <<>>]
    /\ UNCHANGED <<registry, owner, pending, command>>

\* A command_result names a command pending for this socket's node; any
\* other is ignored.
Result(s, c) ==
    /\ loop[s] = "open"
    /\ c \in pending /\ target[c] = owner[s]
    /\ pending' = pending \ {c}
    /\ answered' = [answered EXCEPT ![c] = TRUE]
    /\ UNCHANGED <<registry, sockets, cpc, target, via>>

-------------------------------------------------------------------------------
(***************************************************************************)
(* Commands: send_command.                                                 *)
(***************************************************************************)

Goto(c, p) == cpc' = [cpc EXCEPT ![c] = p]

\* The registry lookup; the pending entry is registered with it.
Send(c, n) ==
    /\ cpc[c] = "idle"
    /\ target' = [target EXCEPT ![c] = n]
    /\ via' = [via EXCEPT ![c] = conn[n]]
    /\ IF conn[n] = 0
       THEN Goto(c, "not_connected") /\ UNCHANGED pending
       ELSE Goto(c, "sending") /\ pending' = pending \union {c}
    /\ UNCHANGED <<registry, sockets, answered>>

HasRoom(s) == Len(queue[s]) < QueueCap

\* The frame fits in the socket's channel.
Enqueue(c) ==
    /\ cpc[c] = "sending" /\ loop[via[c]] # "closed"
    /\ HasRoom(via[c])
    /\ queue' = [queue EXCEPT ![via[c]] = Append(@, c)]
    /\ Goto(c, "waiting")
    /\ UNCHANGED <<registry, owner, loop, pending, target, via, answered>>

\* The receiver is gone: evict that very socket.
SendFails(c) ==
    /\ cpc[c] = "sending" /\ loop[via[c]] = "closed"
    /\ Disconnect(target[c], via[c], {c})
    /\ Goto(c, "send_failed")
    /\ UNCHANGED <<sockets, target, via, answered>>

\* PendingGuard: however the future ends, its entry goes.
Forget(c, p) == Goto(c, p) /\ pending' = pending \ {c}

\* Mutant: the deadline covers the answer only.
Timeout_AnswerOnly(c) ==
    /\ cpc[c] = "waiting" /\ c \in pending
    /\ Forget(c, "timeout")
    /\ UNCHANGED <<registry, sockets, target, via, answered>>

\* The deadline.  A command that finds room, an answer or a cancellation
\* when it is polled takes that instead.
Timeout(c) ==
    /\ \/ cpc[c] = "sending" /\ loop[via[c]] # "closed" /\ ~HasRoom(via[c])
       \/ cpc[c] = "waiting" /\ c \in pending
    /\ Forget(c, "timeout")
    /\ UNCHANGED <<registry, sockets, target, via, answered>>

\* The caller behind the command goes away and its future is dropped.
Abandon(c) ==
    /\ cpc[c] \in InFlight
    /\ Forget(c, "abandoned")
    /\ UNCHANGED <<registry, sockets, target, via, answered>>

\* The oneshot resolves: an answer, or its sender was dropped.
Return(c) ==
    /\ cpc[c] = "waiting" /\ c \notin pending
    /\ Forget(c, IF answered[c] THEN "answer" ELSE "disconnected")
    /\ UNCHANGED <<registry, sockets, target, via, answered>>

-------------------------------------------------------------------------------
Next ==
    \/ \E n \in Nodes : Connect(n)
    \/ \E s \in Sockets :
          \/ WriteFrame(s) \/ SocketLost(s) \/ ChannelClosed(s)
          \/ LoopEnds(s) \/ ReceiverDropped(s)
          \/ \E c \in Commands : Result(s, c)
    \/ \E c \in Commands :
          \/ \E n \in Nodes : Send(c, n)
          \/ Enqueue(c) \/ SendFails(c) \/ Timeout(c) \/ Abandon(c) \/ Return(c)

\* A command's task is polled and its timer fires.  Nothing is assumed of
\* nodes, callers or the network.
CommandFairness ==
    \A c \in Commands :
        WF_vars(Enqueue(c) \/ SendFails(c) \/ Timeout(c)) /\ WF_vars(Return(c))

\* A loop's task is polled, and a write to its socket ends or fails.
LoopFairness ==
    \A s \in Sockets :
        /\ WF_vars(queue[s] # <<>> /\ (WriteFrame(s) \/ SocketLost(s)))
        /\ WF_vars(ChannelClosed(s))

Spec == Init /\ [][Next]_vars
FairSpec == Spec /\ CommandFairness /\ LoopFairness

-------------------------------------------------------------------------------
(***************************************************************************)
(* Properties.                                                             *)
(***************************************************************************)

\* Every variable has its type; a channel never holds more than its bound.
TypeOK ==
    /\ conn \in [Nodes -> 0..MaxSockets]
    /\ order \in Seq(Nodes)
    /\ nextId \in 0..MaxSockets
    /\ owner \in [Sockets -> Nodes \union {NoNode}]
    /\ loop \in [Sockets -> {"none", "open", "ending", "left", "closed"}]
    /\ \A s \in Sockets : queue[s] \in Seq(Commands) /\ Len(queue[s]) <= QueueCap
    /\ pending \subseteq Commands
    /\ cpc \in [Commands -> {"idle"} \union InFlight \union Outcomes]
    /\ target \in [Commands -> Nodes \union {NoNode}]
    /\ via \in [Commands -> 0..MaxSockets]
    /\ answered \in [Commands -> BOOLEAN]

\* A command waits only on the socket that is registered for its node now:
\* whatever the order of reconnects, loops that end late and failed sends,
\* no entry outlives the socket it was sent to, nor the call that made it.
PendingOnLiveSocket ==
    \A c \in pending :
        cpc[c] \in InFlight /\ via[c] # 0 /\ conn[target[c]] = via[c]

\* A node whose newest socket is still served is registered under it: no
\* late disconnect of a replaced socket and no failed send evicts it.
LiveSocketRegistered ==
    \A s \in Sockets :
        loop[s] = "open" =>
            \/ conn[owner[s]] = s
            \/ \E t \in Sockets : t > s /\ owner[t] = owner[s]

\* connected_nodes lists each registered node once, and no other.
OrderMatchesRegistry ==
    /\ ToSet(order) = {n \in Nodes : conn[n] # 0}
    /\ IsInjective(order)

\* Every command ends, for a node that answers nothing and reads nothing.
CommandsEnd ==
    \A c \in Commands : cpc[c] \in InFlight ~> cpc[c] \in Outcomes

\* ws.rs:36: "Every successful connect *closes the previous socket* -
\* deliberately, so a node that crashed and came back does not leave a
\* zombie".  Commands hold clones of the old sender, so its channel closes
\* only when they have let go.
ReplacedSocketEnds ==
    \A s \in Sockets :
        loop[s] = "open" /\ conn[owner[s]] # s ~> loop[s] # "open"

===============================================================================
