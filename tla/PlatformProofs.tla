---------------------------- MODULE PlatformProofs ----------------------------
(***************************************************************************)
(* Theorems about the nodes, their sockets and their cameras, the motion   *)
(* digest, the licence, one run inside the agent, the cloud mirror, the    *)
(* live streams, the readiness probe, the disk alerts, the settings of     *)
(* nodes and cameras and the restore of a mirror; for every set of nodes,  *)
(* sockets, cameras, rows, events and requests, every plan and every       *)
(* capacity.  Each section proves one module.                              *)
(*                                                                         *)
(* The ids of a node's sockets say which is the newer while an old loop    *)
(* has still to end.  A create that is about to insert holds its org's     *)
(* lock, under which its count still stands.  What the org was last told   *)
(* is what a row said until the heartbeat or sweep under way tells it of   *)
(* the change. A camera past the oldest is flagged, or a request under way *)
(* has still to see it.  A silenced event belongs to a window whose digest *)
(* is due.  The licence's settings are written one by one, so the          *)
(* invariant says what a check-in has still to write.  What the mirror's   *)
(* cursor has passed the mirror holds, and a row read for a push is as it  *)
(* was read or was written since.  A stream is owed what was published     *)
(* after it joined, and has it unless it was told of a gap.  A probe's     *)
(* answer is no older than its age, so an outage outlasts only the answer  *)
(* that missed it.  A disk alert is remembered where the next one looks.   *)
(* A cap on the wire is one that the node has had.  A writer that is alone *)
(* has read the row it writes.                                             *)
(***************************************************************************)
EXTENDS NodeSocket, NodeRegistry, Presence, CameraCap, MotionAlerts, Licence,
        Investigation, CloudMirror, Broadcaster, Readiness, DiskAlerts,
        NodeSettings, MirrorRestore, Recording, SequenceTheorems,
        FiniteSetTheorems, TLAPS

-------------------------------------------------------------------------------
(* The command sockets.                                                    *)

SocketsTyped ==
    /\ conn \in [Nodes -> 0..MaxSockets] /\ nextId \in 0..MaxSockets
    /\ owner \in [Sockets -> Nodes \union {NoNode}]
    /\ loop \in [Sockets -> {"none", "open", "ending", "left", "closed"}]

CommandsTyped ==
    /\ pending \subseteq Commands
    /\ cpc \in [Commands -> {"idle"} \union InFlight \union Outcomes]
    /\ target \in [Commands -> Nodes \union {NoNode}]
    /\ via \in [Commands -> 0..MaxSockets]

\* Ids are handed out in order; a socket that has been accepted has a node.
SocketsAccepted ==
    /\ \A s \in Sockets : s > nextId => loop[s] = "none" /\ owner[s] = NoNode
    /\ \A s \in Sockets : loop[s] # "none" => owner[s] \in Nodes

\* A command under way was sent to a node.
SentToNode == \A c \in Commands : cpc[c] # "idle" => target[c] \in Nodes

SocketIInv ==
    /\ SocketsTyped /\ CommandsTyped /\ SocketsAccepted /\ SentToNode
    /\ PendingOnLiveSocket /\ LiveSocketRegistered

-------------------------------------------------------------------------------
LEMMA SocketInitIInv == Init => SocketIInv
  BY NodeSocketConstants
     DEF Init, SocketIInv, SocketsTyped, CommandsTyped, SocketsAccepted, SentToNode,
         PendingOnLiveSocket, LiveSocketRegistered, Sockets

\* serve_node replaces an older socket of its node and cancels its commands.
LEMMA ConnectStep ==
    ASSUME SocketIInv, NEW n \in Nodes, Connect(n) PROVE SocketIInv'
<1> DEFINE new == nextId + 1
<1>0. /\ SocketsTyped /\ CommandsTyped /\ SocketsAccepted /\ SentToNode
      /\ PendingOnLiveSocket /\ LiveSocketRegistered
  BY DEF SocketIInv
<1>1. /\ new \in Sockets /\ nextId' = new
      /\ \A s \in Sockets : s > nextId' => s > nextId
  BY <1>0, NodeSocketConstants DEF Connect, SocketsTyped, Sockets
<1>2. /\ conn' = [conn EXCEPT ![n] = new] /\ owner' = [owner EXCEPT ![new] = n]
      /\ loop' = [loop EXCEPT ![new] = "open"]
      /\ pending' = CancelOnReplace(n) /\ UNCHANGED <<cpc, target, via>>
  BY <1>1 DEF Connect, command
<1>3. SocketsTyped'
  BY <1>0, <1>1, <1>2, NodeSocketConstants DEF SocketsTyped, Sockets
<1>4. pending' \subseteq pending
  BY <1>2 DEF CancelOnReplace, Cancel
<1>5. CommandsTyped' /\ SentToNode'
  BY <1>0, <1>2, <1>4 DEF CommandsTyped, SentToNode
<1>6. SocketsAccepted'
  BY <1>0, <1>1, <1>2 DEF SocketsAccepted, SocketsTyped, Sockets
<1>7. PendingOnLiveSocket'
  <2> SUFFICES ASSUME NEW c \in pending'
               PROVE  cpc[c] \in InFlight /\ via[c] # 0 /\ conn'[target[c]] = via[c]
    BY <1>2 DEF PendingOnLiveSocket
  <2>1. cpc[c] \in InFlight /\ via[c] # 0 /\ conn[target[c]] = via[c] /\ c \in Commands
    BY <1>0, <1>4 DEF PendingOnLiveSocket, CommandsTyped
  <2>2. target[c] \in Nodes
    BY <1>0, <2>1 DEF SentToNode, InFlight
  <2>3. target[c] # n
    BY <1>2, <2>1 DEF CancelOnReplace, Cancel
  <2> QED BY <1>0, <1>2, <2>1, <2>2, <2>3 DEF SocketsTyped
<1>8. LiveSocketRegistered'
  <2> SUFFICES ASSUME NEW s \in Sockets, loop'[s] = "open"
               PROVE  \/ conn'[owner'[s]] = s
                      \/ \E t \in Sockets : t > s /\ owner'[t] = owner'[s]
    BY DEF LiveSocketRegistered
  <2>1. CASE s = new
    BY <1>0, <1>1, <1>2, <2>1 DEF SocketsTyped
  <2>2. CASE s # new
    <3>1. loop[s] = "open" /\ owner'[s] = owner[s] /\ owner[s] \in Nodes /\ s < new
      BY <1>0, <1>1, <1>2, <2>2 DEF SocketsTyped, SocketsAccepted, Sockets
    <3>2. CASE conn[owner[s]] = s
      BY <1>0, <1>1, <1>2, <3>1, <3>2 DEF SocketsTyped
    <3>3. ASSUME NEW t \in Sockets, t > s, owner[t] = owner[s]
          PROVE  \E u \in Sockets : u > s /\ owner'[u] = owner'[s]
      <4>1. owner'[t] = owner'[s]
        BY <1>0, <1>1, <1>2, <3>1, <3>3, NodeSocketConstants DEF SocketsTyped, SocketsAccepted, Sockets
      <4> QED BY <3>3, <4>1
    <3> QED BY <1>0, <3>1, <3>2, <3>3 DEF LiveSocketRegistered
  <2> QED BY <2>1, <2>2
<1> QED BY <1>3, <1>5, <1>6, <1>7, <1>8 DEF SocketIInv

\* disconnect, of a socket whose loop no longer runs, by the loop that ends or by
\* the command that found the channel closed.
LEMMA DisconnectStep ==
    ASSUME SocketIInv, NEW n \in Nodes, NEW s, NEW done,
           loop' \in [Sockets -> {"none", "open", "ending", "left", "closed"}],
           \A t \in Sockets : loop'[t] = "open" => loop[t] = "open" /\ t # s,
           \A t \in Sockets : (loop'[t] = "none") = (loop[t] = "none"),
           Disconnect(n, s, done), UNCHANGED <<owner, target, via>>,
           CommandsTyped', SentToNode',
           \A c \in pending \ done : cpc'[c] = cpc[c]
    PROVE  SocketIInv'
<1>0. /\ SocketsTyped /\ CommandsTyped /\ SocketsAccepted /\ SentToNode
      /\ PendingOnLiveSocket /\ LiveSocketRegistered
  BY DEF SocketIInv
<1>1. /\ pending' \subseteq pending \ done /\ UNCHANGED nextId
      /\ \/ UNCHANGED conn
         \/ /\ conn[n] = s /\ conn' = [conn EXCEPT ![n] = 0]
            /\ \A c \in pending' : target[c] # n
  BY DEF Disconnect, Owns, Cancel
<1>2. SocketsTyped'
  BY <1>0, <1>1, NodeSocketConstants DEF SocketsTyped
<1>3. SocketsAccepted'
  BY <1>0, <1>1 DEF SocketsAccepted
<1>4. PendingOnLiveSocket'
  <2> SUFFICES ASSUME NEW c \in pending'
               PROVE  cpc'[c] \in InFlight /\ via[c] # 0 /\ conn'[target[c]] = via[c]
    BY DEF PendingOnLiveSocket
  <2>1. /\ cpc'[c] = cpc[c] /\ cpc[c] \in InFlight /\ via[c] # 0
        /\ conn[target[c]] = via[c] /\ c \in Commands
    BY <1>0, <1>1 DEF PendingOnLiveSocket, CommandsTyped
  <2>2. target[c] \in Nodes
    BY <1>0, <2>1 DEF SentToNode, InFlight
  <2> QED BY <1>0, <1>1, <2>1, <2>2 DEF SocketsTyped
<1>5. LiveSocketRegistered'
  <2> SUFFICES ASSUME NEW t \in Sockets, loop'[t] = "open"
               PROVE  \/ conn'[owner[t]] = t
                      \/ \E u \in Sockets : u > t /\ owner[u] = owner[t]
    BY DEF LiveSocketRegistered
  <2>1. loop[t] = "open" /\ t # s /\ owner[t] \in Nodes
    BY <1>0 DEF SocketsAccepted
  <2>2. \/ conn[owner[t]] = t
        \/ \E u \in Sockets : u > t /\ owner[u] = owner[t]
    BY <1>0, <2>1 DEF LiveSocketRegistered
  <2> QED BY <1>0, <1>1, <2>1, <2>2 DEF SocketsTyped
<1> QED BY <1>2, <1>3, <1>4, <1>5 DEF SocketIInv

\* A step of a loop that leaves the registry alone and opens no socket.
LEMMA LoopStep ==
    ASSUME SocketIInv, UNCHANGED <<conn, nextId, owner, pending, cpc, target, via>>,
           loop' \in [Sockets -> {"none", "open", "ending", "left", "closed"}],
           \A t \in Sockets : loop'[t] = "open" => loop[t] = "open",
           \A t \in Sockets : (loop'[t] = "none") = (loop[t] = "none")
    PROVE  SocketIInv'
<1>1. SocketsTyped' /\ CommandsTyped' /\ SentToNode' /\ PendingOnLiveSocket'
  BY DEF SocketIInv, SocketsTyped, CommandsTyped, SentToNode, PendingOnLiveSocket
<1>2. SocketsAccepted' /\ LiveSocketRegistered'
  BY DEF SocketIInv, SocketsAccepted, LiveSocketRegistered
<1> QED BY <1>1, <1>2 DEF SocketIInv

\* A step of a command that leaves the sockets alone.
LEMMA CommandStep ==
    ASSUME SocketIInv, UNCHANGED <<conn, nextId, owner, loop, target, via>>,
           NEW c \in Commands, NEW p \in InFlight \union Outcomes,
           cpc[c] # "idle", cpc' = [cpc EXCEPT ![c] = p],
           pending' \subseteq pending, c \in pending' => p \in InFlight
    PROVE  SocketIInv'
<1>1. SocketsTyped' /\ SocketsAccepted' /\ LiveSocketRegistered'
  BY DEF SocketIInv, SocketsTyped, SocketsAccepted, LiveSocketRegistered
<1>2. CommandsTyped' /\ SentToNode' /\ PendingOnLiveSocket'
  BY DEF SocketIInv, CommandsTyped, SentToNode, PendingOnLiveSocket
<1> QED BY <1>1, <1>2 DEF SocketIInv

\* Every step keeps the invariant.
LEMMA SocketStep == ASSUME SocketIInv, [Next]_vars PROVE SocketIInv'
<1>0. /\ SocketsTyped /\ CommandsTyped /\ SocketsAccepted /\ SentToNode
      /\ PendingOnLiveSocket /\ LiveSocketRegistered
  BY DEF SocketIInv
<1>1. ASSUME NEW s \in Sockets, WriteFrame(s) PROVE SocketIInv'
  BY <1>0, <1>1, LoopStep DEF WriteFrame, registry, command, SocketsTyped
<1>2. ASSUME NEW s \in Sockets, SocketLost(s) \/ ChannelClosed(s) \/ ReceiverDropped(s)
      PROVE  SocketIInv'
  <2>1. PICK place \in {"ending", "closed"} :
          /\ loop' = [loop EXCEPT ![s] = place] /\ loop[s] # "none"
          /\ UNCHANGED <<conn, nextId, owner, pending, cpc, target, via>>
    BY <1>2 DEF SocketLost, ChannelClosed, ReceiverDropped, Break, registry, command
  <2> QED BY <1>0, <2>1, LoopStep DEF SocketsTyped
<1>3. ASSUME NEW s \in Sockets, LoopEnds(s) PROVE SocketIInv'
  <2>1. /\ loop[s] = "ending" /\ loop' = [loop EXCEPT ![s] = "left"]
        /\ Disconnect(owner[s], s, {}) /\ UNCHANGED <<owner, cpc, target, via>>
    BY <1>3 DEF LoopEnds, command
  <2>2. owner[s] \in Nodes
    BY <1>0, <2>1 DEF SocketsAccepted
  <2>3. pending' \subseteq pending
    BY <2>1 DEF Disconnect, Cancel
  <2>4. CommandsTyped' /\ SentToNode'
    BY <1>0, <2>1, <2>3 DEF CommandsTyped, SentToNode
  <2>5. /\ loop' \in [Sockets -> {"none", "open", "ending", "left", "closed"}]
        /\ \A t \in Sockets : loop'[t] = "open" => loop[t] = "open" /\ t # s
        /\ \A t \in Sockets : (loop'[t] = "none") = (loop[t] = "none")
    BY <1>0, <2>1 DEF SocketsTyped
  <2> QED BY <2>1, <2>2, <2>4, <2>5, DisconnectStep
<1>4. ASSUME NEW s \in Sockets, NEW c \in Commands, Result(s, c) PROVE SocketIInv'
  BY <1>0, <1>4 DEF Result, registry, sockets, SocketIInv, SocketsTyped, CommandsTyped,
     SocketsAccepted, SentToNode, PendingOnLiveSocket, LiveSocketRegistered
<1>5. ASSUME NEW c \in Commands, NEW n \in Nodes, Send(c, n) PROVE SocketIInv'
  <2>1. /\ cpc[c] = "idle" /\ UNCHANGED <<conn, nextId, owner, loop>>
        /\ target' = [target EXCEPT ![c] = n] /\ via' = [via EXCEPT ![c] = conn[n]]
        /\ \/ conn[n] = 0 /\ cpc' = [cpc EXCEPT ![c] = "not_connected"] /\ UNCHANGED pending
           \/ conn[n] # 0 /\ cpc' = [cpc EXCEPT ![c] = "sending"] /\ pending' = pending \union {c}
    BY <1>5 DEF Send, Goto, registry, sockets
  <2>2. SocketsTyped' /\ SocketsAccepted' /\ LiveSocketRegistered'
    BY <1>0, <2>1 DEF SocketsTyped, SocketsAccepted, LiveSocketRegistered
  <2>3. c \notin pending
    BY <1>0, <2>1 DEF PendingOnLiveSocket, InFlight
  <2>4. conn[n] \in 0..MaxSockets
    BY <1>0 DEF SocketsTyped
  <2>5. CommandsTyped' /\ SentToNode'
    BY <1>0, <2>1, <2>4 DEF CommandsTyped, SentToNode, InFlight, Outcomes
  <2>6. PendingOnLiveSocket'
    BY <1>0, <2>1, <2>3 DEF PendingOnLiveSocket, CommandsTyped, InFlight
  <2> QED BY <2>2, <2>5, <2>6 DEF SocketIInv
<1>6. ASSUME NEW c \in Commands, Enqueue(c) PROVE SocketIInv'
  BY <1>6, CommandStep DEF Enqueue, Goto, registry, InFlight
<1>7. ASSUME NEW c \in Commands, SendFails(c) PROVE SocketIInv'
  <2>1. /\ cpc[c] = "sending" /\ loop[via[c]] = "closed"
        /\ Disconnect(target[c], via[c], {c}) /\ cpc' = [cpc EXCEPT ![c] = "send_failed"]
        /\ UNCHANGED <<owner, loop, target, via>>
    BY <1>7 DEF SendFails, Goto, sockets
  <2>2. target[c] \in Nodes
    BY <1>0, <2>1 DEF SentToNode
  <2>3. pending' \subseteq pending
    BY <2>1 DEF Disconnect, Cancel
  <2>4. CommandsTyped' /\ SentToNode'
    BY <1>0, <2>1, <2>3 DEF CommandsTyped, SentToNode, InFlight, Outcomes
  <2>5. /\ loop' \in [Sockets -> {"none", "open", "ending", "left", "closed"}]
        /\ \A t \in Sockets : loop'[t] = "open" => loop[t] = "open" /\ t # via[c]
        /\ \A t \in Sockets : (loop'[t] = "none") = (loop[t] = "none")
    BY <1>0, <2>1 DEF SocketsTyped
  <2>6. \A d \in pending \ {c} : cpc'[d] = cpc[d]
    BY <1>0, <2>1 DEF CommandsTyped
  <2> QED BY <2>1, <2>2, <2>4, <2>5, <2>6, DisconnectStep
<1>8. ASSUME NEW c \in Commands, Timeout(c) \/ Abandon(c) \/ Return(c) PROVE SocketIInv'
  <2>1. PICK p \in Outcomes :
          /\ cpc' = [cpc EXCEPT ![c] = p] /\ pending' = pending \ {c}
          /\ UNCHANGED <<conn, nextId, owner, loop, target, via>>
    BY <1>8 DEF Timeout, Abandon, Return, Forget, Goto, registry, sockets, Outcomes
  <2>2. cpc[c] # "idle"
    BY <1>8 DEF Timeout, Abandon, Return, InFlight
  <2> QED BY <2>1, <2>2, CommandStep
<1>9. ASSUME UNCHANGED vars PROVE SocketIInv'
  BY <1>0, <1>9 DEF vars, registry, sockets, command, SocketIInv, SocketsTyped, CommandsTyped,
     SocketsAccepted, SentToNode, PendingOnLiveSocket, LiveSocketRegistered
<1> QED BY <1>1, <1>2, <1>3, <1>4, <1>5, <1>6, <1>7, <1>8, <1>9, ConnectStep DEF Next

LEMMA SocketInvariant == Spec => []SocketIInv
  BY SocketInitIInv, SocketStep, PTL DEF Spec

\* However a node's reconnects, the ends of its loops and the failing sends
\* interleave, a pending entry names the socket that is registered now.
THEOREM PendingOnLiveSocketAlways == Spec => []PendingOnLiveSocket
  BY SocketInvariant, PTL DEF SocketIInv

\* disconnect's identity guard: no late end of a replaced loop and no failed send
\* takes the newest socket of a node out of the registry while it is served.
THEOREM LiveSocketRegisteredAlways == Spec => []LiveSocketRegistered
  BY SocketInvariant, PTL DEF SocketIInv

-------------------------------------------------------------------------------
(* The nodes' rows.                                                        *)

\* The rows of nodes and cameras that the statements leave.
Row == [key : Int, seen : BOOLEAN, note : {"none", "bad key", "version"}]
Places == {"idle", "insert", "bad_key", "version", "cameras", "delete_cameras", "delete_node"}
NodeRequest == [at : Places, id : Ids \union {"no_id"}, tries : Int, cams : SUBSET DeviceCameras]

RowsTyped ==
    /\ DOMAIN node \subseteq Ids /\ node \in [DOMAIN node -> Row]
    /\ IsFiniteSet(DOMAIN node) /\ keys \in Int

OwnedTyped == owned \subseteq Ids \X DeviceCameras

ClientsTyped == client \in [Clients -> NodeRequest]

\* Who counted and has yet to insert holds the lock, and what it counted is
\* still so: no other create can insert meanwhile.
CountedStands ==
    \A c \in Clients : client[c].at = "insert" =>
        capLock = c /\ Cardinality(DOMAIN node) < MaxNodes

RegistryIInv ==
    /\ RowsTyped /\ OwnedTyped /\ ClientsTyped /\ CountedStands
    /\ NodesWithinPlan /\ NoOrphanCamera /\ NoteOnlyBeforeFirstContact

-------------------------------------------------------------------------------
LEMMA RegistryInitIInv == RegistryInit => RegistryIInv
<1> SUFFICES ASSUME RegistryInit PROVE RegistryIInv
  OBVIOUS
<1>1. DOMAIN node = {} /\ owned = {} /\ keys = 0 /\ client = [c \in Clients |-> IdleClient]
  BY DEF RegistryInit
<1>2. RowsTyped
  BY <1>1, FS_EmptySet DEF RowsTyped
<1>3. ClientsTyped /\ CountedStands
  BY <1>1 DEF ClientsTyped, CountedStands, IdleClient, NodeRequest, Places
<1>4. NodesWithinPlan
  BY <1>1, FS_EmptySet, RegistryAssumption DEF NodesWithinPlan
<1> QED BY <1>1, <1>2, <1>3, <1>4
        DEF RegistryIInv, OwnedTyped, NoOrphanCamera, NoteOnlyBeforeFirstContact

\* What a statement that writes one row leaves in the table.
LEMMA WithRow ==
    ASSUME RowsTyped, NEW id \in Ids, NEW row \in Row
    PROVE  /\ With(id, row) \in [DOMAIN node \union {id} -> Row]
           /\ DOMAIN With(id, row) = DOMAIN node \union {id}
           /\ With(id, row)[id] = row
           /\ \A i \in DOMAIN node : i # id => With(id, row)[i] = node[i]
  BY DEF With, RowsTyped

\* The steps that leave the rows, and the step that ends or moves a request.
LEMMA ClientStep ==
    ASSUME RegistryIInv, [RegistryNext]_registryVars
    PROVE  ClientsTyped' /\ OwnedTyped'
<1>1. ClientsTyped /\ OwnedTyped /\ RowsTyped
  BY DEF RegistryIInv
<1> USE <1>1, RegistryAssumption
        DEF ClientsTyped, OwnedTyped, NodeRequest, IdleClient, To, At, Stop, Places
<1>0. IdleClient \in NodeRequest
  OBVIOUS
<1>2. ASSUME NEW c \in Clients, CreateCounts(c) PROVE ClientsTyped' /\ OwnedTyped'
  <2>1. [IdleClient EXCEPT !.at = "insert", !.tries = Attempts] \in NodeRequest
    <3>1. Attempts \in Int /\ {} \in SUBSET DeviceCameras
      BY RegistryAssumption
    <3> HIDE DEF ClientsTyped, OwnedTyped
    <3> QED BY ONLY <3>1 DEF NodeRequest, IdleClient, Places
  <2>2. /\ UNCHANGED owned
        /\ \/ UNCHANGED client
           \/ client' = [client EXCEPT ![c] = [IdleClient EXCEPT !.at = "insert", !.tries = Attempts]]
    BY <1>2, Zenon DEF CreateCounts
  <2> HIDE DEF NodeRequest, IdleClient
  <2> QED BY <2>1, <2>2
<1>3. ASSUME NEW c \in Clients, NEW id \in Ids, CreateInserts(c, id)
      PROVE  ClientsTyped' /\ OwnedTyped'
  BY <1>3 DEF CreateInserts
<1>4. ASSUME NEW c \in Clients, NEW id \in Ids, NEW key, ReadRow(c, id, key)
      PROVE  ClientsTyped' /\ OwnedTyped'
  <2>1. PICK place \in {"version", "bad_key"} :
          client' = [client EXCEPT ![c] = [IdleClient EXCEPT !.id = id, !.cams = DeviceCameras,
                                                             !.at = place]]
    BY <1>4 DEF ReadRow
  <2>2. [IdleClient EXCEPT !.id = id, !.cams = DeviceCameras, !.at = place] \in NodeRequest
    BY <1>0
  <2>3. UNCHANGED owned
    BY <1>4 DEF ReadRow
  <2> HIDE DEF NodeRequest, IdleClient
  <2> QED BY <2>1, <2>2, <2>3
<1>5. ASSUME NEW c \in Clients, NEW id \in Ids, DeleteReads(c, id)
      PROVE  ClientsTyped' /\ OwnedTyped'
  <2>1. [IdleClient EXCEPT !.at = "delete_cameras", !.id = id] \in NodeRequest
    BY <1>0
  <2>2. /\ client' = [client EXCEPT ![c] = [IdleClient EXCEPT !.at = "delete_cameras", !.id = id]]
        /\ UNCHANGED owned
    BY <1>5, Zenon DEF DeleteReads
  <2> HIDE DEF NodeRequest, IdleClient
  <2> QED BY <2>1, <2>2
<1>6. ASSUME NEW c \in Clients,
             RecordBadKeyAttempt(c) \/ RefuseVersion(c) \/ Online(c)
      PROVE  ClientsTyped' /\ OwnedTyped'
  <2>1. /\ UNCHANGED owned
        /\ \/ client' = [client EXCEPT ![c] = IdleClient]
           \/ client' = [client EXCEPT ![c] = [client[c] EXCEPT !.at = "cameras"]]
    BY <1>6, Zenon DEF RecordBadKeyAttempt, RefuseVersion, Online
  <2> QED BY <1>0, <2>1
<1>7. ASSUME NEW c \in Clients, InsertCamera(c) PROVE ClientsTyped' /\ OwnedTyped'
  BY <1>7 DEF InsertCamera, RowsTyped
<1>8. ASSUME NEW c \in Clients, DeleteCameras(c) PROVE ClientsTyped' /\ OwnedTyped'
  <2>1. {o[2] : o \in {o \in owned : o[1] = client[c].id}} \in SUBSET DeviceCameras
    OBVIOUS
  <2> QED BY <1>8, <2>1 DEF DeleteCameras
<1>9. ASSUME NEW c \in Clients, DeleteNode(c) PROVE ClientsTyped' /\ OwnedTyped'
  BY <1>9 DEF DeleteNode
<1>10. ASSUME NEW id \in Ids, RotateApiKey(id) PROVE ClientsTyped' /\ OwnedTyped'
  BY <1>10 DEF RotateApiKey
<1>11. ASSUME UNCHANGED registryVars PROVE ClientsTyped' /\ OwnedTyped'
  BY <1>11 DEF registryVars
<1> HIDE DEF ClientsTyped, OwnedTyped
<1> QED BY <1>2, <1>3, <1>4, <1>5, <1>6, <1>7, <1>8, <1>9, <1>10, <1>11 DEF RegistryNext

\* The step writes at most one row.
RowWritten(id, row) ==
    /\ id \in DOMAIN node /\ node' = With(id, row) /\ UNCHANGED owned
    /\ row \in Row
    /\ row.note = "bad key" => ~row.seen

\* Everything that is said of the rows outlives a write to one that is there.
LEMMA RowKept ==
    ASSUME RegistryIInv, NEW id, NEW row, RowWritten(id, row), keys' \in Int
    PROVE  /\ RowsTyped' /\ DOMAIN node' = DOMAIN node
           /\ NodesWithinPlan' /\ NoOrphanCamera' /\ NoteOnlyBeforeFirstContact'
<1>1. id \in Ids /\ RowsTyped
  BY DEF RegistryIInv, RowWritten, RowsTyped
<1>2. row \in Row
  BY DEF RowWritten
<1>3. /\ node' \in [DOMAIN node -> Row] /\ DOMAIN node' = DOMAIN node
      /\ node'[id] = row
      /\ \A i \in DOMAIN node : i # id => node'[i] = node[i]
  <2>1. node' = With(id, row) /\ id \in DOMAIN node
    BY Zenon DEF RowWritten
  <2>2. DOMAIN node \union {id} = DOMAIN node
    BY <2>1
  <2> HIDE DEF Row
  <2> QED BY <1>1, <1>2, <2>1, <2>2, WithRow
<1>4. RowsTyped'
  BY <1>1, <1>3 DEF RowsTyped
<1>5. NodesWithinPlan' /\ NoOrphanCamera'
  BY <1>3 DEF RegistryIInv, RowWritten, NodesWithinPlan, NoOrphanCamera
<1>6. NoteOnlyBeforeFirstContact'
  BY <1>3 DEF RegistryIInv, RowWritten, NoteOnlyBeforeFirstContact
<1> QED BY <1>3, <1>4, <1>5, <1>6

\* A count that stands goes on standing while the rows only get fewer.
LEMMA CountKept ==
    ASSUME RowsTyped, CountedStands, UNCHANGED capLock,
           DOMAIN node' \subseteq DOMAIN node,
           \A c \in Clients : client'[c].at = "insert" => client[c].at = "insert"
    PROVE  CountedStands'
<1>1. IsFiniteSet(DOMAIN node') /\ Cardinality(DOMAIN node') <= Cardinality(DOMAIN node)
  BY FS_Subset DEF RowsTyped
<1>2. Cardinality(DOMAIN node') \in Int /\ Cardinality(DOMAIN node) \in Int /\ MaxNodes \in Int
  BY <1>1, FS_CardinalityType, RegistryAssumption DEF RowsTyped
<1> QED BY <1>1, <1>2 DEF CountedStands

\* Every step but a deletion and a create's insertion writes a row, or none.
LEMMA RegistryStep ==
    ASSUME RegistryIInv, [RegistryNext]_registryVars
    PROVE  RowsTyped' /\ CountedStands' /\ NodesWithinPlan' /\ NoOrphanCamera'
           /\ NoteOnlyBeforeFirstContact'
<1> DEFINE Goal == RowsTyped' /\ CountedStands' /\ NodesWithinPlan' /\ NoOrphanCamera'
                     /\ NoteOnlyBeforeFirstContact'
<1>0. /\ RowsTyped /\ OwnedTyped /\ ClientsTyped /\ CountedStands
      /\ NodesWithinPlan /\ NoOrphanCamera /\ NoteOnlyBeforeFirstContact
  BY DEF RegistryIInv
<1>1. ASSUME NEW c \in Clients, CreateCounts(c) PROVE Goal
  <2>1. UNCHANGED <<node, owned, keys>>
    BY <1>1 DEF CreateCounts
  <2>2. RowsTyped' /\ NodesWithinPlan' /\ NoOrphanCamera' /\ NoteOnlyBeforeFirstContact'
    BY <1>0, <2>1 DEF RowsTyped, NodesWithinPlan, NoOrphanCamera, NoteOnlyBeforeFirstContact
  <2>3. CountedStands'
    <3>1. CASE UNCHANGED <<client, capLock>>
      BY <1>0, <2>1, <3>1 DEF CountedStands
    <3>2. CASE ~UNCHANGED <<client, capLock>>
      <4>1. /\ capLock = Nobody /\ capLock' = c /\ ~(Cardinality(DOMAIN node) >= MaxNodes)
            /\ client' = [client EXCEPT ![c] = [IdleClient EXCEPT !.at = "insert", !.tries = Attempts]]
        BY <1>1, <3>2, Zenon DEF CreateCounts, To
      <4>2. \A d \in Clients : client[d].at # "insert"
        BY <1>0, <4>1, RegistryAssumption DEF CountedStands
      <4>3. \A d \in Clients : d # c => client'[d] = client[d]
        BY <1>0, <4>1 DEF ClientsTyped
      <4>4. Cardinality(DOMAIN node) < MaxNodes
        BY <1>0, <4>1, FS_CardinalityType, RegistryAssumption DEF RowsTyped
      <4> QED BY <2>1, <4>1, <4>2, <4>3, <4>4 DEF CountedStands
    <3> QED BY <3>1, <3>2
  <2> QED BY <2>2, <2>3
<1>2. ASSUME NEW c \in Clients, NEW id \in Ids, CreateInserts(c, id) PROVE Goal
  <2>1. client[c].at = "insert" /\ UNCHANGED owned
    BY <1>2 DEF CreateInserts
  <2>2. capLock = c /\ Cardinality(DOMAIN node) < MaxNodes
    BY <1>0, <2>1 DEF CountedStands
  <2>3. \A d \in Clients : d # c => client[d].at # "insert"
    BY <1>0, <2>2 DEF CountedStands
  <2>4. CASE id \in DOMAIN node \union Foreign
    <3>1. UNCHANGED <<node, owned, keys>>
      BY <1>2, <2>4, <2>1 DEF CreateInserts
    <3>2. CountedStands'
      <4>1. CASE client' = [client EXCEPT ![c] = IdleClient]
        BY <1>0, <2>3, <3>1, <4>1 DEF CountedStands, ClientsTyped, IdleClient
      <4>2. CASE /\ client' = [client EXCEPT ![c] = [client[c] EXCEPT !.tries = @ - 1]]
                 /\ UNCHANGED capLock
        BY <1>0, <2>2, <2>3, <3>1, <4>2 DEF CountedStands, ClientsTyped
      <4> QED BY <1>2, <2>4, <4>1, <4>2, Zenon DEF CreateInserts, Stop, To
    <3> QED BY <1>0, <3>1, <3>2
            DEF RowsTyped, NodesWithinPlan, NoOrphanCamera, NoteOnlyBeforeFirstContact
  <2>5. CASE id \notin DOMAIN node \union Foreign
    <3> DEFINE row == [key |-> keys + 1, seen |-> FALSE, note |-> "none"]
    <3>1. /\ node' = With(id, row) /\ keys' = keys + 1
          /\ client' = [client EXCEPT ![c] = IdleClient]
      BY <1>2, <2>5, Zenon DEF CreateInserts, Stop, To
    <3>2. row \in Row /\ keys' \in Int
      <4>1. keys \in Int
        BY <1>0 DEF RowsTyped
      <4> QED BY <3>1, <4>1 DEF Row
    <3>3. row.note # "bad key"
      OBVIOUS
    <3> HIDE DEF row
    <3>4. /\ node' \in [DOMAIN node \union {id} -> Row] /\ node'[id] = row
          /\ DOMAIN node' = DOMAIN node \union {id}
          /\ \A i \in DOMAIN node : i # id => node'[i] = node[i]
      BY <1>0, <3>1, <3>2, WithRow
    <3>5. IsFiniteSet(DOMAIN node') /\ Cardinality(DOMAIN node') = Cardinality(DOMAIN node) + 1
      BY <1>0, <2>5, <3>4, FS_AddElement DEF RowsTyped
    <3>6. RowsTyped'
      BY <1>0, <3>2, <3>4, <3>5 DEF RowsTyped
    <3>7. CountedStands'
      BY <1>0, <2>3, <3>1 DEF CountedStands, ClientsTyped, IdleClient
    <3>8. NodesWithinPlan'
      <4>1. Cardinality(DOMAIN node') <= MaxNodes
        BY <1>0, <2>2, <3>5, FS_CardinalityType, RegistryAssumption DEF RowsTyped
      <4> QED BY <1>0, <2>5, <3>4, <4>1 DEF NodesWithinPlan
    <3>9. NoOrphanCamera' /\ NoteOnlyBeforeFirstContact'
      BY <1>0, <2>1, <2>5, <3>3, <3>4 DEF NoOrphanCamera, NoteOnlyBeforeFirstContact
    <3> QED BY <3>6, <3>7, <3>8, <3>9
  <2> QED BY <2>4, <2>5
<1>3. ASSUME UNCHANGED <<node, owned, keys, capLock>>,
             \A c \in Clients : client'[c].at = "insert" => client[c].at = "insert"
      PROVE  Goal
  BY <1>0, <1>3, CountKept
     DEF RowsTyped, NodesWithinPlan, NoOrphanCamera, NoteOnlyBeforeFirstContact
<1>4. ASSUME NEW id \in Ids, NEW row, RowWritten(id, row), keys' \in Int, UNCHANGED capLock,
             \A c \in Clients : client'[c].at = "insert" => client[c].at = "insert"
      PROVE  Goal
  <2>1. /\ RowsTyped' /\ DOMAIN node' = DOMAIN node
        /\ NodesWithinPlan' /\ NoOrphanCamera' /\ NoteOnlyBeforeFirstContact'
    BY <1>4, RowKept
  <2> QED BY <1>0, <1>4, <2>1, CountKept
<1>5. ASSUME NEW c \in Clients, NEW id \in Ids, NEW key,
             ReadRow(c, id, key) \/ DeleteReads(c, id)
      PROVE  Goal
  <2>1. /\ UNCHANGED <<node, owned, keys, capLock>>
        /\ client'[c].at # "insert" /\ \A d \in Clients : d # c => client'[d] = client[d]
    BY <1>0, <1>5 DEF ReadRow, DeleteReads, To, IdleClient, ClientsTyped
  <2> QED BY <1>3, <2>1
<1>6. ASSUME NEW c \in Clients, RecordBadKeyAttempt(c) PROVE Goal
  <2> DEFINE id == client[c].id
             row == [node[id] EXCEPT !.note = "bad key"]
  <2>1. /\ UNCHANGED <<owned, keys, capLock>> /\ client' = [client EXCEPT ![c] = IdleClient]
        /\ node' = IF id \in DOMAIN node /\ ~node[id].seen THEN With(id, row) ELSE node
    BY <1>6, Zenon DEF RecordBadKeyAttempt, Stop, To
  <2>2. \A d \in Clients : client'[d].at = "insert" => client[d].at = "insert"
    BY <1>0, <2>1 DEF ClientsTyped, IdleClient
  <2>3. CASE id \in DOMAIN node /\ ~node[id].seen
    <3>1. RowWritten(id, row)
      BY <1>0, <2>1, <2>3 DEF RowWritten, RowsTyped, Row
    <3> QED BY <1>0, <1>4, <2>1, <2>2, <2>3, <3>1 DEF RowsTyped
  <2>4. CASE ~(id \in DOMAIN node /\ ~node[id].seen)
    BY <1>3, <2>1, <2>2, <2>4
  <2> QED BY <2>3, <2>4
<1>7. ASSUME NEW c \in Clients, RefuseVersion(c) \/ Online(c) PROVE Goal
  <2> DEFINE id == client[c].id
  <2>1. PICK row : /\ UNCHANGED <<owned, keys, capLock>>
                   /\ node' = IF id \in DOMAIN node THEN With(id, row) ELSE node
                   /\ \/ row = [node[id] EXCEPT !.note = "version"]
                      \/ row = [node[id] EXCEPT !.seen = TRUE, !.note = "none"]
    BY <1>7, Zenon DEF RefuseVersion, Online, Update
  <2>2. \A d \in Clients : client'[d].at = "insert" => client[d].at = "insert"
    BY <1>0, <1>7 DEF RefuseVersion, Online, ClientsTyped, IdleClient, Stop, To, At, NodeRequest
  <2>3. CASE id \in DOMAIN node
    <3>1. RowWritten(id, row)
      BY <1>0, <2>1, <2>3 DEF RowWritten, RowsTyped, Row
    <3> QED BY <1>0, <1>4, <2>1, <2>2, <2>3, <3>1 DEF RowsTyped
  <2>4. CASE id \notin DOMAIN node
    BY <1>3, <2>1, <2>2, <2>4
  <2> QED BY <2>3, <2>4
<1>8. ASSUME NEW c \in Clients, InsertCamera(c) PROVE Goal
  <2> DEFINE id == client[c].id
  <2>1. UNCHANGED <<node, keys, capLock>>
    BY <1>8 DEF InsertCamera
  <2>2. \A d \in Clients : client'[d].at = "insert" => client[d].at = "insert"
    BY <1>0, <1>8 DEF InsertCamera, ClientsTyped, IdleClient, Stop, To, NodeRequest
  <2>3. \A o \in owned' : o \in owned \/ o[1] \in DOMAIN node
    <3>1. \/ UNCHANGED owned
          \/ /\ id \in DOMAIN node
             /\ \E cam \in client[c].cams : owned' = owned \union {<<id, cam>>}
      BY <1>8, Zenon DEF InsertCamera
    <3>2. CASE UNCHANGED owned
      BY <3>2
    <3>3. CASE /\ id \in DOMAIN node
               /\ \E cam \in client[c].cams : owned' = owned \union {<<id, cam>>}
      <4> HIDE DEF id
      <4> QED BY <3>3
    <3> QED BY <3>1, <3>2, <3>3
  <2> QED BY <1>0, <2>1, <2>2, <2>3, CountKept
          DEF RowsTyped, NodesWithinPlan, NoOrphanCamera, NoteOnlyBeforeFirstContact
<1>9. ASSUME NEW c \in Clients, DeleteCameras(c) PROVE Goal
  <2>1. /\ UNCHANGED <<node, owned, keys, capLock>>
        /\ client'[c].at # "insert" /\ \A d \in Clients : d # c => client'[d] = client[d]
    BY <1>0, <1>9 DEF DeleteCameras, To, ClientsTyped, NodeRequest
  <2> QED BY <1>3, <2>1
<1>10. ASSUME NEW c \in Clients, DeleteNode(c) PROVE Goal
  <2> DEFINE id == client[c].id
  <2>1. /\ UNCHANGED <<keys, capLock>> /\ client' = [client EXCEPT ![c] = IdleClient]
        /\ \/ UNCHANGED <<node, owned>>
           \/ /\ node' = [i \in DOMAIN node \ {id} |-> node[i]]
              /\ owned' = owned \ {o \in owned : o[1] = id}
    BY <1>10, Zenon DEF DeleteNode, Stop, To
  <2>2. \A d \in Clients : client'[d].at = "insert" => client[d].at = "insert"
    BY <1>0, <2>1 DEF ClientsTyped, IdleClient
  <2>3. CASE UNCHANGED <<node, owned>>
    BY <1>3, <2>1, <2>2, <2>3
  <2>4. CASE /\ node' = [i \in DOMAIN node \ {id} |-> node[i]]
             /\ owned' = owned \ {o \in owned : o[1] = id}
    <3>1. /\ DOMAIN node' = DOMAIN node \ {id} /\ DOMAIN node' \subseteq DOMAIN node
          /\ \A i \in DOMAIN node' : node'[i] = node[i]
      BY <2>4
    <3>2. IsFiniteSet(DOMAIN node') /\ Cardinality(DOMAIN node') <= Cardinality(DOMAIN node)
      BY <1>0, <3>1, FS_Subset DEF RowsTyped
    <3>3. RowsTyped'
      BY <1>0, <2>1, <2>4, <3>1, <3>2 DEF RowsTyped
    <3>4. NodesWithinPlan'
      BY <1>0, <3>1, <3>2, FS_CardinalityType, RegistryAssumption DEF RowsTyped, NodesWithinPlan
    <3>5. NoOrphanCamera' /\ NoteOnlyBeforeFirstContact'
      BY <1>0, <2>4, <3>1 DEF NoOrphanCamera, NoteOnlyBeforeFirstContact
    <3> QED BY <1>0, <2>1, <2>2, <3>1, <3>3, <3>4, <3>5, CountKept
  <2> QED BY <2>1, <2>3, <2>4
<1>11. ASSUME NEW id \in Ids, RotateApiKey(id) PROVE Goal
  <2> DEFINE row == [node[id] EXCEPT !.key = keys + 1]
  <2>1. /\ id \in DOMAIN node /\ node' = With(id, row) /\ keys' = keys + 1
        /\ UNCHANGED <<owned, client, capLock>>
    BY <1>11, Zenon DEF RotateApiKey
  <2>2. node[id] \in Row /\ keys' \in Int
    BY <1>0, <2>1 DEF RowsTyped
  <2>3. (node[id].note = "bad key") => ~node[id].seen
    BY <1>0, <2>1 DEF NoteOnlyBeforeFirstContact
  <2>4. row \in Row /\ (row.note = "bad key" => ~row.seen)
    BY <1>0, <2>1, <2>2, <2>3 DEF Row
  <2>5. RowWritten(id, row)
    BY <2>1, <2>4, Zenon DEF RowWritten
  <2> QED BY <1>4, <2>1, <2>2, <2>5
<1>12. ASSUME UNCHANGED registryVars PROVE Goal
  BY <1>3, <1>12 DEF registryVars
<1> HIDE DEF Goal
<1>13. Goal
  BY <1>1, <1>2, <1>5, <1>6, <1>7, <1>8, <1>9, <1>10, <1>11, <1>12 DEF RegistryNext
<1> QED BY <1>13 DEF Goal

LEMMA RegistryInvariant == RegistrySpec => []RegistryIInv
<1>1. RegistryIInv /\ [RegistryNext]_registryVars => RegistryIInv'
  BY ClientStep, RegistryStep DEF RegistryIInv
<1> QED BY <1>1, RegistryInitIInv, PTL DEF RegistrySpec

\* However many creates of an org run at once, the advisory lock keeps the count
\* of nodes within the plan, and an id that another org holds is never taken.
THEOREM NodesWithinPlanAlways == RegistrySpec => []NodesWithinPlan
  BY RegistryInvariant, PTL DEF RegistryIInv

\* delete_node's transaction takes the cameras with their node, also those that
\* a registration added after it looked.
THEOREM NoOrphanCameraAlways == RegistrySpec => []NoOrphanCamera
  BY RegistryInvariant, PTL DEF RegistryIInv

\* record_bad_key_attempt writes only while the node was never seen, and the
\* first contact clears the note in the statement that records it.
THEOREM NoteOnlyBeforeFirstContactAlways == RegistrySpec => []NoteOnlyBeforeFirstContact
  BY RegistryInvariant, PTL DEF RegistryIInv

-------------------------------------------------------------------------------
(* Presence and what the org is told of it.                                *)

Beat == [at : {"idle", "node", "known", "camera", "tell_node", "tell_camera"},
         node : {"unread", "offline", "online"}, camera : Statuses \union {"unread"},
         report : Reports \union {"online"}]

PresenceTyped ==
    /\ status \in [Things -> Statuses] /\ status["node"] \in Words
    /\ stale \in [Things -> BOOLEAN]
    /\ beat \in [Beats -> Beat]
    /\ \A b \in Beats : beat[b].at = "idle" => beat[b] = IdleBeat
    /\ lastWord \in [Things -> Words] /\ disturbed \in BOOLEAN

\* A sweep announces what its statements returned, the nodes first.
SweepHolds ==
    \/ sweep = IdleSweep
    \/ sweep.at = "cameras" /\ sweep = [at |-> "cameras", tell |-> sweep.tell]
         /\ sweep.tell \in {<< >>, <<"node">>}
    \/ sweep.at = "tell" /\ sweep = [at |-> "tell", tell |-> sweep.tell]
         /\ sweep.tell \in {<< >>, <<"node">>, <<"camera">>, <<"node", "camera">>}

\* While nothing is disturbed, one heartbeat or the sweep is under way.
OneAtATime ==
    ~disturbed =>
        \A b \in Beats : beat[b] # IdleBeat =>
            sweep = IdleSweep /\ \A a \in Beats : a # b => beat[a] = IdleBeat

Node(word) == lastWord["node"] = word
CameraTold(s) == s = "offline" => lastWord["camera"] = "offline"

\* What the org has been told is what the row said when the heartbeat read it,
\* until the heartbeat tells it of the change.
Tells(r) ==
    /\ r.at # "node" => status["node"] = "online"
    /\ r.at # "tell_camera" => Node(r.node)
    /\ r.at = "node" => Node(status["node"])
    /\ r.at = "tell_camera" => Node("online")
    /\ r.at \in {"node", "known", "camera"} => CameraTold(status["camera"])
    /\ r.at = "camera" => r.camera = status["camera"]
    /\ r.at \in {"tell_node", "tell_camera"} =>
          r.report = status["camera"] /\ CameraTold(r.camera)

\* What a sweep took offline it has still to tell.
SweepTold ==
    /\ IF sweep.tell \in {<<"node">>, <<"node", "camera">>}
       THEN status["node"] = "offline" ELSE Node(status["node"])
    /\ IF sweep.tell \in {<<"camera">>, <<"node", "camera">>}
       THEN status["camera"] = "offline" ELSE CameraTold(status["camera"])

WordHolds ==
    ~disturbed =>
        /\ \A b \in Beats : beat[b] # IdleBeat => Tells(beat[b])
        /\ sweep # IdleSweep => SweepTold
        /\ ~Busy => Node(status["node"]) /\ CameraTold(status["camera"])

PresenceIInv == PresenceTyped /\ SweepHolds /\ OneAtATime /\ WordHolds

-------------------------------------------------------------------------------
LEMMA PresenceInitIInv == PresenceInit => PresenceIInv
<1> SUFFICES ASSUME PresenceInit PROVE PresenceIInv
  OBVIOUS
<1>1. IdleBeat \in Beat
  BY DEF IdleBeat, Beat
<1>2. PresenceTyped
  BY <1>1 DEF PresenceInit, PresenceTyped, Things, Statuses, Words
<1>3. SweepHolds /\ OneAtATime
  BY DEF PresenceInit, SweepHolds, OneAtATime
<1>4. WordHolds
  BY DEF PresenceInit, WordHolds, Node, CameraTold, Things
<1> QED BY <1>2, <1>3, <1>4 DEF PresenceIInv

\* emit_*_transition either says the word or makes the run a disturbed one.
LEMMA AnnounceEffect ==
    ASSUME PresenceTyped, NEW x \in Things, NEW word \in Words, Announce(x, word)
    PROVE  /\ lastWord' \in [Things -> Words] /\ disturbed' \in BOOLEAN
           /\ ~disturbed' => /\ ~disturbed /\ lastWord'[x] = word
                             /\ \A y \in Things : y # x => lastWord'[y] = lastWord[y]
<1>1. lastWord \in [Things -> Words] /\ disturbed \in BOOLEAN
  BY DEF PresenceTyped
<1>2. CASE <<x, word>> \in debounced
  <2>1. disturbed' = TRUE /\ lastWord' = lastWord
    BY <1>2 DEF Announce
  <2> QED BY <1>1, <2>1
<1>3. CASE <<x, word>> \notin debounced
  <2>1. disturbed' = disturbed /\ lastWord' = [lastWord EXCEPT ![x] = word]
    BY <1>3 DEF Announce
  <2> QED BY <1>1, <2>1
<1> QED BY <1>2, <1>3

LEMMA SilenceEffect ==
    ASSUME PresenceTyped, Silence
    PROVE  /\ lastWord' \in [Things -> Words] /\ disturbed' \in BOOLEAN
           /\ lastWord' = lastWord /\ disturbed' = disturbed
BY DEF PresenceTyped, Silence

\* While nothing is disturbed, a heartbeat under way is alone.
LEMMA Alone ==
    ASSUME PresenceIInv, ~disturbed, NEW b \in Beats, beat[b] # IdleBeat
    PROVE  sweep = IdleSweep /\ Tells(beat[b]) /\ \A a \in Beats : a # b => beat[a] = IdleBeat
BY DEF PresenceIInv, OneAtATime, WordHolds

LEMMA BeatMoves ==
    ASSUME PresenceIInv, NEW b \in Beats, NEW r \in Beat,
           beat' = [beat EXCEPT ![b] = r], sweep' = sweep, r.at = "idle" => r = IdleBeat,
           status' \in [Things -> Statuses], status'["node"] \in Words,
           stale' \in [Things -> BOOLEAN], lastWord' \in [Things -> Words],
           disturbed' \in BOOLEAN,
           ~disturbed' =>
              /\ ~disturbed /\ sweep = IdleSweep
              /\ \A a \in Beats : a # b => beat[a] = IdleBeat
              /\ r # IdleBeat => Tells(r)'
              /\ r = IdleBeat => Node(status["node"])' /\ CameraTold(status["camera"])'
    PROVE  PresenceIInv'
<1>0. beat \in [Beats -> Beat] /\ \A a \in Beats : beat[a].at = "idle" => beat[a] = IdleBeat
  BY DEF PresenceIInv, PresenceTyped
<1>1. \A a \in Beats : beat'[a] = IF a = b THEN r ELSE beat[a]
  BY <1>0
<1>2. PresenceTyped'
  <2>1. beat' \in [Beats -> Beat]
    BY <1>0
  <2>2. \A a \in Beats : beat'[a].at = "idle" => beat'[a] = IdleBeat
    BY <1>0, <1>1
  <2> QED BY <2>1, <2>2 DEF PresenceTyped
<1>3. SweepHolds'
  BY DEF PresenceIInv, SweepHolds
<1>4. OneAtATime'
  BY <1>1 DEF OneAtATime
<1>5. WordHolds'
  <2> SUFFICES ASSUME ~disturbed'
               PROVE  /\ \A a \in Beats : beat'[a] # IdleBeat => Tells(beat[a])'
                      /\ ~(sweep' # IdleSweep)
                      /\ ~Busy' => Node(status["node"])' /\ CameraTold(status["camera"])'
    BY DEF WordHolds
  <2>1. ASSUME NEW a \in Beats, beat'[a] # IdleBeat PROVE Tells(beat[a])'
    <3>1. a = b /\ beat'[a] = r
      BY <1>1, <2>1
    <3>2. Tells(r)'
      BY <2>1, <3>1
    <3> QED BY <3>1, <3>2 DEF Tells
  <2>2. ASSUME ~Busy' PROVE r = IdleBeat
    BY <1>1, <2>2 DEF Busy
  <2> QED BY <2>1, <2>2
<1> QED BY <1>2, <1>3, <1>4, <1>5 DEF PresenceIInv

LEMMA BeatStep ==
    ASSUME PresenceIInv, NEW b \in Beats,
           \/ BeatReads(b) \/ BeatWritesNode(b) \/ BeatReadsCamera(b)
           \/ BeatWritesCamera(b) \/ BeatTellsNode(b) \/ BeatTellsCamera(b)
           \/ BeatFails(b)
    PROVE  PresenceIInv'
<1>0. /\ PresenceTyped /\ beat[b] \in Beat /\ beat \in [Beats -> Beat]
      /\ status \in [Things -> Statuses] /\ status["node"] \in Words
      /\ stale \in [Things -> BOOLEAN] /\ lastWord \in [Things -> Words]
      /\ disturbed \in BOOLEAN
      /\ "node" \in Things /\ "camera" \in Things
  BY DEF PresenceIInv, PresenceTyped, Things
<1>i. IdleBeat \in Beat /\ IdleBeat.at = "idle"
  BY DEF IdleBeat, Beat
<1>1. ASSUME BeatReads(b) PROVE PresenceIInv'
  <2>1. PICK said \in Reports :
          beat' = [beat EXCEPT ![b] = [at |-> "node", node |-> status["node"],
                                       camera |-> "unread", report |-> said]]
    BY <1>1 DEF BeatReads
  <2>0. PICK r : r = [at |-> "node", node |-> status["node"], camera |-> "unread",
                       report |-> said]
    OBVIOUS
  <2>2. UNCHANGED <<status, stale, sweep, lastWord>> /\ beat[b] = IdleBeat
    BY <1>1 DEF BeatReads
  <2>3. disturbed' \in BOOLEAN /\ (~disturbed' => ~disturbed /\ ~Busy)
    <3>1. disturbed' = (disturbed \/ Busy)
      BY <1>1 DEF BeatReads
    <3> QED BY <1>0, <3>1
  <2>4. r \in Beat /\ r.at = "node" /\ r.node = status["node"]
    BY <1>0, <2>0 DEF Beat, Words
  <2>5. ASSUME ~disturbed'
        PROVE  /\ sweep = IdleSweep /\ \A a \in Beats : beat[a] = IdleBeat
               /\ Node(status["node"]) /\ CameraTold(status["camera"])
    BY <2>3, <2>5 DEF Busy, PresenceIInv, WordHolds
  <2>6. ASSUME ~disturbed' PROVE Tells(r)'
    BY <2>2, <2>4, <2>5, <2>6 DEF Tells, Node, CameraTold
  <2>7. r # IdleBeat
    BY <1>i, <2>4
  <2>8. beat' = [beat EXCEPT ![b] = r]
    BY <2>0, <2>1
  <2> QED BY <1>0, <2>2, <2>3, <2>4, <2>5, <2>6, <2>7, <2>8, BeatMoves
<1>2. ASSUME BeatWritesNode(b) PROVE PresenceIInv'
  <2>0. PICK r : r = [beat[b] EXCEPT !.at = "known"]
    OBVIOUS
  <2>1. /\ beat[b].at = "node" /\ beat' = [beat EXCEPT ![b] = r] /\ sweep' = sweep
        /\ status' = [status EXCEPT !["node"] = "online"]
        /\ stale' = [stale EXCEPT !["node"] = FALSE]
    BY <1>2, <2>0 DEF BeatWritesNode
  <2>2. lastWord' = lastWord /\ disturbed' = disturbed
    BY <1>2 DEF BeatWritesNode, Silence
  <2>3. r \in Beat /\ r.at = "known" /\ r.node = beat[b].node
    BY <1>0, <2>0, <2>1 DEF Beat
  <2>4. /\ status' \in [Things -> Statuses] /\ status'["node"] = "online"
        /\ status'["camera"] = status["camera"] /\ stale' \in [Things -> BOOLEAN]
    BY <1>0, <2>1 DEF Statuses
  <2>5. beat[b] # IdleBeat /\ r # IdleBeat
    BY <1>i, <2>1, <2>3
  <2>6. ASSUME ~disturbed PROVE Tells(r)'
    <3>1. Tells(beat[b])
      BY <2>5, <2>6, Alone
    <3> QED BY <2>1, <2>2, <2>3, <2>4, <3>1 DEF Tells, Node, CameraTold
  <2>7. "online" \in Words
    BY DEF Words
  <2> QED BY <1>0, <1>i, <2>1, <2>2, <2>3, <2>4, <2>5, <2>6, <2>7, Alone, BeatMoves
<1>3. ASSUME BeatReadsCamera(b) PROVE PresenceIInv'
  <2>0. PICK r : r = [beat[b] EXCEPT !.at = "camera", !.camera = status["camera"]]
    OBVIOUS
  <2>1. /\ beat[b].at = "known" /\ beat' = [beat EXCEPT ![b] = r]
        /\ UNCHANGED <<status, stale, sweep>>
    BY <1>3, <2>0 DEF BeatReadsCamera
  <2>2. lastWord' = lastWord /\ disturbed' = disturbed
    BY <1>3 DEF BeatReadsCamera, Silence
  <2>3. r \in Beat /\ r.at = "camera" /\ r.node = beat[b].node /\ r.camera = status["camera"]
    BY <1>0, <2>0, <2>1 DEF Beat
  <2>5. beat[b] # IdleBeat /\ r # IdleBeat
    BY <1>i, <2>1, <2>3
  <2>6. ASSUME ~disturbed PROVE Tells(r)'
    <3>1. Tells(beat[b])
      BY <2>5, <2>6, Alone
    <3> QED BY <2>1, <2>2, <2>3, <3>1 DEF Tells, Node, CameraTold
  <2> QED BY <1>0, <1>i, <2>1, <2>2, <2>3, <2>5, <2>6, Alone, BeatMoves
<1>4. ASSUME BeatWritesCamera(b) PROVE PresenceIInv'
  <2>0. PICK r : r = [beat[b] EXCEPT !.at = "tell_node"]
    OBVIOUS
  <2>1. /\ beat[b].at = "camera" /\ beat' = [beat EXCEPT ![b] = r] /\ sweep' = sweep
        /\ status' = [status EXCEPT !["camera"] = beat[b].report]
        /\ stale' = [stale EXCEPT !["camera"] = FALSE]
    BY <1>4, <2>0 DEF BeatWritesCamera
  <2>2. lastWord' = lastWord /\ disturbed' = disturbed
    BY <1>4 DEF BeatWritesCamera, Silence
  <2>3. /\ r \in Beat /\ r.at = "tell_node" /\ r.node = beat[b].node
        /\ r.camera = beat[b].camera /\ r.report = beat[b].report
    BY <1>0, <2>0, <2>1 DEF Beat
  <2>4. /\ status' \in [Things -> Statuses] /\ status'["node"] = status["node"]
        /\ status'["camera"] = beat[b].report /\ stale' \in [Things -> BOOLEAN]
    <3>1. beat[b].report \in Statuses
      BY <1>0, ReportsAssumption DEF Beat, Statuses
    <3> QED BY <1>0, <2>1, <3>1
  <2>5. beat[b] # IdleBeat /\ r # IdleBeat
    BY <1>i, <2>1, <2>3
  <2>6. ASSUME ~disturbed PROVE Tells(r)'
    <3>1. Tells(beat[b])
      BY <2>5, <2>6, Alone
    <3> QED BY <2>1, <2>2, <2>3, <2>4, <3>1 DEF Tells, Node, CameraTold
  <2> QED BY <1>0, <1>i, <2>1, <2>2, <2>3, <2>4, <2>5, <2>6, Alone, BeatMoves
<1>5. ASSUME BeatTellsNode(b) PROVE PresenceIInv'
  <2>0. PICK r : r = [beat[b] EXCEPT !.at = "tell_camera"]
    OBVIOUS
  <2>1. /\ beat[b].at = "tell_node" /\ beat' = [beat EXCEPT ![b] = r]
        /\ UNCHANGED <<status, stale, sweep>>
    BY <1>5, <2>0 DEF BeatTellsNode
  <2>2. r \in Beat /\ r.at = "tell_camera" /\ r.camera = beat[b].camera
        /\ r.report = beat[b].report
    BY <1>0, <2>0, <2>1 DEF Beat
  <2>3. /\ lastWord' \in [Things -> Words] /\ disturbed' \in BOOLEAN
        /\ ~disturbed' => /\ ~disturbed /\ lastWord'["camera"] = lastWord["camera"]
                          /\ IF NodeCameOnline(beat[b].node) THEN lastWord'["node"] = "online"
                             ELSE lastWord'["node"] = lastWord["node"]
    <3>1. CASE NodeCameOnline(beat[b].node)
      <4>1. Announce("node", "online") /\ "online" \in Words
        BY <1>5, <3>1 DEF BeatTellsNode, Words
      <4> QED BY <1>0, <3>1, <4>1, AnnounceEffect
    <3>2. CASE ~NodeCameOnline(beat[b].node)
      <4>1. Silence
        BY <1>5, <3>2 DEF BeatTellsNode
      <4> QED BY <1>0, <3>2, <4>1, SilenceEffect
    <3> QED BY <3>1, <3>2
  <2>5. beat[b] # IdleBeat /\ r # IdleBeat
    BY <1>i, <2>1, <2>2
  <2>6. ASSUME ~disturbed' PROVE Tells(r)'
    <3>1. Tells(beat[b])
      BY <2>3, <2>5, <2>6, Alone
    <3>2. lastWord'["node"] = "online"
      BY <2>1, <2>3, <2>6, <3>1 DEF Tells, Node, NodeCameOnline
    <3> QED BY <2>1, <2>2, <2>3, <2>6, <3>1, <3>2 DEF Tells, Node, CameraTold
  <2> QED BY <1>0, <1>i, <2>1, <2>2, <2>3, <2>5, <2>6, Alone, BeatMoves
<1>6. ASSUME BeatTellsCamera(b) PROVE PresenceIInv'
  <2> DEFINE word == CameraTransition(beat[b].camera, beat[b].report)
  <2>1. /\ beat[b].at = "tell_camera" /\ beat' = [beat EXCEPT ![b] = IdleBeat]
        /\ UNCHANGED <<status, stale, sweep>>
    BY <1>6 DEF BeatTellsCamera
  <2>2. word \in {"online", "offline", "none"}
    BY DEF CameraTransition
  <2>3. /\ lastWord' \in [Things -> Words] /\ disturbed' \in BOOLEAN
        /\ ~disturbed' => /\ ~disturbed /\ lastWord'["node"] = lastWord["node"]
                          /\ IF word # "none" THEN lastWord'["camera"] = word
                             ELSE lastWord'["camera"] = lastWord["camera"]
    <3>1. CASE word # "none"
      <4>1. Announce("camera", word) /\ word \in Words
        BY <1>6, <2>2, <3>1 DEF BeatTellsCamera, Words
      <4> HIDE DEF word
      <4> QED BY <1>0, <3>1, <4>1, AnnounceEffect
    <3>2. CASE word = "none"
      <4>1. Silence
        BY <1>6, <3>2 DEF BeatTellsCamera
      <4> HIDE DEF word
      <4> QED BY <1>0, <3>2, <4>1, SilenceEffect
    <3> QED BY <3>1, <3>2
  <2>5. beat[b] # IdleBeat
    BY <1>i, <2>1
  <2>6. ASSUME ~disturbed' PROVE Node(status["node"])' /\ CameraTold(status["camera"])'
    <3>1. Tells(beat[b])
      BY <2>3, <2>5, <2>6, Alone
    <3>2. /\ status["node"] = "online" /\ lastWord["node"] = "online"
          /\ beat[b].report = status["camera"]
          /\ beat[b].camera = "offline" => lastWord["camera"] = "offline"
      BY <2>1, <3>1 DEF Tells, Node, CameraTold
    <3>3. status["camera"] = "offline" => lastWord'["camera"] = "offline"
      BY <2>3, <2>6, <3>2 DEF CameraTransition
    <3> QED BY <2>1, <2>3, <2>6, <3>2, <3>3 DEF Node, CameraTold
  <2> HIDE DEF word
  <2> QED BY <1>0, <1>i, <2>1, <2>3, <2>5, <2>6, Alone, BeatMoves
<1>7. ASSUME BeatFails(b) PROVE PresenceIInv'
  <2>1. /\ beat' = [beat EXCEPT ![b] = IdleBeat] /\ disturbed' = TRUE
        /\ UNCHANGED <<status, stale, sweep, lastWord>>
    BY <1>7 DEF BeatFails
  <2> QED BY <1>0, <1>i, <2>1, BeatMoves
<1> QED BY <1>1, <1>2, <1>3, <1>4, <1>5, <1>6, <1>7

\* What a sweep can have to announce, told apart.
LEMMA Tellings ==
    /\ Append(<< >>, "node") = <<"node">> /\ Append(<< >>, "camera") = <<"camera">>
    /\ Append(<<"node">>, "camera") = <<"node", "camera">>
    /\ Head(<<"node">>) = "node" /\ Tail(<<"node">>) = << >>
    /\ Head(<<"camera">>) = "camera" /\ Tail(<<"camera">>) = << >>
    /\ Head(<<"node", "camera">>) = "node" /\ Tail(<<"node", "camera">>) = <<"camera">>
    /\ << >> # <<"node">> /\ << >> # <<"camera">> /\ << >> # <<"node", "camera">>
    /\ <<"node">> # <<"camera">> /\ <<"node">> # <<"node", "camera">>
    /\ <<"camera">> # <<"node", "camera">>
<1>1. /\ Append(<< >>, "node") = <<"node">> /\ Append(<< >>, "camera") = <<"camera">>
      /\ Append(<<"node">>, "camera") = <<"node", "camera">>
  <2>1. Append(<< >>, "node") = <<"node">>
    OBVIOUS
  <2>2. Append(<< >>, "camera") = <<"camera">>
    OBVIOUS
  <2>3. Append(<<"node">>, "camera") = <<"node", "camera">>
    <3> DEFINE both == Append(<<"node">>, "camera")
    <3>1. <<"node">> \in Seq({"node", "camera"}) /\ Len(<<"node">>) = 1 /\ <<"node">>[1] = "node"
      OBVIOUS
    <3>2. /\ both \in Seq({"node", "camera"}) /\ Len(both) = 2
          /\ both[1] = "node" /\ both[2] = "camera"
      BY <3>1, AppendProperties
    <3> HIDE DEF both
    <3>3. both = <<both[1], both[2]>>
      BY <3>2
    <3> QED BY <3>2, <3>3 DEF both
  <2> QED BY <2>1, <2>2, <2>3
<1>2. Head(<<"node">>) = "node" /\ Head(<<"camera">>) = "camera"
      /\ Head(<<"node", "camera">>) = "node"
  OBVIOUS
<1>3. /\ Tail(<<"node">>) = << >> /\ Tail(<<"camera">>) = << >>
      /\ Tail(<<"node", "camera">>) = <<"camera">>
  OBVIOUS
<1>4. /\ << >> # <<"node">> /\ << >> # <<"camera">> /\ << >> # <<"node", "camera">>
      /\ <<"node">> # <<"camera">> /\ <<"node">> # <<"node", "camera">>
      /\ <<"camera">> # <<"node", "camera">>
  OBVIOUS
<1> QED BY <1>1, <1>2, <1>3, <1>4

LEMMA SweepMoves ==
    ASSUME PresenceIInv, beat' = beat, stale' = stale, SweepHolds',
           status' \in [Things -> Statuses], status'["node"] \in Words,
           lastWord' \in [Things -> Words], disturbed' \in BOOLEAN,
           ~disturbed' =>
              /\ \A b \in Beats : beat[b] = IdleBeat
              /\ sweep' # IdleSweep => SweepTold'
              /\ sweep' = IdleSweep => Node(status["node"])' /\ CameraTold(status["camera"])'
    PROVE  PresenceIInv'
<1>1. PresenceTyped'
  BY DEF PresenceIInv, PresenceTyped
<1>2. OneAtATime'
  BY DEF OneAtATime
<1>3. WordHolds'
  BY DEF WordHolds, Busy
<1> QED BY <1>1, <1>2, <1>3 DEF PresenceIInv

LEMMA SweepThingStep ==
    ASSUME PresenceIInv, SweepNodes \/ SweepCameras
    PROVE  PresenceIInv'
<1>0. /\ status \in [Things -> Statuses] /\ status["node"] \in Words
      /\ lastWord \in [Things -> Words] /\ disturbed \in BOOLEAN
      /\ "node" \in Things /\ "camera" \in Things /\ "node" # "camera"
      /\ "offline" \in Statuses /\ "offline" \in Words
  BY DEF PresenceIInv, PresenceTyped, Things, Statuses, Words
<1>i. IdleSweep.at = "idle" /\ IdleSweep.tell = << >>
  BY DEF IdleSweep
<1>1. ASSUME SweepNodes PROVE PresenceIInv'
  <2>1. /\ sweep.at = "idle" /\ UNCHANGED <<stale, beat, lastWord>>
        /\ status' = [status EXCEPT !["node"] = IF StaleBeat("node") THEN "offline" ELSE @]
        /\ sweep' = [at |-> "cameras", tell |-> IF StaleBeat("node") THEN Append(sweep.tell, "node")
                                                ELSE sweep.tell]
        /\ disturbed' = (disturbed \/ \E b \in Beats : beat[b] # IdleBeat)
    BY <1>1 DEF SweepNodes, SweepThing
  <2>2. sweep = IdleSweep
    BY <2>1 DEF PresenceIInv, SweepHolds
  <2>3. /\ sweep'.at = "cameras" /\ sweep' = [at |-> "cameras", tell |-> sweep'.tell]
        /\ sweep'.tell = IF StaleBeat("node") THEN <<"node">> ELSE << >>
    BY <1>i, <2>1, <2>2, Tellings
  <2>4. /\ status' \in [Things -> Statuses] /\ status'["camera"] = status["camera"]
        /\ status'["node"] = IF StaleBeat("node") THEN "offline" ELSE status["node"]
    BY <1>0, <2>1
  <2>5. SweepHolds' /\ sweep' # IdleSweep
    BY <1>i, <2>3 DEF SweepHolds
  <2>6. ASSUME ~disturbed'
        PROVE  ~disturbed /\ \A b \in Beats : beat[b] = IdleBeat
    BY <2>1, <2>6
  <2>7. ASSUME ~disturbed' PROVE SweepTold'
    <3>1. lastWord["node"] = status["node"] /\ CameraTold(status["camera"])
      BY <2>2, <2>6, <2>7 DEF PresenceIInv, WordHolds, Busy, Node
    <3> QED BY <2>1, <2>3, <2>4, <3>1, Tellings DEF SweepTold, Node, CameraTold
  <2>8. status'["node"] \in Words /\ disturbed' \in BOOLEAN
    BY <1>0, <2>1, <2>4
  <2> QED BY <1>0, <2>1, <2>4, <2>5, <2>6, <2>7, <2>8, SweepMoves
<1>2. ASSUME SweepCameras PROVE PresenceIInv'
  <2>1. /\ sweep.at = "cameras" /\ UNCHANGED <<stale, beat, lastWord>>
        /\ status' = [status EXCEPT !["camera"] = IF StaleBeat("camera") THEN "offline" ELSE @]
        /\ sweep' = [at |-> "tell", tell |-> IF StaleBeat("camera") THEN Append(sweep.tell, "camera")
                                             ELSE sweep.tell]
        /\ disturbed' = (disturbed \/ \E b \in Beats : beat[b] # IdleBeat)
    BY <1>2 DEF SweepCameras, SweepThing
  <2>2. sweep.tell \in {<< >>, <<"node">>} /\ sweep # IdleSweep
    BY <1>i, <2>1 DEF PresenceIInv, SweepHolds
  <2>3. /\ sweep'.at = "tell" /\ sweep' = [at |-> "tell", tell |-> sweep'.tell]
        /\ sweep'.tell = IF StaleBeat("camera")
                         THEN IF sweep.tell = << >> THEN <<"camera">> ELSE <<"node", "camera">>
                         ELSE sweep.tell
    BY <2>1, <2>2, Tellings
  <2>4. /\ status' \in [Things -> Statuses] /\ status'["node"] = status["node"]
        /\ status'["camera"] = IF StaleBeat("camera") THEN "offline" ELSE status["camera"]
    BY <1>0, <2>1
  <2>5. SweepHolds' /\ sweep' # IdleSweep
    BY <1>i, <2>2, <2>3 DEF SweepHolds
  <2>6. ASSUME ~disturbed'
        PROVE  ~disturbed /\ \A b \in Beats : beat[b] = IdleBeat
    BY <2>1, <2>6
  <2>7. ASSUME ~disturbed' PROVE SweepTold'
    <3>1. SweepTold
      BY <2>2, <2>6, <2>7 DEF PresenceIInv, WordHolds
    <3> QED BY <2>1, <2>2, <2>3, <2>4, <3>1, Tellings DEF SweepTold, Node, CameraTold
  <2>8. status'["node"] \in Words /\ disturbed' \in BOOLEAN
    BY <1>0, <2>1, <2>4
  <2> QED BY <1>0, <2>1, <2>4, <2>5, <2>6, <2>7, <2>8, SweepMoves
<1> QED BY <1>1, <1>2

LEMMA SweepTellsStep ==
    ASSUME PresenceIInv, SweepTells
    PROVE  PresenceIInv'
<1>0. /\ PresenceTyped /\ status \in [Things -> Statuses] /\ status["node"] \in Words
      /\ "node" \in Things /\ "camera" \in Things /\ "offline" \in Words
  BY DEF PresenceIInv, PresenceTyped, Things, Words
<1>i. IdleSweep.at = "idle" /\ IdleSweep.tell = << >>
  BY DEF IdleSweep
<1>1. sweep.at = "tell" /\ UNCHANGED <<status, stale, beat>>
  BY DEF SweepTells
<1>2. /\ sweep = [at |-> "tell", tell |-> sweep.tell] /\ sweep # IdleSweep
      /\ sweep.tell \in {<< >>, <<"node">>, <<"camera">>, <<"node", "camera">>}
  BY <1>i, <1>1 DEF PresenceIInv, SweepHolds
<1>3. ASSUME ~disturbed PROVE SweepTold /\ \A b \in Beats : beat[b] = IdleBeat
  BY <1>2, <1>3 DEF PresenceIInv, WordHolds, OneAtATime
<1>4. ASSUME sweep.tell = << >> PROVE PresenceIInv'
  <2>1. sweep' = IdleSweep /\ Silence
    BY <1>4 DEF SweepTells
  <2>2. /\ lastWord' \in [Things -> Words] /\ disturbed' \in BOOLEAN
        /\ lastWord' = lastWord /\ disturbed' = disturbed
    BY <1>0, <2>1, SilenceEffect
  <2>3. SweepHolds'
    BY <2>1 DEF SweepHolds
  <2>4. ASSUME ~disturbed' PROVE Node(status["node"])' /\ CameraTold(status["camera"])'
    <3>1. Node(status["node"]) /\ CameraTold(status["camera"])
      BY <1>3, <1>4, <2>2, <2>4, Tellings DEF SweepTold
    <3> QED BY <1>1, <2>2, <3>1 DEF Node, CameraTold
  <2> QED BY <1>0, <1>1, <1>3, <2>1, <2>2, <2>3, <2>4, SweepMoves
<1>5. ASSUME sweep.tell # << >> PROVE PresenceIInv'
  <2>1. PICK x \in Things : x = Head(sweep.tell)
    BY <1>0, <1>2, <1>5, Tellings
  <2>2. Announce(x, "offline") /\ sweep' = [sweep EXCEPT !.tell = Tail(@)]
    BY <1>5, <2>1 DEF SweepTells
  <2>3. /\ lastWord' \in [Things -> Words] /\ disturbed' \in BOOLEAN
        /\ ~disturbed' => /\ ~disturbed /\ lastWord'[x] = "offline"
                          /\ \A y \in Things : y # x => lastWord'[y] = lastWord[y]
    BY <1>0, <2>2, AnnounceEffect
  <2>4. /\ sweep' = [at |-> "tell", tell |-> sweep'.tell] /\ sweep'.at = "tell"
        /\ sweep'.tell = Tail(sweep.tell)
    <3>1. PICK t : sweep = [at |-> "tell", tell |-> t]
      BY <1>2
    <3>2. sweep' = [at |-> "tell", tell |-> Tail(t)]
      BY <2>2, <3>1
    <3> QED BY <3>1, <3>2
  <2>5. SweepHolds' /\ sweep' # IdleSweep
    BY <1>i, <1>2, <1>5, <2>4, Tellings DEF SweepHolds
  <2>6. ASSUME ~disturbed' PROVE SweepTold'
    <3>1. SweepTold
      BY <1>3, <2>3, <2>6
    <3>2. CASE sweep.tell = <<"node">>
      <4>1. x = "node" /\ sweep'.tell = << >>
        BY <2>1, <2>4, <3>2, Tellings
      <4> QED BY <1>0, <1>1, <2>3, <2>6, <3>1, <3>2, <4>1, Tellings DEF SweepTold, Node, CameraTold
    <3>3. CASE sweep.tell = <<"camera">>
      <4>1. x = "camera" /\ sweep'.tell = << >>
        BY <2>1, <2>4, <3>3, Tellings
      <4> QED BY <1>0, <1>1, <2>3, <2>6, <3>1, <3>3, <4>1, Tellings DEF SweepTold, Node, CameraTold
    <3>4. CASE sweep.tell = <<"node", "camera">>
      <4>1. x = "node" /\ sweep'.tell = <<"camera">>
        BY <2>1, <2>4, <3>4, Tellings
      <4> QED BY <1>0, <1>1, <2>3, <2>6, <3>1, <3>4, <4>1, Tellings DEF SweepTold, Node, CameraTold
    <3> QED BY <1>2, <1>5, <3>2, <3>3, <3>4
  <2> QED BY <1>0, <1>1, <1>3, <2>3, <2>5, <2>6, SweepMoves
<1> QED BY <1>4, <1>5

\* Time passes, and the debounce forgets: nothing the org was told is touched.
LEMMA QuietStep ==
    ASSUME PresenceIInv, UNCHANGED <<status, beat, sweep, lastWord, disturbed>>,
           stale' \in [Things -> BOOLEAN]
    PROVE  PresenceIInv'
<1>1. PresenceTyped'
  BY DEF PresenceIInv, PresenceTyped
<1>2. SweepHolds' /\ OneAtATime'
  BY DEF PresenceIInv, SweepHolds, OneAtATime
<1>3. WordHolds'
  BY DEF PresenceIInv, WordHolds, Tells, SweepTold, Busy, Node, CameraTold
<1> QED BY <1>1, <1>2, <1>3 DEF PresenceIInv

LEMMA PresenceStep == PresenceIInv /\ [PresenceNext]_presenceVars => PresenceIInv'
<1> SUFFICES ASSUME PresenceIInv, [PresenceNext]_presenceVars PROVE PresenceIInv'
  OBVIOUS
<1>1. stale \in [Things -> BOOLEAN]
  BY DEF PresenceIInv, PresenceTyped
<1>2. CASE \E b \in Beats :
             \/ BeatReads(b) \/ BeatWritesNode(b) \/ BeatReadsCamera(b)
             \/ BeatWritesCamera(b) \/ BeatTellsNode(b) \/ BeatTellsCamera(b)
             \/ BeatFails(b)
  BY <1>2, BeatStep
<1>3. CASE SweepNodes \/ SweepCameras
  BY <1>3, SweepThingStep
<1>4. CASE SweepTells
  BY <1>4, SweepTellsStep
<1>5. ASSUME NEW x \in Things, Lapse(x) PROVE PresenceIInv'
  <2>1. /\ stale' = [stale EXCEPT ![x] = TRUE]
        /\ UNCHANGED <<status, beat, sweep, lastWord, disturbed>>
    BY <1>5 DEF Lapse, Silence
  <2> QED BY <1>1, <2>1, QuietStep
<1>6. ASSUME NEW x \in Things, NEW word \in Words, ForgetWord(x, word) PROVE PresenceIInv'
  BY <1>1, <1>6, QuietStep DEF ForgetWord
<1>7. CASE UNCHANGED presenceVars
  BY <1>1, <1>7, QuietStep DEF presenceVars
<1> QED BY <1>2, <1>3, <1>4, <1>5, <1>6, <1>7 DEF PresenceNext

LEMMA PresenceInvariant == PresenceSpec => []PresenceIInv
BY PresenceInitIInv, PresenceStep, PTL DEF PresenceSpec

\* What the org was told last of the node is so, and a camera that is gone is
\* known to be, between heartbeats and sweeps that did not overlap, fail or
\* repeat a word within the minute (emit_*_transition, run_offline_sweep), for
\* every number of heartbeats and every report.
THEOREM LastWordTrueAlways == PresenceSpec => []LastWordTrue
<1>1. PresenceIInv => LastWordTrue
  BY DEF PresenceIInv, WordHolds, LastWordTrue, Node, CameraTold
<1> QED BY <1>1, PresenceInvariant, PTL

-------------------------------------------------------------------------------
(* The camera cap.                                                         *)

CameraIds == UNION {CamerasOf[n] : n \in DOMAIN CamerasOf}

Request ==
    [at : {"idle", "cameras", "plan", "select", "flip"},
     node : DOMAIN CamerasOf \union {"none"}, report : SUBSET CameraIds,
     todo : SUBSET CameraIds, now : Nat, room : Int, cap : Nat,
     flips : SUBSET (CameraIds \X {"off", "on"})]

\* The cameras past the oldest that the plan keeps.
Over == DOMAIN born \ Oldest(CapOf[Effective])

RowsKept ==
    /\ IsFiniteSet(DOMAIN born) /\ DOMAIN born \subseteq CameraIds /\ inserts \in Nat
    /\ born \in [DOMAIN born -> Nat \X Nat]
    /\ \A c \in DOMAIN born : born[c][2] <= inserts
    /\ \A c, d \in DOMAIN born : born[c][2] = born[d][2] => c = d
    /\ off \subseteq DOMAIN born

\* A request flips only in its last stage, and selects by the plan as it is.
FlipsHeld ==
    \A w \in Workers :
        /\ worker[w].flips # {} => worker[w].at = "flip"
        /\ ~mixed /\ worker[w].at = "select" => worker[w].cap = CapOf[Effective]

\* No one is about to light up a camera past the oldest.
NoneRelit ==
    ~mixed /\ ~late =>
        \A w \in Workers, c \in Over : <<c, "on">> \notin worker[w].flips

\* A camera past the oldest is flagged, or some request has still to see it.
Covered(c, w) ==
    worker[w].at \in {"cameras", "plan", "select"} \/ <<c, "off">> \in worker[w].flips

RestCovered ==
    ~behind /\ ~mixed /\ ~late =>
        \A c \in Over \ off : \E w \in Workers : Covered(c, w)

CapTyped ==
    /\ nominal \in DOMAIN CapOf /\ standing \in {"paid", "grace", "over"}
    /\ moment \in Nat /\ worker \in [Workers -> Request]
    /\ behind \in BOOLEAN /\ mixed \in BOOLEAN /\ late \in BOOLEAN

CapIInv == CapTyped /\ RowsKept /\ FlipsHeld /\ NoneRelit /\ RestCovered

-------------------------------------------------------------------------------
\* The rows are strictly ordered, so that at most n of them have fewer than n
\* before them.
Older(c) == {d \in DOMAIN born : CapBefore(born[d], born[c])}

LEMMA RowsOrdered ==
    ASSUME RowsKept, NEW c \in DOMAIN born, NEW d \in DOMAIN born
    PROVE  /\ ~CapBefore(born[c], born[c])
           /\ c # d => CapBefore(born[c], born[d]) \/ CapBefore(born[d], born[c])
           /\ \A e \in DOMAIN born :
                 CapBefore(born[c], born[d]) /\ CapBefore(born[d], born[e])
                    => CapBefore(born[c], born[e])
<1>1. \A x \in DOMAIN born : born[x][1] \in Nat /\ born[x][2] \in Nat
  BY DEF RowsKept
<1>2. c # d => born[c][2] # born[d][2]
  BY DEF RowsKept
<1> QED BY <1>1, <1>2 DEF CapBefore

LEMMA FewerBefore ==
    ASSUME RowsKept, NEW c \in DOMAIN born, NEW d \in DOMAIN born, CapBefore(born[c], born[d])
    PROVE  /\ Cardinality(Older(c)) \in Nat /\ Cardinality(Older(d)) \in Nat
           /\ Cardinality(Older(c)) < Cardinality(Older(d))
<1>1. IsFiniteSet(Older(d)) /\ IsFiniteSet(Older(c))
  BY FS_Subset DEF RowsKept, Older
<1>2. Older(c) \subseteq Older(d) /\ Older(c) # Older(d)
  <2>1. Older(c) \subseteq Older(d)
    BY RowsOrdered DEF Older
  <2>2. c \in Older(d) /\ c \notin Older(c)
    BY RowsOrdered DEF Older
  <2> QED BY <2>1, <2>2
<1> QED BY <1>1, <1>2, FS_Subset, FS_CardinalityType

LEMMA OldestBound ==
    ASSUME RowsKept, NEW n \in Nat
    PROVE  IsFiniteSet(Oldest(n)) /\ Cardinality(Oldest(n)) <= n
<1>1. Oldest(n) = {c \in DOMAIN born : Cardinality(Older(c)) < n}
  BY DEF Oldest, Older
<1>2. IsFiniteSet(Oldest(n)) /\ Cardinality(Oldest(n)) \in Nat
  BY <1>1, FS_Subset, FS_CardinalityType DEF RowsKept
<1>3. IsFiniteSet(0 .. n - 1) /\ Cardinality(0 .. n - 1) = n
  BY FS_Interval
<1> SUFFICES ASSUME Cardinality(Oldest(n)) > n PROVE FALSE
  BY <1>2
<1> DEFINE rank == [c \in Oldest(n) |-> Cardinality(Older(c))]
<1>4. \A c \in DOMAIN born : IsFiniteSet(Older(c)) /\ Cardinality(Older(c)) \in Nat
  BY FS_Subset, FS_CardinalityType DEF RowsKept, Older
<1>5. rank \in [Oldest(n) -> 0 .. n - 1]
  BY <1>1, <1>4
<1>6. PICK x, y \in Oldest(n) : x # y /\ rank[x] = rank[y]
  <2>1. Cardinality(0 .. n - 1) < Cardinality(Oldest(n))
    BY <1>2, <1>3
  <2> HIDE DEF rank
  <2> QED BY <1>2, <1>3, <1>5, <2>1, FS_PigeonHole
<1>7. Cardinality(Older(x)) = Cardinality(Older(y)) /\ x \in DOMAIN born /\ y \in DOMAIN born
  BY <1>1, <1>6
<1>8. CapBefore(born[x], born[y]) \/ CapBefore(born[y], born[x])
  BY <1>6, <1>7, RowsOrdered
<1> QED BY <1>4, <1>7, <1>8, FewerBefore

\* A camera that is past the oldest was so before rows were removed.
LEMMA RemovalSpares ==
    ASSUME RowsKept, NEW S, born' = Keep(born, DOMAIN born \ S),
           UNCHANGED <<nominal, standing>>, CapTyped
    PROVE  Over' \subseteq Over
<1>1. DOMAIN born' \subseteq DOMAIN born /\ \A c \in DOMAIN born' : born'[c] = born[c]
  BY DEF Keep
<1>2. CapOf[Effective]' = CapOf[Effective] /\ CapOf[Effective] \in Nat
  BY CapAssumption DEF Effective, CapTyped
<1>3. ASSUME NEW c \in DOMAIN born' PROVE Cardinality(Older(c)') <= Cardinality(Older(c))
  <2>1. Older(c)' \subseteq Older(c)
    BY <1>1, <1>3 DEF Older
  <2> QED BY <2>1, FS_Subset DEF RowsKept, Older
<1>4. \A c \in DOMAIN born : Cardinality(Older(c)) \in Nat
  BY FS_Subset, FS_CardinalityType DEF RowsKept, Older
<1>5. \A c \in DOMAIN born' : Cardinality(Older(c)') \in Nat
  <2>1. IsFiniteSet(DOMAIN born')
    BY <1>1, FS_Subset DEF RowsKept
  <2> QED BY <2>1, FS_Subset, FS_CardinalityType DEF Older
<1>6. Over' = {c \in DOMAIN born' : ~(Cardinality(Older(c)') < CapOf[Effective])}
  BY <1>2 DEF Over, Oldest, Older
<1>7. Over = {c \in DOMAIN born : ~(Cardinality(Older(c)) < CapOf[Effective])}
  BY DEF Over, Oldest, Older
<1>8. ASSUME NEW c \in Over' PROVE c \in Over
  <2>1. c \in DOMAIN born' /\ c \in DOMAIN born
        /\ ~(Cardinality(Older(c)') < CapOf[Effective])
    BY <1>1, <1>6, <1>8
  <2>2. PICK i \in Nat, j \in Nat, k \in Nat :
          i = Cardinality(Older(c)') /\ j = Cardinality(Older(c)) /\ k = CapOf[Effective]
    BY <2>1, <1>2, <1>4, <1>5
  <2>3. ~(i < k) /\ i <= j
    BY <2>1, <2>2, <1>3
  <2>4. ~(j < k)
    BY <2>3
  <2> QED BY <2>1, <2>2, <2>4, <1>7
<1> QED BY <1>8

-------------------------------------------------------------------------------
LEMMA CapInitIInv == CapInit => CapIInv
<1> SUFFICES ASSUME CapInit PROVE CapIInv
  OBVIOUS
<1>1. IdleWorker \in Request
  BY DEF IdleWorker, Request
<1>2. CapTyped
  BY <1>1 DEF CapInit, CapTyped
<1>3. RowsKept /\ DOMAIN born = {}
  BY FS_EmptySet DEF CapInit, RowsKept
<1>4. FlipsHeld /\ NoneRelit
  BY DEF CapInit, FlipsHeld, NoneRelit, IdleWorker
<1>5. RestCovered
  BY <1>3 DEF RestCovered, Over
<1> QED BY <1>2, <1>3, <1>4, <1>5 DEF CapIInv

\* One request moves to r: what r may hold, what the rows may do meanwhile, and
\* who has to see a camera past the oldest.
LEMMA OneMoves ==
    ASSUME CapIInv, RowsKept', NEW w \in Workers, NEW r \in Request,
           worker' = [worker EXCEPT ![w] = r],
           UNCHANGED <<nominal, standing>>, moment' \in Nat,
           behind' \in BOOLEAN, mixed' \in BOOLEAN, late' \in BOOLEAN,
           ~mixed' => ~mixed, ~late' => ~late,
           r.flips # {} => r.at = "flip",
           ~mixed' /\ r.at = "select" => r.cap = CapOf[Effective],
           ~mixed' /\ ~late' /\ (\E v \in Workers : worker[v].flips # {}) => Over' \subseteq Over,
           ~mixed' /\ ~late' => \A c \in Over' : <<c, "on">> \notin r.flips,
           ~behind' /\ ~mixed' /\ ~late' =>
              \/ r.at \in {"cameras", "plan", "select"}
              \/ \A c \in Over' \ off' :
                    \/ <<c, "off">> \in r.flips
                    \/ ~behind /\ c \in Over \ off /\ ~Covered(c, w)
    PROVE  CapIInv'
<1>0. worker \in [Workers -> Request]
  BY DEF CapIInv, CapTyped
<1>1. CapOf[Effective]' = CapOf[Effective]
  BY DEF Effective
<1>2. \A v \in Workers : worker'[v] = IF v = w THEN r ELSE worker[v]
  BY <1>0
<1>3. CapTyped'
  BY <1>0 DEF CapIInv, CapTyped
<1>4. FlipsHeld'
  BY <1>1, <1>2 DEF CapIInv, FlipsHeld
<1>5. NoneRelit'
  <2> SUFFICES ASSUME ~mixed', ~late', NEW v \in Workers, NEW c \in Over'
               PROVE  <<c, "on">> \notin worker'[v].flips
    BY DEF NoneRelit
  <2>1. CASE v = w
    BY <1>2, <2>1
  <2>2. CASE v # w
    <3>1. worker'[v] = worker[v]
      BY <1>2, <2>2
    <3>2. CASE worker[v].flips = {}
      BY <3>1, <3>2
    <3>3. CASE worker[v].flips # {}
      <4>1. c \in Over
        BY <3>3
      <4> QED BY <3>1, <4>1 DEF CapIInv, NoneRelit
    <3> QED BY <3>2, <3>3
  <2> QED BY <2>1, <2>2
<1>6. RestCovered'
  <2> SUFFICES ASSUME ~behind', ~mixed', ~late', NEW c \in Over' \ off'
               PROVE  \E v \in Workers : Covered(c, v)'
    BY DEF RestCovered
  <2>1. CASE r.at \in {"cameras", "plan", "select"} \/ <<c, "off">> \in r.flips
    <3>1. Covered(c, w)'
      BY <1>2, <2>1 DEF Covered
    <3> QED BY <3>1
  <2>2. CASE ~behind /\ c \in Over \ off /\ ~Covered(c, w)
    <3>1. PICK v \in Workers : Covered(c, v)
      BY <2>2 DEF CapIInv, RestCovered
    <3>2. worker'[v] = worker[v]
      BY <1>2, <2>2, <3>1
    <3>3. Covered(c, v)'
      BY <3>1, <3>2 DEF Covered
    <3> QED BY <3>3
  <2> QED BY <2>1, <2>2
<1> QED BY <1>3, <1>4, <1>5, <1>6 DEF CapIInv

\* The rows are left alone, and so is what is past the oldest.
LEMMA RowsSame ==
    ASSUME CapIInv, UNCHANGED <<nominal, standing, born, inserts>>, off' \subseteq DOMAIN born
    PROVE  RowsKept' /\ Over' = Over
<1>1. RowsKept'
  BY DEF CapIInv, RowsKept
<1>2. Over' = Over
  BY DEF Over, Oldest, Effective
<1> QED BY <1>1, <1>2

LEMMA RegistrationStep ==
    ASSUME CapIInv, NEW w \in Workers,
           \/ \E n \in DOMAIN CamerasOf, r \in SUBSET CameraIds : CountCameras(w, n, r)
           \/ \E c \in worker[w].todo : AddCamera(w, c)
           \/ RemoveStale(w)
    PROVE  CapIInv'
<1>0. /\ CapTyped /\ RowsKept /\ worker[w] \in Request /\ worker \in [Workers -> Request]
      /\ moment \in Nat /\ behind \in BOOLEAN /\ mixed \in BOOLEAN /\ late \in BOOLEAN
  BY DEF CapIInv, CapTyped
<1>f. worker[w].at # "flip" => worker[w].flips = {}
  BY DEF CapIInv, FlipsHeld
<1>1. ASSUME NEW n \in DOMAIN CamerasOf, NEW heard \in SUBSET CameraIds, CountCameras(w, n, heard)
      PROVE  CapIInv'
  <2> DEFINE room == CapOf[nominal] - Cardinality(DOMAIN born)
             r == [at |-> "cameras", node |-> n, report |-> heard, todo |-> heard,
                   now |-> moment + 1, room |-> room, cap |-> 0, flips |-> {}]
  <2>1. room \in Int
    BY <1>0, CapAssumption, FS_CardinalityType DEF RowsKept, CapTyped
  <2>a. r \in Request /\ r.at = "cameras" /\ r.flips = {}
    <3> HIDE DEF room
    <3> QED BY <1>0, <2>1 DEF Request
  <2>2. /\ worker' = [worker EXCEPT ![w] = r] /\ moment' = moment + 1
        /\ UNCHANGED <<nominal, standing, born, off, inserts, behind, mixed, late>>
    <3>1. /\ worker' = [worker EXCEPT ![w] =
                [IdleWorker EXCEPT !.at = "cameras", !.node = n, !.now = moment + 1,
                   !.report = heard, !.todo = heard, !.room = room]]
          /\ moment' = moment + 1
          /\ UNCHANGED <<nominal, standing, born, off, inserts, behind, mixed, late>>
      BY <1>1 DEF CountCameras, Go
    <3> HIDE DEF room
    <3>2. r = [IdleWorker EXCEPT !.at = "cameras", !.node = n, !.now = moment + 1,
                 !.report = heard, !.todo = heard, !.room = room]
      <4> DEFINE q == [IdleWorker EXCEPT !.at = "cameras", !.node = n, !.now = moment + 1,
                         !.report = heard, !.todo = heard, !.room = room]
      <4>1. /\ q.at = "cameras" /\ q.node = n /\ q.now = moment + 1 /\ q.report = heard
            /\ q.todo = heard /\ q.room = room /\ q.cap = 0 /\ q.flips = {}
        BY DEF IdleWorker
      <4>2. q = [k \in {"at", "node", "report", "todo", "now", "room", "cap", "flips"} |-> q[k]]
        BY DEF IdleWorker
      <4>3. r = q
        <5> HIDE DEF q
        <5> QED BY <4>1, <4>2
      <4> QED BY <4>3
    <3> QED BY <3>1, <3>2
  <2>3. moment' \in Nat
    BY <1>0, <2>2
  <2>4. RowsKept' /\ Over' = Over
    BY <1>0, <2>2, RowsSame DEF RowsKept
  <2>5. /\ behind' \in BOOLEAN /\ mixed' \in BOOLEAN /\ late' \in BOOLEAN
        /\ (~mixed' => ~mixed) /\ (~late' => ~late)
    BY <1>0, <2>2
  <2> HIDE DEF r
  <2> QED BY <2>2, <2>3, <2>4, <2>5, <2>a, OneMoves
<1>2. ASSUME NEW c \in worker[w].todo, AddCamera(w, c) PROVE CapIInv'
  <2> DEFINE add == c \notin DOMAIN born /\ worker[w].room > 0
             row == <<worker[w].now, inserts + 1>>
             r == [worker[w] EXCEPT !.todo = @ \ {c}, !.room = IF add THEN @ - 1 ELSE @]
  <2>1. /\ worker[w].at = "cameras" /\ worker' = [worker EXCEPT ![w] = r]
        /\ UNCHANGED <<nominal, standing, off, moment, behind, mixed>>
    BY <1>2 DEF AddCamera, Go
  <2>2. /\ add => /\ born' = [d \in DOMAIN born \union {c} |-> IF d = c THEN row ELSE born[d]]
                  /\ inserts' = inserts + 1
        /\ ~add => born' = born /\ inserts' = inserts
    BY <1>2 DEF AddCamera
  <2>3. late' = (late \/ (add /\ Flipping))
    BY <1>2 DEF AddCamera
  <2>4. r \in Request /\ r.at = "cameras" /\ r.flips = worker[w].flips
    <3>1. worker[w].room \in Int /\ c \in CameraIds
      BY <1>0, <1>2 DEF Request
    <3>2. (IF add THEN worker[w].room - 1 ELSE worker[w].room) \in Int
      BY <3>1
    <3>3. worker[w].todo \ {c} \in SUBSET CameraIds
      BY <1>0 DEF Request
    <3> HIDE DEF add
    <3> QED BY <1>0, <2>1, <3>2, <3>3 DEF Request
  <2>5. RowsKept'
    <3>1. CASE ~add
      BY <1>0, <2>1, <2>2, <3>1 DEF RowsKept
    <3>2. CASE add
      <4>1. c \in CameraIds /\ row \in Nat \X Nat /\ row[2] = inserts + 1 /\ c \notin DOMAIN born
        BY <1>0, <1>2, <3>2 DEF Request, RowsKept
      <4>2. /\ DOMAIN born' = DOMAIN born \union {c} /\ born'[c] = row /\ inserts' = inserts + 1
            /\ \A d \in DOMAIN born : born'[d] = born[d]
            /\ born' = [d \in DOMAIN born' |-> born'[d]]
        BY <2>2, <3>2, <4>1
      <4>3. IsFiniteSet(DOMAIN born')
        BY <1>0, <4>2, FS_AddElement DEF RowsKept
      <4>a. /\ DOMAIN born \subseteq CameraIds /\ inserts \in Nat /\ born \in [DOMAIN born -> Nat \X Nat]
            /\ \A d \in DOMAIN born : born[d][2] <= inserts
            /\ \A d, e \in DOMAIN born : born[d][2] = born[e][2] => d = e
            /\ off \subseteq DOMAIN born
        BY <1>0 DEF RowsKept
      <4> HIDE DEF row, add
      <4>4. born' \in [DOMAIN born' -> Nat \X Nat]
        BY <4>1, <4>2, <4>a
      <4>5. \A d \in DOMAIN born : born[d][2] \in Nat
        BY <4>a
      <4>6. \A d \in DOMAIN born' : born'[d][2] <= inserts'
        BY <4>1, <4>2, <4>5, <4>a
      <4>7. \A d, e \in DOMAIN born' : born'[d][2] = born'[e][2] => d = e
        BY <4>1, <4>2, <4>5, <4>a
      <4> QED BY <2>1, <4>1, <4>2, <4>3, <4>4, <4>6, <4>7, <4>a DEF RowsKept
    <3> QED BY <3>1, <3>2
  <2>6. ASSUME ~late', \E v \in Workers : worker[v].flips # {} PROVE Over' \subseteq Over
    <3>1. ~add
      BY <2>3, <2>6 DEF Flipping
    <3> QED BY <2>1, <2>2, <3>1 DEF Over, Oldest, Effective
  <2>7. late' \in BOOLEAN /\ (~late' => ~late)
    BY <2>3
  <2> HIDE DEF add, row, r
  <2> QED BY <1>0, <1>f, <2>1, <2>4, <2>5, <2>6, <2>7, OneMoves
<1>3. ASSUME RemoveStale(w) PROVE CapIInv'
  <2> DEFINE gone == CamerasOf[worker[w].node] \ worker[w].report
             r == [IdleWorker EXCEPT !.at = "plan"]
  <2>1. /\ worker[w].at = "cameras" /\ worker' = [worker EXCEPT ![w] = r]
        /\ born' = Keep(born, DOMAIN born \ gone) /\ off' = off \ gone
        /\ UNCHANGED <<nominal, standing, moment, inserts, behind, mixed, late>>
    BY <1>3 DEF RemoveStale, StepTo, Go
  <2>2. r \in Request /\ r.at = "plan" /\ r.flips = {}
    BY DEF Request, IdleWorker
  <2>3. RowsKept'
    <3>1. /\ DOMAIN born' = DOMAIN born \ gone /\ \A d \in DOMAIN born' : born'[d] = born[d]
          /\ born' = [d \in DOMAIN born' |-> born'[d]]
      BY <2>1 DEF Keep
    <3>2. IsFiniteSet(DOMAIN born')
      BY <1>0, <3>1, FS_Subset DEF RowsKept
    <3> HIDE DEF gone
    <3>3. born' \in [DOMAIN born' -> Nat \X Nat]
      BY <1>0, <3>1 DEF RowsKept
    <3>4. off' \subseteq DOMAIN born' /\ DOMAIN born' \subseteq CameraIds /\ inserts' \in Nat
      BY <1>0, <2>1, <3>1 DEF RowsKept
    <3>5. /\ \A d \in DOMAIN born' : born'[d][2] <= inserts'
          /\ \A d, e \in DOMAIN born' : born'[d][2] = born'[e][2] => d = e
      <4>1. /\ \A d \in DOMAIN born : born[d][2] <= inserts
            /\ \A d, e \in DOMAIN born : born[d][2] = born[e][2] => d = e
        BY <1>0 DEF RowsKept
      <4>2. ASSUME NEW d \in DOMAIN born', NEW e \in DOMAIN born'
            PROVE  /\ born'[d][2] <= inserts'
                   /\ born'[d][2] = born'[e][2] => d = e
        <5>1. d \in DOMAIN born /\ e \in DOMAIN born /\ inserts' = inserts
              /\ born'[d] = born[d] /\ born'[e] = born[e]
          BY <2>1, <3>1, <4>2
        <5> QED BY <4>1, <5>1
      <4> QED BY <4>2
    <3> QED BY <3>2, <3>3, <3>4, <3>5 DEF RowsKept
  <2>4. Over' \subseteq Over
    BY <1>0, <2>1, RemovalSpares
  <2> HIDE DEF gone, r
  <2> QED BY <1>0, <1>f, <2>1, <2>2, <2>3, <2>4, OneMoves
<1> QED BY <1>1, <1>2, <1>3

\* What an enforcement does to a camera, and the sweep that only begins one.
LEMMA EnforceStep ==
    ASSUME CapIInv, NEW w \in Workers,
           \/ ReadPlan(w) \/ SelectFlips(w) \/ Done(w) \/ Fail(w) \/ HeartbeatSweep(w)
           \/ \E f \in worker[w].flips : Flip(w, f)
    PROVE  CapIInv'
<1>0. /\ CapTyped /\ RowsKept /\ worker[w] \in Request /\ worker \in [Workers -> Request]
      /\ moment \in Nat /\ behind \in BOOLEAN /\ mixed \in BOOLEAN /\ late \in BOOLEAN
      /\ off \subseteq DOMAIN born /\ DOMAIN born \subseteq CameraIds
  BY DEF CapIInv, CapTyped, RowsKept
<1>f. /\ worker[w].at # "flip" => worker[w].flips = {}
      /\ ~mixed /\ worker[w].at = "select" => worker[w].cap = CapOf[Effective]
  BY DEF CapIInv, FlipsHeld
<1>n. IdleWorker \in Request /\ IdleWorker.at = "idle" /\ IdleWorker.flips = {}
  BY DEF IdleWorker, Request
<1>1. ASSUME ReadPlan(w) PROVE CapIInv'
  <2>1. PICK p \in {Effective, nominal, "free"} :
           /\ worker' = [worker EXCEPT ![w] = [worker[w] EXCEPT !.at = "select", !.cap = CapOf[p]]]
           /\ behind' = (behind /\ p # Effective)
           /\ mixed' = (p # Effective \/ (mixed /\ Enforcing))
    BY <1>1 DEF ReadPlan, Go
  <2>2. /\ worker[w].at = "plan" /\ late' = (late /\ Flipping)
        /\ UNCHANGED <<nominal, standing, born, off, moment, inserts>>
    BY <1>1 DEF ReadPlan
  <2>3. CapOf[p] \in Nat
    BY <1>0, <2>1, CapAssumption DEF Effective, CapTyped
  <2> DEFINE r == [worker[w] EXCEPT !.at = "select", !.cap = CapOf[p]]
  <2>4. r \in Request /\ r.at = "select" /\ r.flips = {} /\ r.cap = CapOf[p]
    BY <1>0, <1>f, <2>2, <2>3 DEF Request
  <2>5. /\ worker' \in [Workers -> Request]
        /\ \A v \in Workers : worker'[v] = IF v = w THEN r ELSE worker[v]
    BY <1>0, <2>1, <2>4
  <2> HIDE DEF r
  <2>6. RowsKept' /\ Over' = Over /\ CapOf[Effective]' = CapOf[Effective]
    <3>1. CapOf[Effective]' = CapOf[Effective]
      BY <2>2 DEF Effective
    <3> QED BY <1>0, <2>2, <3>1, RowsSame
  <2>7. /\ behind' \in BOOLEAN /\ mixed' \in BOOLEAN /\ late' \in BOOLEAN
        /\ (~mixed' => p = Effective /\ (~mixed \/ ~Enforcing))
        /\ (~late' => ~late \/ ~Flipping)
    <3>1. p \in {Effective, nominal, "free"}
      OBVIOUS
    <3>2. behind' \in BOOLEAN /\ mixed' \in BOOLEAN
      BY <1>0, <2>1
    <3>3. ~mixed' => p = Effective /\ (~mixed \/ ~Enforcing)
      BY <1>0, <2>1
    <3> QED BY <1>0, <2>2, <3>2, <3>3
  <2>8. CapTyped'
    BY <1>0, <2>2, <2>5, <2>7 DEF CapTyped
  <2>9. FlipsHeld'
    <3> SUFFICES ASSUME NEW v \in Workers
                 PROVE  /\ worker'[v].flips # {} => worker'[v].at = "flip"
                        /\ ~mixed' /\ worker'[v].at = "select"
                              => worker'[v].cap = CapOf[Effective]'
      BY DEF FlipsHeld
    <3>1. CASE v = w
      BY <2>4, <2>5, <2>6, <2>7, <3>1
    <3>2. CASE v # w
      <4>1. worker'[v] = worker[v]
        BY <2>5, <3>2
      <4>2. /\ worker[v].flips # {} => worker[v].at = "flip"
            /\ ~mixed /\ worker[v].at = "select" => worker[v].cap = CapOf[Effective]
        BY DEF CapIInv, FlipsHeld
      <4>3. worker[v].at \in {"select", "flip"} => Enforcing
        BY DEF Enforcing
      <4> QED BY <2>6, <2>7, <4>1, <4>2, <4>3
    <3> QED BY <3>1, <3>2
  <2>10. NoneRelit'
    <3> SUFFICES ASSUME ~mixed', ~late', NEW v \in Workers, NEW c \in Over'
                 PROVE  <<c, "on">> \notin worker'[v].flips
      BY DEF NoneRelit
    <3>1. CASE v = w \/ worker[v].flips = {}
      BY <2>4, <2>5, <3>1
    <3>2. CASE v # w /\ worker[v].flips # {}
      <4>1. worker'[v] = worker[v]
        BY <2>5, <3>2
      <4>2. worker[v].at = "flip"
        BY <3>2 DEF CapIInv, FlipsHeld
      <4>3. Enforcing /\ Flipping
        BY <3>2, <4>2 DEF Enforcing, Flipping
      <4>4. ~mixed /\ ~late
        BY <2>7, <4>3
      <4> QED BY <2>6, <4>1, <4>4 DEF CapIInv, NoneRelit
    <3> QED BY <3>1, <3>2
  <2>11. RestCovered'
    <3>1. \A c : Covered(c, w)'
      BY <2>4, <2>5 DEF Covered
    <3> QED BY <3>1 DEF RestCovered
  <2> QED BY <2>6, <2>8, <2>9, <2>10, <2>11 DEF CapIInv
<1>2. ASSUME SelectFlips(w) PROVE CapIInv'
  <2> DEFINE over == DOMAIN born \ Oldest(worker[w].cap)
             flips == {<<c, "off">> : c \in over \ off} \union {<<c, "on">> : c \in off \ over}
             r == [IdleWorker EXCEPT !.at = "flip", !.flips = flips]
  <2>1. /\ worker[w].at = "select" /\ worker' = [worker EXCEPT ![w] = r]
        /\ UNCHANGED <<nominal, standing, born, off, moment, inserts, behind, mixed, late>>
    BY <1>2 DEF SelectFlips, Go
  <2>2. flips \in SUBSET (CameraIds \X {"off", "on"})
    BY <1>0
  <2>3. ~mixed => over = Over
    BY <1>f, <2>1 DEF Over
  <2>4. \A c : /\ <<c, "on">> \in flips => c \notin over
               /\ c \in over \ off => <<c, "off">> \in flips
    OBVIOUS
  <2> HIDE DEF over, flips
  <2>5. r \in Request /\ r.at = "flip" /\ r.flips = flips
    BY <1>n, <2>2 DEF Request
  <2>6. RowsKept' /\ Over' = Over
    BY <1>0, <2>1, RowsSame
  <2>7. ~mixed => /\ \A c \in Over' : <<c, "on">> \notin r.flips
                  /\ \A c \in Over' \ off' : <<c, "off">> \in r.flips
    BY <2>1, <2>3, <2>4, <2>5, <2>6
  <2>8. /\ moment' \in Nat /\ behind' \in BOOLEAN /\ mixed' \in BOOLEAN /\ late' \in BOOLEAN
        /\ (~mixed' => ~mixed) /\ (~late' => ~late)
    BY <1>0, <2>1
  <2> HIDE DEF r
  <2> QED BY <2>1, <2>5, <2>6, <2>7, <2>8, OneMoves
<1>3. ASSUME NEW f \in worker[w].flips, Flip(w, f) PROVE CapIInv'
  <2> DEFINE r == [worker[w] EXCEPT !.flips = @ \ {f}]
  <2>1. /\ worker[w].at = "flip" /\ worker' = [worker EXCEPT ![w] = r]
        /\ UNCHANGED <<nominal, standing, born, moment, inserts, behind, mixed, late>>
    BY <1>3 DEF Flip, Go
  <2>2. off' = IF f[2] = "off" THEN off \union ({f[1]} \intersect DOMAIN born) ELSE off \ {f[1]}
    BY <1>3 DEF Flip
  <2>3. r \in Request /\ r.at = "flip" /\ r.at = "flip" /\ r.flips = worker[w].flips \ {f}
    BY <1>0, <2>1 DEF Request
  <2>4. f[1] \in CameraIds /\ f[2] \in {"off", "on"} /\ f = <<f[1], f[2]>>
    BY <1>0 DEF Request
  <2>5. RowsKept' /\ Over' = Over
    <3>1. off' \subseteq DOMAIN born
      BY <1>0, <2>2
    <3> QED BY <2>1, <3>1, RowsSame
  <2>6. /\ moment' \in Nat /\ behind' \in BOOLEAN /\ mixed' \in BOOLEAN /\ late' \in BOOLEAN
        /\ (~mixed' => ~mixed) /\ (~late' => ~late) /\ (~behind' => ~behind)
    BY <1>0, <2>1
  <2>7. ~mixed /\ ~late => \A c \in Over : <<c, "on">> \notin worker[w].flips
    BY DEF CapIInv, NoneRelit
  <2>8. ASSUME ~behind', ~mixed', ~late', NEW c \in Over' \ off', <<c, "off">> \notin r.flips
        PROVE  c \in Over \ off /\ ~Covered(c, w)
    <3>1. c \in Over /\ c \in DOMAIN born
      BY <2>5, <2>8 DEF Over
    <3>2. c \notin off
      <4> SUFFICES ASSUME c \in off PROVE FALSE
        OBVIOUS
      <4>1. f[2] = "on" /\ f[1] = c
        BY <2>2, <2>4, <2>8
      <4> QED BY <2>4, <2>6, <2>7, <2>8, <3>1, <4>1
    <3>3. f # <<c, "off">>
      <4> SUFFICES ASSUME f = <<c, "off">> PROVE FALSE
        OBVIOUS
      <4>1. c \in off'
        BY <2>2, <3>1
      <4> QED BY <2>8, <4>1
    <3>4. <<c, "off">> \notin worker[w].flips
      BY <2>3, <2>8, <3>3
    <3> QED BY <2>1, <3>1, <3>2, <3>4 DEF Covered
  <2>9. ~mixed' /\ ~late' => \A c \in Over' : <<c, "on">> \notin r.flips
    BY <2>3, <2>5, <2>6, <2>7
  <2> HIDE DEF r
  <2> QED BY <2>1, <2>3, <2>5, <2>6, <2>8, <2>9, OneMoves
<1>4. ASSUME Done(w) PROVE CapIInv'
  <2>1. /\ worker[w].at = "flip" /\ worker[w].flips = {}
        /\ worker' = [worker EXCEPT ![w] = IdleWorker]
        /\ UNCHANGED <<nominal, standing, born, off, moment, inserts, behind, mixed, late>>
    BY <1>4 DEF Done, Go
  <2>2. RowsKept' /\ Over' = Over
    BY <1>0, <2>1, RowsSame
  <2>3. /\ moment' \in Nat /\ behind' \in BOOLEAN /\ mixed' \in BOOLEAN /\ late' \in BOOLEAN
        /\ (~mixed' => ~mixed) /\ (~late' => ~late) /\ (~behind' => ~behind)
    BY <1>0, <2>1
  <2>4. \A c \in Over' \ off' : c \in Over \ off /\ ~Covered(c, w)
    BY <2>1, <2>2 DEF Covered
  <2> QED BY <1>n, <2>1, <2>2, <2>3, <2>4, OneMoves
<1>5. ASSUME Fail(w) PROVE CapIInv'
  <2>1. /\ worker' = [worker EXCEPT ![w] = IdleWorker] /\ mixed' = TRUE
        /\ UNCHANGED <<nominal, standing, born, off, moment, inserts, behind, late>>
    BY <1>5 DEF Fail, Go
  <2>2. RowsKept' /\ Over' = Over
    BY <1>0, <2>1, RowsSame
  <2>3. /\ moment' \in Nat /\ behind' \in BOOLEAN /\ mixed' \in BOOLEAN /\ late' \in BOOLEAN
        /\ mixed' /\ (~late' => ~late)
    BY <1>0, <2>1
  <2> QED BY <1>n, <2>1, <2>2, <2>3, OneMoves
<1>6. ASSUME HeartbeatSweep(w) PROVE CapIInv'
  <2> DEFINE r == [worker[w] EXCEPT !.at = "plan"]
  <2>1. /\ worker[w].at = "idle" /\ worker' = [worker EXCEPT ![w] = r]
        /\ UNCHANGED <<nominal, standing, born, off, moment, inserts, behind, mixed, late>>
    BY <1>6 DEF HeartbeatSweep, StepTo, Go
  <2>2. r \in Request /\ r.at = "plan" /\ r.flips = {}
    BY <1>0, <1>f, <2>1 DEF Request
  <2>3. RowsKept' /\ Over' = Over
    BY <1>0, <2>1, RowsSame
  <2>4. /\ moment' \in Nat /\ behind' \in BOOLEAN /\ mixed' \in BOOLEAN /\ late' \in BOOLEAN
        /\ (~mixed' => ~mixed) /\ (~late' => ~late)
    BY <1>0, <2>1
  <2> HIDE DEF r
  <2> QED BY <2>1, <2>2, <2>3, <2>4, OneMoves
<1> QED BY <1>1, <1>2, <1>3, <1>4, <1>5, <1>6

\* Billing: where the effective plan stays what it was, nothing is asked of any
\* request; where it changes, whoever was enforcing it makes the run mixed, and
\* until someone has read the new plan the cameras are behind.
LEMMA BillStep ==
    ASSUME CapIInv,
           \/ \E w \in Workers : PaidAgain(w) \/ HeartbeatSweep(w)
                                  \/ \E p \in DOMAIN CapOf : PlanWritten(w, p)
           \/ PastDue \/ GraceEnds
    PROVE  CapIInv'
<1>0. /\ CapTyped /\ RowsKept /\ worker \in [Workers -> Request]
      /\ moment \in Nat /\ behind \in BOOLEAN /\ mixed \in BOOLEAN /\ late \in BOOLEAN
  BY DEF CapIInv, CapTyped
<1>1. CASE \E w \in Workers : HeartbeatSweep(w)
  BY <1>1, EnforceStep
<1>2. ASSUME NEW p \in DOMAIN CapOf, NEW s \in {"paid", "grace", "over"}, Bill(p, s),
             \/ worker' = worker
             \/ \E w \in Workers : worker[w].at = "idle" /\ StepTo(w, "plan")
      PROVE  CapIInv'
  <2>1. /\ nominal' = p /\ standing' = s /\ UNCHANGED <<born, off, moment, inserts, late>>
    BY <1>2 DEF Bill
  <2>2. /\ behind' \in BOOLEAN /\ mixed' \in BOOLEAN
        /\ (~mixed' => ~mixed) /\ (~behind' => ~behind /\ Effective' = Effective)
        /\ (~mixed' => Effective' = Effective \/ ~Enforcing)
    <3>1. /\ behind' = (behind \/ Effective' # Effective)
          /\ mixed' = (mixed \/ (Effective' # Effective /\ Enforcing))
      BY <1>2 DEF Bill
    <3> QED BY <3>1, <1>0
  <2>3. \A v \in Workers :
           /\ worker'[v] \in Request /\ worker'[v].flips = worker[v].flips
           /\ worker'[v].cap = worker[v].cap
           /\ worker'[v] = worker[v] \/ (worker'[v].at = "plan" /\ worker[v].at = "idle")
    <3>1. CASE worker' = worker
      BY <1>0, <3>1
    <3>2. ASSUME NEW w \in Workers, worker[w].at = "idle", StepTo(w, "plan"), NEW v \in Workers
          PROVE  /\ worker'[v] \in Request /\ worker'[v].flips = worker[v].flips
                 /\ worker'[v].cap = worker[v].cap
                 /\ worker'[v] = worker[v] \/ (worker'[v].at = "plan" /\ worker[v].at = "idle")
      <4>1. worker'[v] = IF v = w THEN [worker[w] EXCEPT !.at = "plan"] ELSE worker[v]
        BY <1>0, <3>2 DEF StepTo, Go
      <4> QED BY <1>0, <3>2, <4>1 DEF Request
    <3> QED BY <1>2, <3>1, <3>2
  <2>4. worker' \in [Workers -> Request]
    <3>1. CASE worker' = worker
      BY <1>0, <3>1
    <3>2. ASSUME NEW w \in Workers, StepTo(w, "plan") PROVE worker' \in [Workers -> Request]
      <4>1. worker' = [worker EXCEPT ![w] = [worker[w] EXCEPT !.at = "plan"]]
        BY <3>2 DEF StepTo, Go
      <4>2. [worker[w] EXCEPT !.at = "plan"] \in Request
        BY <1>0, <3>2 DEF Request
      <4> QED BY <1>0, <4>1, <4>2
    <3> QED BY <1>2, <3>1, <3>2
  <2>5. CapTyped'
    BY <1>0, <1>2, <2>1, <2>2, <2>4 DEF CapTyped
  <2>6. RowsKept'
    BY <1>0, <2>1 DEF RowsKept
  <2>7. ASSUME ~mixed', Effective' # Effective
        PROVE  \A v \in Workers : worker[v].flips = {} /\ worker[v].at \notin {"select", "flip"}
    <3>1. \A v \in Workers : worker[v].at \notin {"select", "flip"}
      BY <2>2, <2>7 DEF Enforcing
    <3> QED BY <3>1 DEF CapIInv, FlipsHeld
  <2>8. FlipsHeld'
    <3> SUFFICES ASSUME NEW v \in Workers
                 PROVE  /\ worker'[v].flips # {} => worker'[v].at = "flip"
                        /\ ~mixed' /\ worker'[v].at = "select"
                              => worker'[v].cap = CapOf[Effective']
      BY DEF FlipsHeld
    <3>1. /\ worker[v].flips # {} => worker[v].at = "flip"
          /\ ~mixed /\ worker[v].at = "select" => worker[v].cap = CapOf[Effective]
      BY DEF CapIInv, FlipsHeld
    <3> QED BY <2>2, <2>3, <2>7, <3>1
  <2>9. Effective' = Effective => Over' = Over
    BY <2>1 DEF Over, Oldest
  <2>10. NoneRelit'
    <3> SUFFICES ASSUME ~mixed', ~late', NEW v \in Workers, NEW c \in Over'
                 PROVE  <<c, "on">> \notin worker'[v].flips
      BY DEF NoneRelit
    <3>1. CASE Effective' = Effective
      BY <2>1, <2>2, <2>3, <2>9, <3>1 DEF CapIInv, NoneRelit
    <3>2. CASE Effective' # Effective
      BY <2>3, <2>7, <3>2
    <3> QED BY <3>1, <3>2
  <2>11. RestCovered'
    <3> SUFFICES ASSUME ~behind', ~mixed', ~late', NEW c \in Over' \ off'
                 PROVE  \E v \in Workers : Covered(c, v)'
      BY DEF RestCovered
    <3>1. c \in Over \ off
      BY <2>1, <2>2, <2>9
    <3>2. PICK v \in Workers : Covered(c, v)
      BY <2>1, <2>2, <3>1 DEF CapIInv, RestCovered
    <3>3. Covered(c, v)'
      BY <2>3, <3>2 DEF Covered
    <3> QED BY <3>3
  <2> QED BY <2>5, <2>6, <2>8, <2>10, <2>11 DEF CapIInv
<1>3. nominal \in DOMAIN CapOf /\ standing \in {"paid", "grace", "over"}
  BY <1>0 DEF CapTyped
<1>4. CASE PastDue
  BY <1>2, <1>3, <1>4 DEF PastDue
<1>5. CASE GraceEnds
  BY <1>2, <1>3, <1>5 DEF GraceEnds
<1>6. ASSUME NEW w \in Workers, PaidAgain(w) PROVE CapIInv'
  BY <1>2, <1>3, <1>6 DEF PaidAgain
<1>7. ASSUME NEW w \in Workers, NEW p \in DOMAIN CapOf, PlanWritten(w, p) PROVE CapIInv'
  BY <1>2, <1>3, <1>7 DEF PlanWritten
<1> QED BY <1>1, <1>4, <1>5, <1>6, <1>7

LEMMA CapStep == CapIInv /\ [CapNext]_capVars => CapIInv'
<1> SUFFICES ASSUME CapIInv, [CapNext]_capVars PROVE CapIInv'
  OBVIOUS
<1>1. CASE UNCHANGED capVars
  BY <1>1 DEF capVars, CapIInv, CapTyped, RowsKept, FlipsHeld, NoneRelit, RestCovered, Over,
              Oldest, Effective, Covered
<1>2. ASSUME NEW w \in Workers,
             \/ \E n \in DOMAIN CamerasOf, r \in SUBSET CameraIds : CountCameras(w, n, r)
             \/ \E c \in worker[w].todo : AddCamera(w, c)
             \/ RemoveStale(w)
      PROVE  CapIInv'
  BY <1>2, RegistrationStep
<1>3. ASSUME NEW w \in Workers,
             \/ ReadPlan(w) \/ SelectFlips(w) \/ Done(w) \/ Fail(w) \/ HeartbeatSweep(w)
             \/ \E f \in worker[w].flips : Flip(w, f)
      PROVE  CapIInv'
  BY <1>3, EnforceStep
<1>4. CASE \/ \E w \in Workers : PaidAgain(w) \/ HeartbeatSweep(w)
                                  \/ \E p \in DOMAIN CapOf : PlanWritten(w, p)
           \/ PastDue \/ GraceEnds
  BY <1>4, BillStep
<1> QED BY <1>1, <1>2, <1>3, <1>4 DEF CapNext, CameraIds

LEMMA CapInvariant == CapSpec => []CapIInv
BY CapInitIInv, CapStep, PTL DEF CapSpec

\* Once every request has ended, the org streams no more cameras than its plan
\* allows, whatever registered meanwhile: an enforcement that reads the plan as it
\* is with none other under way makes up for what failed, was misread or came in
\* before it (enforce_camera_cap, run at the end of every registration and webhook).
THEOREM CapHoldsAlways == CapSpec => []CapHolds
<1>1. ASSUME CapIInv PROVE CapHolds
  <2> SUFFICES ASSUME ~behind, ~mixed, ~late, AllDone
               PROVE  Cardinality(DOMAIN born \ off) <= CapOf[Effective]
    BY DEF CapHolds
  <2>0. RowsKept /\ CapOf[Effective] \in Nat
    BY <1>1, CapAssumption DEF CapIInv, CapTyped, Effective
  <2>1. \A c, w : w \in Workers => ~Covered(c, w)
    BY DEF AllDone, Covered, IdleWorker
  <2>2. Over \subseteq off
    BY <1>1, <2>1 DEF CapIInv, RestCovered
  <2>3. DOMAIN born \ off \subseteq Oldest(CapOf[Effective])
    BY <2>2 DEF Over
  <2>4. /\ IsFiniteSet(Oldest(CapOf[Effective]))
        /\ Cardinality(Oldest(CapOf[Effective])) <= CapOf[Effective]
    BY <2>0, OldestBound
  <2>5. /\ IsFiniteSet(DOMAIN born \ off)
        /\ Cardinality(DOMAIN born \ off) <= Cardinality(Oldest(CapOf[Effective]))
    BY <2>3, <2>4, FS_Subset
  <2> QED BY <2>0, <2>4, <2>5, FS_CardinalityType
<1> QED BY <1>1, CapInvariant, PTL

-------------------------------------------------------------------------------
(* Motion e-mail and its digest.                                           *)

MotionReport == [at : {"none", "gate", "claim", "judge", "anchor", "done"}, held : Nat]
DigestTick   == [at : {"idle", "count", "emit", "delete"}, now : Nat, anchor : Nat,
           extra : SUBSET Events, told : BOOLEAN]

MotionTyped ==
    /\ clock \in Nat \ {0} /\ anchor \in Nat
    /\ stamp \in [Events -> Nat] /\ silencedBy \in [Events -> Nat]
    /\ closed \subseteq Nat /\ mailMotion \in BOOLEAN /\ misread \in BOOLEAN
    /\ report \in [Events -> MotionReport] /\ tick \in DigestTick

\* A silenced event is done; who is to write the anchor has a time to write.
EventsSettled ==
    \A e \in Events :
        /\ report[e].at = "anchor" => report[e].held # 0
        /\ silencedBy[e] # 0 => report[e].at = "done"

\* The events an anchor silenced whose rows are in its window.
Silenced(a) == {e \in Events : SilencedIn(e, a)}

\* What a tick counts, and what it has told, is all that its window silenced;
\* the window has closed, so that it silences nothing any more.
TickCounts ==
    /\ tick.at # "idle" => tick.anchor # 0 /\ tick.now <= clock
    /\ ~misread =>
         /\ tick.at \in {"emit", "delete"} => tick.anchor + Cooldown <= tick.now
         /\ tick.at = "emit" => Silenced(tick.anchor) \subseteq tick.extra
         /\ (tick.at = "delete" /\ tick.told) => Silenced(tick.anchor) \subseteq digested

ClosedLongAgo ==
    ~misread => \A a \in closed :
        a # 0 /\ a + Cooldown <= clock /\ Silenced(a) \subseteq digested

MotionIInv == MotionTyped /\ EventsSettled /\ TickCounts /\ ClosedLongAgo

-------------------------------------------------------------------------------
LEMMA MotionInitIInv == MotionInit => MotionIInv
<1> SUFFICES ASSUME MotionInit PROVE MotionIInv
  OBVIOUS
<1>1. MotionTyped
  <2>1. report \in [Events -> MotionReport]
    BY DEF MotionInit, MotionReport
  <2>2. tick \in DigestTick
    BY DEF MotionInit, DigestTick, IdleTick
  <2>3. stamp \in [Events -> Nat] /\ silencedBy \in [Events -> Nat]
    BY DEF MotionInit
  <2>4. clock \in Nat \ {0} /\ anchor \in Nat /\ closed \subseteq Nat
    BY DEF MotionInit
  <2>5. mailMotion \in BOOLEAN /\ misread \in BOOLEAN
    BY Zenon DEF MotionInit
  <2> QED BY <2>1, <2>2, <2>3, <2>4, <2>5 DEF MotionTyped
<1>2. EventsSettled /\ TickCounts /\ ClosedLongAgo
  BY DEF MotionInit, EventsSettled, TickCounts, ClosedLongAgo, IdleTick
<1> QED BY <1>1, <1>2 DEF MotionIInv

LEMMA MotionTypedStep ==
    ASSUME MotionTyped, [MotionNext]_motionVars PROVE MotionTyped'
<1> USE MotionConstants DEF MotionTyped
<1>m. ASSUME NEW span \in Spans, ReadSpan(span) PROVE misread' \in BOOLEAN
  BY <1>m DEF ReadSpan
<1>1. ASSUME NEW e \in Events, SaveMotion(e) PROVE MotionTyped'
  <2>1. /\ UNCHANGED <<clock, anchor, mailMotion, tick, silencedBy, closed, misread>>
        /\ \E ts \in Stamps \union {clock}, at \in {"gate", "done"} :
             /\ stamp' = [stamp EXCEPT ![e] = ts] \/ stamp' = stamp
             /\ report' = [report EXCEPT ![e].at = at]
    BY <1>1 DEF SaveMotion, motionHistory
  <2>2. report' \in [Events -> MotionReport]
    BY <2>1 DEF MotionReport
  <2>3. stamp' \in [Events -> Nat]
    BY <2>1
  <2> QED BY <2>1, <2>2, <2>3
<1>2. ASSUME NEW e \in Events, MailGate(e) PROVE MotionTyped'
  <2>1. /\ UNCHANGED <<clock, anchor, mailMotion, tick, silencedBy, closed, misread, stamp>>
        /\ \E at \in {"claim", "done"} : report' = [report EXCEPT ![e].at = at]
    BY <1>2 DEF MailGate, motionHistory
  <2>2. report' \in [Events -> MotionReport]
    BY <2>1 DEF MotionReport
  <2> QED BY <2>1, <2>2
<1>3. ASSUME NEW e \in Events, ClaimRead(e) PROVE MotionTyped'
  <2>1. /\ UNCHANGED <<clock, anchor, mailMotion, tick, silencedBy, closed, misread, stamp>>
        /\ \E got \in {anchor, 0} : report' = [report EXCEPT ![e] = [at |-> "judge", held |-> got]]
    BY <1>3 DEF ClaimRead, motionHistory
  <2>2. report' \in [Events -> MotionReport]
    BY <2>1 DEF MotionReport
  <2> QED BY <2>1, <2>2
<1>13. ASSUME NEW e \in Events, ClaimJudge(e) PROVE MotionTyped'
  <2>1. PICK span \in Spans :
        /\ UNCHANGED <<clock, anchor, mailMotion, stamp, tick, closed>> /\ ReadSpan(span)
        /\ \/ /\ report' = [report EXCEPT ![e] = [at |-> "done", held |-> 0]]
              /\ silencedBy' = [silencedBy EXCEPT ![e] = report[e].held]
           \/ /\ report' = [report EXCEPT ![e] = [at |-> "anchor", held |-> clock]]
              /\ silencedBy' = silencedBy
    BY <1>13, Zenon DEF ClaimJudge
  <2>2. report' \in [Events -> MotionReport]
    BY <2>1 DEF MotionReport
  <2>3. report[e].held \in Nat
    BY DEF MotionReport
  <2>4. silencedBy' \in [Events -> Nat]
    BY <2>1, <2>3
  <2>5. misread' \in BOOLEAN
    BY <2>1, <1>m
  <2> QED BY <2>1, <2>2, <2>4, <2>5
<1>4. ASSUME NEW e \in Events, ClaimWrite(e) PROVE MotionTyped'
  <2>1. /\ UNCHANGED <<clock, mailMotion, stamp, tick, closed, silencedBy, misread>>
        /\ report' = [report EXCEPT ![e] = [at |-> "done", held |-> 0]]
        /\ anchor' \in {report[e].held, anchor}
    BY <1>4 DEF ClaimWrite, motionHistory
  <2>2. report' \in [Events -> MotionReport] /\ report[e].held \in Nat
    BY <2>1 DEF MotionReport
  <2> QED BY <2>1, <2>2
<1>5. ASSUME SelectAnchor PROVE MotionTyped'
  <2>1. tick' \in DigestTick
    BY <1>5 DEF SelectAnchor, DigestTick, IdleTick
  <2> QED BY <1>5, <2>1 DEF SelectAnchor, motionHistory
<1>6. ASSUME CountExtra PROVE MotionTyped'
  <2>1. PICK span \in Spans :
          /\ UNCHANGED <<clock, anchor, mailMotion, stamp, report, silencedBy, closed>>
          /\ ReadSpan(span)
          /\ tick' = IdleTick \/ tick' = [tick EXCEPT !.at = "emit", !.extra = Extra(tick.anchor, span)]
    BY <1>6, Zenon DEF CountExtra
  <2>2. Extra(tick.anchor, span) \subseteq Events
    BY DEF Extra
  <2>3. IdleTick \in DigestTick
    BY DEF DigestTick, IdleTick
  <2>4. [tick EXCEPT !.at = "emit", !.extra = Extra(tick.anchor, span)] \in DigestTick
    BY <2>2 DEF DigestTick
  <2>5. misread' \in BOOLEAN
    BY <2>1, <1>m
  <2> QED BY <2>1, <2>3, <2>4, <2>5, Zenon
<1>7. ASSUME EmitDigest PROVE MotionTyped'
  <2>1. PICK sent \in BOOLEAN :
          tick' = [tick EXCEPT !.at = "delete", !.told = sent \/ tick.extra = {}]
    BY <1>7, Zenon DEF EmitDigest
  <2>2. UNCHANGED <<clock, anchor, mailMotion, stamp, report, silencedBy, closed, misread>>
    BY <1>7, Zenon DEF EmitDigest
  <2>3. tick' \in DigestTick
    BY <2>1 DEF DigestTick
  <2> QED BY <2>2, <2>3
<1>8. ASSUME DeleteAnchor PROVE MotionTyped'
  <2>1. /\ UNCHANGED <<clock, mailMotion, stamp, report, silencedBy, misread>> /\ tick' = IdleTick
        /\ anchor' \in {0, anchor} /\ closed' \subseteq closed \union {anchor}
    BY <1>8 DEF DeleteAnchor
  <2> QED BY <2>1 DEF DigestTick, IdleTick
<1>9. ASSUME AbandonTick PROVE MotionTyped'
  BY <1>9 DEF AbandonTick, DigestTick, IdleTick, motionHistory
<1>10. ASSUME SetMailMotion PROVE MotionTyped'
  BY <1>10 DEF SetMailMotion
<1>11. ASSUME AdvanceClock PROVE MotionTyped'
  BY <1>11 DEF AdvanceClock, motionHistory
<1>12. CASE UNCHANGED motionVars
  BY <1>12 DEF motionVars
<1> HIDE DEF MotionTyped
<1> QED BY <1>1, <1>2, <1>3, <1>4, <1>5, <1>6, <1>7, <1>8, <1>9, <1>10, <1>11, <1>12, <1>13
        DEF MotionNext

\* A step of an event or of the clock takes nothing from what the tick knows as
\* long as no window that has closed silences one more event.
LEMMA AsideFromTick ==
    ASSUME MotionTyped, TickCounts, ClosedLongAgo, UNCHANGED <<tick, closed, digested>>,
           clock' >= clock, clock' \in Nat, misread => misread',
           ~misread' => \A a \in Nat : a # 0 /\ a + Cooldown <= clock =>
                            Silenced(a)' \subseteq Silenced(a)
    PROVE  TickCounts' /\ ClosedLongAgo'
<1>1. /\ clock \in Nat /\ closed \subseteq Nat /\ Cooldown \in Nat
      /\ tick.anchor \in Nat /\ tick.now \in Nat
  BY MotionConstants DEF MotionTyped, DigestTick
<1>2. ClosedLongAgo'
  <2>1. ASSUME ~misread', NEW a \in closed
        PROVE  a # 0 /\ a + Cooldown <= clock' /\ Silenced(a)' \subseteq digested
    <3>1. a # 0 /\ a + Cooldown <= clock /\ Silenced(a) \subseteq digested /\ a \in Nat
      BY <1>1, <2>1 DEF ClosedLongAgo
    <3>2. Silenced(a)' \subseteq Silenced(a)
      BY <2>1, <3>1
    <3> QED BY <1>1, <3>1, <3>2
  <2> QED BY <2>1 DEF ClosedLongAgo
<1>3. TickCounts'
  <2>1. ASSUME ~misread', tick.at \in {"emit", "delete"}
        PROVE  Silenced(tick.anchor)' \subseteq Silenced(tick.anchor)
    <3>1. tick.anchor # 0 /\ tick.anchor + Cooldown <= clock
      BY <1>1, <2>1 DEF TickCounts
    <3>2. \A a \in Nat : a = tick.anchor => Silenced(a)' \subseteq Silenced(a)
      BY <2>1, <3>1
    <3> QED BY <1>1, <3>2 DEF Silenced, SilencedIn
  <2> QED BY <1>1, <2>1 DEF TickCounts
<1> QED BY <1>2, <1>3

LEMMA MotionSoundStep ==
    ASSUME MotionIInv, [MotionNext]_motionVars
    PROVE  EventsSettled' /\ TickCounts' /\ ClosedLongAgo'
<1>0. /\ MotionTyped /\ EventsSettled /\ TickCounts /\ ClosedLongAgo
      /\ clock \in Nat \ {0} /\ anchor \in Nat /\ Cooldown \in Nat \ {0}
      /\ stamp \in [Events -> Nat] /\ silencedBy \in [Events -> Nat] /\ closed \subseteq Nat
  BY MotionConstants DEF MotionIInv, MotionTyped
<1>r. report \in [Events -> MotionReport]
  BY DEF MotionIInv, MotionTyped
<1>t. tick \in DigestTick
  BY DEF MotionIInv, MotionTyped
<1>s. ASSUME NEW span \in Spans, ReadSpan(span)
      PROVE  (misread => misread') /\ (~misread' => span = Cooldown)
  BY <1>s DEF ReadSpan
<1>1. ASSUME NEW e \in Events, SaveMotion(e)
      PROVE  EventsSettled' /\ TickCounts' /\ ClosedLongAgo'
  <2>1. /\ UNCHANGED <<clock, anchor, mailMotion, tick, silencedBy, closed, digested, misread>>
        /\ report[e].at = "none"
    BY <1>1 DEF SaveMotion, motionHistory
  <2>2. PICK ts \in Stamps \union {clock}, at \in {"gate", "done"} :
          /\ stamp' = [stamp EXCEPT ![e] = ts] \/ stamp' = stamp
          /\ report' = [report EXCEPT ![e].at = at]
    BY <1>1 DEF SaveMotion
  <2>3. silencedBy[e] = 0
    BY <1>0, <2>1 DEF EventsSettled
  <2>4. EventsSettled'
    <3>1. \A x \in Events : /\ report'[x].at = "anchor" => report[x].at = "anchor" /\ report'[x].held = report[x].held
                            /\ x # e => report'[x] = report[x]
      BY <1>r, <2>2 DEF MotionReport
    <3> QED BY <1>0, <2>1, <2>3, <3>1 DEF EventsSettled
  <2>5. \A x \in Events : x # e => stamp'[x] = stamp[x]
    BY <1>0, <2>2
  <2>6. \A a \in Nat : a # 0 => Silenced(a)' \subseteq Silenced(a)
    BY <1>0, <2>1, <2>3, <2>5 DEF Silenced, SilencedIn
  <2> QED BY <1>0, <2>1, <2>4, <2>6, AsideFromTick
<1>2. ASSUME NEW e \in Events, MailGate(e) \/ ClaimRead(e)
      PROVE  EventsSettled' /\ TickCounts' /\ ClosedLongAgo'
  <2>1. /\ UNCHANGED <<clock, stamp, tick, silencedBy, closed, digested, misread>>
        /\ report[e].at \in {"gate", "claim"}
        /\ \/ \E at \in {"claim", "done"} : report' = [report EXCEPT ![e].at = at]
           \/ \E got \in {anchor, 0} : report' = [report EXCEPT ![e] = [at |-> "judge", held |-> got]]
    BY <1>2 DEF MailGate, ClaimRead, motionHistory
  <2>2. EventsSettled'
    <3>1. \A x \in Events : /\ report'[x].at = "anchor" => report[x].at = "anchor" /\ report'[x].held = report[x].held
                            /\ report[x].at = "done" => report'[x].at = "done"
      BY <1>r, <2>1 DEF MotionReport
    <3> QED BY <1>0, <2>1, <3>1 DEF EventsSettled
  <2>3. \A a \in Nat : Silenced(a)' \subseteq Silenced(a)
    BY <2>1 DEF Silenced, SilencedIn
  <2> QED BY <1>0, <2>1, <2>2, <2>3, AsideFromTick
<1>3. ASSUME NEW e \in Events, ClaimJudge(e)
      PROVE  EventsSettled' /\ TickCounts' /\ ClosedLongAgo'
  <2>1. PICK span \in Spans, h \in Nat :
        /\ UNCHANGED <<clock, anchor, stamp, tick, closed, digested>> /\ report[e].at = "judge"
        /\ ReadSpan(span) /\ h = report[e].held
        /\ \/ /\ h # 0 /\ clock - h < span
              /\ report' = [report EXCEPT ![e] = [at |-> "done", held |-> 0]]
              /\ silencedBy' = [silencedBy EXCEPT ![e] = h]
           \/ /\ report' = [report EXCEPT ![e] = [at |-> "anchor", held |-> clock]]
              /\ silencedBy' = silencedBy
    <3>1. report[e].held \in Nat
      BY <1>r DEF MotionReport
    <3> QED BY <1>3, <3>1 DEF ClaimJudge, Open
  <2>2. \A x \in Events : /\ report'[x].at = "anchor" /\ x # e => report[x].at = "anchor" /\ report'[x].held = report[x].held
                          /\ report'[e].at = "anchor" => report'[e].held = clock
                          /\ report[x].at = "done" => report'[x].at = "done"
                          /\ silencedBy' # silencedBy => report'[e].at = "done"
    BY <1>r, <2>1 DEF MotionReport
  <2>3. EventsSettled'
    BY <1>0, <2>1, <2>2 DEF EventsSettled
  <2>4. ~misread' => \A a \in Nat : a # 0 /\ a + Cooldown <= clock => Silenced(a)' \subseteq Silenced(a)
    <3> SUFFICES ASSUME ~misread', NEW a \in Nat, a # 0, a + Cooldown <= clock, NEW x \in Events,
                        SilencedIn(x, a)'
          PROVE  SilencedIn(x, a)
      BY DEF Silenced
    <3>1. span = Cooldown
      BY <2>1, <1>s
    <3>2. silencedBy'[x] = silencedBy[x] \/ (silencedBy'[x] = h /\ clock - h < Cooldown)
      BY <1>0, <2>1, <3>1
    <3>3. silencedBy'[x] = a
      BY DEF SilencedIn
    <3>4. silencedBy[x] = a
      BY <1>0, <3>2, <3>3
    <3> QED BY <2>1, <3>4 DEF SilencedIn
  <2>5. misread => misread'
    BY <2>1, <1>s
  <2> QED BY <1>0, <2>1, <2>3, <2>4, <2>5, AsideFromTick
<1>4. ASSUME NEW e \in Events, ClaimWrite(e)
      PROVE  EventsSettled' /\ TickCounts' /\ ClosedLongAgo'
  <2>1. /\ UNCHANGED <<clock, stamp, tick, silencedBy, closed, digested, misread>>
        /\ report' = [report EXCEPT ![e] = [at |-> "done", held |-> 0]]
    BY <1>4 DEF ClaimWrite, motionHistory
  <2>2. EventsSettled'
    BY <1>0, <1>r, <2>1 DEF EventsSettled
  <2>3. \A a \in Nat : Silenced(a)' \subseteq Silenced(a)
    BY <2>1 DEF Silenced, SilencedIn
  <2> QED BY <1>0, <2>1, <2>2, <2>3, AsideFromTick
<1>a. ASSUME UNCHANGED <<report, silencedBy>> PROVE EventsSettled'
  BY <1>0, <1>a DEF EventsSettled
<1>b. ASSUME UNCHANGED <<clock, stamp, silencedBy, closed, digested>>, misread => misread'
      PROVE  ClosedLongAgo'
  BY <1>0, <1>b DEF ClosedLongAgo, Silenced, SilencedIn
<1>5. ASSUME SelectAnchor PROVE EventsSettled' /\ TickCounts' /\ ClosedLongAgo'
  <2>1. /\ UNCHANGED <<clock, stamp, report, silencedBy, closed, digested, misread>> /\ anchor # 0
        /\ tick' = [IdleTick EXCEPT !.at = "count", !.now = clock, !.anchor = anchor]
    BY <1>5 DEF SelectAnchor, motionHistory
  <2>2. TickCounts'
    BY <1>0, <2>1 DEF TickCounts, IdleTick
  <2> QED BY <1>a, <1>b, <2>1, <2>2
<1>6. ASSUME CountExtra PROVE EventsSettled' /\ TickCounts' /\ ClosedLongAgo'
  <2>1. PICK span \in Spans :
        /\ UNCHANGED <<clock, stamp, report, silencedBy, closed, digested>> /\ tick.at = "count"
        /\ ReadSpan(span)
        /\ \/ tick' = IdleTick
           \/ /\ ~Open(tick.anchor, tick.now, span)
              /\ tick' = [tick EXCEPT !.at = "emit", !.extra = Extra(tick.anchor, span)]
    BY <1>6, Zenon DEF CountExtra
  <2>0. (misread => misread') /\ (~misread' => span = Cooldown)
    BY <2>1, <1>s
  <2>2. CASE tick' = IdleTick
    BY <1>a, <1>b, <2>0, <2>1, <2>2 DEF TickCounts, IdleTick
  <2>3. CASE ~Open(tick.anchor, tick.now, span) /\ tick' = [tick EXCEPT !.at = "emit", !.extra = Extra(tick.anchor, span)]
    <3>1. /\ tick'.at = "emit" /\ tick'.anchor = tick.anchor /\ tick'.now = tick.now
          /\ tick'.extra = Extra(tick.anchor, span) /\ tick.anchor \in Nat /\ tick.now \in Nat
      BY <1>t, <2>3 DEF DigestTick
    <3>2. tick.anchor # 0 /\ tick.now <= clock
      BY <1>0, <2>1 DEF TickCounts
    <3>3. ~misread' => tick.anchor + Cooldown <= tick.now
      BY <1>0, <2>0, <2>3, <3>1, <3>2 DEF Open
    <3>4. ~misread' => Silenced(tick.anchor) \subseteq Extra(tick.anchor, span)
      BY <2>0 DEF Silenced, SilencedIn, Extra
    <3>5. Silenced(tick.anchor)' = Silenced(tick.anchor)
      BY <2>1, <3>1 DEF Silenced, SilencedIn
    <3>6. TickCounts'
      BY <2>1, <3>1, <3>2, <3>3, <3>4, <3>5 DEF TickCounts
    <3> QED BY <1>a, <1>b, <2>0, <2>1, <3>6
  <2> QED BY <2>1, <2>2, <2>3
<1>7. ASSUME EmitDigest PROVE EventsSettled' /\ TickCounts' /\ ClosedLongAgo'
  <2>1. PICK sent \in BOOLEAN :
        /\ UNCHANGED <<clock, stamp, report, silencedBy, closed, misread>> /\ tick.at = "emit"
        /\ tick' = [tick EXCEPT !.at = "delete", !.told = sent \/ tick.extra = {}]
        /\ digested' = IF sent THEN digested \union tick.extra ELSE digested
    BY <1>7, Zenon DEF EmitDigest
  <2>2. /\ tick'.at = "delete" /\ tick'.anchor = tick.anchor /\ tick'.now = tick.now
        /\ tick'.told = (sent \/ tick.extra = {})
    BY <1>t, <2>1 DEF DigestTick
  <2>3. tick'.told => tick.extra \subseteq digested'
    BY <2>1, <2>2
  <2>4. Silenced(tick.anchor)' = Silenced(tick.anchor)
    BY <2>1, <2>2 DEF Silenced, SilencedIn
  <2>5. TickCounts'
    BY <1>0, <2>1, <2>2, <2>3, <2>4 DEF TickCounts
  <2>6. digested \subseteq digested'
    BY <2>1
  <2>7. ClosedLongAgo'
    BY <1>0, <2>1, <2>6 DEF ClosedLongAgo, Silenced, SilencedIn
  <2> QED BY <1>a, <2>1, <2>5, <2>7
<1>8. ASSUME DeleteAnchor PROVE EventsSettled' /\ TickCounts' /\ ClosedLongAgo'
  <2>1. /\ UNCHANGED <<clock, stamp, report, silencedBy, digested, misread>> /\ tick.at = "delete"
        /\ tick' = IdleTick
        /\ \/ closed' = closed
           \/ tick.told /\ closed' = closed \union {tick.anchor}
    BY <1>8, Zenon DEF DeleteAnchor
  <2>2. TickCounts'
    BY <2>1 DEF TickCounts, IdleTick
  <2>3. CASE closed' = closed
    BY <1>a, <1>b, <2>1, <2>2, <2>3
  <2>4. CASE tick.told /\ closed' = closed \union {tick.anchor}
    <3>1. ~misread => /\ tick.anchor # 0 /\ tick.anchor + Cooldown <= clock
                      /\ Silenced(tick.anchor) \subseteq digested
      BY <1>0, <1>t, <2>1, <2>4 DEF TickCounts, DigestTick
    <3>2. \A a : Silenced(a)' = Silenced(a)
      BY <2>1 DEF Silenced, SilencedIn
    <3>3. ClosedLongAgo'
      BY <1>0, <2>1, <2>4, <3>1, <3>2 DEF ClosedLongAgo
    <3> QED BY <1>a, <2>1, <2>2, <3>3
  <2> QED BY <2>1, <2>3, <2>4
<1>9. ASSUME AbandonTick PROVE EventsSettled' /\ TickCounts' /\ ClosedLongAgo'
  <2>1. UNCHANGED <<clock, stamp, report, silencedBy, closed, digested, misread>> /\ tick' = IdleTick
    BY <1>9 DEF AbandonTick, motionHistory
  <2>2. TickCounts'
    BY <2>1 DEF TickCounts, IdleTick
  <2> QED BY <1>a, <1>b, <2>1, <2>2
<1>c. ASSUME UNCHANGED <<clock, stamp, report, silencedBy, closed, digested, tick, misread>>
      PROVE  EventsSettled' /\ TickCounts' /\ ClosedLongAgo'
  <2>1. TickCounts'
    BY <1>0, <1>c, Zenon DEF TickCounts, Silenced, SilencedIn
  <2> QED BY <1>a, <1>b, <1>c, <2>1
<1>10. ASSUME SetMailMotion PROVE EventsSettled' /\ TickCounts' /\ ClosedLongAgo'
  BY <1>c, <1>10, Zenon DEF SetMailMotion
<1>11. ASSUME AdvanceClock PROVE EventsSettled' /\ TickCounts' /\ ClosedLongAgo'
  <2>1. UNCHANGED <<stamp, report, silencedBy, closed, digested, tick, misread>> /\ clock' = clock + 1
    BY <1>11 DEF AdvanceClock, motionHistory
  <2>2. \A a \in Nat : Silenced(a)' \subseteq Silenced(a)
    BY <2>1 DEF Silenced, SilencedIn
  <2> QED BY <1>0, <1>a, <2>1, <2>2, AsideFromTick
<1>12. CASE UNCHANGED motionVars
  BY <1>c, <1>12, Zenon DEF motionVars
<1> QED BY <1>1, <1>2, <1>3, <1>4, <1>5, <1>6, <1>7, <1>8, <1>9, <1>10, <1>11, <1>12
        DEF MotionNext

LEMMA MotionInvariant == MotionSpec => []MotionIInv
<1>1. MotionIInv /\ [MotionNext]_motionVars => MotionIInv'
  BY MotionTypedStep, MotionSoundStep DEF MotionIInv
<1> QED BY <1>1, MotionInitIInv, PTL DEF MotionSpec

\* However the handlers of motion events, the digest loop and its failures
\* interleave, an anchor that a tick removed with what it counted mailed has every
\* event it silenced, and whose row lies in its window, in a digest, as long as the
\* cooldown is read as it is (claim_motion_cooldown_or_silence, run_motion_digest).
THEOREM ClosedWindowDigestedAlways == MotionSpec => []ClosedWindowDigested
<1>1. MotionIInv => ClosedWindowDigested
  BY DEF MotionIInv, ClosedLongAgo, ClosedWindowDigested, Silenced
<1> QED BY <1>1, MotionInvariant, PTL

\* A tick removes only an anchor whose window has closed: one that was re-armed
\* while it counted is another value (the DELETE of run_motion_digest).
THEOREM FreshWindowKeptAlways == MotionSpec => FreshWindowKept
<1>1. ASSUME MotionIInv, [MotionNext]_motionVars
      PROVE  [(anchor # 0 /\ anchor' = 0 /\ ~misread) => ~Open(anchor, clock, Cooldown)]_motionVars
  <2>0. /\ anchor \in Nat /\ clock \in Nat /\ Cooldown \in Nat /\ tick.now \in Nat
    BY <1>1, MotionConstants DEF MotionIInv, MotionTyped, DigestTick
  <2>1. ASSUME NEW e \in Events, ClaimWrite(e), anchor # 0 PROVE anchor' # 0
    BY <1>1, <2>1 DEF ClaimWrite, MotionIInv, EventsSettled
  <2>2. CASE DeleteAnchor
    <3>1. anchor' = anchor \/ (anchor = tick.anchor /\ tick.at = "delete")
      BY <2>2 DEF DeleteAnchor
    <3>2. CASE anchor = tick.anchor /\ tick.at = "delete"
      BY <1>1, <2>0, <3>2 DEF MotionIInv, TickCounts, Open
    <3> QED BY <3>1, <3>2
  <2>3. \/ \E e \in Events : ClaimWrite(e)
        \/ DeleteAnchor
        \/ anchor' = anchor
    BY <1>1, Zenon DEF MotionNext, SaveMotion, MailGate, ClaimRead, ClaimJudge, SelectAnchor, CountExtra,
          EmitDigest, AbandonTick, SetMailMotion, AdvanceClock, motionVars
  <2> QED BY <2>1, <2>2, <2>3
<1> QED BY <1>1, MotionInvariant, PTL DEF MotionSpec, FreshWindowKept

-------------------------------------------------------------------------------
(* The licence check-in and its gate.                                      *)

Flags == {"unset", "true", "false"}

LicenceTyped ==
    /\ checkin \in {"sleeping", "asking", "writing"}
    /\ nextCheck \in Nat /\ licenceTime \in Nat /\ lastYes \in Int /\ lostWrites \in Nat
    /\ lastYes <= licenceTime

Settings == [reachable : Flags, valid : Flags, sync : Flags, okAt : Int]
Say(k, v) == [key |-> k, value |-> v]

\* What a check-in has written of each answer, and what it has still to write.
YesLeft ==
    /\ lastAnswer = "yes" /\ lastYes = licenceTime
    /\ \/ \E y \in Flags : writes = <<Say("reachable", "true"), Say("valid", "true"),
                                      Say("sync", y), Say("okAt", licenceTime)>>
       \/ stored.reachable = "true"
          /\ \E y \in Flags : writes = <<Say("valid", "true"), Say("sync", y),
                                         Say("okAt", licenceTime)>>
       \/ stored.reachable = "true" /\ stored.valid = "true"
          /\ \/ \E y \in Flags : writes = <<Say("sync", y), Say("okAt", licenceTime)>>
             \/ writes = <<Say("okAt", licenceTime)>>
             \/ writes = <<>>

NoLeft ==
    /\ lastAnswer = "no"
    /\ \/ writes = <<Say("reachable", "true"), Say("valid", "false"), Say("sync", "false")>>
       \/ stored.reachable = "true"
          /\ writes = <<Say("valid", "false"), Say("sync", "false")>>
       \/ stored.reachable = "true" /\ stored.valid = "false"
          /\ writes = <<Say("sync", "false")>>
       \/ stored.reachable = "true" /\ stored.valid = "false" /\ writes = <<>>

UnreachableLeft ==
    /\ lastAnswer = "unreachable"
    /\ \/ writes = <<Say("reachable", "false")>>
       \/ stored.reachable = "false" /\ writes = <<>>

\* Between check-ins the gate says what the last one was told, and no longer
\* than an interval ago.
Told ==
    \/ /\ lastAnswer = "yes" /\ stored.reachable = "true" /\ stored.valid = "true"
       /\ licenceTime <= nextCheck /\ nextCheck <= lastYes + CheckEvery
    \/ lastAnswer = "no" /\ stored.reachable = "true" /\ stored.valid = "false"
    \/ lastAnswer = "unreachable" /\ stored.reachable = "false"

\* The stamp of the grace window is never later than the answer it stands for.
StampHonest == stored.okAt # Unset => stored.okAt <= lastYes

NothingLost ==
    lostWrites = 0 =>
        /\ stored \in Settings /\ StampHonest
        /\ (checkin = "writing" => YesLeft \/ NoLeft \/ UnreachableLeft)
        /\ (checkin = "sleeping" /\ settled => Told)

LicenceIInv == LicenceTyped /\ NothingLost

-------------------------------------------------------------------------------
LEMMA ThreeAndOne ==
    ASSUME NEW a, NEW b, NEW c, NEW d PROVE <<a, b, c>> \o <<d>> = <<a, b, c, d>>
<1> DEFINE S == {a, b, c, d}
           s == <<a, b, c>> \o <<d>>
<1>1. /\ <<a, b, c>> \in Seq(S) /\ <<d>> \in Seq(S)
      /\ Len(<<a, b, c>>) = 3 /\ Len(<<d>>) = 1 /\ <<a, b, c, d>> \in Seq(S)
  OBVIOUS
<1>2. s \in Seq(S) /\ Len(s) = 4
  BY <1>1
<1>3. s[1] = a /\ s[2] = b /\ s[3] = c /\ s[4] = d
  BY <1>1
<1> HIDE DEF s
<1>4. s = <<a, b, c, d>>
  BY <1>1, <1>2, <1>3
<1> QED BY <1>4 DEF s

\* What one write leaves of the settings and of the writes to come.
LEMMA FlagWritten ==
    ASSUME NEW k \in {"reachable", "valid", "sync"}, NEW v \in Flags, NEW rest,
           stored \in Settings, Head(writes) = Say(k, v), Tail(writes) = rest,
           stored' = [stored EXCEPT ![Head(writes).key] = Head(writes).value],
           writes' = Tail(writes)
    PROVE  /\ stored' \in Settings /\ stored'.okAt = stored.okAt /\ stored'[k] = v
           /\ \A x \in {"reachable", "valid", "sync"} : x # k => stored'[x] = stored[x]
           /\ writes' = rest
  BY DEF Settings, Say, Flags

LEMMA LicenceInitIInv == LicenceInit => LicenceIInv
  BY LicenceAssumption
     DEF LicenceInit, LicenceIInv, LicenceTyped, NothingLost, StampHonest, Told, Settings,
         EmptySettings, Flags, Unset

LEMMA LicenceStep == LicenceIInv /\ [LicenceNext]_licenceVars => LicenceIInv'
<1> SUFFICES ASSUME LicenceIInv, [LicenceNext]_licenceVars PROVE LicenceIInv'
  OBVIOUS
<1>0. /\ checkin \in {"sleeping", "asking", "writing"}
      /\ nextCheck \in Nat /\ licenceTime \in Nat /\ lastYes \in Int /\ lostWrites \in Nat
      /\ lastYes <= licenceTime /\ GraceHours \in Nat /\ CheckEvery \in Nat
  BY LicenceAssumption DEF LicenceIInv, LicenceTyped
<1>n. NothingLost
  BY DEF LicenceIInv
<1>1. CASE BeginCheckIn
  <2>1. LicenceTyped'
    BY <1>0, <1>1 DEF BeginCheckIn, LicenceTyped
  <2>2. NothingLost'
    BY <1>n, <1>1 DEF BeginCheckIn, NothingLost, StampHonest
  <2> QED BY <2>1, <2>2 DEF LicenceIInv
<1>2. CASE ServiceUnreachable
  <2>1. LicenceTyped'
    BY <1>0, <1>2 DEF ServiceUnreachable, LicenceTyped
  <2>2. UnreachableLeft'
    BY <1>2 DEF ServiceUnreachable, UnreachableLeft, Unreachable, Say
  <2>3. /\ UNCHANGED <<stored, lastYes, lostWrites>> /\ checkin' = "writing"
    BY <1>2 DEF ServiceUnreachable
  <2>4. NothingLost'
    BY <1>n, <2>2, <2>3 DEF NothingLost, StampHonest
  <2> QED BY <2>1, <2>4 DEF LicenceIInv
<1>3. ASSUME NEW b \in BOOLEAN, ServiceAnswers(b) PROVE LicenceIInv'
  <2>1. UNCHANGED <<stored, lostWrites, licenceTime, nextCheck>> /\ checkin' = "writing"
    BY <1>3, Zenon DEF ServiceAnswers
  <2>2. CASE licensed
    <3>1. lastYes' = licenceTime /\ lastAnswer' = "yes" /\ writes' = Verdict(licensed, b)
      BY <1>3, <2>2, Zenon DEF ServiceAnswers
    <3>2. PICK y \in Flags : y = BoolStr(licensed /\ b)
      BY DEF Flags, BoolStr
    <3>3. Verdict(licensed, b) = <<Say("reachable", "true"), Say("valid", "true"),
                                   Say("sync", y), Say("okAt", licenceTime)>>
      <4>1. BoolStr(licensed) = "true" /\ BoolStr(licensed /\ b) = y
        BY <2>2, <3>2 DEF BoolStr
      <4>2. Verdict(licensed, b) = <<Say("reachable", "true"), Say("valid", "true"), Say("sync", y)>>
                                   \o <<Say("okAt", licenceTime)>>
        BY <2>2, <4>1, Zenon DEF Verdict, Say
      <4> QED BY <4>2, ThreeAndOne
    <3>4. YesLeft'
      BY <2>1, <3>1, <3>3 DEF YesLeft, Say
    <3>5. lostWrites' = 0 => stored \in Settings /\ (stored.okAt = Unset \/ stored.okAt <= lastYes)
      BY <1>n, <2>1 DEF NothingLost, StampHonest
    <3>6. NothingLost'
      BY <1>0, <2>1, <3>1, <3>4, <3>5 DEF NothingLost, StampHonest, Settings
    <3> QED BY <1>0, <2>1, <3>1, <3>6 DEF LicenceIInv, LicenceTyped
  <2>3. CASE ~licensed
    <3>1. lastYes' = lastYes /\ lastAnswer' = "no" /\ writes' = Verdict(licensed, b)
      BY <1>3, <2>3, Zenon DEF ServiceAnswers
    <3>3. Verdict(licensed, b) = <<Say("reachable", "true"), Say("valid", "false"),
                                   Say("sync", "false")>>
      BY <2>3 DEF Verdict, Say, BoolStr
    <3>4. NoLeft'
      BY <2>1, <3>1, <3>3 DEF NoLeft, Say
    <3>6. NothingLost'
      BY <1>n, <2>1, <3>1, <3>4 DEF NothingLost, StampHonest
    <3> QED BY <1>0, <2>1, <3>1, <3>6 DEF LicenceIInv, LicenceTyped
  <2> QED BY <2>2, <2>3
<1>4. ASSUME NEW b \in BOOLEAN, WriteVerdict(b) PROVE LicenceIInv'
  <2>1. /\ UNCHANGED <<checkin, nextCheck, licenceTime, lastYes, lastAnswer, settled>>
        /\ checkin = "writing" /\ writes # <<>> /\ writes' = Tail(writes)
    BY <1>4, Zenon DEF WriteVerdict
  <2>2. \/ lostWrites' = lostWrites + 1
        \/ /\ stored' = [stored EXCEPT ![Head(writes).key] = Head(writes).value]
           /\ lostWrites' = lostWrites
    BY <1>4, Zenon DEF WriteVerdict
  <2>3. LicenceTyped'
    BY <1>0, <2>1, <2>2 DEF LicenceTyped
  <2>4. CASE lostWrites' # 0
    BY <2>3, <2>4 DEF LicenceIInv, NothingLost
  <2>5. CASE lostWrites' = 0
    <3>1. stored' = [stored EXCEPT ![Head(writes).key] = Head(writes).value] /\ lostWrites = 0
      BY <1>0, <2>2, <2>5
    <3>2. /\ stored \in Settings /\ (stored.okAt = Unset \/ stored.okAt <= lastYes)
          /\ YesLeft \/ NoLeft \/ UnreachableLeft
      BY <1>n, <2>1, <3>1 DEF NothingLost, StampHonest
    <3> DEFINE Good == /\ stored' \in Settings /\ (stored'.okAt = Unset \/ stored'.okAt <= lastYes)
                       /\ (YesLeft \/ NoLeft \/ UnreachableLeft)'
    <3>3. ASSUME UnreachableLeft PROVE Good
      <4>1. writes = <<Say("reachable", "false")>>
        BY <2>1, <3>3 DEF UnreachableLeft
      <4>2. Head(writes) = Say("reachable", "false") /\ Tail(writes) = <<>>
        BY <4>1
      <4>3. stored' \in Settings /\ stored'.okAt = stored.okAt /\ stored'.reachable = "false" /\ writes' = <<>>
        BY <2>1, <3>1, <3>2, <4>2, FlagWritten DEF Flags
      <4> QED BY <2>1, <3>2, <3>3, <4>3 DEF UnreachableLeft
    <3>4. ASSUME NoLeft PROVE Good
      <4>1. CASE writes = <<Say("reachable", "true"), Say("valid", "false"), Say("sync", "false")>>
        <5>1. Head(writes) = Say("reachable", "true")
              /\ Tail(writes) = <<Say("valid", "false"), Say("sync", "false")>>
          BY <4>1
        <5>2. /\ stored' \in Settings /\ stored'.okAt = stored.okAt /\ stored'.reachable = "true"
              /\ writes' = <<Say("valid", "false"), Say("sync", "false")>>
          BY <2>1, <3>1, <3>2, <5>1, FlagWritten DEF Flags
        <5> QED BY <2>1, <3>2, <3>4, <5>2 DEF NoLeft
      <4>2. CASE stored.reachable = "true" /\ writes = <<Say("valid", "false"), Say("sync", "false")>>
        <5>1. Head(writes) = Say("valid", "false") /\ Tail(writes) = <<Say("sync", "false")>>
          BY <4>2
        <5>2. /\ stored' \in Settings /\ stored'.okAt = stored.okAt /\ stored'.valid = "false"
              /\ stored'.reachable = stored.reachable /\ writes' = <<Say("sync", "false")>>
          BY <2>1, <3>1, <3>2, <5>1, FlagWritten DEF Flags
        <5> QED BY <2>1, <3>2, <3>4, <4>2, <5>2 DEF NoLeft
      <4>3. CASE stored.reachable = "true" /\ stored.valid = "false" /\ writes = <<Say("sync", "false")>>
        <5>1. Head(writes) = Say("sync", "false") /\ Tail(writes) = <<>>
          BY <4>3
        <5>2. /\ stored' \in Settings /\ stored'.okAt = stored.okAt /\ stored'.valid = stored.valid
              /\ stored'.reachable = stored.reachable /\ writes' = <<>>
          BY <2>1, <3>1, <3>2, <5>1, FlagWritten DEF Flags
        <5> QED BY <2>1, <3>2, <3>4, <4>3, <5>2 DEF NoLeft
      <4> QED BY <2>1, <3>4, <4>1, <4>2, <4>3 DEF NoLeft
    <3>5. ASSUME YesLeft PROVE Good
      <4>0. lastAnswer = "yes" /\ lastYes = licenceTime
        BY <3>5 DEF YesLeft
      <4>1. ASSUME NEW y \in Flags,
                   writes = <<Say("reachable", "true"), Say("valid", "true"), Say("sync", y),
                              Say("okAt", licenceTime)>>
            PROVE  Good
        <5>1. Head(writes) = Say("reachable", "true")
              /\ Tail(writes) = <<Say("valid", "true"), Say("sync", y), Say("okAt", licenceTime)>>
          BY <4>1
        <5>2. /\ stored' \in Settings /\ stored'.okAt = stored.okAt /\ stored'.reachable = "true"
              /\ writes' = <<Say("valid", "true"), Say("sync", y), Say("okAt", licenceTime)>>
          BY <2>1, <3>1, <3>2, <5>1, FlagWritten DEF Flags
        <5>3. YesLeft'
          BY <2>1, <4>0, <5>2 DEF YesLeft, Say
        <5> QED BY <3>2, <5>2, <5>3
      <4>2. ASSUME NEW y \in Flags, stored.reachable = "true",
                   writes = <<Say("valid", "true"), Say("sync", y), Say("okAt", licenceTime)>>
            PROVE  Good
        <5>1. Head(writes) = Say("valid", "true")
              /\ Tail(writes) = <<Say("sync", y), Say("okAt", licenceTime)>>
          BY <4>2
        <5>2. /\ stored' \in Settings /\ stored'.okAt = stored.okAt /\ stored'.valid = "true"
              /\ stored'.reachable = stored.reachable
              /\ writes' = <<Say("sync", y), Say("okAt", licenceTime)>>
          BY <2>1, <3>1, <3>2, <5>1, FlagWritten DEF Flags
        <5>3. YesLeft'
          BY <2>1, <4>0, <4>2, <5>2 DEF YesLeft, Say
        <5> QED BY <3>2, <5>2, <5>3
      <4>3. ASSUME NEW y \in Flags, stored.reachable = "true", stored.valid = "true",
                   writes = <<Say("sync", y), Say("okAt", licenceTime)>>
            PROVE  Good
        <5>1. Head(writes) = Say("sync", y) /\ Tail(writes) = <<Say("okAt", licenceTime)>>
          BY <4>3
        <5>2. /\ stored' \in Settings /\ stored'.okAt = stored.okAt /\ stored'.valid = stored.valid
              /\ stored'.reachable = stored.reachable /\ writes' = <<Say("okAt", licenceTime)>>
          BY <2>1, <3>1, <3>2, <5>1, FlagWritten DEF Flags
        <5>3. YesLeft'
          BY <2>1, <4>0, <4>3, <5>2 DEF YesLeft, Say
        <5> QED BY <3>2, <5>2, <5>3
      <4>4. ASSUME stored.reachable = "true", stored.valid = "true",
                   writes = <<Say("okAt", licenceTime)>>
            PROVE  Good
        <5>1. Head(writes) = Say("okAt", licenceTime) /\ Tail(writes) = <<>>
          BY <4>4
        <5>a. Head(writes).key = "okAt" /\ Head(writes).value = licenceTime
          BY <5>1 DEF Say
        <5>2. stored' = [stored EXCEPT !["okAt"] = licenceTime] /\ writes' = <<>>
          BY <2>1, <3>1, <5>1, <5>a, Zenon
        <5>3. /\ stored' \in Settings /\ stored'.okAt = lastYes /\ stored'.valid = stored.valid
              /\ stored'.reachable = stored.reachable
          BY <1>0, <3>2, <4>0, <5>2 DEF Settings
        <5>4. YesLeft'
          BY <2>1, <4>0, <4>4, <5>2, <5>3 DEF YesLeft, Say
        <5> QED BY <1>0, <3>2, <5>3, <5>4
      <4> QED BY <2>1, <3>5, <4>1, <4>2, <4>3, <4>4 DEF YesLeft
    <3>6. Good
      BY <3>2, <3>3, <3>4, <3>5
    <3>7. NothingLost'
      BY <2>1, <3>6 DEF NothingLost, StampHonest
    <3> QED BY <2>3, <3>7 DEF LicenceIInv
  <2> QED BY <2>4, <2>5
<1>5. CASE EndCheckIn
  <2>1. /\ checkin = "writing" /\ writes = <<>> /\ checkin' = "sleeping"
        /\ nextCheck' = licenceTime + CheckEvery
        /\ UNCHANGED <<stored, licenceTime, lastYes, lastAnswer, lostWrites>>
    BY <1>5 DEF EndCheckIn
  <2>2. LicenceTyped'
    BY <1>0, <2>1 DEF LicenceTyped
  <2>3. ASSUME lostWrites = 0 PROVE stored \in Settings /\ StampHonest /\ Told'
    <3>1. stored \in Settings /\ StampHonest /\ (YesLeft \/ NoLeft \/ UnreachableLeft)
      BY <1>n, <2>1, <2>3 DEF NothingLost
    <3>2. Told'
      BY <1>0, <2>1, <3>1 DEF Told, YesLeft, NoLeft, UnreachableLeft
    <3> QED BY <3>1, <3>2
  <2>4. NothingLost'
    BY <2>1, <2>3 DEF NothingLost, StampHonest
  <2> QED BY <2>2, <2>4 DEF LicenceIInv
<1>6. ASSUME NEW d \in 0 .. GraceHours + 1, LicenceRestart(d) PROVE LicenceIInv'
  <2>1. /\ licenceTime' = licenceTime + d /\ checkin' = "sleeping" /\ nextCheck' = licenceTime'
        /\ settled' = FALSE /\ UNCHANGED <<stored, lastYes, lostWrites>>
    BY <1>6 DEF LicenceRestart
  <2>2. LicenceTyped'
    BY <1>0, <2>1 DEF LicenceTyped
  <2>3. NothingLost'
    BY <1>n, <2>1 DEF NothingLost, StampHonest
  <2> QED BY <2>2, <2>3 DEF LicenceIInv
<1>7. CASE ChangeLicence
  BY <1>0, <1>n, <1>7 DEF ChangeLicence, LicenceIInv, LicenceTyped, NothingLost, StampHonest,
     YesLeft, NoLeft, UnreachableLeft, Told
<1>8. CASE LicenceTick
  <2>1. /\ checkin = "sleeping" /\ licenceTime < nextCheck /\ licenceTime' = licenceTime + 1
        /\ UNCHANGED <<stored, checkin, nextCheck, lastYes, lastAnswer, settled, lostWrites>>
    BY <1>8 DEF LicenceTick
  <2>2. LicenceTyped'
    BY <1>0, <2>1 DEF LicenceTyped
  <2>3. Told => Told'
    BY <1>0, <2>1 DEF Told
  <2>4. NothingLost'
    BY <1>n, <2>1, <2>3 DEF NothingLost, StampHonest
  <2> QED BY <2>2, <2>4 DEF LicenceIInv
<1>9. CASE UNCHANGED licenceVars
  BY <1>0, <1>n, <1>9 DEF licenceVars, LicenceIInv, LicenceTyped, NothingLost, StampHonest,
     YesLeft, NoLeft, UnreachableLeft, Told
<1> QED BY <1>1, <1>2, <1>3, <1>4, <1>5, <1>6, <1>7, <1>8, <1>9 DEF LicenceNext

LEMMA LicenceInvariant == LicenceSpec => []LicenceIInv
  BY LicenceInitIInv, LicenceStep, PTL DEF LicenceSpec

\* While no write is lost, the gate that a finished check-in leaves open stands
\* within GRACE_HOURS of the last "valid" answer, wherever the process stopped
\* between two writes (check_in, is_sentinel_licensed).
THEOREM GraceBoundedAlways == LicenceSpec => []GraceBounded
<1>1. LicenceIInv => GraceBounded
  <2> SUFFICES ASSUME LicenceIInv, lostWrites = 0, settled, checkin = "sleeping", IsSentinelLicensed
               PROVE  licenceTime - lastYes <= GraceHours
    BY DEF GraceBounded
  <2>1. stored \in Settings /\ StampHonest /\ Told
    BY DEF LicenceIInv, NothingLost
  <2> QED BY <2>1, LicenceAssumption
          DEF LicenceIInv, LicenceTyped, StampHonest, Told, IsSentinelLicensed, Settings
<1> QED BY <1>1, LicenceInvariant, PTL

\* An "invalid" that has been written leaves nothing open, grace or no grace
\* (check_in's writes, is_sentinel_licensed, is_sync_enabled).
THEOREM InvalidClosesAtOnceAlways == LicenceSpec => []InvalidClosesAtOnce
<1>1. LicenceIInv => InvalidClosesAtOnce
  BY DEF LicenceIInv, NothingLost, Told, InvalidClosesAtOnce, IsSentinelLicensed, IsSyncEnabled
<1> QED BY <1>1, LicenceInvariant, PTL

-------------------------------------------------------------------------------
(* One run inside the agent.                                               *)

\* incident_id is set exactly when a tool result named an incident, and names one
\* that Command Center holds.
IncidentKnown ==
    /\ IsFiniteSet(wrote)
    /\ (incident # Unfiled) <=> (named # {})
    /\ incident # Unfiled => incident \in wrote

\* A conversation ends once: what ended it is known when its report is.
EndedOnce ==
    /\ stage \in {"model", "tools"} => cutBy = "none"
    /\ stage \in {"model", "tools", "report", "over"}

RunIInv == IncidentKnown /\ EndedOnce /\ OwnEndingReports

LEMMA RunInitIInv == InvestigationInit => RunIInv
  BY FS_EmptySet
     DEF InvestigationInit, RunIInv, IncidentKnown, EndedOnce, OwnEndingReports, Unfiled, NoReport

\* One of the conversation's own endings.
LEMMA ReportStep ==
    ASSUME RunIInv, NEW cut \in {"model", "provider", "budget"}, NEW clean \in BOOLEAN,
           Report(cut, clean), UNCHANGED <<incident, wrote, named>>
    PROVE  RunIInv'
<1>1. /\ outcomeReport' = [outcome |-> IF incident # Unfiled THEN "incident"
                                       ELSE IF clean THEN "no_action" ELSE "error",
                           incident |-> incident]
      /\ cutBy' = cut /\ stage' = "report"
  BY DEF Report
<1>2. IncidentKnown' /\ EndedOnce'
  BY <1>1 DEF RunIInv, IncidentKnown, EndedOnce
<1>3. /\ (outcomeReport'.outcome = "incident") <=> (incident # Unfiled)
      /\ outcomeReport'.incident = incident
  BY <1>1
<1>4. OwnEndingReports'
  BY <1>3, UNCHANGED <<incident, wrote, named>> DEF RunIInv, IncidentKnown, OwnEndingReports
<1> QED BY <1>2, <1>4 DEF RunIInv

\* A tool call's result.
LEMMA ToolStep ==
    ASSUME RunIInv, NEW result \in {"ok", "failed", "timed_out"}, RunTool(result) PROVE RunIInv'
<1> DEFINE name == Head(calls)
           onto == IF name = "create_incident" THEN Cardinality(wrote) + 1
                     ELSE IF name = "add_observation" /\ wrote # {} THEN Cardinality(wrote)
                     ELSE Unfiled
           done == result # "failed" /\ onto # Unfiled
           reported == result = "ok" /\ onto # Unfiled
<1>1. /\ wrote' = IF done THEN wrote \cup {onto} ELSE wrote
      /\ incident' = IF reported THEN onto ELSE incident
      /\ named' = IF reported THEN named \cup {onto} ELSE named
      /\ stage = "tools" /\ UNCHANGED <<stage, cutBy, outcomeReport>>
  BY DEF RunTool
<1>2. reported => done
  OBVIOUS
<1> HIDE DEF onto, done
<1>3. reported => onto # Unfiled
  OBVIOUS
<1> HIDE DEF reported
<1>4. IsFiniteSet(wrote')
  BY <1>1, FS_AddElement DEF RunIInv, IncidentKnown
<1>5. IncidentKnown'
  BY <1>1, <1>2, <1>3, <1>4 DEF RunIInv, IncidentKnown
<1>6. EndedOnce' /\ OwnEndingReports'
  BY <1>1 DEF RunIInv, EndedOnce, OwnEndingReports
<1> QED BY <1>5, <1>6 DEF RunIInv

LEMMA RunStep == ASSUME RunIInv, [InvestigationNext]_investigationVars PROVE RunIInv'
<1>1. ASSUME NEW names, ModelCalls(names) PROVE RunIInv'
  BY <1>1 DEF ModelCalls, RunIInv, IncidentKnown, EndedOnce, OwnEndingReports
<1>2. ASSUME ModelCloses PROVE RunIInv'
  BY <1>2, ReportStep DEF ModelCloses
<1>3. ASSUME ModelFails PROVE RunIInv'
  BY <1>3, ReportStep DEF ModelFails
<1>4. ASSUME EndTurn PROVE RunIInv'
  <2>1. CASE stage' = "model" /\ UNCHANGED <<outcomeReport, cutBy>>
    BY <1>4, <2>1 DEF EndTurn, RunIInv, IncidentKnown, EndedOnce, OwnEndingReports
  <2>2. CASE Report("budget", FALSE)
    BY <1>4, <2>2, ReportStep DEF EndTurn
  <2> QED BY <1>4, <2>1, <2>2 DEF EndTurn
<1>5. ASSUME WallClock PROVE RunIInv'
  BY <1>5 DEF WallClock, RunIInv, IncidentKnown, EndedOnce, OwnEndingReports
<1>6. ASSUME NEW confirmed \in BOOLEAN, CompleteArrives(confirmed) PROVE RunIInv'
  BY <1>6 DEF CompleteArrives, RunIInv, IncidentKnown, EndedOnce, OwnEndingReports
<1>7. ASSUME CompleteLost PROVE RunIInv'
  BY <1>7 DEF CompleteLost, RunIInv, IncidentKnown, EndedOnce, OwnEndingReports
<1>8. ASSUME CompleteGivenUp PROVE RunIInv'
  BY <1>8 DEF CompleteGivenUp, RunIInv, IncidentKnown, EndedOnce, OwnEndingReports
<1>9. ASSUME UNCHANGED investigationVars PROVE RunIInv'
  BY <1>9 DEF investigationVars, RunIInv, IncidentKnown, EndedOnce, OwnEndingReports
<1> QED BY <1>1, <1>2, <1>3, <1>4, <1>5, <1>6, <1>7, <1>8, <1>9, ToolStep DEF InvestigationNext

LEMMA RunInvariant == InvestigationSpec => []RunIInv
  BY RunInitIInv, RunStep, PTL DEF InvestigationSpec

\* run_agent's endings: whatever cuts the conversation short, its own completion
\* names an incident exactly if a tool result told the run of one, and one that
\* Command Center holds.
THEOREM OwnEndingReportsAlways == InvestigationSpec => []OwnEndingReports
  BY RunInvariant, PTL DEF RunIInv

-------------------------------------------------------------------------------
(* The mirror and its cursor.                                              *)

Sending == {"known", "post", "cursor", "id"}

MirrorTyped ==
    /\ rowAt \in [RowIds -> Nat \union {Gone}]
    /\ writing \in [RowIds -> Nat \union {NoWrite}]
    /\ mirror \in [RowIds -> Nat \union {Gone}]
    /\ cursorAt \in Nat \union {NoCursor} /\ cursorId \in Nat \union {NoId}
    /\ torn \in BOOLEAN /\ syncTime \in Nat
    /\ push.step \in {"idle", "page"} \union Sending
    /\ push.step = "idle" => push = IdlePush
    /\ push.step # "idle" =>
         /\ push.at \in Nat \union {NoCursor} /\ push.id \in Nat \union {NoId}
         /\ push.until \in Int
    /\ push.step \in Sending =>
         /\ push = [step |-> push.step, until |-> push.until, at |-> push.at, id |-> push.id,
                    last |-> push.last, rows |-> push.rows, known |-> push.known]
         /\ DOMAIN push.rows \subseteq RowIds /\ push.rows \in [DOMAIN push.rows -> Nat]
         /\ push.last \in DOMAIN push.rows /\ push.known \subseteq RowIds

\* An open write's stamp has not settled; a cursor, and all of a push, has.
Settled ==
    /\ \A r \in RowIds : writing[r] # NoWrite => writing[r] >= syncTime - Settle
    /\ cursorAt # NoCursor => cursorAt < syncTime - Settle
    /\ push.step # "idle" =>
         /\ push.until <= syncTime - Settle
         /\ push.at # NoCursor => push.at < push.until
         /\ cursorAt # NoCursor => cursorAt < push.until

\* The mirror holds what a cursor has passed.
Held(at, id) == \A r \in RowIds : rowAt[r] # Gone /\ ~Past(r, at, id) => mirror[r] = rowAt[r]

\* A row read before the push's horizon is as it was, or was written since.
SinceRead(r) == rowAt[r] = Gone \/ rowAt[r] >= push.until

PageFaithful ==
    push.step \in Sending =>
        /\ \A r \in DOMAIN push.rows :
             push.rows[r] < push.until /\ (SinceRead(r) \/ rowAt[r] = push.rows[r])
        /\ \A r \in RowIds \ push.known : SinceRead(r)
        /\ \A r \in RowIds \ DOMAIN push.rows :
             \/ SinceRead(r) \/ ~Past(r, push.at, push.id)
             \/ Past(r, push.rows[push.last], push.last)

\* While the halves of the cursor belong together: what the stored one has passed
\* is held, what a push goes by is unless it skips ties, and once the service has
\* confirmed a page, so is what the page takes it to.
CursorHeld ==
    ~torn =>
        /\ push.step # "id" => Held(cursorAt, cursorId)
        /\ push.step # "idle" /\ ~SkipsTies => Held(push.at, push.id)
        /\ push.step \in {"cursor", "id"} /\ ~SkipsTies => Held(push.rows[push.last], push.last)
        /\ push.step = "id" => cursorAt = push.rows[push.last] /\ ~SkipsTies

MirrorIInv == MirrorTyped /\ Settled /\ PageFaithful /\ CursorHeld

-------------------------------------------------------------------------------
LEMMA MirrorInitIInv == MirrorInit => MirrorIInv
<1> SUFFICES ASSUME MirrorInit PROVE MirrorIInv
  OBVIOUS
<1> USE MirrorAssumption DEF MirrorInit, IdlePush, Sending
<1>1. MirrorTyped
  <2>1. rowAt \in [RowIds -> Nat \union {Gone}] /\ mirror \in [RowIds -> Nat \union {Gone}]
    OBVIOUS
  <2>2. writing \in [RowIds -> Nat \union {NoWrite}]
    OBVIOUS
  <2> QED BY <2>1, <2>2 DEF MirrorTyped
<1>2. Settled /\ PageFaithful
  BY DEF Settled, PageFaithful, NoCursor, NoWrite
<1>3. CursorHeld
  BY DEF CursorHeld, Held, Past, SkipsTies
<1> QED BY <1>1, <1>2, <1>3 DEF MirrorIInv

\* Steps that leave the rows, the push and the stored cursor alone.
LEMMA StampHolds ==
    ASSUME MirrorIInv, NEW rows, Stamp(rows) PROVE MirrorIInv'
<1> USE MirrorAssumption DEF Stamp, MirrorIInv
<1>1. MirrorTyped'
  BY DEF MirrorTyped, Sending
<1>2. Settled'
  BY DEF Settled, MirrorTyped
<1>3. PageFaithful' /\ CursorHeld'
  BY DEF PageFaithful, CursorHeld, Held, Past, SkipsTies, SinceRead
<1> QED BY <1>1, <1>2, <1>3

LEMMA SyncTickHolds == ASSUME MirrorIInv, SyncTick PROVE MirrorIInv'
<1> USE MirrorAssumption DEF SyncTick, MirrorIInv
<1>1. MirrorTyped'
  BY DEF MirrorTyped, Sending
<1>2. Settled'
  <2>1. \A r \in RowIds : writing[r] # NoWrite => writing[r] >= syncTime' - Settle
    BY DEF Settled, MirrorTyped, NoWrite
  <2>2. syncTime' - Settle > syncTime - Settle
    BY DEF MirrorTyped
  <2> QED BY <2>1, <2>2 DEF Settled, MirrorTyped, NoCursor, Sending
<1>3. PageFaithful' /\ CursorHeld'
  BY DEF PageFaithful, CursorHeld, Held, Past, SkipsTies, SinceRead
<1> QED BY <1>1, <1>2, <1>3

\* A row that changes gets a stamp no cursor and no push has reached yet, or
\* goes.
LEMMA RowChanges ==
    ASSUME MirrorIInv, NEW r \in RowIds, NEW at,
           rowAt' = [rowAt EXCEPT ![r] = at],
           at = Gone \/ (at \in Nat /\ at >= syncTime - Settle),
           UNCHANGED <<cursorAt, cursorId, push, mirror, torn>>
    PROVE  PageFaithful' /\ CursorHeld'
<1> USE MirrorAssumption DEF MirrorIInv
<1>1. \A q \in RowIds : \/ rowAt'[q] = rowAt[q]
                        \/ rowAt'[q] = Gone
                        \/ rowAt'[q] \in Nat /\ rowAt'[q] >= syncTime - Settle
  BY DEF MirrorTyped
<1>2. ASSUME push.step # "idle", NEW q \in RowIds
      PROVE  rowAt'[q] = rowAt[q] \/ SinceRead(q)'
  BY <1>1, <1>2 DEF Settled, SinceRead, MirrorTyped, Sending, Gone
<1>3. PageFaithful'
  <2> SUFFICES ASSUME push.step \in Sending PROVE PageFaithful'
    BY DEF PageFaithful
  <2>1. push.step # "idle" /\ DOMAIN push.rows \subseteq RowIds
    BY DEF Sending, MirrorTyped
  <2>2. \A q \in DOMAIN push.rows :
          push.rows[q] < push.until /\ (SinceRead(q)' \/ rowAt'[q] = push.rows[q])
    BY <1>2, <2>1 DEF PageFaithful, SinceRead
  <2>3. \A q \in RowIds \ push.known : SinceRead(q)'
    BY <1>2, <2>1 DEF PageFaithful, SinceRead
  <2>4. \A q \in RowIds \ DOMAIN push.rows :
             \/ SinceRead(q)' \/ ~Past(q, push.at, push.id)'
             \/ Past(q, push.rows[push.last], push.last)'
    BY <1>2, <2>1 DEF PageFaithful, SinceRead, Past
  <2> QED BY <2>2, <2>3, <2>4 DEF PageFaithful
<1>4. ASSUME NEW c \in Int, NEW id, Held(c, id), c = NoCursor \/ c < syncTime - Settle
      PROVE  Held(c, id)'
  BY <1>1, <1>4 DEF Held, Past, MirrorTyped, Gone, NoCursor
<1>5. cursorAt \in Int /\ (cursorAt = NoCursor \/ cursorAt < syncTime - Settle)
  BY DEF MirrorTyped, Settled, NoCursor
<1>6. push.step # "idle" => push.at \in Int /\ (push.at = NoCursor \/ push.at < syncTime - Settle)
  BY DEF MirrorTyped, Settled, Sending, NoCursor
<1>7. push.step \in Sending =>
        push.rows[push.last] \in Int /\ push.rows[push.last] < syncTime - Settle
  BY DEF MirrorTyped, Settled, PageFaithful, Sending
<1>8. CursorHeld'
  <2>1. SkipsTies' <=> SkipsTies
    BY DEF SkipsTies
  <2> QED BY <2>1, <1>4, <1>5, <1>6, <1>7 DEF CursorHeld, Sending
<1> QED BY <1>3, <1>8

LEMMA CommitHolds == ASSUME MirrorIInv, NEW r \in RowIds, Commit(r) PROVE MirrorIInv'
<1> USE MirrorAssumption DEF MirrorIInv
<1>1. MirrorTyped'
  BY DEF Commit, MirrorTyped, Sending
<1>2. Settled'
  BY DEF Commit, Settled, MirrorTyped
<1>3. writing[r] \in Nat /\ writing[r] >= syncTime - Settle
  BY DEF Commit, Settled, MirrorTyped
<1>4. PageFaithful' /\ CursorHeld'
  BY <1>3, RowChanges DEF Commit
<1> QED BY <1>1, <1>2, <1>4

LEMMA DeleteRowHolds == ASSUME MirrorIInv, NEW r \in RowIds, DeleteRow(r) PROVE MirrorIInv'
<1> USE MirrorAssumption DEF MirrorIInv
<1>1. MirrorTyped'
  BY DEF DeleteRow, MirrorTyped, Sending
<1>2. Settled'
  BY DEF DeleteRow, Settled, MirrorTyped
<1>4. PageFaithful' /\ CursorHeld'
  BY RowChanges DEF DeleteRow
<1> QED BY <1>1, <1>2, <1>4

LEMMA StartPushHolds == ASSUME MirrorIInv, StartPush PROVE MirrorIInv'
<1> USE MirrorAssumption DEF MirrorIInv
<1>1. PICK at \in {cursorAt, NoCursor}, id \in {cursorId, NoId} :
         push' = [step |-> "page", at |-> at, id |-> IF at = NoCursor THEN NoId ELSE id,
                  until |-> syncTime - Settle]
  BY DEF StartPush
<1>2. /\ push.step = "idle" /\ push'.step = "page" /\ push'.until = syncTime - Settle
      /\ push'.at = at /\ push'.id = IF at = NoCursor THEN NoId ELSE id
      /\ UNCHANGED <<rowAt, writing, cursorAt, cursorId, mirror, torn, syncTime, faults>>
  BY <1>1 DEF StartPush, IdlePush
<1>3. /\ at \in Nat \union {NoCursor} /\ id \in Nat \union {NoId} /\ syncTime - Settle \in Int
      /\ cursorAt # NoCursor => cursorAt < syncTime - Settle
  BY DEF MirrorTyped, Settled
<1>4. MirrorTyped'
  BY <1>2, <1>3 DEF MirrorTyped, Sending
<1>5. Settled'
  BY <1>2, <1>3 DEF Settled, MirrorTyped
<1>6. PageFaithful'
  BY <1>2 DEF PageFaithful, Sending
<1>7. CursorHeld'
  <2> SUFFICES ASSUME ~torn PROVE CursorHeld'
    BY <1>2 DEF CursorHeld
  <2>1. Held(cursorAt, cursorId) /\ Held(cursorAt, cursorId)'
    BY <1>2 DEF CursorHeld, Held, Past, SkipsTies
  <2>2. ~SkipsTies' => Held(push.at, push.id)'
    <3>1. CASE at = NoCursor
      BY <1>2, <3>1 DEF Held, Past
    <3>2. CASE at # NoCursor
      <4>1. SkipsTies' \/ id = cursorId
        BY <1>2, <3>2 DEF SkipsTies
      <4>2. at = cursorAt
        BY <3>2
      <4> QED BY <1>2, <2>1, <3>2, <4>1, <4>2 DEF Held, Past
    <3> QED BY <3>1, <3>2
  <2> QED BY <1>2, <2>1, <2>2 DEF CursorHeld
<1> QED BY <1>4, <1>5, <1>6, <1>7

LEMMA ReadPageHolds == ASSUME MirrorIInv, ReadPage PROVE MirrorIInv'
<1> USE MirrorAssumption DEF MirrorIInv
<1>1. CASE PageRows = {} /\ push' = IdlePush
  <2> USE <1>1 DEF ReadPage, IdlePush, Sending
  <2>1. MirrorTyped'
    BY DEF MirrorTyped
  <2>2. Settled' /\ PageFaithful'
    BY DEF Settled, PageFaithful
  <2>3. CursorHeld'
    BY DEF CursorHeld, Held, Past, SkipsTies
  <2> QED BY <2>1, <2>2, <2>3
<1>2. ASSUME NEW last \in PageRows,
             push' = [step |-> IF Reconcile THEN "known" ELSE "post",
                      until |-> push.until, at |-> push.at, id |-> push.id, last |-> last,
                      rows |-> [r \in PageUpTo(last) |-> rowAt[r]], known |-> RowIds]
      PROVE  MirrorIInv'
  <2>1. /\ push.step = "page" /\ push'.step \in {"known", "post"}
        /\ push'.until = push.until /\ push'.at = push.at /\ push'.id = push.id
        /\ push'.last = last /\ push'.known = RowIds
        /\ push'.rows = [r \in PageUpTo(last) |-> rowAt[r]]
        /\ UNCHANGED <<rowAt, writing, cursorAt, cursorId, mirror, torn, syncTime, faults>>
    BY <1>2 DEF ReadPage
  <2>2. push' = [step |-> push'.step, until |-> push'.until, at |-> push'.at, id |-> push'.id,
                 last |-> push'.last, rows |-> push'.rows, known |-> push'.known]
    BY <1>2, <2>1
  <2>3. /\ DOMAIN push'.rows = PageUpTo(last) /\ PageUpTo(last) \subseteq PageRows
        /\ PageRows \subseteq RowIds /\ last \in PageUpTo(last)
        /\ \A r \in PageUpTo(last) : push'.rows[r] = rowAt[r]
        /\ \A r \in PageRows : rowAt[r] \in Nat /\ rowAt[r] < push.until
    BY <2>1, <1>2 DEF PageUpTo, PageRows, MirrorTyped
  <2>4. push'.rows \in [DOMAIN push'.rows -> Nat]
    BY <2>1, <2>3
  <2> HIDE <1>2
  <2>5. MirrorTyped'
    BY <2>1, <2>2, <2>3, <2>4 DEF MirrorTyped, Sending
  <2>6. Settled'
    BY <2>1 DEF Settled
  <2>7. PageFaithful'
    <3>1. \A r \in DOMAIN push'.rows :
             push'.rows[r] < push'.until /\ (SinceRead(r)' \/ rowAt'[r] = push'.rows[r])
      BY <2>1, <2>3
    <3>2. ASSUME NEW r \in RowIds, r \notin PageUpTo(last), ~SinceRead(r),
                 Past(r, push.at, push.id)
          PROVE  Past(r, rowAt[last], last)
      <4>1. r \in PageRows /\ r # last /\ ~Before(r, last)
        BY <3>2, <2>1, <2>3 DEF PageRows, SinceRead, PageUpTo, MirrorTyped, Gone
      <4> QED BY <4>1, <2>3, <1>2 DEF Before, Past, NoId, MirrorTyped
    <3>3. \A r \in RowIds \ DOMAIN push'.rows :
             \/ SinceRead(r)' \/ ~Past(r, push.at, push.id)'
             \/ Past(r, push.rows[push.last], push.last)'
      BY <3>2, <2>1, <2>3 DEF SinceRead, Past
    <3> QED BY <3>1, <3>3, <2>1 DEF PageFaithful
  <2>8. CursorHeld'
    BY <2>1 DEF CursorHeld, Held, Past, SkipsTies
  <2> QED BY <2>5, <2>6, <2>7, <2>8
<1> QED BY <1>1, <1>2 DEF ReadPage

\* A later step of the same push.
LEMMA PushEXCEPT ==
    ASSUME MirrorTyped, push.step \in Sending, NEW step \in Sending, NEW known \in SUBSET RowIds,
           push' = [push EXCEPT !.step = step, !.known = known]
    PROVE  /\ push'.step = step /\ push'.known = known
           /\ push'.until = push.until /\ push'.at = push.at /\ push'.id = push.id
           /\ push'.last = push.last /\ push'.rows = push.rows
           /\ push' = [step |-> push'.step, until |-> push'.until, at |-> push'.at, id |-> push'.id,
                       last |-> push'.last, rows |-> push'.rows, known |-> push'.known]
<1>1. PICK u, a, i, l, s, k, t : push = [step |-> t, until |-> u, at |-> a, id |-> i,
                    last |-> l, rows |-> s, known |-> k]
  BY DEF MirrorTyped
<1> QED BY <1>1

LEMMA ReadKnownHolds == ASSUME MirrorIInv, ReadKnown PROVE MirrorIInv'
<1> USE MirrorAssumption DEF MirrorIInv
<1>1. {r \in RowIds : rowAt[r] # Gone} \in SUBSET RowIds
  OBVIOUS
<1>2. /\ push.step = "known" /\ push'.step = "post"
      /\ push'.known = {r \in RowIds : rowAt[r] # Gone}
      /\ push'.until = push.until /\ push'.at = push.at /\ push'.id = push.id
      /\ push'.last = push.last /\ push'.rows = push.rows
      /\ push' = [step |-> push'.step, until |-> push'.until, at |-> push'.at, id |-> push'.id,
                  last |-> push'.last, rows |-> push'.rows, known |-> push'.known]
      /\ UNCHANGED <<rowAt, writing, cursorAt, cursorId, mirror, torn, syncTime, faults>>
  BY <1>1, PushEXCEPT DEF ReadKnown, Sending
<1>3. MirrorTyped'
  BY <1>1, <1>2 DEF MirrorTyped, Sending
<1>4. Settled' /\ CursorHeld'
  BY <1>2 DEF Settled, CursorHeld, Held, Past, SkipsTies
<1>5. PageFaithful'
  BY <1>2 DEF PageFaithful, SinceRead, Past, Sending
<1> QED BY <1>3, <1>4, <1>5

\* What the service holds once it has applied a page: all that a cursor below the
\* page's horizon had passed, and all that the page takes it past.
LEMMA AppliedKeeps ==
    ASSUME MirrorIInv, push.step = "post", NEW at \in Int, NEW id, Held(at, id),
           at = NoCursor \/ at < push.until,
           NEW r \in RowIds, rowAt[r] # Gone, ~Past(r, at, id)
    PROVE  Applied(push)[r] = rowAt[r]
<1> USE DEF MirrorIInv, Sending
<1>1. ~SinceRead(r)
  BY DEF SinceRead, Past, MirrorTyped, Gone, NoCursor
<1>2. r \in push.known /\ mirror[r] = rowAt[r]
  BY <1>1 DEF PageFaithful, Held
<1>3. r \in DOMAIN push.rows => push.rows[r] = rowAt[r]
  BY <1>1 DEF PageFaithful
<1> QED BY <1>2, <1>3 DEF Applied

LEMMA AppliedHeld ==
    ASSUME MirrorIInv, push.step = "post", ~torn
    PROVE  /\ Applied(push) \in [RowIds -> Nat \union {Gone}]
           /\ \A r \in RowIds :
                (rowAt[r] # Gone /\ (\/ ~Past(r, cursorAt, cursorId)
                                     \/ ~SkipsTies /\ ~Past(r, push.at, push.id)
                                     \/ ~SkipsTies /\ ~Past(r, push.rows[push.last], push.last)))
                   => Applied(push)[r] = rowAt[r]
<1> USE DEF MirrorIInv, Sending
<1>1. Applied(push) \in [RowIds -> Nat \union {Gone}]
  BY DEF Applied, MirrorTyped
<1>2. ASSUME NEW r \in RowIds, rowAt[r] # Gone, ~Past(r, cursorAt, cursorId)
      PROVE  Applied(push)[r] = rowAt[r]
  <2>1. /\ Held(cursorAt, cursorId) /\ cursorAt \in Int
        /\ cursorAt = NoCursor \/ cursorAt < push.until
    BY DEF CursorHeld, Settled, MirrorTyped, NoCursor
  <2> QED BY <1>2, <2>1, AppliedKeeps
<1>3. ASSUME NEW r \in RowIds, rowAt[r] # Gone, ~SkipsTies, ~Past(r, push.at, push.id)
      PROVE  Applied(push)[r] = rowAt[r]
  <2>1. /\ Held(push.at, push.id) /\ push.at \in Int
        /\ push.at = NoCursor \/ push.at < push.until
    BY <1>3 DEF CursorHeld, Settled, MirrorTyped, NoCursor
  <2> QED BY <1>3, <2>1, AppliedKeeps
<1>4. ASSUME NEW r \in RowIds, rowAt[r] # Gone, ~SkipsTies,
             ~Past(r, push.rows[push.last], push.last)
      PROVE  Applied(push)[r] = rowAt[r]
  <2>1. push.rows[push.last] \in Nat /\ push.rows[push.last] < push.until
    BY DEF MirrorTyped, PageFaithful
  <2>2. ~SinceRead(r)
    BY <1>4, <2>1 DEF SinceRead, Past, MirrorTyped, Gone, NoCursor, Settled
  <2>3. CASE r \in DOMAIN push.rows
    <3>1. r \in push.known /\ push.rows[r] = rowAt[r]
      BY <2>2, <2>3 DEF PageFaithful
    <3> QED BY <2>3, <3>1 DEF Applied
  <2>4. CASE r \notin DOMAIN push.rows
    <3>1. ~Past(r, push.at, push.id)
      BY <1>4, <2>2, <2>4 DEF PageFaithful
    <3> QED BY <1>3, <1>4, <3>1
  <2> QED BY <2>3, <2>4
<1> QED BY <1>1, <1>2, <1>3, <1>4

LEMMA PostConfirmedHolds == ASSUME MirrorIInv, PostConfirmed PROVE MirrorIInv'
<1> USE MirrorAssumption DEF MirrorIInv
<1>1. /\ push.step = "post" /\ push'.step = "cursor" /\ push'.known = push.known
      /\ push'.until = push.until /\ push'.at = push.at /\ push'.id = push.id
      /\ push'.last = push.last /\ push'.rows = push.rows
      /\ push' = [step |-> push'.step, until |-> push'.until, at |-> push'.at, id |-> push'.id,
                  last |-> push'.last, rows |-> push'.rows, known |-> push'.known]
      /\ mirror' = Applied(push)
      /\ UNCHANGED <<rowAt, writing, cursorAt, cursorId, torn, syncTime, faults>>
  <2>1. PICK u, a, i, l, s, k, t : push = [step |-> t, until |-> u, at |-> a, id |-> i,
                      last |-> l, rows |-> s, known |-> k]
    BY DEF MirrorTyped, PostConfirmed, Sending
  <2> QED BY <2>1 DEF PostConfirmed
<1>2. mirror' \in [RowIds -> Nat \union {Gone}]
  BY <1>1 DEF Applied, MirrorTyped, Sending
<1>3. MirrorTyped'
  BY <1>1, <1>2 DEF MirrorTyped, Sending
<1>4. Settled'
  BY <1>1 DEF Settled
<1>5. PageFaithful'
  BY <1>1 DEF PageFaithful, SinceRead, Past, Sending
<1>6. CursorHeld'
  BY <1>1, AppliedHeld DEF CursorHeld, Held, Past, SkipsTies
<1> QED BY <1>3, <1>4, <1>5, <1>6

LEMMA PostFailsHolds ==
    ASSUME MirrorIInv, NEW applied \in BOOLEAN, PostFails(applied) PROVE MirrorIInv'
<1> USE MirrorAssumption DEF MirrorIInv, IdlePush
<1>1. /\ push.step = "post" /\ push' = IdlePush
      /\ mirror' = Applied(push) \/ mirror' = mirror
      /\ UNCHANGED <<rowAt, writing, cursorAt, cursorId, torn, syncTime>>
  BY DEF PostFails
<1>2. mirror' \in [RowIds -> Nat \union {Gone}]
  BY <1>1 DEF Applied, MirrorTyped, Sending
<1>3. MirrorTyped'
  BY <1>1, <1>2 DEF MirrorTyped, Sending
<1>4. Settled' /\ PageFaithful'
  BY <1>1 DEF Settled, PageFaithful, Sending
<1>5. ~torn => Held(cursorAt, cursorId)'
  <2> SUFFICES ASSUME ~torn PROVE Held(cursorAt, cursorId)'
    OBVIOUS
  <2>1. Held(cursorAt, cursorId)
    BY <1>1 DEF CursorHeld
  <2> QED BY <2>1, <1>1, AppliedHeld DEF Held, Past
<1>6. CursorHeld'
  BY <1>1, <1>5 DEF CursorHeld
<1> QED BY <1>3, <1>4, <1>6

LEMMA WriteCursorAtHolds ==
    ASSUME MirrorIInv, NEW succeeds \in BOOLEAN, WriteCursorAt(succeeds) PROVE MirrorIInv'
<1> USE MirrorAssumption DEF MirrorIInv
<1>1. /\ push.step = "cursor" /\ push'.step = "id" /\ push'.known = push.known
      /\ push'.until = push.until /\ push'.at = push.at /\ push'.id = push.id
      /\ push'.last = push.last /\ push'.rows = push.rows
      /\ push' = [step |-> push'.step, until |-> push'.until, at |-> push'.at, id |-> push'.id,
                  last |-> push'.last, rows |-> push'.rows, known |-> push'.known]
  <2>1. PICK u, a, i, l, s, k, t : push = [step |-> t, until |-> u, at |-> a, id |-> i,
                      last |-> l, rows |-> s, known |-> k]
    BY DEF MirrorTyped, WriteCursorAt, Sending
  <2> QED BY <2>1 DEF WriteCursorAt
<1>2. /\ cursorAt' = IF succeeds THEN push.rows[push.last] ELSE cursorAt
      /\ torn' = (torn \/ ~succeeds \/ SkipsTies)
      /\ UNCHANGED <<rowAt, writing, cursorId, mirror, syncTime>>
  BY DEF WriteCursorAt
<1>3. /\ push.rows[push.last] \in Nat /\ push.rows[push.last] < push.until
      /\ push.until <= syncTime - Settle
  BY <1>1 DEF MirrorTyped, Settled, PageFaithful, Sending
<1>4. MirrorTyped'
  <2>1. torn' \in BOOLEAN /\ cursorAt' \in Nat \union {NoCursor}
    BY <1>2, <1>3 DEF MirrorTyped
  <2> QED BY <1>1, <1>2, <2>1 DEF MirrorTyped, Sending
<1>5. Settled'
  <2>1. /\ cursorAt' # NoCursor => cursorAt' < push.until
        /\ push.at # NoCursor => push.at < push.until
    BY <1>1, <1>2, <1>3 DEF Settled
  <2>2. cursorAt' # NoCursor => cursorAt' < syncTime - Settle
    <3>1. /\ push.until \in Int /\ syncTime \in Nat
          /\ cursorAt # NoCursor => cursorAt < syncTime - Settle
      BY <1>1 DEF Settled, MirrorTyped
    <3>2. CASE cursorAt' = cursorAt
      BY <3>1, <3>2
    <3>3. CASE cursorAt' = push.rows[push.last]
      BY <1>3, <3>1, <3>3
    <3> QED BY <1>2, <3>2, <3>3
  <2> QED BY <1>1, <1>2, <1>3, <2>1, <2>2 DEF Settled
<1>6. PageFaithful'
  BY <1>1, <1>2 DEF PageFaithful, SinceRead, Past, Sending
<1>7. CursorHeld'
  <2>1. SkipsTies' <=> SkipsTies
    BY <1>1 DEF SkipsTies
  <2>2. ~torn' => ~torn /\ ~SkipsTies /\ cursorAt' = push.rows[push.last]
    BY <1>2
  <2> QED BY <1>1, <1>2, <2>1, <2>2 DEF CursorHeld, Held, Past
<1> QED BY <1>4, <1>5, <1>6, <1>7

LEMMA WriteCursorIdHolds ==
    ASSUME MirrorIInv, NEW succeeds \in BOOLEAN, WriteCursorId(succeeds) PROVE MirrorIInv'
<1> USE MirrorAssumption DEF MirrorIInv, IdlePush
<1>1. /\ push.step = "id"
      /\ \/ push' = IdlePush
         \/ push' = [step |-> "page", until |-> push.until,
                     at |-> push.rows[push.last], id |-> push.last]
      /\ cursorId' = IF succeeds THEN push.last ELSE cursorId
      /\ torn' = (torn \/ ~succeeds)
      /\ UNCHANGED <<rowAt, writing, cursorAt, mirror, syncTime>>
  BY DEF WriteCursorId
<1>2. push.rows[push.last] \in Nat /\ push.rows[push.last] < push.until /\ push.last \in Nat
  BY <1>1 DEF MirrorTyped, PageFaithful, Sending
<1>3. MirrorTyped'
  BY <1>1, <1>2 DEF MirrorTyped, Sending
<1>4. Settled' /\ PageFaithful'
  BY <1>1, <1>2 DEF Settled, PageFaithful, Sending
<1>5. ASSUME ~torn'
      PROVE  /\ cursorAt = push.rows[push.last] /\ cursorId' = push.last
             /\ Held(push.rows[push.last], push.last)
  BY <1>1, <1>5 DEF CursorHeld
<1>6. CursorHeld'
  <2>1. CASE push' = IdlePush
    BY <2>1, <1>1, <1>5 DEF CursorHeld, Held, Past, SkipsTies
  <2>2. CASE push' = [step |-> "page", until |-> push.until,
                     at |-> push.rows[push.last], id |-> push.last]
    BY <2>2, <1>1, <1>5 DEF CursorHeld, Held, Past, SkipsTies
  <2> QED BY <1>1, <2>1, <2>2
<1> QED BY <1>3, <1>4, <1>6

LEMMA StopPushHolds == ASSUME MirrorIInv, StopPush PROVE MirrorIInv'
<1> USE MirrorAssumption DEF MirrorIInv, IdlePush, StopPush
<1>1. MirrorTyped'
  BY DEF MirrorTyped, Sending
<1>2. Settled' /\ PageFaithful'
  BY DEF Settled, PageFaithful, Sending
<1>3. CursorHeld'
  BY DEF CursorHeld, Held, Past, SkipsTies, MirrorTyped
<1> QED BY <1>1, <1>2, <1>3

LEMMA MirrorStep == MirrorIInv /\ [MirrorNext]_mirrorVars => MirrorIInv'
<1> SUFFICES ASSUME MirrorIInv, [MirrorNext]_mirrorVars PROVE MirrorIInv'
  OBVIOUS
<1>1. CASE MirrorNext
  BY <1>1, StampHolds, SyncTickHolds, CommitHolds, DeleteRowHolds, StartPushHolds,
     ReadPageHolds, ReadKnownHolds, PostConfirmedHolds, PostFailsHolds, WriteCursorAtHolds,
     WriteCursorIdHolds, StopPushHolds DEF MirrorNext
<1>2. CASE UNCHANGED mirrorVars
  <2>1. MirrorTyped' /\ Settled'
    BY <1>2 DEF mirrorVars, MirrorIInv, MirrorTyped, Settled
  <2>2. PageFaithful' /\ CursorHeld'
    BY <1>2 DEF mirrorVars, MirrorIInv, PageFaithful, CursorHeld, Held, Past, SkipsTies, SinceRead
  <2> QED BY <2>1, <2>2 DEF MirrorIInv
<1> QED BY <1>1, <1>2

\* No row the stored cursor has passed is missing from the mirror, or held as it
\* was before, once a push has come to rest and no failure has come between the
\* cursor's halves: neither between their writes nor between their reads (push_table).
THEOREM MirrorMissesNothing == MirrorSpec => []NothingMissed
<1>1. MirrorIInv => NothingMissed
  BY DEF MirrorIInv, CursorHeld, Held, NothingMissed, LeftBehind, IdlePush
<1> QED BY <1>1, MirrorInitIInv, MirrorStep, PTL DEF MirrorSpec

-------------------------------------------------------------------------------
(* The event streams.                                                      *)

SseTyped ==
    /\ eventLog \in Seq({"all", "admin"})
    /\ subscribers \subseteq Streams /\ IsFiniteSet(subscribers)
    /\ streamQueue \in [Streams -> Seq(Nat)] /\ received \in [Streams -> Seq(Nat)]
    /\ phase \in [Streams -> {"none", "open", "ended"}]
    /\ since \in [Streams -> Nat]

\* Nothing is given to a stream that has not been opened, and since stands
\* for a moment of the log.
Unopened ==
    \A s \in Streams :
        /\ since[s] <= Len(eventLog)
        /\ phase[s] = "none" => streamQueue[s] = << >> /\ received[s] = << >>

SseIInv == SseTyped /\ Unopened /\ SlotsHeldByOpenStreams /\ NoSilentGap

-------------------------------------------------------------------------------
LEMMA SseInitIInv == SseInit => SseIInv
<1> SUFFICES ASSUME SseInit PROVE SseIInv
  OBVIOUS
<1> USE BroadcasterConstants DEF SseInit
<1>1. IsFiniteSet(subscribers) /\ Cardinality(subscribers) = 0
  BY FS_EmptySet
<1>2. SseTyped
  BY <1>1 DEF SseTyped
<1>3. Unopened /\ SlotsHeldByOpenStreams /\ NoSilentGap
  BY <1>1 DEF Unopened, SlotsHeldByOpenStreams, NoSilentGap
<1> QED BY <1>2, <1>3 DEF SseIInv

\* What a stream has been given, as a function on positions.
LEMMA GivenProperties ==
    ASSUME SseTyped, NEW s \in Streams
    PROVE  /\ Given(s) \in Seq(Nat)
           /\ Len(Given(s)) = Len(received[s]) + Len(streamQueue[s])
           /\ \A i \in 1 .. Len(Given(s)) :
                Given(s)[i] = IF i <= Len(received[s]) THEN received[s][i]
                              ELSE streamQueue[s][i - Len(received[s])]
BY ConcatProperties DEF Given, SseTyped

\* Writing the head of the queue out changes nothing of what was given, and
\* queueing an event appends it.
LEMMA ConcatAt ==
    ASSUME NEW h \in Seq(Nat), NEW t \in Seq(Nat)
    PROVE  /\ h \o t \in Seq(Nat) /\ Len(h \o t) = Len(h) + Len(t)
           /\ \A i \in 1 .. Len(h) + Len(t) :
                (h \o t)[i] = IF i <= Len(h) THEN h[i] ELSE t[i - Len(h)]
BY ConcatProperties

LEMMA GivenReceive ==
    ASSUME NEW r \in Seq(Nat), NEW q \in Seq(Nat), q # << >>
    PROVE  Append(r, Head(q)) \o Tail(q) = r \o q
<1>1. /\ Head(q) \in Nat /\ Tail(q) \in Seq(Nat) /\ Len(Tail(q)) = Len(q) - 1
      /\ \A i \in 1 .. Len(Tail(q)) : Tail(q)[i] = q[i + 1]
  BY HeadTailProperties
<1>2. Head(q) = q[1] /\ Len(q) \in Nat \ {0} /\ Len(r) \in Nat
  BY EmptySeq, LenProperties
<1>3. /\ Append(r, Head(q)) \in Seq(Nat) /\ Len(Append(r, Head(q))) = Len(r) + 1
      /\ \A i \in 1 .. Len(r) : Append(r, Head(q))[i] = r[i]
      /\ Append(r, Head(q))[Len(r) + 1] = q[1]
  BY <1>1, <1>2, AppendProperties
<1>4. ASSUME NEW h \in Seq(Nat), NEW t \in Seq(Nat),
             Len(h) = Len(r) + 1, \A i \in 1 .. Len(r) : h[i] = r[i], h[Len(r) + 1] = q[1],
             Len(t) = Len(q) - 1, \A i \in 1 .. Len(t) : t[i] = q[i + 1]
      PROVE  h \o t = r \o q
  <2>1. PICK m \in Nat, n \in Nat \ {0} : m = Len(r) /\ n = Len(q)
    BY <1>2
  <2>2. /\ h \o t \in Seq(Nat) /\ Len(h \o t) = m + n
        /\ \A i \in 1 .. m + n : (h \o t)[i] = IF i <= m + 1 THEN h[i] ELSE t[i - (m + 1)]
    <3>1. Len(h) + Len(t) = m + n /\ Len(h) = m + 1
      BY <2>1, <1>4
    <3>2. /\ h \o t \in Seq(Nat) /\ Len(h \o t) = Len(h) + Len(t)
          /\ \A i \in 1 .. Len(h) + Len(t) :
               (h \o t)[i] = IF i <= Len(h) THEN h[i] ELSE t[i - Len(h)]
      BY ConcatAt
    <3> QED BY <3>1, <3>2, Zenon
  <2>3. /\ r \o q \in Seq(Nat) /\ Len(r \o q) = m + n
        /\ \A i \in 1 .. m + n : (r \o q)[i] = IF i <= m THEN r[i] ELSE q[i - m]
    BY <2>1, ConcatAt
  <2>4. ASSUME NEW i \in 1 .. m + n PROVE (h \o t)[i] = (r \o q)[i]
    <3>0. /\ (h \o t)[i] = IF i <= m + 1 THEN h[i] ELSE t[i - (m + 1)]
          /\ (r \o q)[i] = IF i <= m THEN r[i] ELSE q[i - m]
      BY <2>2, <2>3, Zenon
    <3>1. CASE i <= m
      <4>1. i \in 1 .. m /\ i <= m + 1
        BY <3>1, <2>1
      <4>2. h[i] = r[i]
        BY <4>1, <2>1, <1>4
      <4> QED BY <3>0, <3>1, <4>1, <4>2, Zenon
    <3>2. CASE i = m + 1
      <4>1. i <= m + 1 /\ ~(i <= m) /\ i - m = 1
        BY <3>2, <2>1
      <4>2. h[i] = q[i - m]
        BY <4>1, <3>2, <2>1, <1>4
      <4> QED BY <3>0, <4>1, <4>2
    <3>3. CASE i > m + 1
      <4>1. /\ ~(i <= m + 1) /\ ~(i <= m) /\ i - (m + 1) \in 1 .. (n - 1)
            /\ i - (m + 1) + 1 = i - m
        BY <3>3
      <4>2. Len(t) = n - 1
        BY <2>1, <1>4
      <4>3. t[i - (m + 1)] = q[i - (m + 1) + 1]
        BY <4>1, <4>2, <1>4
      <4> QED BY <3>0, <4>1, <4>3
    <3>4. i <= m \/ i = m + 1 \/ i > m + 1
      OBVIOUS
    <3> QED BY <3>1, <3>2, <3>3, <3>4, Zenon
  <2> QED BY <2>2, <2>3, <2>4, SeqEqual
<1> QED BY <1>1, <1>3, <1>4

LEMMA GivenQueue ==
    ASSUME NEW r \in Seq(Nat), NEW q \in Seq(Nat), NEW e \in Nat
    PROVE  r \o Append(q, e) = Append(r \o q, e)
<1>1. /\ Append(q, e) \in Seq(Nat) /\ Len(Append(q, e)) = Len(q) + 1
      /\ \A i \in 1 .. Len(q) : Append(q, e)[i] = q[i]
      /\ Append(q, e)[Len(q) + 1] = e
  BY AppendProperties
<1>2. PICK m \in Nat, n \in Nat : m = Len(r) /\ n = Len(q)
  OBVIOUS
<1>3. /\ r \o q \in Seq(Nat) /\ Len(r \o q) = m + n
      /\ \A i \in 1 .. m + n : (r \o q)[i] = IF i <= m THEN r[i] ELSE q[i - m]
  BY <1>2, ConcatAt
<1>4. ASSUME NEW t \in Seq(Nat), NEW h \in Seq(Nat), NEW c \in Seq(Nat),
             Len(t) = n + 1, \A i \in 1 .. n : t[i] = q[i], t[n + 1] = e,
             Len(c) = m + n, \A i \in 1 .. m + n : c[i] = IF i <= m THEN r[i] ELSE q[i - m],
             Len(h) = m + n + 1, \A i \in 1 .. m + n : h[i] = c[i], h[m + n + 1] = e
      PROVE  r \o t = h
  <2>1. /\ r \o t \in Seq(Nat) /\ Len(r \o t) = m + n + 1
        /\ \A i \in 1 .. m + n + 1 : (r \o t)[i] = IF i <= m THEN r[i] ELSE t[i - m]
    <3>1. Len(r) + Len(t) = m + n + 1 /\ Len(r) = m
      BY <1>2, <1>4
    <3>2. /\ r \o t \in Seq(Nat) /\ Len(r \o t) = Len(r) + Len(t)
          /\ \A i \in 1 .. Len(r) + Len(t) :
               (r \o t)[i] = IF i <= Len(r) THEN r[i] ELSE t[i - Len(r)]
      BY ConcatAt
    <3> QED BY <3>1, <3>2, Zenon
  <2>2. ASSUME NEW i \in 1 .. m + n + 1 PROVE (r \o t)[i] = h[i]
    <3>0. (r \o t)[i] = IF i <= m THEN r[i] ELSE t[i - m]
      BY <2>1, Zenon
    <3>1. CASE i <= m
      <4>1. i \in 1 .. m + n
        BY <3>1
      <4>2. h[i] = c[i] /\ c[i] = IF i <= m THEN r[i] ELSE q[i - m]
        BY <4>1, <1>4, Zenon
      <4> QED BY <3>0, <3>1, <4>2, Zenon
    <3>2. CASE ~(i <= m) /\ i # m + n + 1
      <4>1. i \in 1 .. m + n /\ i - m \in 1 .. n
        BY <3>2
      <4>2. h[i] = c[i] /\ c[i] = IF i <= m THEN r[i] ELSE q[i - m]
        BY <4>1, <1>4, Zenon
      <4>3. t[i - m] = q[i - m]
        BY <4>1, <1>4, Zenon
      <4> QED BY <3>0, <3>2, <4>2, <4>3, Zenon
    <3>3. CASE i = m + n + 1
      <4>1. i - m = n + 1 /\ ~(i <= m)
        BY <3>3
      <4>2. t[i - m] = e /\ h[i] = e
        BY <3>3, <4>1, <1>4
      <4> QED BY <3>0, <4>1, <4>2, Zenon
    <3> QED BY <3>1, <3>2, <3>3, Zenon
  <2> QED BY <2>1, <2>2, <1>4, SeqEqual
<1>5. /\ Append(r \o q, e) \in Seq(Nat) /\ Len(Append(r \o q, e)) = m + n + 1
      /\ \A i \in 1 .. m + n : Append(r \o q, e)[i] = (r \o q)[i]
      /\ Append(r \o q, e)[m + n + 1] = e
  BY <1>3, AppendProperties
<1> QED BY <1>1, <1>2, <1>3, <1>4, <1>5

-------------------------------------------------------------------------------
\* The invariant of a single stream.
GapFree(s) ==
    phase[s] = "open" =>
        /\ \A i, j \in DOMAIN Given(s) : i < j => Given(s)[i] < Given(s)[j]
        /\ \A i \in DOMAIN Given(s) : Given(s)[i] \in Owed(s)
        /\ \A e \in Owed(s) :
             \/ \E i \in DOMAIN Given(s) : Given(s)[i] = e
             \/ s \notin subscribers /\ \A i \in DOMAIN Given(s) : Given(s)[i] < e

LEMMA SubscribeHolds == ASSUME SseIInv, NEW t \in Streams, Subscribe(t) PROVE SseIInv'
<1> USE BroadcasterConstants DEF SseIInv, Subscribe
<1>0. Len(eventLog) \in Nat
  BY DEF SseTyped
<1>1. IsFiniteSet(subscribers') /\ t \notin subscribers
      /\ Cardinality(subscribers') = Cardinality(subscribers) + 1
      /\ Cardinality(subscribers) \in Nat
  BY FS_AddElement, FS_CardinalityType DEF SseTyped, SlotsHeldByOpenStreams
<1>2. SseTyped'
  BY <1>0, <1>1 DEF SseTyped
<1>3. Unopened'
  BY <1>0 DEF Unopened, SseTyped
<1>4. SlotsHeldByOpenStreams'
  BY <1>1 DEF SlotsHeldByOpenStreams, SseTyped
<1>5. ASSUME NEW s \in Streams PROVE GapFree(s)'
  <2>1. CASE s = t
    <3>1. Given(s)' = << >>
      BY <2>1 DEF Given, Unopened
    <3>2. Owed(s)' = {}
      BY <2>1, <1>0 DEF Owed, SseTyped
    <3> QED BY <3>1, <3>2 DEF GapFree
  <2>2. CASE s # t
    BY <2>2 DEF GapFree, NoSilentGap, Given, Owed, SseTyped
  <2> QED BY <2>1, <2>2
<1> QED BY <1>2, <1>3, <1>4, <1>5 DEF GapFree, NoSilentGap

LEMMA ReceiveHolds == ASSUME SseIInv, NEW t \in Streams, Receive(t) PROVE SseIInv'
<1> USE DEF SseIInv, Receive
<1>1. /\ streamQueue[t] \in Seq(Nat) /\ received[t] \in Seq(Nat) /\ streamQueue[t] # << >>
      /\ Head(streamQueue[t]) \in Nat /\ Tail(streamQueue[t]) \in Seq(Nat)
  BY HeadTailProperties DEF SseTyped
<1>2. Append(received[t], Head(streamQueue[t])) \in Seq(Nat)
  BY <1>1, AppendProperties
<1>3. SseTyped'
  BY <1>1, <1>2 DEF SseTyped
<1>4. Unopened' /\ SlotsHeldByOpenStreams'
  BY DEF Unopened, SlotsHeldByOpenStreams, SseTyped
<1>5. ASSUME NEW s \in Streams PROVE Given(s)' = Given(s)
  <2>1. CASE s = t
    BY <2>1, <1>1, GivenReceive DEF Given, SseTyped
  <2>2. CASE s # t
    BY <2>2 DEF Given, SseTyped
  <2> QED BY <2>1, <2>2
<1>6. \A s \in Streams : Owed(s)' = Owed(s)
  BY DEF Owed, Sees
<1>7. NoSilentGap'
  BY <1>5, <1>6 DEF NoSilentGap
<1> QED BY <1>3, <1>4, <1>7

LEMMA EndStreamHolds == ASSUME SseIInv, NEW t \in Streams, EndStream(t) PROVE SseIInv'
<1> USE DEF SseIInv, EndStream
<1>1. SseTyped'
  BY DEF SseTyped
<1>2. Unopened' /\ SlotsHeldByOpenStreams'
  BY DEF Unopened, SlotsHeldByOpenStreams, SseTyped
<1>3. NoSilentGap'
  <2>1. ASSUME NEW s \in Streams, phase'[s] = "open"
        PROVE  /\ phase[s] = "open" /\ received'[s] = received[s]
               /\ streamQueue'[s] = streamQueue[s] /\ since'[s] = since[s]
               /\ s \notin subscribers' <=> s \notin subscribers
    BY <2>1 DEF SseTyped
  <2>2. ASSUME NEW s \in Streams, phase'[s] = "open"
        PROVE  Given(s)' = Given(s) /\ Owed(s)' = Owed(s)
    BY <2>1, <2>2 DEF Given, Owed, Sees
  <2> QED BY <2>1, <2>2 DEF NoSilentGap
<1> QED BY <1>1, <1>2, <1>3

LEMMA HangUpHolds == ASSUME SseIInv, NEW t \in Streams, HangUp(t) PROVE SseIInv'
<1> USE BroadcasterConstants DEF SseIInv, HangUp
<1>1. /\ IsFiniteSet(subscribers') /\ Cardinality(subscribers') <= Cardinality(subscribers)
      /\ Cardinality(subscribers') \in Nat /\ Cardinality(subscribers) \in Nat
  BY FS_Subset, FS_CardinalityType DEF SseTyped
<1>2. SseTyped'
  BY <1>1 DEF SseTyped
<1>3. Unopened'
  BY DEF Unopened, SseTyped
<1>4. SlotsHeldByOpenStreams'
  BY <1>1 DEF SlotsHeldByOpenStreams, SseTyped
<1>5. NoSilentGap'
  <2>1. ASSUME NEW s \in Streams, phase'[s] = "open"
        PROVE  /\ phase[s] = "open" /\ received'[s] = received[s]
               /\ streamQueue'[s] = streamQueue[s] /\ since'[s] = since[s]
               /\ s \notin subscribers' <=> s \notin subscribers
    BY <2>1 DEF SseTyped
  <2>2. ASSUME NEW s \in Streams, phase'[s] = "open"
        PROVE  Given(s)' = Given(s) /\ Owed(s)' = Owed(s)
    BY <2>1, <2>2 DEF Given, Owed, Sees
  <2> QED BY <2>1, <2>2 DEF NoSilentGap
<1> QED BY <1>2, <1>3, <1>4, <1>5

-------------------------------------------------------------------------------
\* The event that is sent: to the streams that keep it, to those it finds full,
\* and to the rest.
LEMMA NotifyHolds ==
    ASSUME SseIInv, NEW audience \in {"all", "admin"}, Notify(audience) PROVE SseIInv'
<1> USE BroadcasterConstants DEF SseIInv
<1> DEFINE reached == {s \in subscribers : Sees(s, audience)}
           full    == {s \in reached : Len(streamQueue[s]) = QueueDepth}
           n       == Len(eventLog)
<1>1. /\ eventLog' = Append(eventLog, audience)
      /\ streamQueue' = [s \in Streams |-> IF s \in reached \ full
                           THEN Append(streamQueue[s], n + 1) ELSE streamQueue[s]]
      /\ subscribers' = subscribers \ full
      /\ UNCHANGED <<phase, since, received>>
  BY DEF Notify
<1>2. reached \subseteq subscribers /\ \A s \in reached : Sees(s, audience)
  OBVIOUS
<1>3. \A s \in subscribers \ reached : ~Sees(s, audience)
  OBVIOUS
<1>4. full \subseteq reached
  OBVIOUS
<1>5. n \in Nat /\ Len(eventLog') = n + 1 /\ eventLog' \in Seq({"all", "admin"})
      /\ eventLog'[n + 1] = audience /\ \A i \in 1 .. n : eventLog'[i] = eventLog[i]
  BY <1>1, AppendProperties DEF SseTyped
<1> HIDE DEF reached, full, n
<1>6. /\ IsFiniteSet(subscribers') /\ Cardinality(subscribers') <= Cardinality(subscribers)
      /\ Cardinality(subscribers') \in Nat /\ Cardinality(subscribers) \in Nat
  BY <1>1, FS_Subset, FS_CardinalityType DEF SseTyped
<1>7. \A s \in Streams : streamQueue'[s] \in Seq(Nat)
  BY <1>1, <1>5, AppendProperties DEF SseTyped
<1>8. SseTyped'
  BY <1>1, <1>5, <1>6, <1>7 DEF SseTyped
<1>9. Unopened'
  BY <1>1, <1>2, <1>5 DEF Unopened, SseTyped, SlotsHeldByOpenStreams, n
<1>10. SlotsHeldByOpenStreams'
  BY <1>1, <1>6 DEF SlotsHeldByOpenStreams, SseTyped
<1>11. ASSUME NEW s \in Streams, phase[s] = "open" PROVE GapFree(s)'
  <2>1. /\ since[s] \in 0 .. n /\ s \in Streams
        /\ DOMAIN Given(s) = 1 .. Len(Given(s)) /\ Given(s) \in Seq(Nat)
        /\ Len(Given(s)) \in Nat
    BY <1>5, GivenProperties DEF Unopened, SseTyped, n
  <2>2. /\ \A i, j \in DOMAIN Given(s) : i < j => Given(s)[i] < Given(s)[j]
        /\ \A i \in DOMAIN Given(s) : Given(s)[i] \in Owed(s)
        /\ \A e \in Owed(s) :
             \/ \E i \in DOMAIN Given(s) : Given(s)[i] = e
             \/ s \notin subscribers /\ \A i \in DOMAIN Given(s) : Given(s)[i] < e
    BY <1>11 DEF NoSilentGap
  <2>3. Owed(s)' = Owed(s) \union (IF Sees(s, audience) THEN {n + 1} ELSE {})
    <3>1. Owed(s)' = {e \in since[s] + 1 .. n + 1 : Sees(s, eventLog'[e])}
      BY <1>1, <1>5 DEF Owed, Sees
    <3>2. Owed(s) = {e \in since[s] + 1 .. n : Sees(s, eventLog[e])}
      BY DEF Owed, n
    <3>3. since[s] + 1 .. n + 1 = (since[s] + 1 .. n) \union {n + 1}
      BY <2>1, <1>5
    <3>4. \A e \in since[s] + 1 .. n : eventLog'[e] = eventLog[e]
      BY <2>1, <1>5
    <3> QED BY <3>1, <3>2, <3>3, <3>4, <1>5
  <2>4. \A e \in Owed(s) : e \in Nat /\ e <= n
    BY <2>1, <1>5 DEF Owed, n
  <2>5. CASE s \in reached \ full
    <3>1. Given(s)' = Append(Given(s), n + 1)
      <4>1. received'[s] = received[s] /\ streamQueue'[s] = Append(streamQueue[s], n + 1)
        BY <2>5, <1>1, <1>5
      <4>2. received[s] \in Seq(Nat) /\ streamQueue[s] \in Seq(Nat) /\ n + 1 \in Nat
        BY <1>5 DEF SseTyped
      <4>3. received[s] \o Append(streamQueue[s], n + 1)
              = Append(received[s] \o streamQueue[s], n + 1)
        BY <4>2, GivenQueue
      <4> QED BY <4>1, <4>3 DEF Given
    <3>2. /\ Len(Given(s)') = Len(Given(s)) + 1
          /\ DOMAIN Given(s)' = 1 .. Len(Given(s)) + 1
          /\ Given(s)'[Len(Given(s)) + 1] = n + 1
          /\ \A i \in 1 .. Len(Given(s)) : Given(s)'[i] = Given(s)[i]
      BY <3>1, <2>1, <1>5, AppendProperties
    <3>3. Owed(s)' = Owed(s) \union {n + 1} /\ s \in subscribers
      BY <2>3, <2>5, <1>2
    <3>4. \A i, j \in DOMAIN Given(s)' : i < j => Given(s)'[i] < Given(s)'[j]
      BY <3>2, <2>1, <2>2, <2>4, <1>5
    <3>5. \A i \in DOMAIN Given(s)' : Given(s)'[i] \in Owed(s)'
      BY <3>2, <3>3, <2>1, <2>2
    <3>6. \A e \in Owed(s)' : \E i \in DOMAIN Given(s)' : Given(s)'[i] = e
      BY <3>2, <3>3, <2>1, <2>2
    <3> QED BY <3>4, <3>5, <3>6 DEF GapFree
  <2>6. CASE s \notin reached \ full
    <3>1. Given(s)' = Given(s)
      BY <2>6, <1>1 DEF Given, SseTyped
    <3>2. n + 1 \in Owed(s)' => s \notin subscribers'
      BY <2>3, <2>4, <2>6, <1>1, <1>3, <1>5
    <3>3. \A i \in DOMAIN Given(s) : Given(s)[i] \in Nat /\ Given(s)[i] < n + 1
      BY <2>2, <2>4, <1>5
    <3>4. \A e \in Owed(s)' :
             \/ \E i \in DOMAIN Given(s) : Given(s)[i] = e
             \/ s \notin subscribers' /\ \A i \in DOMAIN Given(s) : Given(s)[i] < e
      BY <3>2, <3>3, <2>2, <2>3, <1>1
    <3>5. \A i \in DOMAIN Given(s) : Given(s)[i] \in Owed(s)'
      BY <2>2, <2>3
    <3> QED BY <3>1, <3>4, <3>5, <2>2 DEF GapFree
  <2> QED BY <2>5, <2>6
<1>12. NoSilentGap'
  BY <1>11, <1>1 DEF GapFree, NoSilentGap
<1> QED BY <1>8, <1>9, <1>10, <1>12

LEMMA SseStep == SseIInv /\ [SseNext]_sseVars => SseIInv'
<1> SUFFICES ASSUME SseIInv, [SseNext]_sseVars PROVE SseIInv'
  OBVIOUS
<1>1. CASE SseNext
  BY <1>1, SubscribeHolds, ReceiveHolds, EndStreamHolds, HangUpHolds, NotifyHolds DEF SseNext
<1>2. CASE UNCHANGED sseVars
  BY <1>2 DEF sseVars, SseIInv, SseTyped, Unopened, SlotsHeldByOpenStreams, NoSilentGap,
              Given, Owed, Sees
<1> QED BY <1>1, <1>2

\* A stream that is open has been given, in order and once each, all it may see
\* up to some event; short of the last one only when it has lost its place
\* (Broadcaster::notify, recv).
THEOREM StreamHasNoSilentGap == SseSpec => []NoSilentGap
<1>1. SseIInv => NoSilentGap
  BY DEF SseIInv
<1> QED BY <1>1, SseInitIInv, SseStep, PTL DEF SseSpec

\* Only open streams hold a place, and never more than the plan's cap
\* (subscribe, Drop for Subscription).
THEOREM PlacesHeldByOpenStreams == SseSpec => []SlotsHeldByOpenStreams
<1>1. SseIInv => SlotsHeldByOpenStreams
  BY DEF SseIInv
<1> QED BY <1>1, SseInitIInv, SseStep, PTL DEF SseSpec

-------------------------------------------------------------------------------
(* The readiness report.                                                   *)

PollState == [route : {"none", "ready", "detailed"}, took : Nat, todo : SUBSET Awaited,
          hit : BOOLEAN, young : BOOLEAN]

HealthTyped ==
    /\ uptime \in Nat /\ configured \subseteq Optional /\ down \subseteq Parts
    /\ tickAge \in Nat \union {Unticked}
    /\ readyCache \in [unhealthy : BOOLEAN, age : Nat \union {-1}]
    /\ pollers \in [Pollers -> PollState]
    /\ told \in [unhealthy : BOOLEAN, overdue : BOOLEAN, works : BOOLEAN]
    /\ downFor \in [Parts -> Nat] /\ upFor \in Nat

\* Who is asking, and for how long at most.
Asking(p) == pollers[p].route # "none"
PollsInTime == \A p \in Pollers : Asking(p) => pollers[p].took <= ProbeTime

\* The mail worker: one that is down has not ticked since it went, one that
\* runs has ticked in time.
WorkerSilent ==
    /\ "worker" \in down =>
         /\ "worker" \in configured
         /\ uptime >= StartGrace \/ uptime >= downFor["worker"]
         /\ tickAge # Unticked => tickAge > StaleAfter \/ tickAge >= downFor["worker"]
    /\ "worker" \in configured \ down =>
         (IF tickAge = Unticked THEN uptime ELSE tickAge) <= WorkEvery

\* Whether a poll began in a young process.
PollAges ==
    \A p \in Pollers : Asking(p) =>
        /\ "worker" \in down /\ pollers[p].young =>
             downFor["worker"] < StartGrace + pollers[p].took
        /\ "worker" \in configured \ down /\ ~pollers[p].young => tickAge # Unticked

\* A part that has been out of order for longer than a poll is among what the
\* poll has seen, or has still to ask.
PollSees ==
    \A p \in Pollers : Asking(p) =>
        \A part \in (Awaited \intersect down) \intersect Relevant :
            downFor[part] > pollers[p].took => part \in pollers[p].todo \/ pollers[p].hit

\* A poll that saw a failure began before everything had worked for so long.
PollSaw ==
    /\ down \intersect Relevant # {} => upFor = 0
    /\ \A p \in Pollers : Asking(p) /\ pollers[p].hit => upFor <= pollers[p].took

\* The stored report, by its age.
CacheSees ==
    readyCache # Nothing =>
        /\ readyCache.age \in Nat
        /\ \A part \in down \intersect Relevant :
             downFor[part] > Lag(part) + readyCache.age + ProbeTime => readyCache.unhealthy
        /\ readyCache.unhealthy => upFor <= readyCache.age + ProbeTime

HealthIInv ==
    /\ HealthTyped /\ PollsInTime /\ WorkerSilent /\ PollAges /\ PollSees /\ PollSaw
    /\ CacheSees /\ OutageSurfaces /\ RecoveryShows

-------------------------------------------------------------------------------
LEMMA HealthInitIInv == HealthInit => HealthIInv
<1> SUFFICES ASSUME HealthInit PROVE HealthIInv
  OBVIOUS
<1> USE HealthAssumption DEF HealthInit
<1>1. HealthTyped
  BY DEF HealthTyped, PollState, Waiting, Nothing, Untold, Unticked, Optional, Parts
<1>2. PollsInTime /\ PollAges /\ PollSees
  BY DEF PollsInTime, PollAges, PollSees, Asking, Waiting
<1>3. WorkerSilent /\ CacheSees
  BY DEF WorkerSilent, CacheSees
<1>4. PollSaw /\ OutageSurfaces /\ RecoveryShows
  BY DEF PollSaw, Asking, Waiting, OutageSurfaces, RecoveryShows, Untold
<1> QED BY <1>1, <1>2, <1>3, <1>4 DEF HealthIInv

LEMMA LagBounds ==
    /\ \A part \in Parts : Lag(part) \in Nat
    /\ Lag("worker") >= StartGrace /\ Lag("worker") > StaleAfter
    /\ \A part \in Awaited \union {"disk"} : Lag(part) = 0
BY HealthAssumption DEF Lag, Parts, Awaited

LEMMA TellIsTrue ==
    ASSUME NEW unhealthy \in BOOLEAN, Tell(unhealthy, ProbeTime + 1), upFor \in Nat,
           \A part \in down \intersect Relevant : downFor[part] \in Nat /\ Lag(part) \in Nat,
           \A part \in down \intersect Relevant :
               downFor[part] > Lag(part) + ProbeTime => unhealthy,
           unhealthy => upFor <= ProbeTime
    PROVE  OutageSurfaces' /\ RecoveryShows'
<1> USE HealthAssumption
<1>1. /\ told'.unhealthy = unhealthy
      /\ told'.overdue <=> \E part \in down \intersect Relevant :
                              downFor[part] >= Lag(part) + (ProbeTime + 1)
      /\ told'.works <=> upFor >= ProbeTime + 1
  BY DEF Tell
<1> QED BY <1>1 DEF OutageSurfaces, RecoveryShows

LEMMA UntoldIsTrue == told' = Untold => OutageSurfaces' /\ RecoveryShows'
BY DEF Untold, OutageSurfaces, RecoveryShows

\* The report a poll ends with: a part out of order for longer than a poll lasts
\* is in it, and one with anything in it began before all had worked that long.
LEMMA ReportTrue ==
    ASSUME HealthIInv, NEW p \in Pollers, Asking(p), pollers[p].todo = {}
    PROVE  /\ \A part \in down \intersect Relevant :
                downFor[part] > Lag(part) + ProbeTime => AnyCritical(p)
           /\ AnyCritical(p) => upFor <= ProbeTime
           /\ AnyCritical(p) \in BOOLEAN
<1> USE HealthAssumption DEF HealthIInv
<1>1. /\ pollers[p].took \in Nat /\ pollers[p].took <= ProbeTime /\ upFor \in Nat
      /\ pollers[p].hit \in BOOLEAN /\ pollers[p].young \in BOOLEAN
  BY DEF HealthTyped, PollState, PollsInTime
<1>2. ASSUME NEW part \in down \intersect Relevant, downFor[part] > Lag(part) + ProbeTime
      PROVE  AnyCritical(p)
  <2>1. part \in Parts /\ downFor[part] \in Nat
    BY DEF HealthTyped
  <2>2. CASE part \in Awaited
    <3>1. downFor[part] > pollers[p].took
      BY <2>1, <2>2, <1>1, <1>2, LagBounds
    <3> QED BY <3>1, <2>2 DEF PollSees, AnyCritical
  <2>3. CASE part = "disk"
    BY <2>3 DEF AnyCritical, Critical
  <2>4. CASE part = "worker"
    <3>1. downFor["worker"] > StartGrace + pollers[p].took /\ downFor["worker"] > StaleAfter
      BY <2>4, <2>1, <1>1, <1>2, LagBounds DEF Parts
    <3>2. ~pollers[p].young
      BY <3>1, <2>4, <2>1, <1>1 DEF PollAges
    <3>3. tickAge # Unticked => tickAge > StaleAfter
      BY <3>1, <2>4, <2>1 DEF WorkerSilent, HealthTyped, Unticked
    <3>4. WorkerCritical(pollers[p].young)
      BY <3>2, <3>3, <2>4 DEF WorkerCritical, WorkerSilent
    <3> QED BY <3>4 DEF AnyCritical
  <2> QED BY <2>1, <2>2, <2>3, <2>4 DEF Parts
<1>3. ASSUME AnyCritical(p) PROVE upFor <= ProbeTime
  <2>1. CASE pollers[p].hit
    BY <2>1, <1>1 DEF PollSaw
  <2>2. CASE "disk" \in down
    BY <2>2, <1>1 DEF PollSaw, Relevant, Parts, Optional
  <2>3. CASE "worker" \in down
    BY <2>3, <1>1 DEF PollSaw, Relevant, WorkerSilent
  <2>4. CASE "worker" \notin down /\ WorkerCritical(pollers[p].young)
    <3>1. "worker" \in configured \ down
      BY <2>4 DEF WorkerCritical
    <3>2. tickAge = Unticked => ~pollers[p].young
      BY <2>4 DEF WorkerCritical
    <3>3. tickAge # Unticked
      BY <3>1, <3>2 DEF PollAges
    <3>4. tickAge > StaleAfter
      BY <2>4, <3>3 DEF WorkerCritical
    <3> QED BY <3>1, <3>3, <3>4 DEF WorkerSilent, HealthTyped
  <2> QED BY <1>3, <2>1, <2>2, <2>3, <2>4 DEF AnyCritical, Critical
<1>4. AnyCritical(p) \in BOOLEAN
  BY <1>1 DEF AnyCritical, Critical, WorkerCritical
<1> QED BY <1>2, <1>3, <1>4

-------------------------------------------------------------------------------
\* One poller moves: what the invariant asks of its new state.
PollSound(p, poll) ==
    poll.route # "none" =>
        /\ poll.took <= ProbeTime
        /\ "worker" \in down /\ poll.young => downFor["worker"] < StartGrace + poll.took
        /\ "worker" \in configured \ down /\ ~poll.young => tickAge # Unticked
        /\ \A part \in (Awaited \intersect down) \intersect Relevant :
             downFor[part] > poll.took => part \in poll.todo \/ poll.hit
        /\ poll.hit => upFor <= poll.took

LEMMA OnePollMoves ==
    ASSUME HealthIInv, NEW p \in Pollers, NEW poll \in PollState,
           PollSound(p, poll), pollers' = [pollers EXCEPT ![p] = poll],
           UNCHANGED <<uptime, configured, down, tickAge, downFor, upFor>>
    PROVE  /\ pollers' \in [Pollers -> PollState]
           /\ PollsInTime' /\ WorkerSilent' /\ PollAges' /\ PollSees' /\ PollSaw'
<1> USE DEF HealthIInv
<1>1. \A q \in Pollers : pollers'[q] = IF q = p THEN poll ELSE pollers[q]
  BY DEF HealthTyped
<1>2. pollers' \in [Pollers -> PollState]
  BY DEF HealthTyped
<1>3. PollsInTime'
  BY <1>1 DEF PollsInTime, Asking, PollSound
<1>4. WorkerSilent'
  BY DEF WorkerSilent
<1>5. PollAges'
  BY <1>1 DEF PollAges, Asking, PollSound
<1>6. PollSees'
  BY <1>1 DEF PollSees, Asking, PollSound, Relevant
<1>7. PollSaw'
  BY <1>1 DEF PollSaw, Asking, PollSound, Relevant
<1> QED BY <1>2, <1>3, <1>4, <1>5, <1>6, <1>7

LEMMA CacheStays ==
    ASSUME CacheSees, UNCHANGED <<readyCache, configured, down, downFor, upFor>>
    PROVE  CacheSees'
BY DEF CacheSees, Relevant

LEMMA PollHolds ==
    ASSUME HealthIInv, NEW p \in Pollers, NEW route \in {"ready", "nocache", "detailed"},
           Poll(p, route)
    PROVE  HealthIInv'
<1> USE HealthAssumption DEF HealthIInv
<1>0. UNCHANGED <<uptime, configured, down, tickAge, readyCache, downFor, upFor>>
  BY DEF Poll
<1>1. CacheSees'
  BY <1>0, CacheStays
<1>2. CASE /\ readyCache # Nothing /\ CacheFreshAt(readyCache.age)
           /\ Tell(readyCache.unhealthy, CacheWindow) /\ UNCHANGED pollers
  <2>1. HealthTyped'
    BY <1>0, <1>2 DEF HealthTyped, Tell
  <2>2. PollsInTime' /\ WorkerSilent' /\ PollAges' /\ PollSees' /\ PollSaw'
    BY <1>0, <1>2 DEF PollsInTime, WorkerSilent, PollAges, PollSees, PollSaw, Asking, Relevant
  <2>3. readyCache.age \in Nat /\ readyCache.age < ReadyTTL
    BY <1>2 DEF CacheSees, CacheFreshAt
  <2>4. OutageSurfaces'
    <3>1. ASSUME NEW part \in down \intersect Relevant,
                 downFor[part] >= Lag(part) + CacheWindow
          PROVE  readyCache.unhealthy
      <4>1. downFor[part] \in Nat /\ Lag(part) \in Nat
        BY LagBounds DEF HealthTyped
      <4>2. downFor[part] > Lag(part) + readyCache.age + ProbeTime
        BY <4>1, <3>1, <2>3 DEF CacheWindow
      <4> QED BY <4>2, <1>2 DEF CacheSees
    <3> QED BY <3>1, <1>2 DEF OutageSurfaces, Tell
  <2>5. RecoveryShows'
    <3>1. readyCache.unhealthy => ~(upFor >= CacheWindow)
      BY <1>2, <2>3 DEF CacheSees, CacheWindow, HealthTyped
    <3> QED BY <3>1, <1>2 DEF RecoveryShows, Tell
  <2> QED BY <2>1, <2>2, <2>4, <2>5, <1>1
<1>3. CASE /\ told' = Untold
           /\ pollers' = [pollers EXCEPT ![p] =
                 [route |-> IF route = "detailed" THEN route ELSE "ready",
                  took |-> 0, todo |-> Awaited, hit |-> FALSE,
                  young |-> uptime < StartGrace]]
  <2> DEFINE poll == [route |-> IF route = "detailed" THEN route ELSE "ready",
                  took |-> 0, todo |-> Awaited, hit |-> FALSE,
                  young |-> uptime < StartGrace]
  <2>1. poll \in PollState
    BY DEF PollState
  <2>0. poll.took = 0 /\ poll.todo = Awaited /\ ~poll.hit /\ (poll.young <=> uptime < StartGrace)
    OBVIOUS
  <2> HIDE DEF poll
  <2>2. PollSound(p, poll)
    <3>1. "worker" \in down /\ poll.young => downFor["worker"] < StartGrace + poll.took
      BY <2>0 DEF WorkerSilent, HealthTyped
    <3>2. "worker" \in configured \ down /\ ~poll.young => tickAge # Unticked
      BY <2>0 DEF WorkerSilent, HealthTyped
    <3> QED BY <2>0, <3>1, <3>2 DEF PollSound
  <2>3. /\ pollers' \in [Pollers -> PollState]
        /\ PollsInTime' /\ WorkerSilent' /\ PollAges' /\ PollSees' /\ PollSaw'
    BY <1>0, <1>3, <2>1, <2>2, OnePollMoves DEF poll
  <2>4. HealthTyped'
    BY <1>0, <1>3, <2>3 DEF HealthTyped, Untold
  <2> QED BY <1>1, <1>3, <2>3, <2>4, UntoldIsTrue
<1> QED BY <1>2, <1>3 DEF Poll

LEMMA ProbeHolds ==
    ASSUME HealthIInv, NEW p \in Pollers, NEW part \in Awaited, Probe(p, part)
    PROVE  HealthIInv'
<1> USE HealthAssumption DEF HealthIInv
<1>0. /\ UNCHANGED <<uptime, configured, down, tickAge, readyCache, downFor, upFor>>
      /\ told' = Untold
  BY DEF Probe
<1>1. PICK r, k, d, h, y : pollers[p] = [route |-> r, took |-> k, todo |-> d, hit |-> h, young |-> y]
  BY DEF HealthTyped, PollState
<1> DEFINE poll == [route |-> r, took |-> k, todo |-> d \ {part},
                    hit |-> h \/ Critical(part), young |-> y]
<1>2. /\ r \in {"none", "ready", "detailed"} /\ k \in Nat /\ d \subseteq Awaited
      /\ h \in BOOLEAN /\ y \in BOOLEAN
  BY <1>1 DEF HealthTyped, PollState
<1>3. pollers' = [pollers EXCEPT ![p] = poll]
  <2>1. pollers \in [Pollers -> PollState]
    BY DEF HealthTyped
  <2>2. pollers' = [pollers EXCEPT ![p] = pollers'[p]]
    BY <2>1 DEF Probe
  <2>3. pollers'[p] = [[pollers[p] EXCEPT !.todo = @ \ {part}] EXCEPT !.hit = @ \/ Critical(part)]
    BY <2>1 DEF Probe
  <2>4. pollers'[p] = poll
    <3> DEFINE asked == [route |-> r, took |-> k, todo |-> d \ {part}, hit |-> h, young |-> y]
    <3>1. [pollers[p] EXCEPT !.todo = @ \ {part}] = asked
      BY <1>1
    <3>2. pollers'[p] = [asked EXCEPT !.hit = @ \/ Critical(part)]
      BY <2>3, <3>1, Zenon
    <3>3. asked.hit = h
      OBVIOUS
    <3>4. \A c : [asked EXCEPT !.hit = c]
                = [route |-> r, took |-> k, todo |-> d \ {part}, hit |-> c, young |-> y]
      OBVIOUS
    <3> HIDE DEF asked
    <3> QED BY <3>2, <3>3, <3>4, Zenon
  <2> QED BY <2>2, <2>4
<1>4. poll \in PollState
  BY <1>2 DEF PollState
<1>5. PollSound(p, poll)
  <2>1. ASSUME r # "none"
        PROVE  /\ k <= ProbeTime
               /\ "worker" \in down /\ y => downFor["worker"] < StartGrace + k
               /\ "worker" \in configured \ down /\ ~y => tickAge # Unticked
               /\ \A q \in (Awaited \intersect down) \intersect Relevant :
                    downFor[q] > k => q \in d \/ h
               /\ h => upFor <= k
    BY <1>1, <2>1 DEF Asking, PollsInTime, PollAges, PollSees, PollSaw
  <2>2. part \in (Awaited \intersect down) \intersect Relevant => Critical(part)
    BY DEF Critical, Relevant, Parts, Optional, Awaited
  <2>3. Critical(part) => upFor = 0
    BY DEF Critical, PollSaw, Relevant, Parts, Optional, Awaited
  <2>4. /\ poll.route = r /\ poll.took = k /\ poll.todo = d \ {part}
        /\ (poll.hit <=> h \/ Critical(part)) /\ poll.young = y
    OBVIOUS
  <2> HIDE DEF poll
  <2>5. ASSUME r # "none", NEW q \in (Awaited \intersect down) \intersect Relevant, downFor[q] > k
        PROVE  q \in poll.todo \/ poll.hit
    BY <2>1, <2>2, <2>4, <2>5
  <2>6. r # "none" /\ poll.hit => upFor <= k
    BY <1>2, <2>1, <2>3, <2>4
  <2> QED BY <2>1, <2>4, <2>5, <2>6 DEF PollSound
<1> HIDE DEF poll
<1>6. /\ pollers' \in [Pollers -> PollState]
      /\ PollsInTime' /\ WorkerSilent' /\ PollAges' /\ PollSees' /\ PollSaw'
  BY <1>0, <1>3, <1>4, <1>5, OnePollMoves
<1>7. HealthTyped'
  BY <1>0, <1>6 DEF HealthTyped, Untold
<1> QED BY <1>0, <1>6, <1>7, CacheStays, UntoldIsTrue

\* A poller that stops asking.
LEMMA PollEnds ==
    ASSUME HealthIInv, NEW p \in Pollers, pollers' = [pollers EXCEPT ![p] = Waiting],
           UNCHANGED <<uptime, configured, down, tickAge, downFor, upFor>>
    PROVE  /\ pollers' \in [Pollers -> PollState]
           /\ PollsInTime' /\ WorkerSilent' /\ PollAges' /\ PollSees' /\ PollSaw'
BY OnePollMoves DEF PollSound, Waiting, PollState

LEMMA StoreReportHolds ==
    ASSUME HealthIInv, NEW p \in Pollers, StoreReport(p) PROVE HealthIInv'
<1> USE HealthAssumption DEF HealthIInv
<1>1. /\ /\ pollers' \in [Pollers -> PollState]
         /\ PollsInTime' /\ WorkerSilent' /\ PollAges' /\ PollSees' /\ PollSaw'
      /\ UNCHANGED <<uptime, configured, down, tickAge, downFor, upFor>>
      /\ Tell(AnyCritical(p), ProbeTime + 1)
      /\ readyCache' = [unhealthy |-> AnyCritical(p), age |-> 0]
  BY PollEnds DEF StoreReport
<1>2. /\ \A part \in down \intersect Relevant :
           downFor[part] > Lag(part) + ProbeTime => AnyCritical(p)
      /\ AnyCritical(p) => upFor <= ProbeTime
      /\ AnyCritical(p) \in BOOLEAN
  BY ReportTrue DEF StoreReport, Asking
<1>3. /\ upFor \in Nat
      /\ \A part \in down \intersect Relevant : downFor[part] \in Nat /\ Lag(part) \in Nat
  BY LagBounds DEF HealthTyped
<1>4. HealthTyped'
  BY <1>1, <1>2 DEF HealthTyped, Tell
<1>5. CacheSees'
  <2>1. readyCache'.age = 0 /\ readyCache'.unhealthy = AnyCritical(p)
    BY <1>1
  <2>2. \A part \in down \intersect Relevant :
          downFor[part] > Lag(part) + 0 + ProbeTime => AnyCritical(p)
    BY <1>2, <1>3
  <2>3. AnyCritical(p) => upFor <= 0 + ProbeTime
    BY <1>2
  <2> QED BY <1>1, <2>1, <2>2, <2>3 DEF CacheSees, Relevant
<1>6. OutageSurfaces' /\ RecoveryShows'
  BY <1>1, <1>2, <1>3, TellIsTrue
<1> QED BY <1>1, <1>4, <1>5, <1>6

LEMMA AnswerDetailedHolds ==
    ASSUME HealthIInv, NEW p \in Pollers, NEW warned \in BOOLEAN, AnswerDetailed(p, warned)
    PROVE  HealthIInv'
<1> USE HealthAssumption DEF HealthIInv
<1>1. /\ /\ pollers' \in [Pollers -> PollState]
         /\ PollsInTime' /\ WorkerSilent' /\ PollAges' /\ PollSees' /\ PollSaw'
      /\ UNCHANGED <<uptime, configured, down, tickAge, readyCache, downFor, upFor>>
      /\ Tell(Rollup(AnyCritical(p), warned) = "unhealthy", ProbeTime + 1)
  BY PollEnds DEF AnswerDetailed
<1>2. /\ \A part \in down \intersect Relevant :
           downFor[part] > Lag(part) + ProbeTime => AnyCritical(p)
      /\ AnyCritical(p) => upFor <= ProbeTime
      /\ AnyCritical(p) \in BOOLEAN
  BY ReportTrue DEF AnswerDetailed, Asking
<1>3. /\ upFor \in Nat
      /\ \A part \in down \intersect Relevant : downFor[part] \in Nat /\ Lag(part) \in Nat
  BY LagBounds DEF HealthTyped
<1>4. (Rollup(AnyCritical(p), warned) = "unhealthy") = AnyCritical(p)
  BY <1>2 DEF Rollup
<1>5. HealthTyped'
  BY <1>1, <1>2, <1>4 DEF HealthTyped, Tell
<1>6. OutageSurfaces' /\ RecoveryShows'
  BY <1>1, <1>2, <1>3, <1>4, TellIsTrue
<1> QED BY <1>1, <1>5, <1>6, CacheStays

LEMMA HangUpPollHolds ==
    ASSUME HealthIInv, NEW p \in Pollers, HangUpPoll(p) PROVE HealthIInv'
<1> USE DEF HealthIInv
<1>1. /\ /\ pollers' \in [Pollers -> PollState]
         /\ PollsInTime' /\ WorkerSilent' /\ PollAges' /\ PollSees' /\ PollSaw'
      /\ UNCHANGED <<uptime, configured, down, tickAge, readyCache, downFor, upFor>>
      /\ told' = Untold
  BY PollEnds DEF HangUpPoll
<1>2. HealthTyped'
  BY <1>1 DEF HealthTyped, Untold
<1> QED BY <1>1, <1>2, CacheStays, UntoldIsTrue

-------------------------------------------------------------------------------
LEMMA StampTickHolds == ASSUME HealthIInv, StampTick PROVE HealthIInv'
<1> USE HealthAssumption DEF HealthIInv, StampTick
<1>1. HealthTyped'
  BY DEF HealthTyped, Untold
<1>2. PollsInTime' /\ PollSees' /\ PollSaw'
  BY DEF PollsInTime, PollSees, PollSaw, Asking, Relevant
<1>3. WorkerSilent' /\ PollAges'
  BY DEF WorkerSilent, PollAges, Asking, Unticked
<1> QED BY <1>1, <1>2, <1>3, CacheStays, UntoldIsTrue

LEMMA FailPartHolds == ASSUME HealthIInv, NEW part \in Parts, FailPart(part) PROVE HealthIInv'
<1> USE HealthAssumption DEF HealthIInv, FailPart
<1>1. HealthTyped'
  BY DEF HealthTyped, Untold
<1>2. PollsInTime'
  BY DEF PollsInTime, Asking
<1>3. /\ \A q \in Parts : downFor'[q] = IF q = part THEN 0 ELSE downFor[q]
      /\ down' = down \union {part} /\ UNCHANGED <<configured, pollers, tickAge, uptime, readyCache>>
      /\ upFor' = IF part \in Relevant THEN 0 ELSE upFor
      /\ "worker" \in Parts /\ Relevant' = Relevant /\ Relevant \subseteq Parts
  <2>1. \A q \in Parts : downFor'[q] = IF q = part THEN 0 ELSE downFor[q]
    BY DEF HealthTyped
  <2>2. Relevant' = Relevant
    BY DEF Relevant
  <2>3. "worker" \in Parts /\ Optional \subseteq Parts
    BY DEF Optional, Parts, Awaited
  <2>4. Relevant \subseteq Parts
    BY <2>3 DEF HealthTyped, Relevant
  <2> QED BY <2>1, <2>2, <2>3, <2>4
<1>4. WorkerSilent'
  BY <1>3 DEF WorkerSilent, HealthTyped, Unticked
<1>5. PollAges'
  BY <1>3 DEF PollAges, HealthTyped, PollState, Asking
<1>6. PollSees'
  BY <1>3 DEF PollSees, HealthTyped, PollState, Asking
<1>7. PollSaw'
  BY <1>3 DEF PollSaw, HealthTyped, PollState, Asking
<1>8. CacheSees'
  BY <1>3, LagBounds DEF CacheSees, HealthTyped
<1> QED BY <1>1, <1>2, <1>4, <1>5, <1>6, <1>7, <1>8, UntoldIsTrue

LEMMA RecoverPartsHolds == ASSUME HealthIInv, RecoverParts PROVE HealthIInv'
<1> USE HealthAssumption DEF HealthIInv, RecoverParts
<1>1. HealthTyped'
  BY DEF HealthTyped, Untold
<1>2. /\ down' = down \intersect {"worker"} /\ Relevant' = Relevant
      /\ \A q \in down' : downFor'[q] = downFor[q]
      /\ UNCHANGED <<configured, pollers, tickAge, uptime, readyCache, upFor>>
  BY DEF Relevant, HealthTyped
<1>3. PollsInTime' /\ WorkerSilent' /\ PollAges'
  BY <1>2 DEF PollsInTime, WorkerSilent, PollAges, Asking
<1>4. PollSees' /\ PollSaw' /\ CacheSees'
  BY <1>2 DEF PollSees, PollSaw, CacheSees, Asking
<1> QED BY <1>1, <1>3, <1>4, UntoldIsTrue

LEMMA RestartProcessHolds == ASSUME HealthIInv, RestartProcess PROVE HealthIInv'
<1> USE HealthAssumption DEF HealthIInv, RestartProcess
<1>1. HealthTyped'
  BY DEF HealthTyped, Untold, Nothing, Waiting, PollState, Unticked
<1>2. PollsInTime' /\ PollAges' /\ PollSees'
  BY DEF PollsInTime, PollAges, PollSees, Asking, Waiting
<1>3. WorkerSilent' /\ CacheSees'
  BY DEF WorkerSilent, CacheSees
<1>4. PollSaw'
  BY DEF PollSaw, Asking, Waiting, Relevant
<1> QED BY <1>1, <1>2, <1>3, <1>4, UntoldIsTrue

-------------------------------------------------------------------------------
LEMMA HealthTickHolds == ASSUME HealthIInv, HealthTick PROVE HealthIInv'
<1> USE HealthAssumption DEF HealthIInv
<1>1. /\ UNCHANGED <<configured, down>> /\ told' = Untold /\ Relevant' = Relevant
      /\ uptime' = Aged(uptime, StartGrace)
      /\ tickAge' = IF tickAge = Unticked THEN tickAge ELSE Aged(tickAge, StaleAfter + 1)
      /\ upFor' = IF down \intersect Relevant = {} THEN Aged(upFor, CacheWindow) ELSE 0
      /\ "worker" \in configured \ down =>
           (IF tickAge = Unticked THEN uptime ELSE tickAge) < WorkEvery
  BY DEF HealthTick, Relevant
<1>2. \A q \in down : downFor'[q] = Aged(downFor[q], Lag(q) + CacheWindow)
  BY DEF HealthTick, HealthTyped
<1>3. \A n, cap \in Nat : Aged(n, cap) \in {n + 1, cap} /\ (Aged(n, cap) = n + 1 \/ n >= cap)
  BY DEF Aged
<1>4. /\ CacheWindow \in Nat /\ CacheWindow > ProbeTime
      /\ \A q \in Parts : Lag(q) + CacheWindow \in Nat
  BY LagBounds DEF CacheWindow
<1>5. downFor' \in [Parts -> Nat]
  BY <1>3, <1>4 DEF HealthTick, HealthTyped
<1>6. /\ upFor \in Nat /\ uptime \in Nat /\ tickAge \in Nat \union {Unticked}
      /\ down \subseteq Parts /\ \A q \in Parts : downFor[q] \in Nat
  BY DEF HealthTyped
<1>7. /\ pollers' \in [Pollers -> PollState]
      /\ \A p \in Pollers : Asking(p)' =>
           /\ Asking(p) /\ pollers[p].took < ProbeTime /\ pollers[p].took \in Nat
           /\ pollers'[p].took = pollers[p].took + 1 /\ pollers'[p].todo = pollers[p].todo
           /\ pollers'[p].hit = pollers[p].hit /\ pollers'[p].young = pollers[p].young
  <2> SUFFICES ASSUME NEW p \in Pollers
        PROVE  /\ pollers'[p] \in PollState
               /\ Asking(p)' =>
                    /\ Asking(p) /\ pollers[p].took < ProbeTime /\ pollers[p].took \in Nat
                    /\ pollers'[p].took = pollers[p].took + 1 /\ pollers'[p].todo = pollers[p].todo
                    /\ pollers'[p].hit = pollers[p].hit /\ pollers'[p].young = pollers[p].young
    BY DEF HealthTick
  <2>1. PICK r, k, d, h, y :
          pollers[p] = [route |-> r, took |-> k, todo |-> d, hit |-> h, young |-> y]
    BY DEF HealthTyped, PollState
  <2>2. /\ r \in {"none", "ready", "detailed"} /\ k \in Nat /\ d \subseteq Awaited
        /\ h \in BOOLEAN /\ y \in BOOLEAN
    BY <2>1 DEF HealthTyped, PollState
  <2>3. CASE pollers[p] = Waiting
    <3>1. pollers'[p] = Waiting
      BY <2>3 DEF HealthTick
    <3> QED BY <3>1 DEF Waiting, PollState, Asking
  <2>4. CASE pollers[p] # Waiting
    <3>1. /\ pollers'[p] = [route |-> r, took |-> k + 1, todo |-> d, hit |-> h, young |-> y]
          /\ k < ProbeTime
      BY <2>1, <2>4 DEF HealthTick
    <3> QED BY <3>1, <2>1, <2>2 DEF PollState, Asking
  <2> QED BY <2>3, <2>4
<1>8. /\ readyCache' \in [unhealthy : BOOLEAN, age : Nat \union {-1}]
      /\ readyCache' # Nothing =>
           /\ readyCache # Nothing /\ readyCache.age \in Nat
           /\ readyCache'.age = readyCache.age + 1 /\ readyCache.age < ReadyTTL
           /\ readyCache'.unhealthy = readyCache.unhealthy
  <2>1. PICK u, a : readyCache = [unhealthy |-> u, age |-> a]
    BY DEF HealthTyped
  <2>2. u \in BOOLEAN
    BY <2>1 DEF HealthTyped
  <2>3. CASE readyCache = Nothing \/ readyCache.age >= ReadyTTL
    BY <2>3 DEF HealthTick, Nothing
  <2>4. CASE ~(readyCache = Nothing \/ readyCache.age >= ReadyTTL)
    <3>1. a \in Nat /\ a < ReadyTTL
      BY <2>1, <2>4 DEF CacheSees
    <3>2. readyCache' = [unhealthy |-> u, age |-> a + 1]
      BY <2>1, <2>4 DEF HealthTick
    <3> QED BY <3>1, <3>2, <2>1, <2>2, <2>4
  <2> QED BY <2>3, <2>4
<1>9. HealthTyped'
  <2>1. uptime' \in Nat /\ upFor' \in Nat /\ tickAge' \in Nat \union {Unticked}
    BY <1>1, <1>3, <1>4, <1>6
  <2> QED BY <2>1, <1>1, <1>5, <1>7, <1>8 DEF HealthTyped, Untold
<1>10. PollsInTime'
  BY <1>7 DEF PollsInTime
<1>11. WorkerSilent'
  <2>1. ASSUME "worker" \in down
        PROVE  /\ uptime' >= StartGrace \/ uptime' >= downFor'["worker"]
               /\ tickAge' # Unticked => tickAge' > StaleAfter \/ tickAge' >= downFor'["worker"]
    <3>1. downFor'["worker"] <= downFor["worker"] + 1 /\ downFor["worker"] \in Nat
          /\ downFor'["worker"] \in Nat
      BY <2>1, <1>2, <1>5, <1>6, <1>4 DEF Aged
    <3>2. uptime' >= StartGrace \/ uptime' = uptime + 1
      BY <1>1, <1>6 DEF Aged
    <3>3. tickAge' # Unticked => /\ tickAge # Unticked
                                 /\ tickAge' > StaleAfter \/ tickAge' = tickAge + 1
      BY <1>1, <1>6 DEF Aged, Unticked
    <3>4. uptime >= StartGrace => uptime' >= StartGrace
      BY <1>1, <1>6 DEF Aged
    <3>5. tickAge # Unticked /\ tickAge > StaleAfter => tickAge' > StaleAfter
      BY <1>1, <1>6 DEF Aged, Unticked
    <3> QED BY <2>1, <3>1, <3>2, <3>3, <3>4, <3>5, <1>6 DEF WorkerSilent
  <2>2. "worker" \in configured \ down =>
         (IF tickAge' = Unticked THEN uptime' ELSE tickAge') <= WorkEvery
    BY <1>1, <1>6 DEF Aged, Unticked
  <2> QED BY <1>1, <2>1, <2>2 DEF WorkerSilent
<1>12. PollAges'
  <2> SUFFICES ASSUME NEW p \in Pollers, Asking(p)'
        PROVE  /\ "worker" \in down /\ pollers'[p].young =>
                    downFor'["worker"] < StartGrace + pollers'[p].took
               /\ "worker" \in configured \ down /\ ~pollers'[p].young => tickAge' # Unticked
    BY <1>1 DEF PollAges
  <2>1. "worker" \in down => /\ downFor'["worker"] <= downFor["worker"] + 1
                             /\ downFor["worker"] \in Nat /\ downFor'["worker"] \in Nat
    BY <1>2, <1>5, <1>6, <1>4 DEF Aged
  <2>2. tickAge # Unticked => tickAge' # Unticked
    BY <1>1, <1>6 DEF Aged, Unticked
  <2> QED BY <2>1, <2>2, <1>7 DEF PollAges
<1>13. PollSees'
  <2> SUFFICES ASSUME NEW p \in Pollers, Asking(p)',
                      NEW part \in (Awaited \intersect down) \intersect Relevant,
                      downFor'[part] > pollers'[p].took
        PROVE  part \in pollers'[p].todo \/ pollers'[p].hit
    BY <1>1 DEF PollSees
  <2>1. downFor[part] > pollers[p].took
    <3>1. downFor'[part] = downFor[part] + 1 \/ downFor[part] >= Lag(part) + CacheWindow
      BY <1>2, <1>4, <1>6 DEF Aged
    <3>2. downFor[part] \in Nat /\ Lag(part) \in Nat
      BY <1>6, LagBounds
    <3> QED BY <3>1, <3>2, <1>4, <1>7
  <2> QED BY <2>1, <1>7 DEF PollSees
<1>14. PollSaw'
  <2>1. upFor' <= upFor + 1
    BY <1>1, <1>4, <1>6 DEF Aged
  <2>2. upFor' \in Nat
    BY <1>9 DEF HealthTyped
  <2>3. \A p \in Pollers : Asking(p)' /\ pollers'[p].hit => upFor' <= pollers'[p].took
    BY <2>1, <2>2, <1>6, <1>7 DEF PollSaw
  <2> QED BY <2>3, <1>1 DEF PollSaw
<1>15. CacheSees'
  <2> SUFFICES ASSUME readyCache' # Nothing
        PROVE  /\ \A part \in down \intersect Relevant :
                    downFor'[part] > Lag(part) + readyCache'.age + ProbeTime => readyCache'.unhealthy
               /\ readyCache'.unhealthy => upFor' <= readyCache'.age + ProbeTime
    BY <1>1, <1>8 DEF CacheSees
  <2>1. upFor' <= upFor + 1 /\ upFor' \in Nat
    BY <1>1, <1>4, <1>6, <1>9 DEF Aged, HealthTyped
  <2>2. ASSUME NEW part \in down \intersect Relevant,
               downFor'[part] > Lag(part) + readyCache'.age + ProbeTime
        PROVE  readyCache'.unhealthy
    <3>1. /\ downFor[part] \in Nat /\ Lag(part) \in Nat /\ downFor'[part] \in Nat
          /\ downFor'[part] <= downFor[part] + 1
      BY <1>2, <1>4, <1>5, <1>6, LagBounds DEF Aged
    <3>2. downFor[part] > Lag(part) + readyCache.age + ProbeTime
      BY <2>2, <3>1, <1>8
    <3> QED BY <3>2, <1>8 DEF CacheSees
  <2> QED BY <2>1, <2>2, <1>6, <1>8 DEF CacheSees
<1> QED BY <1>1, <1>9, <1>10, <1>11, <1>12, <1>13, <1>14, <1>15, UntoldIsTrue

LEMMA HealthStep == HealthIInv /\ [HealthNext]_healthVars => HealthIInv'
<1> SUFFICES ASSUME HealthIInv, [HealthNext]_healthVars PROVE HealthIInv'
  OBVIOUS
<1>1. CASE HealthNext
  BY <1>1, PollHolds, ProbeHolds, StoreReportHolds, AnswerDetailedHolds, HangUpPollHolds,
     FailPartHolds, StampTickHolds, RecoverPartsHolds, RestartProcessHolds, HealthTickHolds
     DEF HealthNext
<1>2. CASE UNCHANGED healthVars
  <2>1. HealthTyped' /\ PollsInTime' /\ WorkerSilent' /\ PollAges'
    BY <1>2 DEF healthVars, HealthIInv, HealthTyped, PollsInTime, WorkerSilent, PollAges, Asking
  <2>2. PollSees' /\ PollSaw' /\ CacheSees' /\ OutageSurfaces' /\ RecoveryShows'
    BY <1>2 DEF healthVars, HealthIInv, PollSees, PollSaw, CacheSees, OutageSurfaces,
                RecoveryShows, Asking, Relevant
  <2> QED BY <2>1, <2>2 DEF HealthIInv
<1> QED BY <1>1, <1>2

\* A part that has been out of order for the cache's life and one probe, the
\* worker's silence being an outage only after its own limits, is never answered
\* as ready, cached or not (health_ready, READY_CACHE_TTL).
THEOREM OutagesSurface == HealthSpec => []OutageSurfaces
<1>1. HealthIInv => OutageSurfaces
  BY DEF HealthIInv
<1> QED BY <1>1, HealthInitIInv, HealthStep, PTL DEF HealthSpec

\* Once all that this install has works for that long, no poller is told
\* otherwise (probe_email_worker_with, the startup grace).
THEOREM RecoveriesShow == HealthSpec => []RecoveryShows
<1>1. HealthIInv => RecoveryShows
  BY DEF HealthIInv
<1> QED BY <1>1, HealthInitIInv, HealthStep, PTL DEF HealthSpec

-------------------------------------------------------------------------------
(* The transcript of a run.                                                *)

Message == [kind : {"system", "user", "assistant", "result", "frame", "note"}, turn : Nat]
Conversing == stage \in {"model", "tools"}

TranscriptTyped ==
    /\ turn \in Nat \ {0} /\ frames \in Nat
    /\ transcript \in Seq(Message) /\ Len(transcript) # 0
    /\ stage \in {"model", "tools", "report", "over"}

\* While a turn's calls run, its messages end the transcript.
CallsAtEnd ==
    stage = "tools" =>
        /\ transcript[Len(transcript)].kind \in {"assistant", "result"}
        /\ transcript[Len(transcript)].turn = turn

\* What the model has been sent is older than the frames it is sent next, and
\* only what it has been sent is pruned.
SentBefore ==
    /\ \A t \in seen : t \in Nat
    /\ stage = "model" =>
         /\ \A t \in seen : t < turn - 1
         /\ \A i \in 1 .. Len(transcript) :
              transcript[i].kind = "frame" => transcript[i].turn = turn - 1
    /\ stage = "tools" =>
         /\ \A t \in seen : t < turn
         /\ \A i \in 1 .. Len(transcript) :
              transcript[i].kind = "frame" => transcript[i].turn \in seen
    /\ Conversing =>
         \A i \in 1 .. Len(transcript) :
             transcript[i].kind = "note" => transcript[i].turn \in seen

TranscriptIInv == TranscriptTyped /\ CallsAtEnd /\ SentBefore /\ ResultsFollowCalls

\* A message joins the transcript and all before it stays.
LEMMA Joins ==
    ASSUME TranscriptTyped, NEW m \in Message, transcript' = Append(transcript, m)
    PROVE  /\ transcript' \in Seq(Message) /\ Len(transcript') = Len(transcript) + 1
           /\ \A i \in 1 .. Len(transcript) : transcript'[i] = transcript[i]
           /\ transcript'[Len(transcript')] = m
           /\ Len(transcript) \in Nat
  BY AppendProperties DEF TranscriptTyped

\* The end of a turn turns old frames into notes and adds the turn's own.
LEMMA TurnEnds ==
    ASSUME TranscriptTyped, EndTurn
    PROVE  /\ transcript' \in Seq(Message) /\ Len(transcript') = Len(transcript) + frames
           /\ \A i \in 1 .. Len(transcript) :
                /\ transcript'[i].turn = transcript[i].turn
                /\ transcript'[i].kind = IF transcript[i].kind = "frame" /\ transcript[i].turn < turn
                                         THEN "note" ELSE transcript[i].kind
           /\ \A i \in Len(transcript) + 1 .. Len(transcript) + frames :
                transcript'[i] = Entry("frame")
           /\ Len(transcript) \in Nat
<1> DEFINE old == Pruned(transcript)
           new == [i \in 1 .. frames |-> Entry("frame")]
           n == Len(transcript)
<1>1. n \in Nat /\ frames \in Nat /\ \A i \in 1 .. n : transcript[i] \in Message
  BY LenProperties, ElementOfSeq DEF TranscriptTyped
<1>2. Entry("frame") \in Message
  BY DEF Entry, Message, TranscriptTyped
<1>3. /\ old \in [1 .. n -> Message]
      /\ \A i \in 1 .. n :
           /\ old[i].turn = transcript[i].turn
           /\ old[i].kind = IF transcript[i].kind = "frame" /\ transcript[i].turn < turn
                            THEN "note" ELSE transcript[i].kind
  BY <1>1 DEF Pruned, Message
<1>4. new \in [1 .. frames -> Message] /\ \A i \in 1 .. frames : new[i] = Entry("frame")
  BY <1>2
<1> HIDE DEF old, new
<1>5. /\ old \in Seq(Message) /\ Len(old) = n
      /\ new \in Seq(Message) /\ Len(new) = frames
  BY <1>1, <1>3, <1>4, SeqDef, LenProperties
<1>6. transcript' = old \o new
  BY DEF EndTurn, old, new
<1> HIDE DEF n
<1>7. /\ transcript' \in Seq(Message) /\ Len(transcript') = n + frames
      /\ \A i \in 1 .. n + frames :
           transcript'[i] = IF i <= n THEN old[i] ELSE new[i - n]
  BY <1>1, <1>5, <1>6, ConcatProperties
<1>8. \A i \in 1 .. n : transcript'[i] = old[i]
  BY <1>1, <1>7
<1>9. \A i \in n + 1 .. n + frames : transcript'[i] = Entry("frame")
  BY <1>1, <1>4, <1>7
<1> QED BY <1>1, <1>3, <1>7, <1>8, <1>9 DEF n

LEMMA TranscriptStart == InvestigationInit => TranscriptIInv
  BY DEF InvestigationInit, TranscriptIInv, TranscriptTyped, Message, Conversing, CallsAtEnd,
         SentBefore, ResultsFollowCalls

LEMMA CallsStep == ASSUME TranscriptIInv, NEW names, ModelCalls(names) PROVE TranscriptIInv'
<1> DEFINE m == Entry("assistant")
<1>1. /\ m \in Message /\ m.kind = "assistant" /\ m.turn = turn
  BY DEF Entry, Message, TranscriptIInv, TranscriptTyped
<1>2. /\ stage = "model" /\ stage' = "tools" /\ UNCHANGED <<turn, frames>>
      /\ seen' = seen \cup FramesIn(transcript)
      /\ transcript' = Append(transcript, m)
  BY DEF ModelCalls
<1> HIDE DEF m
<1>3. /\ transcript' \in Seq(Message) /\ Len(transcript') = Len(transcript) + 1
      /\ \A i \in 1 .. Len(transcript) : transcript'[i] = transcript[i]
      /\ transcript'[Len(transcript')] = m
      /\ Len(transcript) \in Nat
  BY <1>1, <1>2, Joins DEF TranscriptIInv
<1>4. \A i \in 1 .. Len(transcript') :
        i \in 1 .. Len(transcript) \/ (i = Len(transcript') /\ i - 1 \in 0 .. Len(transcript))
  BY <1>3
<1>5. TranscriptTyped' /\ CallsAtEnd'
  BY <1>1, <1>2, <1>3 DEF TranscriptIInv, TranscriptTyped, CallsAtEnd
<1>6. \A t \in FramesIn(transcript) : t = turn - 1
  BY <1>2 DEF FramesIn, TranscriptIInv, SentBefore
<1>7. \A i \in 1 .. Len(transcript) :
        transcript[i].kind = "frame" => transcript[i].turn \in FramesIn(transcript)
  BY DEF FramesIn
<1>8. SentBefore'
  <2>1. \A t \in seen' : t \in Nat /\ t < turn
    BY <1>2, <1>6 DEF TranscriptIInv, SentBefore, TranscriptTyped
  <2>2. \A i \in 1 .. Len(transcript') :
          /\ transcript'[i].kind = "frame" => transcript'[i].turn \in seen'
          /\ transcript'[i].kind = "note" => transcript'[i].turn \in seen'
    BY <1>1, <1>2, <1>3, <1>4, <1>7 DEF TranscriptIInv, SentBefore, Conversing
  <2> QED BY <1>2, <2>1, <2>2 DEF SentBefore
<1>9. ResultsFollowCalls'
  BY <1>1, <1>3, <1>4 DEF TranscriptIInv, ResultsFollowCalls
<1> QED BY <1>5, <1>8, <1>9 DEF TranscriptIInv

LEMMA ResultStep == ASSUME TranscriptIInv, NEW result, RunTool(result) PROVE TranscriptIInv'
<1> DEFINE m == Entry("result")
<1>1. /\ m \in Message /\ m.kind = "result" /\ m.turn = turn
  BY DEF Entry, Message, TranscriptIInv, TranscriptTyped
<1>2. /\ stage = "tools" /\ UNCHANGED <<stage, turn, seen>> /\ frames' \in {frames, frames + 1}
      /\ transcript' = Append(transcript, m)
  BY DEF RunTool
<1> HIDE DEF m
<1>3. /\ transcript' \in Seq(Message) /\ Len(transcript') = Len(transcript) + 1
      /\ \A i \in 1 .. Len(transcript) : transcript'[i] = transcript[i]
      /\ transcript'[Len(transcript')] = m
      /\ Len(transcript) \in Nat \ {0}
  BY <1>1, <1>2, Joins DEF TranscriptIInv, TranscriptTyped
<1>4. \A i \in 1 .. Len(transcript') :
        i \in 1 .. Len(transcript) \/ (i = Len(transcript') /\ i - 1 = Len(transcript))
  BY <1>3
<1>5. TranscriptTyped' /\ CallsAtEnd'
  BY <1>1, <1>2, <1>3 DEF TranscriptIInv, TranscriptTyped, CallsAtEnd
<1>6. SentBefore'
  <2>1. \A i \in 1 .. Len(transcript') :
          /\ transcript'[i].kind = "frame" => transcript'[i].turn \in seen'
          /\ transcript'[i].kind = "note" => transcript'[i].turn \in seen'
    BY <1>1, <1>2, <1>3, <1>4 DEF TranscriptIInv, SentBefore, Conversing
  <2> QED BY <1>2, <2>1 DEF TranscriptIInv, SentBefore
<1>7. ResultsFollowCalls'
  <2> SUFFICES ASSUME NEW i \in 2 .. Len(transcript'), transcript'[i].kind = "result"
               PROVE  /\ transcript'[i - 1].kind \in {"assistant", "result"}
                      /\ transcript'[i - 1].turn = transcript'[i].turn
    BY DEF ResultsFollowCalls
  <2>1. CASE i \in 1 .. Len(transcript)
    <3>1. i \in 2 .. Len(transcript) /\ i - 1 \in 1 .. Len(transcript)
      BY <1>3, <2>1
    <3> QED BY <1>3, <2>1, <3>1 DEF TranscriptIInv, ResultsFollowCalls
  <2>2. CASE i = Len(transcript') /\ i - 1 = Len(transcript)
    <3>1. transcript'[i] = m /\ i - 1 \in 1 .. Len(transcript)
      BY <1>3, <2>2
    <3>2. transcript'[i - 1] = transcript[Len(transcript)]
      BY <1>3, <2>2, <3>1
    <3>3. /\ transcript[Len(transcript)].kind \in {"assistant", "result"}
          /\ transcript[Len(transcript)].turn = turn
      BY <1>2 DEF TranscriptIInv, CallsAtEnd
    <3> QED BY <1>1, <3>1, <3>2, <3>3
  <2> QED BY <1>3, <1>4, <2>1, <2>2
<1> QED BY <1>5, <1>6, <1>7 DEF TranscriptIInv

LEMMA TurnStep == ASSUME TranscriptIInv, EndTurn PROVE TranscriptIInv'
<1>1. /\ stage = "tools" /\ stage' \in {"model", "report"} /\ turn' = turn + 1
      /\ frames' = 0 /\ UNCHANGED seen /\ turn \in Nat \ {0} /\ frames \in Nat
  BY DEF EndTurn, Report, TranscriptIInv, TranscriptTyped
<1>2. /\ transcript' \in Seq(Message) /\ Len(transcript') = Len(transcript) + frames
      /\ \A i \in 1 .. Len(transcript) :
           /\ transcript'[i].turn = transcript[i].turn
           /\ transcript'[i].kind = IF transcript[i].kind = "frame" /\ transcript[i].turn < turn
                                    THEN "note" ELSE transcript[i].kind
      /\ \A i \in Len(transcript) + 1 .. Len(transcript) + frames :
           transcript'[i] = Entry("frame")
      /\ Len(transcript) \in Nat \ {0}
  BY TurnEnds DEF TranscriptIInv, TranscriptTyped
<1>3. \A i \in 1 .. Len(transcript') :
        \/ i \in 1 .. Len(transcript)
        \/ transcript'[i].kind = "frame" /\ transcript'[i].turn = turn
  BY <1>1, <1>2 DEF Entry
<1>4. TranscriptTyped' /\ CallsAtEnd'
  BY <1>1, <1>2 DEF TranscriptTyped, CallsAtEnd
<1>5. /\ \A t \in seen : t \in Nat /\ t < turn
      /\ \A i \in 1 .. Len(transcript) :
           transcript[i].kind \in {"frame", "note"} => transcript[i].turn \in seen
  BY <1>1 DEF TranscriptIInv, SentBefore, Conversing
<1>6. \A i \in 1 .. Len(transcript) : transcript'[i].kind # "frame"
  BY <1>2, <1>5
<1>7. SentBefore'
  <2>1. \A i \in 1 .. Len(transcript') : transcript'[i].kind = "frame" => transcript'[i].turn = turn' - 1
    BY <1>1, <1>3, <1>6
  <2>2. \A i \in 1 .. Len(transcript') : transcript'[i].kind = "note" => transcript'[i].turn \in seen'
    BY <1>1, <1>2, <1>3, <1>5
  <2>3. \A t \in seen' : t \in Nat /\ t < turn' - 1
    BY <1>1, <1>5
  <2> QED BY <1>1, <2>1, <2>2, <2>3 DEF SentBefore
<1>8. ResultsFollowCalls'
  <2> SUFFICES ASSUME NEW i \in 2 .. Len(transcript'), transcript'[i].kind = "result"
               PROVE  /\ transcript'[i - 1].kind \in {"assistant", "result"}
                      /\ transcript'[i - 1].turn = transcript'[i].turn
    BY DEF ResultsFollowCalls
  <2>1. i \in 2 .. Len(transcript) /\ i - 1 \in 1 .. Len(transcript)
    BY <1>1, <1>2, <1>3
  <2>2. transcript[i].kind = "result"
    BY <1>2, <2>1
  <2>3. /\ transcript[i - 1].kind \in {"assistant", "result"}
        /\ transcript[i - 1].turn = transcript[i].turn
    BY <2>1, <2>2 DEF TranscriptIInv, ResultsFollowCalls
  <2> QED BY <1>2, <2>1, <2>3
<1> QED BY <1>4, <1>7, <1>8 DEF TranscriptIInv

\* Nothing else touches the transcript, and the conversation does not come back.
LEMMA TranscriptStep ==
    ASSUME TranscriptIInv, [InvestigationNext]_investigationVars PROVE TranscriptIInv'
<1>1. ASSUME UNCHANGED <<turn, transcript, frames>>,
             \/ stage' \in {"report", "over"} /\ (UNCHANGED seen \/ seen' = seen \cup FramesIn(transcript))
             \/ UNCHANGED <<stage, seen>>
      PROVE  TranscriptIInv'
  <2>1. \A t \in FramesIn(transcript) : t \in Nat
    <3>1. \A i \in 1 .. Len(transcript) : transcript[i] \in Message
      BY ElementOfSeq DEF TranscriptIInv, TranscriptTyped
    <3>2. \A i \in 1 .. Len(transcript) : transcript[i].turn \in Nat
      BY <3>1 DEF Message
    <3> QED BY <3>2 DEF FramesIn
  <2> QED BY <1>1, <2>1 DEF TranscriptIInv, TranscriptTyped, CallsAtEnd, SentBefore, ResultsFollowCalls, Conversing
<1>2. ASSUME ModelCloses \/ ModelFails \/ WallClock PROVE TranscriptIInv'
  BY <1>1, <1>2 DEF ModelCloses, ModelFails, WallClock, Report
<1>3. ASSUME NEW confirmed \in BOOLEAN, CompleteArrives(confirmed) PROVE TranscriptIInv'
  BY <1>1, <1>3 DEF CompleteArrives
<1>4. ASSUME CompleteLost \/ CompleteGivenUp PROVE TranscriptIInv'
  BY <1>1, <1>4 DEF CompleteLost, CompleteGivenUp
<1>5. ASSUME UNCHANGED investigationVars PROVE TranscriptIInv'
  BY <1>1, <1>5 DEF investigationVars
<1> QED BY <1>2, <1>3, <1>4, <1>5, CallsStep, ResultStep, TurnStep DEF InvestigationNext

LEMMA TranscriptInvariant == InvestigationSpec => []TranscriptIInv
  BY TranscriptStart, TranscriptStep, PTL DEF InvestigationSpec

\* run_agent's pruning: when the model is called, the frames in the transcript
\* are the last turn's, which it has not been sent, and every frame that was
\* pruned to a note it has, for any number of turns, calls and frames.
THEOREM FramesSeenOnceAlways == InvestigationSpec => []FramesSeenOnce
<1>1. TranscriptIInv => FramesSeenOnce
  <2> SUFFICES ASSUME TranscriptIInv, stage = "model"
               PROVE  /\ FramesIn(transcript) \subseteq {turn - 1}
                      /\ \A i \in 1 .. Len(transcript) :
                           /\ transcript[i].kind = "note" => transcript[i].turn \in seen
                           /\ transcript[i].kind = "frame" => transcript[i].turn \notin seen
    BY DEF FramesSeenOnce
  <2>1. FramesIn(transcript) \subseteq {turn - 1}
    BY DEF FramesIn, TranscriptIInv, SentBefore
  <2>2. turn - 1 \notin seen
    BY DEF TranscriptIInv, TranscriptTyped, SentBefore
  <2> QED BY <2>1, <2>2 DEF TranscriptIInv, SentBefore, Conversing
<1> QED BY <1>1, TranscriptInvariant, PTL

\* run_agent's order of a turn's messages: the results of its calls follow the
\* answer that made them with nothing in between, frames and notes included.
THEOREM ResultsFollowCallsAlways == InvestigationSpec => []ResultsFollowCalls
  BY TranscriptInvariant, PTL DEF TranscriptIInv

-------------------------------------------------------------------------------
(* The debounced alerts.                                                   *)

DiskTyped ==
    /\ diskTime \in Nat
    /\ loopStamp \in Nat \union {Never} /\ rowStamp \in Nat \union {Never}
    /\ pulses \in [Pulses -> [pc : {"idle", "read", "emit", "stamp"}, at : Nat]]
    /\ loopAlerts \subseteq Nat /\ rowAlerts \subseteq Pulses \X Nat
    /\ \A p \in Pulses : pulses[p].at <= diskTime

\* The loop's stamp is its last alert's.
LoopRemembers ==
    \A t \in loopAlerts : loopStamp # Never /\ t <= loopStamp /\ t <= diskTime

\* An alert is remembered by the row, or its handler has still to stamp it; a
\* handler about to raise another came an interval later.
RowRemembers ==
    \A a \in rowAlerts :
        /\ a[2] <= diskTime
        /\ pulses[a[1]].pc = "stamp" \/ (rowStamp # Never /\ a[2] <= rowStamp)
        /\ pulses[a[1]].pc = "emit" => a[2] + Reemit <= pulses[a[1]].at

DiskIInv ==
    /\ DiskTyped /\ LoopRemembers /\ RowRemembers
    /\ OperatorAlertsSpaced /\ NodeAlertsSpaced

LEMMA DiskStep == DiskIInv /\ [DiskNext]_diskVars => DiskIInv'
<1> SUFFICES ASSUME DiskIInv, [DiskNext]_diskVars PROVE DiskIInv'
  OBVIOUS
<1> USE DiskAssumption DEF DiskIInv, Never
<1>1. CASE UNCHANGED diskVars
  BY <1>1 DEF diskVars, DiskTyped, LoopRemembers, RowRemembers, OperatorAlertsSpaced,
              NodeAlertsSpaced
<1>2. CASE CheckDisk
  <2>1. UNCHANGED <<diskTime, diskFull, rowStamp, pulses, rowAlerts>>
    BY <1>2 DEF CheckDisk
  <2>2. RowRemembers' /\ NodeAlertsSpaced'
    BY <2>1 DEF RowRemembers, NodeAlertsSpaced
  <2>3. CASE loopStamp' = Never /\ loopAlerts' = {}
    BY <2>1, <2>2, <2>3 DEF DiskTyped, LoopRemembers, OperatorAlertsSpaced
  <2>4. CASE UNCHANGED <<loopStamp, loopAlerts>>
    BY <2>1, <2>2, <2>4 DEF DiskTyped, LoopRemembers, OperatorAlertsSpaced
  <2>5. CASE /\ ~Silences(loopStamp, diskTime) /\ loopStamp' = diskTime
             /\ loopAlerts' = loopAlerts \cup {diskTime}
    <3>1. \A t \in loopAlerts : t \in Nat /\ diskTime - t >= Reemit
      <4> TAKE t \in loopAlerts
      <4>1. loopStamp \in Nat /\ t <= loopStamp /\ t \in Nat /\ diskTime \in Nat
        BY DEF LoopRemembers, DiskTyped
      <4>2. diskTime - loopStamp >= Reemit
        BY <2>5, <4>1 DEF Silences
      <4> QED BY <4>1, <4>2
    <3>2. OperatorAlertsSpaced'
      BY <2>5, <3>1 DEF OperatorAlertsSpaced, DiskTyped
    <3>3. LoopRemembers'
      BY <2>1, <2>5, <3>1 DEF LoopRemembers, DiskTyped
    <3> QED BY <2>1, <2>2, <2>5, <3>2, <3>3 DEF DiskTyped
  <2> QED BY <1>2, <2>3, <2>4, <2>5 DEF CheckDisk
<1>3. CASE RestartLoop
  <2>1. /\ loopStamp' = Never /\ loopAlerts' = {} /\ UNCHANGED <<diskTime, rowStamp>>
        /\ pulses' = [p \in Pulses |-> AtEase]
        /\ rowAlerts' = IF \E p \in Pulses : pulses[p].pc = "stamp" THEN {} ELSE rowAlerts
    BY <1>3 DEF RestartLoop
  <2>2. \A p \in Pulses : pulses'[p].pc = "idle" /\ pulses'[p].at = 0
    BY <2>1 DEF AtEase
  <2>3. pulses' \in [Pulses -> [pc : {"idle", "read", "emit", "stamp"}, at : Nat]]
    BY <2>1 DEF AtEase
  <2>4. rowAlerts' \subseteq rowAlerts
        /\ \A a \in rowAlerts' : a[1] \in Pulses /\ pulses[a[1]].pc # "stamp"
    BY <2>1 DEF DiskTyped
  <2>5. RowRemembers' /\ NodeAlertsSpaced'
    BY <2>1, <2>2, <2>4 DEF RowRemembers, NodeAlertsSpaced
  <2>6. LoopRemembers' /\ OperatorAlertsSpaced'
    BY <2>1 DEF LoopRemembers, OperatorAlertsSpaced
  <2> QED BY <2>1, <2>2, <2>3, <2>4, <2>5, <2>6 DEF DiskTyped
<1>4. ASSUME UNCHANGED <<diskTime, loopStamp, loopAlerts>>, DiskTyped', RowRemembers',
             NodeAlertsSpaced'
      PROVE  DiskIInv'
  BY <1>4 DEF LoopRemembers, OperatorAlertsSpaced
<1>5. ASSUME NEW p \in Pulses, Pulse(p) PROVE DiskIInv'
  <2>1. UNCHANGED <<diskTime, loopStamp, loopAlerts>>
    BY <1>5 DEF Pulse
  <2>2. CASE rowStamp' = Never /\ rowAlerts' = {} /\ UNCHANGED pulses
    BY <1>4, <2>1, <2>2 DEF DiskTyped, RowRemembers, NodeAlertsSpaced
  <2>3. CASE /\ pulses[p].pc = "idle" /\ UNCHANGED <<rowStamp, rowAlerts>>
             /\ pulses' = [pulses EXCEPT ![p] = [pc |-> "read", at |-> diskTime]]
    <3>1. DiskTyped'
      BY <2>1, <2>3 DEF DiskTyped
    <3>2. RowRemembers'
      BY <2>1, <2>3 DEF DiskTyped, RowRemembers
    <3> QED BY <1>4, <2>1, <2>3, <3>1, <3>2 DEF NodeAlertsSpaced
  <2> QED BY <1>5, <2>2, <2>3 DEF Pulse
<1>6. ASSUME NEW p \in Pulses, ReadStamp(p) PROVE DiskIInv'
  <2>1. /\ UNCHANGED <<diskTime, loopStamp, loopAlerts, rowStamp, rowAlerts>>
        /\ pulses[p].pc = "read"
    BY <1>6 DEF ReadStamp
  <2>2. CASE pulses' = [pulses EXCEPT ![p] = AtEase]
    <3>1. DiskTyped'
      BY <2>1, <2>2 DEF DiskTyped, AtEase
    <3>2. RowRemembers'
      BY <2>1, <2>2 DEF DiskTyped, RowRemembers, AtEase
    <3> QED BY <1>4, <2>1, <3>1, <3>2 DEF NodeAlertsSpaced
  <2>3. CASE /\ ~Silences(rowStamp, pulses[p].at)
             /\ pulses' = [pulses EXCEPT ![p] = [@ EXCEPT !.pc = "emit"]]
    <3>1. pulses' = [pulses EXCEPT ![p] = [pc |-> "emit", at |-> pulses[p].at]]
      <4>1. pulses[p] \in [pc : {"idle", "read", "emit", "stamp"}, at : Nat]
        BY DEF DiskTyped
      <4>2. [pulses[p] EXCEPT !.pc = "emit"] = [pc |-> "emit", at |-> pulses[p].at]
        BY <4>1
      <4> QED BY <2>3, <4>2, Zenon
    <3>2. DiskTyped'
      BY <2>1, <3>1 DEF DiskTyped
    <3>3. ASSUME NEW a \in rowAlerts, a[1] = p PROVE a[2] + Reemit <= pulses[p].at
      <4>1. rowStamp # Never /\ a[2] <= rowStamp /\ a[2] \in Nat
        BY <2>1, <3>3 DEF RowRemembers, DiskTyped
      <4>2. rowStamp \in Nat /\ pulses[p].at \in Nat
        BY <4>1 DEF DiskTyped
      <4>3. pulses[p].at - rowStamp >= Reemit
        BY <2>3, <4>1, <4>2 DEF Silences
      <4> QED BY <4>1, <4>2, <4>3
    <3>4. RowRemembers'
      BY <2>1, <3>1, <3>3 DEF DiskTyped, RowRemembers
    <3> QED BY <1>4, <2>1, <3>2, <3>4 DEF NodeAlertsSpaced
  <2> QED BY <1>6, <2>2, <2>3 DEF ReadStamp
<1>7. ASSUME NEW p \in Pulses, EmitLow(p) PROVE DiskIInv'
  <2>1. /\ UNCHANGED <<diskTime, loopStamp, loopAlerts, rowStamp>>
        /\ pulses[p].pc = "emit" /\ rowAlerts' = rowAlerts \cup {<<p, diskTime>>}
        /\ pulses' = [pulses EXCEPT ![p].pc = "stamp"]
    BY <1>7 DEF EmitLow
  <2>2. pulses' = [pulses EXCEPT ![p] = [pc |-> "stamp", at |-> pulses[p].at]]
    <3>1. pulses[p] \in [pc : {"idle", "read", "emit", "stamp"}, at : Nat]
      BY DEF DiskTyped
    <3>2. [pulses[p] EXCEPT !.pc = "stamp"] = [pc |-> "stamp", at |-> pulses[p].at]
      BY <3>1
    <3> QED BY <2>1, <3>2, Zenon
  <2>3. DiskTyped'
    BY <2>1, <2>2 DEF DiskTyped
  <2>4. \A a \in rowAlerts : a[1] = p => diskTime - a[2] >= Reemit /\ a[2] \in Nat
    BY <2>1 DEF RowRemembers, DiskTyped
  <2>5. RowRemembers'
    BY <2>1, <2>2 DEF DiskTyped, RowRemembers
  <2>6. NodeAlertsSpaced'
    <3> SUFFICES ASSUME NEW a \in rowAlerts', NEW b \in rowAlerts', a[2] < b[2], a[1] = b[1]
                 PROVE  b[2] - a[2] >= Reemit
      BY DEF NodeAlertsSpaced
    <3>1. CASE a \in rowAlerts /\ b \in rowAlerts
      BY <3>1 DEF NodeAlertsSpaced
    <3>2. CASE a \in rowAlerts /\ b = <<p, diskTime>>
      BY <2>4, <3>2
    <3>3. CASE a = <<p, diskTime>>
      <4>1. b[2] <= diskTime /\ b[2] \in Nat /\ diskTime \in Nat
        BY <2>1 DEF RowRemembers, DiskTyped
      <4> QED BY <3>3, <4>1
    <3> QED BY <2>1, <3>1, <3>2, <3>3
  <2> QED BY <1>4, <2>1, <2>3, <2>5, <2>6
<1>8. ASSUME NEW p \in Pulses, StampLow(p) PROVE DiskIInv'
  <2>1. /\ UNCHANGED <<diskTime, loopStamp, loopAlerts>>
        /\ pulses' = [pulses EXCEPT ![p] = AtEase]
        /\ \/ rowStamp' = diskTime /\ UNCHANGED rowAlerts
           \/ UNCHANGED rowStamp /\ rowAlerts' = {}
    BY <1>8 DEF StampLow
  <2>2. DiskTyped'
    BY <2>1 DEF DiskTyped, AtEase
  <2>3. RowRemembers'
    BY <2>1 DEF DiskTyped, RowRemembers, AtEase
  <2>4. NodeAlertsSpaced'
    BY <2>1 DEF NodeAlertsSpaced
  <2> QED BY <1>4, <2>1, <2>2, <2>3, <2>4
<1>9. CASE FillOrFree
  BY <1>9 DEF FillOrFree, DiskTyped, LoopRemembers, RowRemembers, OperatorAlertsSpaced,
              NodeAlertsSpaced
<1>10. CASE DiskTick
  <2>1. /\ diskTime' = diskTime + 1
        /\ UNCHANGED <<diskFull, loopStamp, rowStamp, pulses, loopAlerts, rowAlerts>>
    BY <1>10 DEF DiskTick
  <2>2. DiskTyped'
    BY <2>1 DEF DiskTyped
  <2>3. LoopRemembers' /\ RowRemembers'
    BY <2>1 DEF DiskTyped, LoopRemembers, RowRemembers
  <2> QED BY <2>1, <2>2, <2>3 DEF OperatorAlertsSpaced, NodeAlertsSpaced
<1> QED BY <1>1, <1>2, <1>3, <1>5, <1>6, <1>7, <1>8, <1>9, <1>10 DEF DiskNext

LEMMA DiskStart == DiskInit => DiskIInv
BY DEF DiskInit, DiskIInv, DiskTyped, LoopRemembers, RowRemembers, OperatorAlertsSpaced,
       NodeAlertsSpaced, AtEase, Never

\* alert_due: while the disk stays full, the operator's alerts are an interval
\* apart, for every interval and however often the volume is read.
THEOREM OperatorAlertsSpacedAlways == DiskSpec => []OperatorAlertsSpaced
<1>1. DiskIInv => OperatorAlertsSpaced
  BY DEF DiskIInv
<1> QED BY <1>1, DiskStart, DiskStep, PTL DEF DiskSpec

\* check_and_emit_disk_low: two alerts of one handler are an interval apart
\* unless the disk recovered or a stamp was lost in between, however many other
\* handlers read and write the stamp around its own.
THEOREM NodeAlertsSpacedAlways == DiskSpec => []NodeAlertsSpaced
<1>1. DiskIInv => NodeAlertsSpaced
  BY DEF DiskIInv
<1> QED BY <1>1, DiskStart, DiskStep, PTL DEF DiskSpec

-------------------------------------------------------------------------------
(* A node's storage cap.                                                   *)

AskPlaces == {"idle", "sent", "given up", "answered", "refused"}

\* What the node has sent and what an answer under way says it has had.
CapsReal ==
    /\ nodeCap \in had /\ rowCap \in had
    /\ wire \in Seq(had)
    /\ \A a \in Askers : ask[a].at = "answered" => ask[a].cap \in had
    /\ \E S : ask \in [Askers -> [at : AskPlaces, cap : S]]

LEMMA CapsStep == CapsReal /\ [SettingsNext]_settingsVars => CapsReal'
<1> SUFFICES ASSUME CapsReal, [SettingsNext]_settingsVars PROVE CapsReal'
  OBVIOUS
<1>0. PICK S : ask \in [Askers -> [at : AskPlaces, cap : S]]
  BY DEF CapsReal
<1>1. CASE UNCHANGED <<nodeCap, rowCap, had, wire, ask>>
  BY <1>1 DEF CapsReal
<1>2. ASSUME NEW a \in Askers, NEW q, NEW T, q \in [at : AskPlaces, cap : T],
             S \subseteq T, q.at # "answered", ask' = [ask EXCEPT ![a] = q]
      PROVE  /\ ask' \in [Askers -> [at : AskPlaces, cap : T]]
             /\ \A b \in Askers : ask'[b].at = "answered" =>
                  ask[b].at = "answered" /\ ask'[b].cap = ask[b].cap
  BY <1>0, <1>2
<1>3. ASSUME NEW a \in Askers, NEW q, NEW T, q \in [at : AskPlaces, cap : T],
             S \subseteq T, q.at # "answered", ask' = [ask EXCEPT ![a] = q],
             UNCHANGED <<nodeCap, had, wire>>, rowCap' \in had
      PROVE  CapsReal'
  BY <1>2, <1>3 DEF CapsReal
<1>4. ASSUME NEW a \in Askers, NEW cap \in Caps \union Refused, AskCap(a, cap)
      PROVE  CapsReal'
  <2>1. PICK q, T : /\ q = [at |-> "sent", cap |-> cap] /\ T = S \union {cap}
    OBVIOUS
  <2>2. q \in [at : AskPlaces, cap : T] /\ q.at = "sent" /\ S \subseteq T
    BY <2>1 DEF AskPlaces
  <2>3. ask' = [ask EXCEPT ![a] = q] /\ UNCHANGED <<nodeCap, had, wire>> /\ rowCap' = rowCap
    BY <1>4, <2>1 DEF AskCap
  <2> QED BY <1>3, <2>2, <2>3 DEF CapsReal
<1>5. IdleAsk \in [at : AskPlaces, cap : S \union {0}] /\ IdleAsk.at = "idle"
  BY DEF IdleAsk, AskPlaces
<1>6. ASSUME NEW a \in Askers, NodeApplies(a) PROVE CapsReal'
  <2> DEFINE ok == ask[a].cap \notin Refused
  <2>1. /\ nodeCap' = IF ok THEN ask[a].cap ELSE nodeCap
        /\ had' = had \union {nodeCap'} /\ UNCHANGED <<rowCap, wire>>
        /\ \/ ask' = [ask EXCEPT ![a] = IdleAsk]
           \/ ask' = [ask EXCEPT ![a] = [@ EXCEPT !.at = IF ok THEN "answered" ELSE "refused"]]
    BY <1>6 DEF NodeApplies
  <2>2. nodeCap' \in had' /\ rowCap' \in had' /\ had \subseteq had'
    BY <2>1 DEF CapsReal
  <2>3. wire' \in Seq(had')
    BY <2>1, <2>2 DEF CapsReal
  <2>4. CASE ask' = [ask EXCEPT ![a] = IdleAsk]
    <3>1. S \subseteq S \union {0}
      OBVIOUS
    <3>2. /\ ask' \in [Askers -> [at : AskPlaces, cap : S \union {0}]]
          /\ \A b \in Askers : ask'[b].at = "answered" =>
               ask[b].at = "answered" /\ ask'[b].cap = ask[b].cap
      BY <1>2, <1>5, <2>4, <3>1
    <3> QED BY <2>2, <2>3, <3>2 DEF CapsReal
  <2>5. CASE ask' = [ask EXCEPT ![a] =
                       [@ EXCEPT !.at = IF ok THEN "answered" ELSE "refused"]]
    <3>1. ask[a] \in [at : AskPlaces, cap : S]
      BY <1>0
    <3>2. PICK w \in {"answered", "refused"} : w = IF ok THEN "answered" ELSE "refused"
      OBVIOUS
    <3>3. PICK q : q = [ask[a] EXCEPT !.at = w]
      OBVIOUS
    <3>4. /\ q = [ask[a] EXCEPT !.at = IF ok THEN "answered" ELSE "refused"]
          /\ q \in [at : AskPlaces, cap : S] /\ q.cap = ask[a].cap
          /\ q.at = IF ok THEN "answered" ELSE "refused"
      BY <3>1, <3>2, <3>3 DEF AskPlaces
    <3>5. ask' = [ask EXCEPT ![a] = q]
      BY <2>5, <3>4, Zenon
    <3>6. ask' \in [Askers -> [at : AskPlaces, cap : S]]
      BY <1>0, <3>4, <3>5
    <3>7. \A b \in Askers : ask'[b].at = "answered" => ask'[b].cap \in had'
      BY <1>0, <2>1, <2>2, <3>4, <3>5 DEF CapsReal
    <3> QED BY <2>2, <2>3, <3>6, <3>7 DEF CapsReal
  <2> QED BY <2>1, <2>4, <2>5
<1>7. ASSUME NEW a \in Askers, WriteCap(a) \/ CapAnswerRefused(a) \/ CommandLost(a)
      PROVE  CapsReal'
  BY <1>3, <1>5, <1>7 DEF WriteCap, CapAnswerRefused, CommandLost, CapsReal
<1>8. ASSUME NEW a \in Askers, CapTimeout(a) PROVE CapsReal'
  <2>1. /\ UNCHANGED <<nodeCap, rowCap, wire, had>>
        /\ \/ ask' = [ask EXCEPT ![a] = IdleAsk]
           \/ ask' = [ask EXCEPT ![a] = [@ EXCEPT !.at = "given up"]]
    BY <1>8 DEF CapTimeout
  <2>4. PICK q : q = [ask[a] EXCEPT !.at = "given up"]
    OBVIOUS
  <2>2. /\ q = [ask[a] EXCEPT !.at = "given up"]
        /\ q \in [at : AskPlaces, cap : S] /\ q.at = "given up"
    <3>1. ask[a] \in [at : AskPlaces, cap : S]
      BY <1>0
    <3> QED BY <2>4, <3>1 DEF AskPlaces
  <2>3. ask' = [ask EXCEPT ![a] = IdleAsk] \/ ask' = [ask EXCEPT ![a] = q]
    BY <2>1, <2>2, Zenon
  <2> QED BY <1>3, <1>5, <2>1, <2>2, <2>3 DEF CapsReal
<1>9. CASE SendBeat
  <2>1. Append(wire, nodeCap) \in Seq(had)
    BY DEF CapsReal
  <2> QED BY <1>9, <2>1 DEF SendBeat, CapsReal
<1>10. CASE HandleBeat
  <2>1. Head(wire) \in had /\ Tail(wire) \in Seq(had)
    BY <1>10, HeadTailProperties DEF HandleBeat, CapsReal
  <2> QED BY <1>10, <2>1 DEF HandleBeat, CapsReal
<1> QED
  BY <1>1, <1>4, <1>6, <1>7, <1>8, <1>9, <1>10
  DEF SettingsNext, settingsVars, ReadCodec, CommitCodec

\* set_storage_cap and the heartbeat: the row shows a cap the node has had, for
\* any caps and any number of admins, whatever times out, is refused or crosses.
THEOREM RowCapWasRealAlways == SettingsSpec => []RowCapWasReal
<1>1. SettingsInit => CapsReal
  <2> SUFFICES ASSUME SettingsInit PROVE CapsReal
    OBVIOUS
  <2>1. ask \in [Askers -> [at : AskPlaces, cap : {0}]]
    BY DEF SettingsInit, IdleAsk, AskPlaces
  <2> QED BY <2>1 DEF SettingsInit, CapsReal, IdleAsk
<1>2. CapsReal => RowCapWasReal
  BY DEF CapsReal, RowCapWasReal
<1> QED BY <1>1, <1>2, CapsStep, PTL DEF SettingsSpec

-------------------------------------------------------------------------------
(* Restoring from the mirror.                                              *)

RestoreIInv ==
    /\ DOMAIN here = MirrorRows /\ LocalRowsKept

LEMMA RestoreStep == RestoreIInv /\ [RestoreNext]_restoreVars => RestoreIInv'
<1> SUFFICES ASSUME RestoreIInv, [RestoreNext]_restoreVars PROVE RestoreIInv'
  OBVIOUS
<1>1. CASE UNCHANGED <<here, before, flags>>
  BY <1>1 DEF RestoreIInv, LocalRowsKept
<1>2. CASE before' = here /\ UNCHANGED here
  BY <1>2 DEF RestoreIInv, LocalRowsKept
<1>3. CASE RestoreRow
  <2>1. PICK q : /\ UNCHANGED <<before, flags>>
                 /\ \/ here' = here
                    \/ /\ flags.overwrite \/ here[q] = "none"
                       /\ ~flags.dry /\ here' = [here EXCEPT ![q] = "mirror"]
    BY <1>3 DEF RestoreRow
  <2>2. DOMAIN here' = MirrorRows
    BY <2>1 DEF RestoreIInv
  <2>3. ASSUME NEW r \in MirrorRows
        PROVE  /\ ~flags.overwrite /\ before[r] # "none" => here'[r] = before[r]
               /\ flags.dry => here'[r] = before[r]
    <3>1. /\ ~flags.overwrite /\ before[r] # "none" => here[r] = before[r]
          /\ flags.dry => here[r] = before[r]
      BY DEF RestoreIInv, LocalRowsKept
    <3>2. r # q => here'[r] = here[r]
      BY <2>1 DEF RestoreIInv
    <3> QED BY <2>1, <3>1, <3>2
  <2> QED BY <2>1, <2>2, <2>3 DEF RestoreIInv, LocalRowsKept
<1> QED
  BY <1>1, <1>2, <1>3
  DEF RestoreNext, StartRestore, ServiceLost, EndRestore, restoreVars

\* restore_table: a row that was here stays as it was without --overwrite, and a
\* dry run changes nothing; for any rows, any order of the tables and any number
\* of runs, cut short or not.
THEOREM LocalRowsKeptAlways == RestoreSpec => []LocalRowsKept
<1>1. RestoreInit => RestoreIInv
  BY DEF RestoreInit, RestoreIInv, LocalRowsKept
<1>2. RestoreIInv => LocalRowsKept
  BY DEF RestoreIInv
<1> QED BY <1>1, <1>2, RestoreStep, PTL DEF RestoreSpec

-------------------------------------------------------------------------------
(* How a camera is to record.                                              *)

Columns == {"continuous", "scheduled", "start", "end"}

\* A row's window is told in minutes of the day.
InDay(row) == {row.start, row.end} \subseteq Minutes \union {NoTime}

\* A writer asks what its kind can ask; alone, it has read the row as it is.
EditsAsk ==
    \A w \in Writers : edit[w] # NoEdit =>
        /\ edit[w].kind \in {"button", "patch", "tool"}
        /\ edit[w].kind = "button" => \E on \in Modes : edit[w].given = [continuous |-> on]
        /\ edit[w].kind # "button" => edit[w].given \in Patches
        /\ DOMAIN edit[w].row = Columns /\ InDay(edit[w].row)
EditsAlone ==
    ~crossed => \A w \in Writers : edit[w] # NoEdit =>
        /\ edit[w].row = policy
        /\ \A v \in Writers : edit[v] # NoEdit => v = w
EditsKept == \E S : edit \in [Writers -> S]

PolicyIInv ==
    /\ DOMAIN policy = Columns /\ InDay(policy) /\ EditsKept /\ EditsAsk /\ EditsAlone
    /\ ScheduleNeverEmpty /\ ModesExclude

\* A button's column alone changes.
LEMMA ButtonRow ==
    ASSUME NEW row, DOMAIN row = Columns, NEW on \in Modes
    PROVE  LET next == Resulting(row, [continuous |-> on])
           IN /\ DOMAIN next = Columns /\ next.continuous = on
              /\ next.scheduled = row.scheduled
              /\ next.start = row.start /\ next.end = row.end
  BY DEF Resulting, Columns

\* A patch's row has the columns it had, and its window stays in the day.
LEMMA PatchedRow ==
    ASSUME NEW row, DOMAIN row = Columns, InDay(row), NEW given \in Patches
    PROVE  /\ DOMAIN Resulting(row, given) = Columns
           /\ InDay(Resulting(row, given))
<1>1. DOMAIN Resulting(row, given) = Columns
  BY DEF Resulting
<1>2. {0, DayMinutes - 1, 1, NoTime} \subseteq Minutes \union {NoTime}
  BY DayAssumption DEF Minutes
<1>3. /\ "start" \in DOMAIN given => given.start \in {0, DayMinutes - 1, NoTime}
      /\ "end" \in DOMAIN given => given.end \in {0, 1}
  BY DEF Patches
<1>4. /\ Resulting(row, given).start = IF "start" \in DOMAIN given THEN given.start ELSE row.start
      /\ Resulting(row, given).end = IF "end" \in DOMAIN given THEN given.end ELSE row.end
  BY DEF Resulting, Columns
<1> HIDE DEF Patches, Resulting, Minutes, NoTime
<1>5. InDay(Resulting(row, given))
  BY <1>2, <1>3, <1>4 DEF InDay
<1> QED BY <1>1, <1>5

LEMMA PolicyStart == RecordingInit => PolicyIInv
<1> SUFFICES ASSUME RecordingInit PROVE PolicyIInv
  OBVIOUS
<1>1. DOMAIN policy = Columns /\ InDay(policy) /\ ~policy.continuous /\ ~policy.scheduled
  BY DEF RecordingInit, Columns, InDay
<1>2. EditsKept /\ EditsAsk /\ EditsAlone
  BY DEF RecordingInit, EditsKept, EditsAsk, EditsAlone
<1> QED BY <1>1, <1>2 DEF PolicyIInv, ScheduleNeverEmpty, EmptyWindow, ModesExclude, BothModes

\* A request reads the row.
LEMMA EditStarts ==
    ASSUME PolicyIInv, NEW w \in Writers, NEW kind \in {"button", "patch", "tool"}, NEW given,
           kind = "button" => \E on \in Modes : given = [continuous |-> on],
           kind # "button" => given \in Patches, StartEdit(w, kind, given)
    PROVE  PolicyIInv'
<1> DEFINE e == [at |-> "read", kind |-> kind, given |-> given, row |-> policy]
<1>1. /\ e.kind = kind /\ e.given = given /\ e.row = policy /\ e # NoEdit
  BY DEF NoEdit
<1>2. /\ edit[w] = NoEdit /\ edit' = [edit EXCEPT ![w] = e] /\ UNCHANGED <<policy, pressed>>
      /\ crossed' = (crossed \/ \E v \in Writers : edit[v] # NoEdit)
  BY DEF StartEdit
<1> HIDE DEF e
<1>3. PICK S : edit \in [Writers -> S]
  BY DEF PolicyIInv, EditsKept
<1>4. edit' \in [Writers -> S \union {e}] /\ \A v \in Writers : edit'[v] = IF v = w THEN e ELSE edit[v]
  BY <1>2, <1>3
<1>5. EditsKept'
  BY <1>4 DEF EditsKept
<1>6. EditsAsk'
  BY <1>1, <1>2, <1>4 DEF PolicyIInv, EditsAsk
<1>7. EditsAlone'
  BY <1>1, <1>2, <1>4 DEF PolicyIInv, EditsAlone
<1>8. ScheduleNeverEmpty' /\ ModesExclude'
  BY <1>2 DEF PolicyIInv, ScheduleNeverEmpty, EmptyWindow, ModesExclude, BothModes
<1> QED BY <1>2, <1>5, <1>6, <1>7, <1>8 DEF PolicyIInv

\* A request writes, or is refused.
LEMMA EditEnds == ASSUME PolicyIInv, NEW w \in Writers, EndEdit(w) PROVE PolicyIInv'
<1> DEFINE e == edit[w]
           next == Resulting(e.row, e.given)
<1>1. /\ e.at = "read" /\ edit' = [edit EXCEPT ![w] = NoEdit] /\ crossed' = crossed
      /\ policy' = IF RefusedEdit(e) THEN policy ELSE Written(e)
      /\ pressed' = (pressed \/ (e.kind = "button" /\ policy'.continuous))
  BY DEF EndEdit
<1>2. e # NoEdit
  BY <1>1 DEF NoEdit
<1>3. /\ e.kind \in {"button", "patch", "tool"}
      /\ e.kind = "button" => \E on \in Modes : e.given = [continuous |-> on]
      /\ e.kind # "button" => e.given \in Patches
      /\ DOMAIN e.row = Columns /\ DOMAIN policy = Columns /\ InDay(e.row) /\ InDay(policy)
  BY <1>2 DEF PolicyIInv, EditsAsk
<1>4. ~crossed => e.row = policy /\ \A v \in Writers : edit[v] # NoEdit => v = w
  BY <1>2 DEF PolicyIInv, EditsAlone
<1>5. PICK S : edit \in [Writers -> S]
  BY DEF PolicyIInv, EditsKept
<1> HIDE DEF e
<1>6. /\ edit' \in [Writers -> S \union {NoEdit}]
      /\ \A v \in Writers : edit'[v] = IF v = w THEN NoEdit ELSE edit[v]
  BY <1>1, <1>5
<1>7. EditsKept' /\ EditsAsk'
  BY <1>6 DEF PolicyIInv, EditsKept, EditsAsk
<1>8. EditsAlone'
  BY <1>1, <1>4, <1>6 DEF EditsAlone
<1>9. /\ DOMAIN policy' = Columns /\ InDay(policy')
      /\ ~crossed => /\ policy' \in {policy, next}
                     /\ e.kind # "button" /\ policy' # policy => ~BothModes(next) /\ ~EmptyWindow(next)
  <2>1. CASE e.kind = "button"
    <3>1. PICK on \in Modes : e.given = [continuous |-> on]
      BY <1>3, <2>1
    <3>2. policy' \in {policy, Resulting(policy, e.given)}
      BY <1>1, <2>1 DEF Written
    <3>3. DOMAIN Resulting(policy, e.given) = Columns /\ InDay(Resulting(policy, e.given))
      BY <1>3, <3>1, ButtonRow DEF InDay
    <3> QED BY <1>3, <1>4, <2>1, <3>2, <3>3
  <2>2. CASE e.kind # "button"
    <3>1. policy' \in {policy, next, Resulting(policy, e.given)}
      BY <1>1, <1>3, <2>2 DEF Written
    <3>2. policy' # policy => ~BothModes(next) /\ ~EmptyWindow(next)
      BY <1>1, <2>2 DEF RefusedEdit
    <3>3. /\ DOMAIN next = Columns /\ DOMAIN Resulting(policy, e.given) = Columns
          /\ InDay(next) /\ InDay(Resulting(policy, e.given))
      BY <1>3, <2>2, PatchedRow
    <3> QED BY <1>3, <1>4, <3>1, <3>2, <3>3
  <2> QED BY <2>1, <2>2
<1>10. ~crossed /\ e.kind = "button" /\ policy' # policy =>
         /\ policy'.scheduled = policy.scheduled
         /\ policy'.start = policy.start /\ policy'.end = policy.end
  <2> SUFFICES ASSUME ~crossed, e.kind = "button", policy' # policy
               PROVE  /\ policy'.scheduled = policy.scheduled
                      /\ policy'.start = policy.start /\ policy'.end = policy.end
    OBVIOUS
  <2>1. PICK on \in Modes : e.given = [continuous |-> on]
    BY <1>3
  <2>2. policy' = Resulting(policy, [continuous |-> on])
    BY <1>4, <1>9, <2>1
  <2> QED BY <1>3, <2>2, ButtonRow
<1> HIDE DEF next
<1>11. ScheduleNeverEmpty'
  BY <1>1, <1>9, <1>10 DEF PolicyIInv, ScheduleNeverEmpty, EmptyWindow
<1>12. ModesExclude'
  BY <1>1, <1>9, <1>10 DEF PolicyIInv, ModesExclude, BothModes
<1> QED BY <1>7, <1>8, <1>9, <1>11, <1>12 DEF PolicyIInv

LEMMA PolicyInvariant == RecordingSpec => []PolicyIInv
<1>1. ASSUME PolicyIInv, NEW w \in Writers, NEW on \in Modes, PressButton(w, on) PROVE PolicyIInv'
  BY <1>1, EditStarts DEF PressButton
<1>2. ASSUME PolicyIInv, NEW w \in Writers, NEW kind \in {"patch", "tool"}, NEW p \in Patches,
             AskPatch(w, kind, p)
      PROVE  PolicyIInv'
  BY <1>2, EditStarts DEF AskPatch
<1>3. ASSUME PolicyIInv, UNCHANGED recordingVars PROVE PolicyIInv'
  BY <1>3 DEF recordingVars, PolicyIInv, EditsKept, EditsAsk, EditsAlone, ScheduleNeverEmpty,
              EmptyWindow, ModesExclude, BothModes, InDay
<1>4. PolicyIInv /\ [RecordingNext]_recordingVars => PolicyIInv'
  BY <1>1, <1>2, <1>3, EditEnds DEF RecordingNext
<1> QED BY <1>4, PolicyStart, PTL DEF RecordingSpec

\* update_recording_policy and set_camera_recording_policy validate the row that
\* results: writers that did not overlap leave no schedule on that is empty.
THEOREM ScheduleNeverEmptyAlways == RecordingSpec => []ScheduleNeverEmpty
  BY PolicyInvariant, PTL DEF PolicyIInv

\* ... and never both modes on, unless the button, which validates nothing, put
\* continuous recording on.
THEOREM ModesExcludeAlways == RecordingSpec => []ModesExclude
  BY PolicyInvariant, PTL DEF PolicyIInv

\* Minutes round the clock.
LEMMA Ahead == ASSUME NEW n \in Nat \ {0}, NEW x \in 0 .. n - 1 PROVE x % n = x
  BY SMTT(20)
LEMMA Behind == ASSUME NEW n \in Nat \ {0}, NEW x \in Int, -n <= x, x < 0 PROVE x % n = x + n
  BY SMTT(20)

\* camera_should_record_now: a schedule records the minutes from its start up to
\* its end, over midnight too, for a day of any number of minutes.
THEOREM ScheduleGoesRoundAlways == RecordingSpec => []ScheduleGoesRound
<1>1. ASSUME PolicyIInv PROVE ScheduleGoesRound
  <2> SUFFICES ASSUME policy.scheduled, ~policy.continuous, policy.start # NoTime,
                      policy.end # NoTime, NEW now \in Minutes
               PROVE  ShouldRecord(policy, now)
                        <=> (now - policy.start) % DayMinutes < (policy.end - policy.start) % DayMinutes
    BY DEF ScheduleGoesRound
  <2> DEFINE s == policy.start
             e == policy.end
  <2>1. /\ s \in Int /\ 0 <= s /\ s < DayMinutes /\ e \in Int /\ 0 <= e /\ e < DayMinutes
        /\ now \in Int /\ 0 <= now /\ now < DayMinutes /\ DayMinutes \in Nat \ {0}
    BY <1>1, DayAssumption DEF PolicyIInv, InDay, Minutes
  <2>2. ShouldRecord(policy, now) <=> InWindow(s, e, now)
    BY DEF ShouldRecord
  <2> HIDE DEF s, e
  <2>3. (now - s) % DayMinutes = IF s <= now THEN now - s ELSE now - s + DayMinutes
    <3>1. CASE s <= now
      <4>1. now - s \in 0 .. DayMinutes - 1
        BY <2>1, <3>1
      <4> QED BY <2>1, <3>1, <4>1, Ahead
    <3>2. CASE ~(s <= now)
      <4>1. now - s \in Int /\ -DayMinutes <= now - s /\ now - s < 0
        BY <2>1, <3>2
      <4> QED BY <2>1, <3>2, <4>1, Behind
    <3> QED BY <3>1, <3>2
  <2>4. (e - s) % DayMinutes = IF s <= e THEN e - s ELSE e - s + DayMinutes
    <3>1. CASE s <= e
      <4>1. e - s \in 0 .. DayMinutes - 1
        BY <2>1, <3>1
      <4> QED BY <2>1, <3>1, <4>1, Ahead
    <3>2. CASE ~(s <= e)
      <4>1. e - s \in Int /\ -DayMinutes <= e - s /\ e - s < 0
        BY <2>1, <3>2
      <4> QED BY <2>1, <3>2, <4>1, Behind
    <3> QED BY <3>1, <3>2
  <2>5. InWindow(s, e, now) <=> (now - s) % DayMinutes < (e - s) % DayMinutes
    BY <2>1, <2>3, <2>4 DEF InWindow
  <2> QED BY <2>2, <2>5 DEF s, e
<1> QED BY <1>1, PolicyInvariant, PTL

===============================================================================
