------------------------------ MODULE NodeRegistry ------------------------------
(***************************************************************************)
(* The nodes of one org: created by an admin under the plan's limit,       *)
(* validated and registered by the installer and the node itself, given a  *)
(* new key, and deleted with their cameras.  Statements commit one by one  *)
(* except where the code opens a transaction.                              *)
(***************************************************************************)
EXTENDS Integers, FiniteSets

CONSTANTS
    Ids,                \* node ids a uuid can begin with
    Foreign,            \* those other orgs hold: the column is unique for all
    MaxNodes,           \* the plan's max_nodes
    Attempts,           \* NODE_ID_ATTEMPTS
    Clients,            \* requests under way at the same time
    DeviceCameras,      \* the cameras of a node
    MaxKeys             \* bound: keys handed out

VARIABLES
    node,               \* the org's rows: id -> [key, seen, note]
    owned,              \* the cameras' rows: <<node id, camera>>
    client,             \* [at, id, tries, cams]
    capLock,            \* who holds the advisory lock "node-cap:<org>"
    keys                \* keys handed out so far

registryVars == <<node, owned, client, capLock, keys>>

Nobody == "nobody"

ASSUME RegistryAssumption ==
    MaxNodes \in Nat /\ Attempts \in Nat \ {0} /\ Nobody \notin Clients

IdleClient == [at |-> "idle", id |-> "no_id", tries |-> 0, cams |-> {}]

RegistryInit ==
    /\ node = << >> /\ owned = {} /\ keys = 0 /\ capLock = Nobody
    /\ client = [c \in Clients |-> IdleClient]

To(c, fields) == client' = [client EXCEPT ![c] = fields]
At(c, place) == To(c, [client[c] EXCEPT !.at = place])
Stop(c) == To(c, IdleClient)
With(id, row) == [i \in DOMAIN node \union {id} |-> IF i = id THEN row ELSE node[i]]

\* An UPDATE by id changes the row if it is still there.
Update(id, row) == IF id \in DOMAIN node THEN With(id, row) ELSE node

-------------------------------------------------------------------------------

\* create_node: the lock and the count.
CreateCounts(c) ==
    /\ client[c].at = "idle" /\ capLock = Nobody /\ keys < MaxKeys
    /\ IF Cardinality(DOMAIN node) >= MaxNodes
       THEN UNCHANGED <<client, capLock>>
       ELSE /\ capLock' = c
            /\ To(c, [IdleClient EXCEPT !.at = "insert", !.tries = Attempts])
    /\ UNCHANGED <<node, owned, keys>>

\* One attempt in its savepoint; the unique column decides.
CreateInserts(c, id) ==
    /\ client[c].at = "insert"
    /\ IF id \in DOMAIN node \union Foreign
       THEN /\ IF client[c].tries = 1
               THEN Stop(c) /\ capLock' = Nobody
               ELSE To(c, [client[c] EXCEPT !.tries = @ - 1]) /\ UNCHANGED capLock
            /\ UNCHANGED <<node, keys>>
       ELSE /\ node' = With(id, [key |-> keys + 1, seen |-> FALSE, note |-> "none"])
            /\ keys' = keys + 1
            /\ Stop(c) /\ capLock' = Nobody
    /\ UNCHANGED owned

\* rotate_api_key.
RotateApiKey(id) ==
    /\ id \in DOMAIN node /\ keys < MaxKeys
    /\ node' = With(id, [node[id] EXCEPT !.key = keys + 1])
    /\ keys' = keys + 1
    /\ UNCHANGED <<owned, client, capLock>>

-------------------------------------------------------------------------------
\* validate_node and register_node read the row and compare the key.
ReadRow(c, id, key) ==
    /\ client[c].at = "idle" /\ id \in DOMAIN node
    /\ To(c, [IdleClient EXCEPT !.id = id, !.cams = DeviceCameras,
                !.at = IF key = node[id].key THEN "version" ELSE "bad_key"])
    /\ UNCHANGED <<node, owned, capLock, keys>>

\* record_bad_key_attempt: only on a node that has never connected.
RecordBadKeyAttempt(c) ==
    LET id == client[c].id
    IN /\ client[c].at = "bad_key"
       /\ node' = IF id \in DOMAIN node /\ ~node[id].seen
                  THEN With(id, [node[id] EXCEPT !.note = "bad key"]) ELSE node
       /\ Stop(c)
       /\ UNCHANGED <<owned, capLock, keys>>

\* A version below the minimum is noted, whether or not the node was seen.
RefuseVersion(c) ==
    LET id == client[c].id
    IN /\ client[c].at = "version"
       /\ node' = Update(id, [node[id] EXCEPT !.note = "version"])
       /\ Stop(c)
       /\ UNCHANGED <<owned, capLock, keys>>

\* The node is online; its note is cleared by the same statement.
Online(c) ==
    LET id == client[c].id
    IN /\ client[c].at = "version"
       /\ node' = Update(id, [node[id] EXCEPT !.seen = TRUE, !.note = "none"])
       /\ At(c, "cameras")
       /\ UNCHANGED <<owned, capLock, keys>>

\* A camera's row, which its foreign key ties to the node's.
InsertCamera(c) ==
    LET id == client[c].id
    IN /\ client[c].at = "cameras"
       /\ IF client[c].cams = {} \/ id \notin DOMAIN node
          THEN Stop(c) /\ UNCHANGED owned
          ELSE \E cam \in client[c].cams :
                 /\ owned' = owned \union {<<id, cam>>}
                 /\ To(c, [client[c] EXCEPT !.cams = @ \ {cam}])
       /\ UNCHANGED <<node, capLock, keys>>

-------------------------------------------------------------------------------
\* delete_node: the wipe command has been answered or given up, and the cached
\* video of the cameras found is dropped.
DeleteReads(c, id) ==
    /\ client[c].at = "idle" /\ id \in DOMAIN node
    /\ To(c, [IdleClient EXCEPT !.at = "delete_cameras", !.id = id])
    /\ UNCHANGED <<node, owned, capLock, keys>>

\* The transaction: first the cameras ...
DeleteCameras(c) ==
    /\ client[c].at = "delete_cameras"
    /\ To(c, [client[c] EXCEPT !.at = "delete_node",
                !.cams = {o[2] : o \in {o \in owned : o[1] = client[c].id}}])
    /\ UNCHANGED <<node, owned, capLock, keys>>

\* Mutant: the node goes although a camera was added since.
DeleteNode_Blind(c) ==
    LET id == client[c].id
    IN /\ client[c].at = "delete_node"
       /\ node' = [i \in DOMAIN node \ {id} |-> node[i]]
       /\ owned' = owned \ {<<id, cam>> : cam \in client[c].cams}
       /\ Stop(c)
       /\ UNCHANGED <<capLock, keys>>

\* ... and then the node, which a camera inserted meanwhile still refers to:
\* the transaction fails, and nothing is deleted.
DeleteNode(c) ==
    LET id   == client[c].id
        mine == {o \in owned : o[1] = id}
    IN /\ client[c].at = "delete_node"
       /\ IF {o[2] : o \in mine} \subseteq client[c].cams
          THEN /\ node' = [i \in DOMAIN node \ {id} |-> node[i]]
               /\ owned' = owned \ mine
          ELSE UNCHANGED <<node, owned>>
       /\ Stop(c)
       /\ UNCHANGED <<capLock, keys>>

RegistryNext ==
    \/ \E c \in Clients :
         \/ CreateCounts(c)
         \/ \E id \in Ids :
              \/ CreateInserts(c, id) \/ DeleteReads(c, id)
              \/ \E key \in 0 .. keys : ReadRow(c, id, key)
         \/ RecordBadKeyAttempt(c) \/ RefuseVersion(c) \/ Online(c) \/ InsertCamera(c)
         \/ DeleteCameras(c) \/ DeleteNode(c)
    \/ \E id \in Ids : RotateApiKey(id)

RegistrySpec == RegistryInit /\ [][RegistryNext]_registryVars

-------------------------------------------------------------------------------
\* Two creates at once, a double-clicked button or a retried request, never
\* take the org past its plan, and an id another org holds is never taken over.
NodesWithinPlan ==
    Cardinality(DOMAIN node) <= MaxNodes /\ DOMAIN node \intersect Foreign = {}

\* However registrations and deletions interleave, no camera is left behind
\* that points at a node which is gone.
NoOrphanCamera == \A o \in owned : o[1] \in DOMAIN node

\* Nobody who merely knows a node's id can make the dashboard tell its owner to
\* rotate the key of a node that works, even with the request that was refused
\* begun before the node first connected.
NoteOnlyBeforeFirstContact ==
    \A id \in DOMAIN node : node[id].note = "bad key" => ~node[id].seen

===============================================================================
