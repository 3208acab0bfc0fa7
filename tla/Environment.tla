----------------------------- MODULE Environment -----------------------------
(***************************************************************************)
(* What every part of VAJRA shares: the passing of time and the cluster of *)
(* Kubo nodes behind python/ipfs_client.py.  A CID is the hash of the      *)
(* content, so an object stands for its own CID; its content is fixed by   *)
(* the lock request that made it, its kind, and for a shard its index.     *)
(***************************************************************************)
EXTENDS Integers, FiniteSets, Sequences

CONSTANTS
  Requests,   \* the POST /api/v1/lock calls; each makes one lock
  NodeCount,  \* number of URLs in IPFS_API_URLS
  Peered,     \* do the nodes exchange blocks with one another?
  MaxTime     \* bound on the clock

ASSUME ClusterAssumption ==
  NodeCount \in Nat \ {0} /\ Peered \in BOOLEAN /\ MaxTime \in Nat

VARIABLES
  now,     \* real time
  pinned,  \* pinned[i]: the objects stored on node i
  up       \* the nodes that answer

envVars == <<now, pinned, up>>

Nodes == 0 .. NodeCount - 1
Kinds == {"puzzle", "payload", "shard", "manifest"}
Objects == [kind : Kinds, req : Requests, idx : Nat]

Puzzle(r)   == [kind |-> "puzzle",   req |-> r, idx |-> 0]
Payload(r)  == [kind |-> "payload",  req |-> r, idx |-> 0]
Shard(r, i) == [kind |-> "shard",    req |-> r, idx |-> i]
Manifest(r) == [kind |-> "manifest", req |-> r, idx |-> 0]

(* IPFSClient.node_for: round robin over the configured nodes.             *)
NodeFor(i) == i % NodeCount

EnvTypeOK ==
  /\ now \in Nat
  /\ pinned \in [Nodes -> SUBSET Objects]
  /\ up \subseteq Nodes

EnvInit ==
  /\ now = 0
  /\ pinned = [i \in Nodes |-> {}]
  /\ up = Nodes

(***************************************************************************)
(* IPFSClient.add_bytes and add_json: shards go to a node of their own,    *)
(* everything else to node 0.  The node stores the bytes at some moment,   *)
(* perhaps long after the caller has given up; the caller sees the CID     *)
(* only after that.                                                        *)
(***************************************************************************)
HomeOf(obj) == NodeFor(obj.idx)

Stored(obj) == obj \in pinned[HomeOf(obj)]

Store(obj) ==
  /\ HomeOf(obj) \in up
  /\ pinned' = [pinned EXCEPT ![HomeOf(obj)] = @ \cup {obj}]

(***************************************************************************)
(* IPFSClient.cat and cat_json on one node: the content, an IPFSError (a   *)
(* non-2xx answer, or bad JSON) or an httpx error (ConnectError from a     *)
(* node that is down, ReadTimeout from one still looking for the block).   *)
(***************************************************************************)
Available(node, obj) ==
  \E i \in up : obj \in pinned[i] /\ (i = node \/ Peered)

CatOutcomes(node, obj) ==
  IF node \notin up THEN {"httpx"}
  ELSE {"IPFSError", "httpx"} \cup (IF Available(node, obj) THEN {"ok"} ELSE {})

(***************************************************************************)
(* The environment's own steps.  A node that comes back still has what it  *)
(* pinned.                                                                 *)
(***************************************************************************)
Tick == now < MaxTime /\ now' = now + 1 /\ UNCHANGED <<pinned, up>>

NodeStops(i)  == i \in up /\ up' = up \ {i} /\ UNCHANGED <<now, pinned>>
NodeStarts(i) == i \in Nodes \ up /\ up' = up \cup {i} /\ UNCHANGED <<now, pinned>>

EnvNext == Tick \/ \E i \in Nodes : NodeStops(i) \/ NodeStarts(i)
==============================================================================
