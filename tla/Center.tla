-------------------------------- MODULE Center --------------------------------
(***************************************************************************)
(* The exam centers: python/vajra_center.py (decrypt_my_share), the shard  *)
(* fetch of python/reconstruct.py and the keypair files of                 *)
(* python/vajra_keygen.py.  A center is handed the manifest CID of a lock  *)
(* that was answered 201, fetches the manifest and its own shard, decrypts *)
(* it with the key it loaded at the start, and writes a share file.  The   *)
(* file then travels to the coordinator by a channel nobody protects.      *)
(***************************************************************************)
EXTENDS LockService

CONSTANTS
  KeysOf,      \* KeysOf[c]: the keypairs center c ever generates
  Junk,        \* a point on no lock's polynomial
  MaxTampered  \* bound on the share files altered on the way

ASSUME CenterAssumption ==
  /\ KeysOf \in [Centers -> SUBSET Keys]
  /\ \A c \in Centers : KeysOf[c] # {}
  /\ \A c, d \in Centers : c # d => KeysOf[c] \cap KeysOf[d] = {}
  /\ Junk \notin Requests /\ MaxTampered \in Nat

VARIABLES
  ownKey,  \* ownKey[c]: what c's keypair file holds
  run,     \* run[c]: the invocation of vajra_center at c
  files    \* the share files that exist, anywhere

centerVars == <<ownKey, run, files>>

(* A share file: the lock its manifest_cid names, the center_id and        *)
(* center_index it states, and the point (x, f(x)) in share_hex; poly is   *)
(* the lock on whose polynomials the point lies.                           *)
Files == [req : Requests, id : Centers, idx : Nat, poly : Requests \cup {Junk}, x : Nat]

(* A run in progress holds the lock, the private key it loaded, and the    *)
(* IPFS node it asks next.                                                 *)
Idle == [stage |-> "idle"]
Runs == {Idle} \cup
        [stage : {"manifest", "shard"}, req : Requests, key : Keys, node : Nodes]

CenterTypeOK ==
  /\ ownKey \in [Centers -> Keys]
  /\ run \in [Centers -> Runs]
  /\ files \in SUBSET Files

CenterInit ==
  /\ ownKey \in {k \in [Centers -> Keys] : \A c \in Centers : k[c] \in KeysOf[c]}
  /\ run = [c \in Centers |-> Idle]
  /\ files = {}

Indices(r) == 0 .. job[r].n - 1
CenterAt(r, i) == job[r].centers[i + 1]

(* The share the lock gave to position i: split() hands out x = 1, 2, ...  *)
TrueShare(r, i) ==
  [req |-> r, id |-> CenterAt(r, i).id, idx |-> i, poly |-> r, x |-> i + 1]

Genuine(f) == f.idx \in Indices(f.req) /\ f = TrueShare(f.req, f.idx)

(* decrypt_my_share returns or raises, and _main with it.                  *)
Ends(c) == run' = [run EXCEPT ![c] = Idle]
Asks(c, node) == run' = [run EXCEPT ![c].stage = "shard", ![c].node = node]

(* vajra_keygen generate --force over the old keypair file.                *)
RotateKey(c) ==
  /\ \E k \in KeysOf[c] \ {ownKey[c]} : ownKey' = [ownKey EXCEPT ![c] = k]
  /\ UNCHANGED <<run, files>>

StartDecrypt(c) ==
  /\ run[c] = Idle
  /\ \E r \in Requests :
       /\ reply[r] = 201
       /\ run' = [run EXCEPT ![c] =
            [stage |-> "manifest", req |-> r, key |-> ownKey[c], node |-> 0]]
  /\ UNCHANGED <<ownKey, files>>

(* cat_json on node 0, and the lookup of the center's own id.              *)
FetchManifest(c) ==
  /\ run[c].stage = "manifest"
  /\ LET r == run[c].req IN
       \E outcome \in CatOutcomes(0, Manifest(r)) :
         IF outcome = "ok" /\ \E i \in Indices(r) : CenterAt(r, i).id = c
         THEN Asks(c, 0)
         ELSE Ends(c)
  /\ UNCHANGED <<ownKey, files>>

(* One turn of the _cat_any_node loop in fetch_and_decrypt_one_shard, and  *)
(* the decryption, which only the registered key passes.  Only an          *)
(* IPFSError moves on to the next node: any other exception leaves the     *)
(* loop and the program.                                                   *)
MyIndex(c) == CHOOSE i \in Indices(run[c].req) : CenterAt(run[c].req, i).id = c
MyShard(c) == Shard(run[c].req, MyIndex(c))
MyShare(c) == TrueShare(run[c].req, MyIndex(c))

(* The keypair a lock encrypted shard i for: whoever holds it derives the  *)
(* shard's key from the ephemeral one, and nobody else.                    *)
SealedFor(r, i) == KeyOf[CenterAt(r, i).pubkey]

(* Mutant: the shard opens with any key.                                   *)
AnyKeyFits(c) == run[c].key \in Keys

KeyFits(c) == run[c].key = SealedFor(run[c].req, MyIndex(c))

FetchShard(c) ==
  /\ run[c].stage = "shard"
  /\ LET node == run[c].node
         Gets(outcome) == outcome \in CatOutcomes(node, MyShard(c)) IN
       \/ /\ Gets("ok") /\ KeyFits(c)
          /\ files' = files \cup {MyShare(c)}
          /\ Ends(c)
       \/ /\ Gets("ok") /\ ~KeyFits(c)
          /\ Ends(c) /\ UNCHANGED files
       \/ /\ Gets("IPFSError")
          /\ IF node + 1 < NodeCount THEN Asks(c, node + 1) ELSE Ends(c)
          /\ UNCHANGED files
       \/ /\ Gets("httpx")
          /\ Ends(c) /\ UNCHANGED files
  /\ UNCHANGED ownKey

(* External: whoever carries a share file relabels it for another lock or  *)
(* position, or replaces the point.  A point nobody has decrypted cannot   *)
(* be guessed.                                                             *)
Tamper ==
  /\ Cardinality({f \in files : ~Genuine(f)}) < MaxTampered
  /\ \E f \in files, r \in Requests, id \in Centers, i \in 0 .. MaxShards - 1 :
       LET relabelled == [f EXCEPT !.req = r, !.id = id, !.idx = i] IN
         \/ files' = files \cup {relabelled}
         \/ \E x \in 0 .. MaxShards :
              files' = files \cup {[relabelled EXCEPT !.poly = Junk, !.x = x]}
  /\ UNCHANGED <<ownKey, run>>

CenterStep(c) == RotateKey(c) \/ StartDecrypt(c) \/ FetchManifest(c) \/ FetchShard(c)

CenterNext ==
  /\ (\E c \in Centers : CenterStep(c)) \/ Tamper
  /\ UNCHANGED vars
-----------------------------------------------------------------------------
(* Some share file gives the point.                                        *)
Known(poly, x) == \E f \in files : f.poly = poly /\ f.x = x

(* A point of a lock's polynomial first becomes known in a step of the     *)
(* center it was encrypted to, in a run that loaded the very key the       *)
(* service had registered when it locked - whatever was rotated, rerun or  *)
(* altered on the way since.                                               *)
SharesOnlyFromTheirCenter ==
  [][\A f \in files' : f.poly # Junk /\ ~Known(f.poly, f.x) =>
       /\ f.x \in 1 .. job[f.poly].n
       /\ LET holder == CenterAt(f.poly, f.x - 1) IN
            /\ run[holder.id] # Idle
            /\ run[holder.id].req = f.poly /\ run[holder.id].key = KeyOf[holder.pubkey]]_files

(* reconstruct.py:115 says a CID is fetched "from any reachable node", and *)
(* ipfs_client.py:6 that a center gets by when a node goes down: a center  *)
(* that could open its shard ends without it only after asking every node. *)
EveryNodeTried ==
  [][\A c \in Centers :
       run[c].stage = "shard" /\ run'[c] = Idle /\ KeyFits(c) /\ MyShare(c) \notin files'
         => run[c].node = NodeCount - 1]_<<vars, centerVars>>
==============================================================================
