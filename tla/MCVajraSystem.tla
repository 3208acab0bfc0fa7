---------------------------- MODULE MCVajraSystem ----------------------------
(***************************************************************************)
(* Small instances of VajraSystem for TLC.                                 *)
(***************************************************************************)
EXTENDS VajraSystem, TLC

CONSTANTS c1, c2, k1, k2, k1b, junk

Two == <<[id |-> c1, pubkey |-> k1], [id |-> c2, pubkey |-> k2]>>
TwoFiles == {Two}

(* A public key as text goes by the name of its keypair.                   *)
OneSpelling == (k1 :> k1) @@ (k2 :> k2)

TwoKeys == (c1 :> {k1, k1b}) @@ (c2 :> {k2})

Symmetry == Permutations(Requests)

(* One of the two time locks is sound: the gate, on a machine four times   *)
(* faster than the administrator's with a clock that is right or slow; or  *)
(* the puzzle, with the gate skipped or fooled by a clock far too fast.    *)
SoundSetups ==
  [skip : {FALSE}, skew : {-1, 0}, rate : {4}]
  \cup {[skip |-> TRUE, skew |-> 0, rate |-> 1], [skip |-> FALSE, skew |-> 3, rate |-> 1]}

UngatedSetup == {[skip |-> TRUE, skew |-> 0, rate |-> 1]}

(* Where to start when locking itself is not in question: the requests of  *)
(* answered got a 201 at time 0, for all the centers of the registry, and  *)
(* no others came in.                                                      *)
AnsweredInit(answered, Thresholds) ==
  LET If(r, then, else) == IF r \in answered THEN then ELSE else IN
  /\ now = 0 /\ up = Nodes /\ alive = TRUE
  /\ registry = LoadRegistry(onDisk)
  /\ pc = [r \in Requests |-> If(r, "ended", "idle")]
  /\ reply = [r \in Requests |-> If(r, 201, 0)]
  /\ secret = [r \in Requests |-> If(r, "erased", "none")]
  /\ wire = [r \in Requests |-> If(r, Manifest(r), NoUpload)]
  /\ \E k \in Thresholds, lead \in Leads :
       job = [r \in Requests |-> If(r,
         [n |-> Len(registry), k |-> k, lead |-> lead, at |-> 0,
          round |-> RoundAtOrAfter(lead), centers |-> registry], NoJob)]
  /\ pinned = [i \in Nodes |->
       {Shard(r, j) : r \in answered, j \in {m \in 0 .. Len(registry) - 1 : NodeFor(m) = i}}
       \cup (IF i = 0 THEN UNION {{Puzzle(r), Payload(r), Manifest(r)} : r \in answered} ELSE {})]
  /\ CenterInit /\ CoordInit

PublishedInit == onDisk \in RegistryFiles /\ AnsweredInit(Requests, Ks)

PublishedSpec == PublishedInit /\ [][SystemNext]_systemVars

(* The same without the steps of the service and of the nodes, when only   *)
(* the share files are in question: every fetch can fail anyway.           *)
SharesNext ==
  \/ CenterNext /\ UNCHANGED coordVars
  \/ CoordNext
  \/ Tick /\ UNCHANGED <<svcVars, centerVars, coordVars>>
==============================================================================
