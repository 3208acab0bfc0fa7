---------------------------- MODULE MCThreeCenters ----------------------------
(***************************************************************************)
(* MCVajraSystem with a third center.                                      *)
(***************************************************************************)
EXTENDS MCVajraSystem

CONSTANTS c3, k3

Three == Append(Two, [id |-> c3, pubkey |-> k3])
ThreeFiles == {Three}
TwoOrThreeFiles == {Two, Three}

ThreeSpellings == (k1 :> k1) @@ (k2 :> k2) @@ (k3 :> k3)

ThreeKeys == (c1 :> {k1, k1b}) @@ (c2 :> {k2}) @@ (c3 :> {k3})

(* Two locks whose shares and objects can be mixed up, for both of two     *)
(* centers, which may change their keys; or one for all of three, which    *)
(* keep theirs, whose k an altered manifest can lower and still have a     *)
(* shape that is allowed.                                                  *)
ThresholdCase == onDisk = Three

TamperInit ==
  \/ onDisk = Two /\ AnsweredInit(Requests, {2})
  \/ /\ ThresholdCase /\ \E r \in Requests : AnsweredInit({r}, {3})
     /\ ownKey[c1] = k1

(* A center the registry does not name finds nothing in any manifest; it   *)
(* stays out of it here, and so do the positions past the last.            *)
InRegistry(c) == \E i \in DOMAIN registry : registry[i].id = c

InPlay ==
  /\ \A c \in Centers : ~InRegistry(c) => run[c] = Idle
  /\ \A f \in files : InRegistry(f.id) /\ f.idx < Len(registry) /\ f.x <= Len(registry)

TamperNext == SharesNext /\ InPlay' /\ (ThresholdCase => UNCHANGED ownKey)

TamperSpec == TamperInit /\ [][TamperNext]_systemVars
===============================================================================
