----------------------------- MODULE MCDrandGate -----------------------------
(***************************************************************************)
(* Small instances of DrandGate for TLC: the default four relays, with     *)
(* every set of liars of a given size and every set of relays down.        *)
(***************************************************************************)
EXTENDS DrandGate

CONSTANTS beacon, forged1, forged2

Patterns(maxDown, maxLiars) ==
  {f \in [down : SUBSET (1 .. 4), dishonest : SUBSET (1 .. 4)] :
     /\ Cardinality(f.down) <= maxDown
     /\ Cardinality(f.dishonest) <= maxLiars
     /\ f.down \cap f.dishonest = {}}

(* Any relays down together with one liar; and liars that could outvote.   *)
OneLiar == Patterns(4, 1)
AllLiars == {[down |-> {}, dishonest |-> 1 .. 4]}
AnyFaults == OneLiar \cup AllLiars
HonestRelays == {[down |-> {}, dishonest |-> {}]}

(* Right, or off by more than a period either way.                         *)
AnySkew == {-3, 0, 3}
==============================================================================
