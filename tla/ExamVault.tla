------------------------------- MODULE ExamVault -------------------------------
(***************************************************************************)
(* What VAJRA promises (README.md:38, the paper is in nobody's hands       *)
(* before the exam starts): a paper is sealed for a threshold and an       *)
(* opening time, centers give their consent one by one, and the paper is   *)
(* released only once enough of them have and the time has come.           *)
(***************************************************************************)
EXTENDS Integers, FiniteSets

CONSTANTS Papers, Holders

VARIABLES
  now,
  terms,    \* terms[p]: {} while p is unsealed, else its one [k, opens]
  consent,  \* consent[p]: the centers that have given their share of p
  out       \* the papers released

vaultVars == <<now, terms, consent, out>>

Terms == [k : Nat \ {0, 1}, opens : Nat]

VaultInit ==
  /\ now \in Nat
  /\ terms \in [Papers -> SUBSET Terms]
  /\ consent = [p \in Papers |-> {}]
  /\ out = {}

(* Once sealed, the terms of a paper never change.                         *)
Seal(p) ==
  /\ terms[p] = {}
  /\ terms' \in [Papers -> SUBSET Terms]
  /\ Cardinality(terms'[p]) = 1
  /\ \A q \in Papers \ {p} : terms'[q] = terms[q]
  /\ UNCHANGED <<now, consent, out>>

Consent(p, c) ==
  /\ terms[p] # {}
  /\ consent' = [consent EXCEPT ![p] = @ \cup {c}]
  /\ UNCHANGED <<now, terms, out>>

MayOpen(p) ==
  \E t \in terms[p] : now >= t.opens /\ Cardinality(consent[p]) >= t.k

Release(p) ==
  /\ MayOpen(p)
  /\ out' = out \cup {p}
  /\ UNCHANGED <<now, terms, consent>>

Pass == now' = now + 1 /\ UNCHANGED <<terms, consent, out>>

VaultNext ==
  \/ Pass
  \/ \E p \in Papers : Seal(p) \/ Release(p) \/ \E c \in Holders : Consent(p, c)

VaultSpec == VaultInit /\ [][VaultNext]_vaultVars
==============================================================================
