--------------------------- MODULE DrandGate_proofs ---------------------------
(***************************************************************************)
(* Proofs about DrandGate, for any chain, any number of relays, any        *)
(* agreement threshold and any clock.                                      *)
(***************************************************************************)
EXTENDS DrandGate, FiniteSetTheorems, TLAPS

(* Sets of relays are finite, so their sizes can be compared.              *)
LEMMA RelaysFinite ==
  ASSUME NEW S \in SUBSET Relays
  PROVE  IsFiniteSet(S) /\ Cardinality(S) \in Nat
<1>1. IsFiniteSet(Relays)
  BY FS_Interval, GateAssumption DEF Relays
<1> QED
  BY <1>1, FS_Subset, FS_CardinalityType

(* The inductive invariant: what an honest relay can have answered, and    *)
(* that nobody has the beacon before the network emits it.                 *)
Honest == Relays \ faults.dishonest

GateInv ==
  /\ GateTypeOK
  /\ gate \in {"fetch", "open"} => ClockAllows(skew)
  /\ gate \in {"fetch", "open"} =>
       /\ \A i \in Honest : answer[i] \in {Pending, Failure, Value(Beacon)}
       /\ \A i \in Relays : answer[i] = Value(Beacon) => Emitted
  /\ gate = "open" =>
       /\ accepted \in Returned
       /\ Enough(accepted)

(* No relay has answered and the gate is shut.                             *)
LEMMA GateInvInit == GateInit => GateInv
  BY GateAssumption DEF GateInit, GateInv, GateTypeOK, Answers, Pending, Failure

(* One step per action; the clock only moves forward, so what has been     *)
(* emitted stays so.                                                       *)
LEMMA GateInvNext == GateInv /\ [GateNext]_gateVars => GateInv'
<1> SUFFICES ASSUME GateInv, [GateNext]_gateVars PROVE GateInv'
  OBVIOUS
<1> USE GateAssumption DEF GateInv, GateTypeOK
<1>1. CASE Begin
  BY <1>1 DEF Begin, Answers, ClockAllows, Honest, Pending, Value
<1>2. ASSUME NEW i \in Relays, RelayAnswers(i) PROVE GateInv'
  <2>1. PICK a \in Replies(i) : answer' = [answer EXCEPT ![i] = a]
    BY <1>2 DEF RelayAnswers
  <2>2. a \in Answers
    BY <2>1 DEF Replies, Answers
  <2>3. /\ i \in Honest => a \in {Failure, Value(Beacon)}
        /\ a = Value(Beacon) => Emitted
    BY <2>1 DEF Replies, Honest, Value, Failure
  <2>4. gate = "fetch" /\ UNCHANGED <<now, faults, gate, skew, accepted>>
    BY <1>2 DEF RelayAnswers
  <2>5. GateTypeOK'
    BY <2>1, <2>2, <2>4
  <2>6. /\ \A j \in Honest' : answer'[j] \in {Pending, Failure, Value(Beacon)}
        /\ \A j \in Relays : answer'[j] = Value(Beacon) => Emitted'
    BY <2>1, <2>3, <2>4 DEF Honest, Emitted
  <2> QED
    BY <2>4, <2>5, <2>6 DEF ClockAllows
<1>3. CASE Decide
  BY <1>3 DEF Decide, Returned, Wins, Enough, Votes, Agreeing, ClockAllows, Honest, Emitted
<1>4. CASE Retry
  BY <1>4 DEF Retry
<1>5. CASE GateTick
  <2>1. UNCHANGED <<faults, gate, skew, answer, accepted>> /\ now' = now + 1 /\ now \in Nat
    BY <1>5 DEF GateTick
  <2>2. BeaconTime(Round) \in Int /\ PublishTime(Round) \in Int /\ skew \in Int
    BY DrandChainAssumption DEF BeaconTime, PublishTime
  <2>3. (Emitted => Emitted') /\ (ClockAllows(skew) => ClockAllows(skew)')
    BY <2>1, <2>2 DEF Emitted, ClockAllows
  <2>4. Returned' = Returned /\ Enough(accepted)' = Enough(accepted)
    BY <2>1 DEF Returned, Enough, Votes, Agreeing
  <2> QED
    BY <2>1, <2>3, <2>4 DEF Honest
<1>6. CASE UNCHANGED gateVars
  BY <1>6 DEF gateVars, Returned, Enough, Votes, Agreeing, ClockAllows, Honest, Emitted
<1> QED
  BY <1>1, <1>2, <1>3, <1>4, <1>5, <1>6 DEF GateNext, GateStep

(* GateInv holds in every reachable state of the gate.                     *)
LEMMA GateInvariant == GateSpec => []GateInv
  BY GateInvInit, GateInvNext, PTL DEF GateSpec

(* Every reachable state of the gate is well-typed, and an open gate has   *)
(* an accepted value.                                                      *)
THEOREM GateTypeCorrect == GateSpec => []GateTypeOK
<1>1. GateInv => GateTypeOK
  BY DEF GateInv
<1> QED
  BY <1>1, GateInvariant, PTL

(* With fewer lying relays than the threshold, the gate opens only on the  *)
(* network's own value and only after the network emitted it, whatever the *)
(* coordinator's clock says.                                               *)
THEOREM GenuineRoundHolds == GateSpec => []OpensOnGenuineRound
<1>1. GateInv => OpensOnGenuineRound
  <2> SUFFICES ASSUME GateInv, gate = "open", Cardinality(faults.dishonest) < MinAgreement
               PROVE  accepted = Value(Beacon) /\ now >= BeaconTime(Round)
    BY DEF OpensOnGenuineRound
  <2>1. faults.dishonest \in SUBSET Relays
    BY GateAssumption DEF GateInv, GateTypeOK
  <2>2. Agreeing(accepted) \in SUBSET Relays
    BY DEF Agreeing
  <2>3. Cardinality(Agreeing(accepted)) >= MinAgreement /\ MinAgreement \in Nat
    BY GateAssumption DEF GateInv, Enough, Votes
  <2>4. PICK i \in Agreeing(accepted) : i \notin faults.dishonest
    <3>1. SUFFICES ASSUME Agreeing(accepted) \subseteq faults.dishonest PROVE FALSE
      OBVIOUS
    <3>2. Cardinality(Agreeing(accepted)) <= Cardinality(faults.dishonest)
      BY <2>1, <3>1, RelaysFinite, FS_Subset
    <3> QED
      BY <2>1, <2>2, <2>3, <3>2, RelaysFinite
  <2>5. i \in Honest /\ answer[i] = accepted
    BY <2>2, <2>4 DEF Agreeing, Honest
  <2>6. accepted \in {Pending, Failure, Value(Beacon)}
    BY <2>5 DEF GateInv
  <2>7. accepted = Value(Beacon)
    BY <2>6 DEF GateInv, Returned
  <2>8. Emitted
    BY <2>5, <2>7 DEF GateInv, Honest
  <2> QED
    BY <2>7, <2>8 DEF Emitted
<1> QED
  BY <1>1, GateInvariant, PTL

(* On a clock that does not run fast the gate never opens before the       *)
(* publish time, even if every relay lies.                                 *)
THEOREM ClockHolds == GateSpec => []ClockHoldsAlone
<1>1. GateInv => ClockHoldsAlone
  <2> SUFFICES ASSUME GateInv, gate = "open", skew <= 0 PROVE now >= PublishTime(Round)
    BY DEF ClockHoldsAlone
  <2>1. now \in Nat /\ skew \in Int /\ PublishTime(Round) \in Int
    BY GateAssumption, DrandChainAssumption DEF GateInv, GateTypeOK, PublishTime
  <2> QED
    BY <2>1 DEF GateInv, ClockAllows
<1> QED
  BY <1>1, GateInvariant, PTL
==============================================================================
