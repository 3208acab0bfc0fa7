------------------------------ MODULE DrandGate ------------------------------
(***************************************************************************)
(* The time gate in front of reconstruction: verify_round_published and    *)
(* fetch_round of python/drand_client.py.  The coordinator compares its    *)
(* own clock with the round's publish time, then asks every relay at once  *)
(* and accepts the value most of them return, if enough of them agree.     *)
(* Each relay answers in its own time, while the clock moves.  A refused   *)
(* operator runs the command again.                                        *)
(***************************************************************************)
EXTENDS DrandRounds, FiniteSets

CONSTANTS
  RelayCount,     \* length of settings.drand_relay_list
  MinAgreement,   \* settings.drand_agreement_threshold
  Round,          \* target_round of the manifest
  Beacon,         \* the (signature, randomness) the network emits for Round
  Forged,         \* other values a dishonest relay may return
  Faults,         \* records [down, dishonest] of sets of relays
  Skews,          \* how far the coordinator's clock may be off
  MaxTime         \* bound on the clock

Relays == 1 .. RelayCount
Failure == [ok |-> FALSE]          \* a DrandError: network, 404, malformed
Pending == [ok |-> FALSE, asked |-> TRUE]
Value(v) == [ok |-> TRUE, value |-> v]

ASSUME GateAssumption ==
  /\ RelayCount \in Nat /\ MinAgreement \in 1 .. RelayCount
  /\ Round \in Nat \ {0}
  /\ Beacon \notin Forged
  /\ Faults \subseteq [down : SUBSET Relays, dishonest : SUBSET Relays]
  /\ Skews \subseteq Int /\ MaxTime \in Nat

VARIABLES
  now,       \* real time
  faults,    \* which relays are down and which lie; fixed in a behaviour
  gate,      \* "idle", "fetch", "refused" or "open"
  skew,      \* error of the clock the gate read
  answer,    \* answer[i]: what relay i has returned
  accepted   \* the RoundInfo handed to the caller

gateVars == <<now, faults, gate, skew, answer, accepted>>

Answers == {Pending, Failure} \cup {Value(v) : v \in Forged \cup {Beacon}}

GateTypeOK ==
  /\ now \in Nat
  /\ faults \in Faults
  /\ gate \in {"idle", "fetch", "refused", "open"}
  /\ skew \in Skews \cup {0}
  /\ answer \in [Relays -> Answers]
  /\ accepted \in Answers \ {Pending}
  /\ gate = "open" => accepted # Failure

GateInit ==
  /\ now = 0
  /\ faults \in Faults
  /\ gate = "idle"
  /\ skew = 0
  /\ answer = [i \in Relays |-> Pending]
  /\ accepted = Failure

(* The offline check, then one request per relay.                          *)
(* Mutant: the moment the network emits the round, a period earlier.       *)
ClockAllowsAtBeacon(s) == now + s >= BeaconTime(Round)

ClockAllows(s) == now + s >= PublishTime(Round)

Begin ==
  /\ gate = "idle"
  /\ \E s \in Skews :
       /\ skew' = s
       /\ gate' = IF ClockAllows(s) THEN "fetch" ELSE "refused"
  /\ answer' = [i \in Relays |-> Pending]
  /\ UNCHANGED <<now, faults, accepted>>

(* _fetch_round_one.  Nobody, honest or not, has the beacon before the     *)
(* network emits it.                                                       *)
Emitted == now >= BeaconTime(Round)

Replies(i) ==
  IF i \in faults.dishonest
  THEN {Failure} \cup {Value(v) : v \in Forged}
       \cup (IF Emitted THEN {Value(Beacon)} ELSE {})
  ELSE IF i \notin faults.down /\ Emitted THEN {Value(Beacon)} ELSE {Failure}

RelayAnswers(i) ==
  /\ gate = "fetch" /\ answer[i] = Pending
  /\ \E a \in Replies(i) : answer' = [answer EXCEPT ![i] = a]
  /\ UNCHANGED <<now, faults, gate, skew, accepted>>

(* Counter.most_common(1) over the successes, kept in relay order: the     *)
(* largest group, of equally large ones the one a relay further up the     *)
(* list belongs to.                                                        *)
Agreeing(a) == {i \in Relays : answer[i] = a}

(* Mutant: relays that failed alike count as agreeing.                     *)
ReturnedOrFailed == {answer[i] : i \in Relays} \ {Pending}

Returned == {answer[i] : i \in Relays} \ {Failure, Pending}

Votes(a) == Cardinality(Agreeing(a))
Earlier(a, b) == \E i \in Agreeing(a) : \A j \in Agreeing(b) : i <= j

Wins(a) ==
  /\ a \in Returned
  /\ \A b \in Returned :
       Votes(b) < Votes(a) \/ (Votes(b) = Votes(a) /\ Earlier(a, b))

(* Mutants: any plurality will do; strictly more than the threshold.       *)
EnoughIfAny(a) == Votes(a) > 0
EnoughIfMore(a) == Votes(a) > MinAgreement

Enough(a) == Votes(a) >= MinAgreement

Decide ==
  /\ gate = "fetch"
  /\ \A i \in Relays : answer[i] # Pending
  /\ \/ /\ \E a \in Returned :
             /\ Wins(a) /\ Enough(a)
             /\ accepted' = a
        /\ gate' = "open"
     \/ /\ ~\E a \in Returned : Wins(a) /\ Enough(a)
        /\ gate' = "refused"
        /\ UNCHANGED accepted
  /\ UNCHANGED <<now, faults, skew, answer>>

Retry ==
  /\ gate = "refused"
  /\ gate' = "idle"
  /\ UNCHANGED <<now, faults, skew, answer, accepted>>

GateTick ==
  /\ now < MaxTime
  /\ now' = now + 1
  /\ UNCHANGED <<faults, gate, skew, answer, accepted>>

GateStep == Begin \/ (\E i \in Relays : RelayAnswers(i)) \/ Decide \/ Retry

GateNext == GateStep \/ GateTick

GateSpec == GateInit /\ [][GateNext]_gateVars

(* httpx gives each request drand_timeout_secs, so a started gate ends;    *)
(* the operator tries again; time passes.                                  *)
FairGateSpec == GateSpec /\ WF_gateVars(GateStep) /\ WF_gateVars(GateTick)
-----------------------------------------------------------------------------
(* With fewer liars than the agreement threshold, whatever the             *)
(* coordinator's clock says, the gate opens only on the network's own      *)
(* value and only once the network has emitted it (verify_round_published, *)
(* "the round has demonstrably published").                                *)
OpensOnGenuineRound ==
  gate = "open" /\ Cardinality(faults.dishonest) < MinAgreement
    => accepted = Value(Beacon) /\ now >= BeaconTime(Round)

(* On a machine whose clock does not run fast the gate never opens before  *)
(* the publish time, even if every relay lies.                             *)
ClockHoldsAlone ==
  gate = "open" /\ skew <= 0 => now >= PublishTime(Round)

(* What config.py:122 promises of the default four relays and threshold    *)
(* two: with two relays down, or one lying, an operator who keeps trying   *)
(* gets through.                                                           *)
Tolerable ==
  \/ Cardinality(faults.down) <= 2 /\ faults.dishonest = {}
  \/ Cardinality(faults.dishonest) <= 1 /\ faults.down = {}

FaultsTolerated == Tolerable ~> gate = "open"

(* drand_client.py:6 says the round cannot exist before its publish time,  *)
(* and ARCHITECTURE.md:300 that the gate refuses until then: with honest   *)
(* relays it would not open earlier, whatever the coordinator's clock.     *)
NeverBeforePublishTime == gate = "open" => now >= PublishTime(Round)
==============================================================================
