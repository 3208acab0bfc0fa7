----------------------------- MODULE DrandRounds -----------------------------
(***************************************************************************)
(* Round arithmetic of python/drand_client.py: how a lock request's start  *)
(* time becomes the drand round it is bound to, and when the coordinator   *)
(* considers that round published.  Times and rounds are whole units (the  *)
(* code works in Unix seconds).                                            *)
(***************************************************************************)
EXTENDS Integers

CONSTANTS
  Genesis,   \* settings.drand_genesis
  Period     \* settings.drand_period (config.py: ge=1)

ASSUME DrandChainAssumption == Genesis \in Nat /\ Period \in Nat \ {0}

(* Mutant: the last round that is already out by the target, not the next. *)
RoundBefore(target) == IF target <= Genesis THEN 1 ELSE (target - Genesis) \div Period

(* round_at_or_after: 1 up to genesis, then the ceiling of the elapsed      *)
(* periods.                                                                *)
RoundAtOrAfter(target) ==
  IF target <= Genesis
  THEN 1
  ELSE (target - Genesis + Period - 1) \div Period

(* publish_time: the moment the code assigns to a round.                   *)
PublishTime(round) == Genesis + round * Period

(* External: when the drand network emits a round.  Round 1 comes out at   *)
(* genesis itself, so this is one period before PublishTime; the           *)
(* repository's own measurements use this formula                          *)
(* (exp09_release_timing/run_release_timing.py:104, experiments/common.py: *)
(* 235), and only the network, not the code, fixes it.                     *)
BeaconTime(round) == Genesis + (round - 1) * Period
==============================================================================
