--------------------------- MODULE SoloReconstruct ---------------------------
(***************************************************************************)
(* reconstruct.py run on one machine that is given keypair files: its      *)
(* _resolve_center_keys and reconstruct_pdf, up to combine_shares_to_pdf,  *)
(* which it has in common with the coordinator (Coordinator.tla).  Nodes   *)
(* come and go and centers replace their keys meanwhile; every fetch may   *)
(* fail; whoever runs it may run it again.                                 *)
(***************************************************************************)
EXTENDS Coordinator

CONSTANT Givens  \* the sets of centers whose keypair files are passed

ASSUME GivensAssumption == Givens \subseteq SUBSET Centers

VARIABLE solo  \* the invocation, until it has its shares

soloVars == <<vars, centerVars, coordVars, solo>>

NoSolo == [stage |-> "idle"]

SoloEnds == solo' = NoSolo /\ UNCHANGED coordVars

StartSolo(r, given) ==
  /\ solo = NoSolo /\ coord = NoRun
  /\ reply[r] = 201 /\ Cardinality(released) < MaxReleases
  /\ \E setup \in Setups, m \in Manifests(r) :
       solo' = [stage |-> "resolve", req |-> r, given |-> given,
                manifest |-> m, setup |-> setup]
  /\ UNCHANGED coordVars

(* _resolve_center_keys: the manifest from node 0, not verified yet; each  *)
(* keypair file is read now, and its id must be one of the manifest's.     *)
Registered(r) == {CenterAt(r, i).id : i \in Indices(r)}
IndicesOf(r, given) == {i \in Indices(r) : CenterAt(r, i).id \in given}
Resolves == solo.given # {} /\ solo.given \subseteq Registered(solo.req)

ResolveKeys ==
  /\ solo.stage = "resolve"
  /\ LET r == solo.req IN
       \/ /\ "ok" \in CatOutcomes(0, Manifest(r)) /\ Resolves
          /\ solo' = [stage |-> "manifest", req |-> r,
                      manifest |-> solo.manifest, setup |-> solo.setup,
                      keys |-> [i \in IndicesOf(r, solo.given) |-> ownKey[CenterAt(r, i).id]]]
          /\ UNCHANGED coordVars
       \/ SoloEnds

(* Mutant: one key fewer.                                                  *)
LowestButOne(k, indices) ==
  {i \in indices : Cardinality({j \in indices : j < i}) < k - 1}

(* "Use exactly k privkeys": those of the k lowest indices.                *)
Lowest(k, indices) == {i \in indices : Cardinality({j \in indices : j < i}) < k}

(* reconstruct_pdf fetches the manifest again, verifies it and counts the  *)
(* keys.  asks[i]: the node that is asked for shard i next.                *)
Enough ==
  /\ Trusted(solo.req, solo.manifest)
  /\ Cardinality(DOMAIN solo.keys) >= solo.manifest.k
  /\ \A i \in DOMAIN solo.keys : i < solo.manifest.n

VerifyManifest ==
  /\ solo.stage = "manifest"
  /\ \/ /\ "ok" \in CatOutcomes(0, Manifest(solo.req)) /\ Enough
        /\ solo' = [stage |-> "shards", req |-> solo.req,
                    manifest |-> solo.manifest, setup |-> solo.setup, keys |-> solo.keys,
                    asks |-> [i \in Lowest(solo.manifest.k, DOMAIN solo.keys) |-> 0],
                    got |-> {}]
        /\ UNCHANGED coordVars
     \/ SoloEnds

(* One turn of _cat_any_node for one of the shards, which are fetched at   *)
(* once, with the decryption.  One that fails fails the run; the others    *)
(* change nothing but this run.                                            *)
Fits(i) == solo.keys[i] = SealedFor(solo.req, i)

FetchOneShard(i) ==
  LET node == solo.asks[i]
      Gets(outcome) == outcome \in CatOutcomes(node, Shard(solo.req, i))
  IN \/ /\ Gets("ok") /\ Fits(i)
        /\ solo' = [solo EXCEPT !.got = @ \cup {i}]
        /\ UNCHANGED coordVars
     \/ Gets("ok") /\ ~Fits(i) /\ SoloEnds
     \/ /\ Gets("IPFSError")
        /\ IF node + 1 < NodeCount
           THEN solo' = [solo EXCEPT !.asks[i] = node + 1] /\ UNCHANGED coordVars
           ELSE SoloEnds
     \/ Gets("httpx") /\ SoloEnds

FetchShards ==
  /\ solo.stage = "shards"
  /\ \E i \in DOMAIN solo.asks \ solo.got : FetchOneShard(i)

(* combine_shares_to_pdf takes over, at its gate.  Mutant: after it.       *)
CombineFrom(stage) ==
  /\ solo.stage = "shards" /\ solo.got = DOMAIN solo.asks
  /\ coord' = [stage |-> stage, req |-> solo.req,
               shares |-> {TrueShare(solo.req, i) : i \in solo.got},
               manifest |-> solo.manifest, setup |-> solo.setup, node |-> 0, since |-> 0]
  /\ solo' = NoSolo
  /\ UNCHANGED released

CombineUngated == CombineFrom("payload")

Combine == CombineFrom("gate")

SoloKilled == solo # NoSolo /\ SoloEnds

SoloStep ==
  \/ ResolveKeys \/ VerifyManifest \/ FetchShards \/ Combine \/ SoloKilled
  \/ (PassGate \/ OpenPayload \/ FetchPuzzle \/ Solve \/ CoordCrash) /\ UNCHANGED solo

SoloNext ==
  \/ /\ SoloStep \/ \E r \in Requests, given \in Givens : StartSolo(r, given)
     /\ UNCHANGED <<vars, centerVars>>
  \/ (\E c \in Centers : RotateKey(c)) /\ UNCHANGED <<vars, coordVars, solo>>
  \/ EnvNext /\ UNCHANGED <<svcVars, centerVars, coordVars, solo>>

(* Every call of a run has a timeout, so a run ends or moves on; time      *)
(* passes.                                                                 *)
SoloFairness ==
  /\ WF_soloVars(SoloStep /\ UNCHANGED <<vars, centerVars>>)
  /\ WF_soloVars(Tick /\ UNCHANGED <<svcVars, centerVars, coordVars, solo>>)

KeepsTrying(r, given) ==
  SF_soloVars(StartSolo(r, given) /\ UNCHANGED <<vars, centerVars>>)
-----------------------------------------------------------------------------
(* The files hold what the run will use: enough keys of this lock, and     *)
(* those of the k lowest indices are the ones the lock was made for.  A    *)
(* stale key among them is not made up for by a good one at a higher index *)
(* (reconstruct.py:534).                                                   *)
Sufficient(r, given) ==
  /\ given # {} /\ given \subseteq Registered(r)
  /\ Cardinality(given) >= job[r].k
  /\ \A i \in Lowest(job[r].k, IndicesOf(r, given)) :
       ownKey[CenterAt(r, i).id] = SealedFor(r, i)

(* A run that has reached the gate, which may refuse it for days, has all  *)
(* it needs: on the manifest the service signed, its shares will not be    *)
(* what ends it, neither for their number nor for a repeated point nor at  *)
(* the outer tag, whichever keypair files it was given                     *)
(* (reconstruct.py:325, 363, 395).                                         *)
SharesSuffice ==
  coord.stage \in {"gate", "payload"} /\ coord.manifest = SignedManifest(coord.req) =>
    Combinable(coord.manifest, coord.shares) /\ Opens(coord.manifest, coord.shares)

(* A run ends that could have gone on: a fetch failed, or it was killed.   *)
CouldGoOn ==
  \/ solo.stage = "resolve" /\ Resolves
  \/ solo.stage = "manifest" /\ Enough
  \/ solo.stage = "shards" /\ \A i \in DOMAIN solo.asks : Fits(i)
  \/ /\ coord.stage = "gate" /\ ClockPassed(coord.manifest.round)
     /\ Combinable(coord.manifest, coord.shares)
  \/ coord.stage = "payload" /\ Opens(coord.manifest, coord.shares)
  \/ coord.stage \in {"puzzle", "solve"}

Mishap == CouldGoOn /\ solo' = NoSolo /\ coord' = NoRun /\ released' = released

(* Whoever keeps trying one set of files gets the paper out, whatever went *)
(* wrong before, once the nodes stay up, the files stay sufficient and     *)
(* mishaps cease - for a puzzle shorter than the clock's unit, since the   *)
(* clock is bounded.                                                       *)
RecoversLock ==
  \A r \in Requests, given \in Givens :
    /\ KeepsTrying(r, given)
    /\ <>[](up = Nodes /\ Sufficient(r, given) /\ job[r].lead = 0)
    /\ <>[][~Mishap]_soloVars
    => <>(\E p \in released : p.req = r)
==============================================================================
