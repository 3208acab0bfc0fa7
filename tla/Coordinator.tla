----------------------------- MODULE Coordinator -----------------------------
(***************************************************************************)
(* The coordinator: python/vajra_coordinator.py (coordinate) and           *)
(* combine_shares_to_pdf of python/reconstruct.py.  One run takes a lock's *)
(* manifest CID and some share files, checks them, passes the drand gate,  *)
(* combines the shares, opens the payload and grinds through the puzzle.   *)
(* It keeps nothing on disk: a run that fails or is killed starts over.    *)
(* DrandGate.tla has the gate in detail; here it is its outcome, with      *)
(* fewer lying relays than the agreement threshold.                        *)
(***************************************************************************)
EXTENDS Center

CONSTANTS
  AdminRate,    \* squarings per unit of time `vajra generate` measured
  Setups,       \* the machines a coordinator may run on, and how it calls it
  ForgedNs, ForgedKs, ForgedRounds,  \* n, k and round in an altered manifest
  HmacKeyOut,   \* does whoever alters a manifest hold the HMAC key?
  MaxReleases   \* bound on the papers written out

(* skip: --skip-drand-check is given; skew: how far the machine's clock is *)
(* off; rate: the squarings it makes per unit of time.                     *)
ASSUME CoordinatorAssumption ==
  /\ AdminRate \in Nat \ {0} /\ MaxReleases \in Nat
  /\ ForgedNs \subseteq Nat /\ ForgedKs \subseteq Nat /\ ForgedRounds \subseteq Nat
  /\ HmacKeyOut \in BOOLEAN
  /\ Setups \subseteq [skip : BOOLEAN, skew : Int, rate : Nat \ {0}]

VARIABLES
  coord,    \* the invocation of vajra_coordinator
  released  \* the papers written out, and when

coordVars == <<coord, released>>

(* since: when `vajra solve` was started.                                  *)
NoRun == [stage |-> "idle"]
CoordStages == {"manifest", "gate", "payload", "puzzle", "solve"}

(* A manifest as the coordinator reads it: what build_and_sign put there,  *)
(* or, under a CID of its own, a copy in which anything was replaced.  The *)
(* HMAC is valid if its maker holds the key.  round stands for both fields *)
(* the AAD is derived from.  The list of centers stays the lock's.         *)
SignedManifest(r) ==
  [n |-> job[r].n, k |-> job[r].k, round |-> job[r].round,
   payload |-> r, puzzle |-> r, signed |-> TRUE]

AlteredManifests ==
  [n : ForgedNs, k : ForgedKs, round : ForgedRounds,
   payload : Requests, puzzle : Requests, signed : {FALSE, HmacKeyOut}]

Manifests(r) == {SignedManifest(r)} \cup AlteredManifests

(* verify of manifest.py: the HMAC covers every field.                     *)
Verified(m) == m.signed

(* validate_manifest_shape                                                 *)
ValidShape(r, m) ==
  /\ m.n >= 2 /\ m.k \in 2 .. m.n
  /\ Len(job[r].centers) = m.n

Trusted(r, m) == Verified(m) /\ ValidShape(r, m)

CoordTypeOK ==
  /\ \/ coord = NoRun
     \/ /\ coord.stage \in CoordStages /\ coord.req \in Requests
        /\ coord.shares \subseteq files
        /\ coord.setup \in Setups
        /\ coord.manifest \in Manifests(coord.req)
        /\ coord.node \in Nodes /\ coord.since \in Nat
  /\ \A p \in released : p.req \in Requests /\ p.at \in Nat /\ p.setup \in Setups

CoordInit == coord = NoRun /\ released = {}

Proceed(stage, node) ==
  /\ coord' = [coord EXCEPT !.stage = stage, !.node = node]
  /\ UNCHANGED released

(* An error or an interruption ends the program with nothing written.      *)
Fails == coord' = NoRun /\ UNCHANGED released

StartCombine ==
  /\ coord = NoRun /\ Cardinality(released) < MaxReleases
  /\ \E r \in Requests, setup \in Setups, shares \in SUBSET files \ {{}} :
       /\ reply[r] = 201
       /\ coord' = [stage |-> "manifest", req |-> r, shares |-> shares,
                    manifest |-> SignedManifest(r), setup |-> setup,
                    node |-> 0, since |-> 0]
  /\ UNCHANGED released

(* coordinate: every file is for this manifest (who alters one relabels    *)
(* the files for it); at least k; each at an index of its own that exists  *)
(* and whose registered id it states.                                      *)
SameManifest(r, shares) == \A f \in shares : f.req = r
Plausible(r, f) == f.idx \in Indices(r) /\ f.id = CenterAt(r, f.idx).id
OnePerIndex(shares) == \A f, g \in shares : f.idx = g.idx => f = g

Accepts(r, m, shares) ==
  /\ SameManifest(r, shares)
  /\ Cardinality(shares) >= m.k
  /\ OnePerIndex(shares)
  /\ \A f \in shares : Plausible(r, f)

(* Fetching may fail at any time.                                          *)
ReadShares ==
  /\ coord.stage = "manifest"
  /\ \/ /\ "ok" \in CatOutcomes(0, Manifest(coord.req))
        /\ \E m \in Manifests(coord.req) :
             /\ Trusted(coord.req, m) /\ Accepts(coord.req, m, coord.shares)
             /\ coord' = [coord EXCEPT !.stage = "gate", !.manifest = m]
             /\ UNCHANGED released
     \/ Fails

(* Mutant: the moment the network emits the round, a period earlier.       *)
ClockPassedAtBeacon(round) == now + coord.setup.skew >= BeaconTime(round)

(* verify_round_published, unless it is skipped; then the shares and their *)
(* Shamir combination.  Fetching may fail at any time.                     *)
ClockPassed(round) == now + coord.setup.skew >= PublishTime(round)
RoundOut(round) == now >= BeaconTime(round)

(* Mutant: nobody compares the x-coordinates.                              *)
AnyX(shares) == \A f \in shares : f.x > 0

DistinctX(shares) ==
  \A f, g \in shares : f.x > 0 /\ (f # g => f.x # g.x)

(* combine_shares_to_pdf counts the shares and compares their points.      *)
Combinable(m, shares) == Cardinality(shares) >= m.k /\ DistinctX(shares)

PassGate ==
  /\ coord.stage = "gate"
  /\ \/ /\ \/ coord.setup.skip
           \/ ClockPassed(coord.manifest.round) /\ RoundOut(coord.manifest.round)
        /\ IF Combinable(coord.manifest, coord.shares) THEN Proceed("payload", 0) ELSE Fails
     \/ ~coord.setup.skip /\ Fails

(* Mutant: the polynomials have one coefficient too few.                   *)
YieldsKeyOneLess(r, shares) ==
  /\ Cardinality(shares) >= job[r].k - 1
  /\ \A f \in shares : f.poly = r

(* The points give the data key of a lock iff all are on its polynomials   *)
(* and there are at least k; one point off changes the result, as no       *)
(* Lagrange coefficient at 0 is zero (Shamir.tla has the arithmetic).      *)
YieldsKey(r, shares) ==
  /\ Cardinality(shares) >= job[r].k
  /\ \A f \in shares : f.poly = r

(* Mutant: one node too many.                                              *)
NextNodePastEnd(stage) ==
  IF coord.node < NodeCount THEN Proceed(stage, coord.node + 1) ELSE Fails

(* The _cat_any_node loop, as in Center.                                   *)
NextNode(stage) ==
  LET next == coord.node + 1 IN
    IF next < NodeCount THEN Proceed(stage, next) ELSE Fails

FetchFrom(obj, onContent) ==
  LET Gets(outcome) == outcome \in CatOutcomes(coord.node, obj) IN
    \/ Gets("ok") /\ onContent
    \/ Gets("IPFSError") /\ NextNode(coord.stage)
    \/ Gets("httpx") /\ Fails

(* Mutant: the round is not bound to the payload.                          *)
OpensForAnyRound(m, shares) == YieldsKey(m.payload, shares)

(* The outer AES-GCM tag: the data key of that very payload, and the AAD   *)
(* of the round it was locked for.                                         *)
Opens(m, shares) ==
  /\ YieldsKey(m.payload, shares)
  /\ m.round = job[m.payload].round

OpenPayload ==
  /\ coord.stage = "payload"
  /\ FetchFrom(Payload(coord.manifest.payload),
       IF Opens(coord.manifest, coord.shares) THEN Proceed("puzzle", 0) ELSE Fails)

FetchPuzzle ==
  /\ coord.stage = "puzzle"
  /\ FetchFrom(Puzzle(coord.manifest.puzzle),
       /\ coord' = [coord EXCEPT !.stage = "solve", !.since = now]
       /\ UNCHANGED released)

(* Mutant: T_ops without the lead.                                         *)
SquaredOneSecond(r) == (now - coord.since) * coord.setup.rate >= AdminRate

(* T_ops = lead * AdminRate squarings, one after the other.                *)
Squared(r) == (now - coord.since) * coord.setup.rate >= job[r].lead * AdminRate

(* The inner AES-GCM tag: the key this puzzle gives is the one the payload *)
(* was sealed with.                                                        *)
InnerOpens(m) == m.puzzle = m.payload

(* `vajra solve` has ground through to a key, and the key opens the paper. *)
SolverFinds(m) == Squared(m.puzzle) /\ InnerOpens(m)

(* The paper, if it came out, is written; anything else ends the run.      *)
Solve ==
  /\ coord.stage = "solve"
  /\ LET m == coord.manifest IN
       \/ /\ SolverFinds(m)
          /\ released' = released \cup
               {[req |-> m.payload, at |-> now, from |-> coord.shares, setup |-> coord.setup]}
          /\ coord' = NoRun
       \/ Fails

CoordCrash == coord # NoRun /\ Fails

CoordStep ==
  \/ StartCombine \/ ReadShares \/ PassGate \/ OpenPayload \/ FetchPuzzle
  \/ Solve \/ CoordCrash

CoordNext == CoordStep /\ UNCHANGED <<vars, centerVars>>
-----------------------------------------------------------------------------
(* The paper comes out only with the cooperation of k different centers,   *)
(* each of which decrypted its own shard of this very lock; no relabelled, *)
(* repeated, foreign or altered share file counts as one.                  *)
KCentersContributed ==
  \A p \in released :
    /\ p.from \subseteq {f \in files : f.poly = p.req}
    /\ Cardinality({f.x : f \in p.from}) >= job[p.req].k

(* With the gate in force and a clock that is not fast, no hardware brings *)
(* the paper out before the exam starts (docs/ARCHITECTURE.md:300).        *)
Gated(setup) == ~setup.skip /\ setup.skew <= 0

GateHolds ==
  \A p \in released : Gated(p.setup) => p.at >= job[p.req].at + job[p.req].lead

(* With the gate skipped or fooled by its clock, the puzzle alone holds    *)
(* the paper back on hardware no faster than the administrator's.          *)
PuzzleHolds ==
  \A p \in released :
    p.setup.rate <= AdminRate => p.at >= job[p.req].at + job[p.req].lead
==============================================================================
