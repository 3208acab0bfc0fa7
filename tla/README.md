# VAJRA in TLA+

A verification development for the VAJRA exam vault: TLA+ models of its control
logic, TLC configurations that check them on small instances, and TLAPS proofs
of what matters most for every instance. Paths are relative to the repository;
`python/x.py:n` is line n of that file.

## 1. The system

VAJRA seals an exam paper so that it can be opened only after its start time and
only with k of n exam centers. It is a FastAPI service, two command-line
programs, a Rust program they call, a set of Kubo (IPFS) nodes and the public
drand relays.

| Part | State it keeps | Operations | Talks to |
|---|---|---|---|
| Lock service (`main.py`) | `_registry`, loaded at startup; the requests in flight | `POST /api/v1/lock`; two read-only GETs; startup | pipeline, publisher |
| Pipeline (`lock_pipeline.py`) | a temporary directory per lock, with `secret.json` (p, q) | drand round, `vajra generate`, `vajra lock`, secure deletion, outer AES-GCM, Shamir split, encryption per center | Rust binary, `shamir.py`, `centers.py` |
| Publisher (`lock_publish.py`, `manifest.py`) | none | uploads puzzle, payload, n shards, then the signed manifest | IPFS client |
| IPFS client (`ipfs_client.py`) | none (the nodes keep what they pin) | `add_*` on a chosen node, `cat*` | Kubo over HTTP |
| drand client (`drand_client.py`) | none | round arithmetic, `fetch_round`, `verify_round_published` | relays over HTTP |
| Center (`vajra_center.py`) | its keypair file, the share files it writes | `decrypt_my_share` | IPFS client |
| Coordinator (`vajra_coordinator.py`, `reconstruct.py`) | none on disk | `coordinate`, `combine_shares_to_pdf` | IPFS, drand, `vajra solve` |
| Solo path (`reconstruct.py` run by itself) | none | `_resolve_center_keys`, `reconstruct_pdf`, then as the coordinator | IPFS, drand, `vajra solve` |
| Settings (`config.py`) | none (`.env` is the operator's) | read and checked once per process | imported by every program |
| Registry and keys (`centers.py`, `vajra_keygen.py`) | `centers.json`, keypair files | load, save, generate, bulk, extract-pubkey | read by service and centers |
| Shamir sharing (`shamir.py`) | none | `split`, `reconstruct` over GF(256) | called by pipeline and coordinator |
| Rust (`puzzle.rs`, `crypto.rs`, `main.rs`) | `puzzle.json`, `secret.json`, `locked.json` in the directory it is run in | generate, lock, solve, bench | called as a process |

A lock: the service checks the request, runs the pipeline in a worker thread,
uploads everything and answers 201 with the manifest's CID. A center is handed
that CID, fetches the manifest and its own shard, decrypts it and writes a share
file, which travels by any channel to the coordinator. The coordinator checks
the files against the manifest, passes the drand gate, combines the shares,
opens the outer layer and grinds through the puzzle.

What is hard here: locks run concurrently; the service can be killed at any
point of a lock while a child process lives on; an upload whose caller has
given up may still arrive; nodes come and go between any two fetches; keys are
rotated and registries edited under running processes; share files are not
protected on the way; the gate compares a local clock, then waits for relays
that answer one by one, some of them down or lying; and two kinds of exception
(`IPFSError`, `httpx.*`) take different ways out of the same loop.

What makes each part correct:

- publishing: a manifest never points at something that is not stored; nothing
  is published while the factorisation of the modulus can be read; the status
  the administrator gets is true; every request is answered;
- lock terms: n different centers, 2 <= k <= n, the first drand round not
  before the start;
- the gate: opens only on the network's value; not early; not blocked by the
  faults it is meant to tolerate;
- centers: a share comes to light only through its own center, with the
  registered key;
- coordinator: a paper comes out only from k different centers' shares of that
  lock, and not before its start;
- solo path: the same, and running it again after a failure leads to the paper;
- keys: the registry names only keys whose centers hold them; only `--force`
  costs anybody a key;
- settings: a service that comes up serves its own defaults, and a relay counts once;
- sharing: k shares give the secret, k - 1 nothing, an altered one is noticed;
- puzzle: the administrator's shortcut and the squaring agree; the squarings
  fill the lead;
- together: an abstract vault whose terms are fixed once, to which centers
  consent one at a time, and which opens when both conditions are met.

`PROJECT.json` lists every component and every hazard with the line where it bites.

## 2. Modules

    DrandRounds ── DrandGate ── MCDrandGate
         │
    Environment
         └──── LockService ── Center ── Coordinator ── VajraSystem ── MCVajraSystem
                    └ MCLockService        │               │             └ MCThreeCenters
                                           │               └ INSTANCE ExamVault    │
                                           └ SoloReconstruct ─────────── MCSoloReconstruct
    KeyCeremony ── Deployment ── MCDeployment   Shamir ── MCShamir   TimeLock ── MCTimeLock

| Module | Models | State | Actions |
|---|---|---|---|
| `DrandRounds` | `round_at_or_after`, `publish_time`; when the network really emits a round | - | - |
| `DrandGate` | `verify_round_published`, `fetch_round` | `gate`, `skew` (error of the clock read), `answer` per relay, `accepted`, `faults` | `Begin` (clock check, requests sent), `RelayAnswers`, `Decide` (the vote), `Retry`, `GateTick` |
| `Environment` | the nodes behind `ipfs_client.py`, time | `pinned` per node, `up`, `now` | `Tick`, `NodeStops`, `NodeStarts` |
| `LockService` | `main.py`, `lock_pipeline.py`, `lock_publish.py`, registry loading | `alive`, `onDisk`, `registry`; per request `pc`, `reply`, `job`, `secret`, `wire` | `Submit`, one action per blocking call of the pipeline, one per upload, `Arrive`, `Crash`, `Restart`, `EditRegistry` |
| `Center` | `vajra_center.py`, `fetch_and_decrypt_one_shard`, key rotation | `ownKey`, `run` per center, `files` | `StartDecrypt`, `FetchManifest`, `FetchShard` (one turn of the node loop), `RotateKey`, `Tamper` |
| `Coordinator` | `coordinate`, `combine_shares_to_pdf`, `manifest.verify` | `coord`, `released` | `StartCombine`, `ReadShares`, `PassGate`, `OpenPayload`, `FetchPuzzle`, `Solve`, `CoordCrash` |
| `SoloReconstruct` | `reconstruct.py` as a program | `solo`, and `coord` from the gate on | `StartSolo`, `ResolveKeys`, `VerifyManifest`, `FetchShards` (one turn of the node loop of one shard), `Combine`, `SoloKilled` |
| `VajraSystem` | service, centers, coordinator on one cluster | the union | the union |
| `ExamVault` | the promise | `terms`, `consent`, `out` | `Seal`, `Consent`, `Release`, `Pass` |
| `KeyCeremony` | `vajra_keygen.py`, the registry functions of `centers.py` | `keyfile` per center, `registry`, the run under way, the service's copy `loaded` and what it has `locked` with it | `GenerateOne`, `Bulk`, `WriteKeypair`, `SaveRegistry`, `Kill`, `Enroll`, `StartService`, `LockExam` |
| `Deployment` | `config.py`, the service started next to the tool | `KeyCeremony`'s and `settings` | `Start` (an environment is accepted or not, the registry loaded), `Request`, and the tool's |
| `Shamir` | `shamir.py` on real bytes | `secret`, `deal`, `given`, `result` | `Split`, `HandIn`, `Reconstruct` |
| `TimeLock` | the `vajra` tool: `puzzle.rs`, `main.rs`, `crypto.rs` on small numbers | the command under way, `puzzle`, `secret`, `locked`, `exam` | `Generate`, `WritePuzzle`, `WriteSecret`, `Lock`, `StartSolve`, `Squares`, `Solved`, `Kill` |
| `*_proofs` | theorems about the module of that name; those on `DrandRounds` are in `LockService_proofs`, on `KeyCeremony` in `Deployment_proofs`, on `Center`, `Coordinator` and `SoloReconstruct` in `VajraSystem_proofs`; `GF256_proofs` has the byte arithmetic of `Shamir` | | |
| `Arithmetic` | nothing of the code: induction, loops, remainders, powers and primes, for the proofs | - | - |

How the state reads in the code: `pc[r]` is the call `lock_exam` is waiting for;
`secret[r]` is what can be found on the server's disk (`plain`: readable,
`unlinked`: removed but not overwritten, `erased`: by `_secure_delete`);
`wire[r]` is the last upload sent, which the node stores in `Arrive` whenever it
gets there, so that an upload that "failed" with a 502 can still succeed;
`run[c]`, `coord` and `solo` are invocations of the three programs, with the node
their `_cat_any_node` loop asks next. `coord.setup` is the machine and the way the
coordinator is called: `--skip-drand-check`, the error of its clock, its speed.

Definitions whose comment begins with "Mutant" are wrong on purpose: each is a
plausible bug put in the place of the definition below it, which makes one
property fail. They are not part of the specifications.

### Abstractions

- An object is its CID: content addressing makes content and name the same
  thing. A manifest's content is `job[r]`, fixed before it is built. The
  coordinator and the solo path may also be given a copy of a manifest in which
  fields were replaced (`AlteredManifests`), with a valid HMAC iff whoever
  altered it holds the key (`HmacKeyOut`; services, centers and coordinators
  share one key). Its list of centers stays the lock's.
- AES-GCM, X25519 + ChaCha20-Poly1305, SHA-256 and HMAC are ideal: a ciphertext
  opens with its key and its AAD only. The system modules also take Shamir sharing and the
  puzzle as ideal - points give a lock's key iff all lie on its polynomials
  and there are k of them - which `Shamir` and `TimeLock` examine on real numbers.
  For one point off the polynomials that is exact (`AlteredShareShows`); several
  whose errors cancel are taken never to occur.
- `Shamir` shares one byte: the code treats the 32 bytes of a key alike. Shares
  come in by rising x, as an XOR has no order.
- `TimeLock` runs one command at a time in one directory and keeps in the files'
  records what the code does not write there (`time`, `sound`), for the
  properties only. `TrapdoorMatchesSolver` speaks of different primes: nothing
  in `generate` compares p with q, and equal ones would lock an exam for good.
- `KeyCeremony` runs the tool once at a time; a keypair is its run and its center,
  and `--out` names the center's own file, as bulk does.
- `n` and `k` are the values after the defaults are merged. `ge=60` on the form
  is `MinLead`. `MaxRound` is the largest round that fits the 8 bytes of
  `derive_aad`; a later one ends the lock with a 500. What the checks of
  `config.py` leave possible is what the `ASSUME`s on these constants allow, but
  for an empty list of nodes (section 3); `Deployment` has the checks themselves.
- In `Deployment` a URL list is a sequence of servers, each with or without a
  slash after it, blanks around the entry stripped (a blank between the server
  and the slash is left out); an HMAC key is good, short, repetitive or the placeholder.
- Public keys are compared as text and used as keys: `KeyOf` says which keypair
  a text spells. A registry file that is missing or malformed is the empty one. One
  the process may not read, or whose bytes are not text, raises an error `lifespan`
  does not catch: the service does not come up, and in the model is not restarted.
- Centers are handed the lock's own manifest, which passes `verify_manifest` and
  `validate_manifest_shape` (`vajra_center.py:98`); another could only end the run.
- A share file that is malformed, or given twice on the command line, only ends
  the run; in the model the run may end anyway.
- In `Coordinator` the gate is its outcome (`ClockPassed`, `RoundOut`), which is
  what `DrandGate` shows of it with fewer liars than the threshold.
- `Squared` takes T_ops = lead * rate; `TimeLock` has the saturation.
- A killed service leaves the `vajra generate` it started running (`Orphan`).
- Steps that only log, count or measure are left out.

## 3. Runs

| Run | Question | Distinct states |
|---|---|---|
| `lock_concurrent` | two locks at once, two nodes, crashes, late uploads: types, complete manifests, erased secrets, true answers, and an answer to every request | 87,184 |
| `lock_params` | all n, k and leads around their limits, four registry files, a round too large: the terms of a lock | 365,200 |
| `gate_faults` | four relays, any down and one lying, or all lying, clocks off either way: safe, and passable under the faults `config.py:122` promises to tolerate | 47,141 |
| `system_whole` | one lock from upload to release; a fast machine behind the gate, or an equal one with the gate skipped or fooled; an altered round: never early, and an implementation of `ExamVault` | 684,480 |
| `system_tamper` | two locks, altered share files, altered and re-signed manifests; or one lock of three centers and a manifest that asks for two: k centers really contributed; shares come only from their center | 1,231,825 |
| `solo` | `reconstruct.py` with a key too few, enough, or a stale one: never early; past the key files, shares do not fail it; whoever keeps trying gets through | 31,576 |
| `keys` | the key tool killed anywhere, next to a service started with one environment after another: keys, registry and settings fit together | 641,958 |
| `shamir` | real bytes, up to 255: the field laws for all bytes; any k shares give the secret, an altered one shows, k - 1 hide it | 74,428 |
| `timelock` | every pair of small primes, an overflowing counter, commands killed and repeated in one directory: shortcut and squaring agree, the lead is spent | 1,010,333 |

### Bounds, and why they are enough

- Requests: two where locks could disturb one another (`lock_concurrent`,
  `system_tamper`), one where only one is in question. `NodeCount` 2 puts shards
  apart from the manifest and gives the node loop a second turn.
- `MaxTime` lets the publish time pass before, between and after the steps it
  matters for; it is 0 where no property depends on time. `lock_params` has
  genesis 2, period 3 and leads 0, 1, 2, 5: targets before genesis, on a publish
  time and between two. Its `MaxRound` is 2, so that the longest leads overflow;
  elsewhere 9 is out of reach.
- `MaxTampered` 1 is one altered share file among genuine ones, `MaxReleases` 1
  stops at the first paper. In `system_whole` an altered manifest names an earlier
  round.
- `system_tamper` has two cases (`TamperInit`). Two locks of two centers, one of
  which changes its key back and forth: an altered manifest may name the other
  lock's objects, but no smaller k, as with two centers only 2 passes the shape
  check. And one lock with k 3 of 3, whose centers keep their keys: the altered
  manifest says 2, every count the coordinator makes is satisfied by two files, and
  what is left is the degree of the polynomials (`YieldsKeyOneLess`).
- `Setups`: in `system_whole` at least one of the two time locks is sound: a
  machine four times faster behind a gate whose clock is right or slow, and an
  equal machine with the gate skipped or a clock three units fast.
- The gate's four relays and threshold two are the code's defaults; two forged
  values let a vote split three ways; clocks are off by up to a period and a half.
- `solo`: three centers, k 2 and 3, one key that changes back and forth, and the
  sets of files that have one too few, the first two, the last two, all. Leads 0
  and 2: `GateHolds` needs 2; `RecoversLock` is asked of lead 0 only, since a
  clock that stops at `MaxTime` cannot promise a solver its time.
- `keys`: three centers, of which two could hold a share (as 999 and 255 in the
  code), three runs of the tool, so that an interrupted, a forced and a
  repairing one fit; environments at both sides of every check.
- `shamir`: secrets 0 and 83, coefficients 0, 202 and 255 (zero leading ones
  included), n at 1, 2, 3, 255 and 256, positions 1, 2, 3 and 255, up to four
  shares handed in. One byte at a time, as the code does. `FieldLaws` is checked
  for every byte: the initial state holds any of the 256.
- `timelock`: primes of four bits (11 and 13, equal or not), the primality test
  on all numbers of two to eleven bits with every witness, a counter of four bits
  that saturates, bases that share a factor with N and bases that do not.

`system_tamper` and `solo` start from locks already answered 201 (`AnsweredInit`).
These are states the service reaches (`lock_concurrent` and `system_whole` go
through them). `system_tamper` also leaves out the steps of nodes and service
(`SharesNext`): each fetch can fail with either error without them. `solo` leaves
out the service, which has no part in it. `system_whole` has no altered
share files, to stay small; the refinement is proved with them (section 4).
`CHECK_DEADLOCK FALSE` is set where
requests, time or releases are bounded and the instance may therefore stop;
`keys` never stops and is checked for deadlock. Symmetry over `Requests` is used
in `system_tamper` only, which checks no liveness.

### Disagreements between the code and what is said about it

Each of the first three is a run that TLC ends with a counterexample (details in
`PROJECT.json`):

- `gate_early`: the network emits round R at genesis + (R-1) * period, one period
  before `publish_time`, so the second check of the gate does not back up the
  first: with a fast clock the gate opens up to a period before the publish time.
  (The target round is chosen with the same formula, so an accurate clock is
  never early: `GateHolds`.)
- `system_failover`: `_cat_any_node` goes on only after an `IPFSError`; a node
  that is down raises an httpx error and ends the program.
- `lock_spelling`: public keys are compared as text, so one key in two spellings
  passes for two centers.

And one the model shows without a run of its own: `IPFS_API_URLS=/` passes
`at_least_one_node` and leaves `ipfs_node_list` empty, so every upload divides by
zero. In `Deployment` it is the environment that `Start` turns into settings
with no nodes; every other module assumes at least one.

### Fairness

- `FairSpec`: weak fairness on each request's handler. Every call it makes has a
  timeout (`VAJRA_TIMEOUT_SECS`, 30 s for shred, 120 s in httpx), so some outcome
  comes. `Submit`, `Arrive`, node steps, crashes and restarts are not fair.
- `FairGateSpec`: weak fairness on the gate's steps (each relay request has
  `drand_timeout_secs`; the operator of `FaultsTolerated` keeps trying) and on the
  passing of time. None is assumed of relays.
- `SoloFairness`: weak fairness on the steps of a run, whose fetches have
  timeouts, and on time. What the operator and the world contribute is not
  fairness of the program but a premise of `RecoversLock`: somebody keeps trying
  a set of files (`KeepsTrying`, strong fairness, since a run in progress keeps
  interrupting the chance to start one), the nodes are up and the files
  sufficient from some time on, and no run that could go on is cut short for
  ever (`Mishap`).

## 4. Proofs

`tlapm` checks all of these, for any number of requests, nodes, centers, relays,
registry files, environments, shares and any clock. Assumptions are the named
`ASSUME`s of the modules: a positive period, at least one node, a threshold
between 1 and the number of relays, `MIN_THRESHOLD >= 2`, the real beacon not
among the forged values, and the sets the constants are drawn from.

**`LockService_proofs`.** `RoundIsFirst`: the ceiling division gives the first
round published at or after the target, including at and before genesis.
`TypeCorrect`, `ManifestCompleteHolds`, `SecretErasedHolds`, `NoSecretLeft` and
`RepliesAgree` come from one invariant `IInv`. `ManifestComplete` alone is not
inductive: it constrains only what is stored, while an upload may arrive long
after its handler is gone. `IInv` therefore says, request by request, what is on
the wire and stored at each stage, that a manifest on the wire already has
everything it points at stored, that a published manifest was on the wire, and
that whatever is on the wire was sent after the secret was erased. Every step is
shown to serve one request only (`OnlyFor`), so the other requests keep their
part, and `Arrive` can then happen at any time, even across crashes. Type
correctness of the shard loop needs the same invariant. `OneShardHolds` and
`FirstRoundHolds` follow from a second invariant, `TermsInv`: the loaded registry
never repeats an entry, and the terms settled by `Submit` and `StartPipeline` do
not change once the pipeline runs.

**`DrandGate_proofs`.** `GateTypeCorrect`, `GenuineRoundHolds`, `ClockHolds`. The
inductive invariant says of every answer received while fetching that an
honest relay gave the beacon and only after it was emitted, and that the clock
check had passed. A winning group of `MinAgreement` relays has an honest
member when fewer than that lie: the counting step is a lemma on cardinalities.

**`VajraSystem_proofs`.** `KCentersAlwaysContribute`,
`OnlyTheirCenter`, `GateAlwaysHolds`, `PuzzleAlwaysHolds` and
`SystemTypeCorrect`, with altered share files and altered manifests, signed or
not. What a released paper implies is not inductive, because the shares, the
clock and the gate have been looked at several steps earlier. The invariant
`SystemInv` says what each stage of a run may rely on:

- of the service (`LockInv`): once something of a lock has been sent its terms
  never change, and a 201 is never taken back;
- of the centers (`CenterInv`): a genuine point among the share files belongs to a
  lock that was answered, is one of its n, and is still in the file its own center
  wrote, whatever copies were altered; a run that asks for a shard has found its
  center in the manifest;
- of the coordinator (`CoordInv`): past the gate, the x-coordinates differ and its
  clock had reached the publish time, unless the gate was skipped (as time only
  grows, it still has); with the
  payload open, the shares yield the payload's own key, and the round is the
  payload's; in the solver, that it began after the puzzle was made. A paper
  keeps the shares it came out with, which are all files (`FromFiles`).

`SystemImplementsExamVault` maps every step of the system to a step of
`ExamVault` or a stutter: `Seal` when the manifest reaches its node, `Consent`
when a genuine share file appears, `Release` when a paper comes out. The two time
locks back each other up, so the theorem has the hypothesis
that on each setup one of them is sound: the gate is in force with a clock that
is not fast, or the machine is no faster than the administrator's. Without it a
fast machine with the gate skipped opens early.
`ServiceUndisturbed` shows that the service inside the system takes only steps of
its own specification, so that all that is proved of it alone holds there.

**The solo path**, at the end of `VajraSystem_proofs`. `SoloGateHolds`,
`SoloPuzzleHolds` and `SoloSharesSuffice`, for the solo path next to a running
service and running centers. Until it has its shares, `SoloRunInv` says that the
lock was answered, the manifest is that lock's or an altered one, every index it
has a key for is one of the lock's, and it asks for the k lowest of at least k; from
the gate on the program is in the coordinator's stages, and `CoordInv` says the
rest. That the k lowest of at least k indices are k (`LowestCount`) is shown by
induction on k: the least index left out has exactly the others below it.

**`Deployment_proofs`.** Of the key ceremony: `RegistryIsBackedHolds`,
`LocksAreBackedHolds`, `BulkRepairsHolds`, `OnlyForceHolds` from `KInv`. None of
the first three is inductive: they speak of the registry, or of locks made to the
service's copy of it, while a bulk under way has yet to write it. `CopiesHold`
says of that copy what `RegistryIsBacked` says of the file. `BulkKept` says that the keypairs written so far by this bulk are its own, so
that the registry it writes last finds all of them; `Unforced` says that nothing
is there yet of what a run without `--force` still has to write, so that it
overwrites no registered key. `ImplementsCeremony` maps every step of the
deployed service to a step of the ceremony or a stutter, so that these theorems
hold with the service running (`DeployedKeysAreSafe`).
`RequestsCanBeServedHolds` rests on `SettingsCheckedHolds`: whatever runs, runs
on settings that passed the checks. `AgreementOfServersHolds` is about the loop
that parses the relay list: it never keeps a server twice, by induction over its
turns.

**`TimeLock_proofs`.** `LeadAlwaysSpent`, `GenerateAlwaysRepairs`, from `ToolInv`:
the two files a generate still has to write belong together, and until it has
written both nobody calls the directory whole; a solver keeps the puzzle it
started with, though the file may since have been replaced, and an exam shows the
squarings of its own puzzle.

`TrapdoorAlwaysMatches`: for all different odd primes of one size, any base and any number of
squarings, what `lock_exam` computes with the factorisation is what the solver
reaches without it. `ToolInv` says of a locked exam that its value is
g^(2^t mod phi) mod N, and of a solver that it holds g^(2^i) mod N after i
squarings. The loop of `mod_pow`, which halves the exponent, gives the power
(`ModPowIsPower`); modulo p, exponents count only modulo p - 1 (`ExponentReduced`,
from `Fermat`, with the bases p divides, for which an exponent of 0 would be
wrong); and what agrees modulo p and modulo q agrees modulo N (`SameModuloBoth`).
The exponent never becomes 0, since phi divides no power of two: of two different
primes with equally many bits, the larger less 1 lies strictly between two
powers of two, and would have to be one (`PhiDividesNoPow2`).

`PrimesAlwaysPass`: no witness makes `is_probably_prime` reject a prime, since
the square roots of 1 modulo a prime are 1 and -1 (`RootsOfOne`).

**`Arithmetic`.** Modules of proofs share what the library lacks. `LeastOf` and
`InductionOnSet`: a non-empty set of naturals has a least element, and one that
holds 0 and every successor holds all - from the library's theorem that < is
well-founded, for a set in place of the predicate that its induction theorems
take. `LoopRuns`: a loop written as a recursive function has the values its turns
say, and two loops with the same turns agree. On these rest sums and products,
powers, Euclid's lemma, the Chinese remainder of two primes, and Fermat's theorem
by the product of all multiples of a base.

**`GF256_proofs`.** `BytesAreField`: exclusive or and `_gf_mul` make the bytes a
field, and the loop that computes a^254 gives the inverse. Nothing is decided by
trying bytes. Bytes are first written as eight binary digits, on which
`BitwiseXor` and `Shift` act digit by digit. Both, and therefore every turn of the
peasant multiplication, are linear over exclusive or, so the product is. Every
byte comes of 1 by `Shift` and exclusive or (`ByteGenerated`), and a law that is
carried over both holds of all bytes: first that the two factors may be
exchanged, then that three may be regrouped. For the inverse: squaring is linear
too, the eighth square of 2 is 2 again (`SquaresOfTwo`), hence that of every byte is itself,
a^256 = a (`EighthIsSame`), and b = a^255 satisfies b * b = b, which,
digit by digit, only 0 and 1 do (`SquareFixes`).

**`Shamir_proofs`.** `GenuineSharesSufficeHolds`, `AlteredShareShowsHolds`,
`HiddenHolds` and `FieldLawsHold`: for every n, k and polynomial and any shares
handed in, from the field alone. The code computes with loops (Horner's scheme, the two products
of a Lagrange factor, the sum), which the model writes as recursive functions;
they are shown equal to sums and products over sets of indices, which can be
split and regrouped. The interpolation itself is not shown with polynomials but
by Neville's scheme: the factors of any points sum to 1 (`ConstantOne`, by
leaving out one or the other of two points), multiplying all values by their x
and leaving one point out cancel at 0 (`Raised`), and so each turn of Horner's
scheme leaves only the coefficient it added (`LevelAtZero`): after the last, the
secret. A single share enters with a factor that is not 0, which gives
the other two theorems.

Before they were proved, TLC found no violation of `IInv` and `TermsInv` on the
instances of `lock_concurrent` and `lock_params`; of `SystemInv` on those of
`system_whole` (684,480 states) and `system_tamper` (1,231,825), and on
`system_whole` with an altered share file, together with the refinement (428,850);
of `SoloInv` on `solo` with ungated setups and altered manifests (9,264); of
`ToolInv` on `timelock` (1,010,333); and of `ShamirInv` on `shamir` (74,428).

Only model-checked, because it is out of this prover's reach:

- liveness under fairness: `HandlersFinish`, `FaultsTolerated`, `RecoversLock`;
- `CompositesShow` of `TimeLock`: that at most a quarter of the witnesses miss an odd
  composite is Rabin's theorem, whose proof counts subgroups of the units modulo
  n; the run decides it for every number below its bound.

## 5. Not modelled

- The experiments, their data and plots: clients of the parts above, which keep
  no state of the system. They are over a third of the Python code.
- `steg.py`, which no other part calls; the two GET endpoints and
  `health_check_all`, which change nothing; argument parsing, logging, timings.
- Tests, build files and CI, except as a source of claims.
- The ciphers, HMAC and SHA-256, which are taken as ideal.
- `Settings` of the center, coordinator and solo programs: they read the same
  environment once, as the service does; the models take its values as constants.

## 6. Plan

Done: all modules of section 2, and a theorem for every safety and action
property but `CompositesShow`. What would come next: programs with different
settings, such as a coordinator whose genesis, period, relays or HMAC key are not
the service's.
