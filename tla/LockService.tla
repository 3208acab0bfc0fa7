----------------------------- MODULE LockService -----------------------------
(***************************************************************************)
(* The Source Vault: python/main.py (POST /api/v1/lock and the lifespan),  *)
(* python/lock_pipeline.py and python/lock_publish.py.  Any number of lock *)
(* requests run at once.  Each goes through the Rust pipeline in a worker  *)
(* thread, then uploads its objects one by one, the signed manifest last.  *)
(* A step of a request is one blocking call or the answer to one upload:   *)
(* between two of them other requests run, nodes come and go, an upload    *)
(* arrives or not, and the process may be killed.                          *)
(***************************************************************************)
EXTENDS Environment, DrandRounds

CONSTANTS
  Centers,        \* center ids
  Keys,           \* X25519 keypairs
  Hexes,          \* public keys as text; bytes.fromhex takes either case
  KeyOf,          \* KeyOf[h]: the keypair whose public key h spells
  RegistryFiles,  \* what centers.json may contain over time
  MaxShards, MinThreshold,   \* settings.max_shards, settings.min_threshold
  MinLead,        \* the form's ge=60 on exam_start_seconds
  MaxRound,       \* the largest round derive_aad can put in 8 bytes
  Ns, Ks, Leads   \* n, k and exam_start_seconds of the requests considered

ASSUME ServiceAssumption ==
  /\ KeyOf \in [Hexes -> Keys]
  /\ RegistryFiles \subseteq Seq([id : Centers, pubkey : Hexes])
  /\ MaxShards \in Nat /\ MinThreshold \in Nat \ {0, 1}
  /\ MinLead \in Nat /\ MaxRound \in Nat
  /\ Ns \subseteq Nat /\ Ks \subseteq Nat /\ Leads \subseteq Nat

VARIABLES
  alive,     \* the service process is up
  onDisk,    \* content of the registry file
  registry,  \* _registry, as loaded when the process started
  pc,        \* pc[r]: where the handler of request r stands
  reply,     \* reply[r]: the HTTP status sent, 0 before
  job,       \* job[r]: parameters, drand round and centers; the manifest
  secret,    \* secret[r]: what became of secret.json (p and q)
  wire       \* wire[r]: the upload of r sent last

svcVars == <<alive, onDisk, registry, pc, reply, job, secret, wire>>
vars == <<envVars, svcVars>>

Entry == [id : Centers, pubkey : Hexes]
Jobs == [n : Nat, k : Nat, lead : Nat, at : Nat, round : Int, centers : Seq(Entry)]
NoJob == [n |-> 0, k |-> 0, lead |-> 0, at |-> 0, round |-> 0, centers |-> <<>>]

(* "idle" before the request, "ended" once answered, "dropped" if the      *)
(* process died under it.                                                  *)
InPipeline == {"start", "generate", "lock", "shred", "split"}
Uploading == {"puzzle", "payload", "shards", "manifest"}
Running == InPipeline \cup Uploading
Stages == Running \cup {"idle", "ended", "dropped"}

(* 0: no answer yet.                                                       *)
RefusedFile == {400, 413, 415}   \* empty, too large, not a PDF
Statuses == {0, 201, 422, 500, 502} \cup RefusedFile

NoUpload == [kind |-> "none"]

SecretStates == {"none", "plain", "unlinked", "erased"}

TypeOK ==
  /\ EnvTypeOK
  /\ alive \in BOOLEAN
  /\ onDisk \in Seq(Entry) /\ registry \in Seq(Entry)
  /\ pc \in [Requests -> Stages]
  /\ reply \in [Requests -> Statuses]
  /\ job \in [Requests -> Jobs]
  /\ secret \in [Requests -> SecretStates]
  /\ wire \in [Requests -> Objects \cup {NoUpload}]

(***************************************************************************)
(* Startup.  centers.load_registry refuses a file that is missing, empty,  *)
(* or repeats an id or a public key, comparing the text of each; the       *)
(* lifespan then starts with no centers.                                   *)
(***************************************************************************)
Distinct(entries) ==
  \A i, j \in DOMAIN entries :
    i # j => entries[i].id # entries[j].id /\ entries[i].pubkey # entries[j].pubkey

(* Mutant: duplicate ids and keys get past the loader.                     *)
LoadAnything(file) == file

LoadRegistry(file) == IF Distinct(file) THEN file ELSE <<>>

Init ==
  /\ EnvInit
  /\ alive = TRUE
  /\ onDisk \in RegistryFiles
  /\ registry = LoadRegistry(onDisk)
  /\ pc = [r \in Requests |-> "idle"]
  /\ reply = [r \in Requests |-> 0]
  /\ job = [r \in Requests |-> NoJob]
  /\ secret = [r \in Requests |-> "none"]
  /\ wire = [r \in Requests |-> NoUpload]

(* The handler of r moves on, or answers.                                  *)
Goto(r, stage) == pc' = [pc EXCEPT ![r] = stage] /\ UNCHANGED reply

Answer(r, status) ==
  /\ pc' = [pc EXCEPT ![r] = "ended"]
  /\ reply' = [reply EXCEPT ![r] = status]

At(r, stage) == alive /\ pc[r] = stage

(***************************************************************************)
(* lock_exam up to the worker thread: _resolve_shamir_params, then the     *)
(* upload checks.  n and k are the values after the defaults are merged.   *)
(***************************************************************************)
ValidParams(n, k, lead) ==
  /\ lead >= MinLead
  /\ n \in 2 .. MaxShards
  /\ k >= MinThreshold /\ k <= n
  /\ registry # <<>> /\ n <= Len(registry)

Submit(r) ==
  /\ At(r, "idle")
  /\ \E n \in Ns, k \in Ks, lead \in Leads :
       \/ /\ ~ValidParams(n, k, lead)
          /\ Answer(r, 422)
          /\ UNCHANGED job
       \/ /\ ValidParams(n, k, lead)
          /\ \E status \in RefusedFile : Answer(r, status)
          /\ UNCHANGED job
       \/ /\ ValidParams(n, k, lead)
          /\ Goto(r, "start")
          /\ job' = [job EXCEPT ![r] =
               [n |-> n, k |-> k, lead |-> lead, at |-> 0, round |-> 0,
                centers |-> SubSeq(registry, 1, n)]]
  /\ UNCHANGED <<envVars, alive, onDisk, registry, secret, wire>>

(***************************************************************************)
(* run_vajra_pipeline.  The clock is read when the worker thread gets to   *)
(* run, not when the request came in.  The lead has no upper limit: a      *)
(* round too large for derive_aad raises OverflowError, which nobody       *)
(* catches.                                                                *)
(***************************************************************************)
StartPipeline(r) ==
  /\ At(r, "start")
  /\ LET round == RoundAtOrAfter(now + job[r].lead) IN
       \/ /\ round <= MaxRound
          /\ job' = [job EXCEPT ![r].at = now, ![r].round = round]
          /\ Goto(r, "generate")
       \/ /\ round > MaxRound
          /\ Answer(r, 500) /\ UNCHANGED job
  /\ UNCHANGED <<envVars, alive, onDisk, registry, secret, wire>>

(* Leaving the TemporaryDirectory, normally or by an exception, unlinks    *)
(* whatever is still in it.                                                *)
WipeTmp(r) ==
  secret' = [secret EXCEPT ![r] = IF @ = "plain" THEN "unlinked" ELSE @]

(* Mutant: the temporary directory outlives a failed pipeline.             *)
FailsUnwiped(r) == Answer(r, 500) /\ UNCHANGED secret

PipelineFails(r) == WipeTmp(r) /\ Answer(r, 500)

(* `vajra generate` writes secret.json some time before it exits; it is a  *)
(* process of its own and outlives a service that is killed.               *)
Orphan(r) == pc[r] = "dropped" /\ job[r].round # 0

WriteSecret(r) ==
  /\ At(r, "generate") \/ Orphan(r)
  /\ secret[r] = "none"
  /\ secret' = [secret EXCEPT ![r] = "plain"]
  /\ UNCHANGED <<envVars, alive, onDisk, registry, pc, reply, job, wire>>

(* Exit 0, or _run's PipelineError: no binary, timeout, non-zero exit.     *)
Generate(r) ==
  /\ At(r, "generate")
  /\ \/ secret[r] = "plain" /\ Goto(r, "lock") /\ UNCHANGED secret
     \/ PipelineFails(r)
  /\ UNCHANGED <<envVars, alive, onDisk, registry, job, wire>>

Lock(r) ==
  /\ At(r, "lock")
  /\ \/ Goto(r, "shred") /\ UNCHANGED secret
     \/ PipelineFails(r)
  /\ UNCHANGED <<envVars, alive, onDisk, registry, job, wire>>

(* Mutant: a failed erasure is ignored.                                    *)
SecureDeleteFailsOpen(r) ==
  /\ At(r, "shred")
  /\ \/ secret' = [secret EXCEPT ![r] = "erased"]
     \/ UNCHANGED secret
  /\ Goto(r, "split")
  /\ UNCHANGED <<envVars, alive, onDisk, registry, job, wire>>

(* _secure_delete: shred, or the manual passes when shred is missing or    *)
(* exits non-zero.  A shred that hangs for 30 s raises TimeoutExpired,     *)
(* which nothing up to the handler catches.                                *)
SecureDelete(r) ==
  /\ At(r, "shred")
  /\ \/ secret' = [secret EXCEPT ![r] = "erased"] /\ Goto(r, "split")
     \/ PipelineFails(r)
  /\ UNCHANGED <<envVars, alive, onDisk, registry, job, wire>>

(* An upload is on its way from the moment the handler awaits it.          *)
Post(r, obj) == wire' = [wire EXCEPT ![r] = obj]

(* Steps 4 to 6 and the end of the with block: outer AES-GCM, Shamir       *)
(* split, one encryption per center.  A key the exchange refuses raises.   *)
SplitAndEncrypt(r) ==
  /\ At(r, "split")
  /\ \/ WipeTmp(r) /\ Goto(r, "puzzle") /\ Post(r, Puzzle(r))
     \/ PipelineFails(r) /\ UNCHANGED wire
  /\ UNCHANGED <<envVars, alive, onDisk, registry, job>>

(***************************************************************************)
(* publish_locked_exam.  A non-2xx answer and an httpx error become a      *)
(* PublishError and then a 502.  A 2xx answer without a Hash raises        *)
(* something nobody catches, and FastAPI says 500.  Nothing that was       *)
(* uploaded is taken back.                                                 *)
(***************************************************************************)
(* Mutants: Kubo's own status is passed on; the upload is awaited for as   *)
(* long as it takes.                                                       *)
UploadErrorPassedOn(r) == Answer(r, 503) /\ UNCHANGED wire
UploadAwaited(r) == HomeOf(wire[r]) \in up /\ Answer(r, 502) /\ UNCHANGED wire

UploadFails(r) ==
  /\ \/ Answer(r, 502)
     \/ HomeOf(wire[r]) \in up /\ Answer(r, 500)
  /\ UNCHANGED wire

UploadPuzzle(r) ==
  /\ At(r, "puzzle")
  /\ \/ Stored(wire[r]) /\ Goto(r, "payload") /\ Post(r, Payload(r))
     \/ UploadFails(r)
  /\ UNCHANGED <<envVars, alive, onDisk, registry, job, secret>>

UploadPayload(r) ==
  /\ At(r, "payload")
  /\ \/ Stored(wire[r]) /\ Goto(r, "shards") /\ Post(r, Shard(r, 0))
     \/ UploadFails(r)
  /\ UNCHANGED <<envVars, alive, onDisk, registry, job, secret>>

(* Mutant: a shard that fails to upload is skipped.                        *)
UploadShardSkipping(r) ==
  /\ At(r, "shards")
  /\ LET next == wire[r].idx + 1 IN
       IF next < job[r].n
       THEN Goto(r, "shards") /\ Post(r, Shard(r, next))
       ELSE Goto(r, "manifest") /\ Post(r, Manifest(r))
  /\ UNCHANGED <<envVars, alive, onDisk, registry, job, secret>>

(* One turn of the shard loop; after the last one, build_and_sign.         *)
UploadShard(r) ==
  /\ At(r, "shards")
  /\ \/ /\ Stored(wire[r])
        /\ LET next == wire[r].idx + 1 IN
             IF next < job[r].n
             THEN Goto(r, "shards") /\ Post(r, Shard(r, next))
             ELSE Goto(r, "manifest") /\ Post(r, Manifest(r))
     \/ UploadFails(r)
  /\ UNCHANGED <<envVars, alive, onDisk, registry, job, secret>>

(* Mutant: the manifest is not waited for.                                 *)
UploadManifestUnawaited(r) ==
  /\ At(r, "manifest")
  /\ Answer(r, 201)
  /\ UNCHANGED <<envVars, alive, onDisk, registry, job, secret, wire>>

UploadManifest(r) ==
  /\ At(r, "manifest")
  /\ \/ Stored(wire[r]) /\ Answer(r, 201) /\ UNCHANGED wire
     \/ UploadFails(r)
  /\ UNCHANGED <<envVars, alive, onDisk, registry, job, secret>>

(* External: what was sent reaches its node - in time, after the caller    *)
(* has timed out, or after the service has died.                           *)
Arrive(r) ==
  /\ wire[r] # NoUpload
  /\ Store(wire[r])
  /\ UNCHANGED <<now, up, svcVars>>

(***************************************************************************)
(* The process dies without unwinding (kill, power), losing every handler  *)
(* in flight and leaving its temporary directories as they are; it starts  *)
(* again and reads the registry file afresh.  The administrator edits that *)
(* file at any time.                                                       *)
(***************************************************************************)
Crash ==
  /\ alive
  /\ alive' = FALSE
  /\ pc' = [r \in Requests |-> IF pc[r] \in Running THEN "dropped" ELSE pc[r]]
  /\ UNCHANGED <<envVars, onDisk, registry, reply, job, secret, wire>>

Restart ==
  /\ ~alive
  /\ alive' = TRUE
  /\ registry' = LoadRegistry(onDisk)
  /\ UNCHANGED <<envVars, onDisk, pc, reply, job, secret, wire>>

EditRegistry ==
  /\ onDisk' \in RegistryFiles
  /\ UNCHANGED <<envVars, alive, registry, pc, reply, job, secret, wire>>

Handler(r) ==
  \/ StartPipeline(r) \/ WriteSecret(r) \/ Generate(r) \/ Lock(r)
  \/ SecureDelete(r) \/ SplitAndEncrypt(r)
  \/ UploadPuzzle(r) \/ UploadPayload(r) \/ UploadShard(r) \/ UploadManifest(r)

Environs == EnvNext /\ UNCHANGED svcVars

Next ==
  \/ \E r \in Requests : Submit(r) \/ Handler(r) \/ Arrive(r)
  \/ Crash \/ Restart \/ EditRegistry
  \/ Environs

Spec == Init /\ [][Next]_vars

(* Every call a handler makes has a timeout (VAJRA_TIMEOUT_SECS, shred's   *)
(* 30 s, httpx's 120 s), so a handler that has begun keeps moving.         *)
FairSpec == Spec /\ \A r \in Requests : WF_vars(Handler(r))
-----------------------------------------------------------------------------
(* What a manifest points at is stored where publish_locked_exam put it.   *)
PlacedCompletely(r) ==
  /\ Stored(Puzzle(r)) /\ Stored(Payload(r))
  /\ \A i \in 0 .. job[r].n - 1 : Stored(Shard(r, i))

Published(r) == \E i \in Nodes : Manifest(r) \in pinned[i]
Traces(r) == {obj \in UNION {pinned[i] : i \in Nodes} : obj.req = r}

(* Whatever was lost, refused or interrupted by a crash on the way, a      *)
(* manifest that exists on IPFS never points at an object that was not     *)
(* stored on the node it names (lock_publish.py uploads the manifest only  *)
(* after every other upload has been answered).                            *)
ManifestComplete == \A r \in Requests : Published(r) => PlacedCompletely(r)

(* Nothing of a lock reaches IPFS while its p and q are still readable on  *)
(* the server, or were merely unlinked: _secure_delete has returned before *)
(* the first upload, even if the process is killed at any moment.          *)
SecretErasedBeforeUpload ==
  \A r \in Requests : Traces(r) # {} => secret[r] = "erased"

(* Only a killed process leaves secret.json behind: every way out of the   *)
(* handler, the exceptions nobody catches included, empties the temporary  *)
(* directory first (lock_pipeline.py:166).                                 *)
AnsweredLeavesNoSecret ==
  \A r \in Requests : pc[r] = "ended" => secret[r] # "plain"

(* What the administrator is told agrees with what is on IPFS and what may *)
(* still arrive there: 201 means the manifest is on its node, a 4xx that   *)
(* nothing of the lock is and nothing will be.                             *)
ReplyAgreesWithStore ==
  \A r \in Requests :
    /\ reply[r] = 201 => Stored(Manifest(r))
    /\ reply[r] \in RefusedFile \cup {422} => Traces(r) = {} /\ wire[r] = NoUpload

(* A published lock can need k cooperating centers only if no center, and  *)
(* no registered public key, is down for two of its n shards, whatever     *)
(* registry the service had loaded when the request came in.               *)
OneShardPerCenter ==
  \A r \in Requests : Published(r) =>
    /\ Len(job[r].centers) = job[r].n
    /\ Distinct(job[r].centers)
    /\ 2 <= job[r].k /\ job[r].k <= job[r].n

(* centers.py:194 says "two centers must not share a key": one private key *)
(* never opens two shards of a published lock.                             *)
NoSharedKey ==
  \A r \in Requests : Published(r) =>
    \A i, j \in DOMAIN job[r].centers :
      i # j => KeyOf[job[r].centers[i].pubkey] # KeyOf[job[r].centers[j].pubkey]

(* The drand round in a published manifest is the first whose publish time *)
(* (as the code computes it) is not before the start the administrator     *)
(* asked for, counted from when the pipeline really ran, and fits the      *)
(* eight bytes it has in the AAD, however large the lead.                  *)
BoundToFirstRound ==
  \A r \in Requests : Published(r) =>
    LET start == job[r].at + job[r].lead IN
      /\ PublishTime(job[r].round) >= start
      /\ job[r].round = 1 \/ PublishTime(job[r].round - 1) < start
      /\ job[r].round <= MaxRound

(* A request whose handler has begun is answered, unless the process dies  *)
(* under it.                                                               *)
HandlersFinish ==
  \A r \in Requests : pc[r] \in Running ~> pc[r] \in {"ended", "dropped"}
==============================================================================
