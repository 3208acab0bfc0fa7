--------------------------- MODULE VajraSystem_proofs ---------------------------
(***************************************************************************)
(* Proofs about the whole of VAJRA: what the papers that come out have     *)
(* behind them, and that the system implements ExamVault, for any number   *)
(* of locks, centers, nodes, machines and altered files, and any clock.    *)
(***************************************************************************)
EXTENDS VajraSystem, SoloReconstruct, LockService_proofs, Arithmetic

(***************************************************************************)
(* What the centers and the coordinator rely on.  Once something of a lock *)
(* has been sent, its terms never change again, and a 201 is never taken   *)
(* back.                                                                   *)
(***************************************************************************)
Locked(r) == wire[r] # NoUpload
Answered(r) == reply[r] = 201

LockInv == TermsInv /\ \A r \in Requests : job[r].at <= now

Keeps ==
  /\ now <= now' /\ now' \in Nat
  /\ \A r \in Requests :
       /\ Locked(r) => Locked(r)' /\ job'[r] = job[r]
       /\ Answered(r) => Answered(r)'

(***************************************************************************)
(* The centers.  A point that is no junk was decrypted: its lock was       *)
(* answered, it is one of the lock's n, and the share file its center      *)
(* wrote is still among the files, whatever copies were altered.  A run    *)
(* that asks for a shard has found its center in the manifest.             *)
(***************************************************************************)
Decrypted(f) ==
  /\ Answered(f.poly)
  /\ f.x \in 1 .. job[f.poly].n
  /\ TrueShare(f.poly, f.x - 1) \in files

FilesInv ==
  /\ IsFiniteSet(files)
  /\ \A f \in files : f.poly # Junk => Decrypted(f)

HasShard(r, c) == \E i \in Indices(r) : CenterAt(r, i).id = c

RunInv(c) ==
  run[c] # Idle =>
    /\ Answered(run[c].req)
    /\ run[c].stage = "shard" => HasShard(run[c].req, c)

CenterInv == CenterTypeOK /\ FilesInv /\ \A c \in Centers : RunInv(c)

(***************************************************************************)
(* The coordinator.  Each stage says what the run has checked by then:     *)
(* after the gate, that the x-coordinates differ and that its clock had    *)
(* reached the publish time; after the payload, that the shares yield that *)
(* payload's key and the round is the payload's; in the solver, that it    *)
(* started after the puzzle was made.                                      *)
(***************************************************************************)
ManifestForms ==
  [n : Nat, k : Nat, round : Int, payload : Requests, puzzle : Requests, signed : BOOLEAN]

CoordRuns ==
  [stage : CoordStages, req : Requests, shares : SUBSET Files,
   manifest : ManifestForms, setup : Setups, node : Nodes, since : Nat]

PastGate ==
  /\ DistinctX(coord.shares)
  /\ coord.setup.skip \/ ClockPassed(coord.manifest.round)

Solving ==
  /\ Locked(coord.manifest.puzzle)
  /\ job[coord.manifest.puzzle].at <= coord.since /\ coord.since <= now

Earned(shares) == \A f \in shares : f.poly # Junk => Answered(f.poly)

CoordRunInv ==
  coord # NoRun =>
    /\ coord \in CoordRuns /\ Earned(coord.shares)
    /\ Answered(coord.req) /\ coord.manifest \in Manifests(coord.req)
    /\ coord.stage \in {"payload", "puzzle", "solve"} => PastGate
    /\ coord.stage \in {"puzzle", "solve"} =>
         Opens(coord.manifest, coord.shares) /\ Answered(coord.manifest.payload)
    /\ coord.stage = "solve" => Solving

(* What a paper that came out has been through.                            *)
Start(r) == job[r].at + job[r].lead

RightlyOut(p) ==
  /\ p.req \in Requests /\ p.at \in Nat /\ p.setup \in Setups
  /\ p.from \in SUBSET Files
  /\ DistinctX(p.from) /\ YieldsKey(p.req, p.from) /\ Answered(p.req)
  /\ Gated(p.setup) => p.at >= Start(p.req)
  /\ p.setup.rate <= AdminRate => p.at >= Start(p.req)

CoordInv == CoordRunInv /\ \A p \in released : RightlyOut(p)

(* All it was given are share files, and these it keeps with the paper.    *)
FromFiles ==
  /\ coord # NoRun => coord.shares \subseteq files
  /\ \A p \in released : p.from \subseteq files
-----------------------------------------------------------------------------
(* A manifest on its node means that something was sent, and so does 201.  *)
LEMMA AnsweredFacts ==
  ASSUME LockInv, NEW r \in Requests
  PROVE  /\ Answered(r) => Locked(r) /\ Published(r)
         /\ Published(r) => Locked(r)
         /\ Locked(r) => GoodCenters(job[r]) /\ GoodRound(job[r])
<1>1. Answered(r) => Published(r)
  BY ObjectsType, NodesFacts
  DEF Answered, LockInv, TermsInv, IInv, Local, Reported, Stored, Published
<1>2. Published(r) => Locked(r)
  BY ObjectsType DEF Locked, LockInv, TermsInv, IInv, Local, Progress
<1>3. Locked(r) => GoodCenters(job[r]) /\ GoodRound(job[r])
  BY DEF Locked, LockInv, TermsInv, Settled
<1> QED
  BY <1>1, <1>2, <1>3

(* What can be fetched was sent.                                           *)
LEMMA FetchedIsLocked ==
  ASSUME LockInv, NEW r \in Requests, NEW node, NEW obj, obj.req = r,
         "ok" \in CatOutcomes(node, obj)
  PROVE  Locked(r)
<1>1. HasTrace(r)
  BY DEF CatOutcomes, Available, HasTrace, LockInv, TermsInv, IInv, TypeOK, EnvTypeOK
<1> QED
  BY <1>1 DEF Locked, LockInv, TermsInv, IInv, Local, Secrecy

(* A step of the service takes back neither what was sent nor a 201, and   *)
(* changes no terms of what was sent.                                      *)
LEMMA ServiceKeeps ==
  ASSUME IInv, [Next]_vars
  PROVE  Keeps
<1>1. TypeOK /\ TypeOK'
  BY InvNext DEF IInv
<1>2. now <= now' /\ now' \in Nat
  <2>1. now' = now \/ now' = now + 1
    BY DEF Next, Submit, Handler, StartPipeline, WriteSecret, Generate, Lock, SecureDelete,
       SplitAndEncrypt, UploadPuzzle, UploadPayload, UploadShard, UploadManifest, Arrive,
       Crash, Restart, EditRegistry, Environs, EnvNext, Tick, NodeStops, NodeStarts,
       envVars, vars
  <2> QED
    BY <1>1, <2>1 DEF TypeOK, EnvTypeOK
<1>3. ASSUME NEW r \in Requests
      PROVE  /\ Locked(r) => Locked(r)' /\ job'[r] = job[r]
             /\ Answered(r) => Answered(r)'
  <2>1. /\ Locked(r) => pc[r] \in Uploading \cup Over
        /\ Answered(r) => pc[r] = "ended"
        /\ Local(r)
    BY DEF IInv, Local, Progress, Reported, Locked, Answered
  <2>2. ASSUME NEW q \in Requests \ {r}, Submit(q) \/ Handler(q) \/ Arrive(q)
        PROVE  wire'[r] = wire[r] /\ job'[r] = job[r] /\ reply'[r] = reply[r]
    <3>1. OnlyFor(q)
      BY <1>1, <2>2, StepSubmit, StepPipeline, StepUpload, StepArrive DEF Handler, IInv
    <3> QED
      BY <3>1 DEF OnlyFor
  <2>3. CASE Submit(r) \/ StartPipeline(r)
    <3>1. pc[r] \in {"idle", "start"}
      BY <2>3 DEF Submit, StartPipeline, At
    <3>2. ~Locked(r) /\ ~Answered(r)
      BY <2>1, <3>1 DEF Uploading, Over
    <3> QED
      BY <3>2
  <2>4. CASE Handler(r) /\ ~StartPipeline(r)
    <3>1. UNCHANGED job
      BY <2>4 DEF Handler, WriteSecret, Generate, Lock, SecureDelete, SplitAndEncrypt,
         UploadPuzzle, UploadPayload, UploadShard, UploadManifest
    <3>2. UNCHANGED wire \/ \E obj \in Objects : Post(r, obj)
      <4>1. CASE UploadShard(r)
        <5>1. wire[r].idx + 1 \in Nat
          BY <2>1, <4>1 DEF UploadShard, At, Local, Progress
        <5> QED
          BY <4>1, <5>1, ObjectsType DEF UploadShard, UploadFails
      <4>2. CASE ~UploadShard(r)
        BY <2>4, <4>2, ObjectsType
        DEF Handler, WriteSecret, Generate, Lock, SecureDelete, SplitAndEncrypt,
            UploadPuzzle, UploadPayload, UploadManifest, UploadFails
      <4> QED
        BY <4>1, <4>2
    <3>3. Locked(r) => Locked(r)'
      BY <1>1, <3>2, PostType, ObjectsType DEF Locked
    <3>4. pc[r] # "ended" \/ UNCHANGED reply
      BY <2>4 DEF Handler, WriteSecret, Generate, Lock, SecureDelete, SplitAndEncrypt,
         UploadPuzzle, UploadPayload, UploadShard, UploadManifest, At
    <3> QED
      BY <2>1, <3>1, <3>3, <3>4 DEF Answered
  <2>5. CASE Arrive(r) \/ Crash \/ Restart \/ EditRegistry \/ Environs \/ UNCHANGED vars
    BY <2>5 DEF Arrive, Crash, Restart, EditRegistry, Environs, svcVars, vars, Locked, Answered
  <2> QED
    BY <2>2, <2>3, <2>4, <2>5 DEF Next, Locked, Answered
<1> QED
  BY <1>2, <1>3 DEF Keeps

(* No lock has begun.                                                      *)
LEMMA LockInvInit == Init => LockInv
<1> SUFFICES ASSUME Init PROVE LockInv
  OBVIOUS
<1>1. TermsInv
  BY TermsInit
<1>2. \A r \in Requests : job[r].at <= now
  BY DEF Init, EnvInit, NoJob
<1> QED
  BY <1>1, <1>2 DEF LockInv

(* The clock a lock reads is the one everybody has.                        *)
LEMMA LockInvNext ==
  ASSUME LockInv, [Next]_vars
  PROVE  LockInv' /\ Keeps
<1>1. TermsInv' /\ Keeps
  BY TermsNext, ServiceKeeps DEF LockInv, TermsInv
<1>2. ASSUME NEW r \in Requests PROVE job'[r].at <= now'
  <2>1. TypeOK /\ TypeOK' /\ job[r].at <= now /\ now \in Nat /\ job[r] \in Jobs
    BY <1>1 DEF LockInv, TermsInv, IInv, TypeOK, EnvTypeOK
  <2>2. job'[r].at \in {job[r].at, now, 0}
    <3>1. CASE job'[r] = job[r]
      BY <3>1
    <3>2. ASSUME NEW q \in Requests, Submit(q), job'[r] # job[r]
          PROVE  job'[r].at = 0
      BY <2>1, <3>2 DEF Submit, TypeOK
    <3>3. ASSUME NEW q \in Requests, StartPipeline(q), job'[r] # job[r]
          PROVE  job'[r].at = now
      BY <2>1, <3>3 DEF StartPipeline, TypeOK, Jobs
    <3>4. UNCHANGED job \/ \E q \in Requests : Submit(q) \/ StartPipeline(q)
      BY DEF Next, Handler, WriteSecret, Generate, Lock, SecureDelete,
         SplitAndEncrypt, UploadPuzzle, UploadPayload, UploadShard, UploadManifest, Arrive,
         Crash, Restart, EditRegistry, Environs, svcVars, vars
    <3> QED
      BY <3>1, <3>2, <3>3, <3>4
  <2> QED
    BY <1>1, <2>1, <2>2 DEF Keeps, Jobs
<1> QED
  BY <1>1, <1>2 DEF LockInv
-----------------------------------------------------------------------------
(* The terms of an answered lock, and the shares they give to its centers. *)
LEMMA ShareFacts ==
  ASSUME LockInv, NEW r \in Requests, Answered(r)
  PROVE  /\ job[r].n \in Nat /\ Indices(r) \subseteq Nat
         /\ \A i \in Indices(r) :
              /\ i + 1 \in DOMAIN job[r].centers /\ i + 1 \in 1 .. job[r].n
              /\ CenterAt(r, i) \in Entry
              /\ TrueShare(r, i) \in Files
<1>1. GoodCenters(job[r]) /\ job[r] \in Jobs
  BY AnsweredFacts DEF LockInv, TermsInv, IInv, TypeOK
<1>2. /\ job[r].n \in Nat /\ job[r].centers \in Seq(Entry)
      /\ DOMAIN job[r].centers = 1 .. job[r].n
  BY <1>1 DEF GoodCenters, Jobs
<1>3. ASSUME NEW i \in Indices(r)
      PROVE  i \in Nat /\ i + 1 \in 1 .. job[r].n
  BY <1>2 DEF Indices
<1>4. ASSUME NEW i \in Indices(r)
      PROVE  CenterAt(r, i) \in Entry
  BY <1>2, <1>3 DEF CenterAt
<1>5. ASSUME NEW i \in Indices(r)
      PROVE  TrueShare(r, i) \in Files
  BY <1>3, <1>4 DEF TrueShare, Files, Entry
<1> QED
  BY <1>2, <1>3, <1>4, <1>5 DEF Indices

(* No center has done anything.                                            *)
LEMMA CenterInvInit == CenterInit => CenterInv
<1> SUFFICES ASSUME CenterInit PROVE CenterInv
  OBVIOUS
<1>1. CenterTypeOK
  BY CenterAssumption DEF CenterInit, CenterTypeOK, Runs
<1>2. FilesInv
  BY FS_EmptySet DEF CenterInit, FilesInv
<1>3. \A c \in Centers : RunInv(c)
  BY DEF CenterInit, RunInv
<1> QED
  BY <1>1, <1>2, <1>3 DEF CenterInv

(* The service may do what it likes: the terms the centers go by stay.     *)
LEMMA CenterUntouched ==
  ASSUME LockInv, CenterInv, Keeps, UNCHANGED centerVars
  PROVE  CenterInv'
<1>1. CenterTypeOK'
  BY DEF CenterInv, CenterTypeOK, centerVars
<1>2. \A r \in Requests : Answered(r) => Answered(r)' /\ job'[r] = job[r]
  BY AnsweredFacts DEF Keeps
<1>3. FilesInv'
  <2>1. ASSUME NEW f \in files, f.poly # Junk PROVE Decrypted(f)'
    <3>1. Decrypted(f) /\ f.poly \in Requests
      BY <2>1 DEF CenterInv, FilesInv, CenterTypeOK, Files
    <3> QED
      BY <1>2, <3>1 DEF Decrypted, TrueShare, CenterAt, centerVars
  <2> QED
    BY <2>1 DEF CenterInv, FilesInv, centerVars
<1>4. ASSUME NEW c \in Centers PROVE RunInv(c)'
  <2>1. run'[c] = run[c] /\ (run[c] # Idle => run[c].req \in Requests)
    BY DEF CenterInv, CenterTypeOK, Runs, centerVars
  <2> QED
    BY <1>2, <2>1 DEF CenterInv, RunInv, HasShard, Indices, CenterAt
<1> QED
  BY <1>1, <1>3, <1>4 DEF CenterInv

(* A center that asks for its shard has one.                               *)
LEMMA MyIndexFacts ==
  ASSUME LockInv, CenterInv, NEW c \in Centers, run[c].stage = "shard"
  PROVE  /\ run[c] # Idle /\ run[c].req \in Requests /\ Answered(run[c].req)
         /\ MyIndex(c) \in Indices(run[c].req)
         /\ CenterAt(run[c].req, MyIndex(c)).id = c
<1>1. run[c] # Idle
  BY DEF Idle
<1>2. run[c].req \in Requests /\ Answered(run[c].req) /\ HasShard(run[c].req, c)
  BY <1>1 DEF CenterInv, CenterTypeOK, Runs, RunInv
<1> QED
  BY <1>1, <1>2 DEF HasShard, MyIndex

(* What one center does leaves the other runs alone.                       *)
LEMMA RunsAfter ==
  ASSUME CenterInv, NEW c \in Centers, NEW new \in Runs, run' = [run EXCEPT ![c] = new],
         UNCHANGED vars,
         new # Idle => Answered(new.req) /\ (new.stage = "shard" => HasShard(new.req, c))
  PROVE  run' \in [Centers -> Runs] /\ \A d \in Centers : RunInv(d)'
<1>1. run' \in [Centers -> Runs] /\ run'[c] = new
  BY DEF CenterInv, CenterTypeOK
<1>2. \A d \in Centers \ {c} : run'[d] = run[d]
  BY DEF CenterInv, CenterTypeOK
<1>3. /\ \A r : Answered(r)' = Answered(r)
      /\ \A r, d : HasShard(r, d)' = HasShard(r, d)
  BY DEF vars, svcVars, Answered, HasShard, Indices, CenterAt
<1>4. ASSUME NEW d \in Centers PROVE RunInv(d)'
  BY <1>1, <1>2, <1>3 DEF CenterInv, RunInv
<1> QED
  BY <1>1, <1>4

(* One more file: junk, or a point that was decrypted.                     *)
LEMMA FilesAfter ==
  ASSUME CenterInv, UNCHANGED vars, NEW new \in Files, files' = files \cup {new},
         new.poly # Junk =>
           /\ Answered(new.poly)
           /\ new.x \in 1 .. job[new.poly].n
           /\ TrueShare(new.poly, new.x - 1) \in files'
  PROVE  FilesInv' /\ files' \in SUBSET Files
<1>1. IsFiniteSet(files')
  BY FS_AddElement DEF CenterInv, FilesInv
<1>2. files' \in SUBSET Files
  BY DEF CenterInv, CenterTypeOK
<1>3. UNCHANGED <<job, reply>>
  BY DEF vars, svcVars
<1>4. ASSUME NEW f \in files', f.poly # Junk PROVE Decrypted(f)'
  <2>1. /\ Answered(f.poly) /\ f.x \in 1 .. job[f.poly].n
        /\ TrueShare(f.poly, f.x - 1) \in files'
    BY <1>4 DEF CenterInv, FilesInv, Decrypted
  <2> QED
    BY <1>3, <2>1 DEF Decrypted, Answered, TrueShare, CenterAt
<1> QED
  BY <1>1, <1>2, <1>4 DEF FilesInv

(* Altering a share file makes junk of its point or leaves it what it was. *)
LEMMA TamperKeeps ==
  ASSUME CenterInv, Tamper, UNCHANGED vars
  PROVE  CenterInv' /\ files \subseteq files'
<1>1. PICK f \in files, r \in Requests, id \in Centers, i \in 0 .. MaxShards - 1 :
        LET relabelled == [f EXCEPT !.req = r, !.id = id, !.idx = i] IN
          \/ files' = files \cup {relabelled}
          \/ \E x \in 0 .. MaxShards :
               files' = files \cup {[relabelled EXCEPT !.poly = Junk, !.x = x]}
  BY DEF Tamper
<1> DEFINE relabelled == [f EXCEPT !.req = r, !.id = id, !.idx = i]
<1>2. f \in Files /\ i \in Nat
  BY ServiceAssumption DEF CenterInv, CenterTypeOK
<1>3. relabelled \in Files /\ relabelled.poly = f.poly /\ relabelled.x = f.x
  BY <1>2 DEF Files
<1>4. ASSUME NEW x \in 0 .. MaxShards
      PROVE  /\ [relabelled EXCEPT !.poly = Junk, !.x = x] \in Files
             /\ [relabelled EXCEPT !.poly = Junk, !.x = x].poly = Junk
  <2> HIDE DEF relabelled
  <2>1. x \in Nat
    BY ServiceAssumption
  <2> QED
    BY <1>3, <2>1 DEF Files
<1>5. FilesInv' /\ files' \in SUBSET Files /\ files \subseteq files'
  <2>1. CASE files' = files \cup {relabelled}
    <3>1. relabelled.poly # Junk =>
            /\ Answered(f.poly)
            /\ f.x \in 1 .. job[f.poly].n
            /\ TrueShare(f.poly, f.x - 1) \in files
      BY <1>3 DEF CenterInv, FilesInv, Decrypted
    <3> HIDE DEF relabelled
    <3> QED
      BY <1>3, <2>1, <3>1, FilesAfter
  <2>2. ASSUME NEW x \in 0 .. MaxShards,
               files' = files \cup {[relabelled EXCEPT !.poly = Junk, !.x = x]}
        PROVE  FilesInv' /\ files' \in SUBSET Files /\ files \subseteq files'
    <3> DEFINE junk == [relabelled EXCEPT !.poly = Junk, !.x = x]
    <3>1. junk \in Files /\ junk.poly = Junk /\ files' = files \cup {junk}
      BY <1>4, <2>2
    <3> HIDE DEF junk
    <3> QED
      BY <3>1, FilesAfter
  <2> QED
    BY <1>1, <2>1, <2>2
<1>6. UNCHANGED <<ownKey, run, job, reply>>
  BY DEF Tamper, vars, svcVars
<1>7. CenterTypeOK'
  BY <1>5, <1>6 DEF CenterInv, CenterTypeOK
<1>8. \A c \in Centers : RunInv(c)'
  BY <1>6 DEF CenterInv, RunInv, Answered, HasShard, Indices, CenterAt
<1> QED
  BY <1>5, <1>7, <1>8 DEF CenterInv

(* One step of a center's program, or the rotation of its key.             *)
LEMMA CenterStepKeeps ==
  ASSUME LockInv, CenterInv, NEW c \in Centers, CenterStep(c), UNCHANGED vars
  PROVE  CenterInv' /\ files \subseteq files'
<1>1. /\ ownKey \in [Centers -> Keys] /\ run \in [Centers -> Runs]
      /\ files \in SUBSET Files /\ FilesInv
      /\ \A d \in Centers : RunInv(d)
  BY DEF CenterInv, CenterTypeOK
<1>2. UNCHANGED <<job, reply>> /\ 0 \in Nodes /\ Idle \in Runs
  BY ClusterAssumption DEF vars, svcVars, Nodes, Runs
<1>3. UNCHANGED files => FilesInv'
  BY <1>1, <1>2 DEF FilesInv, Decrypted, Answered, TrueShare, CenterAt
<1>4. Ends(c) => run' \in [Centers -> Runs] /\ \A d \in Centers : RunInv(d)'
  BY <1>2, RunsAfter DEF Ends
<1>5. ASSUME NEW node \in Nodes, Asks(c, node), run[c] # Idle, HasShard(run[c].req, c)
      PROVE  run' \in [Centers -> Runs] /\ \A d \in Centers : RunInv(d)'
  <2> DEFINE old == run[c]
             new == [old EXCEPT !.stage = "shard", !.node = node]
  <2>1. run' = [run EXCEPT ![c] = new]
    BY <1>1, <1>5 DEF Asks
  <2>2. old \in [stage : {"manifest", "shard"}, req : Requests, key : Keys, node : Nodes]
    BY <1>1, <1>5 DEF Runs
  <2>3. new \in Runs /\ new.req = old.req
    BY <2>2 DEF Runs
  <2>4. Answered(old.req) /\ HasShard(old.req, c)
    BY <1>1, <1>5 DEF RunInv
  <2> HIDE DEF new
  <2> QED
    BY <2>1, <2>3, <2>4, RunsAfter
<1>6. CASE RotateKey(c)
  <2>1. ownKey' \in [Centers -> Keys]
    BY <1>1, <1>6, CenterAssumption DEF RotateKey
  <2>2. \A d \in Centers : RunInv(d)'
    BY <1>1, <1>2, <1>6 DEF RotateKey, RunInv, Answered, HasShard, Indices, CenterAt
  <2> QED
    BY <1>1, <1>3, <1>6, <2>1, <2>2 DEF RotateKey, CenterInv, CenterTypeOK
<1>7. CASE StartDecrypt(c)
  <2>1. PICK r \in Requests :
          /\ reply[r] = 201
          /\ run' = [run EXCEPT ![c] =
               [stage |-> "manifest", req |-> r, key |-> ownKey[c], node |-> 0]]
    BY <1>7 DEF StartDecrypt
  <2> DEFINE new == [stage |-> "manifest", req |-> r, key |-> ownKey[c], node |-> 0]
  <2>2. new \in Runs /\ new.stage = "manifest" /\ new.req = r
    BY <1>1, <1>2 DEF Runs
  <2>3. run' \in [Centers -> Runs] /\ \A d \in Centers : RunInv(d)'
    <3> HIDE DEF new
    <3>1. run' = [run EXCEPT ![c] = new]
      BY <2>1 DEF new
    <3> QED
      BY <2>1, <2>2, <3>1, RunsAfter DEF Answered
  <2> QED
    BY <1>1, <1>3, <1>7, <2>3 DEF StartDecrypt, CenterInv, CenterTypeOK
<1>8. CASE FetchManifest(c)
  <2>1. run[c] # Idle
    BY <1>8 DEF FetchManifest, Idle
  <2>2. run' \in [Centers -> Runs] /\ \A d \in Centers : RunInv(d)'
    BY <1>2, <1>4, <1>5, <1>8, <2>1 DEF FetchManifest, HasShard
  <2> QED
    BY <1>1, <1>3, <1>8, <2>2 DEF FetchManifest, CenterInv, CenterTypeOK
<1>9. CASE FetchShard(c)
  <2>1. /\ run[c] # Idle /\ run[c].req \in Requests /\ Answered(run[c].req)
        /\ MyIndex(c) \in Indices(run[c].req) /\ HasShard(run[c].req, c)
        /\ run[c].node \in Nodes
    <3>1. /\ run[c] # Idle /\ run[c].req \in Requests /\ Answered(run[c].req)
          /\ MyIndex(c) \in Indices(run[c].req)
          /\ CenterAt(run[c].req, MyIndex(c)).id = c
      BY <1>9, MyIndexFacts DEF FetchShard
    <3>2. run[c].node \in Nodes
      BY <1>1, <3>1 DEF Runs
    <3> QED
      BY <3>1, <3>2 DEF HasShard
  <2>2. run' \in [Centers -> Runs] /\ \A d \in Centers : RunInv(d)'
    <3>1. run[c].node + 1 < NodeCount => run[c].node + 1 \in Nodes
      BY <2>1, ClusterAssumption DEF Nodes
    <3>2. Ends(c) \/ (run[c].node + 1 < NodeCount /\ Asks(c, run[c].node + 1))
      BY <1>9 DEF FetchShard
    <3> QED
      BY <1>4, <1>5, <2>1, <3>1, <3>2
  <2>3. CASE files' = files \cup {MyShare(c)}
    <3> DEFINE r == run[c].req
               i == MyIndex(c)
               new == TrueShare(r, i)
    <3>1. i \in Nat /\ i + 1 \in 1 .. job[r].n /\ new \in Files
      BY <2>1, ShareFacts
    <3>2. new.poly = r /\ new.x = i + 1 /\ (i + 1) - 1 = i
      BY <3>1 DEF TrueShare
    <3>3. files' = files \cup {new}
      BY <2>3 DEF MyShare
    <3>4. TrueShare(new.poly, new.x - 1) \in files'
      BY <3>2, <3>3
    <3>5. FilesInv' /\ files' \in SUBSET Files
      <4> HIDE DEF new, r, i
      <4> QED
        BY <2>1, <3>1, <3>2, <3>3, <3>4, FilesAfter DEF r
    <3> QED
      BY <1>1, <1>9, <2>2, <3>3, <3>5 DEF FetchShard, CenterInv, CenterTypeOK
  <2>4. CASE UNCHANGED files
    BY <1>1, <1>3, <1>9, <2>2, <2>4 DEF FetchShard, CenterInv, CenterTypeOK
  <2> QED
    BY <1>9, <2>3, <2>4 DEF FetchShard
<1> QED
  BY <1>6, <1>7, <1>8, <1>9 DEF CenterStep

(* Every step of the centers and of what happens to their files.           *)
LEMMA CenterInvNext ==
  ASSUME LockInv, CenterInv, CenterNext
  PROVE  CenterInv' /\ files \subseteq files'
  BY CenterStepKeeps, TamperKeeps DEF CenterNext

(* Altering files brings no point to light that was not known.             *)
LEMMA TamperAddsNoPoint ==
  ASSUME CenterInv, Tamper, NEW f \in files', f.poly # Junk
  PROVE  Known(f.poly, f.x)
<1> SUFFICES ASSUME f \notin files PROVE Known(f.poly, f.x)
  BY DEF Known
<1>1. PICK g \in files, r \in Requests, id \in Centers, i \in 0 .. MaxShards - 1 :
        LET relabelled == [g EXCEPT !.req = r, !.id = id, !.idx = i] IN
          \/ files' = files \cup {relabelled}
          \/ \E x \in 0 .. MaxShards :
               files' = files \cup {[relabelled EXCEPT !.poly = Junk, !.x = x]}
  BY DEF Tamper
<1> DEFINE relabelled == [g EXCEPT !.req = r, !.id = id, !.idx = i]
<1>2. g \in Files
  BY DEF CenterInv, CenterTypeOK
<1>3. /\ relabelled.poly = g.poly /\ relabelled.x = g.x
      /\ \A x : [relabelled EXCEPT !.poly = Junk, !.x = x].poly = Junk
  BY <1>2 DEF Files
<1>4. CASE files' = files \cup {relabelled}
  <2>1. f.poly = g.poly /\ f.x = g.x
    BY <1>3, <1>4
  <2> QED
    BY <2>1 DEF Known
<1>5. ASSUME NEW x, files' = files \cup {[relabelled EXCEPT !.poly = Junk, !.x = x]}
      PROVE  FALSE
  BY <1>3, <1>5
<1> QED
  BY <1>1, <1>4, <1>5

(* A point that was not known comes from the step of its center that       *)
(* decrypts the shard.                                                     *)
LEMMA OnlyTheirCenterStep ==
  ASSUME LockInv, CenterInv, CenterNext,
         NEW f \in files', f.poly # Junk, ~Known(f.poly, f.x)
  PROVE  /\ f.x \in 1 .. job[f.poly].n
         /\ LET holder == CenterAt(f.poly, f.x - 1) IN
              /\ run[holder.id] # Idle
              /\ run[holder.id].req = f.poly /\ run[holder.id].key = KeyOf[holder.pubkey]
<1>1. f \notin files
  BY DEF Known
<1>2. ~Tamper
  BY TamperAddsNoPoint
<1>3. PICK c \in Centers : CenterStep(c)
  BY <1>2 DEF CenterNext
<1>4. /\ run[c].stage = "shard" /\ KeyFits(c) /\ f = MyShare(c)
  BY <1>1, <1>3 DEF CenterStep, RotateKey, StartDecrypt, FetchManifest, FetchShard
<1> DEFINE r == run[c].req
           i == MyIndex(c)
<1>5. /\ run[c] # Idle /\ r \in Requests /\ Answered(r)
      /\ i \in Indices(r) /\ CenterAt(r, i).id = c
  BY <1>4, MyIndexFacts
<1>6. i \in Nat /\ i + 1 \in 1 .. job[r].n
  BY <1>5, ShareFacts
<1>7. f.poly = r /\ f.x = i + 1 /\ f.x - 1 = i
  BY <1>4, <1>6 DEF MyShare, TrueShare
<1>8. run[c].key = KeyOf[CenterAt(r, i).pubkey]
  BY <1>4 DEF KeyFits, SealedFor
<1> QED
  BY <1>5, <1>6, <1>7, <1>8
-----------------------------------------------------------------------------
(* Shares that give the key of a lock were decrypted by its centers.       *)
LEMMA KeyFromShares ==
  ASSUME LockInv, NEW r \in Requests, Locked(r),
         NEW shares, Earned(shares), YieldsKey(r, shares)
  PROVE  Answered(r)
<1>1. job[r].k >= 2 /\ job[r].k \in Nat
  BY AnsweredFacts DEF GoodCenters, LockInv, TermsInv, IInv, TypeOK, Jobs
<1>2. shares # {}
  BY <1>1, FS_EmptySet DEF YieldsKey
<1>3. PICK f \in shares : f.poly = r
  BY <1>2 DEF YieldsKey
<1>4. f.poly # Junk
  BY <1>3, CenterAssumption
<1> QED
  BY <1>3, <1>4 DEF Earned

(* A machine no faster than the one that calibrated the puzzle needs no    *)
(* less than the lead.                                                     *)
LEMMA SquaringTakesTheLead ==
  ASSUME NEW spent \in Nat, NEW lead \in Nat, NEW rate \in Nat, NEW calibrated \in Nat \ {0},
         rate <= calibrated, spent * rate >= lead * calibrated
  PROVE  spent >= lead
<1> SUFFICES ASSUME spent <= lead - 1 PROVE FALSE
  OBVIOUS
<1>1. spent * rate <= spent * calibrated
  BY Z3
<1>2. spent * calibrated <= (lead - 1) * calibrated
  BY Z3
<1>3. (lead - 1) * calibrated = lead * calibrated - calibrated
  BY Z3
<1>4. spent * rate \in Int /\ spent * calibrated \in Int /\ lead * calibrated \in Int
      /\ (lead - 1) * calibrated \in Int
  OBVIOUS
<1> QED
  BY <1>1, <1>2, <1>3, <1>4

(* A published lock's round is not out before the lock opens.              *)
LEMMA RoundNotEarly ==
  ASSUME LockInv, NEW r \in Requests, Locked(r)
  PROVE  /\ Start(r) \in Nat /\ PublishTime(job[r].round) \in Int
         /\ PublishTime(job[r].round) >= Start(r)
<1>1. job[r] \in Jobs
  BY DEF LockInv, TermsInv, IInv, TypeOK
<1>2. Start(r) \in Nat
  BY <1>1 DEF Start, Jobs
<1>3. job[r].round = RoundAtOrAfter(Start(r))
  BY AnsweredFacts DEF GoodRound, Start
<1>4. job[r].round \in Int
  BY <1>1 DEF Jobs
<1> QED
  BY <1>2, <1>3, <1>4, RoundIsFirst, DrandChainAssumption DEF PublishTime
-----------------------------------------------------------------------------
(* What can be read as a manifest has the form of one.                     *)
LEMMA ManifestsType ==
  ASSUME LockInv, NEW r \in Requests
  PROVE  Manifests(r) \subseteq ManifestForms
<1>1. job[r] \in Jobs
  BY DEF LockInv, TermsInv, IInv, TypeOK
<1>2. SignedManifest(r) \in ManifestForms
  BY <1>1 DEF SignedManifest, ManifestForms, Jobs
<1>3. ASSUME NEW m \in AlteredManifests PROVE m \in ManifestForms
  <2>1. {FALSE, HmacKeyOut} \subseteq BOOLEAN
    BY CoordinatorAssumption, Zenon
  <2> DEFINE signatures == {FALSE, HmacKeyOut}
  <2>2. m \in [n : ForgedNs, k : ForgedKs, round : ForgedRounds,
               payload : Requests, puzzle : Requests, signed : signatures]
    BY DEF AlteredManifests
  <2> HIDE DEF signatures
  <2>3. signatures \subseteq BOOLEAN
    BY <2>1 DEF signatures
  <2>4. ForgedNs \subseteq Nat /\ ForgedKs \subseteq Nat /\ ForgedRounds \subseteq Int
    BY CoordinatorAssumption
  <2> QED
    BY <2>2, <2>3, <2>4 DEF ManifestForms
<1> QED
  BY <1>2, <1>3 DEF Manifests

(* Nobody coordinates yet.                                                 *)
LEMMA CoordInvInit == CoordInit => CoordInv
  BY DEF CoordInit, CoordInv, CoordRunInv

(* Neither the service nor the centers can undo what a run has checked.    *)
LEMMA CoordUntouched ==
  ASSUME LockInv, CoordInv, Keeps, UNCHANGED coordVars
  PROVE  CoordInv'
<1>1. \A r \in Requests : Answered(r) => Locked(r) /\ Answered(r)' /\ job'[r] = job[r]
  BY AnsweredFacts DEF Keeps
<1>2. now <= now' /\ now \in Nat /\ now' \in Nat
  BY DEF Keeps, LockInv, TermsInv, IInv, TypeOK, EnvTypeOK
<1>3. coord' = coord /\ released' = released
  BY DEF coordVars
<1>4. CoordRunInv'
  <2> SUFFICES ASSUME coord # NoRun PROVE CoordRunInv'
    BY <1>3 DEF CoordRunInv
  <2> DEFINE m == coord.manifest
  <2>1. /\ coord \in CoordRuns /\ Earned(coord.shares)
        /\ Answered(coord.req) /\ m \in Manifests(coord.req)
        /\ coord.stage \in {"payload", "puzzle", "solve"} => PastGate
        /\ coord.stage \in {"puzzle", "solve"} => Opens(m, coord.shares) /\ Answered(m.payload)
        /\ coord.stage = "solve" => Solving
    BY DEF CoordInv, CoordRunInv
  <2>2. /\ coord.req \in Requests /\ m \in ManifestForms /\ coord.setup \in Setups
        /\ m.payload \in Requests /\ m.puzzle \in Requests /\ m.round \in Int
        /\ coord.since \in Nat
    BY <2>1 DEF CoordRuns, ManifestForms
  <2>3. Answered(coord.req)' /\ (m \in Manifests(coord.req))' /\ Earned(coord.shares)'
    <3>1. ASSUME NEW f \in coord.shares, f.poly # Junk PROVE Answered(f.poly)'
      BY <1>1, <2>1, <3>1 DEF Earned, CoordRuns, Files
    <3> QED
      BY <1>1, <1>3, <2>1, <2>2, <3>1 DEF Manifests, SignedManifest, Earned
  <2>4. PastGate => PastGate'
    <3>1. coord.setup.skew \in Int /\ PublishTime(m.round) \in Int
      BY <2>2, CoordinatorAssumption, DrandChainAssumption DEF PublishTime
    <3>2. ClockPassed(m.round) => ClockPassed(m.round)'
      BY <1>2, <1>3, <3>1 DEF ClockPassed
    <3> QED
      BY <1>3, <3>2 DEF PastGate, DistinctX
  <2>5. Answered(m.payload) /\ Opens(m, coord.shares) =>
          Answered(m.payload)' /\ Opens(m, coord.shares)'
    BY <1>1, <1>3, <2>2 DEF Opens, YieldsKey
  <2>6. Solving => Solving'
    BY <1>2, <1>3, <2>2 DEF Solving, Keeps
  <2> QED
    BY <1>3, <2>1, <2>3, <2>4, <2>5, <2>6 DEF CoordRunInv
<1>5. ASSUME NEW p \in released PROVE RightlyOut(p)'
  <2>1. RightlyOut(p) /\ p.req \in Requests
    BY DEF CoordInv, RightlyOut
  <2>2. job'[p.req] = job[p.req] /\ Answered(p.req)'
    BY <1>1, <2>1 DEF RightlyOut
  <2> QED
    BY <2>1, <2>2 DEF RightlyOut, YieldsKey, Start, DistinctX
<1> QED
  BY <1>3, <1>4, <1>5 DEF CoordInv

(* A step of the coordinator alone takes nothing from the papers that are  *)
(* out, and a run that fails leaves nothing to check.                      *)
LEMMA ReleasedStay ==
  ASSUME CoordInv, UNCHANGED <<vars, centerVars>>
  PROVE  /\ \A p \in released : RightlyOut(p)'
         /\ Fails => CoordInv'
<1>1. \A p \in released : RightlyOut(p)'
  BY DEF CoordInv, RightlyOut, YieldsKey, Start, DistinctX, Answered, vars, svcVars, centerVars
<1> QED
  BY <1>1 DEF Fails, CoordInv, CoordRunInv

(* The run at its next stage.                                              *)
LEMMA ProceedAt ==
  ASSUME coord \in CoordRuns, NEW stage \in CoordStages, NEW node \in Nodes, Proceed(stage, node)
  PROVE  /\ coord' \in CoordRuns /\ coord'.stage = stage /\ released' = released
         /\ coord'.req = coord.req /\ coord'.shares = coord.shares
         /\ coord'.manifest = coord.manifest /\ coord'.setup = coord.setup
         /\ coord'.since = coord.since
  BY DEF CoordRuns, Proceed

(* What a run that is under way has checked.                               *)
LEMMA RunFacts ==
  ASSUME CoordInv, coord # NoRun
  PROVE  /\ coord \in CoordRuns /\ Earned(coord.shares)
         /\ Answered(coord.req) /\ coord.manifest \in Manifests(coord.req)
         /\ coord.req \in Requests /\ coord.manifest \in ManifestForms
         /\ coord.setup \in Setups /\ coord.since \in Nat /\ coord.node \in Nodes
         /\ coord.manifest.payload \in Requests /\ coord.manifest.puzzle \in Requests
         /\ coord.manifest.round \in Int
  BY DEF CoordInv, CoordRunInv, CoordRuns, ManifestForms

(* A run starts from what is there.                                        *)
LEMMA StepStart ==
  ASSUME LockInv, CenterInv, CoordInv, UNCHANGED <<vars, centerVars>>, StartCombine
  PROVE  CoordInv'
<1>1. PICK r \in Requests, setup \in Setups, shares \in SUBSET files \ {{}} :
        /\ reply[r] = 201
        /\ coord' = [stage |-> "manifest", req |-> r, shares |-> shares,
                     manifest |-> SignedManifest(r), setup |-> setup,
                     node |-> 0, since |-> 0]
  BY DEF StartCombine
<1> DEFINE new == [stage |-> "manifest", req |-> r, shares |-> shares,
                   manifest |-> SignedManifest(r), setup |-> setup, node |-> 0, since |-> 0]
<1>2. SignedManifest(r) \in ManifestForms /\ SignedManifest(r) \in Manifests(r)
  BY ManifestsType DEF Manifests
<1>3. shares \in SUBSET Files /\ 0 \in Nodes
  BY ClusterAssumption DEF CenterInv, CenterTypeOK, Nodes
<1>4. new \in CoordRuns /\ Earned(shares)
  BY <1>2, <1>3 DEF CoordRuns, CoordStages, Earned, CenterInv, FilesInv, Decrypted
<1>5. CoordRunInv'
  <2>1. /\ new.stage = "manifest" /\ new.req = r /\ new.shares = shares
        /\ new.manifest = SignedManifest(r)
    OBVIOUS
  <2>2. coord' = new /\ UNCHANGED <<reply, job, files>>
    BY <1>1 DEF vars, svcVars, centerVars
  <2> HIDE DEF new
  <2> QED
    BY <1>1, <1>2, <1>4, <2>1, <2>2
    DEF CoordRunInv, Answered, Manifests, SignedManifest, Earned
<1> QED
  BY <1>5, ReleasedStay DEF StartCombine, CoordInv

(* It reads a manifest; what it accepts does not matter here, as whatever  *)
(* it is must still open the payload.                                      *)
LEMMA StepRead ==
  ASSUME LockInv, CoordInv, UNCHANGED <<vars, centerVars>>, ReadShares
  PROVE  CoordInv'
<1>1. coord # NoRun
  <2>1. coord.stage = "manifest"
    BY DEF ReadShares
  <2> QED
    BY <2>1 DEF NoRun
<1>2. CASE Fails
  BY <1>2, ReleasedStay
<1>3. CASE ~Fails
  <2>1. PICK m \in Manifests(coord.req) :
          coord' = [coord EXCEPT !.stage = "gate", !.manifest = m] /\ UNCHANGED released
    BY <1>3 DEF ReadShares
  <2>2. m \in ManifestForms
    BY <1>1, RunFacts, ManifestsType
  <2>3. /\ coord' \in CoordRuns /\ coord'.stage = "gate" /\ coord'.manifest = m
        /\ coord'.req = coord.req /\ coord'.shares = coord.shares
    BY <1>1, <2>1, <2>2, RunFacts DEF CoordRuns, CoordStages
  <2>4. UNCHANGED <<reply, job, files>>
    BY DEF vars, svcVars, centerVars
  <2>5. CoordRunInv'
    BY <1>1, <2>3, <2>4, RunFacts DEF CoordRunInv, Answered, Manifests, SignedManifest, Earned
  <2> QED
    BY <2>1, <2>5, ReleasedStay DEF CoordInv
<1> QED
  BY <1>2, <1>3

(* It goes on to a stage where it knows at least what it knew.             *)
LEMMA StepProceed ==
  ASSUME LockInv, CoordInv, coord # NoRun, UNCHANGED <<vars, centerVars>>,
         NEW stage \in CoordStages \ {"solve"}, NEW node \in Nodes, Proceed(stage, node),
         stage \in {"payload", "puzzle"} => PastGate,
         stage = "puzzle" =>
           Opens(coord.manifest, coord.shares) /\ Answered(coord.manifest.payload)
  PROVE  CoordInv'
<1>1. /\ coord' \in CoordRuns /\ coord'.stage = stage /\ released' = released
      /\ coord'.req = coord.req /\ coord'.shares = coord.shares
      /\ coord'.manifest = coord.manifest /\ coord'.setup = coord.setup
  BY RunFacts, ProceedAt
<1>2. UNCHANGED <<now, reply, job, files>>
  BY DEF vars, svcVars, envVars, centerVars
<1>3. PastGate => PastGate'
  BY <1>1, <1>2 DEF PastGate, DistinctX, ClockPassed
<1>4. /\ Opens(coord.manifest, coord.shares) => Opens(coord.manifest, coord.shares)'
      /\ Answered(coord.manifest.payload) => Answered(coord.manifest.payload)'
      /\ Answered(coord.req)' /\ coord'.manifest \in Manifests(coord.req)'
      /\ Earned(coord.shares)'
  BY <1>1, <1>2, RunFacts DEF Opens, YieldsKey, Answered, Manifests, SignedManifest, Earned
<1>5. CoordRunInv'
  BY <1>1, <1>2, <1>3, <1>4, RunFacts DEF CoordRunInv
<1> QED
  BY <1>1, <1>5, ReleasedStay DEF CoordInv

(* The gate, and the combination behind it.                                *)
LEMMA StepGate ==
  ASSUME LockInv, CoordInv, UNCHANGED <<vars, centerVars>>, PassGate
  PROVE  CoordInv'
<1>1. coord # NoRun /\ "payload" \in CoordStages \ {"solve"} /\ 0 \in Nodes
  BY ClusterAssumption DEF PassGate, NoRun, CoordStages, Nodes
<1>2. CASE Fails
  BY <1>2, ReleasedStay
<1>3. CASE ~Fails
  <2>1. Proceed("payload", 0) /\ PastGate
    BY <1>3 DEF PassGate, PastGate, Combinable
  <2> QED
    BY <1>1, <2>1, StepProceed
<1> QED
  BY <1>2, <1>3

(* The turns of the loop over the nodes.                                   *)
LEMMA StepNextNode ==
  ASSUME LockInv, CoordInv, UNCHANGED <<vars, centerVars>>,
         coord.stage \in {"payload", "puzzle"}, NextNode(coord.stage)
  PROVE  CoordInv'
<1>1. coord # NoRun
  BY DEF NoRun
<1>2. CASE Fails
  BY <1>2, ReleasedStay
<1>3. CASE ~Fails
  <2>1. coord.node + 1 \in Nodes /\ Proceed(coord.stage, coord.node + 1)
    BY <1>1, <1>3, RunFacts, ClusterAssumption DEF NextNode, Nodes
  <2>2. coord.stage \in CoordStages \ {"solve"}
    BY DEF CoordStages
  <2>3. /\ PastGate
        /\ coord.stage = "puzzle" =>
             Opens(coord.manifest, coord.shares) /\ Answered(coord.manifest.payload)
    BY <1>1 DEF CoordInv, CoordRunInv
  <2> QED
    BY <1>1, <2>1, <2>2, <2>3, StepProceed
<1> QED
  BY <1>2, <1>3

(* The payload opens only for enough shares of its own lock.               *)
LEMMA StepPayload ==
  ASSUME LockInv, CoordInv, UNCHANGED <<vars, centerVars>>, OpenPayload
  PROVE  CoordInv'
<1> DEFINE m == coord.manifest
<1>1. coord # NoRun /\ coord.stage = "payload" /\ PastGate
  BY DEF OpenPayload, NoRun, CoordInv, CoordRunInv
<1>2. CASE Fails \/ NextNode(coord.stage)
  BY <1>1, <1>2, ReleasedStay, StepNextNode
<1>3. CASE ~(Fails \/ NextNode(coord.stage))
  <2>1. /\ "ok" \in CatOutcomes(coord.node, Payload(m.payload))
        /\ Opens(m, coord.shares) /\ Proceed("puzzle", 0)
    BY <1>3 DEF OpenPayload, FetchFrom
  <2>2. m.payload \in Requests /\ Earned(coord.shares)
    BY <1>1, RunFacts
  <2>3. Locked(m.payload)
    BY <2>1, <2>2, FetchedIsLocked DEF Payload
  <2>4. Answered(m.payload)
    BY <2>1, <2>2, <2>3, KeyFromShares DEF Opens
  <2>5. "puzzle" \in CoordStages \ {"solve"} /\ 0 \in Nodes
    BY ClusterAssumption DEF CoordStages, Nodes
  <2> QED
    BY <1>1, <2>1, <2>4, <2>5, StepProceed
<1> QED
  BY <1>2, <1>3

(* The puzzle of whichever lock was made before the solver starts on it.   *)
LEMMA StepPuzzle ==
  ASSUME LockInv, CoordInv, UNCHANGED <<vars, centerVars>>, FetchPuzzle
  PROVE  CoordInv'
<1> DEFINE m == coord.manifest
<1>1. /\ coord # NoRun /\ coord.stage = "puzzle" /\ PastGate
      /\ Opens(m, coord.shares) /\ Answered(m.payload)
  BY DEF FetchPuzzle, NoRun, CoordInv, CoordRunInv
<1>2. CASE Fails \/ NextNode(coord.stage)
  BY <1>1, <1>2, ReleasedStay, StepNextNode
<1>3. CASE ~(Fails \/ NextNode(coord.stage))
  <2>1. /\ "ok" \in CatOutcomes(coord.node, Puzzle(m.puzzle))
        /\ coord' = [coord EXCEPT !.stage = "solve", !.since = now]
        /\ UNCHANGED released
    BY <1>3 DEF FetchPuzzle, FetchFrom
  <2>2. m.puzzle \in Requests
    BY <1>1, RunFacts
  <2>3. Locked(m.puzzle)
    BY <2>1, <2>2, FetchedIsLocked DEF Puzzle
  <2>4. now \in Nat /\ job[m.puzzle].at <= now
    BY <2>2 DEF LockInv, TermsInv, IInv, TypeOK, EnvTypeOK
  <2>5. /\ coord' \in CoordRuns /\ coord'.stage = "solve" /\ coord'.since = now
        /\ coord'.req = coord.req /\ coord'.shares = coord.shares
        /\ coord'.manifest = m /\ coord'.setup = coord.setup
    BY <1>1, <2>1, <2>4, RunFacts DEF CoordRuns, CoordStages
  <2>6. UNCHANGED <<now, reply, job, files, wire>>
    BY DEF vars, svcVars, envVars, centerVars
  <2>7. /\ PastGate' /\ Opens(m, coord.shares)' /\ Answered(m.payload)' /\ Answered(coord.req)'
        /\ Earned(coord.shares)'
    BY <1>1, <2>5, <2>6, RunFacts
    DEF PastGate, DistinctX, ClockPassed, Opens, YieldsKey, Answered, Earned
  <2>8. Solving'
    BY <2>3, <2>4, <2>5, <2>6 DEF Solving, Locked
  <2>9. coord'.manifest \in Manifests(coord.req)'
    BY <1>1, <2>5, <2>6, RunFacts DEF Manifests, SignedManifest
  <2>10. CoordRunInv'
    BY <1>1, <2>5, <2>6, <2>7, <2>8, <2>9, RunFacts DEF CoordRunInv
  <2> QED
    BY <2>1, <2>10, ReleasedStay DEF CoordInv
<1> QED
  BY <1>2, <1>3

(* A paper that is written out has passed both time locks that are in      *)
(* force on the machine, and the key came from its own centers.            *)
LEMMA StepSolve ==
  ASSUME LockInv, CoordInv, UNCHANGED <<vars, centerVars>>, Solve
  PROVE  CoordInv'
<1> DEFINE m == coord.manifest
           r == m.payload
           paper == [req |-> r, at |-> now, from |-> coord.shares, setup |-> coord.setup]
<1>1. /\ coord # NoRun /\ PastGate /\ Solving
      /\ Opens(m, coord.shares) /\ Answered(r)
  BY DEF Solve, NoRun, CoordInv, CoordRunInv
<1>2. CASE Fails
  BY <1>2, ReleasedStay
<1>3. CASE ~Fails
  <2>1. SolverFinds(m) /\ released' = released \cup {paper} /\ coord' = NoRun
    BY <1>3 DEF Solve
  <2>2. /\ r \in Requests /\ m.round \in Int /\ coord.setup \in Setups
        /\ coord.since \in Nat /\ coord.shares \in SUBSET Files
    BY <1>1, RunFacts DEF CoordRuns
  <2>3. /\ Locked(r) /\ m.puzzle = r /\ m.round = job[r].round
        /\ YieldsKey(r, coord.shares)
    BY <1>1, <2>1, <2>2, AnsweredFacts DEF SolverFinds, InnerOpens, Opens
  <2>4. /\ Start(r) \in Nat /\ PublishTime(m.round) \in Int /\ PublishTime(m.round) >= Start(r)
    BY <2>2, <2>3, RoundNotEarly
  <2>5. /\ now \in Nat /\ job[r] \in Jobs
        /\ coord.setup.skew \in Int /\ coord.setup.rate \in Nat
    BY <2>2, CoordinatorAssumption DEF LockInv, TermsInv, IInv, TypeOK, EnvTypeOK
  <2>6. Gated(coord.setup) => now >= Start(r)
    <3> SUFFICES ASSUME Gated(coord.setup) PROVE now >= Start(r)
      OBVIOUS
    <3>1. now + coord.setup.skew >= PublishTime(m.round) /\ coord.setup.skew <= 0
      BY <1>1 DEF Gated, PastGate, ClockPassed
    <3> QED
      BY <2>4, <2>5, <3>1
  <2>7. coord.setup.rate <= AdminRate => now >= Start(r)
    <3> SUFFICES ASSUME coord.setup.rate <= AdminRate PROVE now >= Start(r)
      OBVIOUS
    <3>1. job[r].at <= coord.since /\ coord.since <= now
      BY <1>1, <2>3 DEF Solving
    <3>2. now - coord.since \in Nat /\ job[r].lead \in Nat /\ job[r].at \in Nat
      BY <2>2, <2>5, <3>1 DEF Jobs
    <3>3. (now - coord.since) * coord.setup.rate >= job[r].lead * AdminRate
      BY <2>1, <2>3 DEF SolverFinds, Squared
    <3>4. now - coord.since >= job[r].lead
      BY <2>5, <3>2, <3>3, SquaringTakesTheLead, CoordinatorAssumption
    <3> QED
      BY <2>2, <2>5, <3>1, <3>2, <3>4 DEF Start
  <2>8. ASSUME NEW p \in released', p \notin released PROVE RightlyOut(p)'
    <3>1. /\ p.req = r /\ p.at = now /\ p.from = coord.shares
          /\ p.setup = coord.setup
      BY <2>1, <2>8
    <3>2. UNCHANGED <<now, reply, job, files>>
      BY DEF vars, svcVars, envVars, centerVars
    <3>3. DistinctX(coord.shares) /\ coord.shares \in SUBSET Files
      BY <1>1, <2>2 DEF PastGate
    <3> HIDE DEF r
    <3>4. RightlyOut(p)
      BY <1>1, <2>2, <2>3, <2>5, <2>6, <2>7, <3>1, <3>3 DEF RightlyOut
    <3> QED
      BY <3>2, <3>4 DEF RightlyOut, YieldsKey, Start, DistinctX, Answered
  <2>9. \A p \in released' : RightlyOut(p)'
    BY <2>8, ReleasedStay
  <2> QED
    BY <2>1, <2>9 DEF CoordInv, CoordRunInv
<1> QED
  BY <1>2, <1>3

(* Every step of the coordinator.                                          *)
LEMMA CoordInvNext ==
  ASSUME LockInv, CenterInv, CoordInv, CoordNext
  PROVE  CoordInv'
<1>1. CoordCrash => CoordInv'
  BY ReleasedStay DEF CoordNext, CoordCrash
<1> QED
  BY <1>1, StepStart, StepRead, StepGate, StepPayload, StepPuzzle, StepSolve
  DEF CoordNext, CoordStep

(* Files are never taken away, and a run starts from nothing else.         *)
LEMMA FromFilesNext ==
  ASSUME CoordInv, FromFiles, files \subseteq files', [CoordStep]_coordVars
  PROVE  FromFiles'
<1>1. CASE UNCHANGED coordVars
  BY <1>1 DEF coordVars, FromFiles
<1>2. CASE StartCombine
  BY <1>2 DEF StartCombine, FromFiles
<1>3. CASE Fails
  BY <1>3 DEF Fails, FromFiles
<1>4. CASE Solve /\ ~Fails
  <2>1. coord.stage = "solve" /\ coord' = NoRun
    BY <1>4 DEF Solve
  <2>2. coord # NoRun
    BY <2>1 DEF NoRun
  <2> DEFINE paper == [req |-> coord.manifest.payload, at |-> now, from |-> coord.shares,
                       setup |-> coord.setup]
  <2>3. released' = released \cup {paper} /\ paper.from = coord.shares
    BY <1>4 DEF Solve
  <2> HIDE DEF paper
  <2> QED
    BY <2>1, <2>2, <2>3 DEF FromFiles
<1>5. CASE /\ ReadShares \/ PassGate \/ OpenPayload \/ FetchPuzzle \/ CoordCrash
           /\ ~Fails
  <2>1. coord # NoRun
    <3>1. \/ coord.stage \in {"manifest", "gate", "payload", "puzzle"}
          \/ coord # NoRun
      BY <1>5 DEF ReadShares, PassGate, OpenPayload, FetchPuzzle, CoordCrash
    <3> QED
      BY <3>1 DEF NoRun
  <2>2. coord \in CoordRuns
    BY <2>1, RunFacts
  <2>3. released' = released /\ coord'.shares = coord.shares
    <3>1. CASE ReadShares
      BY <1>5, <2>2, <3>1 DEF ReadShares, CoordRuns
    <3>2. ASSUME NEW stage, NEW node, Proceed(stage, node)
          PROVE  released' = released /\ coord'.shares = coord.shares
      BY <2>2, <3>2 DEF Proceed, CoordRuns
    <3>3. CASE PassGate
      BY <1>5, <3>2, <3>3 DEF PassGate
    <3>4. CASE OpenPayload
      BY <1>5, <3>2, <3>4 DEF OpenPayload, FetchFrom, NextNode
    <3>5. CASE FetchPuzzle
      <4>1. CASE NextNode(coord.stage)
        BY <1>5, <3>2, <4>1 DEF NextNode
      <4>2. CASE coord' = [coord EXCEPT !.stage = "solve", !.since = now] /\ UNCHANGED released
        BY <2>2, <4>2 DEF CoordRuns
      <4> QED
        BY <1>5, <3>5, <4>1, <4>2 DEF FetchPuzzle, FetchFrom
    <3> QED
      BY <1>5, <3>1, <3>3, <3>4, <3>5 DEF CoordCrash
  <2> QED
    BY <2>1, <2>3 DEF FromFiles
<1> QED
  BY <1>1, <1>2, <1>3, <1>4, <1>5 DEF CoordStep

-----------------------------------------------------------------------------
(* The service's part, the centers' and the coordinator's.                 *)
SystemInv == LockInv /\ CenterInv /\ CoordInv /\ FromFiles

(* A step of the system is one of the service or leaves it alone.          *)
LEMMA ServiceSteps == [SystemNext]_systemVars => [Next]_vars
  BY DEF SystemNext, systemVars, CenterNext, CoordNext, vars

(* Nothing has happened.                                                   *)
LEMMA SystemInvInit == SystemInit => SystemInv
  BY LockInvInit, CenterInvInit, CoordInvInit DEF SystemInit, CoordInit, SystemInv, FromFiles

(* Each part keeps its own invariant, and the others' as well.             *)
LEMMA SystemInvNext == SystemInv /\ [SystemNext]_systemVars => SystemInv' /\ Keeps
<1> SUFFICES ASSUME SystemInv, [SystemNext]_systemVars PROVE SystemInv' /\ Keeps
  OBVIOUS
<1>1. LockInv /\ CenterInv /\ CoordInv /\ FromFiles
  BY DEF SystemInv
<1>2. LockInv' /\ Keeps
  BY <1>1, ServiceSteps, LockInvNext
<1>3. CenterInv' /\ files \subseteq files'
  <2>1. CASE UNCHANGED centerVars
    BY <1>1, <1>2, <2>1, CenterUntouched DEF centerVars
  <2>2. CASE CenterNext
    BY <1>1, <2>2, CenterInvNext
  <2> QED
    BY <2>1, <2>2 DEF SystemNext, systemVars, CoordNext
<1>4. CoordInv'
  <2>1. CASE UNCHANGED coordVars
    BY <1>1, <1>2, <2>1, CoordUntouched
  <2>2. CASE CoordNext
    BY <1>1, <2>2, CoordInvNext
  <2> QED
    BY <2>1, <2>2 DEF SystemNext, systemVars
<1>5. FromFiles'
  BY <1>1, <1>3, FromFilesNext DEF SystemNext, systemVars, CoordNext
<1> QED
  BY <1>2, <1>3, <1>4, <1>5 DEF SystemInv

(* SystemInv holds in every reachable state of the system.                 *)
LEMMA SystemInvariant == SystemSpec => []SystemInv
  BY SystemInvInit, SystemInvNext, PTL DEF SystemSpec

(* Centers and coordinators do nothing to the service: all that is proved  *)
(* of it in LockService_proofs holds with them running.                    *)
THEOREM ServiceUndisturbed == SystemSpec => Spec
<1>1. SystemInit => Init
  BY DEF SystemInit
<1> QED
  BY <1>1, ServiceSteps, PTL DEF SystemSpec, Spec

(* Every reachable state of the system is well-typed.                      *)
THEOREM SystemTypeCorrect == SystemSpec => []SystemTypeOK
<1>1. SystemInv => SystemTypeOK
  <2> SUFFICES ASSUME SystemInv PROVE SystemTypeOK
    OBVIOUS
  <2>1. TypeOK /\ CenterTypeOK
    BY DEF SystemInv, LockInv, TermsInv, IInv, CenterInv
  <2>2. CoordTypeOK
    <3>1. CASE coord = NoRun
      BY <3>1 DEF SystemInv, CoordInv, RightlyOut, CoordTypeOK
    <3>2. CASE coord # NoRun
      <4>1. /\ coord.stage \in CoordStages /\ coord.req \in Requests
            /\ coord.shares \subseteq files /\ coord.setup \in Setups
            /\ coord.manifest \in Manifests(coord.req)
            /\ coord.node \in Nodes /\ coord.since \in Nat
        BY <3>2 DEF SystemInv, CoordInv, CoordRunInv, CoordRuns, FromFiles
      <4> QED
        BY <4>1 DEF SystemInv, CoordInv, RightlyOut, CoordTypeOK
    <3> QED
      BY <3>1, <3>2
  <2> QED
    BY <2>1, <2>2 DEF SystemTypeOK
<1> QED
  BY <1>1, SystemInvariant, PTL

(* With the gate in force and a clock that is not fast, no paper is out    *)
(* before its start, whatever hardware solves the puzzle.                  *)
THEOREM GateAlwaysHolds == SystemSpec => []GateHolds
<1>1. SystemInv => GateHolds
  BY DEF SystemInv, CoordInv, RightlyOut, Start, GateHolds
<1> QED
  BY <1>1, SystemInvariant, PTL

(* With the gate skipped or fooled, the puzzle keeps a machine no faster   *)
(* than the administrator's waiting until the start.                       *)
THEOREM PuzzleAlwaysHolds == SystemSpec => []PuzzleHolds
<1>1. SystemInv => PuzzleHolds
  BY DEF SystemInv, CoordInv, RightlyOut, Start, PuzzleHolds
<1> QED
  BY <1>1, SystemInvariant, PTL
-----------------------------------------------------------------------------
(* Different x-coordinates are as many as the shares that have them.       *)
LEMMA DistinctCount ==
  ASSUME NEW shares, IsFiniteSet(shares), DistinctX(shares)
  PROVE  Cardinality({f.x : f \in shares}) = Cardinality(shares)
<1> DEFINE xs == {f.x : f \in shares}
           x == [f \in shares |-> f.x]
<1>1. x \in Surjection(shares, xs) /\ x \in Injection(shares, xs)
  BY DEF Surjection, Injection, IsInjective, DistinctX
<1> HIDE DEF xs, x
<1>2. Cardinality(xs) = Cardinality(shares)
  BY <1>1, FS_Surjection
<1> QED
  BY <1>2 DEF xs

(* No paper is out without the points of k different centers of its lock.  *)
THEOREM KCentersAlwaysContribute == SystemSpec => []KCentersContributed
<1>1. SystemInv => KCentersContributed
  <2> SUFFICES ASSUME SystemInv, NEW p \in released
               PROVE  /\ p.from \subseteq {f \in files : f.poly = p.req}
                      /\ Cardinality({f.x : f \in p.from}) >= job[p.req].k
    BY DEF KCentersContributed
  <2>1. p.from \subseteq files /\ DistinctX(p.from) /\ YieldsKey(p.req, p.from)
    BY DEF SystemInv, CoordInv, RightlyOut, FromFiles
  <2>2. IsFiniteSet(p.from)
    BY <2>1, FS_Subset DEF SystemInv, CenterInv, FilesInv
  <2>3. Cardinality({f.x : f \in p.from}) = Cardinality(p.from)
    BY <2>1, <2>2, DistinctCount
  <2> QED
    BY <2>1, <2>3 DEF YieldsKey
<1> QED
  BY <1>1, SystemInvariant, PTL

(* A point of a lock becomes known only in a step of the center it was     *)
(* encrypted to, with the key it was encrypted to.                         *)
THEOREM OnlyTheirCenter == SystemSpec => SharesOnlyFromTheirCenter
<1> DEFINE FromCenter ==
      \A f \in files' : f.poly # Junk /\ ~Known(f.poly, f.x) =>
        /\ f.x \in 1 .. job[f.poly].n
        /\ LET holder == CenterAt(f.poly, f.x - 1) IN
             /\ run[holder.id] # Idle
             /\ run[holder.id].req = f.poly /\ run[holder.id].key = KeyOf[holder.pubkey]
<1>1. SystemInv /\ [SystemNext]_systemVars => [FromCenter]_files
  <2> SUFFICES ASSUME SystemInv, [SystemNext]_systemVars, files' # files PROVE FromCenter
    OBVIOUS
  <2>1. CenterNext
    BY DEF SystemNext, CoordNext, systemVars, centerVars
  <2> QED
    BY <2>1, OnlyTheirCenterStep DEF SystemInv
<1> QED
  BY <1>1, SystemInvariant, PTL DEF SystemSpec, SharesOnlyFromTheirCenter
-----------------------------------------------------------------------------
(***************************************************************************)
(* The refinement of ExamVault.  Its terms are those of the published      *)
(* locks, its consent the genuine shares that exist, its papers out those  *)
(* released; what has to be shown is that each step of the system is a     *)
(* step of the vault under this mapping, or a stutter.                     *)
(***************************************************************************)
Sealed == [r \in Requests |-> SealedTerms(r)]
Consents == [r \in Requests |-> Consenting(r)]
Out == {p.req : p \in released}

(* The positions of a lock whose share has been decrypted.                 *)
Opened(r) == {j \in Indices(r) : TrueShare(r, j) \in files}

(* The terms of a lock are those the vault takes.                          *)
LEMMA SealedType ==
  ASSUME LockInv, NEW r \in Requests
  PROVE  /\ SealedTerms(r) \in SUBSET [k : Nat \ {0, 1}, opens : Nat]
         /\ SealedTerms(r) # {} <=> Published(r)
         /\ Published(r) => SealedTerms(r) = {[k |-> job[r].k, opens |-> Start(r)]}
<1>1. job[r] \in Jobs
  BY DEF LockInv, TermsInv, IInv, TypeOK
<1>2. CASE Published(r)
  <2>1. job[r].k \in Nat \ {0, 1} /\ Start(r) \in Nat
    BY <1>1, <1>2, AnsweredFacts DEF GoodCenters, Jobs, Start
  <2>2. SealedTerms(r) = {[k |-> job[r].k, opens |-> Start(r)]}
    BY <1>2 DEF SealedTerms, Start
  <2>3. [k |-> job[r].k, opens |-> Start(r)] \in [k : Nat \ {0, 1}, opens : Nat]
    BY <2>1
  <2>4. SealedTerms(r) # {} /\ SealedTerms(r) \in SUBSET [k : Nat \ {0, 1}, opens : Nat]
    BY <2>2, <2>3, Zenon
  <2> QED
    BY <1>2, <2>2, <2>4, Zenon
<1>3. CASE ~Published(r)
  <2>1. SealedTerms(r) = {}
    BY <1>3 DEF SealedTerms
  <2> QED
    BY <1>3, <2>1, Zenon
<1> QED
  BY <1>2, <1>3

(* A share of a lock exists only after its 201.                            *)
LEMMA OpenedIsAnswered ==
  ASSUME CenterInv, NEW r \in Requests, NEW f \in files, f.poly = r
  PROVE  Answered(r)
<1>1. f.poly # Junk
  BY CenterAssumption
<1> QED
  BY <1>1 DEF CenterInv, FilesInv, Decrypted

(* While no file is added and no terms change, the same centers have       *)
(* consented.                                                              *)
LEMMA ConsentStays ==
  ASSUME LockInv, CenterInv, Keeps, UNCHANGED files
  PROVE  Consents' = Consents
<1>1. ASSUME NEW r \in Requests PROVE Consenting(r)' = Consenting(r)
  <2>1. CASE Answered(r)
    <3>1. job'[r] = job[r]
      BY <2>1, AnsweredFacts DEF Keeps
    <3> QED
      BY <3>1 DEF Consenting, Indices, CenterAt, TrueShare
  <2>2. CASE ~Answered(r)
    <3>1. \A f \in files : f.poly # r
      BY <2>2, OpenedIsAnswered
    <3>2. \A j : TrueShare(r, j) \notin files
      BY <3>1 DEF TrueShare
    <3>3. \A j : TrueShare(r, j)' \notin files
      BY <3>1 DEF TrueShare
    <3> QED
      BY <3>2, <3>3 DEF Consenting
  <2> QED
    BY <2>1, <2>2
<1> QED
  BY <1>1 DEF Consents

(* The centers that have consented are among the lock's n.                 *)
LEMMA ConsentingFinite ==
  ASSUME LockInv, NEW r \in Requests, Answered(r)
  PROVE  IsFiniteSet(Consenting(r))
<1> DEFINE asked == [j \in Opened(r) |-> CenterAt(r, j).id]
<1>1. job[r].n \in Nat /\ Indices(r) = 0 .. job[r].n - 1
  BY AnsweredFacts, ShareFacts DEF Indices
<1>2. IsFiniteSet(Opened(r))
  <2>1. IsFiniteSet(0 .. job[r].n - 1)
    BY <1>1, FS_Interval
  <2>2. Opened(r) \in SUBSET (0 .. job[r].n - 1)
    BY <1>1 DEF Opened
  <2> QED
    BY <2>1, <2>2, FS_Subset
<1>3. asked \in Surjection(Opened(r), Consenting(r))
  BY DEF Surjection, Consenting, Opened
<1> QED
  BY <1>2, <1>3, FS_Surjection

(* As many centers have consented as there are different points.           *)
LEMMA ConsentCount ==
  ASSUME LockInv, CenterInv, NEW r \in Requests, Answered(r),
         NEW shares \in SUBSET files, DistinctX(shares), \A f \in shares : f.poly = r
  PROVE  Cardinality(shares) <= Cardinality(Consenting(r))
<1> DEFINE holder == [f \in shares |-> CenterAt(r, f.x - 1).id]
<1>1. /\ GoodCenters(job[r]) /\ job[r].n \in Nat
      /\ Indices(r) = 0 .. job[r].n - 1 /\ Indices(r) \subseteq Nat
      /\ \A i \in Indices(r) : i + 1 \in DOMAIN job[r].centers
  BY AnsweredFacts, ShareFacts DEF Indices
<1>2. ASSUME NEW f \in shares
      PROVE  f.x - 1 \in Opened(r)
  <2>1. Decrypted(f) /\ f.poly = r
    <3>1. f.poly # Junk
      BY CenterAssumption
    <3> QED
      BY <3>1 DEF CenterInv, FilesInv
  <2>2. f.x - 1 \in Indices(r)
    BY <1>1, <2>1 DEF Decrypted
  <2> QED
    BY <2>1, <2>2 DEF Decrypted, Opened
<1>3. ASSUME NEW i \in Indices(r), NEW j \in Indices(r), i # j
      PROVE  CenterAt(r, i).id # CenterAt(r, j).id
  BY <1>1, <1>3 DEF GoodCenters, Distinct, CenterAt
<1>4. Consenting(r) = {CenterAt(r, j).id : j \in Opened(r)}
  BY DEF Consenting, Opened
<1>5. \A f \in shares : f.x \in Int
  BY DEF CenterInv, CenterTypeOK, Files
<1>6. holder \in Injection(shares, Consenting(r))
  <2>1. holder \in [shares -> Consenting(r)]
    BY <1>2, <1>4
  <2>2. ASSUME NEW f \in shares, NEW g \in shares, holder[f] = holder[g]
        PROVE  f = g
    <3>1. f.x - 1 = g.x - 1
      BY <1>2, <1>3, <2>2 DEF Opened
    <3> QED
      BY <1>5, <3>1 DEF DistinctX
  <2> HIDE DEF holder
  <2> QED
    BY <2>1, <2>2 DEF Injection, IsInjective
<1>7. IsFiniteSet(Consenting(r))
  BY ConsentingFinite
<1> QED
  BY <1>6, <1>7, FS_Injection

(* Nothing is sealed, nobody has consented.                                *)
LEMMA VaultInitially == SystemInit => Vault!VaultInit
<1> SUFFICES ASSUME SystemInit PROVE Vault!VaultInit
  OBVIOUS
<1>1. LockInv /\ now \in Nat
  BY SystemInvInit DEF SystemInv, LockInv, TermsInv, IInv, TypeOK, EnvTypeOK
<1>2. \A r \in Requests : Consenting(r) = {}
  BY DEF SystemInit, CenterInit, Consenting
<1>3. released = {}
  BY DEF SystemInit, CoordInit
<1> QED
  BY <1>1, <1>2, <1>3, SealedType DEF Vault!VaultInit, Vault!Terms

(* The terms of a lock can only change by its publication.                 *)
LEMMA SealedStays ==
  ASSUME LockInv, Keeps, NEW r \in Requests, Published(r)' <=> Published(r)
  PROVE  SealedTerms(r)' = SealedTerms(r)
<1>1. Published(r) => job'[r] = job[r]
  BY AnsweredFacts DEF Keeps
<1> QED
  BY <1>1 DEF SealedTerms

(* SealedType for all requests at once.                                    *)
LEMMA AllSealedType ==
  LockInv => \A r \in Requests : SealedTerms(r) \in SUBSET [k : Nat \ {0, 1}, opens : Nat]
BY SealedType

(* The same of the next state.                                             *)
LEMMA SealedTypeNext ==
  LockInv' => (\A r \in Requests : SealedTerms(r) \in SUBSET [k : Nat \ {0, 1}, opens : Nat])'
BY AllSealedType, PTL

(* The vault counts as the system does.                                    *)
LEMMA VaultCounts == \A S : Vault!Cardinality(S) = Cardinality(S)
BY DEF Vault!Cardinality, Cardinality, Vault!IsFiniteSet, IsFiniteSet

(* The arrival of a manifest seals a paper; everything else the service    *)
(* does, and its environment but for the clock, the vault does not see.    *)
LEMMA ServiceImplements ==
  ASSUME LockInv, CenterInv, LockInv', Keeps, [Next]_vars, UNCHANGED <<files, released>>
  PROVE  [Vault!VaultNext]_(Vault!vaultVars)
<1>1. Consents' = Consents /\ Out' = Out
  BY ConsentStays DEF Out
<1>2. CASE \E r \in Requests : Arrive(r)
  <2>1. PICK r \in Requests : Arrive(r)
    BY <1>2
  <2>2. OnlyFor(r) /\ now' = now
    BY <2>1, StepArrive DEF Arrive, LockInv, TermsInv, IInv
  <2>3. \A q \in Requests \ {r} : Published(q)' <=> Published(q)
    BY <2>2, ObjectsType DEF OnlyFor, Published
  <2>4. Published(r) => Published(r)'
    BY <2>2 DEF OnlyFor, Published
  <2>5. CASE Published(r)' <=> Published(r)
    <3>1. Sealed' = Sealed
      BY <2>3, <2>5, SealedStays DEF Sealed
    <3> QED
      BY <1>1, <2>2, <3>1 DEF Sealed, Consents, Out, Vault!vaultVars
  <2>6. CASE Published(r)' /\ ~Published(r)
    <3>1. \A q \in Requests \ {r} : Sealed'[q] = Sealed[q]
      BY <2>3, SealedStays DEF Sealed
    <3>2. Sealed[r] = {}
      BY <2>6, SealedType DEF Sealed
    <3>3. Sealed' \in [Requests -> SUBSET [k : Nat \ {0, 1}, opens : Nat]]
      <4>1. (\A q \in Requests : SealedTerms(q) \in SUBSET [k : Nat \ {0, 1}, opens : Nat])'
        BY SealedTypeNext
      <4> QED
        BY <4>1 DEF Sealed
    <3>4. Cardinality(Sealed'[r]) = 1
      <4>1. Sealed'[r] = {[k |-> job'[r].k, opens |-> job'[r].at + job'[r].lead]}
        BY <2>6 DEF Sealed, SealedTerms
      <4> QED
        BY <4>1, FS_Singleton
    <3>5. Vault!Seal(r)
      BY <1>1, <2>2, <3>1, <3>2, <3>3, <3>4, VaultCounts
      DEF Sealed, Consents, Out, Vault!Seal, Vault!Terms
    <3> QED
      BY <3>5 DEF Vault!VaultNext
  <2> QED
    BY <2>4, <2>5, <2>6
<1>3. CASE ~\E r \in Requests : Arrive(r)
  <2>1. UNCHANGED pinned
    BY <1>3 DEF Next, Submit, Handler, StartPipeline, WriteSecret, Generate, Lock, SecureDelete,
       SplitAndEncrypt, UploadPuzzle, UploadPayload, UploadShard, UploadManifest,
       Crash, Restart, EditRegistry, Environs, EnvNext, Tick, NodeStops, NodeStarts,
       envVars, vars
  <2>2. Sealed' = Sealed
    <3>1. \A r \in Requests : Published(r)' <=> Published(r)
      BY <2>1 DEF Published
    <3> QED
      BY <3>1, SealedStays DEF Sealed
  <2>3. now' = now \/ now' = now + 1
    BY <1>3 DEF Next, Submit, Handler, StartPipeline, WriteSecret, Generate, Lock, SecureDelete,
       SplitAndEncrypt, UploadPuzzle, UploadPayload, UploadShard, UploadManifest,
       Crash, Restart, EditRegistry, Environs, EnvNext, Tick, NodeStops, NodeStarts,
       envVars, vars
  <2>4. CASE now' = now
    BY <1>1, <2>2, <2>4 DEF Sealed, Consents, Out, Vault!vaultVars
  <2>5. CASE now' = now + 1
    BY <1>1, <2>2, <2>5 DEF Sealed, Consents, Out, Vault!VaultNext, Vault!Pass
  <2> QED
    BY <2>3, <2>4, <2>5
<1> QED
  BY <1>2, <1>3

(* A center that decrypts its shard consents; an altered file is no        *)
(* consent.                                                                *)
LEMMA CentersImplement ==
  ASSUME LockInv, CenterInv, CenterNext, UNCHANGED coordVars
  PROVE  [Vault!VaultNext]_(Vault!vaultVars)
<1>1. UNCHANGED <<now, pinned, job, reply>> /\ released' = released
  BY DEF CenterNext, vars, envVars, svcVars, coordVars
<1>2. Sealed' = Sealed /\ Out' = Out
  BY <1>1 DEF Sealed, SealedTerms, Published, Out
<1>3. \A r, j : /\ TrueShare(r, j)' = TrueShare(r, j) /\ CenterAt(r, j)' = CenterAt(r, j)
                /\ Indices(r)' = Indices(r)
  BY <1>1 DEF TrueShare, CenterAt, Indices
<1>4. files \subseteq files'
  BY CenterInvNext
<1>5. ASSUME \A r \in Requests : \A j \in Indices(r) :
                TrueShare(r, j) \in files' => TrueShare(r, j) \in files
      PROVE  [Vault!VaultNext]_(Vault!vaultVars)
  <2>1. Consents' = Consents
    <3>1. \A r \in Requests : Consenting(r)' = Consenting(r)
      BY <1>3, <1>4, <1>5 DEF Consenting
    <3> QED
      BY <3>1 DEF Consents
  <2> QED
    BY <1>1, <1>2, <2>1 DEF Sealed, Consents, Out, Vault!vaultVars
<1>6. CASE Tamper
  <2>1. ASSUME NEW r \in Requests, NEW j \in Indices(r), TrueShare(r, j) \in files'
        PROVE  TrueShare(r, j) \in files
    <3>1. r # Junk /\ TrueShare(r, j).poly = r /\ TrueShare(r, j).x = j + 1
      BY CenterAssumption DEF TrueShare
    <3>2. PICK g \in files : g.poly = r /\ g.x = j + 1
      BY <1>6, <2>1, <3>1, TamperAddsNoPoint DEF Known
    <3>3. Answered(r) /\ TrueShare(r, g.x - 1) \in files
      BY <3>1, <3>2 DEF CenterInv, FilesInv, Decrypted
    <3>4. g.x - 1 = j
      BY <3>2, <3>3, ShareFacts
    <3> QED
      BY <3>3, <3>4
  <2> QED
    BY <1>5, <2>1
<1>7. ASSUME NEW c \in Centers, CenterStep(c), files' # files
      PROVE  [Vault!VaultNext]_(Vault!vaultVars)
  <2> PICK r, i : r = run[c].req /\ i = MyIndex(c)
    OBVIOUS
  <2>1. /\ run[c].stage = "shard" /\ files' = files \cup {TrueShare(r, i)}
    BY <1>7 DEF CenterStep, RotateKey, StartDecrypt, FetchManifest, FetchShard, MyShare
  <2>2. /\ r \in Requests /\ Answered(r) /\ i \in Indices(r) /\ CenterAt(r, i).id = c
    BY <2>1, MyIndexFacts
  <2>3. \A q, j : TrueShare(q, j) = TrueShare(r, i) => q = r /\ j = i
    BY DEF TrueShare
  <2>4. \A q \in Requests \ {r} : Consenting(q)' = Consenting(q)
    BY <1>3, <2>1, <2>3 DEF Consenting
  <2>5. Consenting(r)' = Consenting(r) \cup {c}
    <3>1. Opened(r)' = Opened(r) \cup {i}
      BY <1>3, <2>1, <2>2, <2>3 DEF Opened
    <3>2. /\ Consenting(r) = {CenterAt(r, j).id : j \in Opened(r)}
          /\ Consenting(r)' = {CenterAt(r, j).id : j \in Opened(r) \cup {i}}
      BY <1>3, <3>1 DEF Consenting, Opened
    <3> QED
      BY <2>2, <3>2
  <2>6. Consents' = [Consents EXCEPT ![r] = @ \cup {c}]
    <3>1. \A q \in Requests : Consents'[q] = Consenting(q)' /\ Consents[q] = Consenting(q)
      BY DEF Consents
    <3>2. DOMAIN Consents = Requests /\ DOMAIN Consents' = Requests
      BY DEF Consents
    <3> DEFINE added == [Consents EXCEPT ![r] = @ \cup {c}]
    <3>3. \A q \in Requests : Consents'[q] = added[q]
      <4>1. added[r] = Consents[r] \cup {c} /\ \A q \in Requests \ {r} : added[q] = Consents[q]
        BY <2>2, <3>2
      <4> QED
        BY <2>2, <2>4, <2>5, <3>1, <4>1
    <3>4. Consents' = [q \in Requests |-> Consents'[q]]
      BY DEF Consents
    <3> QED
      BY <3>2, <3>3, <3>4
  <2>7. Sealed[r] # {}
    BY <2>2, AnsweredFacts, SealedType DEF Sealed
  <2>8. Vault!Consent(r, c)
    BY <1>1, <1>2, <2>6, <2>7 DEF Sealed, Consents, Out, Vault!Consent
  <2> QED
    BY <2>2, <2>8 DEF Vault!VaultNext
<1> QED
  BY <1>5, <1>6, <1>7 DEF CenterNext

(* On every machine one of the two time locks holds.                       *)
TimeLocksSound == \A setup \in Setups : Gated(setup) \/ setup.rate <= AdminRate

(* A paper that is written out may be opened: enough centers have          *)
(* consented, as many different points gave its key, and its time has come *)
(* by the time lock that is sound on that machine.                         *)
LEMMA OutMayOpen ==
  ASSUME LockInv, CenterInv, TimeLocksSound,
         NEW p, RightlyOut(p), p.from \subseteq files, p.at = now
  PROVE  Vault!MayOpen(p.req)
<1> DEFINE r == p.req
           t == [k |-> job[r].k, opens |-> Start(r)]
<1>1. r \in Requests /\ Answered(r) /\ p.from \in SUBSET files /\ DistinctX(p.from)
  BY DEF RightlyOut
<1>2. Sealed[r] = {t}
  BY <1>1, AnsweredFacts, SealedType DEF Sealed
<1>3. now >= Start(r)
  BY DEF RightlyOut, TimeLocksSound
<1>4. Cardinality(Consents[r]) >= job[r].k
  <2>1. Cardinality(p.from) >= job[r].k /\ \A f \in p.from : f.poly = r
    BY DEF RightlyOut, YieldsKey
  <2>2. Cardinality(p.from) <= Cardinality(Consenting(r))
    BY <1>1, <2>1, ConsentCount
  <2>3. /\ Cardinality(p.from) \in Nat /\ Cardinality(Consenting(r)) \in Nat
        /\ job[r].k \in Nat
    <3>1. IsFiniteSet(p.from) /\ IsFiniteSet(Consenting(r))
      BY <1>1, FS_Subset, ConsentingFinite DEF CenterInv, FilesInv
    <3> QED
      BY <1>1, <3>1, FS_CardinalityType DEF LockInv, TermsInv, IInv, TypeOK, Jobs
  <2> QED
    BY <1>1, <2>1, <2>2, <2>3 DEF Consents
<1>5. t.opens = Start(r) /\ t.k = job[r].k
  OBVIOUS
<1> HIDE DEF t
<1> QED
  BY <1>2, <1>3, <1>4, <1>5, VaultCounts DEF Vault!MayOpen, Sealed, Consents

(* The coordinator shows the vault nothing but the release of a paper.     *)
LEMMA CoordImplements ==
  ASSUME LockInv, CenterInv, CoordInv, FromFiles, TimeLocksSound, CoordNext
  PROVE  [Vault!VaultNext]_(Vault!vaultVars)
<1>1. UNCHANGED <<now, pinned, job, reply, files>>
  BY DEF CoordNext, vars, envVars, svcVars, centerVars
<1>2. Sealed' = Sealed /\ Consents' = Consents
  BY <1>1 DEF Sealed, SealedTerms, Published, Consents, Consenting, Indices, TrueShare, CenterAt
<1>3. CASE released' = released
  BY <1>1, <1>2, <1>3 DEF Sealed, Consents, Out, Vault!vaultVars
<1>4. CASE released' # released
  <2>1. Solve /\ ~Fails
    BY <1>4 DEF CoordNext, CoordStep, StartCombine, ReadShares, PassGate, OpenPayload,
       FetchPuzzle, FetchFrom, NextNode, Solve, CoordCrash, Fails, Proceed
  <2>2. PICK p : p.at = now /\ released' = released \cup {p}
    BY <2>1 DEF Solve
  <2>3. RightlyOut(p)
    <3>1. CoordInv'
      BY <2>1, StepSolve DEF CoordNext
    <3>2. RightlyOut(p)'
      BY <2>2, <3>1 DEF CoordInv
    <3> QED
      BY <1>1, <3>2 DEF RightlyOut, YieldsKey, Start, DistinctX, Answered
  <2>4. p.from \subseteq files
    <3>1. FromFiles'
      BY <1>1, FromFilesNext DEF CoordNext
    <3> QED
      BY <1>1, <2>2, <3>1 DEF FromFiles
  <2>5. Vault!MayOpen(p.req) /\ p.req \in Requests
    BY <2>2, <2>3, <2>4, OutMayOpen DEF RightlyOut
  <2>6. Out' = Out \cup {p.req}
    BY <2>2 DEF Out
  <2>7. Vault!Release(p.req)
    BY <1>1, <1>2, <2>5, <2>6 DEF Sealed, Consents, Out, Vault!Release
  <2> QED
    BY <2>5, <2>7 DEF Vault!VaultNext
<1> QED
  BY <1>3, <1>4

(* Every step of the system is one of the vault, or the vault does not     *)
(* notice it.                                                              *)
LEMMA StepsImplement ==
  TimeLocksSound /\ SystemInv /\ SystemInv' /\ [SystemNext]_systemVars =>
    [Vault!VaultNext]_(Vault!vaultVars)
<1> SUFFICES ASSUME TimeLocksSound, SystemInv, SystemInv', [SystemNext]_systemVars
             PROVE  [Vault!VaultNext]_(Vault!vaultVars)
  OBVIOUS
<1>1. LockInv /\ CenterInv /\ CoordInv /\ FromFiles /\ LockInv'
  BY DEF SystemInv
<1>2. Keeps /\ [Next]_vars
  BY <1>1, ServiceSteps, SystemInvNext
<1>3. CASE CenterNext /\ UNCHANGED coordVars
  BY <1>1, <1>3, CentersImplement
<1>4. CASE CoordNext
  BY <1>1, <1>4, CoordImplements
<1>5. CASE UNCHANGED <<centerVars, coordVars>>
  BY <1>1, <1>2, <1>5, ServiceImplements DEF centerVars, coordVars
<1> QED
  BY <1>3, <1>4, <1>5 DEF SystemNext, systemVars

(* The whole system implements ExamVault, if on every machine one of the   *)
(* two time locks is sound: the gate is in force and the clock not fast,   *)
(* or the machine no faster than the administrator's.  Altered share files *)
(* and manifests do not matter to it.                                      *)
THEOREM SystemImplementsExamVault ==
  ASSUME \A setup \in Setups : Gated(setup) \/ setup.rate <= AdminRate
  PROVE  SystemSpec => ImplementsExamVault
<1>1. TimeLocksSound
  BY DEF TimeLocksSound
<1>2. SystemInv /\ SystemInv' /\ [SystemNext]_systemVars => [Vault!VaultNext]_(Vault!vaultVars)
  BY <1>1, StepsImplement
<1> QED
  BY <1>2, VaultInitially, SystemInvariant, PTL DEF SystemSpec, ImplementsExamVault, Vault!VaultSpec
-----------------------------------------------------------------------------
(***************************************************************************)
(* reconstruct.py run on one machine: with whatever keypair files, altered *)
(* manifest, clock and hardware, it brings no paper out before its start,  *)
(* next to a lock service that locks, crashes and is started again, and to *)
(* centers that decrypt, rotate their keys and have their share files      *)
(* altered.                                                                *)
(***************************************************************************)
SoloSystemInit == Init /\ CenterInit /\ CoordInit /\ solo = NoSolo

SoloSystemNext ==
  \/ SoloNext
  \/ Next /\ UNCHANGED <<centerVars, coordVars, solo>>
  \/ CenterNext /\ UNCHANGED <<coordVars, solo>>

SoloSystemSpec == SoloSystemInit /\ [][SoloSystemNext]_soloVars

(***************************************************************************)
(* What a run has checked until it has its shares: the lock it is for was  *)
(* answered 201, the manifest is that lock's or an altered one, and every  *)
(* index it has a key for, and so every share it can decrypt, is one of    *)
(* the lock's; it asks for those of the k lowest.  From the gate on, what  *)
(* CoordInv says holds of it, and its shares suffice.                      *)
(***************************************************************************)
SoloRunInv ==
  solo # NoSolo =>
    /\ solo.req \in Requests /\ Answered(solo.req)
    /\ solo.manifest \in Manifests(solo.req) /\ solo.setup \in Setups
    /\ solo.stage \in {"resolve", "manifest", "shards"}
    /\ solo.stage \in {"manifest", "shards"} => DOMAIN solo.keys \subseteq Indices(solo.req)
    /\ solo.stage = "shards" =>
         /\ solo = [stage |-> solo.stage, req |-> solo.req, manifest |-> solo.manifest,
                    setup |-> solo.setup, keys |-> solo.keys, asks |-> solo.asks,
                    got |-> solo.got]
         /\ DOMAIN solo.asks = Lowest(solo.manifest.k, DOMAIN solo.keys)
         /\ Cardinality(DOMAIN solo.keys) >= solo.manifest.k
         /\ solo.got \subseteq DOMAIN solo.asks

SoloInv == LockInv /\ CenterInv /\ CoordInv /\ SoloRunInv /\ SharesSuffice
-----------------------------------------------------------------------------
(* The k lowest of at least k indices are k.                               *)
LEMMA LowestCount ==
  ASSUME NEW S \in SUBSET Nat, IsFiniteSet(S), NEW k \in Nat, k <= Cardinality(S)
  PROVE  IsFiniteSet(Lowest(k, S)) /\ Cardinality(Lowest(k, S)) = k
<1> DEFINE Below(i) == {j \in S : j < i}
           Counts == {m \in Nat : m <= Cardinality(S) => Cardinality(Lowest(m, S)) = m}
<1>1. \A m : Lowest(m, S) \subseteq S /\ IsFiniteSet(Lowest(m, S))
  BY FS_Subset DEF Lowest
<1>2. \A i : IsFiniteSet(Below(i)) /\ Cardinality(Below(i)) \in Nat
  BY FS_Subset, FS_CardinalityType
<1>3. \A m : Lowest(m, S) = {i \in S : Cardinality(Below(i)) < m}
  BY DEF Lowest
<1>4. ASSUME NEW i \in S, NEW j \in S, i < j
      PROVE  Below(i) \cup {i} \subseteq Below(j)
  <2>1. ASSUME NEW h \in S, h < i PROVE h < j
    <3>1. h \in Nat /\ i \in Nat /\ j \in Nat
      OBVIOUS
    <3> QED
      BY <1>4, <2>1, <3>1
  <2> QED
    BY <1>4, <2>1
<1>5. ASSUME NEW i \in S, NEW j \in S, i < j
      PROVE  Cardinality(Below(i)) + 1 <= Cardinality(Below(j))
  <2>1. i \notin Below(i)
    OBVIOUS
  <2>2. Cardinality(Below(i) \cup {i}) = Cardinality(Below(i)) + 1
    BY <1>2, <2>1, FS_AddElement
  <2>3. Cardinality(Below(i) \cup {i}) <= Cardinality(Below(j))
    BY <1>2, <1>4, <1>5, FS_Subset
  <2> QED
    BY <2>2, <2>3
<1> HIDE DEF Below
<1>6. 0 \in Counts
  <2>1. Lowest(0, S) = {}
    BY <1>2, <1>3
  <2> QED
    BY <2>1, FS_EmptySet
<1>7. ASSUME NEW m \in Nat, m \in Counts
      PROVE  m + 1 \in Counts
  <2> SUFFICES ASSUME m + 1 <= Cardinality(S)
               PROVE  Cardinality(Lowest(m + 1, S)) = m + 1
    OBVIOUS
  <2> DEFINE L == Lowest(m, S)
  <2>1. Cardinality(S) \in Nat /\ Cardinality(L) = m /\ L \subseteq S /\ IsFiniteSet(L)
    BY <1>1, <1>7, FS_CardinalityType
  <2>2. S \ L # {} /\ S \ L \in SUBSET Nat
    <3>1. L # S
      BY <2>1
    <3> QED
      BY <2>1, <3>1
  <2>3. PICK least \in S \ L : \A i \in S \ L : least <= i
    BY <2>2, LeastOf
  <2>4. Below(least) = L
    <3>1. ASSUME NEW j \in Below(least) PROVE j \in L
      BY <2>3, <3>1 DEF Below
    <3>2. ASSUME NEW j \in L PROVE j < least
      <4>1. j \in S /\ Cardinality(Below(j)) < m
        BY <1>3, <3>2
      <4>2. ~ (least < j)
        <5> SUFFICES ASSUME least < j PROVE FALSE
          OBVIOUS
        <5>1. Cardinality(Below(least)) < m
          BY <1>2, <1>5, <4>1, <2>3
        <5> QED
          BY <1>3, <2>3, <5>1
      <4> QED
        BY <2>3, <3>2, <4>1, <4>2
    <3> QED
      BY <2>1, <3>1, <3>2 DEF Below
  <2>5. Lowest(m + 1, S) = L \cup {least}
    <3>1. ASSUME NEW i \in S \ L, i # least PROVE ~ (Cardinality(Below(i)) < m + 1)
      BY <1>2, <1>5, <2>1, <2>3, <2>4, <3>1
    <3>2. Cardinality(Below(least)) < m + 1
      BY <2>1, <2>4
    <3>3. \A i \in L : Cardinality(Below(i)) < m + 1
      BY <1>2, <1>3
    <3> QED
      BY <1>3, <2>1, <2>3, <3>1, <3>2, <3>3
  <2>6. least \notin L
    BY <2>3
  <2>7. Cardinality(L \cup {least}) = Cardinality(L) + 1
    BY <2>1, <2>6, FS_AddElement
  <2> QED
    BY <2>1, <2>5, <2>7
<1>8. k \in Counts
  <2> HIDE DEF Counts
  <2> QED
    BY <1>6, <1>7, InductionOnSet
<1> QED
  BY <1>1, <1>8

(* Nothing the others do takes anything from what a run has checked.       *)
LEMMA SoloUntouched ==
  ASSUME LockInv, SoloRunInv, Keeps, UNCHANGED solo
  PROVE  SoloRunInv'
<1> SUFFICES ASSUME solo # NoSolo PROVE SoloRunInv'
  BY DEF SoloRunInv
<1>1. solo.req \in Requests /\ Answered(solo.req)
  BY DEF SoloRunInv
<1>2. Answered(solo.req)' /\ job'[solo.req] = job[solo.req]
  BY <1>1, AnsweredFacts DEF Keeps
<1>3. /\ Manifests(solo.req)' = Manifests(solo.req)
      /\ Indices(solo.req)' = Indices(solo.req)
  BY <1>2 DEF Manifests, SignedManifest, Indices
<1> QED
  BY <1>1, <1>2, <1>3 DEF SoloRunInv

(* The steps until the shares are there.                                   *)
LEMMA SoloRunSteps ==
  ASSUME LockInv, SoloRunInv, UNCHANGED <<vars, centerVars>>,
         \/ \E r \in Requests, given \in Givens : StartSolo(r, given)
         \/ ResolveKeys \/ VerifyManifest \/ FetchShards \/ SoloKilled
  PROVE  SoloRunInv' /\ UNCHANGED coordVars
<1>1. \A r : /\ Answered(r)' <=> Answered(r)
             /\ Manifests(r)' = Manifests(r) /\ Indices(r)' = Indices(r)
  BY DEF vars, svcVars, Answered, Manifests, SignedManifest, Indices
<1>2. CASE SoloEnds
  BY <1>2 DEF SoloEnds, SoloRunInv
<1>3. ASSUME NEW r \in Requests, NEW given \in Givens, StartSolo(r, given)
      PROVE  SoloRunInv' /\ UNCHANGED coordVars
  <2>1. PICK setup \in Setups, m \in Manifests(r) :
          solo' = [stage |-> "resolve", req |-> r, given |-> given, manifest |-> m,
                   setup |-> setup]
    BY <1>3 DEF StartSolo
  <2>2. /\ solo'.stage = "resolve" /\ solo'.req = r
        /\ solo'.manifest = m /\ solo'.setup = setup
    BY <2>1
  <2>3. Answered(r)
    BY <1>3 DEF StartSolo, Answered
  <2> QED
    BY <1>1, <1>3, <2>1, <2>2, <2>3 DEF StartSolo, SoloRunInv
<1>4. CASE ResolveKeys /\ ~SoloEnds
  <2> DEFINE r == solo.req
             held == [i \in IndicesOf(r, solo.given) |-> ownKey[CenterAt(r, i).id]]
  <2>1. /\ solo.stage = "resolve"
        /\ solo' = [stage |-> "manifest", req |-> r, manifest |-> solo.manifest,
                    setup |-> solo.setup, keys |-> held]
        /\ UNCHANGED coordVars
    BY <1>4 DEF ResolveKeys
  <2>2. solo # NoSolo
    BY <2>1 DEF NoSolo
  <2>3. DOMAIN held \subseteq Indices(r)
    BY DEF IndicesOf
  <2> HIDE DEF held
  <2>4. /\ solo'.stage = "manifest" /\ solo'.req = r /\ solo'.manifest = solo.manifest
        /\ solo'.setup = solo.setup /\ solo'.keys = held
    BY <2>1
  <2> QED
    BY <1>1, <2>1, <2>2, <2>3, <2>4 DEF SoloRunInv
<1>5. CASE VerifyManifest /\ ~SoloEnds
  <2> DEFINE first == [i \in Lowest(solo.manifest.k, DOMAIN solo.keys) |-> 0]
  <2>1. /\ solo.stage = "manifest"
        /\ solo' = [stage |-> "shards", req |-> solo.req, manifest |-> solo.manifest,
                    setup |-> solo.setup, keys |-> solo.keys, asks |-> first, got |-> {}]
        /\ UNCHANGED coordVars
    BY <1>5 DEF VerifyManifest
  <2>2. solo # NoSolo
    BY <2>1 DEF NoSolo
  <2>3. /\ DOMAIN first = Lowest(solo.manifest.k, DOMAIN solo.keys)
        /\ Cardinality(DOMAIN solo.keys) >= solo.manifest.k
    BY <1>5 DEF VerifyManifest, Enough
  <2> HIDE DEF first
  <2>4. /\ solo'.stage = "shards" /\ solo'.req = solo.req /\ solo'.manifest = solo.manifest
        /\ solo'.setup = solo.setup /\ solo'.keys = solo.keys /\ solo'.asks = first
        /\ solo'.got = {}
    BY <2>1
  <2> QED
    BY <1>1, <2>1, <2>2, <2>3, <2>4 DEF SoloRunInv
<1>6. CASE FetchShards /\ ~SoloEnds
  <2>1. PICK i \in DOMAIN solo.asks \ solo.got : FetchOneShard(i)
    BY <1>6 DEF FetchShards
  <2>2. solo.stage = "shards" /\ solo # NoSolo
    BY <1>6 DEF FetchShards, NoSolo
  <2>3. /\ UNCHANGED coordVars
        /\ \/ solo' = [solo EXCEPT !.got = @ \cup {i}]
           \/ \E node : solo' = [solo EXCEPT !.asks[i] = node]
    BY <1>6, <2>1 DEF FetchOneShard
  <2>4. solo = [stage |-> solo.stage, req |-> solo.req, manifest |-> solo.manifest,
                setup |-> solo.setup, keys |-> solo.keys, asks |-> solo.asks, got |-> solo.got]
    BY <2>2 DEF SoloRunInv
  <2>5. /\ solo'.stage = solo.stage /\ solo'.req = solo.req
        /\ solo'.manifest = solo.manifest /\ solo'.setup = solo.setup
        /\ solo'.keys = solo.keys /\ DOMAIN solo'.asks = DOMAIN solo.asks
        /\ solo'.got \subseteq solo.got \cup {i}
        /\ solo' = [stage |-> solo'.stage, req |-> solo'.req, manifest |-> solo'.manifest,
                    setup |-> solo'.setup, keys |-> solo'.keys, asks |-> solo'.asks,
                    got |-> solo'.got]
    BY <2>3, <2>4
  <2> QED
    BY <1>1, <2>1, <2>2, <2>3, <2>5 DEF SoloRunInv
<1>7. SoloKilled => SoloEnds
  BY DEF SoloKilled
<1> QED
  BY <1>2, <1>3, <1>4, <1>5, <1>6, <1>7 DEF SoloEnds

(* The shares of the k lowest indices of a lock are k of its points.       *)
LEMMA LowestSuffice ==
  ASSUME LockInv, NEW r \in Requests, Answered(r),
         NEW held \in SUBSET Indices(r), Cardinality(held) >= job[r].k,
         NEW shares, shares = {TrueShare(r, i) : i \in Lowest(job[r].k, held)}
  PROVE  Combinable(SignedManifest(r), shares) /\ Opens(SignedManifest(r), shares)
<1> DEFINE k == job[r].k
           share == [i \in Lowest(k, held) |-> TrueShare(r, i)]
<1>1. /\ job[r].n \in Nat /\ k \in Nat /\ Indices(r) = 0 .. job[r].n - 1
      /\ Indices(r) \subseteq Nat
  BY AnsweredFacts, ShareFacts DEF Indices, GoodCenters, LockInv, TermsInv, IInv, TypeOK, Jobs
<1>2. held \in SUBSET Nat /\ IsFiniteSet(held)
  BY <1>1, FS_Interval, FS_Subset
<1>3. IsFiniteSet(Lowest(k, held)) /\ Cardinality(Lowest(k, held)) = k
  BY <1>1, <1>2, LowestCount
<1>4. Lowest(k, held) \subseteq Nat
  BY <1>2 DEF Lowest
<1>5. share \in Surjection(Lowest(k, held), shares) /\ share \in Injection(Lowest(k, held), shares)
  BY DEF Surjection, Injection, IsInjective, TrueShare
<1> HIDE DEF share
<1>6. Cardinality(shares) = k
  BY <1>3, <1>5, FS_Surjection
<1>7. DistinctX(shares)
  BY <1>4 DEF DistinctX, TrueShare
<1>8. \A f \in shares : f.poly = r
  BY DEF TrueShare
<1>9. /\ SignedManifest(r).k = k /\ SignedManifest(r).payload = r
      /\ SignedManifest(r).round = job[r].round
  BY DEF SignedManifest
<1> QED
  BY <1>1, <1>6, <1>7, <1>8, <1>9 DEF Combinable, Opens, YieldsKey

(* Shares that suffice still do, whatever the others do.                   *)
LEMMA SufficeUntouched ==
  ASSUME LockInv, CoordInv, SharesSuffice, Keeps, UNCHANGED coordVars
  PROVE  SharesSuffice'
<1> SUFFICES ASSUME coord.stage \in {"gate", "payload"} PROVE SharesSuffice'
  BY DEF SharesSuffice, coordVars
<1>1. coord # NoRun
  BY DEF NoRun
<1>2. coord.req \in Requests /\ Answered(coord.req)
  BY <1>1, RunFacts
<1>3. job'[coord.req] = job[coord.req]
  BY <1>2, AnsweredFacts DEF Keeps
<1>4. coord' = coord /\ SignedManifest(coord.req)' = SignedManifest(coord.req)
  BY <1>3 DEF coordVars, SignedManifest
<1>5. SignedManifest(coord.req).payload = coord.req
  BY DEF SignedManifest
<1> QED
  BY <1>3, <1>4, <1>5
  DEF SharesSuffice, Combinable, DistinctX, Opens, YieldsKey

(* From the gate on a run keeps its shares and its manifest.               *)
LEMMA SufficeSteps ==
  ASSUME SharesSuffice, CoordInv, UNCHANGED <<vars, centerVars>>,
         PassGate \/ OpenPayload \/ FetchPuzzle \/ Solve \/ CoordCrash
  PROVE  SharesSuffice'
<1>1. UNCHANGED job
  BY DEF vars, svcVars
<1>2. CASE coord' = NoRun
  BY <1>2 DEF SharesSuffice, NoRun
<1>3. CASE \E stage, node : Proceed(stage, node) /\ coord.stage \in {"gate", "payload"}
  <2>1. coord # NoRun
    BY <1>3 DEF NoRun
  <2>2. coord \in CoordRuns
    BY <2>1, RunFacts
  <2>3. /\ coord'.req = coord.req /\ coord'.shares = coord.shares
        /\ coord'.manifest = coord.manifest
    BY <1>3, <2>2 DEF Proceed, CoordRuns
  <2> QED
    BY <1>1, <1>3, <2>3
    DEF SharesSuffice, SignedManifest, Combinable, DistinctX, Opens, YieldsKey
<1>4. CASE coord.stage = "puzzle" /\ coord'.stage \in {"puzzle", "solve"}
  BY <1>4 DEF SharesSuffice
<1>5. CASE PassGate \/ OpenPayload
  BY <1>2, <1>3, <1>5 DEF PassGate, OpenPayload, FetchFrom, NextNode, Fails
<1>6. CASE FetchPuzzle
  <2>1. coord.stage = "puzzle" /\ coord \in CoordRuns
    BY <1>6, RunFacts DEF FetchPuzzle, NoRun
  <2>2. coord' = NoRun \/ coord'.stage \in {"puzzle", "solve"}
    BY <1>6, <2>1 DEF FetchPuzzle, FetchFrom, NextNode, Proceed, Fails, CoordRuns
  <2> QED
    BY <1>2, <1>4, <2>1, <2>2
<1>7. CASE Solve \/ CoordCrash
  BY <1>2, <1>7 DEF Solve, CoordCrash, Fails
<1> QED
  BY <1>5, <1>6, <1>7

(* The shares a run has decrypted are those of its lock, so they pass for  *)
(* those of a coordinator that stands before its gate, and they suffice.   *)
LEMMA CombineStep ==
  ASSUME LockInv, CoordInv, SoloRunInv, UNCHANGED <<vars, centerVars>>, Combine
  PROVE  CoordInv' /\ SoloRunInv' /\ SharesSuffice'
<1> PICK r, m, setup, shares :
       /\ r = solo.req /\ m = solo.manifest /\ setup = solo.setup
       /\ shares = {TrueShare(r, i) : i \in solo.got}
  OBVIOUS
<1> DEFINE new == [stage |-> "gate", req |-> r, shares |-> shares, manifest |-> m,
                   setup |-> setup, node |-> 0, since |-> 0]
<1>1. solo.stage = "shards" /\ coord' = new /\ solo' = NoSolo /\ released' = released
  BY DEF Combine, CombineFrom
<1>2. solo # NoSolo
  BY <1>1 DEF NoSolo
<1>3. /\ r \in Requests /\ Answered(r) /\ m \in Manifests(r) /\ setup \in Setups
      /\ solo.got = Lowest(m.k, DOMAIN solo.keys)
      /\ DOMAIN solo.keys \in SUBSET Indices(r) /\ Cardinality(DOMAIN solo.keys) >= m.k
      /\ solo.got \subseteq Indices(r)
  BY <1>1, <1>2 DEF SoloRunInv, Combine, CombineFrom, Lowest
<1>4. shares \in SUBSET Files
  BY <1>3, ShareFacts
<1>5. Earned(shares)
  BY <1>3 DEF Earned, TrueShare
<1>6. m \in ManifestForms /\ 0 \in Nodes
  BY <1>3, ManifestsType, ClusterAssumption DEF Nodes
<1>7. /\ new \in CoordRuns /\ new.stage = "gate" /\ new.req = r /\ new.shares = shares
      /\ new.manifest = m
  BY <1>3, <1>4, <1>6 DEF CoordRuns, CoordStages
<1> HIDE DEF new
<1>8. Earned(shares)' /\ Answered(r)' /\ (m \in Manifests(r))'
  BY <1>3, <1>5 DEF vars, svcVars, Earned, Answered, Manifests, SignedManifest
<1>9. CoordRunInv'
  BY <1>1, <1>7, <1>8 DEF CoordRunInv
<1>10. CoordInv'
  BY <1>1, <1>9, ReleasedStay DEF CoordInv
<1>11. ASSUME m = SignedManifest(r)
       PROVE  Combinable(m, shares) /\ Opens(m, shares)
  <2>1. m.k = job[r].k
    BY <1>11 DEF SignedManifest
  <2>2. shares = {TrueShare(r, i) : i \in Lowest(job[r].k, DOMAIN solo.keys)}
    BY <1>3, <2>1
  <2> QED
    BY <1>3, <1>11, <2>1, <2>2, LowestSuffice
<1>12. SharesSuffice'
  <2>1. job' = job
    BY DEF vars, svcVars
  <2> QED
    BY <1>1, <1>7, <1>11, <2>1
    DEF SharesSuffice, SignedManifest, Combinable, DistinctX, Opens, YieldsKey
<1> QED
  BY <1>1, <1>10, <1>12 DEF SoloRunInv

(* Nobody has run it yet.                                                  *)
LEMMA SoloInvInit == SoloSystemInit => SoloInv
  BY LockInvInit, CenterInvInit, CoordInvInit
  DEF SoloSystemInit, SoloInv, SoloRunInv, SharesSuffice, CoordInit, NoRun

(* The invariant is kept by every step of the program, the service, the    *)
(* centers, the nodes and the clock.                                       *)
LEMMA SoloInvNext == SoloInv /\ [SoloSystemNext]_soloVars => SoloInv'
<1> SUFFICES ASSUME SoloInv, [SoloSystemNext]_soloVars PROVE SoloInv'
  OBVIOUS
<1>1. LockInv /\ CenterInv /\ CoordInv /\ SoloRunInv /\ SharesSuffice
  BY DEF SoloInv
<1>2. [Next]_vars
  BY DEF SoloSystemNext, SoloNext, soloVars, CenterNext, EnvNext, Next, Environs, vars
<1>3. LockInv' /\ Keeps
  BY <1>1, <1>2, LockInvNext
<1>4. CASE CenterNext /\ UNCHANGED <<coordVars, solo>>
  BY <1>1, <1>3, <1>4, CenterInvNext, CoordUntouched, SoloUntouched,
     SufficeUntouched DEF SoloInv
<1>5. CASE (\E c \in Centers : RotateKey(c)) /\ UNCHANGED <<vars, coordVars, solo>>
  BY <1>4, <1>5 DEF CenterNext, CenterStep
<1>6. CASE UNCHANGED <<centerVars, coordVars, solo>>
  BY <1>1, <1>3, <1>6, CenterUntouched, CoordUntouched, SoloUntouched,
     SufficeUntouched DEF SoloInv, centerVars
<1>7. CASE /\ SoloStep \/ \E r \in Requests, given \in Givens : StartSolo(r, given)
           /\ UNCHANGED <<vars, centerVars>>
  <2>1. CenterInv'
    BY <1>1, <1>3, <1>7, CenterUntouched DEF centerVars
  <2>2. CASE \/ \E r \in Requests, given \in Givens : StartSolo(r, given)
             \/ ResolveKeys \/ VerifyManifest \/ FetchShards \/ SoloKilled
    BY <1>1, <1>3, <1>7, <2>1, <2>2, SoloRunSteps, CoordUntouched,
       SufficeUntouched DEF SoloInv
  <2>3. CASE Combine
    BY <1>1, <1>3, <1>7, <2>1, <2>3, CombineStep DEF SoloInv
  <2>4. CASE (PassGate \/ OpenPayload \/ FetchPuzzle \/ Solve \/ CoordCrash) /\ UNCHANGED solo
    <3>1. CoordInv'
      BY <1>1, <1>7, <2>4, StepGate, StepPayload, StepPuzzle, StepSolve, ReleasedStay
      DEF CoordCrash
    <3> QED
      BY <1>1, <1>3, <1>7, <2>1, <2>4, <3>1, SoloUntouched, SufficeSteps DEF SoloInv
  <2> QED
    BY <1>7, <2>2, <2>3, <2>4 DEF SoloStep
<1> QED
  BY <1>4, <1>5, <1>6, <1>7 DEF SoloSystemNext, SoloNext, soloVars, vars

(* SoloInv holds in every reachable state.                                 *)
LEMMA SoloInvariant == SoloSystemSpec => []SoloInv
  BY SoloInvInit, SoloInvNext, PTL DEF SoloSystemSpec

(* On the solo path too, no hardware brings a paper out before its start   *)
(* with the gate in force and a clock that is not fast.                    *)
THEOREM SoloGateHolds == SoloSystemSpec => []GateHolds
<1>1. SoloInv => GateHolds
  BY DEF SoloInv, CoordInv, RightlyOut, Start, GateHolds
<1> QED
  BY <1>1, SoloInvariant, PTL

(* And with the gate skipped or fooled, the puzzle keeps a machine no      *)
(* faster than the administrator's waiting.                                *)
THEOREM SoloPuzzleHolds == SoloSystemSpec => []PuzzleHolds
<1>1. SoloInv => PuzzleHolds
  BY DEF SoloInv, CoordInv, RightlyOut, Start, PuzzleHolds
<1> QED
  BY <1>1, SoloInvariant, PTL

(* A run behind its key files that has come as far as the gate will not    *)
(* fail for its shares, for any n, k and set of files.                     *)
THEOREM SoloSharesSuffice == SoloSystemSpec => []SharesSuffice
<1>1. SoloInv => SharesSuffice
  BY DEF SoloInv
<1> QED
  BY <1>1, SoloInvariant, PTL
==============================================================================
