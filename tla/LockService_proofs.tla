-------------------------- MODULE LockService_proofs --------------------------
(***************************************************************************)
(* Proofs about LockService, for any number of requests, nodes, centers    *)
(* and registry files, and a clock of any length.                          *)
(***************************************************************************)
EXTENDS LockService, SequenceTheorems, TLAPS

(***************************************************************************)
(* The inductive invariant.  ManifestComplete alone is not inductive: that *)
(* the manifest may be sent rests on where the handler stands, so each     *)
(* stage has to say what is on the wire and what is on IPFS by then, and   *)
(* what became of the secret.                                              *)
(***************************************************************************)
Over == {"ended", "dropped"}
HasTrace(r) == \E i \in Nodes : \E obj \in pinned[i] : obj.req = r

(* What has been sent and stored at each stage.                            *)
Progress(r) ==
  /\ wire[r] # NoUpload => wire[r].req = r /\ pc[r] \in Uploading \cup Over
  /\ pc[r] = "puzzle" => wire[r] = Puzzle(r)
  /\ pc[r] = "payload" => wire[r] = Payload(r)
  /\ pc[r] = "shards" =>
       /\ wire[r] = Shard(r, wire[r].idx) /\ wire[r].idx \in Nat
       /\ \A i \in 0 .. wire[r].idx - 1 : Stored(Shard(r, i))
  /\ pc[r] = "manifest" => wire[r] = Manifest(r)
  /\ pc[r] \in {"payload", "shards"} => Stored(Puzzle(r))
  /\ pc[r] = "shards" => Stored(Payload(r))
  /\ wire[r] = Manifest(r) => PlacedCompletely(r)
  /\ Published(r) => wire[r] = Manifest(r)

(* What has become of secret.json, and when the first upload may happen.   *)
Secrecy(r) ==
  /\ pc[r] \in {"idle", "start"} => secret[r] = "none"
  /\ pc[r] \in {"split"} \cup Uploading => secret[r] = "erased"
  /\ pc[r] = "ended" => secret[r] # "plain"
  /\ wire[r] # NoUpload => secret[r] = "erased"
  /\ HasTrace(r) => wire[r] # NoUpload

(* What an answer says.                                                    *)
Reported(r) ==
  /\ reply[r] # 0 => pc[r] = "ended"
  /\ reply[r] = 201 => Stored(Manifest(r))
  /\ reply[r] \in RefusedFile \cup {422} => wire[r] = NoUpload

Local(r) == Progress(r) /\ Secrecy(r) /\ Reported(r)

IInv == TypeOK /\ \A r \in Requests : Local(r)
-----------------------------------------------------------------------------
(* Every object has a node it belongs on.                                  *)
LEMMA NodesFacts == \A obj \in Objects : HomeOf(obj) \in Nodes
  BY ClusterAssumption DEF Nodes, NodeFor, HomeOf, Objects

(* Storing an object adds it to one node and takes nothing away.           *)
LEMMA StoreType ==
  ASSUME EnvTypeOK, NEW obj \in Objects, Store(obj)
  PROVE  /\ pinned' \in [Nodes -> SUBSET Objects]
         /\ \A i \in Nodes : pinned[i] \subseteq pinned'[i]
         /\ \A i \in Nodes : pinned'[i] \subseteq pinned[i] \cup {obj}
  BY NodesFacts DEF EnvTypeOK, Store

(* What is stored stays stored.                                            *)
LEMMA StoredStays ==
  ASSUME \A i \in Nodes : pinned[i] \subseteq pinned'[i], NEW obj \in Objects, Stored(obj)
  PROVE  Stored(obj)'
  BY NodesFacts DEF Stored, HomeOf, NodeFor

(* What a request uploads are objects of its own, each unlike the others.  *)
LEMMA ObjectsType ==
  ASSUME NEW r \in Requests
  PROVE  /\ Puzzle(r) \in Objects /\ Payload(r) \in Objects /\ Manifest(r) \in Objects
         /\ Puzzle(r).req = r /\ Payload(r).req = r /\ Manifest(r).req = r
         /\ Puzzle(r) # Manifest(r) /\ Payload(r) # Manifest(r)
         /\ \A i \in Nat : /\ Shard(r, i) \in Objects /\ Shard(r, i) # Manifest(r)
                           /\ Shard(r, i).req = r /\ Shard(r, i).idx = i
         /\ NoUpload \notin Objects
  BY DEF Puzzle, Payload, Manifest, Shard, Objects, Kinds, NoUpload

(* A registry that loads is one of the registry files, or empty.           *)
LEMMA RegistryType ==
  ASSUME NEW file \in RegistryFiles
  PROVE  file \in Seq(Entry) /\ LoadRegistry(file) \in Seq(Entry)
<1>1. file \in Seq(Entry)
  BY ServiceAssumption DEF Entry
<1>2. <<>> \in Seq(Entry)
  OBVIOUS
<1> QED
  BY <1>1, <1>2 DEF LoadRegistry

(* Where a handler goes next, what it answers and what it does to its      *)
(* secret keep their types.                                                *)
LEMMA GotoType ==
  ASSUME TypeOK, NEW r \in Requests, NEW stage \in Stages, Goto(r, stage)
  PROVE  pc' \in [Requests -> Stages] /\ reply' \in [Requests -> Statuses]
  BY DEF TypeOK, Goto

(* An answer ends the handler with a known status.                         *)
LEMMA AnswerType ==
  ASSUME TypeOK, NEW r \in Requests, NEW status \in Statuses, Answer(r, status)
  PROVE  pc' \in [Requests -> Stages] /\ reply' \in [Requests -> Statuses]
  BY DEF TypeOK, Answer, Stages

(* Sending an object puts it on the wire.                                  *)
LEMMA PostType ==
  ASSUME TypeOK, NEW r \in Requests, NEW obj \in Objects, Post(r, obj)
  PROVE  /\ wire' \in [Requests -> Objects \cup {NoUpload}]
         /\ wire'[r] = obj /\ \A q \in Requests \ {r} : wire'[q] = wire[q]
  BY DEF TypeOK, Post

(* Emptying the temporary directory keeps the secret states typed.         *)
LEMMA WipeType ==
  ASSUME TypeOK, NEW r \in Requests, WipeTmp(r)
  PROVE  secret' \in [Requests -> SecretStates]
  BY DEF TypeOK, WipeTmp, SecretStates

(* The named sets of stages and statuses are parts of the whole.           *)
LEMMA StagesFacts ==
  /\ InPipeline \subseteq Stages /\ Uploading \subseteq Stages
  /\ RefusedFile \subseteq Statuses /\ {0, 201, 422, 500, 502} \subseteq Statuses
  BY DEF Stages, Running, Statuses

(* A step that leaves the environment alone keeps it typed.                *)
LEMMA EnvUnchanged ==
  ASSUME EnvTypeOK, UNCHANGED envVars
  PROVE  EnvTypeOK'
  BY DEF EnvTypeOK, envVars

(* Type correctness of the lock service and its environment.               *)
LEMMA TypeInit == Init => TypeOK
<1> SUFFICES ASSUME Init PROVE TypeOK
  OBVIOUS
<1>1. EnvTypeOK
  BY DEF Init, EnvInit, EnvTypeOK
<1>2. onDisk \in Seq(Entry) /\ registry \in Seq(Entry)
  BY RegistryType DEF Init
<1>3. NoJob \in Jobs
  <2>1. <<>> \in Seq(Entry)
    OBVIOUS
  <2> QED
    BY <2>1 DEF NoJob, Jobs
<1> QED
  BY <1>1, <1>2, <1>3
  DEF Init, TypeOK, Stages, Statuses, SecretStates

(* A request that comes in, accepted or refused, keeps the types.          *)
LEMMA TypeSubmit ==
  ASSUME TypeOK, NEW r \in Requests, Submit(r)
  PROVE  TypeOK'
<1>1. EnvTypeOK'
  BY EnvUnchanged DEF Submit, TypeOK, envVars
<1>2. PICK n \in Ns, k \in Ks, lead \in Leads :
        \/ UNCHANGED job /\ \E status \in RefusedFile \cup {422} : Answer(r, status)
        \/ /\ ValidParams(n, k, lead)
           /\ Goto(r, "start")
           /\ job' = [job EXCEPT ![r] =
                [n |-> n, k |-> k, lead |-> lead, at |-> 0, round |-> 0,
                 centers |-> SubSeq(registry, 1, n)]]
  BY DEF Submit
<1>3. CASE UNCHANGED job /\ \E status \in RefusedFile \cup {422} : Answer(r, status)
  BY <1>1, <1>3, AnswerType, StagesFacts DEF Submit, TypeOK
<1>4. CASE /\ ValidParams(n, k, lead)
           /\ Goto(r, "start")
           /\ job' = [job EXCEPT ![r] =
                [n |-> n, k |-> k, lead |-> lead, at |-> 0, round |-> 0,
                 centers |-> SubSeq(registry, 1, n)]]
  <2> DEFINE first == SubSeq(registry, 1, n)
             new == [n |-> n, k |-> k, lead |-> lead, at |-> 0, round |-> 0, centers |-> first]
  <2>1. n \in Nat /\ k \in Nat /\ lead \in Nat
    BY ServiceAssumption
  <2>2. first \in Seq(Entry)
    BY <1>4, <2>1 DEF ValidParams, TypeOK
  <2>3. new \in Jobs
    <3> HIDE DEF first
    <3> QED
      BY <2>1, <2>2 DEF Jobs
  <2>4. job' = [job EXCEPT ![r] = new]
    BY <1>4
  <2>5. job' \in [Requests -> Jobs]
    <3> HIDE DEF new
    <3> QED
      BY <2>3, <2>4 DEF TypeOK
  <2>6. pc' \in [Requests -> Stages] /\ reply' \in [Requests -> Statuses]
    BY <1>4, GotoType, StagesFacts DEF InPipeline
  <2> QED
    BY <1>1, <2>5, <2>6 DEF Submit, TypeOK
<1> QED
  BY <1>2, <1>3, <1>4

(* Every step of a handler keeps the types.                                *)
LEMMA TypeHandler ==
  ASSUME TypeOK, NEW r \in Requests, Local(r), Handler(r)
  PROVE  TypeOK'
<1>1. CASE StartPipeline(r)
  <2>1. now + job[r].lead \in Nat
    BY DEF TypeOK, EnvTypeOK, Jobs
  <2>2. RoundAtOrAfter(now + job[r].lead) \in Int
    BY <2>1, DrandChainAssumption DEF RoundAtOrAfter
  <2>3. job[r] \in Jobs /\ now \in Nat
    BY DEF TypeOK, EnvTypeOK
  <2> DEFINE new == [job[r] EXCEPT !.at = now, !.round = RoundAtOrAfter(now + job[r].lead)]
  <2>4. new \in Jobs
    BY <2>2, <2>3 DEF Jobs
  <2>5. job' = [job EXCEPT ![r] = new] \/ job' = job
    BY <1>1 DEF StartPipeline, TypeOK, Jobs
  <2>6. job' \in [Requests -> Jobs]
    <3> HIDE DEF new
    <3> QED
      BY <2>4, <2>5 DEF TypeOK
  <2>7. pc' \in [Requests -> Stages] /\ reply' \in [Requests -> Statuses]
    <3>1. Goto(r, "generate") \/ Answer(r, 500)
      BY <1>1 DEF StartPipeline
    <3> QED
      BY <3>1, GotoType, AnswerType, StagesFacts DEF InPipeline, Statuses
  <2> QED
    BY <1>1, <2>6, <2>7, EnvUnchanged DEF StartPipeline, TypeOK, envVars
<1>2. CASE WriteSecret(r)
  BY <1>2, EnvUnchanged DEF WriteSecret, TypeOK, SecretStates, envVars
<1>3. CASE Generate(r) \/ Lock(r) \/ SecureDelete(r) \/ SplitAndEncrypt(r)
  <2>1. /\ \/ PipelineFails(r)
           \/ /\ \E stage \in InPipeline \cup Uploading : Goto(r, stage)
              /\ \/ UNCHANGED secret
                 \/ secret' = [secret EXCEPT ![r] = "erased"]
                 \/ WipeTmp(r)
        /\ UNCHANGED wire \/ Post(r, Puzzle(r))
        /\ UNCHANGED <<envVars, alive, onDisk, registry, job>>
    BY <1>3 DEF Generate, Lock, SecureDelete, SplitAndEncrypt, InPipeline, Uploading
  <2>2. secret' \in [Requests -> SecretStates]
    BY <2>1, WipeType DEF PipelineFails, TypeOK, SecretStates
  <2>3. pc' \in [Requests -> Stages] /\ reply' \in [Requests -> Statuses]
    BY <2>1, GotoType, AnswerType, StagesFacts DEF PipelineFails
  <2>4. wire' \in [Requests -> Objects \cup {NoUpload}]
    BY <2>1, PostType, ObjectsType DEF TypeOK
  <2> QED
    BY <2>1, <2>2, <2>3, <2>4, EnvUnchanged DEF TypeOK, envVars
<1>4. CASE UploadPuzzle(r) \/ UploadPayload(r) \/ UploadShard(r) \/ UploadManifest(r)
  <2>1. /\ \/ \E stage \in Uploading : Goto(r, stage)
           \/ \E status \in {201, 500, 502} : Answer(r, status)
        /\ UNCHANGED wire \/ \E obj \in Objects : Post(r, obj)
        /\ UNCHANGED <<envVars, alive, onDisk, registry, job, secret>>
    <3>1. CASE UploadShard(r)
      <4>1. wire[r].idx + 1 \in Nat
        BY <3>1 DEF UploadShard, At, Local, Progress
      <4> QED
        BY <3>1, <4>1, ObjectsType DEF UploadShard, UploadFails, Uploading
    <3>2. CASE ~UploadShard(r)
      BY <1>4, <3>2, ObjectsType DEF UploadPuzzle, UploadPayload, UploadManifest, UploadFails, Uploading
    <3> QED
      BY <3>1, <3>2
  <2>2. pc' \in [Requests -> Stages] /\ reply' \in [Requests -> Statuses]
    BY <2>1, GotoType, AnswerType, StagesFacts
  <2>3. wire' \in [Requests -> Objects \cup {NoUpload}]
    BY <2>1, PostType DEF TypeOK
  <2> QED
    BY <2>1, <2>2, <2>3, EnvUnchanged DEF TypeOK, envVars
<1> QED
  BY <1>1, <1>2, <1>3, <1>4 DEF Handler

(* An upload that arrives keeps the types.                                 *)
LEMMA TypeArrive ==
  ASSUME TypeOK, NEW r \in Requests, Arrive(r)
  PROVE  TypeOK'
<1>1. wire[r] \in Objects /\ Store(wire[r]) /\ UNCHANGED <<now, up, svcVars>>
  BY DEF Arrive, TypeOK
<1>2. EnvTypeOK'
  BY <1>1, StoreType DEF TypeOK, EnvTypeOK
<1> QED
  BY <1>1, <1>2 DEF TypeOK, svcVars

(* Every step of the lock service keeps the types.                         *)
LEMMA TypeNext == IInv /\ [Next]_vars => TypeOK'
<1> SUFFICES ASSUME TypeOK, \A r \in Requests : Local(r), [Next]_vars PROVE TypeOK'
  BY DEF IInv
<1>1. CASE Crash
  BY <1>1, EnvUnchanged DEF Crash, TypeOK, Stages, envVars
<1>2. CASE Restart
  <2>1. LoadRegistry(onDisk) \in Seq(Entry)
    <3>1. <<>> \in Seq(Entry)
      OBVIOUS
    <3> QED
      BY <3>1 DEF LoadRegistry, TypeOK
  <2> QED
    BY <1>2, <2>1, EnvUnchanged DEF Restart, TypeOK, envVars
<1>3. CASE EditRegistry
  BY <1>3, RegistryType, EnvUnchanged DEF EditRegistry, TypeOK, envVars
<1>4. CASE Environs
  BY <1>4 DEF Environs, EnvNext, Tick, NodeStops, NodeStarts, svcVars, TypeOK, EnvTypeOK
<1>5. CASE UNCHANGED vars
  BY <1>5, EnvUnchanged DEF vars, svcVars, TypeOK
<1> QED
  BY <1>1, <1>2, <1>3, <1>4, <1>5, TypeSubmit, TypeHandler, TypeArrive DEF Next

-----------------------------------------------------------------------------
(* What a step on behalf of r leaves alone.                                *)
OnlyFor(r) ==
  /\ \A q \in Requests \ {r} :
       /\ pc'[q] = pc[q] /\ reply'[q] = reply[q] /\ job'[q] = job[q]
       /\ secret'[q] = secret[q] /\ wire'[q] = wire[q]
  /\ \A i \in Nodes : pinned[i] \subseteq pinned'[i]
  /\ \A i \in Nodes : \A obj \in pinned'[i] : obj \in pinned[i] \/ obj.req = r

(* A step that is only for r keeps what holds of any other request.        *)
LEMMA LocalToOthers ==
  ASSUME TypeOK, NEW r \in Requests, NEW q \in Requests \ {r}, Local(q), OnlyFor(r)
  PROVE  Local(q)'
<1>1. /\ pc'[q] = pc[q] /\ reply'[q] = reply[q] /\ job'[q] = job[q]
      /\ secret'[q] = secret[q] /\ wire'[q] = wire[q]
  BY DEF OnlyFor
<1>2. \A obj \in Objects : Stored(obj) => Stored(obj)'
  BY StoredStays DEF OnlyFor
<1>3. HasTrace(q)' => HasTrace(q)
  BY DEF OnlyFor, HasTrace
<1>4. Published(q)' => Published(q)
  BY DEF OnlyFor, Published, Manifest
<1>5. PlacedCompletely(q) => PlacedCompletely(q)'
  <2>1. job[q].n \in Nat
    BY DEF TypeOK, Jobs
  <2> QED
    BY <1>1, <1>2, <2>1, ObjectsType DEF PlacedCompletely
<1>6. Progress(q)'
  <2>1. pc[q] = "shards" =>
          \A i \in 0 .. wire[q].idx - 1 : Stored(Shard(q, i))'
    BY <1>2, ObjectsType DEF Local, Progress
  <2> QED
    BY <1>1, <1>2, <1>4, <1>5, <2>1, ObjectsType DEF Local, Progress
<1>7. Secrecy(q)'
  BY <1>1, <1>3 DEF Local, Secrecy
<1>8. Reported(q)'
  BY <1>1, <1>2, ObjectsType DEF Local, Reported
<1> QED
  BY <1>6, <1>7, <1>8 DEF Local

(* A step that leaves the nodes alone changes nothing about what they hold.*)
LEMMA NodesAlone ==
  ASSUME UNCHANGED pinned, NEW r \in Requests
  PROVE  /\ HasTrace(r)' = HasTrace(r) /\ Published(r)' = Published(r)
         /\ \A obj : Stored(obj)' = Stored(obj)
         /\ job'[r] = job[r] => PlacedCompletely(r)' = PlacedCompletely(r)
  BY DEF HasTrace, Published, Stored, HomeOf, NodeFor, PlacedCompletely

(* How the fields of r read after Goto and Answer.                         *)
LEMMA GotoAt ==
  ASSUME TypeOK, NEW r \in Requests, NEW stage, Goto(r, stage)
  PROVE  /\ pc'[r] = stage /\ reply'[r] = reply[r]
         /\ \A q \in Requests \ {r} : pc'[q] = pc[q] /\ reply'[q] = reply[q]
  BY DEF TypeOK, Goto

(* The fields of r after an answer.                                        *)
LEMMA AnswerAt ==
  ASSUME TypeOK, NEW r \in Requests, NEW status, Answer(r, status)
  PROVE  /\ pc'[r] = "ended" /\ reply'[r] = status
         /\ \A q \in Requests \ {r} : pc'[q] = pc[q] /\ reply'[q] = reply[q]
  BY DEF TypeOK, Answer

(* The secret of r after its temporary directory is emptied.               *)
LEMMA WipeAt ==
  ASSUME TypeOK, NEW r \in Requests, WipeTmp(r)
  PROVE  /\ secret'[r] # "plain"
         /\ secret[r] = "erased" => secret'[r] = "erased"
         /\ \A q \in Requests \ {r} : secret'[q] = secret[q]
  BY DEF TypeOK, WipeTmp

(* A request comes in: nothing has been sent for it, and nothing is now.   *)
LEMMA StepSubmit ==
  ASSUME TypeOK, NEW r \in Requests, Local(r), Submit(r)
  PROVE  OnlyFor(r) /\ Local(r)'
<1>1. /\ pc[r] = "idle" /\ UNCHANGED <<pinned, secret, wire>>
      /\ \A q \in Requests \ {r} : job'[q] = job[q]
  BY DEF Submit, At, envVars, TypeOK
<1>2. /\ \/ pc'[r] = "start" /\ reply'[r] = reply[r]
         \/ pc'[r] = "ended" /\ reply'[r] \in RefusedFile \cup {422}
      /\ \A q \in Requests \ {r} : pc'[q] = pc[q] /\ reply'[q] = reply[q]
  <2>1. \/ Goto(r, "start")
        \/ \E status \in RefusedFile \cup {422} : Answer(r, status)
    BY DEF Submit
  <2> QED
    BY <2>1, GotoAt, AnswerAt
<1>3. wire[r] = NoUpload /\ secret[r] = "none" /\ reply[r] = 0 /\ ~HasTrace(r)
  BY <1>1 DEF Local, Progress, Secrecy, Reported, Uploading, Over
<1>4. ~Published(r) /\ ~HasTrace(r)' /\ ~Published(r)'
  BY <1>1, <1>3, NodesAlone, ObjectsType DEF Local, Progress
<1>5. OnlyFor(r)
  BY <1>1, <1>2 DEF OnlyFor
<1>6. Local(r)'
  BY <1>1, <1>2, <1>3, <1>4, ObjectsType
  DEF Local, Progress, Secrecy, Reported, Uploading, RefusedFile
<1> QED
  BY <1>5, <1>6

(* Up to the end of the pipeline nothing is sent; the last step of it      *)
(* sends the puzzle, and the secret has been erased by then.               *)
LEMMA StepPipeline ==
  ASSUME TypeOK, NEW r \in Requests, Local(r),
         \/ StartPipeline(r) \/ WriteSecret(r) \/ Generate(r) \/ Lock(r)
         \/ SecureDelete(r) \/ SplitAndEncrypt(r)
  PROVE  OnlyFor(r) /\ Local(r)'
<1>1. /\ UNCHANGED pinned
      /\ \A q \in Requests \ {r} : job'[q] = job[q]
  BY DEF StartPipeline, WriteSecret, Generate, Lock, SecureDelete, SplitAndEncrypt, envVars, TypeOK
<1>2. wire[r] = NoUpload /\ secret[r] \in SecretStates
  BY DEF StartPipeline, WriteSecret, Generate, Lock, SecureDelete, SplitAndEncrypt, At,
         Local, Progress, Secrecy, Uploading, Over, TypeOK
<1>3. ~HasTrace(r) /\ ~Published(r) /\ ~HasTrace(r)' /\ ~Published(r)'
  BY <1>1, <1>2, NodesAlone, ObjectsType DEF Local, Progress, Secrecy
<1>4. ASSUME PipelineFails(r), UNCHANGED wire PROVE OnlyFor(r) /\ Local(r)'
  <2>1. /\ pc'[r] = "ended" /\ reply'[r] = 500 /\ secret'[r] # "plain"
        /\ \A q \in Requests \ {r} :
             pc'[q] = pc[q] /\ reply'[q] = reply[q] /\ secret'[q] = secret[q]
    BY <1>4, AnswerAt, WipeAt DEF PipelineFails
  <2>2. OnlyFor(r)
    BY <1>1, <1>4, <2>1 DEF OnlyFor
  <2>3. Local(r)'
    BY <1>2, <1>3, <1>4, <2>1, ObjectsType
    DEF Local, Progress, Secrecy, Reported, Uploading, RefusedFile
  <2> QED
    BY <2>2, <2>3
<1>5. CASE StartPipeline(r)
  <2>1. /\ \/ pc'[r] = "generate" /\ reply'[r] = 0
           \/ pc'[r] = "ended" /\ reply'[r] = 500 /\ secret[r] = "none"
        /\ UNCHANGED <<secret, wire>>
        /\ \A q \in Requests \ {r} : pc'[q] = pc[q] /\ reply'[q] = reply[q]
    <3>1. pc[r] = "start" /\ reply[r] = 0
      BY <1>5 DEF StartPipeline, At, Local, Reported
    <3>2. secret[r] = "none"
      BY <3>1 DEF Local, Secrecy
    <3> QED
      BY <1>5, <3>1, <3>2, GotoAt, AnswerAt DEF StartPipeline
  <2>2. OnlyFor(r)
    BY <1>1, <2>1 DEF OnlyFor
  <2>3. Local(r)'
    BY <1>2, <1>3, <2>1, ObjectsType
    DEF Local, Progress, Secrecy, Reported, Uploading, RefusedFile
  <2> QED
    BY <2>2, <2>3
<1>6. CASE WriteSecret(r)
  <2>1. /\ pc[r] \in {"generate", "dropped"} /\ UNCHANGED <<pc, reply, wire>>
        /\ reply[r] = 0
        /\ \A q \in Requests \ {r} : secret'[q] = secret[q]
    BY <1>6 DEF WriteSecret, At, Orphan, Local, Reported, TypeOK
  <2>2. OnlyFor(r)
    BY <1>1, <2>1 DEF OnlyFor
  <2>3. Local(r)'
    BY <1>2, <1>3, <2>1, ObjectsType
    DEF Local, Progress, Secrecy, Reported, Uploading, RefusedFile
  <2> QED
    BY <2>2, <2>3
<1>7. CASE (Generate(r) \/ Lock(r) \/ SecureDelete(r)) /\ ~(PipelineFails(r) /\ UNCHANGED wire)
  <2>1. /\ pc[r] \in InPipeline /\ UNCHANGED wire
        /\ \/ Goto(r, "lock") /\ UNCHANGED secret
           \/ Goto(r, "shred") /\ UNCHANGED secret
           \/ Goto(r, "split") /\ secret' = [secret EXCEPT ![r] = "erased"]
    BY <1>7 DEF Generate, Lock, SecureDelete, At, InPipeline
  <2>2. /\ \/ pc'[r] \in {"lock", "shred"}
           \/ pc'[r] = "split" /\ secret'[r] = "erased"
        /\ reply'[r] = reply[r]
        /\ \A q \in Requests \ {r} :
             pc'[q] = pc[q] /\ reply'[q] = reply[q] /\ secret'[q] = secret[q]
    BY <2>1, GotoAt DEF TypeOK
  <2>3. reply[r] = 0
    BY <2>1 DEF Local, Reported, InPipeline
  <2>4. OnlyFor(r)
    BY <1>1, <2>1, <2>2 DEF OnlyFor
  <2>5. Local(r)'
    BY <1>2, <1>3, <2>1, <2>2, <2>3, ObjectsType
    DEF Local, Progress, Secrecy, Reported, Uploading, RefusedFile
  <2> QED
    BY <2>4, <2>5
<1>8. CASE SplitAndEncrypt(r) /\ ~(PipelineFails(r) /\ UNCHANGED wire)
  <2>1. /\ pc[r] = "split" /\ secret[r] = "erased" /\ reply[r] = 0
        /\ WipeTmp(r) /\ Goto(r, "puzzle") /\ Post(r, Puzzle(r))
    BY <1>8 DEF SplitAndEncrypt, At, Local, Secrecy, Reported
  <2>2. /\ pc'[r] = "puzzle" /\ reply'[r] = 0 /\ secret'[r] = "erased"
        /\ wire'[r] = Puzzle(r)
        /\ \A q \in Requests \ {r} :
             /\ pc'[q] = pc[q] /\ reply'[q] = reply[q]
             /\ secret'[q] = secret[q] /\ wire'[q] = wire[q]
    BY <2>1, GotoAt, WipeAt, PostType, ObjectsType
  <2>3. OnlyFor(r)
    BY <1>1, <2>2 DEF OnlyFor
  <2>4. Local(r)'
    BY <1>3, <2>2, ObjectsType
    DEF Local, Progress, Secrecy, Reported, Uploading, RefusedFile
  <2> QED
    BY <2>3, <2>4
<1> QED
  BY <1>4, <1>5, <1>6, <1>7, <1>8 DEF Generate, Lock, SecureDelete, SplitAndEncrypt

(* An upload that fails ends the handler and leaves everything else be.    *)
LEMMA StepUploadFails ==
  ASSUME TypeOK, NEW r \in Requests, Local(r), pc[r] \in Uploading, UploadFails(r),
         UNCHANGED <<pinned, job, secret>>
  PROVE  OnlyFor(r) /\ Local(r)'
<1>1. /\ pc'[r] = "ended" /\ reply'[r] \in {500, 502} /\ UNCHANGED wire
      /\ \A q \in Requests \ {r} : pc'[q] = pc[q] /\ reply'[q] = reply[q]
  BY AnswerAt DEF UploadFails
<1>2. /\ HasTrace(r)' = HasTrace(r) /\ Published(r)' = Published(r)
      /\ PlacedCompletely(r)' = PlacedCompletely(r)
  BY NodesAlone
<1>3. OnlyFor(r)
  BY <1>1 DEF OnlyFor
<1>4. Progress(r)'
  BY <1>1, <1>2 DEF Local, Progress, Over
<1>5. Secrecy(r)'
  BY <1>1, <1>2 DEF Local, Secrecy, Uploading
<1>6. Reported(r)'
  BY <1>1 DEF Reported, RefusedFile
<1> QED
  BY <1>3, <1>4, <1>5, <1>6 DEF Local

(* An upload that is answered: the object sent is stored, so the next one  *)
(* may be sent, or 201 answered.                                           *)
LEMMA StepUpload ==
  ASSUME TypeOK, NEW r \in Requests, Local(r),
         UploadPuzzle(r) \/ UploadPayload(r) \/ UploadShard(r) \/ UploadManifest(r)
  PROVE  OnlyFor(r) /\ Local(r)'
<1>1. UNCHANGED <<pinned, job, secret>> /\ pc[r] \in Uploading /\ job[r].n \in Nat
  BY DEF UploadPuzzle, UploadPayload, UploadShard, UploadManifest, At, Uploading, envVars,
         TypeOK, Jobs
<1>2. /\ HasTrace(r)' = HasTrace(r) /\ Published(r)' = Published(r)
      /\ PlacedCompletely(r)' = PlacedCompletely(r)
      /\ \A obj : Stored(obj)' = Stored(obj)
  BY <1>1, NodesAlone
<1>3. secret[r] = "erased" /\ reply[r] = 0
  BY <1>1 DEF Local, Secrecy, Reported, Uploading
<1>4. CASE UploadFails(r)
  BY <1>1, <1>4, StepUploadFails
<1>5. CASE UploadPuzzle(r) /\ ~UploadFails(r)
  <2>1. /\ pc[r] = "puzzle" /\ Stored(Puzzle(r))
        /\ Goto(r, "payload") /\ Post(r, Payload(r))
    BY <1>5 DEF UploadPuzzle, At, Local, Progress
  <2>2. ~Published(r)
    BY <2>1, ObjectsType DEF Local, Progress
  <2>3. /\ pc'[r] = "payload" /\ reply'[r] = 0 /\ wire'[r] = Payload(r)
        /\ \A q \in Requests \ {r} :
             pc'[q] = pc[q] /\ reply'[q] = reply[q] /\ wire'[q] = wire[q]
    BY <1>3, <2>1, GotoAt, PostType, ObjectsType
  <2>4. OnlyFor(r)
    BY <1>1, <2>3 DEF OnlyFor
  <2>5. Stored(Puzzle(r))' /\ ~Published(r)'
    BY <1>2, <2>1, <2>2
  <2>6. Progress(r)'
    BY <2>3, <2>5, ObjectsType DEF Progress, Uploading
  <2>7. Secrecy(r)' /\ Reported(r)'
    BY <1>1, <1>3, <2>3, ObjectsType DEF Secrecy, Reported, RefusedFile
  <2> QED
    BY <2>4, <2>6, <2>7 DEF Local
<1>6. CASE UploadPayload(r) /\ ~UploadFails(r)
  <2>1. /\ pc[r] = "payload" /\ Stored(Puzzle(r)) /\ Stored(Payload(r))
        /\ Goto(r, "shards") /\ Post(r, Shard(r, 0))
    BY <1>6 DEF UploadPayload, At, Local, Progress
  <2>2. ~Published(r)
    BY <2>1, ObjectsType DEF Local, Progress
  <2>3. /\ pc'[r] = "shards" /\ reply'[r] = 0 /\ wire'[r] = Shard(r, 0)
        /\ \A q \in Requests \ {r} :
             pc'[q] = pc[q] /\ reply'[q] = reply[q] /\ wire'[q] = wire[q]
    BY <1>3, <2>1, GotoAt, PostType, ObjectsType
  <2>4. OnlyFor(r)
    BY <1>1, <2>3 DEF OnlyFor
  <2>5. Stored(Puzzle(r))' /\ Stored(Payload(r))' /\ ~Published(r)'
    BY <1>2, <2>1, <2>2
  <2>6. wire'[r] # Manifest(r) /\ wire'[r].req = r /\ wire'[r].idx = 0
        /\ wire'[r] = Shard(r, 0)
    BY <2>3, ObjectsType
  <2>7. Progress(r)'
    BY <2>3, <2>5, <2>6 DEF Progress, Uploading
  <2>8. Secrecy(r)' /\ Reported(r)'
    BY <1>1, <1>3, <2>3, ObjectsType DEF Secrecy, Reported, RefusedFile
  <2> QED
    BY <2>4, <2>7, <2>8 DEF Local
<1>7. CASE UploadShard(r) /\ ~UploadFails(r)
  <2> DEFINE i == wire[r].idx
  <2>1. /\ pc[r] = "shards" /\ i \in Nat /\ wire[r] = Shard(r, i)
        /\ Stored(Puzzle(r)) /\ Stored(Payload(r))
        /\ \A j \in 0 .. i - 1 : Stored(Shard(r, j))
        /\ Stored(wire[r])
        /\ \/ /\ i + 1 < job[r].n /\ Goto(r, "shards") /\ Post(r, Shard(r, i + 1))
           \/ /\ i + 1 >= job[r].n /\ Goto(r, "manifest") /\ Post(r, Manifest(r))
    BY <1>1, <1>7 DEF UploadShard, At, Local, Progress
  <2>2. ~Published(r)
    BY <2>1, ObjectsType DEF Local, Progress
  <2>3. \A j \in 0 .. i : Stored(Shard(r, j))
    BY <2>1
  <2> HIDE DEF i
  <2>4. CASE i + 1 < job[r].n
    <3>1. /\ pc'[r] = "shards" /\ reply'[r] = 0 /\ wire'[r] = Shard(r, i + 1)
          /\ \A q \in Requests \ {r} :
               pc'[q] = pc[q] /\ reply'[q] = reply[q] /\ wire'[q] = wire[q]
      BY <1>1, <1>3, <2>1, <2>4, GotoAt, PostType, ObjectsType
    <3>2. OnlyFor(r)
      BY <1>1, <3>1 DEF OnlyFor
    <3>3. /\ wire'[r] # Manifest(r) /\ wire'[r].req = r /\ wire'[r].idx = i + 1
          /\ wire'[r] = Shard(r, i + 1) /\ i + 1 \in Nat
      BY <2>1, <3>1, ObjectsType
    <3>4. \A j \in 0 .. (i + 1) - 1 : Stored(Shard(r, j))'
      BY <1>2, <2>1, <2>3
    <3>5. Stored(Puzzle(r))' /\ Stored(Payload(r))' /\ ~Published(r)'
      BY <1>2, <2>1, <2>2
    <3>6. Progress(r)'
      BY <3>1, <3>3, <3>4, <3>5 DEF Progress, Uploading
    <3>7. Secrecy(r)' /\ Reported(r)'
      BY <1>1, <1>3, <2>1, <3>1, ObjectsType DEF Secrecy, Reported, RefusedFile
    <3> QED
      BY <3>2, <3>6, <3>7 DEF Local
  <2>5. CASE i + 1 >= job[r].n
    <3>1. /\ pc'[r] = "manifest" /\ reply'[r] = 0 /\ wire'[r] = Manifest(r)
          /\ \A q \in Requests \ {r} :
               pc'[q] = pc[q] /\ reply'[q] = reply[q] /\ wire'[q] = wire[q]
      BY <1>1, <1>3, <2>1, <2>5, GotoAt, PostType, ObjectsType
    <3>2. OnlyFor(r)
      BY <1>1, <3>1 DEF OnlyFor
    <3>3. PlacedCompletely(r)'
      <4>1. \A j \in 0 .. job[r].n - 1 : Stored(Shard(r, j))
        BY <1>1, <2>1, <2>3, <2>5
      <4> QED
        BY <1>2, <2>1, <4>1 DEF PlacedCompletely
    <3>4. Progress(r)'
      BY <1>2, <2>2, <3>1, <3>3, ObjectsType DEF Progress, Uploading
    <3>5. Secrecy(r)' /\ Reported(r)'
      BY <1>1, <1>3, <3>1, ObjectsType DEF Secrecy, Reported, RefusedFile
    <3> QED
      BY <3>2, <3>4, <3>5 DEF Local
  <2> QED
    BY <1>1, <2>1, <2>4, <2>5
<1>8. CASE UploadManifest(r) /\ ~UploadFails(r)
  <2>1. /\ pc[r] = "manifest" /\ wire[r] = Manifest(r) /\ Stored(Manifest(r))
        /\ Answer(r, 201) /\ UNCHANGED wire
    BY <1>8 DEF UploadManifest, At, Local, Progress
  <2>2. /\ pc'[r] = "ended" /\ reply'[r] = 201
        /\ \A q \in Requests \ {r} : pc'[q] = pc[q] /\ reply'[q] = reply[q]
    BY <2>1, AnswerAt
  <2>3. OnlyFor(r)
    BY <1>1, <2>1, <2>2 DEF OnlyFor
  <2>4. Progress(r)'
    BY <1>2, <2>1, <2>2 DEF Local, Progress, Over
  <2>5. Secrecy(r)' /\ Reported(r)'
    BY <1>1, <1>2, <1>3, <2>1, <2>2 DEF Local, Secrecy, Reported, RefusedFile
  <2> QED
    BY <2>3, <2>4, <2>5 DEF Local
<1> QED
  BY <1>4, <1>5, <1>6, <1>7, <1>8

(* An upload that arrives, whenever it does, was safe to send.             *)
LEMMA StepArrive ==
  ASSUME TypeOK, NEW r \in Requests, Local(r), Arrive(r)
  PROVE  OnlyFor(r) /\ Local(r)'
<1> DEFINE obj == wire[r]
<1>1. /\ obj # NoUpload /\ obj \in Objects /\ obj.req = r /\ Store(obj)
      /\ UNCHANGED <<pc, reply, job, secret, wire>>
  BY DEF Arrive, TypeOK, Local, Progress, svcVars
<1>2. /\ \A i \in Nodes : pinned[i] \subseteq pinned'[i]
      /\ \A i \in Nodes : pinned'[i] \subseteq pinned[i] \cup {obj}
  BY <1>1, StoreType DEF TypeOK
<1>3. \A o \in Objects : Stored(o) => Stored(o)'
  BY <1>2, StoredStays
<1>4. OnlyFor(r)
  BY <1>1, <1>2 DEF OnlyFor
<1>5. PlacedCompletely(r) => PlacedCompletely(r)'
  <2>1. job[r].n \in Nat
    BY DEF TypeOK, Jobs
  <2> QED
    BY <1>1, <1>3, <2>1, ObjectsType DEF PlacedCompletely
<1>6. Published(r)' => wire[r] = Manifest(r)
  BY <1>2 DEF Published, Local, Progress
<1>7. Progress(r)'
  <2>1. pc[r] = "shards" =>
          \A j \in 0 .. wire[r].idx - 1 : Stored(Shard(r, j))'
    BY <1>3, ObjectsType DEF Local, Progress
  <2> QED
    BY <1>1, <1>3, <1>5, <1>6, <2>1, ObjectsType DEF Local, Progress
<1>8. Secrecy(r)' /\ Reported(r)'
  BY <1>1, <1>3, ObjectsType DEF Local, Secrecy, Reported
<1> QED
  BY <1>4, <1>7, <1>8 DEF Local

(* The steps that serve no request.                                        *)
LEMMA StepElsewhere ==
  ASSUME TypeOK, NEW r \in Requests, Local(r),
         Crash \/ Restart \/ EditRegistry \/ Environs \/ UNCHANGED vars
  PROVE  Local(r)'
<1>1. UNCHANGED <<pinned, reply, job, secret, wire>>
  BY DEF Crash, Restart, EditRegistry, Environs, EnvNext, Tick, NodeStops, NodeStarts,
         envVars, svcVars, vars
<1>2. pc'[r] = pc[r] \/ (pc[r] \in Running /\ pc'[r] = "dropped")
  BY DEF Crash, Restart, EditRegistry, Environs, svcVars, vars, TypeOK
<1>3. /\ HasTrace(r)' = HasTrace(r) /\ Published(r)' = Published(r)
      /\ PlacedCompletely(r)' = PlacedCompletely(r)
      /\ \A obj : Stored(obj)' = Stored(obj)
  BY <1>1, NodesAlone
<1>4. Progress(r)'
  BY <1>1, <1>2, <1>3 DEF Local, Progress, Over
<1>5. Secrecy(r)'
  BY <1>1, <1>2, <1>3 DEF Local, Secrecy, Over, Uploading
<1>6. Reported(r)'
  BY <1>1, <1>2, <1>3 DEF Local, Reported, Running, InPipeline, Uploading
<1> QED
  BY <1>4, <1>5, <1>6 DEF Local

(* Before any request nothing is on IPFS and there are no secrets.         *)
LEMMA InvInit == Init => IInv
<1> SUFFICES ASSUME Init PROVE IInv
  OBVIOUS
<1>1. ASSUME NEW r \in Requests PROVE Local(r)
  <2>1. ~HasTrace(r) /\ ~Published(r)
    BY DEF Init, EnvInit, HasTrace, Published
  <2> QED
    BY <2>1, ObjectsType DEF Init, Local, Progress, Secrecy, Reported, RefusedFile, Uploading
<1> QED
  BY <1>1, TypeInit DEF IInv

(* A step serves one request, and keeps the others; or it serves none.     *)
LEMMA InvNext == IInv /\ [Next]_vars => IInv'
<1> SUFFICES ASSUME IInv, [Next]_vars PROVE IInv'
  OBVIOUS
<1>1. TypeOK /\ TypeOK'
  BY TypeNext DEF IInv
<1>2. ASSUME NEW r \in Requests, Submit(r) \/ Handler(r) \/ Arrive(r), NEW q \in Requests
      PROVE  Local(q)'
  <2>1. Local(r) /\ Local(q)
    BY DEF IInv
  <2>2. OnlyFor(r) /\ Local(r)'
    BY <1>1, <1>2, <2>1, StepSubmit, StepPipeline, StepUpload, StepArrive DEF Handler
  <2> QED
    BY <1>1, <2>1, <2>2, LocalToOthers
<1>3. ASSUME Crash \/ Restart \/ EditRegistry \/ Environs \/ UNCHANGED vars, NEW q \in Requests
      PROVE  Local(q)'
  BY <1>1, <1>3, StepElsewhere DEF IInv
<1> QED
  BY <1>1, <1>2, <1>3 DEF Next, IInv

(* IInv holds in every reachable state of the lock service.                *)
LEMMA Invariant == Spec => []IInv
  BY InvInit, InvNext, PTL DEF Spec

(* Every reachable state of the lock service is well-typed.                *)
THEOREM TypeCorrect == Spec => []TypeOK
<1>1. IInv => TypeOK
  BY DEF IInv
<1> QED
  BY <1>1, Invariant, PTL

(* However many requests run at once and whatever fails under them, a      *)
(* manifest on IPFS points only at objects stored where it says.           *)
THEOREM ManifestCompleteHolds == Spec => []ManifestComplete
<1>1. IInv => ManifestComplete
  BY DEF IInv, Local, Progress, ManifestComplete
<1> QED
  BY <1>1, Invariant, PTL

(* No part of a lock is on IPFS before its p and q have been erased, even  *)
(* across crashes.                                                         *)
THEOREM SecretErasedHolds == Spec => []SecretErasedBeforeUpload
<1>1. IInv => SecretErasedBeforeUpload
  <2> SUFFICES ASSUME IInv, NEW r \in Requests, Traces(r) # {} PROVE secret[r] = "erased"
    BY DEF SecretErasedBeforeUpload
  <2>1. HasTrace(r)
    BY DEF Traces, HasTrace
  <2> QED
    BY <2>1 DEF IInv, Local, Secrecy
<1> QED
  BY <1>1, Invariant, PTL

(* An answered request leaves no readable secret.json behind.              *)
THEOREM NoSecretLeft == Spec => []AnsweredLeavesNoSecret
<1>1. IInv => AnsweredLeavesNoSecret
  BY DEF IInv, Local, Secrecy, AnsweredLeavesNoSecret
<1> QED
  BY <1>1, Invariant, PTL

(* The status the administrator gets agrees with what is on IPFS.          *)
THEOREM RepliesAgree == Spec => []ReplyAgreesWithStore
<1>1. IInv => ReplyAgreesWithStore
  <2> SUFFICES ASSUME IInv, NEW r \in Requests
               PROVE  /\ reply[r] = 201 => Stored(Manifest(r))
                      /\ reply[r] \in RefusedFile \cup {422} =>
                           Traces(r) = {} /\ wire[r] = NoUpload
    BY DEF ReplyAgreesWithStore
  <2>1. ~HasTrace(r) => Traces(r) = {}
    BY DEF Traces, HasTrace
  <2> QED
    BY <2>1 DEF IInv, Local, Secrecy, Reported
<1> QED
  BY <1>1, Invariant, PTL
-----------------------------------------------------------------------------
(* round_at_or_after returns the first round (from 1 on) whose publish     *)
(* time, as the code computes it, is not before the target.                *)
THEOREM RoundIsFirst ==
  ASSUME NEW target \in Nat
  PROVE  /\ RoundAtOrAfter(target) \in Nat \ {0}
         /\ PublishTime(RoundAtOrAfter(target)) >= target
         /\ RoundAtOrAfter(target) = 1 \/ PublishTime(RoundAtOrAfter(target) - 1) < target
<1> DEFINE R == RoundAtOrAfter(target)
<1>1. Genesis \in Nat /\ Period \in Nat \ {0}
  BY DrandChainAssumption
<1>2. CASE target <= Genesis
  BY <1>1, <1>2 DEF RoundAtOrAfter, PublishTime
<1>3. CASE target > Genesis
  <2> DEFINE d == target - Genesis
  <2>1. d \in Nat \ {0} /\ d + Period - 1 \in Nat
    BY <1>1, <1>3
  <2>2. R = (d + Period - 1) \div Period
    BY <1>1, <1>3 DEF RoundAtOrAfter
  <2>3. R \in Nat /\ R * Period <= d + Period - 1 /\ d + Period - 1 < (R + 1) * Period
    <3> HIDE DEF R
    <3>1. \A a \in Nat : \A b \in Nat \ {0} :
            /\ a \div b \in Nat
            /\ (a \div b) * b <= a
            /\ a < (a \div b) * b + b
      BY Z3
    <3> QED
      BY <1>1, <2>1, <2>2, <3>1
  <2> QED
    BY <1>1, <1>3, <2>1, <2>3 DEF PublishTime
<1> QED
  BY <1>1, <1>2, <1>3
-----------------------------------------------------------------------------
(***************************************************************************)
(* The terms of a lock: its centers, threshold and drand round.  They are  *)
(* settled by the time the pipeline has started, from a registry without   *)
(* repetitions, and nothing changes them on the way to the manifest.       *)
(***************************************************************************)
GoodCenters(j) ==
  /\ Len(j.centers) = j.n
  /\ Distinct(j.centers)
  /\ 2 <= j.k /\ j.k <= j.n

GoodRound(j) == j.round = RoundAtOrAfter(j.at + j.lead) /\ j.round <= MaxRound

Settled(r) ==
  /\ pc[r] \in Running \/ wire[r] # NoUpload => GoodCenters(job[r])
  /\ pc[r] \in Running \ {"start"} \/ wire[r] # NoUpload => GoodRound(job[r])

TermsInv == IInv /\ Distinct(registry) /\ \A r \in Requests : Settled(r)

(* A registry that failed to load repeats nothing.                         *)
LEMMA EmptyDistinct == Distinct(<<>>)
  BY DEF Distinct

(* Nor does one that load_registry accepted.                               *)
LEMMA LoadDistinct == \A file : Distinct(LoadRegistry(file))
  BY EmptyDistinct DEF LoadRegistry

(* The first n entries of a good registry make good centers for valid      *)
(* parameters.                                                             *)
LEMMA PrefixGood ==
  ASSUME TypeOK, Distinct(registry), NEW n \in Nat, NEW k \in Nat, NEW lead,
         ValidParams(n, k, lead)
  PROVE  GoodCenters([n |-> n, k |-> k, lead |-> lead, at |-> 0, round |-> 0,
                      centers |-> SubSeq(registry, 1, n)])
<1> DEFINE first == SubSeq(registry, 1, n)
<1>1. registry \in Seq(Entry) /\ 1 <= n /\ n <= Len(registry) /\ 2 <= k /\ k <= n
  BY ServiceAssumption DEF TypeOK, ValidParams
<1>2. \A i \in 1 .. n : registry[i] \in Entry
  BY <1>1
<1>3. Len(first) = n /\ first \in Seq(Entry) /\ \A i \in 1 .. n : first[i] = registry[i]
  BY <1>1, <1>2, SubSeqProperties
<1>4. Distinct(first)
  <2>1. DOMAIN first = 1 .. n /\ DOMAIN registry = 1 .. Len(registry)
    BY <1>1, <1>3
  <2> HIDE DEF first
  <2> QED
    BY <1>1, <1>3, <2>1 DEF Distinct
<1> DEFINE j == [n |-> n, k |-> k, lead |-> lead, at |-> 0, round |-> 0, centers |-> first]
<1>5. j.n = n /\ j.k = k /\ j.centers = first
  OBVIOUS
<1> HIDE DEF j
<1>6. GoodCenters(j)
  BY <1>1, <1>3, <1>4, <1>5 DEF GoodCenters
<1> QED
  BY <1>6 DEF j

(* No lock has terms yet.                                                  *)
LEMMA TermsInit == Init => TermsInv
<1> SUFFICES ASSUME Init PROVE TermsInv
  OBVIOUS
<1>1. IInv /\ Distinct(registry)
  BY InvInit, LoadDistinct DEF Init
<1>2. \A r \in Requests : Settled(r)
  BY DEF Init, Settled, Running, InPipeline, Uploading
<1> QED
  BY <1>1, <1>2 DEF TermsInv

(* Submit settles the centers, StartPipeline the round, and nothing else   *)
(* touches them.                                                           *)
LEMMA TermsNext == TermsInv /\ [Next]_vars => TermsInv'
<1> SUFFICES ASSUME TermsInv, [Next]_vars PROVE TermsInv'
  OBVIOUS
<1>1. IInv /\ IInv' /\ TypeOK
  BY InvNext DEF TermsInv, IInv
<1>2. Distinct(registry)'
  <2>1. registry' = registry \/ registry' = LoadRegistry(onDisk)
    BY DEF Next, Submit, Handler, StartPipeline, WriteSecret, Generate, Lock, SecureDelete,
       SplitAndEncrypt, UploadPuzzle, UploadPayload, UploadShard, UploadManifest, Arrive,
       Crash, Restart, EditRegistry, Environs, svcVars, vars
  <2> QED
    BY <2>1, LoadDistinct DEF TermsInv, Distinct
<1>3. ASSUME NEW r \in Requests PROVE Settled(r)'
  <2>1. Settled(r) /\ (wire[r] # NoUpload => pc[r] \in Uploading \cup Over)
    BY DEF TermsInv, IInv, Local, Progress
  <2>2. wire'[r] # NoUpload => wire[r] # NoUpload \/ pc[r] \in Running \ {"start"}
    <3>1. ASSUME NEW q \in Requests, Handler(q), wire'[r] # wire[r]
          PROVE  pc[r] \in Running \ {"start"}
      <4>1. /\ pc[q] \in {"split"} \cup Uploading
            /\ \E obj : Post(q, obj)
        BY <3>1 DEF Handler, StartPipeline, WriteSecret, Generate, Lock, SecureDelete,
           SplitAndEncrypt, UploadPuzzle, UploadPayload, UploadShard, UploadManifest,
           UploadFails, At, Uploading
      <4>2. q = r
        BY <1>1, <3>1, <4>1 DEF Post, TypeOK
      <4> QED
        BY <4>1, <4>2 DEF Running, InPipeline, Uploading
    <3>2. (\A q \in Requests : ~Handler(q)) => UNCHANGED wire
      BY DEF Next, Submit, Arrive, Crash, Restart, EditRegistry, Environs, svcVars, vars
    <3> QED
      BY <3>1, <3>2
  <2>3. CASE job'[r] = job[r] /\ (pc'[r] \in Running => pc[r] \in Running)
             /\ (pc'[r] \in Running \ {"start"} => pc[r] \in Running \ {"start"})
    BY <2>1, <2>2, <2>3 DEF Settled
  <2>4. CASE Submit(r) /\ pc'[r] = "start"
    <3>1. PICK n \in Ns, k \in Ks, lead \in Leads :
            /\ ValidParams(n, k, lead)
            /\ job' = [job EXCEPT ![r] =
                 [n |-> n, k |-> k, lead |-> lead, at |-> 0, round |-> 0,
                  centers |-> SubSeq(registry, 1, n)]]
      BY <1>1, <2>4, AnswerAt DEF Submit
    <3>2. GoodCenters(job'[r])
      BY <1>1, <3>1, PrefixGood, ServiceAssumption DEF TermsInv, TypeOK
    <3>3. wire'[r] = NoUpload
      BY <2>1, <2>4 DEF Submit, At, Uploading, Over
    <3> QED
      BY <2>4, <3>2, <3>3 DEF Settled
  <2> DEFINE Starts == /\ RoundAtOrAfter(now + job[r].lead) <= MaxRound
                       /\ job' = [job EXCEPT ![r].at = now,
                                             ![r].round = RoundAtOrAfter(now + job[r].lead)]
  <2>5. CASE StartPipeline(r) /\ Starts
    <3>1. /\ pc[r] = "start" /\ job[r] \in Jobs
          /\ job' = [job EXCEPT ![r].at = now, ![r].round = RoundAtOrAfter(now + job[r].lead)]
      BY <1>1, <2>5 DEF StartPipeline, At, TypeOK
    <3>2. job'[r] = [job[r] EXCEPT !.at = now, !.round = RoundAtOrAfter(now + job[r].lead)]
      BY <1>1, <3>1 DEF TypeOK
    <3>3. GoodCenters(job[r])
      BY <2>1, <3>1 DEF Settled, Running, InPipeline
    <3> DEFINE old == job[r]
               new == job'[r]
    <3>4. /\ new.n = old.n /\ new.k = old.k /\ new.centers = old.centers
          /\ new.lead = old.lead /\ new.at = now
          /\ new.round = RoundAtOrAfter(now + old.lead)
      BY <3>1, <3>2 DEF Jobs
    <3>5. new.round <= MaxRound
      <4> HIDE DEF new
      <4> QED
        BY <2>5, <3>4
    <3>6. GoodCenters(new) /\ GoodRound(new)
      <4> HIDE DEF old, new
      <4> QED
        BY <3>3, <3>4, <3>5 DEF GoodCenters, GoodRound, old
    <3> QED
      BY <3>6 DEF Settled
  <2>6. CASE StartPipeline(r) /\ ~Starts
    <3>1. job' = job /\ Answer(r, 500)
      BY <2>6 DEF StartPipeline
    <3>2. job'[r] = job[r] /\ pc'[r] = "ended"
      BY <1>1, <3>1, AnswerAt
    <3> QED
      BY <2>3, <3>2 DEF Running, InPipeline, Uploading
  <2>7. ASSUME ~(Submit(r) /\ pc'[r] = "start"), ~StartPipeline(r)
        PROVE  /\ job'[r] = job[r] /\ (pc'[r] \in Running => pc[r] \in Running)
               /\ (pc'[r] \in Running \ {"start"} => pc[r] \in Running \ {"start"})
    <3>1. ASSUME NEW q \in Requests \ {r}, Submit(q) \/ Handler(q) \/ Arrive(q)
          PROVE  job'[r] = job[r] /\ pc'[r] = pc[r]
      <4>1. OnlyFor(q)
        BY <1>1, <3>1, StepSubmit, StepPipeline, StepUpload, StepArrive DEF Handler, IInv
      <4> QED
        BY <4>1 DEF OnlyFor
    <3>2. CASE Submit(r)
      <4>1. UNCHANGED job /\ \E status \in RefusedFile \cup {422} : Answer(r, status)
        BY <1>1, <2>7, <3>2, GotoAt DEF Submit
      <4> QED
        BY <1>1, <4>1, AnswerAt DEF Running, InPipeline, Uploading
    <3>3. CASE Handler(r)
      <4>1. job' = job
        BY <2>7, <3>3 DEF Handler, WriteSecret, Generate, Lock, SecureDelete, SplitAndEncrypt,
           UploadPuzzle, UploadPayload, UploadShard, UploadManifest
      <4>2. pc[r] \in Running \ {"start"} \/ pc' = pc
        BY <2>7, <3>3 DEF Handler, WriteSecret, Generate, Lock, SecureDelete, SplitAndEncrypt,
           UploadPuzzle, UploadPayload, UploadShard, UploadManifest, At, Running, InPipeline, Uploading
      <4> QED
        BY <4>1, <4>2
    <3>4. CASE Arrive(r) \/ Crash \/ Restart \/ EditRegistry \/ Environs \/ UNCHANGED vars
      <4>1. UNCHANGED job
        BY <3>4 DEF Arrive, Crash, Restart, EditRegistry, Environs, svcVars, vars
      <4>2. pc'[r] = pc[r] \/ pc'[r] = "dropped"
        BY <1>1, <3>4 DEF Arrive, Crash, Restart, EditRegistry, Environs, svcVars, vars, TypeOK
      <4> QED
        BY <4>1, <4>2 DEF Running, InPipeline, Uploading
    <3> QED
      BY <3>1, <3>2, <3>3, <3>4 DEF Next
  <2> QED
    BY <2>3, <2>4, <2>5, <2>6, <2>7
<1> QED
  BY <1>1, <1>2, <1>3 DEF TermsInv

(* TermsInv holds in every reachable state of the lock service.            *)
LEMMA TermsInvariant == Spec => []TermsInv
  BY TermsInit, TermsNext, PTL DEF Spec

(* Every published lock spreads its shards over different centers and      *)
(* keys, one each, whatever was loaded when and edited since.              *)
THEOREM OneShardHolds == Spec => []OneShardPerCenter
<1>1. TermsInv => OneShardPerCenter
  BY ObjectsType
  DEF TermsInv, IInv, Local, Progress, Settled, GoodCenters, OneShardPerCenter
<1> QED
  BY <1>1, TermsInvariant, PTL

(* Every published lock is bound to the first round that is published, by  *)
(* the code's own reckoning, at or after its start.                        *)
THEOREM FirstRoundHolds == Spec => []BoundToFirstRound
<1>1. TermsInv => BoundToFirstRound
  <2> SUFFICES ASSUME TermsInv, NEW r \in Requests, Published(r)
               PROVE  /\ PublishTime(job[r].round) >= job[r].at + job[r].lead
                      /\ \/ job[r].round = 1
                         \/ PublishTime(job[r].round - 1) < job[r].at + job[r].lead
                      /\ job[r].round <= MaxRound
    BY DEF BoundToFirstRound
  <2>1. job[r].at + job[r].lead \in Nat
    BY DEF TermsInv, IInv, TypeOK, Jobs
  <2>2. job[r].round = RoundAtOrAfter(job[r].at + job[r].lead) /\ job[r].round <= MaxRound
    BY ObjectsType DEF TermsInv, IInv, Local, Progress, Settled, GoodRound
  <2> QED
    BY <2>1, <2>2, RoundIsFirst
<1> QED
  BY <1>1, TermsInvariant, PTL
=============================================================================
