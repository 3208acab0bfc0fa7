----------------------------- MODULE KeyCeremony -----------------------------
(***************************************************************************)
(* python/vajra_keygen.py and the registry functions of python/centers.py: *)
(* one directory with a keypair file per center and centers.json.  A run   *)
(* of the tool writes file after file, none of them atomically, and may be *)
(* killed anywhere; the lock service reads centers.json when it starts,    *)
(* and encrypts shards to what it read.  One run of the tool at a time.    *)
(***************************************************************************)
EXTENDS Integers, Sequences, FiniteSets

CONSTANTS
  MaxBulk,  \* bulk_generate's cap on n (999 in the code)
  Ns,       \* --n
  MaxRuns   \* bound on the runs of the tool

ASSUME CeremonyAssumption ==
  MaxBulk \in Nat \ {0} /\ Ns \subseteq Nat /\ MaxRuns \in Nat

VARIABLES
  cmd,       \* the run of the tool that is under way
  keyfile,   \* keyfile[i]: CENTER_i.json
  registry,  \* centers.json
  loaded,    \* the service's copy of it
  locked,    \* the registrations some shard was encrypted for
  runs,      \* runs of the tool so far
  forced,    \* --force was ever given
  whole      \* the last run was a bulk, and not killed

keyVars == <<cmd, keyfile, registry, loaded, locked, runs, forced, whole>>

Ids == 0 .. MaxBulk - 1
Idle == [at |-> "idle"]

(* A file is absent, cut short, or holds what was written to it.           *)
Absent == [is |-> "absent"]
Torn == [is |-> "torn"]
Written(content) == [is |-> "written", content |-> content]
Readable(file) == file.is = "written"

(* generate_keypair: a keypair nobody had before.                          *)
Keypair(id) == [run |-> runs, id |-> id]

Registration(id) == [id |-> id, pubkey |-> Keypair(id)]

(* The center still has the private key of a registration.                 *)
Holds(entry) == keyfile[entry.id] = Written(entry.pubkey)

CeremonyInit ==
  /\ cmd = Idle
  /\ keyfile = [id \in Ids |-> Absent] /\ registry = Absent
  /\ loaded = <<>> /\ locked = {}
  /\ runs = 0 /\ forced = FALSE /\ whole = FALSE

Begin(command) ==
  /\ cmd = Idle /\ runs < MaxRuns
  /\ cmd' = command /\ runs' = runs + 1
  /\ forced' = (forced \/ command.force) /\ whole' = FALSE
  /\ UNCHANGED <<keyfile, registry, loaded, locked>>

(* cmd_generate, refusing to overwrite.  Mutant: it does not.              *)
MayWriteAny(id, force) == TRUE
MayWrite(id, force) == keyfile[id] = Absent \/ force

GenerateOne ==
  \E id \in Ids, force \in BOOLEAN :
    MayWrite(id, force) /\ Begin([at |-> "one", next |-> id, force |-> force])

(* cmd_bulk, refusing a directory in which anything is; bulk_generate's    *)
(* bounds on n.                                                            *)
DirectoryEmpty == registry = Absent /\ \A id \in Ids : keyfile[id] = Absent

Bulk ==
  \E n \in Ns, force \in BOOLEAN :
    /\ DirectoryEmpty \/ force
    /\ 1 <= n /\ n <= MaxBulk
    /\ Begin([at |-> "bulk", next |-> 0, n |-> n, force |-> force])

KeypairDue == cmd.at = "one" \/ (cmd.at = "bulk" /\ cmd.next < cmd.n)
RegistryDue == cmd.at = "bulk" /\ cmd.next = cmd.n

(* One keypair file.  Mutant: bulk keeps a file that is there already.     *)
WriteKeypairKeeping ==
  /\ KeypairDue
  /\ keyfile' = [keyfile EXCEPT ![cmd.next] =
       IF cmd.at = "bulk" /\ Readable(@) THEN @ ELSE Written(Keypair(cmd.next))]
  /\ cmd' = IF cmd.at = "one" THEN Idle ELSE [cmd EXCEPT !.next = @ + 1]
  /\ UNCHANGED <<registry, loaded, locked, runs, forced, whole>>

WriteKeypair ==
  /\ KeypairDue
  /\ keyfile' = [keyfile EXCEPT ![cmd.next] = Written(Keypair(cmd.next))]
  /\ cmd' = IF cmd.at = "one" THEN Idle ELSE [cmd EXCEPT !.next = @ + 1]
  /\ UNCHANGED <<registry, loaded, locked, runs, forced, whole>>

(* Mutant: the registry comes first and the files follow.                  *)
SaveRegistryFirst ==
  /\ cmd.at = "bulk" /\ cmd.next = 0 /\ runs > 0
  /\ registry' = Written([i \in 1 .. cmd.n |-> Registration(i - 1)])
  /\ UNCHANGED <<cmd, keyfile, loaded, locked, runs, forced, whole>>

(* save_registry, the end of bulk.                                         *)
SaveRegistry ==
  /\ RegistryDue
  /\ registry' = Written([i \in 1 .. cmd.n |-> Registration(i - 1)])
  /\ whole' = TRUE
  /\ cmd' = Idle
  /\ UNCHANGED <<keyfile, loaded, locked, runs, forced>>

(* Killed, perhaps while writing the next file.                            *)
Kill ==
  /\ cmd # Idle /\ cmd' = Idle
  /\ \/ UNCHANGED <<keyfile, registry>>
     \/ /\ KeypairDue
        /\ keyfile' = [keyfile EXCEPT ![cmd.next] = Torn]
        /\ UNCHANGED registry
     \/ /\ RegistryDue
        /\ registry' = Torn
        /\ UNCHANGED keyfile
  /\ UNCHANGED <<loaded, locked, runs, forced, whole>>

(* cmd_extract_pubkey, and the administrator who enters what it prints     *)
(* into a centers.json that can be read, or starts a new one.              *)
Entries == IF Readable(registry) THEN registry.content ELSE <<>>

Enroll ==
  /\ cmd = Idle /\ registry # Torn
  /\ \E id \in Ids :
       /\ Readable(keyfile[id])
       /\ LET entry == [id |-> id, pubkey |-> keyfile[id].content] IN
            \/ \E i \in DOMAIN Entries :
                 /\ Entries[i].id = id
                 /\ registry' = Written([Entries EXCEPT ![i] = entry])
            \/ /\ \A i \in DOMAIN Entries : Entries[i].id # id
               /\ registry' = Written(Append(Entries, entry))
  /\ UNCHANGED <<cmd, keyfile, loaded, locked, runs, forced, whole>>

(* load_registry as the service starts; what it refuses leaves no centers. *)
Distinct(entries) ==
  \A i, j \in DOMAIN entries :
    i # j => entries[i].id # entries[j].id /\ entries[i].pubkey # entries[j].pubkey

StartService ==
  /\ loaded' = IF Readable(registry) /\ Distinct(registry.content)
               THEN registry.content ELSE <<>>
  /\ UNCHANGED <<cmd, keyfile, registry, locked, runs, forced, whole>>

(* A lock encrypts a shard for each of the first n centers.                *)
LockFor(n) ==
  /\ n \in 2 .. Len(loaded)
  /\ locked' = locked \cup {loaded[i] : i \in 1 .. n}
  /\ UNCHANGED <<cmd, keyfile, registry, loaded, runs, forced, whole>>

LockExam == \E n \in 2 .. Len(loaded) : LockFor(n)

CeremonyNext ==
  \/ GenerateOne \/ Bulk \/ WriteKeypair \/ SaveRegistry \/ Kill
  \/ Enroll \/ StartService \/ LockExam

CeremonySpec == CeremonyInit /\ [][CeremonyNext]_keyVars
-----------------------------------------------------------------------------
(* As long as --force is not used, every center named in a centers.json    *)
(* that can be read holds the private key for it, wherever runs of the     *)
(* tool were killed (vajra_keygen.py:83 writes the registry last).         *)
RegistryIsBacked ==
  ~forced /\ Readable(registry) =>
    \A i \in DOMAIN registry.content : Holds(registry.content[i])

(* A bulk that ends leaves a registry the service accepts, all of whose    *)
(* centers hold their keys, whatever interrupted or forced runs left in    *)
(* the directory before.                                                   *)
BulkRepairs ==
  whole =>
    /\ Readable(registry) /\ Distinct(registry.content)
    /\ \A i \in DOMAIN registry.content : Holds(registry.content[i])

(* As long as --force is not used, a lock is made only for keys that exist *)
(* and stay, although the service encrypts to a registry it read long ago  *)
(* (main.py:66), perhaps between two files of a run.                       *)
LocksAreBacked == ~forced => \A entry \in locked : Holds(entry)

(* Only --force ever costs a center the key to a shard of a lock that was  *)
(* made ("Refusing to overwrite", vajra_keygen.py:45,65).                  *)
OnlyForceLosesKeys ==
  [][\A entry \in locked :
       Holds(entry) /\ ~Holds(entry)' => cmd # Idle /\ cmd.force]_keyVars
==============================================================================
