--------------------------- MODULE Deployment_proofs ---------------------------
(***************************************************************************)
(* Theorems about KeyCeremony.tla, for any number of centers and runs of   *)
(* the tool; then about Deployment.tla, for every environment, limit and   *)
(* number of centers: what the checks at startup are worth to the requests *)
(* that come later, and that the service is one KeyCeremony.tla allows, so *)
(* that what is proved of the ceremony holds here.                         *)
(***************************************************************************)
EXTENDS Deployment, Arithmetic, SequenceTheorems

(***************************************************************************)
(* The inductive invariant.  RegistryIsBacked says nothing of a run that   *)
(* is under way: what an unforced run has still to write must not exist    *)
(* yet, and what a bulk has written must still be there when it comes to   *)
(* the registry.                                                           *)
(***************************************************************************)
Keypairs == [run : Nat, id : Ids]
Entry == [id : Ids, pubkey : Keypairs]

Singles == [at : {"one"}, next : Ids, force : BOOLEAN]
Bulks == [at : {"bulk"}, next : Nat, n : 1 .. MaxBulk, force : BOOLEAN]

CeremonyTypeOK ==
  /\ cmd \in {Idle} \cup Singles \cup Bulks
  /\ keyfile \in [Ids -> {Absent, Torn} \cup {Written(key) : key \in Keypairs}]
  /\ registry \in {Absent, Torn} \cup {Written(s) : s \in Seq(Entry)}
  /\ loaded \in Seq(Entry) /\ locked \subseteq Entry
  /\ runs \in Nat /\ forced \in BOOLEAN /\ whole \in BOOLEAN

(* A keypair file is its own center's.                                     *)
OwnKey(id) == Readable(keyfile[id]) => keyfile[id].content.id = id

(* A bulk has written the files before next, and each is still there.      *)
BulkKept ==
  cmd.at = "bulk" =>
    /\ cmd.next <= cmd.n
    /\ \A id \in Ids : id < cmd.next => keyfile[id] = Written(Keypair(id))

(* Nothing is there yet of what an unforced run will write.                *)
Unforced ==
  cmd # Idle /\ ~cmd.force =>
    /\ cmd.at = "one" => keyfile[cmd.next] = Absent
    /\ cmd.at = "bulk" =>
         registry = Absent /\ \A id \in Ids : id >= cmd.next => keyfile[id] = Absent

AllHold == \A i \in DOMAIN registry.content : Holds(registry.content[i])

(* What the service has read, and what it has made locks for, is held too. *)
CopiesHold ==
  /\ \A i \in DOMAIN loaded : Holds(loaded[i])
  /\ \A entry \in locked : Holds(entry)

DistinctIds(entries) ==
  \A i, j \in DOMAIN entries : i # j => entries[i].id # entries[j].id

KInv ==
  /\ CeremonyTypeOK
  /\ \A id \in Ids : OwnKey(id)
  /\ BulkKept /\ Unforced
  /\ cmd # Idle /\ cmd.force => forced
  /\ ~forced /\ Readable(registry) => AllHold
  /\ ~forced => CopiesHold
  /\ whole => cmd = Idle /\ Readable(registry) /\ AllHold /\ DistinctIds(registry.content)
-----------------------------------------------------------------------------
(* What a file can hold.                                                   *)
LEMMA FileFacts ==
  /\ ~Readable(Absent) /\ ~Readable(Torn) /\ Absent # Torn
  /\ \A content : /\ Readable(Written(content)) /\ Written(content).content = content
                  /\ Written(content) # Absent /\ Written(content) # Torn
  BY DEF Readable, Absent, Torn, Written

(* What a run of the tool can be.                                          *)
LEMMA CommandFacts ==
  ASSUME CeremonyTypeOK
  PROVE  /\ cmd = Idle <=> cmd.at = "idle"
         /\ cmd.at = "one" => cmd \in Singles
         /\ cmd.at = "bulk" => cmd \in Bulks
         /\ cmd # Idle => cmd.at \in {"one", "bulk"}
  BY DEF CeremonyTypeOK, Idle, Singles, Bulks

(* A keypair file holds a keypair of its center.                           *)
LEMMA KeypairType == CeremonyTypeOK => \A id \in Ids : Keypair(id) \in Keypairs /\ Keypair(id).id = id
  BY DEF CeremonyTypeOK, Keypair, Keypairs

(* At first there are no keys at all.                                      *)
LEMMA InitInv == CeremonyInit => KInv
<1> SUFFICES ASSUME CeremonyInit PROVE KInv
  OBVIOUS
<1>1. keyfile \in [Ids -> {Absent, Torn} \cup {Written(key) : key \in Keypairs}]
  BY DEF CeremonyInit
<1>2. loaded \in Seq(Entry) /\ locked \subseteq Entry
  BY DEF CeremonyInit
<1>3. CeremonyTypeOK
  BY <1>1, <1>2 DEF CeremonyInit, CeremonyTypeOK
<1>4. CopiesHold
  BY DEF CeremonyInit, CopiesHold
<1> QED
  BY <1>3, <1>4, FileFacts
  DEF CeremonyInit, KInv, OwnKey, BulkKept, Unforced, Idle

(* A registration that is held names a file that can be read.              *)
LEMMA HeldIsReadable ==
  ASSUME NEW entry, Holds(entry)
  PROVE  keyfile[entry.id] # Absent /\ Readable(keyfile[entry.id])
  BY FileFacts DEF Holds

(* A run that begins has written nothing, and what is there it either may  *)
(* overwrite or leaves alone.                                              *)
LEMMA BeginInv ==
  ASSUME KInv, GenerateOne \/ Bulk
  PROVE  KInv'
<1> USE DEF KInv
<1>1. PICK command :
        /\ Begin(command)
        /\ \/ command \in Singles /\ MayWrite(command.next, command.force)
           \/ command \in Bulks /\ command.next = 0 /\ (DirectoryEmpty \/ command.force)
  <2>1. CASE GenerateOne
    <3>1. PICK id \in Ids, force \in BOOLEAN :
            MayWrite(id, force) /\ Begin([at |-> "one", next |-> id, force |-> force])
      BY <2>1 DEF GenerateOne
    <3>2. [at |-> "one", next |-> id, force |-> force] \in Singles
      BY DEF Singles
    <3> QED
      BY <3>1, <3>2
  <2>2. CASE Bulk
    <3>1. PICK n \in Ns, force \in BOOLEAN :
            /\ DirectoryEmpty \/ force
            /\ 1 <= n /\ n <= MaxBulk
            /\ Begin([at |-> "bulk", next |-> 0, n |-> n, force |-> force])
      BY <2>2 DEF Bulk
    <3>2. [at |-> "bulk", next |-> 0, n |-> n, force |-> force] \in Bulks
      BY <3>1, CeremonyAssumption DEF Bulks
    <3> QED
      BY <3>1, <3>2
  <2> QED
    BY <2>1, <2>2
<1>2. /\ cmd = Idle /\ cmd' = command /\ runs' = runs + 1
      /\ forced' = (forced \/ command.force) /\ whole' = FALSE
      /\ keyfile' = keyfile /\ registry' = registry
      /\ loaded' = loaded /\ locked' = locked
  BY <1>1 DEF Begin
<1>3. command.force \in BOOLEAN
  BY <1>1 DEF Singles, Bulks
<1>4. CeremonyTypeOK'
  <2>1. forced' \in BOOLEAN
    BY <1>2
  <2>2. runs' \in Nat
    BY <1>2 DEF CeremonyTypeOK
  <2> QED
    BY <1>1, <1>2, <2>1, <2>2 DEF CeremonyTypeOK
<1>5. \A id \in Ids : OwnKey(id)'
  BY <1>2 DEF OwnKey, Readable
<1>6. BulkKept'
  BY <1>1, <1>2, CeremonyAssumption DEF BulkKept, Singles, Bulks, Ids
<1>7. Unforced'
  BY <1>1, <1>2 DEF Unforced, Singles, Bulks, MayWrite, DirectoryEmpty
<1>8. cmd'.force => forced'
  BY <1>2
<1>9. ~forced' /\ Readable(registry') => AllHold'
  BY <1>2 DEF AllHold, Holds
<1>10. ~forced' => CopiesHold'
  BY <1>2 DEF CopiesHold, Holds
<1> QED
  BY <1>2, <1>4, <1>5, <1>6, <1>7, <1>8, <1>9, <1>10

(* A run that is about to write a keypair file: which one, and, unless it  *)
(* is forced, that nothing holds what it overwrites.                       *)
LEMMA DueFacts ==
  ASSUME KInv, KeypairDue
  PROVE  /\ cmd # Idle /\ cmd.next \in Ids /\ cmd.force \in BOOLEAN
         /\ cmd \in Singles \/ (cmd \in Bulks /\ cmd.next < cmd.n)
         /\ ~cmd.force => keyfile[cmd.next] = Absent
         /\ ~whole
<1> USE DEF KInv
<1>1. cmd \in Singles \/ (cmd \in Bulks /\ cmd.next < cmd.n)
  BY CommandFacts DEF KeypairDue
<1>2. cmd # Idle /\ cmd.next \in Ids /\ cmd.force \in BOOLEAN
  BY <1>1, CeremonyAssumption DEF Singles, Bulks, Ids, Idle
<1>3. ~cmd.force => keyfile[cmd.next] = Absent
  BY <1>1, <1>2, CeremonyAssumption DEF Unforced, Singles, Bulks, Ids
<1> QED
  BY <1>1, <1>2, <1>3

(* Overwriting the file that is due takes a key only from a forced run.    *)
LEMMA OverwriteFacts ==
  ASSUME KInv, KeypairDue, NEW file, keyfile' = [keyfile EXCEPT ![cmd.next] = file]
  PROVE  \A entry \in Entry : Holds(entry) /\ ~Holds(entry)' => cmd.force
<1> SUFFICES ASSUME NEW entry \in Entry, Holds(entry), ~cmd.force
             PROVE  Holds(entry)'
  OBVIOUS
<1>1. entry.id # cmd.next
  BY DueFacts, HeldIsReadable
<1> QED
  BY <1>1 DEF Holds, Entry, KInv, CeremonyTypeOK

(* So a registry that is backed stays backed.                              *)
LEMMA BackedStays ==
  ASSUME KInv, KeypairDue, NEW file, keyfile' = [keyfile EXCEPT ![cmd.next] = file],
         registry' = registry, forced' = forced
  PROVE  ~forced' /\ Readable(registry') => AllHold'
<1> SUFFICES ASSUME ~forced, Readable(registry), NEW i \in DOMAIN registry.content
             PROVE  Holds(registry.content[i])'
  BY DEF AllHold
<1>1. ~cmd.force /\ Holds(registry.content[i])
  BY DueFacts DEF KInv, AllHold
<1>2. registry.content[i] \in Entry
  BY FileFacts DEF KInv, CeremonyTypeOK
<1>3. Holds(registry.content[i])'
  BY <1>1, <1>2, OverwriteFacts
<1> QED
  BY <1>3

(* And so do the service's copies.                                         *)
LEMMA CopiesStay ==
  ASSUME KInv, KeypairDue, NEW file, keyfile' = [keyfile EXCEPT ![cmd.next] = file],
         loaded' = loaded, locked' = locked, forced' = forced
  PROVE  ~forced' => CopiesHold'
<1> SUFFICES ASSUME ~forced
             PROVE  CopiesHold'
  OBVIOUS
<1>1. ~cmd.force /\ CopiesHold
  BY DueFacts DEF KInv
<1>2. \A i \in DOMAIN loaded : loaded[i] \in Entry
  BY DEF KInv, CeremonyTypeOK
<1>3. locked \subseteq Entry
  BY DEF KInv, CeremonyTypeOK
<1>4. \A entry \in Entry : Holds(entry) => Holds(entry)'
  BY <1>1, OverwriteFacts
<1>5. \A i \in DOMAIN loaded : Holds(loaded[i])'
  BY <1>1, <1>2, <1>4 DEF CopiesHold
<1>6. \A entry \in locked : Holds(entry)'
  BY <1>1, <1>3, <1>4 DEF CopiesHold
<1> QED
  BY <1>5, <1>6 DEF CopiesHold, Holds

(* A file that is written becomes part of what the run leaves, or          *)
(* replaces a key nobody has registered, unless it was forced.             *)
LEMMA WriteKeypairInv ==
  ASSUME KInv, WriteKeypair
  PROVE  KInv'
<1> USE DEF KInv
<1>1. /\ KeypairDue
      /\ keyfile' = [keyfile EXCEPT ![cmd.next] = Written(Keypair(cmd.next))]
      /\ cmd' = IF cmd.at = "one" THEN Idle ELSE [cmd EXCEPT !.next = @ + 1]
      /\ registry' = registry /\ loaded' = loaded /\ locked' = locked
      /\ runs' = runs /\ forced' = forced /\ whole' = whole
  BY DEF WriteKeypair
<1>2. \/ cmd' = Idle
      \/ /\ cmd \in Bulks /\ cmd.next < cmd.n
         /\ cmd' \in Bulks /\ cmd'.next = cmd.next + 1
         /\ cmd'.n = cmd.n /\ cmd'.force = cmd.force
  BY <1>1, DueFacts DEF Singles, Bulks
<1>3. CeremonyTypeOK'
  <2>1. Written(Keypair(cmd.next)) \in {Written(key) : key \in Keypairs}
    BY DueFacts, <1>1, KeypairType
  <2>2. keyfile' \in [Ids -> {Absent, Torn} \cup {Written(key) : key \in Keypairs}]
    BY <1>1, <2>1, DueFacts DEF CeremonyTypeOK
  <2> QED
    BY <1>1, <1>2, <2>2 DEF CeremonyTypeOK
<1>4. \A id \in Ids : OwnKey(id)'
  <2> SUFFICES ASSUME NEW id \in Ids PROVE OwnKey(id)'
    OBVIOUS
  <2>1. CASE id = cmd.next
    BY <1>1, <2>1, FileFacts, KeypairType DEF OwnKey, CeremonyTypeOK
  <2>2. CASE id # cmd.next
    BY <1>1, <2>2 DEF OwnKey, CeremonyTypeOK, Readable
  <2> QED
    BY <2>1, <2>2
<1>5. BulkKept'
  <2> SUFFICES ASSUME cmd'.at = "bulk" PROVE BulkKept'
    BY DEF BulkKept
  <2>1. cmd \in Bulks /\ cmd'.next = cmd.next + 1 /\ cmd'.next <= cmd'.n
    BY <1>2 DEF Idle, Bulks
  <2>2. ASSUME NEW id \in Ids, id < cmd'.next
        PROVE  keyfile'[id] = Written(Keypair(id))'
    <3>1. CASE id = cmd.next
      BY <1>1, <3>1 DEF CeremonyTypeOK, Written, Keypair
    <3>2. CASE id # cmd.next
      <4>1. id < cmd.next
        BY <2>1, <2>2, <3>2, CeremonyAssumption DEF Ids, Bulks
      <4> QED
        BY <1>1, <2>1, <3>2, <4>1 DEF BulkKept, CeremonyTypeOK, Bulks, Written, Keypair
    <3> QED
      BY <3>1, <3>2
  <2> QED
    BY <2>1, <2>2 DEF BulkKept
<1>6. Unforced'
  <2> SUFFICES ASSUME cmd' # Idle, ~cmd'.force
               PROVE  registry' = Absent /\ \A id \in Ids : id >= cmd'.next => keyfile'[id] = Absent
    BY <1>2 DEF Unforced, Bulks, Idle
  <2>1. /\ cmd \in Bulks /\ cmd # Idle /\ ~cmd.force /\ cmd'.next = cmd.next + 1
    BY <1>2, DueFacts, <1>1
  <2>2. registry = Absent /\ \A id \in Ids : id >= cmd.next => keyfile[id] = Absent
    BY <2>1 DEF Unforced, Bulks
  <2> QED
    BY <1>1, <2>1, <2>2, CeremonyAssumption DEF Bulks, Ids, CeremonyTypeOK
<1>7. cmd' # Idle /\ cmd'.force => forced'
  BY <1>1, <1>2, DueFacts
<1>8. ~forced' /\ Readable(registry') => AllHold'
  BY <1>1, DueFacts, BackedStays
<1>9. ~forced' => CopiesHold'
  BY <1>1, CopiesStay
<1> QED
  BY <1>1, <1>3, <1>4, <1>5, <1>6, <1>7, <1>8, <1>9, DueFacts

(* When a bulk comes to its registry, every file it names is there.        *)
LEMMA SaveRegistryInv ==
  ASSUME KInv, SaveRegistry
  PROVE  KInv'
<1> USE DEF KInv
<1> DEFINE entries == [i \in 1 .. cmd.n |-> Registration(i - 1)]
<1>1. /\ cmd \in Bulks /\ cmd.next = cmd.n
      /\ registry' = Written(entries) /\ whole' = TRUE /\ cmd' = Idle
      /\ keyfile' = keyfile /\ loaded' = loaded /\ locked' = locked
      /\ runs' = runs /\ forced' = forced
  BY CommandFacts DEF SaveRegistry, RegistryDue
<1>2. cmd.n \in Nat /\ \A i \in 1 .. cmd.n : i - 1 \in Ids /\ i - 1 < cmd.next
  BY <1>1, CeremonyAssumption DEF Bulks, Ids
<1>3. \A i \in 1 .. cmd.n : /\ entries[i] \in Entry
                           /\ entries[i].id = i - 1 /\ entries[i].pubkey = Keypair(i - 1)
  BY <1>2, KeypairType DEF Registration, Entry
<1>4. entries \in Seq(Entry) /\ DOMAIN entries = 1 .. cmd.n
  <2>1. entries \in [1 .. cmd.n -> Entry]
    BY <1>3
  <2> HIDE DEF entries
  <2> QED
    BY <1>2, <2>1
<1>5. registry'.content = entries /\ Readable(registry')
  BY <1>1, FileFacts
<1>6. CeremonyTypeOK'
  BY <1>1, <1>4 DEF CeremonyTypeOK
<1>7. \A id \in Ids : OwnKey(id)'
  BY <1>1 DEF OwnKey, Readable
<1>8. AllHold'
  <2> SUFFICES ASSUME NEW i \in 1 .. cmd.n PROVE keyfile[entries[i].id] = Written(entries[i].pubkey)
    BY <1>1, <1>4, <1>5 DEF AllHold, Holds
  <2> QED
    BY <1>1, <1>2, <1>3 DEF BulkKept, Bulks
<1>9. DistinctIds(registry'.content)
  <2> HIDE DEF entries
  <2> QED
    BY <1>2, <1>3, <1>4, <1>5 DEF DistinctIds
<1>10. ~forced' => CopiesHold'
  BY <1>1 DEF CopiesHold, Holds
<1> QED
  BY <1>1, <1>5, <1>6, <1>7, <1>8, <1>9, <1>10 DEF BulkKept, Unforced, Idle

(* A kill cuts short at most the file that is due.                         *)
LEMMA KillInv ==
  ASSUME KInv, Kill
  PROVE  KInv'
<1> USE DEF KInv
<1>1. /\ cmd # Idle /\ cmd' = Idle
      /\ loaded' = loaded /\ locked' = locked
      /\ runs' = runs /\ forced' = forced /\ whole' = whole
      /\ \/ keyfile' = keyfile /\ registry' = registry
         \/ /\ KeypairDue /\ registry' = registry
            /\ keyfile' = [keyfile EXCEPT ![cmd.next] = Torn]
         \/ registry' = Torn /\ keyfile' = keyfile
  BY DEF Kill
<1>2. keyfile' \in [Ids -> {Absent, Torn} \cup {Written(key) : key \in Keypairs}]
  BY <1>1 DEF CeremonyTypeOK
<1>3. CeremonyTypeOK'
  BY <1>1, <1>2 DEF CeremonyTypeOK
<1>4. \A id \in Ids : OwnKey(id)'
  BY <1>1, FileFacts DEF OwnKey, Readable, CeremonyTypeOK
<1>5. ~forced' /\ Readable(registry') => AllHold'
  <2>1. CASE keyfile' = keyfile /\ registry' = registry
    BY <1>1, <2>1 DEF AllHold, Holds
  <2>2. CASE KeypairDue /\ registry' = registry /\ keyfile' = [keyfile EXCEPT ![cmd.next] = Torn]
    BY <1>1, <2>2, BackedStays
  <2>3. CASE registry' = Torn
    BY <2>3, FileFacts
  <2> QED
    BY <1>1, <2>1, <2>2, <2>3
<1>6. ~forced' => CopiesHold'
  <2>1. CASE keyfile' = keyfile
    BY <1>1, <2>1 DEF CopiesHold, Holds
  <2>2. CASE KeypairDue /\ keyfile' = [keyfile EXCEPT ![cmd.next] = Torn]
    BY <1>1, <2>2, CopiesStay
  <2> QED
    BY <1>1, <2>1, <2>2
<1> QED
  BY <1>1, <1>3, <1>4, <1>5, <1>6 DEF BulkKept, Unforced, Idle

(* Enrolling replaces a center's registration or adds one, with the key    *)
(* its file holds now.                                                     *)
LEMMA EnrollInv ==
  ASSUME KInv, Enroll
  PROVE  KInv'
<1> USE DEF KInv
<1>1. /\ cmd = Idle /\ registry # Torn /\ cmd' = cmd /\ keyfile' = keyfile
      /\ loaded' = loaded /\ locked' = locked
      /\ runs' = runs /\ forced' = forced /\ whole' = whole
  BY DEF Enroll
<1>2. /\ Entries \in Seq(Entry)
      /\ Readable(registry) => Entries = registry.content
      /\ ~Readable(registry) => Entries = <<>>
  BY FileFacts DEF CeremonyTypeOK, Entries
<1>3. PICK id \in Ids, entry \in Entry :
        /\ entry.id = id /\ Holds(entry)
        /\ \/ \E i \in DOMAIN Entries :
                /\ Entries[i].id = id
                /\ registry' = Written([Entries EXCEPT ![i] = entry])
           \/ /\ \A i \in DOMAIN Entries : Entries[i].id # id
              /\ registry' = Written(Append(Entries, entry))
  <2>1. PICK id \in Ids :
          /\ Readable(keyfile[id])
          /\ LET entry == [id |-> id, pubkey |-> keyfile[id].content] IN
               \/ \E i \in DOMAIN Entries :
                    /\ Entries[i].id = id
                    /\ registry' = Written([Entries EXCEPT ![i] = entry])
               \/ /\ \A i \in DOMAIN Entries : Entries[i].id # id
                  /\ registry' = Written(Append(Entries, entry))
    BY DEF Enroll
  <2>2. keyfile[id] = Written(keyfile[id].content) /\ keyfile[id].content \in Keypairs
    BY <2>1, FileFacts DEF CeremonyTypeOK
  <2>3. /\ [id |-> id, pubkey |-> keyfile[id].content] \in Entry
        /\ Holds([id |-> id, pubkey |-> keyfile[id].content])
    BY <2>2 DEF Entry, Holds
  <2> QED
    BY <2>1, <2>3
<1>4. \E s \in Seq(Entry) :
        /\ registry' = Written(s)
        /\ \A i \in DOMAIN s : s[i] = entry \/ (i \in DOMAIN Entries /\ s[i] = Entries[i])
        /\ DistinctIds(Entries) => DistinctIds(s)
  <2>1. CASE \E i \in DOMAIN Entries :
               /\ Entries[i].id = id
               /\ registry' = Written([Entries EXCEPT ![i] = entry])
    <3>1. PICK i \in DOMAIN Entries :
            /\ Entries[i].id = id
            /\ registry' = Written([Entries EXCEPT ![i] = entry])
      BY <2>1
    <3> DEFINE s == [Entries EXCEPT ![i] = entry]
    <3>2. /\ s \in Seq(Entry) /\ DOMAIN s = DOMAIN Entries
          /\ s[i] = entry /\ \A j \in DOMAIN Entries \ {i} : s[j] = Entries[j]
      BY <1>2
    <3> HIDE DEF s, Entries
    <3>3. DistinctIds(Entries) => DistinctIds(s)
      BY <1>3, <3>1, <3>2 DEF DistinctIds
    <3> QED
      BY <3>1, <3>2, <3>3 DEF s
  <2>2. CASE /\ \A i \in DOMAIN Entries : Entries[i].id # id
             /\ registry' = Written(Append(Entries, entry))
    <3>1. /\ Append(Entries, entry) \in Seq(Entry)
          /\ DOMAIN Append(Entries, entry) = 1 .. Len(Entries) + 1
          /\ DOMAIN Entries = 1 .. Len(Entries) /\ Len(Entries) \in Nat
          /\ Append(Entries, entry)[Len(Entries) + 1] = entry
          /\ \A i \in 1 .. Len(Entries) : Append(Entries, entry)[i] = Entries[i]
      BY <1>2, <1>3
    <3> DEFINE s == Append(Entries, entry)
    <3> HIDE DEF s, Entries
    <3>2. /\ s \in Seq(Entry) /\ DOMAIN s = 1 .. Len(Entries) + 1
          /\ DOMAIN Entries = 1 .. Len(Entries) /\ Len(Entries) \in Nat
          /\ s[Len(Entries) + 1] = entry
          /\ \A i \in 1 .. Len(Entries) : s[i] = Entries[i]
      BY <3>1 DEF s
    <3>3. \A i \in DOMAIN s : s[i] = entry \/ (i \in DOMAIN Entries /\ s[i] = Entries[i])
      BY <3>2
    <3>4. DistinctIds(Entries) => DistinctIds(s)
      BY <1>3, <2>2, <3>2 DEF DistinctIds
    <3> QED
      BY <2>2, <3>2, <3>3, <3>4 DEF s
  <2> QED
    BY <1>3, <2>1, <2>2
<1>5. PICK s \in Seq(Entry) :
        /\ registry' = Written(s)
        /\ \A i \in DOMAIN s : s[i] = entry \/ (i \in DOMAIN Entries /\ s[i] = Entries[i])
        /\ DistinctIds(Entries) => DistinctIds(s)
  BY <1>4
<1>6. registry'.content = s /\ Readable(registry')
  BY <1>5, FileFacts
<1>7. CeremonyTypeOK'
  BY <1>1, <1>5 DEF CeremonyTypeOK
<1>8. \A k \in Ids : OwnKey(k)'
  BY <1>1 DEF OwnKey, Readable
<1>9. (Readable(registry) => AllHold) => AllHold'
  BY <1>1, <1>2, <1>3, <1>5, <1>6 DEF AllHold, Holds
<1>10. whole' => DistinctIds(registry'.content)
  BY <1>1, <1>2, <1>5, <1>6
<1>11. BulkKept' /\ Unforced'
  BY <1>1, <1>6 DEF BulkKept, Unforced, Idle
<1>12. CopiesHold => CopiesHold'
  BY <1>1 DEF CopiesHold, Holds
<1> QED
  BY <1>1, <1>6, <1>7, <1>8, <1>9, <1>10, <1>11, <1>12

(* The service only reads the registry.                                    *)
LEMMA ServiceInv ==
  ASSUME KInv, StartService \/ LockExam \/ UNCHANGED keyVars
  PROVE  KInv' /\ keyfile' = keyfile
<1> USE DEF KInv
<1>1. /\ cmd' = cmd /\ keyfile' = keyfile /\ registry' = registry
      /\ runs' = runs /\ forced' = forced /\ whole' = whole
  BY DEF StartService, LockExam, LockFor, keyVars
<1>2. loaded' \in Seq(Entry)
  <2>1. CASE StartService
    BY <2>1, FileFacts DEF StartService, CeremonyTypeOK
  <2>2. CASE LockExam \/ UNCHANGED keyVars
    BY <2>2 DEF LockExam, LockFor, keyVars, CeremonyTypeOK
  <2> QED
    BY <2>1, <2>2
<1>3. locked' \subseteq Entry
  BY DEF StartService, LockExam, LockFor, keyVars, CeremonyTypeOK
<1>4. CeremonyTypeOK'
  BY <1>1, <1>2, <1>3 DEF CeremonyTypeOK
<1>5. ~forced' => CopiesHold'
  <2> SUFFICES ASSUME ~forced PROVE CopiesHold'
    BY <1>1
  <2>1. CopiesHold /\ \A entry : Holds(entry)' <=> Holds(entry)
    BY <1>1 DEF Holds
  <2>2. CASE StartService
    <3>1. \A i \in DOMAIN loaded' : Holds(loaded'[i])
      BY <2>2 DEF StartService, AllHold
    <3>2. locked' = locked
      BY <2>2 DEF StartService
    <3> QED
      BY <2>1, <3>1, <3>2 DEF CopiesHold
  <2>3. CASE LockExam
    <3>1. PICK n \in 2 .. Len(loaded) : LockFor(n)
      BY <2>3 DEF LockExam
    <3>2. /\ loaded' = loaded
          /\ locked' = locked \cup {loaded[i] : i \in 1 .. n}
          /\ 1 .. n \subseteq DOMAIN loaded
      BY <3>1 DEF LockFor, CeremonyTypeOK
    <3> QED
      BY <2>1, <3>2 DEF CopiesHold
  <2>4. CASE UNCHANGED keyVars
    BY <2>1, <2>4 DEF keyVars, CopiesHold
  <2> QED
    BY <2>2, <2>3, <2>4
<1> QED
  BY <1>1, <1>4, <1>5
  DEF OwnKey, BulkKept, Unforced, AllHold, DistinctIds, Holds, Readable, Keypair, Written
-----------------------------------------------------------------------------
(* Every step of the ceremony keeps the invariant.                         *)
LEMMA StepInv == KInv /\ [CeremonyNext]_keyVars => KInv'
  BY BeginInv, WriteKeypairInv, SaveRegistryInv, KillInv, EnrollInv, ServiceInv
  DEF CeremonyNext

(* KInv holds in every reachable state.                                    *)
LEMMA KeyInvariant == CeremonySpec => []KInv
  BY InitInv, StepInv, PTL DEF CeremonySpec

(* Without --force the registry only names keys that are held, wherever    *)
(* runs of the tool were killed, for any number of them.                   *)
THEOREM RegistryIsBackedHolds == CeremonySpec => []RegistryIsBacked
<1>1. KInv => RegistryIsBacked
  BY DEF KInv, AllHold, RegistryIsBacked
<1> QED
  BY <1>1, KeyInvariant, PTL

(* A bulk that ends repairs whatever earlier runs left.                    *)
THEOREM BulkRepairsHolds == CeremonySpec => []BulkRepairs
<1>1. KInv => BulkRepairs
  <2> SUFFICES ASSUME KInv, whole
               PROVE  /\ Readable(registry) /\ Distinct(registry.content)
                      /\ AllHold
    BY DEF BulkRepairs, AllHold
  <2>1. \A i \in DOMAIN registry.content :
          /\ registry.content[i] \in Entry
          /\ keyfile[registry.content[i].id] = Written(registry.content[i].pubkey)
    BY FileFacts DEF KInv, CeremonyTypeOK, AllHold, Holds
  <2>2. \A i \in DOMAIN registry.content :
          registry.content[i].pubkey.id = registry.content[i].id
    BY <2>1, FileFacts DEF KInv, OwnKey, Entry
  <2> QED
    BY <2>2 DEF KInv, DistinctIds, Distinct
<1> QED
  BY <1>1, KeyInvariant, PTL

(* Without --force no lock is made for a key that is not there, whenever   *)
(* the service has read the registry.                                      *)
THEOREM LocksAreBackedHolds == CeremonySpec => []LocksAreBacked
<1>1. KInv => LocksAreBacked
  BY DEF KInv, CopiesHold, LocksAreBacked
<1> QED
  BY <1>1, KeyInvariant, PTL

(* Only a forced run takes the key to a lock that was made.                *)
THEOREM OnlyForceHolds == CeremonySpec => OnlyForceLosesKeys
<1> DEFINE Loses == \A entry \in locked :
             Holds(entry) /\ ~Holds(entry)' => cmd # Idle /\ cmd.force
<1>1. KInv /\ [CeremonyNext]_keyVars => [Loses]_keyVars
  <2> SUFFICES ASSUME KInv, CeremonyNext, NEW entry \in locked, Holds(entry), ~Holds(entry)'
               PROVE  cmd # Idle /\ cmd.force
    OBVIOUS
  <2>1. entry \in Entry
    BY DEF KInv, CeremonyTypeOK
  <2>2. KeypairDue /\ \E file : keyfile' = [keyfile EXCEPT ![cmd.next] = file]
    <3>1. keyfile' # keyfile
      BY DEF Holds
    <3> QED
      BY <3>1
      DEF CeremonyNext, GenerateOne, Bulk, Begin, WriteKeypair, SaveRegistry, Kill, Enroll,
          StartService, LockExam, LockFor
  <2> QED
    BY <2>1, <2>2, OverwriteFacts, DueFacts
<1> QED
  BY <1>1, KeyInvariant, PTL DEF CeremonySpec, OnlyForceLosesKeys
-----------------------------------------------------------------------------
(* The settings of a running service come from an environment that passed  *)
(* the checks.                                                             *)
SettingsChecked ==
  settings = NotRunning \/
  \E env \in Environments : Acceptable(env) /\ settings = Effective(env)

(* However the process is started and stopped, it runs on settings that    *)
(* passed every check of config.py.                                        *)
THEOREM SettingsCheckedHolds == DeploySpec => []SettingsChecked
<1>1. DeployInit => SettingsChecked
  BY DEF DeployInit, SettingsChecked
<1>2. SettingsChecked /\ [DeployNext]_deployVars => SettingsChecked'
  <2> SUFFICES ASSUME SettingsChecked, [DeployNext]_deployVars
               PROVE  SettingsChecked'
    OBVIOUS
  <2>1. CASE settings' = settings
    BY <2>1 DEF SettingsChecked
  <2>2. CASE Start
    BY <2>2 DEF Start, SettingsChecked
  <2> QED
    BY <2>1, <2>2 DEF DeployNext, deployVars, Request
<1> QED
  BY <1>1, <1>2, PTL DEF DeploySpec

(* Settings that passed the checks serve the requests that use their       *)
(* defaults.                                                               *)
LEMMA CheckedSettingsServe ==
  ASSUME NEW env \in Environments, Acceptable(env), settings = Effective(env)
  PROVE  RequestsCanBeServed
<1>1. /\ settings.n = env.default_n /\ settings.k = env.default_k
      /\ settings.max_shards = env.max_shards /\ settings.min_threshold = env.min_threshold
  BY DEF Effective
<1>2. /\ env.default_n \in Int /\ env.default_k \in Int
      /\ env.max_shards \in 2 .. MaxX /\ env.min_threshold \in Int
      /\ env.default_n >= 2 /\ env.min_threshold >= 2
      /\ env.min_threshold <= env.default_k /\ env.default_k <= env.default_n
      /\ env.default_n <= env.max_shards
  BY DeploymentAssumption DEF Acceptable, ShamirFields, shamir_defaults_consistent, Env
<1>3. ASSUME Len(loaded) >= settings.n
      PROVE  Resolves(settings.n, settings.k)
  <2>1. loaded # <<>>
    BY <1>1, <1>2, <1>3
  <2> QED
    BY <1>1, <1>2, <1>3, <2>1, DeploymentAssumption DEF Resolves
<1>4. ASSUME NEW n \in Ns, NEW k \in Ks, Resolves(n, k)
      PROVE  SplitAllowed(n, k)
  BY <1>1, <1>2, <1>4, DeploymentAssumption, CeremonyAssumption DEF Resolves, SplitAllowed
<1> QED
  BY <1>3, <1>4 DEF RequestsCanBeServed

(* The defaults pass the service's own parameter check once the registry   *)
(* is large enough, and nothing that passes it fails in split, for every   *)
(* environment, limit and registry.                                        *)
THEOREM RequestsCanBeServedHolds == DeploySpec => []RequestsCanBeServed
<1>1. SettingsChecked => RequestsCanBeServed
  BY CheckedSettingsServe DEF SettingsChecked, RequestsCanBeServed, NotRunning
<1> QED
  BY <1>1, SettingsCheckedHolds, PTL

(* The service takes no step the ceremony's specification does not allow.  *)
THEOREM ImplementsCeremony == DeploySpec => CeremonySpec
<1>1. DeployInit => CeremonyInit
  BY DEF DeployInit
<1>2. [DeployNext]_deployVars => [CeremonyNext]_keyVars
  <2> SUFFICES ASSUME [DeployNext]_deployVars
               PROVE  [CeremonyNext]_keyVars
    OBVIOUS
  <2>1. CASE Ceremony
    BY <2>1 DEF Ceremony, CeremonyNext
  <2>2. CASE Start
    BY <2>2 DEF Start, CeremonyNext
  <2>3. CASE Request
    <3>1. PICK n : LockFor(n)
      BY <2>3 DEF Request
    <3>2. LockExam
      BY <3>1 DEF LockExam, LockFor
    <3> QED
      BY <3>2 DEF CeremonyNext
  <2>4. CASE UNCHANGED deployVars
    BY <2>4 DEF deployVars
  <2> QED
    BY <2>1, <2>2, <2>3, <2>4 DEF DeployNext
<1> QED
  BY <1>1, <1>2, PTL DEF DeploySpec, CeremonySpec

(* So a service that starts, stops and locks at any time next to the tool  *)
(* loses no key except to --force, and finds the registry backed.          *)
THEOREM DeployedKeysAreSafe ==
  DeploySpec => []RegistryIsBacked /\ []LocksAreBacked /\ []BulkRepairs /\ OnlyForceLosesKeys
  BY ImplementsCeremony, RegistryIsBackedHolds, LocksAreBackedHolds, BulkRepairsHolds,
     OnlyForceHolds
-----------------------------------------------------------------------------
(***************************************************************************)
(* The parsed URL lists.  They are computed by a loop, so what they are is *)
(* shown by induction on its turns.                                        *)
(***************************************************************************)

(* after[i]: the result after i turns of the loop, for i up to n.          *)
IsLoop(after, texts, n) ==
  after = [i \in 0 .. n |-> IF i = 0 THEN <<>> ELSE Taken(after[i - 1], texts[i].server)]

(* The loop runs to its end.                                               *)
LEMMA ParsingRuns ==
  ASSUME NEW texts, NEW n \in Nat
  PROVE  \E after : IsLoop(after, texts, n)
<1> DEFINE S == {m \in Nat : \E after : IsLoop(after, texts, m)}
<1>1. 0 \in S
  <2>1. IsLoop([i \in 0 .. 0 |-> <<>>], texts, 0)
    BY DEF IsLoop
  <2> QED
    BY <2>1
<1>2. ASSUME NEW m \in Nat, m \in S PROVE m + 1 \in S
  <2>1. PICK after : IsLoop(after, texts, m)
    BY <1>2
  <2> DEFINE next == [i \in 0 .. m + 1 |->
                        IF i = m + 1 THEN Taken(after[m], texts[m + 1].server) ELSE after[i]]
  <2>2. \A i \in 0 .. m + 1 :
          next[i] = IF i = 0 THEN <<>> ELSE Taken(next[i - 1], texts[i].server)
    <3>1. next[m + 1] = Taken(after[m], texts[m + 1].server) /\ \A i \in 0 .. m : next[i] = after[i]
      OBVIOUS
    <3>2. \A i \in 0 .. m : after[i] = IF i = 0 THEN <<>> ELSE Taken(after[i - 1], texts[i].server)
      BY <2>1 DEF IsLoop
    <3> HIDE DEF next
    <3>3. ASSUME NEW i \in 0 .. m
          PROVE  next[i] = IF i = 0 THEN <<>> ELSE Taken(next[i - 1], texts[i].server)
      BY <3>1, <3>2
    <3>4. next[m + 1] = Taken(next[(m + 1) - 1], texts[m + 1].server)
      BY <3>1
    <3> QED
      BY <3>3, <3>4
  <2>3. IsLoop(next, texts, m + 1)
    <3>1. next = [i \in 0 .. m + 1 |-> next[i]]
      OBVIOUS
    <3> HIDE DEF next
    <3> QED
      BY <2>2, <3>1 DEF IsLoop
  <2> QED
    BY <2>3
<1> HIDE DEF S
<1>3. Nat \subseteq S
  BY <1>1, <1>2, InductionOnSet
<1> QED
  BY <1>3 DEF S

NoneTwice(list) == \A i, j \in DOMAIN list : i # j => list[i] # list[j]

(* One turn keeps a list without repetitions one.                          *)
LEMMA TakenOnce ==
  ASSUME NEW T, NEW list \in Seq(T), NoneTwice(list), NEW server \in T
  PROVE  Taken(list, server) \in Seq(T) /\ NoneTwice(Taken(list, server))
<1>1. CASE server = "" \/ \E i \in DOMAIN list : list[i] = server
  BY <1>1 DEF Taken
<1>2. CASE ~(server = "" \/ \E i \in DOMAIN list : list[i] = server)
  <2>1. Taken(list, server) = Append(list, server)
    BY <1>2 DEF Taken
  <2> DEFINE longer == Append(list, server)
  <2>2. DOMAIN list = 1 .. Len(list) /\ Len(list) \in Nat
    BY LenProperties
  <2>3. /\ longer \in Seq(T) /\ Len(longer) = Len(list) + 1
        /\ \A i \in 1 .. Len(list) : longer[i] = list[i]
        /\ longer[Len(list) + 1] = server
    BY AppendProperties
  <2>4. DOMAIN longer = 1 .. Len(longer)
    BY <2>3, LenProperties
  <2> HIDE DEF longer
  <2>5. \A i \in 1 .. Len(list) : list[i] # server
    BY <1>2, <2>2
  <2>6. NoneTwice(longer)
    <3> SUFFICES ASSUME NEW i \in 1 .. Len(list) + 1, NEW j \in 1 .. Len(list) + 1, i # j
                 PROVE  longer[i] # longer[j]
      BY <2>3, <2>4 DEF NoneTwice
    <3>1. CASE i \in 1 .. Len(list) /\ j \in 1 .. Len(list)
      BY <2>2, <2>3, <3>1 DEF NoneTwice
    <3>2. CASE i = Len(list) + 1
      BY <2>5, <2>2, <2>3, <3>2
    <3>3. CASE j = Len(list) + 1
      BY <2>5, <2>2, <2>3, <3>3
    <3> QED
      BY <2>2, <3>1, <3>2, <3>3
  <2> QED
    BY <2>1, <2>3, <2>6 DEF longer
<1> QED
  BY <1>1, <1>2

(* No list that was parsed names a server twice.                           *)
LEMMA ParsedOnce ==
  ASSUME NEW texts \in Urls
  PROVE  Deduplicated(texts) \in Seq(STRING) /\ NoneTwice(Deduplicated(texts))
<1> DEFINE n == Len(texts)
           after == CHOOSE f : IsLoop(f, texts, n)
           S == {m \in Nat : m <= n => after[m] \in Seq(STRING) /\ NoneTwice(after[m])}
<1>1. n \in Nat /\ \A i \in 1 .. n : texts[i].server \in STRING
  <2>1. texts \in Seq([server : STRING, slash : BOOLEAN])
    BY DEF Urls
  <2>2. Len(texts) \in Nat
    BY <2>1, LenProperties
  <2>3. ASSUME NEW i \in 1 .. Len(texts) PROVE texts[i] \in [server : STRING, slash : BOOLEAN]
    BY <2>1, ElementOfSeq
  <2> QED
    BY <2>2, <2>3
<1>2. Deduplicated(texts) = after[n]
  BY DEF Deduplicated, IsLoop
<1>3. IsLoop(after, texts, n)
  BY <1>1, ParsingRuns
<1> HIDE DEF n, after
<1>4. 0 \in S
  <2>1. after[0] = <<>>
    BY <1>1, <1>3 DEF IsLoop
  <2>2. <<>> \in Seq(STRING)
    BY EmptySeq
  <2>3. NoneTwice(<<>>)
    BY DEF NoneTwice
  <2> QED
    BY <2>1, <2>2, <2>3
<1>5. ASSUME NEW m \in Nat, m \in S PROVE m + 1 \in S
  <2> SUFFICES ASSUME m + 1 <= n
               PROVE  after[m + 1] \in Seq(STRING) /\ NoneTwice(after[m + 1])
    OBVIOUS
  <2>1. after[m] \in Seq(STRING) /\ NoneTwice(after[m])
    BY <1>1, <1>5
  <2>2. after[m + 1] = Taken(after[m], texts[m + 1].server)
    BY <1>1, <1>3 DEF IsLoop
  <2>3. texts[m + 1].server \in STRING
    BY <1>1
  <2> QED
    BY <2>1, <2>2, <2>3, TakenOnce
<1> HIDE DEF S
<1>6. Nat \subseteq S
  BY <1>4, <1>5, InductionOnSet
<1> QED
  BY <1>1, <1>2, <1>6 DEF S

(* Different entries are as many as the entries.                           *)
LEMMA NoneTwiceCount ==
  ASSUME NEW list \in Seq(STRING), NoneTwice(list)
  PROVE  Cardinality({list[i] : i \in DOMAIN list}) = Len(list)
<1> DEFINE entries == {list[i] : i \in DOMAIN list}
<1>1. /\ DOMAIN list = 1 .. Len(list) /\ Len(list) \in Nat
      /\ list \in Surjection(1 .. Len(list), entries)
      /\ list \in Injection(1 .. Len(list), entries)
  BY DEF NoneTwice, Surjection, Injection, IsInjective
<1> HIDE DEF entries
<1>2. IsFiniteSet(1 .. Len(list)) /\ Cardinality(1 .. Len(list)) = Len(list)
  BY <1>1, FS_Interval
<1>3. Cardinality(entries) = Cardinality(1 .. Len(list))
  BY <1>1, <1>2, FS_Surjection
<1> QED
  BY <1>2, <1>3 DEF entries

(* A service that comes up asks as many different relays as must agree.    *)
THEOREM AgreementOfServersHolds == DeploySpec => []AgreementIsOfServers
<1>1. SettingsChecked => AgreementIsOfServers
  <2> SUFFICES ASSUME NEW env \in Environments, Acceptable(env), settings = Effective(env)
               PROVE  AgreementIsOfServers
    <3>1. settings = NotRunning => AgreementIsOfServers
      BY DEF NotRunning, AgreementIsOfServers
    <3> QED
      BY <3>1 DEF SettingsChecked
  <2>1. settings.agreement = env.drand_agreement_threshold /\ settings.relays = RelayList(env)
    BY DEF Effective
  <2>2. /\ env.drand_relays \in Urls /\ env.drand_agreement_threshold \in Int
        /\ env.drand_agreement_threshold >= 1
        /\ env.drand_agreement_threshold <= Len(RelayList(env))
    BY DeploymentAssumption DEF Acceptable, DrandFields, shamir_defaults_consistent, Env
  <2>3. RelayList(env) \in Seq(STRING) /\ NoneTwice(RelayList(env))
    BY <2>2, ParsedOnce DEF RelayList
  <2>4. Cardinality({RelayList(env)[i] : i \in DOMAIN RelayList(env)}) = Len(RelayList(env))
    BY <2>3, NoneTwiceCount
  <2>5. Len(RelayList(env)) \in Nat
    BY <2>3
  <2> QED
    BY <2>1, <2>2, <2>3, <2>4, <2>5 DEF AgreementIsOfServers, NoneTwice
<1> QED
  BY <1>1, SettingsCheckedHolds, PTL
==============================================================================
