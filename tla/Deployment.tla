------------------------------ MODULE Deployment ------------------------------
(***************************************************************************)
(* python/config.py, and the lock service that is started with it in the   *)
(* directory KeyCeremony.tla writes.  The environment is read and checked  *)
(* once, when the process starts; a process that finds it unacceptable     *)
(* does not come up.  Whoever runs the service edits the environment and   *)
(* starts it again whenever they like.                                     *)
(***************************************************************************)
EXTENDS KeyCeremony

CONSTANTS
  Environments,  \* what .env may say
  MaxX,          \* the largest x-coordinate of a share (255 in the code)
  Ks             \* k of the requests

(* A URL list is what stands between its commas, blanks aside: a server,   *)
(* perhaps none, and perhaps slashes after it.  The HMAC key is the        *)
(* placeholder everybody can read in env.example, one of fewer than 16 or  *)
(* of fewer than 8 different characters, or a good one; the chain hash is  *)
(* so many bytes of hex.                                                   *)
Urls == Seq([server : STRING, slash : BOOLEAN])

Env ==
  [default_n : Int, default_k : Int, max_shards : Int, min_threshold : Int,
   manifest_hmac_secret : {"placeholder", "short", "repetitive", "good"},
   ipfs_api_urls : Urls, drand_relays : Urls,
   drand_chain_hash : Nat, drand_period : Int, drand_agreement_threshold : Int,
   drand_timeout_secs : Int]

ASSUME DeploymentAssumption ==
  Environments \subseteq Env /\ MaxX \in Nat \ {0, 1} /\ Ks \subseteq Nat

(* The settings of the running service.                                    *)
VARIABLE settings

deployVars == <<keyVars, settings>>

NotRunning == [running |-> FALSE]

NotBlank(text) == text.server # "" \/ text.slash
AtLeastOne(texts) == \E i \in DOMAIN texts : NotBlank(texts[i])

at_least_one_node(env) == AtLeastOne(env.ipfs_api_urls)
at_least_one_relay(env) == AtLeastOne(env.drand_relays)

(* One turn of the loop of both lists: an entry, its blanks and slashes    *)
(* stripped, counts if something is left that was not seen before.         *)
(* Mutant: it may be listed twice.                                         *)
TakenAgain(result, server) == IF server = "" THEN result ELSE Append(result, server)

Taken(result, server) ==
  IF server = "" \/ \E i \in DOMAIN result : result[i] = server
  THEN result ELSE Append(result, server)

Deduplicated(texts) ==
  LET after[i \in 0 .. Len(texts)] ==
        IF i = 0 THEN <<>> ELSE Taken(after[i - 1], texts[i].server)
  IN after[Len(texts)]

RelayList(env) == Deduplicated(env.drand_relays)
NodeList(env) == Deduplicated(env.ipfs_api_urls)

(* What each field allows.  Mutant: max_shards without its le=255.         *)
ShamirFieldsUncapped(env) ==
  env.default_n >= 2 /\ env.default_k >= 2 /\ env.max_shards >= 2 /\ env.min_threshold >= 2

ShamirFields(env) ==
  /\ env.default_n >= 2 /\ env.default_k >= 2
  /\ env.max_shards \in 2 .. MaxX
  /\ env.min_threshold >= 2

DrandFields(env) ==
  env.drand_period >= 1 /\ env.drand_agreement_threshold >= 1 /\ env.drand_timeout_secs >= 1

LongEnough(env) == env.manifest_hmac_secret # "short"
reject_placeholder_secret(env) == env.manifest_hmac_secret \notin {"placeholder", "repetitive"}

chain_hash_is_32_bytes(env) == env.drand_chain_hash = 32

(* Mutant: default_n may exceed max_shards.                                *)
DefaultsUncapped(env) ==
  /\ env.min_threshold <= env.default_k /\ env.default_k <= env.default_n
  /\ env.drand_agreement_threshold <= Len(RelayList(env))

shamir_defaults_consistent(env) ==
  /\ env.min_threshold <= env.default_k /\ env.default_k <= env.default_n
  /\ env.default_n <= env.max_shards
  /\ env.drand_agreement_threshold <= Len(RelayList(env))

Acceptable(env) ==
  /\ ShamirFields(env) /\ LongEnough(env) /\ DrandFields(env)
  /\ at_least_one_node(env) /\ chain_hash_is_32_bytes(env)
  /\ at_least_one_relay(env) /\ reject_placeholder_secret(env)
  /\ shamir_defaults_consistent(env)

(* What the running service makes of it.                                   *)
Effective(env) ==
  [running |-> TRUE, n |-> env.default_n, k |-> env.default_k,
   max_shards |-> env.max_shards, min_threshold |-> env.min_threshold,
   nodes |-> NodeList(env), relays |-> RelayList(env),
   agreement |-> env.drand_agreement_threshold]

DeployInit == CeremonyInit /\ settings = NotRunning

Start ==
  \E env \in Environments :
    IF Acceptable(env)
    THEN StartService /\ settings' = Effective(env)
    ELSE settings' = NotRunning /\ UNCHANGED keyVars

(* A lock request with its n and k, or the defaults for those it leaves    *)
(* out, resolved against the limits and the registry.                      *)
Resolves(n, k) ==
  /\ n \in 2 .. settings.max_shards
  /\ k >= settings.min_threshold /\ k <= n
  /\ loaded # <<>> /\ n <= Len(loaded)

(* shamir.split, and the shares encrypted for the first n centers.         *)
SplitAllowed(n, k) == 2 <= k /\ k <= n /\ n <= MaxX

Request ==
  /\ settings.running
  /\ \E n \in Ns \cup {settings.n}, k \in Ks \cup {settings.k} :
       Resolves(n, k) /\ SplitAllowed(n, k) /\ LockFor(n)
  /\ UNCHANGED settings

Ceremony == GenerateOne \/ Bulk \/ WriteKeypair \/ SaveRegistry \/ Kill \/ Enroll

DeployNext == (Ceremony /\ UNCHANGED settings) \/ Start \/ Request

DeploySpec == DeployInit /\ [][DeployNext]_deployVars
-----------------------------------------------------------------------------
(* A service that comes up serves the request that names neither n nor k,  *)
(* as soon as as many centers are registered, and no request it lets       *)
(* through fails later in split, however many centers bulk registered (up  *)
(* to 999, of which 255 can hold a share).                                 *)
RequestsCanBeServed ==
  settings.running =>
    /\ Len(loaded) >= settings.n => Resolves(settings.n, settings.k)
    /\ \A n \in Ns, k \in Ks : Resolves(n, k) => SplitAllowed(n, k)

(* A service that comes up asks as many different relays as must agree, so *)
(* that honest ones suffice, and no relay, named twice or with a slash     *)
(* after it, is counted as two (drand_client.py:208 counts list entries).  *)
AgreementIsOfServers ==
  settings.running =>
    /\ settings.agreement \in 1 .. Cardinality({settings.relays[i] : i \in DOMAIN settings.relays})
    /\ \A i, j \in DOMAIN settings.relays : i # j => settings.relays[i] # settings.relays[j]
==============================================================================
