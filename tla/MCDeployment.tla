----------------------------- MODULE MCDeployment -----------------------------
(* Three centers at most, of which two could hold a share, --n around both *)
(* of its bounds, and environments at both sides of every check: limits    *)
(* and defaults with good URLs, and URLs with good limits.                 *)
EXTENDS Deployment

Url(server) == [server |-> server, slash |-> FALSE]
Slashed(server) == [server |-> server, slash |-> TRUE]

Good ==
  [default_n |-> 2, default_k |-> 2, max_shards |-> 2, min_threshold |-> 2,
   manifest_hmac_secret |-> "good",
   ipfs_api_urls |-> <<Url("a"), Url("b")>>, drand_relays |-> <<Url("a"), Url("b")>>,
   drand_chain_hash |-> 32, drand_period |-> 1, drand_agreement_threshold |-> 2,
   drand_timeout_secs |-> 1]

Limits ==
  {[Good EXCEPT !.default_n = n, !.default_k = k, !.max_shards = max, !.min_threshold = min] :
     n \in 2 .. 3, k \in 2 .. 3, max \in 2 .. 3, min \in 2 .. 3}
  \cup {[Good EXCEPT !.default_n = 1, !.default_k = 1, !.max_shards = max, !.min_threshold = 1] :
          max \in 1 .. 2}

Lists ==
  {<<Url("")>>, <<Slashed("")>>, <<Url("a"), Slashed("a")>>,
   <<Slashed("a"), Url(""), Url("b"), Url("a")>>}

NodeLists == {[Good EXCEPT !.ipfs_api_urls = nodes] : nodes \in Lists}

RelayLists ==
  {[Good EXCEPT !.drand_relays = relays, !.drand_agreement_threshold = agreement] :
     relays \in Lists, agreement \in 0 .. 2}

Others ==
  {[Good EXCEPT !.manifest_hmac_secret = s] : s \in {"placeholder", "short", "repetitive"}}
  \cup {[Good EXCEPT !.drand_chain_hash = bytes] : bytes \in {0, 31, 33}}
  \cup {[Good EXCEPT !.drand_period = 0], [Good EXCEPT !.drand_timeout_secs = 0]}

MCEnvironments == Limits \cup NodeLists \cup RelayLists \cup Others
===============================================================================
