---------------------------- MODULE MCLockService ----------------------------
(***************************************************************************)
(* Small instances of LockService for TLC.                                 *)
(***************************************************************************)
EXTENDS LockService, TLC

CONSTANTS c1, c2, c3, k1, k2, k3, k1upper

(* Three registered centers in order; and a file with one key twice, which *)
(* load_registry refuses.                                                  *)
GoodFile == <<[id |-> c1, pubkey |-> k1], [id |-> c2, pubkey |-> k2], [id |-> c3, pubkey |-> k3]>>
ShortFile == <<[id |-> c2, pubkey |-> k2], [id |-> c1, pubkey |-> k1]>>
BadFile == <<[id |-> c1, pubkey |-> k1], [id |-> c2, pubkey |-> k1], [id |-> c3, pubkey |-> k3]>>

(* k1 spelled in upper case is the same key.                               *)
RespeltFile == <<[id |-> c1, pubkey |-> k1], [id |-> c2, pubkey |-> k1upper]>>
Spellings == (k1 :> k1) @@ (k1upper :> k1) @@ (k2 :> k2) @@ (k3 :> k3)

OneFile == {GoodFile}
EveryFile == {GoodFile, ShortFile, BadFile, <<>>}
Respelt == {RespeltFile}
==============================================================================
