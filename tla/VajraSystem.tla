------------------------------ MODULE VajraSystem ------------------------------
(***************************************************************************)
(* All of VAJRA running together: the lock service, the centers and the    *)
(* coordinator over one cluster of IPFS nodes, and what they jointly       *)
(* implement.                                                              *)
(***************************************************************************)
EXTENDS Coordinator

systemVars == <<vars, centerVars, coordVars>>

SystemTypeOK == TypeOK /\ CenterTypeOK /\ CoordTypeOK

SystemInit == Init /\ CenterInit /\ CoordInit

SystemNext ==
  \/ Next /\ UNCHANGED <<centerVars, coordVars>>
  \/ CenterNext /\ UNCHANGED coordVars
  \/ CoordNext

SystemSpec == SystemInit /\ [][SystemNext]_systemVars

(* The paper of a lock is sealed when its manifest is on IPFS, and a       *)
(* center has consented when its share has been decrypted.                 *)
SealedTerms(r) ==
  IF Published(r)
  THEN {[k |-> job[r].k, opens |-> job[r].at + job[r].lead]}
  ELSE {}

Consenting(r) == {CenterAt(r, i).id : i \in {j \in Indices(r) : TrueShare(r, j) \in files}}

Vault == INSTANCE ExamVault WITH
  Papers <- Requests,
  Holders <- Centers,
  terms <- [r \in Requests |-> SealedTerms(r)],
  consent <- [r \in Requests |-> Consenting(r)],
  out <- {p.req : p \in released}

(* The whole system implements ExamVault: terms fixed by the one upload    *)
(* that publishes the manifest, consent of distinct centers only, release  *)
(* only after the start time.  It does so whenever one of the two time     *)
(* locks is sound: the gate in force and the clock not fast, or no machine *)
(* faster than the administrator's.                                        *)
ImplementsExamVault == Vault!VaultSpec
==============================================================================
