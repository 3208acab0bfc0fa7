------------------------------- MODULE MCShamir -------------------------------
(***************************************************************************)
(* Small instances of Shamir for TLC.                                      *)
(***************************************************************************)
EXTENDS Shamir
==============================================================================
