-------------------------- MODULE MCSoloReconstruct --------------------------
(***************************************************************************)
(* Three centers, any two of which suffice; the first changes its key back *)
(* and forth.                                                              *)
(***************************************************************************)
EXTENDS MCThreeCenters, SoloReconstruct

(* One key too few; the first two; the last two; all three.                *)
SomeGivens == {{c2}, {c1, c2}, {c2, c3}, {c1, c2, c3}}

GatedSetups == [skip : {FALSE}, skew : {-1, 0}, rate : {4}]

SoloInit == PublishedInit /\ solo = NoSolo

SoloSpec == SoloInit /\ [][SoloNext]_soloVars /\ SoloFairness
==============================================================================
