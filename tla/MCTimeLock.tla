------------------------------ MODULE MCTimeLock ------------------------------
(* Four-bit primes, 11 and 13, alike or not; a counter of four bits that   *)
(* saturates; bases that 11 or 13 divides.                                 *)
EXTENDS TimeLock
==============================================================================
