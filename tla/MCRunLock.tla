------------------------------ MODULE MCRunLock ------------------------------
(***************************************************************************)
(* Instances of RunLock for TLC.                                           *)
(***************************************************************************)
EXTENDS RunLock

CONSTANTS s1, s2

TwoStarters == { s1, s2 }
=============================================================================
