----------------------------- MODULE MCMPLocks -----------------------------
(* Small instances of MPLocks for TLC.                                     *)
EXTENDS MPLocks

CONSTANTS t1, t2
=============================================================================
