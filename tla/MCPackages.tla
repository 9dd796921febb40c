----------------------------- MODULE MCPackages -----------------------------
(* A small instance of Packages for TLC.                                   *)
EXTENDS Packages, TLC

CONSTANTS t1, t2, p1, p2

\* One package has a table of one name.
OneTable == p1 :> {1} @@ p2 :> {}

\* One thread does everything; the other one adds symbols, and removes none.
Changers == t1 :> AllOps @@ t2 :> {"intern", "export", "enumerate"}
=============================================================================
