------------------------- MODULE MCThreadLifecycle -------------------------
(* Small instances of ThreadLifecycle for TLC.                             *)
EXTENDS ThreadLifecycle

CONSTANTS w1, w2, w3, c1, c2, s1

TwoWorkers == {w1, w2}
ThreeWorkers == {w1, w2, w3}
TwoCallers == {c1, c2}
OneSlot == {s1}
=============================================================================
