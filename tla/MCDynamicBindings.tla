------------------------- MODULE MCDynamicBindings -------------------------
(* Small instances of DynamicBindings for TLC.                             *)
EXTENDS DynamicBindings, TLC

CONSTANTS t1, t2, x, p1, p2, v1, v2

MCThreads == {t1, t2}
MCSymbols == {Package, x}

\* One package; x takes two other values, which are interchangeable.
MCStored == (Package :> {p1}) @@ (x :> {v1, v2})
Symmetry == Permutations({v1, v2})

\* *PACKAGE* takes two packages, x one value.
PackageStored == (Package :> {p1, p2}) @@ (x :> {v1})
=============================================================================
