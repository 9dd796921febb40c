--------------------------- MODULE MCStopTheWorld ---------------------------
(* Small instances of StopTheWorld for TLC.                                *)
EXTENDS StopTheWorld

CONSTANTS main, w1, h1, none
=============================================================================
