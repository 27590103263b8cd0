----------------------------- MODULE MCUtilsQue -----------------------------
(* Small instances of UtilsQue: model values for tasks and data.            *)
EXTENDS UtilsQue

CONSTANTS g1, g2, p1, p2, d1, d2

=============================================================================
