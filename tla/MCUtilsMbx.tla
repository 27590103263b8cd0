----------------------------- MODULE MCUtilsMbx -----------------------------
(* Small instances of UtilsMbx.                                             *)
EXTENDS UtilsMbx

CONSTANTS b1, s1, s2, m1, m2, m3, c1, exit
=============================================================================
