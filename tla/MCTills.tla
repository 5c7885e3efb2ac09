------------------------------ MODULE MCTills ------------------------------
(* Tills on a small instance, for TLC.                                     *)
EXTENDS Tills

CONSTANTS d1, s1, s2, r1, r2

OneDrawer   == {d1}
TwoShifts   == {s1, s2}
TwoRequests == {r1, r2}
=============================================================================
