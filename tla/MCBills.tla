------------------------------ MODULE MCBills ------------------------------
(* Bills on a small instance, for TLC.                                     *)
EXTENDS Bills, TLC

CONSTANTS night, levy, pickup, extra, d1, d2

FourLines  == {night, levy, pickup, extra}
NightLines == {night, levy}
Transfers  == {pickup}
TwoDesks   == {d1, d2}
Symmetry   == Permutations(Desks) \cup Permutations(Nightly)
=============================================================================
