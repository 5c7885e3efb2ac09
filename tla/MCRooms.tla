------------------------------ MODULE MCRooms ------------------------------
(* Rooms on small instances, for TLC.                                      *)
EXTENDS Rooms, TLC

CONSTANTS b1, b2, u1, u2

TwoBookings == {b1, b2}
OneHandled  == {b1}
TwoUnits    == {u1, u2}
ShortStays  == [b \in TwoBookings |-> IF b = b1 THEN {<<1, 3>>, <<2, 3>>} ELSE {<<2, 3>>}]
LastNight   == {<<Horizon, Horizon + 1>>}

UnitSymmetry == Permutations(TwoUnits)
=============================================================================
