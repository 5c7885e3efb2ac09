-------------------------- MODULE MCStayInventory --------------------------
(* StayInventory on small instances, for TLC.                              *)
EXTENDS StayInventory, TLC

CONSTANTS b1, b2

OneBooking  == {b1}
TwoBookings == {b1, b2}
TwoNights   == 1 .. 2
FourNights  == 1 .. 4
ShortStays  == {<<1, 3>>, <<2, 3>>}
OneStay     == {<<1, 3>>}
WeekStays   == {<<2, 4>>}

-----------------------------------------------------------------------------
(* A statement of the repository that its code does not keep: a run of its *)
(* own must find it violated.                                              *)

\* "Cancelled or NoShow -> Approved, taking the rooms again. 409 insufficient_availability,
\* stay_ended or voided" (docs/API.md): whatever kind it was, a cancellation that is not
\* voided, whose stay is not over and whose nights are free can be reinstated.
CancellationCanComeBack ==
    \A b \in Bookings :
        LET x == bk[b] IN
        /\ x.status = "Cancelled" /\ ~x.voided /\ x.checkout > Operating
        /\ CanTake(rts, StayNights(x), x.rooms)
        => ENABLED Reinstate(b)

Symmetry    == Permutations(Bookings)
=============================================================================
