-------------------------- MODULE MCCalendarReopen --------------------------
(* CalendarReopen on small instances, for TLC.                             *)
EXTENDS CalendarReopen, TLC

CONSTANTS b1, b2, m1, o1, o2

TwoBookings == {b1, b2}
OneBlock    == {m1}
NoBlocks    == {}
OneOwner    == {o1}
TwoOwners   == {o1, o2}
Symmetry    == Permutations(Bookings) \cup Permutations(Owners)

-----------------------------------------------------------------------------

\* "Writing the requested number absolutely would re-open rooms that are sold ... So the
\* counter is re-derived per date" (openAvailability): reopening a night never puts more
\* rooms on sale than bookings and blocks leave.
NeverOversold == status # "none" => rts + N(Off) <= Quantity
=============================================================================
