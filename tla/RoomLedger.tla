----------------------------- MODULE RoomLedger -----------------------------
(***************************************************************************)
(* What the counter of rooms to sell promises, with no reservation in      *)
(* sight: a ledger of the rooms each booking keeps per night, and a        *)
(* calendar that always shows exactly what the ledger leaves. Several      *)
(* bookings may give rooms back at once; only one at a time may take some, *)
(* on open nights, and never more than there are.                          *)
(***************************************************************************)
EXTENDS Integers, FiniteSets

CONSTANTS Bookings, Nights, OpenNights, Quantity, MaxRooms

VARIABLES
    kept,         \* kept[b][n]: the rooms booking b keeps on night n
    left          \* left[n]: the rooms still for sale on night n

Rows    == [Nights -> 0 .. MaxRooms]
Kept(n) == {u \in Bookings \X (1 .. MaxRooms) : u[2] <= kept[u[1]][n]}
Left    == [n \in Nights |-> Quantity - Cardinality(Kept(n))]

Init ==
    /\ kept = [b \in Bookings |-> [n \in Nights |-> 0]]
    /\ left = Left

\* Any number of bookings give back nights, each of them all of its rooms on the night.
Release ==
    /\ kept' \in [Bookings -> Rows]
    /\ \A b \in Bookings, n \in Nights : kept'[b][n] \in {0, kept[b][n]}

\* One booking's rooms change; what it takes more of is open and there to take.
Grant(b) ==
    /\ kept' \in [Bookings -> Rows]
    /\ \A c \in Bookings \ {b} : kept'[c] = kept[c]
    /\ \A n \in Nights : kept'[b][n] > kept[b][n] =>
           /\ n \in OpenNights
           /\ kept'[b][n] - kept[b][n] <= left[n]

Next ==
    /\ Release \/ \E b \in Bookings : Grant(b)
    /\ left' = Left'

Spec == Init /\ [][Next]_<<kept, left>>
=============================================================================
