--------------------------- MODULE StayInventory ---------------------------
(***************************************************************************)
(* One room type of one hotel: the reservations on it, the nights each of  *)
(* them keeps off the market, and the live counter of rooms left to sell   *)
(* per night (`availability_calendar.rooms_to_sell`).                      *)
(*                                                                         *)
(* Every operation of the program is one database transaction that locks   *)
(* its booking row (SELECT ... FOR UPDATE) and changes the counter with    *)
(* conditional UPDATEs of the nights' rows, so it is one atomic action     *)
(* here; a refusal rolls the transaction back and is a stuttering step.    *)
(* The legs of a booking (`booking_rooms`) are kept as two fields, whether *)
(* they are live and where they end; which numbered room a leg has, money, *)
(* messages and the audit trail are left out.                              *)
(***************************************************************************)
EXTENDS Integers, FiniteSets

CONSTANTS
    Bookings,     \* the booking rows the hotel may create
    Horizon,      \* the last night with a calendar row
    OpenNights,   \* the nights whose row has status 'Open'
    Quantity,     \* physical rooms of the type
    MaxRooms,     \* the most rooms one booking asks for
    Stays         \* the <<checkin, checkout>> pairs the desk asks for

Nights == 1 .. Horizon
Dates  == 1 .. Horizon + 1
NoDate == 0

ASSUME HorizonAssumption  == Horizon \in Nat /\ OpenNights \subseteq Nights
ASSUME QuantityAssumption == Quantity \in Nat /\ MaxRooms \in Nat \ {0}
ASSUME BookingsAssumption == IsFiniteSet(Bookings)
ASSUME StaysAssumption    == Stays \subseteq {s \in Dates \X Dates : s[1] < s[2]}

VARIABLES
    bk,           \* bk[b]: the row of booking b and its legs
    rts,          \* rts[n]: rooms_to_sell of night n
    today,        \* the hotel's calendar date
    business      \* the night-audit business date

vars == <<bk, rts, today, business>>

-----------------------------------------------------------------------------
(* The shape of a booking.                                                 *)

Kinds    == {"confirm", "inquiry", "online_failed", "hold_confirm", "hold_unconfirm"}
Statuses == {"None", "Pending", "Approved", "Rejected", "Cancelled", "NoShow",
             "CheckedIn", "CheckedOut"}
Holds    == {"none", "running", "due"}  \* hold_until: null, in the future, passed

Booking == [status : Statuses, kind : Kinds, checkin : Dates, checkout : Dates,
            rooms : 1 .. MaxRooms, hold : Holds, releasedFrom : Dates \cup {NoDate},
            live : BOOLEAN, legsTo : Dates, inToday : BOOLEAN, outToday : BOOLEAN,
            voided : BOOLEAN, ota : BOOLEAN]

Blank == [status |-> "None", kind |-> "confirm", checkin |-> 1, checkout |-> 1,
          rooms |-> 1, hold |-> "none", releasedFrom |-> NoDate, live |-> FALSE,
          legsTo |-> 1, inToday |-> FALSE, outToday |-> FALSE, voided |-> FALSE,
          ota |-> FALSE]

\* The generated column inventory_held.
InventoryHeld(x) == /\ x.status \notin {"None", "Rejected", "Cancelled"}
                    /\ x.kind # "inquiry"

PreArrival(x) == x.status \in {"Pending", "Approved"}

IsHold(k)        == k \in {"hold_confirm", "hold_unconfirm"}
InitialStatus(k) == IF k \in {"confirm", "hold_confirm"} THEN "Approved" ELSE "Pending"

\* Broken: approval leaves the kind alone.
KindAfterApprovalKept(x) == x.kind

KindAfterApproval(x) ==
    CASE x.kind = "hold_unconfirm" /\ x.hold # "none" -> "hold_confirm"
      [] x.kind = "hold_confirm"                      -> "hold_confirm"
      [] OTHER                                        -> "confirm"

\* The hold a booking may become; a confirmed one is never un-confirmed.
HoldKinds(k) == IF k \in {"confirm", "hold_confirm"}
                THEN {"hold_confirm"}
                ELSE {"hold_confirm", "hold_unconfirm"}

\* The CHECK constraint bookings_kind_matches_status.
KindMatches(x) ==
    /\ x.status = "Pending" => x.kind \in {"inquiry", "online_failed", "hold_unconfirm"}
    /\ x.status \in {"Approved", "CheckedIn", "CheckedOut", "NoShow"}
           => x.kind \in {"confirm", "hold_confirm"}

-----------------------------------------------------------------------------
(* Dates and the counter.                                                  *)

Earlier(d, e) == IF d < e THEN d ELSE e
Later(d, e)   == IF d < e THEN e ELSE d
Span(d, e)    == d .. e - 1                \* the nights of a stay [d, e)
StayNights(x) == Span(x.checkin, x.checkout)

\* The day the desk is working.
Operating == Later(business, today)

Units == Bookings \X (1 .. MaxRooms)       \* the rooms a booking may ask for

\* releaseStay for every <<booking, night>> in G: capped at the physical quantity.
Returned(G) ==
    [n \in Nights |->
        Earlier(Quantity,
                rts[n] + Cardinality({u \in Units : /\ <<u[1], n>> \in G
                                                    /\ u[2] <= bk[u[1]].rooms}))]

\* Broken: the calendar is only asked whether the nights are open.
CanTakeIfOpen(cal, ns, k) == \A n \in ns : n \in OpenNights

\* reserveStay: every night open with enough rooms, or nothing is taken.
CanTake(cal, ns, k) == \A n \in ns : n \in OpenNights /\ cal[n] >= k
Taken(cal, ns, k)   == [n \in Nights |-> IF n \in ns THEN cal[n] - k ELSE cal[n]]

\* releaseBookingInventory: the nights it gives back, and the row and legs after it.
HeldUntil(x) == IF x.releasedFrom # NoDate THEN Earlier(x.releasedFrom, x.checkout)
                                           ELSE x.checkout
ReleasedNights(x, from) == Span(Later(from, x.checkin), HeldUntil(x))
\* Broken: the nights are marked released and the legs keep them.
ReleasedRowOnly(x, from) ==
    IF from <= x.checkin \/ ReleasedNights(x, from) = {} THEN x
    ELSE [x EXCEPT !.releasedFrom = from]

Released(x, from) ==
    IF from <= x.checkin
    THEN [x EXCEPT !.live = FALSE]
    ELSE IF ReleasedNights(x, from) = {} THEN x
    ELSE [x EXCEPT !.releasedFrom = from,
                   !.legsTo = IF x.live THEN Earlier(@, from) ELSE @]

\* Broken: a no-show is given back from the day it was marked.
NoShowFromMarked(x, marked) == Later(marked, x.checkin)

\* noShowReleaseFrom: the night after the later of arrival and the day it was marked.
NoShowFrom(x, marked) == Later(marked, x.checkin) + 1
AfterNoShow(x, marked) ==
    [IF NoShowFrom(x, marked) < x.checkout THEN Released(x, NoShowFrom(x, marked)) ELSE x
        EXCEPT !.status = "NoShow"]
NoShowNights(x, marked) ==
    IF NoShowFrom(x, marked) < x.checkout THEN ReleasedNights(x, NoShowFrom(x, marked)) ELSE {}

-----------------------------------------------------------------------------
(* Steps shared by the operations.                                         *)

Become(b, x)   == bk' = [bk EXCEPT ![b] = x] /\ UNCHANGED <<today, business>>
GiveBack(b, ns) == rts' = Returned({b} \X ns)
Take(ns, k)    == CanTake(rts, ns, k) /\ rts' = Taken(rts, ns, k)

\* Broken: an inquiry that becomes a booking takes no rooms.
TakeNothing(x) == UNCHANGED rts

\* takeRooms, skipped for a booking that holds its rooms already.
TakeIfUnheld(x) == IF InventoryHeld(x) THEN UNCHANGED rts ELSE Take(StayNights(x), x.rooms)

\* Broken: an inquiry's rooms are given back like any other's.
GiveRoomsBackAlways(b) == GiveBack(b, ReleasedNights(bk[b], bk[b].checkin))

\* giveRoomsBack: an inquiry only has its legs closed.
GiveRoomsBack(b) ==
    IF InventoryHeld(bk[b]) THEN GiveBack(b, ReleasedNights(bk[b], bk[b].checkin))
                            ELSE UNCHANGED rts

\* reclaimReleasedNights: take the released nights again and stretch the legs over them.
ReclaimedNights(x) == IF x.releasedFrom # NoDate THEN Span(x.releasedFrom, x.checkout) ELSE {}
\* Broken: the legs are not stretched over the nights taken again.
ReclaimedRowOnly(x) == [x EXCEPT !.releasedFrom = NoDate]

Reclaimed(x) ==
    IF ReclaimedNights(x) = {} THEN x
    ELSE [x EXCEPT !.releasedFrom = NoDate,
                   !.legsTo = IF x.live /\ @ = x.releasedFrom THEN x.checkout ELSE @]

\* What a check-in writes: it confirms a hold.
Arrived(x) ==
    [x EXCEPT !.status = "CheckedIn", !.inToday = TRUE,
              !.kind   = IF x.kind = "hold_confirm" THEN "confirm" ELSE @,
              !.hold   = IF x.kind = "hold_confirm" THEN "none" ELSE @]

NewBooking(kind, s, k, hold, ota) ==
    [Blank EXCEPT !.status = InitialStatus(kind), !.kind = kind, !.checkin = s[1],
                  !.checkout = s[2], !.rooms = k, !.hold = hold, !.live = TRUE,
                  !.legsTo = s[2], !.ota = ota]

-----------------------------------------------------------------------------
(* Creating a booking.                                                     *)

\* ReservationService.createWithin, one room of it.
CreateReservation(b) ==
    \E kind \in Kinds, s \in Stays, hold \in {"none", "running"} :
        LET x == NewBooking(kind, s, 1, hold, FALSE) IN
        /\ bk[b].status = "None"
        /\ s[1] >= business
        /\ hold # "none" => IsHold(kind)
        /\ IF kind = "inquiry" THEN UNCHANGED rts ELSE Take(StayNights(x), 1)
        /\ \/ Become(b, x)
           \/ /\ kind \in {"confirm", "hold_confirm"}      \* a walk-in checked in now
              /\ s[1] = business
              /\ Become(b, Arrived(x))

\* BookingService.create: a walk-in that awaits approval, or a channel's booking.
CreateBooking(b) ==
    \E s \in Stays, k \in 1 .. MaxRooms, ota \in BOOLEAN :
        LET x == NewBooking(IF ota THEN "confirm" ELSE "hold_unconfirm", s, k, "none", ota) IN
        /\ bk[b].status = "None"
        /\ Take(StayNights(x), k)
        /\ Become(b, x)

-----------------------------------------------------------------------------
(* The desk's operations before arrival.                                   *)

Approve(b) ==
    LET x == bk[b]  k == KindAfterApproval(x) IN
    /\ x.status = "Pending"
    /\ TakeIfUnheld(x)
    /\ Become(b, [x EXCEPT !.status = "Approved", !.kind = k,
                           !.hold = IF k = "confirm" THEN "none" ELSE @])

Reject(b) ==
    /\ bk[b].status = "Pending"
    /\ GiveRoomsBack(b)
    /\ Become(b, [bk[b] EXCEPT !.status = "Rejected", !.live = FALSE])

Cancel(b) ==
    /\ PreArrival(bk[b])
    /\ GiveRoomsBack(b)
    /\ Become(b, [bk[b] EXCEPT !.status = "Cancelled", !.live = FALSE])

VoidBooking(b) ==
    /\ PreArrival(bk[b]) /\ ~bk[b].voided
    /\ GiveRoomsBack(b)
    /\ Become(b, [bk[b] EXCEPT !.status = "Cancelled", !.live = FALSE, !.voided = TRUE])

Confirm(b) ==
    /\ PreArrival(bk[b]) /\ bk[b].kind # "confirm"
    /\ TakeIfUnheld(bk[b])
    /\ Become(b, [bk[b] EXCEPT !.status = "Approved", !.kind = "confirm", !.hold = "none"])

PutOnHold(b) ==
    \E target \in HoldKinds(bk[b].kind), until \in {"none", "running"} :
        /\ PreArrival(bk[b])
        /\ TakeIfUnheld(bk[b])
        /\ Become(b, [bk[b] EXCEPT !.kind = target, !.status = InitialStatus(target),
                                   !.hold = until])

ReleaseHold(b) ==
    /\ PreArrival(bk[b]) /\ IsHold(bk[b].kind)
    /\ GiveBack(b, ReleasedNights(bk[b], bk[b].checkin))
    /\ Become(b, [bk[b] EXCEPT !.status = "Cancelled", !.live = FALSE])

\* amendWithin, when the stay changes: the old nights go back, the new ones are taken.
Amend(b) ==
    \E s \in Stays, k \in 1 .. MaxRooms :
        LET x == bk[b]  freed == Returned({b} \X StayNights(x))
            y == [x EXCEPT !.checkin = s[1], !.checkout = s[2], !.rooms = k, !.legsTo = s[2]]
        IN
        /\ ~x.ota
        /\ \/ PreArrival(x)
           \/ /\ x.status = "CheckedIn" /\ x.rooms = 1      \* a single room, longer
              /\ s[1] = x.checkin /\ s[2] > x.checkout /\ k = x.rooms
        /\ <<x.checkin, x.checkout, x.rooms>> # <<s[1], s[2], k>>
        /\ IF InventoryHeld(x)
           THEN /\ CanTake(freed, StayNights(y), k)
                /\ rts' = Taken(freed, StayNights(y), k)
           ELSE UNCHANGED rts
        /\ Become(b, y)

-----------------------------------------------------------------------------
(* Arrival, the stay and departure.                                        *)

CheckIn(b) ==
    /\ bk[b].status = "Approved"
    /\ bk[b].checkin <= Operating
    /\ Become(b, Arrived(bk[b])) /\ UNCHANGED rts

NoShow(b) ==
    /\ bk[b].status = "Approved"
    /\ GiveBack(b, NoShowNights(bk[b], business))
    /\ Become(b, AfterNoShow(bk[b], business))

ExtendStay(b) ==
    \E s \in Stays :
        LET x == bk[b] IN
        /\ x.status = "CheckedIn"
        /\ s[2] > x.checkout /\ s[2] >= Operating
        /\ Take(Span(x.checkout, s[2]), x.rooms)
        /\ Become(b, [x EXCEPT !.checkout = s[2],
                               !.legsTo = IF x.live /\ @ = x.checkout THEN s[2] ELSE @])

ShortenStay(b) ==
    \E d \in Dates :
        LET x == bk[b] IN
        /\ x.status = "CheckedIn"
        /\ d < x.checkout /\ d >= Operating /\ d > x.checkin
        /\ GiveBack(b, Span(d, x.checkout))
        /\ Become(b, [x EXCEPT !.checkout = d,
                               !.legsTo = IF x.live THEN Earlier(@, d) ELSE @])

\* Broken: the day of departure is the audit's date, even when the audit is behind.
CheckOutByBusiness(b) ==
    LET x == [bk[b] EXCEPT !.status = "CheckedOut", !.outToday = TRUE] IN
    /\ bk[b].status = "CheckedIn"
    /\ IF business < x.checkout
       THEN GiveBack(b, ReleasedNights(x, business)) /\ Become(b, Released(x, business))
       ELSE UNCHANGED rts /\ Become(b, x)

\* Leaving early gives the nights not stayed back; on the arrival day, the whole stay.
CheckOut(b) ==
    LET x == [bk[b] EXCEPT !.status = "CheckedOut", !.outToday = TRUE] IN
    /\ bk[b].status = "CheckedIn"
    /\ IF Operating < x.checkout
       THEN GiveBack(b, ReleasedNights(x, Operating)) /\ Become(b, Released(x, Operating))
       ELSE UNCHANGED rts /\ Become(b, x)

-----------------------------------------------------------------------------
(* Taking a mistake back.                                                  *)

UndoCheckIn(b) ==
    /\ bk[b].status = "CheckedIn" /\ bk[b].inToday
    /\ Become(b, [bk[b] EXCEPT !.status = "Approved", !.inToday = FALSE])
    /\ UNCHANGED rts

UndoCheckOut(b) ==
    LET x == [bk[b] EXCEPT !.status = "CheckedIn", !.outToday = FALSE] IN
    /\ bk[b].status = "CheckedOut" /\ bk[b].outToday
    /\ IF x.releasedFrom # NoDate
       THEN Take(ReclaimedNights(x), x.rooms) /\ Become(b, Reclaimed(x))
       ELSE IF ~x.live
       THEN Take(StayNights(x), x.rooms) /\ Become(b, [x EXCEPT !.live = TRUE])
       ELSE UNCHANGED rts /\ Become(b, x)

\* A cancellation takes its whole stay again, a no-show the nights it gave back. The
\* row must satisfy the CHECK constraint, or the database refuses the update.
Reinstate(b) ==
    LET x == [bk[b] EXCEPT !.status = "Approved"] IN
    /\ x.checkout > Operating
    /\ KindMatches(x)
    /\ \/ /\ bk[b].status = "Cancelled" /\ ~x.voided
          /\ Take(StayNights(x), x.rooms)
          /\ Become(b, [x EXCEPT !.live = TRUE])
       \/ /\ bk[b].status = "NoShow"
          /\ Take(ReclaimedNights(x), x.rooms)
          /\ Become(b, Reclaimed(x))

-----------------------------------------------------------------------------
(* The system's own work: the lifecycle sweep and the night audit.         *)

DueHolds   == {b \in Bookings : PreArrival(bk[b]) /\ bk[b].hold = "due"}
Unconfirmed == {b \in Bookings : bk[b].status = "Pending" /\ bk[b].checkin < today}
NeverArrived == {b \in Bookings : bk[b].status = "Approved" /\ bk[b].checkin <= business}
Overstays   == {b \in Bookings : bk[b].status = "CheckedIn" /\ bk[b].checkout <= business}

\* What a sweep gives back: every due hold's rooms, and those of an unconfirmed booking
\* of any kind but an inquiry.
SweptNights(S) ==
    {g \in S \X Nights : /\ bk[g[1]].hold = "due" \/ bk[g[1]].kind # "inquiry"
                         /\ g[2] \in ReleasedNights(bk[g[1]], bk[g[1]].checkin)}
Swept(x) == [x EXCEPT !.status = "Cancelled", !.live = FALSE]

\* Broken: only the holds that await approval are claimed.
SweepPendingOnly(due, expired) ==
    /\ due \subseteq {b \in DueHolds : bk[b].status = "Pending"}
    /\ expired \subseteq Unconfirmed \ due
    /\ rts' = Returned(SweptNights(due \cup expired))
    /\ bk' = [b \in Bookings |-> IF b \in due \cup expired THEN Swept(bk[b]) ELSE bk[b]]
    /\ UNCHANGED <<today, business>>

\* sweepReservationLifecycle by the worker. SKIP LOCKED lets it pass over any row that
\* is locked, and a property may leave unconfirmed bookings alone.
Sweep(due, expired) ==
    /\ due \subseteq DueHolds /\ expired \subseteq Unconfirmed \ due
    /\ rts' = Returned(SweptNights(due \cup expired))
    /\ bk' = [b \in Bookings |-> IF b \in due \cup expired THEN Swept(bk[b]) ELSE bk[b]]
    /\ UNCHANGED <<today, business>>

\* NightAuditService.run: the sweep, the no-shows the desk did not keep, the overstays
\* it could check out, and the roll of the business date, in one transaction.
NightAudit(swept, gone, out) ==
    LET noShowNights == {g \in gone \X Nights : g[2] \in NoShowNights(bk[g[1]], business)} IN
    /\ business <= Horizon                     \* the bound of the model
    /\ swept \subseteq DueHolds \cup Unconfirmed
    /\ gone \subseteq NeverArrived \ swept
    /\ out \subseteq Overstays
    /\ rts' = Returned(SweptNights(swept) \cup noShowNights)
    /\ bk' = [b \in Bookings |->
                 CASE b \in swept -> Swept(bk[b])
                   [] b \in gone  -> AfterNoShow(bk[b], business)
                   [] b \in out   -> [bk[b] EXCEPT !.status = "CheckedOut", !.outToday = TRUE]
                   [] OTHER       -> bk[b]]
    /\ business' = business + 1
    /\ UNCHANGED today

-----------------------------------------------------------------------------
(* Time.                                                                   *)

HoldLapses(b) ==
    /\ bk[b].hold = "running"
    /\ Become(b, [bk[b] EXCEPT !.hold = "due"])
    /\ UNCHANGED rts

NextDay ==
    /\ today <= Horizon                        \* the bound of the model
    /\ today' = today + 1
    /\ bk' = [b \in Bookings |-> [bk[b] EXCEPT !.inToday = FALSE, !.outToday = FALSE]]
    /\ UNCHANGED <<rts, business>>

-----------------------------------------------------------------------------

Init ==
    /\ bk = [b \in Bookings |-> Blank]
    /\ rts = [n \in Nights |-> Quantity]
    /\ today = 1 /\ business = 1

Desk(b) ==
    \/ CreateReservation(b) \/ CreateBooking(b)
    \/ Approve(b) \/ Reject(b) \/ Cancel(b) \/ VoidBooking(b)
    \/ Confirm(b) \/ PutOnHold(b) \/ ReleaseHold(b) \/ Amend(b)
    \/ CheckIn(b) \/ NoShow(b) \/ ExtendStay(b) \/ ShortenStay(b) \/ CheckOut(b)
    \/ UndoCheckIn(b) \/ UndoCheckOut(b) \/ Reinstate(b)

Next ==
    \/ \E b \in Bookings : Desk(b)
    \/ \E due \in SUBSET DueHolds, expired \in SUBSET Unconfirmed : Sweep(due, expired)
    \/ \E swept \in SUBSET (DueHolds \cup Unconfirmed), gone \in SUBSET NeverArrived,
          out \in SUBSET Overstays : NightAudit(swept, gone, out)
    \/ \E b \in Bookings : HoldLapses(b)
    \/ NextDay

Spec == Init /\ [][Next]_vars

(* The worker sweeps every minute for as long as it runs, and a desk's transaction *)
(* keeps a row locked only while it lasts: a hold that stays due is claimed by some *)
(* sweep. Nothing else is fair: guests and desks may stop at any time.              *)
FairSpec ==
    Spec /\ \A b \in Bookings :
                WF_vars(\E due \in SUBSET DueHolds, expired \in SUBSET Unconfirmed :
                            b \in due /\ Sweep(due, expired))

-----------------------------------------------------------------------------
(* Properties.                                                             *)

\* The nights a booking keeps off the market: its live legs, if its kind takes rooms.
HeldNights(x) == IF InventoryHeld(x) /\ x.live THEN Span(x.checkin, x.legsTo) ELSE {}
Held(n) == {u \in Units : u[2] <= bk[u[1]].rooms /\ n \in HeldNights(bk[u[1]])}

\* The nights openAvailability counts as booked when it recounts the calendar.
BookedNights(x) ==
    IF InventoryHeld(x)
    THEN Span(x.checkin, IF x.releasedFrom # NoDate THEN x.releasedFrom ELSE x.checkout)
    ELSE {}
Booked(n) == {u \in Units : u[2] <= bk[u[1]].rooms /\ n \in BookedNights(bk[u[1]])}

\* Every variable has its type; in particular no counter goes below zero or above the
\* physical quantity (the CHECK on availability_calendar never has to refuse).
TypeOK ==
    /\ bk \in [Bookings -> Booking]
    /\ rts \in [Nights -> 0 .. Quantity]
    /\ today \in Dates /\ business \in Dates

\* Nothing is sold twice and nothing is lost: on every night the rooms left to sell and
\* the rooms the bookings keep make up the hotel, after any sequence of creations,
\* amendments, releases, undos and reinstatements. The LEAST(...) cap never hides an error.
Conserved == \A n \in Nights : rts[n] + Cardinality(Held(n)) = Quantity

\* A reservation that can still be lived in keeps every night of its stay: no guest is
\* confirmed or in house without the rooms behind it, whatever was released, undone or
\* reinstated before. Only an inquiry keeps nothing.
LiveStayIsHeld ==
    \A b \in Bookings :
        LET x == bk[b] IN
        PreArrival(x) \/ x.status = "CheckedIn"
            => /\ x.live /\ x.legsTo = x.checkout /\ x.releasedFrom = NoDate
               /\ x.kind = "inquiry" => x.status = "Pending"

\* A no-show always keeps the night it missed, so that night can be charged for.
NoShowKeepsArrival ==
    \A b \in Bookings : bk[b].status = "NoShow" => bk[b].checkin \in HeldNights(bk[b])

\* No operation ever writes a row that the CHECK constraints on bookings would refuse.
RowChecks ==
    \A b \in Bookings :
        LET x == bk[b] IN
        /\ x.status # "None" => KindMatches(x)
        /\ x.hold # "none" => IsHold(x.kind)
        /\ x.releasedFrom # NoDate
               => x.releasedFrom > x.checkin /\ x.releasedFrom <= x.checkout

\* The recount of openAvailability never misses a night that a booking keeps, so
\* reopening a calendar cannot resell it.
RecountCoversHeld == \A b \in Bookings : HeldNights(bk[b]) \subseteq BookedNights(bk[b])

\* A night that is over is never put back on sale by a stay: check-out, a shorter
\* departure and their undos only give back nights from the day the desk is working.
SleptNightsStaySold ==
    [][\A b \in Bookings :
          bk[b].status \in {"CheckedIn", "CheckedOut"}
              => \A n \in HeldNights(bk[b]) : n < Operating => n \in HeldNights(bk'[b])]_vars

\* RoomLedger's view: the rooms a booking keeps per night, and what is left of the hotel.
Ledger == INSTANCE RoomLedger WITH
              kept <- [b \in Bookings |->
                          [n \in Nights |-> IF n \in HeldNights(bk[b]) THEN bk[b].rooms ELSE 0]],
              left <- rts

\* Every operation is a step of the ledger: the sweep and the night audit only ever give
\* rooms back, and whatever takes rooms takes them for one booking, on open nights, out of
\* what is left, also when the same step gives other nights of the stay back.
KeepsLedger == Ledger!Spec

\* A hold whose release time has passed does not keep its rooms for ever.
DueHoldIsReleased ==
    \A b \in Bookings : (b \in DueHolds) ~> (b \notin DueHolds)
=============================================================================
