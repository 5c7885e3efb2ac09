------------------------ MODULE StayInventoryProofs ------------------------
(***************************************************************************)
(* Proofs about StayInventory, for every hotel size, horizon and set of    *)
(* bookings: the types; that the counter of rooms left to sell and the     *)
(* rooms the bookings keep always make up the hotel; that a slept night    *)
(* stays sold; and that the whole is a RoomLedger.                         *)
(***************************************************************************)
EXTENDS StayInventory, FiniteSetTheorems, TLAPS

-----------------------------------------------------------------------------
(* The inductive invariant. A booking's row and its legs agree: this is    *)
(* what makes "the nights an operation gives back" the nights the booking  *)
(* really keeps, for each of the operations.                               *)

LegsMatch(x) ==
    IF x.releasedFrom = NoDate
    THEN x.legsTo = x.checkout
    ELSE /\ x.legsTo = x.releasedFrom
         /\ x.checkin < x.releasedFrom /\ x.releasedFrom < x.checkout

Coherent(x) ==
    /\ x.status # "None" => x.checkin < x.checkout
    /\ KindMatches(x)
    /\ x.hold # "none" => IsHold(x.kind)
    /\ x.status \notin {"NoShow", "CheckedOut"}
           => x.legsTo = x.checkout /\ x.releasedFrom = NoDate
    /\ x.status \in {"Pending", "Approved", "CheckedIn", "NoShow"} => x.live
    /\ x.status \in {"None", "Rejected", "Cancelled"} => ~x.live
    /\ x.status \in {"NoShow", "CheckedOut"} => LegsMatch(x)
    /\ x.status = "CheckedOut" /\ ~x.live => x.releasedFrom = NoDate

AllCoherent == \A b \in Bookings : Coherent(bk[b])

IInv == TypeOK /\ AllCoherent /\ Conserved

-----------------------------------------------------------------------------
(* Counting rooms.                                                         *)

HeldIn(f, n)      == {u \in Units : u[2] <= f[u[1]].rooms /\ n \in HeldNights(f[u[1]])}
OthersIn(f, b, n) == {u \in HeldIn(f, n) : u[1] # b}
Weight(x, n)      == IF n \in HeldNights(x) THEN x.rooms ELSE 0

\* There are finitely many rooms to ask for, and so finitely many in any subset.
LEMMA UnitsFinite ==
    /\ IsFiniteSet(Units)
    /\ \A S \in SUBSET Units : IsFiniteSet(S) /\ Cardinality(S) \in Nat
<1>1. IsFiniteSet(1 .. MaxRooms)
  BY FS_Interval, QuantityAssumption
<1>2. IsFiniteSet(Units)
  BY <1>1, FS_Product, BookingsAssumption DEF Units
<1>3. QED
  BY <1>2, FS_Subset, FS_CardinalityType

\* A booking of k rooms stands for exactly k of them.
LEMMA UnitsOfBooking ==
    ASSUME NEW b \in Bookings, NEW k \in 1 .. MaxRooms
    PROVE  Cardinality({u \in Units : u[1] = b /\ u[2] <= k}) = k
<1> DEFINE Mine == {u \in Units : u[1] = b /\ u[2] <= k}
<1> SUFFICES Cardinality(Mine) = k
  OBVIOUS
<1>1. Mine = {b} \X (1 .. k)
  BY QuantityAssumption DEF Units
<1> HIDE DEF Mine
<1>2. IsFiniteSet(1 .. k) /\ Cardinality(1 .. k) = k
  BY FS_Interval, QuantityAssumption
<1>3. IsFiniteSet({b}) /\ Cardinality({b}) = 1
  BY FS_Singleton
<1>4. Cardinality({b} \X (1 .. k)) = 1 * k
  BY <1>2, <1>3, FS_Product
<1>5. 1 * k = k
  BY QuantityAssumption
<1>6. QED
  BY <1>1, <1>4, <1>5

\* The rooms held on a night are those of one booking and those of the others.
LEMMA HeldSplit ==
    ASSUME NEW f \in [Bookings -> Booking], NEW b \in Bookings, NEW n \in Nights
    PROVE  /\ Cardinality(OthersIn(f, b, n)) \in Nat
           /\ Cardinality(HeldIn(f, n)) = Cardinality(OthersIn(f, b, n)) + Weight(f[b], n)
<1> DEFINE Mine == {u \in HeldIn(f, n) : u[1] = b}
<1>1. /\ OthersIn(f, b, n) \in SUBSET Units
      /\ Mine \in SUBSET Units
  BY DEF OthersIn, HeldIn
<1>2. /\ IsFiniteSet(OthersIn(f, b, n)) /\ Cardinality(OthersIn(f, b, n)) \in Nat
      /\ IsFiniteSet(Mine)
  BY <1>1, UnitsFinite
<1>3. /\ HeldIn(f, n) = OthersIn(f, b, n) \cup Mine
      /\ OthersIn(f, b, n) \cap Mine = {}
  BY DEF OthersIn
<1>4. Cardinality(OthersIn(f, b, n) \cap Mine) = 0
  BY <1>3, FS_EmptySet
<1>5. f[b].rooms \in 1 .. MaxRooms
  BY DEF Booking
<1>6. Cardinality(Mine) = Weight(f[b], n)
  <2>1. CASE n \in HeldNights(f[b])
    <3>1. Mine = {u \in Units : u[1] = b /\ u[2] <= f[b].rooms}
      BY <2>1 DEF HeldIn
    <3>2. QED
      BY <2>1, <3>1, <1>5, UnitsOfBooking DEF Weight
  <2>2. CASE n \notin HeldNights(f[b])
    <3>1. Mine = {}
      BY <2>2 DEF HeldIn
    <3>2. QED
      BY <2>2, <3>1, FS_EmptySet DEF Weight
  <2>3. QED
    BY <2>1, <2>2
<1>7. Cardinality(Mine) \in Nat
  BY <1>2, FS_CardinalityType
<1> HIDE DEF Mine
<1>8. Cardinality(HeldIn(f, n)) = Cardinality(OthersIn(f, b, n)) + Cardinality(Mine)
  <2>1. Cardinality(OthersIn(f, b, n) \cup Mine)
          = Cardinality(OthersIn(f, b, n)) + Cardinality(Mine)
              - Cardinality(OthersIn(f, b, n) \cap Mine)
    BY <1>2, FS_Union
  <2>2. QED
    BY <2>1, <1>2, <1>3, <1>4, <1>7
<1>9. QED
  BY <1>2, <1>6, <1>8

\* What the others hold does not depend on one booking's row.
LEMMA OthersUnchanged ==
    ASSUME NEW f \in [Bookings -> Booking], NEW b \in Bookings, NEW x \in Booking,
           NEW n \in Nights
    PROVE  OthersIn([f EXCEPT ![b] = x], b, n) = OthersIn(f, b, n)
<1>1. \A u \in Units : u[1] \in Bookings
  BY DEF Units
<1>2. QED
  BY <1>1 DEF OthersIn, HeldIn

\* releaseStay for one booking adds its rooms on the nights given back, up to the cap.
LEMMA ReturnedOne ==
    ASSUME TypeOK, NEW b \in Bookings, NEW ns, NEW n \in Nights
    PROVE  Returned({b} \X ns)[n]
             = Earlier(Quantity, rts[n] + IF n \in ns THEN bk[b].rooms ELSE 0)
<1> DEFINE Freed == {u \in Units : /\ <<u[1], n>> \in {b} \X ns
                                   /\ u[2] <= bk[u[1]].rooms}
<1>1. bk[b].rooms \in 1 .. MaxRooms
  BY DEF TypeOK, Booking
<1>2. CASE n \in ns
  <2>1. Freed = {u \in Units : u[1] = b /\ u[2] <= bk[b].rooms}
    BY <1>2
  <2>2. Cardinality(Freed) = bk[b].rooms
    BY <1>1, <2>1, UnitsOfBooking
  <2>3. QED
    BY <1>2, <2>2 DEF Returned
<1>3. CASE n \notin ns
  <2>1. Freed = {}
    BY <1>3
  <2>2. Cardinality(Freed) = 0
    BY <2>1, FS_EmptySet
  <2>3. QED
    BY <1>3, <2>2 DEF Returned
<1>4. QED
  BY <1>2, <1>3

\* A step that changes one booking conserves the rooms when every night's counter moves
\* by what the booking gave back or took.
LEMMA OneBookingStep ==
    ASSUME TypeOK, Conserved, NEW b \in Bookings, NEW x \in Booking,
           bk' = [bk EXCEPT ![b] = x], rts' \in [Nights -> Int],
           \A n \in Nights : rts'[n] + Weight(x, n) = rts[n] + Weight(bk[b], n)
    PROVE  Conserved'
<1> SUFFICES ASSUME NEW n \in Nights
             PROVE  rts'[n] + Cardinality(Held(n)') = Quantity
  BY DEF Conserved
<1>1. bk \in [Bookings -> Booking] /\ rts[n] \in Int /\ rts'[n] \in Int
  BY DEF TypeOK
<1>2. bk' \in [Bookings -> Booking] /\ bk'[b] = x
  BY <1>1
<1>3. Held(n) = HeldIn(bk, n) /\ Held(n)' = HeldIn(bk', n)
  BY DEF Held, HeldIn
<1>4. /\ Cardinality(OthersIn(bk, b, n)) \in Nat
      /\ Cardinality(HeldIn(bk, n)) = Cardinality(OthersIn(bk, b, n)) + Weight(bk[b], n)
  BY <1>1, HeldSplit
<1>5. Cardinality(HeldIn(bk', n)) = Cardinality(OthersIn(bk', b, n)) + Weight(x, n)
  BY <1>2, HeldSplit
<1>6. OthersIn(bk', b, n) = OthersIn(bk, b, n)
  BY <1>1, OthersUnchanged
<1>7. rts[n] + Cardinality(HeldIn(bk, n)) = Quantity
  BY <1>3 DEF Conserved
<1>8. Weight(x, n) \in Int /\ Weight(bk[b], n) \in Int
  BY <1>1, QuantityAssumption DEF Weight, Booking
<1>9. rts'[n] + Weight(x, n) = rts[n] + Weight(bk[b], n)
  OBVIOUS
<1>10. QED
  BY <1>1, <1>3, <1>4, <1>5, <1>6, <1>7, <1>8, <1>9

-----------------------------------------------------------------------------
(* The three ways an operation moves one booking's rooms: it gives nights  *)
(* back, takes nights, or leaves the counter alone.                        *)

\* A calendar of counters is a calendar of integers.
LEMMA CalendarOfIntegers ==
    ASSUME NEW cal \in [Nights -> 0 .. Quantity]
    PROVE  cal \in [Nights -> Int]
<1>1. \A n \in Nights : cal[n] \in Int
  BY QuantityAssumption
<1>2. QED
  BY <1>1

\* releaseStay keeps every counter between zero and the physical quantity.
LEMMA ReturnedType ==
    ASSUME TypeOK, NEW G
    PROVE  Returned(G) \in [Nights -> 0 .. Quantity]
<1> SUFFICES ASSUME NEW n \in Nights
             PROVE  Returned(G)[n] \in 0 .. Quantity
  BY DEF Returned
<1> DEFINE Freed == {u \in Units : <<u[1], n>> \in G /\ u[2] <= bk[u[1]].rooms}
<1>1. Cardinality(Freed) \in Nat
  BY UnitsFinite
<1>2. Returned(G)[n] = Earlier(Quantity, rts[n] + Cardinality(Freed))
  BY DEF Returned
<1>3. rts[n] \in 0 .. Quantity
  BY DEF TypeOK
<1> HIDE DEF Freed
<1>4. QED
  BY <1>1, <1>2, <1>3, QuantityAssumption DEF Earlier

\* When the nights given back are held, the cap does not bite.
LEMMA ReturnedHeld ==
    ASSUME TypeOK, Conserved, NEW b \in Bookings, NEW n \in Nights,
           NEW ns, ns \subseteq HeldNights(bk[b])
    PROVE  Returned({b} \X ns)[n] = rts[n] + (IF n \in ns THEN bk[b].rooms ELSE 0)
<1>1. /\ bk \in [Bookings -> Booking] /\ rts[n] \in 0 .. Quantity
      /\ bk[b].rooms \in 1 .. MaxRooms
  BY DEF TypeOK, Booking
<1>2. Returned({b} \X ns)[n]
        = Earlier(Quantity, rts[n] + (IF n \in ns THEN bk[b].rooms ELSE 0))
  BY ReturnedOne
<1>3. /\ Cardinality(OthersIn(bk, b, n)) \in Nat
      /\ Cardinality(HeldIn(bk, n)) = Cardinality(OthersIn(bk, b, n)) + Weight(bk[b], n)
  BY <1>1, HeldSplit
<1>4. rts[n] + Cardinality(HeldIn(bk, n)) = Quantity
  BY DEF Conserved, Held, HeldIn
<1>5. n \in ns => Weight(bk[b], n) = bk[b].rooms
  BY DEF Weight
<1>6. QED
  BY <1>1, <1>2, <1>3, <1>4, <1>5, QuantityAssumption DEF Earlier, Weight

\* Writing one coherent row keeps every row typed and coherent.
LEMMA RowStep ==
    ASSUME TypeOK, AllCoherent, NEW b \in Bookings, NEW x \in Booking, Coherent(x),
           Become(b, x), rts' \in [Nights -> 0 .. Quantity]
    PROVE  TypeOK' /\ AllCoherent'
<1>1. /\ bk' = [bk EXCEPT ![b] = x] /\ today' = today /\ business' = business
      /\ bk \in [Bookings -> Booking]
  BY DEF Become, TypeOK
<1>2. TypeOK'
  BY <1>1 DEF TypeOK
<1>3. AllCoherent'
  BY <1>1 DEF AllCoherent
<1>4. QED
  BY <1>2, <1>3

LEMMA GiveStep ==
    ASSUME IInv, NEW b \in Bookings, NEW x \in Booking, Coherent(x), NEW ns,
           ns \subseteq HeldNights(bk[b]), HeldNights(x) = HeldNights(bk[b]) \ ns,
           x.rooms = bk[b].rooms, GiveBack(b, ns), Become(b, x)
    PROVE  IInv'
<1> USE DEF IInv
<1>1. rts' = Returned({b} \X ns) /\ rts' \in [Nights -> 0 .. Quantity]
  BY ReturnedType DEF GiveBack
<1>2. TypeOK' /\ AllCoherent'
  BY <1>1, RowStep
<1>3. ASSUME NEW n \in Nights
      PROVE  rts'[n] + Weight(x, n) = rts[n] + Weight(bk[b], n)
  <2>1. rts'[n] = rts[n] + (IF n \in ns THEN bk[b].rooms ELSE 0)
    BY <1>1, ReturnedHeld
  <2>2. rts[n] \in Int /\ bk[b].rooms \in Int
    BY QuantityAssumption DEF TypeOK, Booking
  <2>3. QED
    BY <2>1, <2>2 DEF Weight
<1>4. bk' = [bk EXCEPT ![b] = x]
  BY DEF Become
<1>5. rts' \in [Nights -> Int]
  BY <1>1, CalendarOfIntegers
<1>6. Conserved'
  BY <1>3, <1>4, <1>5, OneBookingStep
<1>7. QED
  BY <1>2, <1>6

LEMMA TakeStep ==
    ASSUME IInv, NEW b \in Bookings, NEW x \in Booking, Coherent(x), NEW ns,
           ns \cap HeldNights(bk[b]) = {}, HeldNights(x) = HeldNights(bk[b]) \cup ns,
           x.rooms = bk[b].rooms \/ HeldNights(bk[b]) = {},
           Take(ns, x.rooms), Become(b, x)
    PROVE  IInv'
<1> USE DEF IInv
<1>1. /\ CanTake(rts, ns, x.rooms) /\ rts' = Taken(rts, ns, x.rooms)
      /\ x.rooms \in Nat \ {0} /\ bk[b].rooms \in Nat \ {0}
      /\ rts \in [Nights -> 0 .. Quantity]
  BY QuantityAssumption DEF Take, TypeOK, Booking
<1>2. rts' \in [Nights -> 0 .. Quantity]
  BY <1>1, QuantityAssumption DEF CanTake, Taken
<1>3. TypeOK' /\ AllCoherent'
  BY <1>2, RowStep
<1>4. ASSUME NEW n \in Nights
      PROVE  rts'[n] + Weight(x, n) = rts[n] + Weight(bk[b], n)
  BY <1>1 DEF Taken, Weight
<1>5. bk' = [bk EXCEPT ![b] = x]
  BY DEF Become
<1>6. rts' \in [Nights -> Int]
  BY <1>2, CalendarOfIntegers
<1>7. Conserved'
  BY <1>4, <1>5, <1>6, OneBookingStep
<1>8. QED
  BY <1>3, <1>7

LEMMA KeepStep ==
    ASSUME IInv, NEW b \in Bookings, NEW x \in Booking, Coherent(x),
           HeldNights(x) = HeldNights(bk[b]),
           x.rooms = bk[b].rooms \/ HeldNights(bk[b]) = {},
           UNCHANGED rts, Become(b, x)
    PROVE  IInv'
<1> USE DEF IInv
<1>1. rts' = rts /\ rts \in [Nights -> 0 .. Quantity]
  BY DEF TypeOK
<1>2. TypeOK' /\ AllCoherent'
  BY <1>1, RowStep
<1>3. \A n \in Nights : rts'[n] + Weight(x, n) = rts[n] + Weight(bk[b], n)
  BY <1>1 DEF Weight
<1>4. bk' = [bk EXCEPT ![b] = x]
  BY DEF Become
<1>5. rts' \in [Nights -> Int]
  BY <1>1, CalendarOfIntegers
<1>6. Conserved'
  BY <1>3, <1>4, <1>5, OneBookingStep
<1>7. QED
  BY <1>2, <1>6

-----------------------------------------------------------------------------
(* What the row of a booking says it holds.                                *)

LEMMA RowFacts ==
    ASSUME IInv, NEW b \in Bookings
    PROVE  bk[b] \in Booking /\ Coherent(bk[b])
BY DEF IInv, TypeOK, AllCoherent

\* A booking that can still be lived in holds its whole stay, unless it is an inquiry.
LEMMA WholeStay ==
    ASSUME NEW x \in Booking, Coherent(x), x.status \in {"Pending", "Approved", "CheckedIn"}
    PROVE  /\ HeldNights(x) = IF InventoryHeld(x) THEN StayNights(x) ELSE {}
           /\ ReleasedNights(x, x.checkin) = StayNights(x)
           /\ x.kind # "inquiry" <=> InventoryHeld(x)
           /\ x.rooms \in 1 .. MaxRooms
<1>1. /\ x.live /\ x.legsTo = x.checkout /\ x.releasedFrom = NoDate
      /\ x.checkin \in Int /\ x.checkout \in Int /\ x.rooms \in 1 .. MaxRooms
  BY HorizonAssumption DEF Coherent, Booking, Dates
<1>2. HeldUntil(x) = x.checkout /\ Later(x.checkin, x.checkin) = x.checkin
  BY <1>1 DEF HeldUntil, Later
<1>3. x.kind # "inquiry" <=> InventoryHeld(x)
  BY DEF InventoryHeld
<1>4. QED
  BY <1>1, <1>2, <1>3 DEF HeldNights, ReleasedNights, StayNights

\* A booking that has not begun, or has ended before arrival, holds nothing.
LEMMA NothingHeld ==
    ASSUME NEW x, x.status \in {"None", "Rejected", "Cancelled"}
    PROVE  HeldNights(x) = {}
BY DEF HeldNights, InventoryHeld

-----------------------------------------------------------------------------
(* The operations before arrival.                                          *)

\* Reject, cancel and void write the same row, but for the status and the void mark.
LEMMA EndStep ==
    ASSUME IInv, NEW b \in Bookings, PreArrival(bk[b]), NEW x \in Booking, Coherent(x),
           x.status \in {"Rejected", "Cancelled"}, x.rooms = bk[b].rooms,
           GiveRoomsBack(b), Become(b, x)
    PROVE  IInv'
<1>1. bk[b] \in Booking /\ Coherent(bk[b])
  BY RowFacts
<1>2. bk[b].status \in {"Pending", "Approved", "CheckedIn"}
  BY DEF PreArrival
<1>3. HeldNights(x) = {}
  BY NothingHeld
<1>4. CASE InventoryHeld(bk[b])
  <2>1. GiveBack(b, StayNights(bk[b])) /\ HeldNights(bk[b]) = StayNights(bk[b])
    BY <1>1, <1>2, <1>4, WholeStay DEF GiveRoomsBack
  <2>2. QED
    BY <1>3, <2>1, GiveStep
<1>5. CASE ~InventoryHeld(bk[b])
  <2>1. HeldNights(bk[b]) = {} /\ UNCHANGED rts
    BY <1>5 DEF GiveRoomsBack, HeldNights
  <2>2. QED
    BY <1>3, <2>1, KeepStep
<1>6. QED
  BY <1>4, <1>5

LEMMA RejectStep ==
    ASSUME IInv, NEW b \in Bookings, Reject(b)
    PROVE  IInv'
<1> DEFINE x == [bk[b] EXCEPT !.status = "Rejected", !.live = FALSE]
<1>1. bk[b] \in Booking /\ Coherent(bk[b])
  BY RowFacts
<1>2. x \in Booking /\ x.status = "Rejected" /\ x.rooms = bk[b].rooms
  BY <1>1 DEF Booking, Statuses
<1>3. Coherent(x)
  BY <1>1 DEF Reject, Booking, Coherent, KindMatches
<1>4. QED
  BY <1>2, <1>3, EndStep DEF Reject, PreArrival

LEMMA CancelStep ==
    ASSUME IInv, NEW b \in Bookings, Cancel(b)
    PROVE  IInv'
<1> DEFINE x == [bk[b] EXCEPT !.status = "Cancelled", !.live = FALSE]
<1>1. bk[b] \in Booking /\ Coherent(bk[b])
  BY RowFacts
<1>2. x \in Booking /\ x.status = "Cancelled" /\ x.rooms = bk[b].rooms
  BY <1>1 DEF Booking, Statuses
<1>3. Coherent(x)
  BY <1>1 DEF Cancel, PreArrival, Booking, Coherent, KindMatches
<1>4. QED
  BY <1>2, <1>3, EndStep DEF Cancel

LEMMA VoidStep ==
    ASSUME IInv, NEW b \in Bookings, VoidBooking(b)
    PROVE  IInv'
<1> DEFINE x == [bk[b] EXCEPT !.status = "Cancelled", !.live = FALSE, !.voided = TRUE]
<1>1. bk[b] \in Booking /\ Coherent(bk[b])
  BY RowFacts
<1>2. x \in Booking /\ x.status = "Cancelled" /\ x.rooms = bk[b].rooms
  BY <1>1 DEF Booking, Statuses
<1>3. Coherent(x)
  BY <1>1 DEF VoidBooking, PreArrival, Booking, Coherent, KindMatches
<1>4. QED
  BY <1>2, <1>3, EndStep DEF VoidBooking

\* A booking that starts to hold rooms takes its stay; one that holds them already
\* keeps exactly them.
LEMMA HoldStep ==
    ASSUME IInv, NEW b \in Bookings, PreArrival(bk[b]), TakeIfUnheld(bk[b]),
           NEW x \in Booking, Coherent(x), PreArrival(x), x.kind # "inquiry",
           x.checkin = bk[b].checkin, x.checkout = bk[b].checkout, x.rooms = bk[b].rooms,
           Become(b, x)
    PROVE  IInv'
<1>1. bk[b] \in Booking /\ Coherent(bk[b])
  BY RowFacts
<1>2. /\ HeldNights(bk[b]) = IF InventoryHeld(bk[b]) THEN StayNights(bk[b]) ELSE {}
      /\ HeldNights(x) = StayNights(x)
  BY <1>1, WholeStay DEF PreArrival
<1>3. StayNights(x) = StayNights(bk[b])
  BY DEF StayNights
<1>4. CASE InventoryHeld(bk[b])
  BY <1>2, <1>3, <1>4, KeepStep DEF TakeIfUnheld
<1>5. CASE ~InventoryHeld(bk[b])
  <2>1. Take(StayNights(bk[b]), x.rooms) /\ HeldNights(bk[b]) = {}
    BY <1>2, <1>5 DEF TakeIfUnheld
  <2>2. QED
    BY <1>2, <1>3, <2>1, TakeStep
<1>6. QED
  BY <1>4, <1>5

LEMMA ApproveStep ==
    ASSUME IInv, NEW b \in Bookings, Approve(b)
    PROVE  IInv'
<1> DEFINE k == KindAfterApproval(bk[b])
           x == [bk[b] EXCEPT !.status = "Approved", !.kind = k,
                              !.hold = IF k = "confirm" THEN "none" ELSE @]
<1>1. bk[b] \in Booking /\ Coherent(bk[b])
  BY RowFacts
<1>2. k \in {"confirm", "hold_confirm"}
  BY DEF KindAfterApproval
<1>3. /\ x \in Booking /\ x.status = "Approved" /\ x.kind = k /\ x.rooms = bk[b].rooms
      /\ x.checkin = bk[b].checkin /\ x.checkout = bk[b].checkout
      /\ x.hold = IF k = "confirm" THEN "none" ELSE bk[b].hold
      /\ x.live = bk[b].live /\ x.legsTo = bk[b].legsTo
      /\ x.releasedFrom = bk[b].releasedFrom
  BY <1>1, <1>2 DEF Booking, Statuses, Kinds, Holds
<1> HIDE DEF x, k
<1>4. Coherent(x)
  BY <1>1, <1>2, <1>3 DEF Approve, Coherent, KindMatches, IsHold
<1>5. PreArrival(bk[b]) /\ PreArrival(x) /\ TakeIfUnheld(bk[b]) /\ x.kind # "inquiry"
  BY <1>2, <1>3 DEF Approve, PreArrival
<1>6. Become(b, x)
  BY DEF Approve, x, k
<1>7. QED
  BY <1>3, <1>4, <1>5, <1>6, HoldStep

LEMMA ConfirmStep ==
    ASSUME IInv, NEW b \in Bookings, Confirm(b)
    PROVE  IInv'
<1> DEFINE x == [bk[b] EXCEPT !.status = "Approved", !.kind = "confirm", !.hold = "none"]
<1>1. bk[b] \in Booking /\ Coherent(bk[b])
  BY RowFacts
<1>2. /\ x \in Booking /\ PreArrival(x) /\ x.kind # "inquiry" /\ x.rooms = bk[b].rooms
      /\ x.checkin = bk[b].checkin /\ x.checkout = bk[b].checkout
  BY <1>1 DEF Booking, Statuses, Kinds, Holds, PreArrival
<1>3. Coherent(x)
  BY <1>1 DEF Confirm, PreArrival, Booking, Coherent, KindMatches
<1>4. QED
  BY <1>2, <1>3, HoldStep DEF Confirm

LEMMA PutOnHoldStep ==
    ASSUME IInv, NEW b \in Bookings, PutOnHold(b)
    PROVE  IInv'
<1>1. bk[b] \in Booking /\ Coherent(bk[b])
  BY RowFacts
<1>2. PICK target \in HoldKinds(bk[b].kind), until \in {"none", "running"} :
        /\ PreArrival(bk[b]) /\ TakeIfUnheld(bk[b])
        /\ Become(b, [bk[b] EXCEPT !.kind = target, !.status = InitialStatus(target),
                                   !.hold = until])
  BY DEF PutOnHold
<1> DEFINE x == [bk[b] EXCEPT !.kind = target, !.status = InitialStatus(target),
                              !.hold = until]
<1>3. target \in {"hold_confirm", "hold_unconfirm"}
  BY DEF HoldKinds
<1>4. /\ x \in Booking /\ PreArrival(x) /\ x.kind # "inquiry" /\ x.rooms = bk[b].rooms
      /\ x.checkin = bk[b].checkin /\ x.checkout = bk[b].checkout
  BY <1>1, <1>3 DEF Booking, Statuses, Kinds, Holds, PreArrival, InitialStatus
<1>5. Coherent(x)
  BY <1>1, <1>2, <1>3 DEF PreArrival, Booking, Coherent, KindMatches, IsHold, InitialStatus
<1>6. QED
  BY <1>2, <1>4, <1>5, HoldStep

LEMMA ReleaseHoldStep ==
    ASSUME IInv, NEW b \in Bookings, ReleaseHold(b)
    PROVE  IInv'
<1> DEFINE x == [bk[b] EXCEPT !.status = "Cancelled", !.live = FALSE]
<1>1. bk[b] \in Booking /\ Coherent(bk[b])
  BY RowFacts
<1>2. x \in Booking /\ x.status = "Cancelled" /\ x.rooms = bk[b].rooms
  BY <1>1 DEF Booking, Statuses
<1>3. Coherent(x)
  BY <1>1 DEF ReleaseHold, PreArrival, Booking, Coherent, KindMatches
<1>4. GiveRoomsBack(b)
  BY DEF ReleaseHold, GiveRoomsBack, PreArrival, IsHold, InventoryHeld
<1>5. QED
  BY <1>2, <1>3, <1>4, EndStep DEF ReleaseHold

\* Moving a stay: the old nights and the new ones may overlap, so the counter goes up
\* by the old rooms and then down by the new ones.
LEMMA AmendStep ==
    ASSUME IInv, NEW b \in Bookings, Amend(b)
    PROVE  IInv'
<1>1. PICK s \in Stays, k \in 1 .. MaxRooms :
        LET x == bk[b]  freed == Returned({b} \X StayNights(x))
            y == [x EXCEPT !.checkin = s[1], !.checkout = s[2], !.rooms = k, !.legsTo = s[2]]
        IN
        /\ PreArrival(x) \/ x.status = "CheckedIn"
        /\ IF InventoryHeld(x)
           THEN /\ CanTake(freed, StayNights(y), k)
                /\ rts' = Taken(freed, StayNights(y), k)
           ELSE UNCHANGED rts
        /\ Become(b, y)
  BY DEF Amend
<1> DEFINE x == bk[b]
           y == [x EXCEPT !.checkin = s[1], !.checkout = s[2], !.rooms = k, !.legsTo = s[2]]
           freed == Returned({b} \X StayNights(x))
<1>2. x \in Booking /\ Coherent(x)
  BY RowFacts
<1>3. s[1] \in Dates /\ s[2] \in Dates /\ s[1] < s[2]
  BY StaysAssumption
<1>4. /\ y \in Booking /\ y.status = x.status /\ y.kind = x.kind /\ y.rooms = k
      /\ y.live = x.live /\ y.releasedFrom = x.releasedFrom /\ y.hold = x.hold
      /\ y.checkin = s[1] /\ y.checkout = s[2] /\ y.legsTo = s[2]
  BY <1>2, <1>3 DEF Booking
<1>5. x.status \in {"Pending", "Approved", "CheckedIn"}
  BY <1>1 DEF PreArrival
<1>6. Become(b, y)
  BY <1>1
<1>7. IF InventoryHeld(x)
      THEN CanTake(freed, StayNights(y), k) /\ rts' = Taken(freed, StayNights(y), k)
      ELSE UNCHANGED rts
  BY <1>1
<1> HIDE DEF y
<1>8. Coherent(y)
  BY <1>2, <1>3, <1>4, <1>5 DEF Coherent, KindMatches
<1>9. InventoryHeld(y) <=> InventoryHeld(x)
  BY <1>4 DEF InventoryHeld
<1>10. /\ HeldNights(x) = IF InventoryHeld(x) THEN StayNights(x) ELSE {}
       /\ HeldNights(y) = IF InventoryHeld(x) THEN StayNights(y) ELSE {}
  BY <1>2, <1>4, <1>5, <1>8, <1>9, WholeStay
<1>11. CASE ~InventoryHeld(x)
  <2>1. HeldNights(x) = {} /\ HeldNights(y) = {} /\ UNCHANGED rts
    BY <1>7, <1>10, <1>11
  <2>2. QED
    BY <1>4, <1>6, <1>8, <2>1, KeepStep
<1>12. CASE InventoryHeld(x)
  <2>1. TypeOK /\ Conserved /\ AllCoherent
    BY DEF IInv
  <2>2. freed \in [Nights -> 0 .. Quantity]
    BY <2>1, ReturnedType
  <2>3. HeldNights(x) = StayNights(x) /\ HeldNights(y) = StayNights(y)
    BY <1>10, <1>12
  <2>4. ASSUME NEW n \in Nights
        PROVE  freed[n] = rts[n] + (IF n \in StayNights(x) THEN x.rooms ELSE 0)
    BY <2>1, <2>3, ReturnedHeld
  <2> HIDE DEF freed
  <2>5. CanTake(freed, StayNights(y), k) /\ rts' = Taken(freed, StayNights(y), k)
    BY <1>7, <1>12
  <2>6. rts' \in [Nights -> 0 .. Quantity]
    BY <2>2, <2>5, QuantityAssumption DEF CanTake, Taken
  <2>7. TypeOK' /\ AllCoherent'
    BY <1>4, <1>6, <1>8, <2>1, <2>6, RowStep
  <2>8. ASSUME NEW n \in Nights
        PROVE  rts'[n] + Weight(y, n) = rts[n] + Weight(x, n)
    <3>1. rts'[n] = IF n \in StayNights(y) THEN freed[n] - k ELSE freed[n]
      BY <2>5 DEF Taken
    <3>2. rts[n] \in Int /\ x.rooms \in Int /\ k \in Int
      BY <1>2, <2>1, QuantityAssumption DEF TypeOK, Booking
    <3>3. QED
      BY <1>4, <2>3, <2>4, <3>1, <3>2 DEF Weight
  <2>9. bk' = [bk EXCEPT ![b] = y]
    BY <1>6 DEF Become
  <2>10. rts' \in [Nights -> Int]
    BY <2>6, CalendarOfIntegers
  <2>11. Conserved'
    BY <1>4, <2>1, <2>8, <2>9, <2>10, OneBookingStep
  <2>12. QED
    BY <2>7, <2>11 DEF IInv
<1>13. QED
  BY <1>11, <1>12

-----------------------------------------------------------------------------
(* Creating a booking.                                                     *)

\* A booking starts with a live leg over its whole stay.
LEMMA NewRow ==
    ASSUME NEW kind \in Kinds, NEW s \in Stays, NEW k \in 1 .. MaxRooms,
           NEW hold \in {"none", "running"}, hold # "none" => IsHold(kind),
           NEW ota \in BOOLEAN
    PROVE  LET x == NewBooking(kind, s, k, hold, ota) IN
           /\ x \in Booking /\ Coherent(x) /\ x.status = InitialStatus(kind)
           /\ x.kind = kind /\ x.rooms = k /\ x.checkin = s[1] /\ x.checkout = s[2]
           /\ HeldNights(x) = IF kind = "inquiry" THEN {} ELSE StayNights(x)
<1> DEFINE x == NewBooking(kind, s, k, hold, ota)
<1>1. s[1] \in Dates /\ s[2] \in Dates /\ s[1] < s[2]
  BY StaysAssumption
<1>2. 1 \in Dates /\ 1 \in 1 .. MaxRooms
  BY HorizonAssumption, QuantityAssumption DEF Dates
<1>3. Blank \in Booking
  BY <1>2 DEF Blank, Booking, Statuses, Kinds, Holds
<1>4. /\ x.status = InitialStatus(kind) /\ x.kind = kind /\ x.checkin = s[1]
      /\ x.checkout = s[2] /\ x.rooms = k /\ x.hold = hold /\ x.live /\ x.legsTo = s[2]
      /\ x.releasedFrom = NoDate
  BY DEF NewBooking, Blank
<1>5. x \in Booking
  BY <1>1, <1>3 DEF NewBooking, Booking, Statuses, Holds, InitialStatus
<1> HIDE DEF x
<1>6. Coherent(x)
  BY <1>1, <1>4 DEF Coherent, KindMatches, InitialStatus, Kinds
<1>7. x.status \in {"Pending", "Approved", "CheckedIn"}
  BY <1>4 DEF InitialStatus
<1>8. HeldNights(x) = IF kind = "inquiry" THEN {} ELSE StayNights(x)
  BY <1>4, <1>5, <1>6, <1>7, WholeStay
<1>9. QED
  BY <1>4, <1>5, <1>6, <1>8 DEF x

\* Checking in keeps the stay, and settles a hold.
LEMMA ArrivedRow ==
    ASSUME NEW x \in Booking, Coherent(x), x.status = "Approved"
    PROVE  /\ Arrived(x) \in Booking /\ Coherent(Arrived(x)) /\ Arrived(x).rooms = x.rooms
           /\ HeldNights(Arrived(x)) = HeldNights(x)
<1> DEFINE y == Arrived(x)
<1>1. x.kind \in {"confirm", "hold_confirm"}
  BY DEF Coherent, KindMatches
<1>2. /\ y \in Booking /\ y.status = "CheckedIn" /\ y.kind = "confirm"
      /\ y.hold = IF x.kind = "hold_confirm" THEN "none" ELSE x.hold
      /\ y.rooms = x.rooms /\ y.checkin = x.checkin /\ y.checkout = x.checkout
      /\ y.live = x.live /\ y.legsTo = x.legsTo /\ y.releasedFrom = x.releasedFrom
  BY <1>1 DEF Arrived, Booking, Statuses, Kinds, Holds
<1> HIDE DEF y
<1>3. Coherent(y)
  BY <1>1, <1>2 DEF Coherent, KindMatches, IsHold
<1>4. InventoryHeld(x) /\ InventoryHeld(y)
  BY <1>1, <1>2 DEF InventoryHeld
<1>5. HeldNights(y) = HeldNights(x)
  BY <1>2, <1>4 DEF HeldNights
<1>6. QED
  BY <1>2, <1>3, <1>5 DEF y

LEMMA CreateReservationStep ==
    ASSUME IInv, NEW b \in Bookings, CreateReservation(b)
    PROVE  IInv'
<1>1. PICK kind \in Kinds, s \in Stays, hold \in {"none", "running"} :
        LET x == NewBooking(kind, s, 1, hold, FALSE) IN
        /\ bk[b].status = "None"
        /\ hold # "none" => IsHold(kind)
        /\ IF kind = "inquiry" THEN UNCHANGED rts ELSE Take(StayNights(x), 1)
        /\ \/ Become(b, x)
           \/ kind \in {"confirm", "hold_confirm"} /\ Become(b, Arrived(x))
  BY DEF CreateReservation
<1> DEFINE ota == FALSE
           x == NewBooking(kind, s, 1, hold, ota)
<1>2. 1 \in 1 .. MaxRooms /\ ota \in BOOLEAN /\ (hold # "none" => IsHold(kind))
  BY <1>1, QuantityAssumption
<1> HIDE DEF ota
<1>3. /\ x \in Booking /\ Coherent(x) /\ x.status = InitialStatus(kind)
      /\ x.kind = kind /\ x.rooms = 1
      /\ HeldNights(x) = IF kind = "inquiry" THEN {} ELSE StayNights(x)
  BY <1>1, <1>2, NewRow
<1>4. HeldNights(bk[b]) = {}
  BY <1>1, NothingHeld
<1>5. IF kind = "inquiry" THEN UNCHANGED rts ELSE Take(StayNights(x), 1)
  BY <1>1 DEF ota
<1>6. Become(b, x) \/ (kind \in {"confirm", "hold_confirm"} /\ Become(b, Arrived(x)))
  BY <1>1 DEF ota
<1> HIDE DEF x
<1>7. ASSUME NEW y \in Booking, Coherent(y), y.rooms = 1, HeldNights(y) = HeldNights(x),
             Become(b, y)
      PROVE  IInv'
  <2>1. CASE kind = "inquiry"
    <3>1. UNCHANGED rts /\ HeldNights(y) = {}
      BY <1>3, <1>5, <1>7, <2>1
    <3>2. QED
      BY <1>4, <1>7, <3>1, KeepStep
  <2>2. CASE kind # "inquiry"
    <3>1. Take(StayNights(x), y.rooms) /\ HeldNights(y) = StayNights(x)
      BY <1>3, <1>5, <1>7, <2>2
    <3>2. QED
      BY <1>4, <1>7, <3>1, TakeStep
  <2>3. QED
    BY <2>1, <2>2
<1>8. CASE Become(b, x)
  BY <1>3, <1>7, <1>8
<1>9. CASE kind \in {"confirm", "hold_confirm"} /\ Become(b, Arrived(x))
  <2>1. x.status = "Approved"
    BY <1>3, <1>9 DEF InitialStatus
  <2>2. /\ Arrived(x) \in Booking /\ Coherent(Arrived(x)) /\ Arrived(x).rooms = 1
        /\ HeldNights(Arrived(x)) = HeldNights(x)
    BY <1>3, <2>1, ArrivedRow
  <2>3. QED
    BY <1>7, <1>9, <2>2
<1>10. QED
  BY <1>6, <1>8, <1>9

LEMMA CreateBookingStep ==
    ASSUME IInv, NEW b \in Bookings, CreateBooking(b)
    PROVE  IInv'
<1>1. PICK s \in Stays, k \in 1 .. MaxRooms, ota \in BOOLEAN :
        LET x == NewBooking(IF ota THEN "confirm" ELSE "hold_unconfirm", s, k, "none", ota) IN
        bk[b].status = "None" /\ Take(StayNights(x), k) /\ Become(b, x)
  BY DEF CreateBooking
<1> DEFINE kind == IF ota THEN "confirm" ELSE "hold_unconfirm"
           x == NewBooking(kind, s, k, "none", ota)
<1>2. kind \in Kinds /\ kind # "inquiry"
  BY DEF Kinds
<1> HIDE DEF kind
<1>3. /\ x \in Booking /\ Coherent(x) /\ x.rooms = k /\ HeldNights(x) = StayNights(x)
  BY <1>2, NewRow
<1>4. HeldNights(bk[b]) = {}
  BY <1>1, NothingHeld
<1>5. Take(StayNights(x), x.rooms) /\ Become(b, x)
  BY <1>1, <1>3 DEF kind
<1> HIDE DEF x
<1>6. QED
  BY <1>3, <1>4, <1>5, TakeStep

-----------------------------------------------------------------------------
(* Arrival, the stay and departure.                                        *)

LEMMA CheckInStep ==
    ASSUME IInv, NEW b \in Bookings, CheckIn(b)
    PROVE  IInv'
<1>1. bk[b] \in Booking /\ Coherent(bk[b]) /\ bk[b].status = "Approved"
  BY RowFacts DEF CheckIn
<1>2. /\ Arrived(bk[b]) \in Booking /\ Coherent(Arrived(bk[b]))
      /\ Arrived(bk[b]).rooms = bk[b].rooms /\ HeldNights(Arrived(bk[b])) = HeldNights(bk[b])
  BY <1>1, ArrivedRow
<1>3. UNCHANGED rts /\ Become(b, Arrived(bk[b]))
  BY DEF CheckIn
<1>4. QED
  BY <1>2, <1>3, KeepStep

\* Giving the end of a stay back leaves the nights before it, and ends the legs there.
LEMMA ReleasedTail ==
    ASSUME NEW x \in Booking, x.live, x.legsTo = x.checkout, x.releasedFrom = NoDate,
           InventoryHeld(x), NEW from \in Int, x.checkin < from, from < x.checkout
    PROVE  LET y == Released(x, from) IN
           /\ y \in Booking /\ y.status = x.status /\ y.kind = x.kind /\ y.rooms = x.rooms
           /\ y.hold = x.hold /\ y.checkin = x.checkin /\ y.checkout = x.checkout
           /\ y.live /\ LegsMatch(y) /\ y.releasedFrom = from /\ y.legsTo = from
           /\ ReleasedNights(x, from) = Span(from, x.checkout)
           /\ HeldNights(x) = StayNights(x) /\ HeldNights(y) = Span(x.checkin, from)
<1> DEFINE y == Released(x, from)
<1>1. x.checkin \in Int /\ x.checkout \in Int /\ x.checkin >= 1 /\ x.checkout <= Horizon + 1
  BY HorizonAssumption DEF Booking, Dates
<1>2. from \in Dates /\ from # NoDate
  BY <1>1, HorizonAssumption DEF Dates, NoDate
<1>3. ReleasedNights(x, from) = Span(from, x.checkout)
  BY <1>1 DEF ReleasedNights, HeldUntil, Later
<1>4. from \in ReleasedNights(x, from)
  BY <1>1, <1>3 DEF Span
<1>5. Earlier(x.legsTo, from) = from /\ ~(from <= x.checkin)
  BY <1>1 DEF Earlier
<1>6. y = [x EXCEPT !.releasedFrom = from, !.legsTo = from]
  BY <1>4, <1>5 DEF Released
<1>7. /\ y \in Booking /\ y.status = x.status /\ y.kind = x.kind /\ y.rooms = x.rooms
      /\ y.hold = x.hold /\ y.checkin = x.checkin /\ y.checkout = x.checkout
      /\ y.live /\ y.releasedFrom = from /\ y.legsTo = from
  BY <1>2, <1>6 DEF Booking
<1> HIDE DEF y
<1>8. LegsMatch(y)
  BY <1>2, <1>7 DEF LegsMatch
<1>9. HeldNights(x) = StayNights(x) /\ HeldNights(y) = Span(x.checkin, from)
  BY <1>7 DEF HeldNights, InventoryHeld, StayNights
<1>10. QED
  BY <1>3, <1>7, <1>8, <1>9 DEF y

\* What marking a no-show does to a row, for the desk and for the night audit.
LEMMA NoShowRow ==
    ASSUME NEW x \in Booking, Coherent(x), x.status = "Approved", NEW marked \in Dates
    PROVE  LET y == AfterNoShow(x, marked) IN
           /\ y \in Booking /\ Coherent(y) /\ y.rooms = x.rooms
           /\ NoShowNights(x, marked) \subseteq HeldNights(x)
           /\ HeldNights(y) = HeldNights(x) \ NoShowNights(x, marked)
<1> DEFINE from == NoShowFrom(x, marked)
           z == IF from < x.checkout THEN Released(x, from) ELSE x
           y == AfterNoShow(x, marked)
<1>1. /\ x.live /\ x.legsTo = x.checkout /\ x.releasedFrom = NoDate /\ x.checkin < x.checkout
      /\ x.kind \in {"confirm", "hold_confirm"} /\ x.checkin \in Dates /\ x.checkout \in Dates
      /\ (x.hold # "none" => IsHold(x.kind))
  BY DEF Coherent, KindMatches, Booking
<1>2. InventoryHeld(x)
  BY <1>1 DEF InventoryHeld
<1>3. from \in Int /\ x.checkin < from
  BY <1>1, HorizonAssumption DEF NoShowFrom, Later, Dates
<1>4. HeldNights(x) = StayNights(x)
  BY <1>1, <1>2 DEF HeldNights, StayNights
<1> HIDE DEF from
<1>5. /\ z \in Booking /\ z.kind = x.kind /\ z.rooms = x.rooms /\ z.live /\ LegsMatch(z)
      /\ z.hold = x.hold /\ z.checkin = x.checkin /\ z.checkout = x.checkout
      /\ HeldNights(z) = HeldNights(x) \ NoShowNights(x, marked)
      /\ NoShowNights(x, marked) \subseteq HeldNights(x)
      /\ InventoryHeld(z)
  <2>1. CASE from < x.checkout
    <3>1. /\ z \in Booking /\ z.status = x.status /\ z.kind = x.kind /\ z.rooms = x.rooms
          /\ z.hold = x.hold /\ z.checkin = x.checkin /\ z.checkout = x.checkout
          /\ z.live /\ LegsMatch(z)
          /\ ReleasedNights(x, from) = Span(from, x.checkout)
          /\ HeldNights(z) = Span(x.checkin, from)
      BY <1>1, <1>2, <1>3, <2>1, ReleasedTail
    <3>2. NoShowNights(x, marked) = Span(from, x.checkout)
      BY <2>1, <3>1 DEF NoShowNights, from
    <3>3. /\ Span(from, x.checkout) \subseteq Span(x.checkin, x.checkout)
          /\ Span(x.checkin, from) = Span(x.checkin, x.checkout) \ Span(from, x.checkout)
      BY <1>1, <1>3, <2>1, HorizonAssumption DEF Span, Dates
    <3>4. InventoryHeld(z)
      BY <1>2, <3>1 DEF InventoryHeld
    <3>5. QED
      BY <1>4, <3>1, <3>2, <3>3, <3>4 DEF StayNights
  <2>2. CASE ~(from < x.checkout)
    <3>1. z = x /\ NoShowNights(x, marked) = {}
      BY <2>2 DEF NoShowNights, from
    <3>2. LegsMatch(x)
      BY <1>1 DEF LegsMatch
    <3>3. QED
      BY <1>1, <1>2, <3>1, <3>2
  <2>3. QED
    BY <2>1, <2>2
<1>6. y = [z EXCEPT !.status = "NoShow"]
  BY DEF AfterNoShow, from
<1> HIDE DEF z
<1>7. /\ y \in Booking /\ y.status = "NoShow" /\ y.kind = z.kind /\ y.rooms = z.rooms
      /\ y.live = z.live /\ y.legsTo = z.legsTo /\ y.releasedFrom = z.releasedFrom
      /\ y.hold = z.hold /\ y.checkin = z.checkin /\ y.checkout = z.checkout
  BY <1>5, <1>6 DEF Booking, Statuses
<1> HIDE DEF y
<1>8. Coherent(y)
  BY <1>1, <1>5, <1>7 DEF Coherent, KindMatches, LegsMatch
<1>9. InventoryHeld(y)
  BY <1>1, <1>5, <1>7 DEF InventoryHeld
<1>10. HeldNights(y) = HeldNights(z)
  BY <1>5, <1>7, <1>9 DEF HeldNights
<1>11. QED
  BY <1>5, <1>7, <1>8, <1>10 DEF y

LEMMA NoShowStep ==
    ASSUME IInv, NEW b \in Bookings, NoShow(b)
    PROVE  IInv'
<1>1. bk[b] \in Booking /\ Coherent(bk[b]) /\ bk[b].status = "Approved" /\ business \in Dates
  BY RowFacts DEF NoShow, IInv, TypeOK
<1> DEFINE y == AfterNoShow(bk[b], business)
<1>2. /\ y \in Booking /\ Coherent(y) /\ y.rooms = bk[b].rooms
      /\ NoShowNights(bk[b], business) \subseteq HeldNights(bk[b])
      /\ HeldNights(y) = HeldNights(bk[b]) \ NoShowNights(bk[b], business)
  BY <1>1, NoShowRow
<1>3. GiveBack(b, NoShowNights(bk[b], business)) /\ Become(b, y)
  BY DEF NoShow
<1>4. QED
  BY <1>2, <1>3, GiveStep

\* A booking in house holds its stay with rooms of a confirmed kind.
LEMMA InHouse ==
    ASSUME NEW x \in Booking, Coherent(x), x.status = "CheckedIn"
    PROVE  /\ x.live /\ x.legsTo = x.checkout /\ x.releasedFrom = NoDate
           /\ x.kind \in {"confirm", "hold_confirm"} /\ InventoryHeld(x)
           /\ HeldNights(x) = StayNights(x) /\ x.checkin < x.checkout
           /\ x.checkin \in Int /\ x.checkout \in Int
<1>1. x.kind \in {"confirm", "hold_confirm"}
  BY DEF Coherent, KindMatches
<1>2. InventoryHeld(x)
  BY <1>1 DEF InventoryHeld
<1>3. x.checkin \in Int /\ x.checkout \in Int
  BY HorizonAssumption DEF Booking, Dates
<1>4. QED
  BY <1>1, <1>2, <1>3 DEF Coherent, HeldNights, StayNights

LEMMA ExtendStayStep ==
    ASSUME IInv, NEW b \in Bookings, ExtendStay(b)
    PROVE  IInv'
<1>1. PICK s \in Stays :
        LET x == bk[b] IN
        /\ x.status = "CheckedIn"
        /\ s[2] > x.checkout
        /\ Take(Span(x.checkout, s[2]), x.rooms)
        /\ Become(b, [x EXCEPT !.checkout = s[2],
                               !.legsTo = IF x.live /\ @ = x.checkout THEN s[2] ELSE @])
  BY DEF ExtendStay
<1> DEFINE x == bk[b]
           y == [x EXCEPT !.checkout = s[2],
                          !.legsTo = IF x.live /\ @ = x.checkout THEN s[2] ELSE @]
<1>2. x \in Booking /\ Coherent(x) /\ x.status = "CheckedIn"
  BY <1>1, RowFacts
<1>3. /\ x.live /\ x.legsTo = x.checkout /\ x.releasedFrom = NoDate
      /\ x.kind \in {"confirm", "hold_confirm"} /\ HeldNights(x) = StayNights(x)
      /\ x.checkin < x.checkout /\ x.checkin \in Int /\ x.checkout \in Int
  BY <1>2, InHouse
<1>4. s[2] \in Dates /\ s[2] \in Int /\ s[2] > x.checkout
  BY <1>1, StaysAssumption, HorizonAssumption DEF Dates
<1>5. /\ y \in Booking /\ y.status = "CheckedIn" /\ y.kind = x.kind /\ y.rooms = x.rooms
      /\ y.hold = x.hold /\ y.checkin = x.checkin /\ y.checkout = s[2] /\ y.live
      /\ y.legsTo = s[2] /\ y.releasedFrom = NoDate
  BY <1>2, <1>3, <1>4 DEF Booking
<1>6. Take(Span(x.checkout, s[2]), x.rooms) /\ Become(b, y)
  BY <1>1
<1> HIDE DEF y
<1>7. Coherent(y)
  BY <1>2, <1>3, <1>4, <1>5 DEF Coherent, KindMatches
<1>8. HeldNights(y) = Span(x.checkin, s[2])
  BY <1>5, <1>7, InHouse DEF StayNights
<1>9. /\ Span(x.checkout, s[2]) \cap StayNights(x) = {}
      /\ Span(x.checkin, s[2]) = StayNights(x) \cup Span(x.checkout, s[2])
  BY <1>3, <1>4 DEF Span, StayNights
<1>10. QED
  BY <1>3, <1>5, <1>6, <1>7, <1>8, <1>9, TakeStep

LEMMA ShortenStayStep ==
    ASSUME IInv, NEW b \in Bookings, ShortenStay(b)
    PROVE  IInv'
<1>1. PICK d \in Dates :
        LET x == bk[b] IN
        /\ x.status = "CheckedIn"
        /\ d < x.checkout /\ d > x.checkin
        /\ GiveBack(b, Span(d, x.checkout))
        /\ Become(b, [x EXCEPT !.checkout = d,
                               !.legsTo = IF x.live THEN Earlier(@, d) ELSE @])
  BY DEF ShortenStay
<1> DEFINE x == bk[b]
           y == [x EXCEPT !.checkout = d, !.legsTo = IF x.live THEN Earlier(@, d) ELSE @]
<1>2. x \in Booking /\ Coherent(x) /\ x.status = "CheckedIn"
  BY <1>1, RowFacts
<1>3. /\ x.live /\ x.legsTo = x.checkout /\ x.releasedFrom = NoDate
      /\ x.kind \in {"confirm", "hold_confirm"} /\ HeldNights(x) = StayNights(x)
      /\ x.checkin < x.checkout /\ x.checkin \in Int /\ x.checkout \in Int
  BY <1>2, InHouse
<1>4. d \in Int /\ d < x.checkout /\ d > x.checkin
  BY <1>1, HorizonAssumption DEF Dates
<1>5. Earlier(x.legsTo, d) = d
  BY <1>3, <1>4 DEF Earlier
<1>6. /\ y \in Booking /\ y.status = "CheckedIn" /\ y.kind = x.kind /\ y.rooms = x.rooms
      /\ y.hold = x.hold /\ y.checkin = x.checkin /\ y.checkout = d /\ y.live
      /\ y.legsTo = d /\ y.releasedFrom = NoDate
  BY <1>2, <1>3, <1>5 DEF Booking
<1>7. GiveBack(b, Span(d, x.checkout)) /\ Become(b, y)
  BY <1>1
<1> HIDE DEF y
<1>8. Coherent(y)
  BY <1>2, <1>3, <1>4, <1>6 DEF Coherent, KindMatches
<1>9. HeldNights(y) = Span(x.checkin, d)
  BY <1>6, <1>8, InHouse DEF StayNights
<1>10. /\ Span(d, x.checkout) \subseteq StayNights(x)
       /\ Span(x.checkin, d) = StayNights(x) \ Span(d, x.checkout)
  BY <1>3, <1>4 DEF Span, StayNights
<1>11. QED
  BY <1>3, <1>6, <1>7, <1>8, <1>9, <1>10, GiveStep

\* Leaving early gives back the nights from the day of departure; leaving on the day of
\* arrival gives back the whole stay and closes the legs.
LEMMA CheckOutStep ==
    ASSUME IInv, NEW b \in Bookings, CheckOut(b)
    PROVE  IInv'
<1> DEFINE x == [bk[b] EXCEPT !.status = "CheckedOut", !.outToday = TRUE]
           op == Operating
<1>1. bk[b] \in Booking /\ Coherent(bk[b]) /\ bk[b].status = "CheckedIn"
  BY RowFacts DEF CheckOut
<1>2. /\ bk[b].live /\ bk[b].legsTo = bk[b].checkout /\ bk[b].releasedFrom = NoDate
      /\ bk[b].kind \in {"confirm", "hold_confirm"} /\ HeldNights(bk[b]) = StayNights(bk[b])
      /\ bk[b].checkin < bk[b].checkout /\ bk[b].checkin \in Int /\ bk[b].checkout \in Int
  BY <1>1, InHouse
<1>3. /\ x \in Booking /\ x.status = "CheckedOut" /\ x.kind = bk[b].kind
      /\ x.rooms = bk[b].rooms /\ x.hold = bk[b].hold /\ x.checkin = bk[b].checkin
      /\ x.checkout = bk[b].checkout /\ x.live = bk[b].live /\ x.legsTo = bk[b].legsTo
      /\ x.releasedFrom = bk[b].releasedFrom
  BY <1>1 DEF Booking, Statuses
<1>4. op \in Int
  BY HorizonAssumption DEF Operating, Later, IInv, TypeOK, Dates
<1>5. IF op < x.checkout
      THEN GiveBack(b, ReleasedNights(x, op)) /\ Become(b, Released(x, op))
      ELSE UNCHANGED rts /\ Become(b, x)
  BY DEF CheckOut
<1> HIDE DEF x, op
<1>6. InventoryHeld(x) /\ StayNights(x) = StayNights(bk[b])
  BY <1>2, <1>3 DEF InventoryHeld, StayNights
<1>7. x.hold # "none" => IsHold(x.kind)
  BY <1>1, <1>3 DEF Coherent
<1>8. CASE ~(op < x.checkout)
  <2>1. Coherent(x)
    BY <1>2, <1>3, <1>7 DEF Coherent, KindMatches, LegsMatch
  <2>2. HeldNights(x) = StayNights(x)
    BY <1>2, <1>3, <1>6 DEF HeldNights, StayNights
  <2>3. QED
    BY <1>2, <1>3, <1>5, <1>6, <1>8, <2>1, <2>2, KeepStep
<1>9. CASE op < x.checkout /\ op <= x.checkin
  <2> DEFINE y == [x EXCEPT !.live = FALSE]
  <2>1. Released(x, op) = y
    BY <1>9 DEF Released
  <2>2. ReleasedNights(x, op) = StayNights(x)
    BY <1>2, <1>3, <1>4, <1>9 DEF ReleasedNights, HeldUntil, Later, StayNights
  <2>3. /\ y \in Booking /\ y.status = "CheckedOut" /\ y.kind = x.kind
        /\ y.rooms = x.rooms /\ y.hold = x.hold /\ y.checkin = x.checkin
        /\ y.checkout = x.checkout /\ ~y.live /\ y.legsTo = x.legsTo
        /\ y.releasedFrom = x.releasedFrom
    BY <1>3 DEF Booking
  <2> HIDE DEF y
  <2>4. Coherent(y)
    BY <1>2, <1>3, <1>7, <2>3 DEF Coherent, KindMatches, LegsMatch
  <2>5. HeldNights(y) = {}
    BY <2>3 DEF HeldNights
  <2>6. GiveBack(b, StayNights(x)) /\ Become(b, y)
    BY <1>5, <1>9, <2>1, <2>2
  <2>7. QED
    BY <1>2, <1>3, <1>6, <2>3, <2>4, <2>5, <2>6, GiveStep
<1>10. CASE op < x.checkout /\ ~(op <= x.checkin)
  <2> DEFINE y == Released(x, op)
  <2>1. /\ x.checkin < op /\ op < x.checkout
        /\ x.live /\ x.legsTo = x.checkout /\ x.releasedFrom = NoDate
    BY <1>2, <1>3, <1>4, <1>10
  <2>2. /\ y \in Booking /\ y.status = x.status /\ y.kind = x.kind /\ y.rooms = x.rooms
        /\ y.hold = x.hold /\ y.checkin = x.checkin /\ y.checkout = x.checkout
        /\ y.live /\ LegsMatch(y)
        /\ ReleasedNights(x, op) = Span(op, x.checkout)
        /\ HeldNights(x) = StayNights(x) /\ HeldNights(y) = Span(x.checkin, op)
    BY <1>3, <1>4, <1>6, <2>1, ReleasedTail
  <2>3. /\ GiveBack(b, Span(op, x.checkout)) /\ Become(b, y)
    BY <1>5, <1>10, <2>2
  <2> HIDE DEF y
  <2>4. Coherent(y)
    BY <1>2, <1>3, <1>7, <2>2 DEF Coherent, KindMatches
  <2>5. /\ Span(op, x.checkout) \subseteq StayNights(x)
        /\ Span(x.checkin, op) = StayNights(x) \ Span(op, x.checkout)
    BY <1>2, <1>3, <1>4, <2>1 DEF Span, StayNights
  <2>6. QED
    BY <1>2, <1>3, <1>6, <2>2, <2>3, <2>4, <2>5, GiveStep
<1>11. QED
  BY <1>8, <1>9, <1>10

-----------------------------------------------------------------------------
(* Taking a mistake back.                                                  *)

LEMMA UndoCheckInStep ==
    ASSUME IInv, NEW b \in Bookings, UndoCheckIn(b)
    PROVE  IInv'
<1> DEFINE x == [bk[b] EXCEPT !.status = "Approved", !.inToday = FALSE]
<1>1. bk[b] \in Booking /\ Coherent(bk[b]) /\ bk[b].status = "CheckedIn"
  BY RowFacts DEF UndoCheckIn
<1>2. /\ x \in Booking /\ x.status = "Approved" /\ x.rooms = bk[b].rooms
      /\ x.kind = bk[b].kind /\ x.live = bk[b].live /\ x.legsTo = bk[b].legsTo
      /\ x.checkin = bk[b].checkin
  BY <1>1 DEF Booking, Statuses
<1>3. Coherent(x)
  BY <1>1 DEF Booking, Coherent, KindMatches
<1>4. UNCHANGED rts /\ Become(b, x)
  BY DEF UndoCheckIn
<1> HIDE DEF x
<1>5. HeldNights(x) = HeldNights(bk[b])
  BY <1>1, <1>2 DEF HeldNights, InventoryHeld
<1>6. QED
  BY <1>2, <1>3, <1>4, <1>5, KeepStep

\* Taking the released nights again gives a booking its whole stay back.
LEMMA ReclaimedRow ==
    ASSUME NEW x \in Booking, x.live, LegsMatch(x), x.checkin < x.checkout, InventoryHeld(x)
    PROVE  LET y == Reclaimed(x) IN
           /\ y \in Booking /\ y.status = x.status /\ y.kind = x.kind /\ y.rooms = x.rooms
           /\ y.hold = x.hold /\ y.checkin = x.checkin /\ y.checkout = x.checkout
           /\ y.live /\ y.releasedFrom = NoDate /\ y.legsTo = x.checkout
           /\ ReclaimedNights(x) \cap HeldNights(x) = {}
           /\ HeldNights(y) = HeldNights(x) \cup ReclaimedNights(x)
<1> DEFINE y == Reclaimed(x)
<1>1. x.checkin \in Int /\ x.checkout \in Int /\ x.releasedFrom \in Int
  BY HorizonAssumption DEF Booking, Dates, NoDate
<1>2. CASE x.releasedFrom = NoDate
  <2>1. ReclaimedNights(x) = {} /\ y = x
    BY <1>2 DEF ReclaimedNights, Reclaimed
  <2>2. QED
    BY <1>2, <2>1 DEF LegsMatch
<1>3. CASE x.releasedFrom # NoDate
  <2>1. /\ x.legsTo = x.releasedFrom /\ x.checkin < x.releasedFrom
        /\ x.releasedFrom < x.checkout
    BY <1>3 DEF LegsMatch
  <2>2. ReclaimedNights(x) = Span(x.releasedFrom, x.checkout)
    BY <1>3 DEF ReclaimedNights
  <2>3. x.releasedFrom \in ReclaimedNights(x)
    BY <1>1, <2>1, <2>2 DEF Span
  <2>4. y = [x EXCEPT !.releasedFrom = NoDate, !.legsTo = x.checkout]
    BY <2>1, <2>3 DEF Reclaimed
  <2>5. /\ y \in Booking /\ y.status = x.status /\ y.kind = x.kind /\ y.rooms = x.rooms
        /\ y.hold = x.hold /\ y.checkin = x.checkin /\ y.checkout = x.checkout
        /\ y.live /\ y.releasedFrom = NoDate /\ y.legsTo = x.checkout
    BY <2>4 DEF Booking
  <2> HIDE DEF y
  <2>6. HeldNights(x) = Span(x.checkin, x.releasedFrom)
    BY <2>1 DEF HeldNights
  <2>7. HeldNights(y) = Span(x.checkin, x.checkout)
    BY <2>5 DEF HeldNights, InventoryHeld
  <2>8. /\ Span(x.releasedFrom, x.checkout) \cap Span(x.checkin, x.releasedFrom) = {}
        /\ Span(x.checkin, x.checkout)
             = Span(x.checkin, x.releasedFrom) \cup Span(x.releasedFrom, x.checkout)
    BY <1>1, <2>1 DEF Span
  <2>9. QED
    BY <2>2, <2>5, <2>6, <2>7, <2>8 DEF y
<1>4. QED
  BY <1>2, <1>3

LEMMA UndoCheckOutStep ==
    ASSUME IInv, NEW b \in Bookings, UndoCheckOut(b)
    PROVE  IInv'
<1> DEFINE x == [bk[b] EXCEPT !.status = "CheckedIn", !.outToday = FALSE]
<1>1. bk[b] \in Booking /\ Coherent(bk[b]) /\ bk[b].status = "CheckedOut"
  BY RowFacts DEF UndoCheckOut
<1>2. /\ x \in Booking /\ x.status = "CheckedIn" /\ x.kind = bk[b].kind
      /\ x.rooms = bk[b].rooms /\ x.hold = bk[b].hold /\ x.checkin = bk[b].checkin
      /\ x.checkout = bk[b].checkout /\ x.live = bk[b].live /\ x.legsTo = bk[b].legsTo
      /\ x.releasedFrom = bk[b].releasedFrom
  BY <1>1 DEF Booking, Statuses
<1>3. IF x.releasedFrom # NoDate
      THEN Take(ReclaimedNights(x), x.rooms) /\ Become(b, Reclaimed(x))
      ELSE IF ~x.live
      THEN Take(StayNights(x), x.rooms) /\ Become(b, [x EXCEPT !.live = TRUE])
      ELSE UNCHANGED rts /\ Become(b, x)
  BY DEF UndoCheckOut
<1> HIDE DEF x
<1>4. /\ x.kind \in {"confirm", "hold_confirm"} /\ (x.hold # "none" => IsHold(x.kind))
      /\ LegsMatch(x) /\ x.checkin < x.checkout
      /\ (x.releasedFrom # NoDate => x.live)
  BY <1>1, <1>2 DEF Coherent, KindMatches, LegsMatch
<1>5. InventoryHeld(x) /\ HeldNights(x) = HeldNights(bk[b])
  BY <1>1, <1>2, <1>4 DEF InventoryHeld, HeldNights
<1>6. CASE x.releasedFrom # NoDate
  <2> DEFINE y == Reclaimed(x)
  <2>1. /\ y \in Booking /\ y.status = x.status /\ y.kind = x.kind /\ y.rooms = x.rooms
        /\ y.hold = x.hold /\ y.checkin = x.checkin /\ y.checkout = x.checkout
        /\ y.live /\ y.releasedFrom = NoDate /\ y.legsTo = x.checkout
        /\ ReclaimedNights(x) \cap HeldNights(x) = {}
        /\ HeldNights(y) = HeldNights(x) \cup ReclaimedNights(x)
    BY <1>2, <1>4, <1>5, <1>6, ReclaimedRow
  <2>2. Take(ReclaimedNights(x), x.rooms) /\ Become(b, y)
    BY <1>3, <1>6
  <2> HIDE DEF y
  <2>3. Coherent(y)
    BY <1>2, <1>4, <2>1 DEF Coherent, KindMatches
  <2>4. QED
    BY <1>2, <1>5, <2>1, <2>2, <2>3, TakeStep
<1>7. CASE x.releasedFrom = NoDate /\ ~x.live
  <2> DEFINE y == [x EXCEPT !.live = TRUE]
  <2>1. /\ y \in Booking /\ y.status = "CheckedIn" /\ y.kind = x.kind /\ y.rooms = x.rooms
        /\ y.hold = x.hold /\ y.checkin = x.checkin /\ y.checkout = x.checkout
        /\ y.live /\ y.releasedFrom = NoDate /\ y.legsTo = x.checkout
    BY <1>2, <1>4, <1>7 DEF Booking, LegsMatch
  <2>2. Take(StayNights(x), x.rooms) /\ Become(b, y)
    BY <1>3, <1>7
  <2> HIDE DEF y
  <2>3. Coherent(y)
    BY <1>4, <2>1 DEF Coherent, KindMatches
  <2>4. HeldNights(bk[b]) = {} /\ HeldNights(y) = StayNights(x)
    BY <1>2, <1>4, <1>7, <2>1 DEF HeldNights, InventoryHeld, StayNights
  <2>5. QED
    BY <1>2, <2>1, <2>2, <2>3, <2>4, TakeStep
<1>8. CASE x.releasedFrom = NoDate /\ x.live
  <2>1. UNCHANGED rts /\ Become(b, x)
    BY <1>3, <1>8
  <2>2. Coherent(x)
    BY <1>2, <1>4, <1>8 DEF Coherent, KindMatches, LegsMatch
  <2>3. QED
    BY <1>2, <1>5, <2>1, <2>2, KeepStep
<1>9. QED
  BY <1>6, <1>7, <1>8

LEMMA ReinstateStep ==
    ASSUME IInv, NEW b \in Bookings, Reinstate(b)
    PROVE  IInv'
<1> DEFINE x == [bk[b] EXCEPT !.status = "Approved"]
<1>1. bk[b] \in Booking /\ Coherent(bk[b])
  BY RowFacts
<1>2. /\ x \in Booking /\ x.status = "Approved" /\ x.kind = bk[b].kind
      /\ x.rooms = bk[b].rooms /\ x.hold = bk[b].hold /\ x.checkin = bk[b].checkin
      /\ x.checkout = bk[b].checkout /\ x.live = bk[b].live /\ x.legsTo = bk[b].legsTo
      /\ x.releasedFrom = bk[b].releasedFrom
  BY <1>1 DEF Booking, Statuses
<1>3. /\ KindMatches(x)
      /\ \/ /\ bk[b].status = "Cancelled" /\ Take(StayNights(x), x.rooms)
            /\ Become(b, [x EXCEPT !.live = TRUE])
         \/ /\ bk[b].status = "NoShow" /\ Take(ReclaimedNights(x), x.rooms)
            /\ Become(b, Reclaimed(x))
  BY DEF Reinstate
<1> HIDE DEF x
<1>4. /\ x.kind \in {"confirm", "hold_confirm"} /\ (x.hold # "none" => IsHold(x.kind))
  BY <1>1, <1>2, <1>3 DEF Coherent, KindMatches
<1>5. InventoryHeld(x)
  BY <1>2, <1>4 DEF InventoryHeld
<1>6. CASE /\ bk[b].status = "Cancelled" /\ Take(StayNights(x), x.rooms)
           /\ Become(b, [x EXCEPT !.live = TRUE])
  <2> DEFINE y == [x EXCEPT !.live = TRUE]
  <2>1. x.checkin < x.checkout /\ x.legsTo = x.checkout /\ x.releasedFrom = NoDate
    BY <1>1, <1>2, <1>6 DEF Coherent
  <2>2. /\ y \in Booking /\ y.status = "Approved" /\ y.kind = x.kind /\ y.rooms = x.rooms
        /\ y.hold = x.hold /\ y.checkin = x.checkin /\ y.checkout = x.checkout
        /\ y.live /\ y.releasedFrom = NoDate /\ y.legsTo = x.checkout
    BY <1>2, <2>1 DEF Booking
  <2>3. Take(StayNights(x), x.rooms) /\ Become(b, y)
    BY <1>6
  <2> HIDE DEF y
  <2>4. Coherent(y)
    BY <1>4, <2>1, <2>2 DEF Coherent, KindMatches
  <2>5. HeldNights(bk[b]) = {}
    BY <1>6, NothingHeld
  <2>6. HeldNights(y) = StayNights(x)
    BY <1>4, <2>1, <2>2 DEF HeldNights, InventoryHeld, StayNights
  <2>7. QED
    BY <1>2, <2>2, <2>3, <2>4, <2>5, <2>6, TakeStep
<1>7. CASE /\ bk[b].status = "NoShow" /\ Take(ReclaimedNights(x), x.rooms)
           /\ Become(b, Reclaimed(x))
  <2> DEFINE y == Reclaimed(x)
  <2>1. x.live /\ LegsMatch(x) /\ x.checkin < x.checkout
    BY <1>1, <1>2, <1>7 DEF Coherent, LegsMatch
  <2>2. /\ y \in Booking /\ y.status = x.status /\ y.kind = x.kind /\ y.rooms = x.rooms
        /\ y.hold = x.hold /\ y.checkin = x.checkin /\ y.checkout = x.checkout
        /\ y.live /\ y.releasedFrom = NoDate /\ y.legsTo = x.checkout
        /\ ReclaimedNights(x) \cap HeldNights(x) = {}
        /\ HeldNights(y) = HeldNights(x) \cup ReclaimedNights(x)
    BY <1>2, <1>5, <2>1, ReclaimedRow
  <2>3. Take(ReclaimedNights(x), x.rooms) /\ Become(b, y)
    BY <1>7
  <2> HIDE DEF y
  <2>4. Coherent(y)
    BY <1>2, <1>4, <2>1, <2>2 DEF Coherent, KindMatches
  <2>5. HeldNights(x) = HeldNights(bk[b])
    BY <1>2, <1>5, <1>7 DEF HeldNights, InventoryHeld
  <2>6. QED
    BY <1>2, <2>2, <2>3, <2>4, <2>5, TakeStep
<1>8. QED
  BY <1>3, <1>6, <1>7

-----------------------------------------------------------------------------
(* The system's own work.                                                  *)

\* Several bookings give back nights that they hold, each counted once per room: the
\* cap never bites, and the rest of the row is of no account.
LEMMA BatchStep ==
    ASSUME IInv, NEW f \in [Bookings -> Booking], bk' = f,
           \A b \in Bookings : Coherent(f[b]) /\ f[b].rooms = bk[b].rooms,
           NEW G, rts' = Returned(G), today' \in Dates, business' \in Dates,
           \A b \in Bookings, n \in Nights : <<b, n>> \in G => n \in HeldNights(bk[b]),
           \A b \in Bookings, n \in Nights :
               n \in HeldNights(f[b]) <=> n \in HeldNights(bk[b]) /\ <<b, n>> \notin G
    PROVE  IInv'
<1>1. TypeOK /\ Conserved /\ bk \in [Bookings -> Booking]
  BY DEF IInv, TypeOK
<1>2. rts' \in [Nights -> 0 .. Quantity]
  BY <1>1, ReturnedType
<1>3. TypeOK'
  BY <1>2 DEF TypeOK
<1>4. AllCoherent'
  BY DEF AllCoherent
<1>5. ASSUME NEW n \in Nights
      PROVE  rts'[n] + Cardinality(Held(n)') = Quantity
  <2> DEFINE Freed == {u \in Units : <<u[1], n>> \in G /\ u[2] <= bk[u[1]].rooms}
             Kept == HeldIn(bk, n)
  <2>1. \A u \in Units : u[1] \in Bookings
    BY DEF Units
  <2>2. Freed \subseteq Kept
    BY <2>1 DEF HeldIn
  <2>3. Held(n) = Kept /\ Held(n)' = HeldIn(f, n)
    BY DEF Held, HeldIn
  <2>4. HeldIn(f, n) = Kept \ Freed
    BY <2>1 DEF HeldIn
  <2>5. Kept \in SUBSET Units /\ Freed \in SUBSET Units
    BY DEF HeldIn
  <2>6. Returned(G)[n] = Earlier(Quantity, rts[n] + Cardinality(Freed))
    BY DEF Returned
  <2> HIDE DEF Freed, Kept
  <2>7. /\ IsFiniteSet(Kept) /\ Cardinality(Kept) \in Nat
        /\ IsFiniteSet(Freed) /\ Cardinality(Freed) \in Nat
    BY <2>5, UnitsFinite
  <2>8. Kept \cap Freed = Freed
    BY <2>2
  <2>9. Cardinality(Kept \ Freed) = Cardinality(Kept) - Cardinality(Freed)
    BY <2>7, <2>8, FS_Difference
  <2>10. Cardinality(Freed) <= Cardinality(Kept)
    BY <2>2, <2>7, FS_Subset
  <2>11. rts[n] + Cardinality(Kept) = Quantity /\ rts[n] \in 0 .. Quantity
    BY <1>1, <2>3 DEF Conserved, TypeOK
  <2>12. Earlier(Quantity, rts[n] + Cardinality(Freed)) = rts[n] + Cardinality(Freed)
    BY <2>7, <2>10, <2>11, QuantityAssumption DEF Earlier
  <2>13. rts'[n] = rts[n] + Cardinality(Freed)
    BY <2>6, <2>12
  <2>14. QED
    BY <2>3, <2>4, <2>7, <2>9, <2>11, <2>13, QuantityAssumption
<1>6. Conserved'
  BY <1>5 DEF Conserved
<1>7. QED
  BY <1>3, <1>4, <1>6 DEF IInv

\* What a sweep does to one booking it claims: it gives back the whole stay.
LEMMA SweptRow ==
    ASSUME NEW x \in Booking, Coherent(x), PreArrival(x)
    PROVE  /\ Swept(x) \in Booking /\ Coherent(Swept(x)) /\ Swept(x).rooms = x.rooms
           /\ HeldNights(Swept(x)) = {} /\ HeldNights(x) \subseteq Nights
           /\ (x.hold = "due" => x.kind # "inquiry")
           /\ HeldNights(x) = IF x.kind # "inquiry" THEN ReleasedNights(x, x.checkin) ELSE {}
<1> DEFINE y == Swept(x)
<1>1. x.status \in {"Pending", "Approved", "CheckedIn"}
  BY DEF PreArrival
<1>2. /\ HeldNights(x) = IF InventoryHeld(x) THEN StayNights(x) ELSE {}
      /\ ReleasedNights(x, x.checkin) = StayNights(x)
      /\ (x.kind # "inquiry" <=> InventoryHeld(x))
  BY <1>1, WholeStay
<1>3. StayNights(x) \subseteq Nights
  BY HorizonAssumption DEF StayNights, Span, Nights, Dates, Booking
<1>4. /\ y \in Booking /\ y.status = "Cancelled" /\ y.rooms = x.rooms
      /\ y.checkin = x.checkin /\ y.checkout = x.checkout /\ y.legsTo = x.legsTo
      /\ y.kind = x.kind /\ y.hold = x.hold /\ y.releasedFrom = x.releasedFrom /\ ~y.live
  BY DEF Swept, Booking, Statuses
<1> HIDE DEF y
<1>5. Coherent(y)
  BY <1>1, <1>4 DEF Coherent, KindMatches
<1>6. HeldNights(y) = {}
  BY <1>4, NothingHeld
<1>7. x.hold = "due" => x.kind # "inquiry"
  BY DEF Coherent, IsHold
<1>8. QED
  BY <1>2, <1>3, <1>4, <1>5, <1>6, <1>7 DEF y

LEMMA SweepStep ==
    ASSUME IInv, NEW due \in SUBSET Bookings, NEW expired \in SUBSET Bookings,
           Sweep(due, expired)
    PROVE  IInv'
<1> DEFINE S == due \cup expired
           G == SweptNights(S)
           f == [b \in Bookings |-> IF b \in S THEN Swept(bk[b]) ELSE bk[b]]
<1>1. /\ S \subseteq DueHolds \cup Unconfirmed
      /\ rts' = Returned(G) /\ bk' = f /\ today' = today /\ business' = business
  BY DEF Sweep
<1>2. \A b \in Bookings : bk[b] \in Booking /\ Coherent(bk[b])
  BY RowFacts
<1>3. today' \in Dates /\ business' \in Dates
  BY <1>1 DEF IInv, TypeOK
<1>4. ASSUME NEW b \in Bookings, b \in S
      PROVE  /\ Swept(bk[b]) \in Booking /\ Coherent(Swept(bk[b]))
             /\ Swept(bk[b]).rooms = bk[b].rooms /\ HeldNights(Swept(bk[b])) = {}
             /\ \A n \in Nights : <<b, n>> \in G <=> n \in HeldNights(bk[b])
  <2>1. PreArrival(bk[b])
    BY <1>1, <1>4 DEF DueHolds, Unconfirmed, PreArrival
  <2>2. /\ Swept(bk[b]) \in Booking /\ Coherent(Swept(bk[b]))
        /\ Swept(bk[b]).rooms = bk[b].rooms /\ HeldNights(Swept(bk[b])) = {}
        /\ (bk[b].hold = "due" => bk[b].kind # "inquiry")
        /\ HeldNights(bk[b])
             = IF bk[b].kind # "inquiry" THEN ReleasedNights(bk[b], bk[b].checkin) ELSE {}
    BY <1>2, <2>1, SweptRow
  <2>3. \A n \in Nights : <<b, n>> \in G <=> n \in HeldNights(bk[b])
    BY <1>4, <2>2 DEF SweptNights
  <2>4. QED
    BY <2>2, <2>3
<1>5. \A b \in Bookings, n \in Nights : <<b, n>> \in G => b \in S
  BY DEF SweptNights
<1>6. \A b \in Bookings : f[b] = IF b \in S THEN Swept(bk[b]) ELSE bk[b]
  OBVIOUS
<1>7. \A b \in Bookings : f[b] \in Booking /\ Coherent(f[b]) /\ f[b].rooms = bk[b].rooms
  BY <1>2, <1>4, <1>6
<1>8. f \in [Bookings -> Booking]
  BY <1>7
<1> HIDE DEF f, G, S
<1>9. \A b \in Bookings, n \in Nights : <<b, n>> \in G => n \in HeldNights(bk[b])
  BY <1>4, <1>5
<1>10. \A b \in Bookings, n \in Nights :
          n \in HeldNights(f[b]) <=> n \in HeldNights(bk[b]) /\ <<b, n>> \notin G
  BY <1>4, <1>5, <1>6
<1>11. QED
  BY <1>1, <1>3, <1>7, <1>8, <1>9, <1>10, BatchStep

LEMMA NightAuditStep ==
    ASSUME IInv, NEW swept \in SUBSET Bookings, NEW gone \in SUBSET Bookings,
           NEW out \in SUBSET Bookings, NightAudit(swept, gone, out)
    PROVE  IInv'
<1> DEFINE N == {g \in gone \X Nights : g[2] \in NoShowNights(bk[g[1]], business)}
           G == SweptNights(swept) \cup N
           Left(x) == [x EXCEPT !.status = "CheckedOut", !.outToday = TRUE]
           f == [b \in Bookings |->
                    CASE b \in swept -> Swept(bk[b])
                      [] b \in gone  -> AfterNoShow(bk[b], business)
                      [] b \in out   -> Left(bk[b])
                      [] OTHER       -> bk[b]]
<1>1. /\ business <= Horizon /\ swept \subseteq DueHolds \cup Unconfirmed
      /\ gone \subseteq NeverArrived \ swept /\ out \subseteq Overstays
      /\ rts' = Returned(G) /\ bk' = f /\ business' = business + 1 /\ today' = today
  BY DEF NightAudit
<1>2. \A b \in Bookings : bk[b] \in Booking /\ Coherent(bk[b])
  BY RowFacts
<1>3. business \in Dates /\ today' \in Dates /\ business' \in Dates
  <2>1. business \in Dates /\ today \in Dates
    BY DEF IInv, TypeOK
  <2>2. business <= Horizon /\ business' = business + 1 /\ today' = today
    BY <1>1
  <2>3. QED
    BY <2>1, <2>2, HorizonAssumption DEF Dates
<1>4. /\ \A b \in swept : bk[b].status \in {"Pending", "Approved"}
      /\ \A b \in gone : bk[b].status = "Approved"
      /\ \A b \in out : bk[b].status = "CheckedIn"
  BY <1>1 DEF DueHolds, Unconfirmed, PreArrival, NeverArrived, Overstays
<1>5. \A b \in Bookings :
          f[b] = CASE b \in swept -> Swept(bk[b])
                   [] b \in gone  -> AfterNoShow(bk[b], business)
                   [] b \in out   -> Left(bk[b])
                   [] OTHER       -> bk[b]
  OBVIOUS
<1> HIDE DEF f
<1>6. ASSUME NEW b \in Bookings
      PROVE  /\ f[b] \in Booking /\ Coherent(f[b]) /\ f[b].rooms = bk[b].rooms
             /\ \A n \in Nights :
                    /\ <<b, n>> \in G => n \in HeldNights(bk[b])
                    /\ n \in HeldNights(f[b]) <=> n \in HeldNights(bk[b]) /\ <<b, n>> \notin G
  <2>1. \A n \in Nights :
            <<b, n>> \in G <=> \/ /\ b \in swept
                                  /\ bk[b].hold = "due" \/ bk[b].kind # "inquiry"
                                  /\ n \in ReleasedNights(bk[b], bk[b].checkin)
                               \/ b \in gone /\ n \in NoShowNights(bk[b], business)
    BY DEF SweptNights
  <2> HIDE DEF G
  <2>2. CASE b \in swept
    <3>1. b \notin gone /\ b \notin out
      BY <1>1, <1>4, <2>2
    <3>2. f[b] = Swept(bk[b])
      BY <1>5, <2>2, <3>1
    <3>3. /\ Swept(bk[b]) \in Booking /\ Coherent(Swept(bk[b]))
          /\ Swept(bk[b]).rooms = bk[b].rooms /\ HeldNights(Swept(bk[b])) = {}
          /\ (bk[b].hold = "due" => bk[b].kind # "inquiry")
          /\ HeldNights(bk[b])
               = IF bk[b].kind # "inquiry" THEN ReleasedNights(bk[b], bk[b].checkin) ELSE {}
      BY <1>2, <1>4, <2>2, SweptRow DEF PreArrival
    <3>4. QED
      BY <2>1, <2>2, <3>1, <3>2, <3>3
  <2>3. CASE b \in gone
    <3>1. b \notin swept /\ b \notin out
      BY <1>1, <1>4, <2>3
    <3>2. f[b] = AfterNoShow(bk[b], business)
      BY <1>5, <2>3, <3>1
    <3>3. /\ f[b] \in Booking /\ Coherent(f[b]) /\ f[b].rooms = bk[b].rooms
          /\ NoShowNights(bk[b], business) \subseteq HeldNights(bk[b])
          /\ HeldNights(f[b]) = HeldNights(bk[b]) \ NoShowNights(bk[b], business)
      BY <1>2, <1>3, <1>4, <2>3, <3>2, NoShowRow
    <3>4. QED
      BY <2>1, <2>3, <3>1, <3>3
  <2>4. CASE b \in out /\ b \notin swept /\ b \notin gone
    <3> DEFINE x == bk[b]
               y == Left(x)
    <3>1. f[b] = y
      BY <1>5, <2>4
    <3>2. x \in Booking /\ Coherent(x) /\ x.status = "CheckedIn"
      BY <1>2, <1>4, <2>4
    <3>3. /\ x.live /\ x.legsTo = x.checkout /\ x.releasedFrom = NoDate
          /\ x.kind \in {"confirm", "hold_confirm"} /\ InventoryHeld(x)
          /\ x.checkin < x.checkout
      BY <3>2, InHouse
    <3>4. /\ y \in Booking /\ y.status = "CheckedOut" /\ y.kind = x.kind
          /\ y.rooms = x.rooms /\ y.hold = x.hold /\ y.checkin = x.checkin
          /\ y.checkout = x.checkout /\ y.live = x.live /\ y.legsTo = x.legsTo
          /\ y.releasedFrom = x.releasedFrom
      BY <3>2 DEF Booking, Statuses
    <3> HIDE DEF y
    <3>5. Coherent(y)
      BY <3>2, <3>3, <3>4 DEF Coherent, KindMatches, LegsMatch
    <3>6. HeldNights(y) = HeldNights(x)
      BY <3>3, <3>4 DEF HeldNights, InventoryHeld
    <3>7. QED
      BY <2>1, <2>4, <3>1, <3>4, <3>5, <3>6
  <2>5. CASE b \notin swept /\ b \notin gone /\ b \notin out
    <3>1. f[b] = bk[b]
      BY <1>5, <2>5
    <3>2. QED
      BY <1>2, <2>1, <2>5, <3>1
  <2>6. QED
    BY <2>2, <2>3, <2>4, <2>5
<1>7. f \in [Bookings -> Booking]
  <2>1. f = [b \in Bookings |-> f[b]]
    BY DEF f
  <2>2. QED
    BY <1>6, <2>1
<1> HIDE DEF G
<1>8. QED
  BY <1>1, <1>3, <1>6, <1>7, BatchStep

LEMMA HoldLapsesStep ==
    ASSUME IInv, NEW b \in Bookings, HoldLapses(b)
    PROVE  IInv'
<1> DEFINE x == [bk[b] EXCEPT !.hold = "due"]
<1>1. bk[b] \in Booking /\ Coherent(bk[b]) /\ bk[b].hold = "running"
  BY RowFacts DEF HoldLapses
<1>2. x \in Booking /\ Coherent(x)
  BY <1>1 DEF Booking, Holds, Coherent, KindMatches, LegsMatch
<1>3. /\ x.rooms = bk[b].rooms /\ x.status = bk[b].status /\ x.kind = bk[b].kind
      /\ x.live = bk[b].live /\ x.legsTo = bk[b].legsTo /\ x.checkin = bk[b].checkin
  BY <1>1 DEF Booking
<1>4. UNCHANGED rts /\ Become(b, x)
  BY DEF HoldLapses
<1> HIDE DEF x
<1>5. HeldNights(x) = HeldNights(bk[b])
  BY <1>3 DEF HeldNights, InventoryHeld
<1>6. QED
  BY <1>2, <1>3, <1>4, <1>5, KeepStep

LEMMA NextDayStep ==
    ASSUME IInv, NextDay
    PROVE  IInv'
<1> DEFINE Woken(x) == [x EXCEPT !.inToday = FALSE, !.outToday = FALSE]
<1>1. /\ today <= Horizon /\ today' = today + 1 /\ rts' = rts /\ business' = business
      /\ bk' = [b \in Bookings |-> Woken(bk[b])]
  BY DEF NextDay
<1>2. /\ today \in Dates /\ business \in Dates /\ rts \in [Nights -> 0 .. Quantity]
      /\ \A b \in Bookings : bk[b] \in Booking /\ Coherent(bk[b])
      /\ Conserved
  BY RowFacts DEF IInv, TypeOK
<1>3. ASSUME NEW b \in Bookings
      PROVE  /\ bk'[b] \in Booking /\ Coherent(bk'[b]) /\ bk'[b].rooms = bk[b].rooms
             /\ HeldNights(bk'[b]) = HeldNights(bk[b])
  <2> DEFINE x == bk[b]
             y == Woken(x)
  <2>1. x \in Booking /\ Coherent(x) /\ bk'[b] = y
    BY <1>1, <1>2
  <2>2. y \in Booking /\ Coherent(y)
    BY <2>1 DEF Booking, Coherent, KindMatches, LegsMatch
  <2>3. /\ y.rooms = x.rooms /\ y.status = x.status /\ y.kind = x.kind
        /\ y.live = x.live /\ y.legsTo = x.legsTo /\ y.checkin = x.checkin
    BY <2>1 DEF Booking
  <2> HIDE DEF y
  <2>4. HeldNights(y) = HeldNights(x)
    BY <2>3 DEF HeldNights, InventoryHeld
  <2>5. QED
    BY <2>1, <2>2, <2>3, <2>4
<1>4. today' \in Dates
  <2>1. today \in Dates /\ today <= Horizon /\ today' = today + 1
    BY <1>1, <1>2
  <2>2. QED
    BY <2>1, HorizonAssumption DEF Dates
<1>5. bk' \in [Bookings -> Booking]
  <2>1. bk' = [b \in Bookings |-> bk'[b]]
    BY <1>1
  <2>2. QED
    BY <1>3, <2>1
<1>6. TypeOK' /\ AllCoherent'
  BY <1>1, <1>2, <1>3, <1>4, <1>5 DEF TypeOK, AllCoherent
<1>7. \A n \in Nights : Held(n)' = Held(n)
  <2>1. \A u \in Units : u[1] \in Bookings
    BY DEF Units
  <2>2. QED
    BY <1>3, <2>1 DEF Held
<1>8. Conserved'
  <2>1. \A n \in Nights : rts'[n] + Cardinality(Held(n)') = Quantity
    BY <1>1, <1>2, <1>7 DEF Conserved
  <2>2. QED
    BY <2>1 DEF Conserved
<1>9. QED
  BY <1>6, <1>8 DEF IInv

-----------------------------------------------------------------------------
(* The invariant of the specification.                                     *)

LEMMA InitInv == Init => IInv
<1> SUFFICES ASSUME Init PROVE IInv
  OBVIOUS
<1>1. /\ bk = [b \in Bookings |-> Blank] /\ rts = [n \in Nights |-> Quantity]
      /\ today = 1 /\ business = 1
  BY DEF Init
<1>2. Blank \in Booking
  BY HorizonAssumption, QuantityAssumption
     DEF Blank, Booking, Statuses, Kinds, Holds, Dates
<1>3. TypeOK
  BY <1>1, <1>2, HorizonAssumption, QuantityAssumption DEF TypeOK, Dates
<1>4. Coherent(Blank)
  BY DEF Blank, Coherent, KindMatches
<1>5. AllCoherent
  BY <1>1, <1>4 DEF AllCoherent
<1>6. HeldNights(Blank) = {}
  BY DEF Blank, HeldNights
<1>7. ASSUME NEW n \in Nights
      PROVE  rts[n] + Cardinality(Held(n)) = Quantity
  <2>1. Held(n) = {}
    BY <1>1, <1>6 DEF Held, Units
  <2>2. Cardinality(Held(n)) = 0
    BY <2>1, FS_EmptySet
  <2>3. QED
    BY <1>1, <2>2, QuantityAssumption
<1>8. QED
  BY <1>3, <1>5, <1>7 DEF IInv, Conserved

LEMMA NextInv == IInv /\ [Next]_vars => IInv'
<1> SUFFICES ASSUME IInv, [Next]_vars PROVE IInv'
  OBVIOUS
<1>1. ASSUME NEW b \in Bookings, Desk(b) PROVE IInv'
  BY <1>1, CreateReservationStep, CreateBookingStep, ApproveStep, RejectStep, CancelStep,
     VoidStep, ConfirmStep, PutOnHoldStep, ReleaseHoldStep, AmendStep, CheckInStep,
     NoShowStep, ExtendStayStep, ShortenStayStep, CheckOutStep, UndoCheckInStep,
     UndoCheckOutStep, ReinstateStep DEF Desk
<1>2. ASSUME NEW due \in SUBSET Bookings, NEW expired \in SUBSET Bookings,
             Sweep(due, expired)
      PROVE  IInv'
  BY <1>2, SweepStep
<1>3. ASSUME NEW swept \in SUBSET Bookings, NEW gone \in SUBSET Bookings,
             NEW out \in SUBSET Bookings, NightAudit(swept, gone, out)
      PROVE  IInv'
  BY <1>3, NightAuditStep
<1>4. ASSUME NEW b \in Bookings, HoldLapses(b) PROVE IInv'
  BY <1>4, HoldLapsesStep
<1>5. CASE NextDay
  BY <1>5, NextDayStep
<1>6. CASE UNCHANGED vars
  BY <1>6 DEF vars, IInv, TypeOK, AllCoherent, Conserved, Held
<1>7. /\ DueHolds \subseteq Bookings /\ Unconfirmed \subseteq Bookings
      /\ NeverArrived \subseteq Bookings /\ Overstays \subseteq Bookings
  BY DEF DueHolds, Unconfirmed, NeverArrived, Overstays
<1>8. QED
  BY <1>1, <1>2, <1>3, <1>4, <1>5, <1>6, <1>7 DEF Next

\* In every behaviour, every row is typed and agrees with its legs, and every night's
\* counter and held rooms make up the hotel.
THEOREM Invariant == Spec => []IInv
BY InitInv, NextInv, PTL DEF Spec

\* No counter of rooms to sell ever leaves 0 .. Quantity, and every booking row has its
\* type, whatever the desk, the sweep and the night audit do.
THEOREM TypeCorrect == Spec => []TypeOK
<1>1. IInv => TypeOK
  BY DEF IInv
<1>2. QED
  BY <1>1, Invariant, PTL

\* No room is ever sold twice and none is lost: for every hotel size, every horizon and
\* every number of bookings, rooms left plus rooms held is the hotel on every night.
THEOREM RoomsConserved == Spec => []Conserved
<1>1. IInv => Conserved
  BY DEF IInv
<1>2. QED
  BY <1>1, Invariant, PTL

\* A booking that can still be lived in always has all of its rooms behind it.
THEOREM LiveStaysHeld == Spec => []LiveStayIsHeld
<1>1. IInv => LiveStayIsHeld
  BY DEF IInv, AllCoherent, Coherent, KindMatches, LiveStayIsHeld, PreArrival
<1>2. QED
  BY <1>1, Invariant, PTL

\* A no-show keeps the night of its arrival, however many nights it gave back.
THEOREM NoShowsKeepArrival == Spec => []NoShowKeepsArrival
<1>1. ASSUME IInv, NEW b \in Bookings, bk[b].status = "NoShow"
      PROVE  bk[b].checkin \in HeldNights(bk[b])
  <2>1. bk[b] \in Booking /\ Coherent(bk[b])
    BY <1>1, RowFacts
  <2>2. /\ bk[b].live /\ LegsMatch(bk[b]) /\ bk[b].checkin < bk[b].checkout
        /\ bk[b].kind \in {"confirm", "hold_confirm"}
    BY <1>1, <2>1 DEF Coherent, KindMatches
  <2>3. bk[b].checkin \in Int /\ bk[b].checkout \in Int /\ bk[b].legsTo \in Int
    BY <2>1, HorizonAssumption DEF Booking, Dates
  <2>4. bk[b].checkin < bk[b].legsTo
    BY <2>2, <2>3 DEF LegsMatch
  <2>5. InventoryHeld(bk[b])
    BY <1>1, <2>2 DEF InventoryHeld
  <2>6. QED
    BY <2>2, <2>3, <2>4, <2>5 DEF HeldNights, Span
<1>2. IInv => NoShowKeepsArrival
  BY <1>1 DEF NoShowKeepsArrival
<1>3. QED
  BY <1>2, Invariant, PTL

\* The desk, the sweep and the audit never write a row the database would refuse.
THEOREM RowsPassChecks == Spec => []RowChecks
<1>1. ASSUME IInv, NEW b \in Bookings, bk[b].releasedFrom # NoDate
      PROVE  bk[b].releasedFrom > bk[b].checkin /\ bk[b].releasedFrom <= bk[b].checkout
  <2>1. bk[b] \in Booking /\ Coherent(bk[b])
    BY <1>1, RowFacts
  <2>2. LegsMatch(bk[b]) /\ bk[b].releasedFrom \in Dates /\ bk[b].checkout \in Dates
        /\ bk[b].checkin \in Dates
    <3>1. bk[b].status \in {"NoShow", "CheckedOut"}
      BY <1>1, <2>1 DEF Coherent
    <3>2. QED
      BY <1>1, <2>1, <3>1 DEF Coherent, Booking
  <2>3. QED
    BY <1>1, <2>2, HorizonAssumption DEF LegsMatch, Dates
<1>2. IInv => RowChecks
  BY <1>1, RowFacts DEF RowChecks, Coherent
<1>3. QED
  BY <1>2, Invariant, PTL

\* The recount behind reopening a calendar never misses a night that a booking keeps.
THEOREM RecountCovers == Spec => []RecountCoversHeld
<1>1. ASSUME IInv, NEW b \in Bookings
      PROVE  HeldNights(bk[b]) \subseteq BookedNights(bk[b])
  <2> DEFINE x == bk[b]
  <2>1. x \in Booking /\ Coherent(x)
    BY <1>1, RowFacts
  <2>2. CASE InventoryHeld(x)
    <3>1. x.legsTo = IF x.releasedFrom # NoDate THEN x.releasedFrom ELSE x.checkout
      BY <2>1 DEF Coherent, LegsMatch
    <3>2. QED
      BY <2>2, <3>1 DEF HeldNights, BookedNights
  <2>3. CASE ~InventoryHeld(x)
    BY <2>3 DEF HeldNights
  <2>4. QED
    BY <2>2, <2>3
<1>2. IInv => RecountCoversHeld
  BY <1>1 DEF RecountCoversHeld
<1>3. QED
  BY <1>2, Invariant, PTL

-----------------------------------------------------------------------------
(***************************************************************************)
(* A night that is over is never put back on sale by a stay: one lemma per *)
(* operation that can write the row of a booking that is, or was, in       *)
(* house, on the invariant above.                                          *)
(***************************************************************************)

InHouseOrGone(x) == x.status \in {"CheckedIn", "CheckedOut"}
KeepsSlept(x, y) == \A n \in HeldNights(x) : n < Operating => n \in HeldNights(y)

SleptKept == \A b \in Bookings : InHouseOrGone(bk[b]) => KeepsSlept(bk[b], bk'[b])

-----------------------------------------------------------------------------
(* Steps that write one row.                                               *)

\* A step that writes one row keeps the nights of all the others.
LEMMA OneRow ==
    ASSUME IInv, NEW b \in Bookings, NEW x, Become(b, x),
           InHouseOrGone(bk[b]) => KeepsSlept(bk[b], x)
    PROVE  SleptKept
<1> SUFFICES ASSUME NEW c \in Bookings, InHouseOrGone(bk[c])
             PROVE  KeepsSlept(bk[c], bk'[c])
  BY DEF SleptKept
<1>1. bk \in [Bookings -> Booking] /\ bk' = [bk EXCEPT ![b] = x]
  BY DEF IInv, TypeOK, Become
<1>2. CASE c = b
  BY <1>1, <1>2
<1>3. CASE c # b
  <2>1. bk'[c] = bk[c]
    BY <1>1, <1>3
  <2>2. QED
    BY <2>1 DEF KeepsSlept
<1>4. QED
  BY <1>2, <1>3

\* What happens to a booking that is not in house, and never was, concerns no slept night.
LEMMA NotInHouse ==
    ASSUME IInv, NEW b \in Bookings, NEW x, Become(b, x), ~InHouseOrGone(bk[b])
    PROVE  SleptKept
BY OneRow

LEMMA CreationKeeps ==
    ASSUME IInv, NEW b \in Bookings, CreateReservation(b) \/ CreateBooking(b)
    PROVE  SleptKept
<1>1. CASE CreateReservation(b)
  <2>1. PICK x : Become(b, x) /\ bk[b].status = "None"
    BY <1>1 DEF CreateReservation
  <2>2. QED
    BY <2>1, NotInHouse DEF InHouseOrGone
<1>2. CASE CreateBooking(b)
  <2>1. PICK x : Become(b, x) /\ bk[b].status = "None"
    BY <1>2 DEF CreateBooking
  <2>2. QED
    BY <2>1, NotInHouse DEF InHouseOrGone
<1>3. QED
  BY <1>1, <1>2

\* Everything the desk does before arrival, and reinstating.
LEMMA BeforeArrivalKeeps ==
    ASSUME IInv, NEW b \in Bookings,
           \/ Approve(b) \/ Reject(b) \/ Cancel(b) \/ VoidBooking(b) \/ Confirm(b)
           \/ PutOnHold(b) \/ ReleaseHold(b) \/ CheckIn(b) \/ NoShow(b) \/ Reinstate(b)
    PROVE  SleptKept
<1>1. CASE Approve(b) \/ Reject(b)
  BY <1>1, NotInHouse DEF Approve, Reject, InHouseOrGone
<1>2. CASE Cancel(b) \/ VoidBooking(b) \/ ReleaseHold(b)
  BY <1>2, NotInHouse DEF Cancel, VoidBooking, ReleaseHold, PreArrival, InHouseOrGone
<1>3. CASE Confirm(b) \/ PutOnHold(b)
  BY <1>3, NotInHouse DEF Confirm, PutOnHold, PreArrival, InHouseOrGone
<1>4. CASE CheckIn(b) \/ NoShow(b)
  BY <1>4, NotInHouse DEF CheckIn, NoShow, InHouseOrGone
<1>5. CASE Reinstate(b)
  <2>1. PICK x : Become(b, x) /\ bk[b].status \in {"Cancelled", "NoShow"}
    BY <1>5 DEF Reinstate
  <2>2. QED
    BY <2>1, NotInHouse DEF InHouseOrGone
<1>6. QED
  BY <1>1, <1>2, <1>3, <1>4, <1>5

\* In house, the stay may only be amended to a later departure.
LEMMA AmendKeeps ==
    ASSUME IInv, NEW b \in Bookings, Amend(b)
    PROVE  SleptKept
<1>1. PICK s \in Stays, k \in 1 .. MaxRooms :
        LET x == bk[b]
            y == [x EXCEPT !.checkin = s[1], !.checkout = s[2], !.rooms = k, !.legsTo = s[2]]
        IN
        /\ \/ PreArrival(x)
           \/ x.status = "CheckedIn" /\ s[1] = x.checkin /\ s[2] > x.checkout
        /\ Become(b, y)
  BY DEF Amend
<1> DEFINE x == bk[b]
           y == [x EXCEPT !.checkin = s[1], !.checkout = s[2], !.rooms = k, !.legsTo = s[2]]
<1>2. x \in Booking /\ Coherent(x) /\ Become(b, y)
  BY <1>1, RowFacts
<1>3. CASE PreArrival(x)
  BY <1>2, <1>3, NotInHouse DEF PreArrival, InHouseOrGone
<1>4. CASE x.status = "CheckedIn" /\ s[1] = x.checkin /\ s[2] > x.checkout
  <2>1. /\ y.status = x.status /\ y.kind = x.kind /\ y.live = x.live
        /\ y.checkin = s[1] /\ y.legsTo = s[2]
    BY <1>2 DEF Booking
  <2>2. x.legsTo = x.checkout /\ x.checkin \in Int /\ x.checkout \in Int
    BY <1>2, <1>4, InHouse
  <2>3. s[2] \in Int
    BY StaysAssumption, HorizonAssumption DEF Dates
  <2> HIDE DEF y
  <2>4. KeepsSlept(x, y)
    BY <1>4, <2>1, <2>2, <2>3 DEF KeepsSlept, HeldNights, InventoryHeld, Span
  <2>5. QED
    BY <1>2, <2>4, OneRow
<1>5. QED
  BY <1>1, <1>3, <1>4

LEMMA ExtendStayKeeps ==
    ASSUME IInv, NEW b \in Bookings, ExtendStay(b)
    PROVE  SleptKept
<1>1. PICK s \in Stays :
        LET x == bk[b] IN
        /\ x.status = "CheckedIn" /\ s[2] > x.checkout
        /\ Become(b, [x EXCEPT !.checkout = s[2],
                               !.legsTo = IF x.live /\ @ = x.checkout THEN s[2] ELSE @])
  BY DEF ExtendStay
<1> DEFINE x == bk[b]
           y == [x EXCEPT !.checkout = s[2],
                          !.legsTo = IF x.live /\ @ = x.checkout THEN s[2] ELSE @]
<1>2. x \in Booking /\ Coherent(x) /\ Become(b, y) /\ x.status = "CheckedIn"
  BY <1>1, RowFacts
<1>3. x.live /\ x.legsTo = x.checkout /\ x.checkin \in Int /\ x.checkout \in Int
  BY <1>2, InHouse
<1>4. s[2] \in Int /\ s[2] > x.checkout
  BY <1>1, StaysAssumption, HorizonAssumption DEF Dates
<1>5. /\ y.status = x.status /\ y.kind = x.kind /\ y.live = x.live
      /\ y.checkin = x.checkin /\ y.legsTo = s[2]
  BY <1>2, <1>3 DEF Booking
<1> HIDE DEF y
<1>6. KeepsSlept(x, y)
  BY <1>3, <1>4, <1>5 DEF KeepsSlept, HeldNights, InventoryHeld, Span
<1>7. QED
  BY <1>2, <1>6, OneRow

\* A departure is moved forward no further than the day the desk is working.
LEMMA ShortenStayKeeps ==
    ASSUME IInv, NEW b \in Bookings, ShortenStay(b)
    PROVE  SleptKept
<1>1. PICK d \in Dates :
        LET x == bk[b] IN
        /\ x.status = "CheckedIn" /\ d >= Operating
        /\ Become(b, [x EXCEPT !.checkout = d,
                               !.legsTo = IF x.live THEN Earlier(@, d) ELSE @])
  BY DEF ShortenStay
<1> DEFINE x == bk[b]
           y == [x EXCEPT !.checkout = d, !.legsTo = IF x.live THEN Earlier(@, d) ELSE @]
           op == Operating
<1>2. x \in Booking /\ Coherent(x) /\ Become(b, y) /\ x.status = "CheckedIn"
  BY <1>1, RowFacts
<1>3. /\ x.live /\ x.legsTo = x.checkout /\ x.checkin \in Int /\ x.checkout \in Int
      /\ d \in Int /\ op \in Int
  BY <1>2, InHouse, HorizonAssumption DEF Operating, Later, IInv, TypeOK, Dates
<1>4. /\ y.status = x.status /\ y.kind = x.kind /\ y.live = x.live
      /\ y.checkin = x.checkin /\ y.legsTo = Earlier(x.legsTo, d)
  BY <1>2, <1>3 DEF Booking
<1>5. d >= op
  BY <1>1
<1>6. ASSUME NEW n \in HeldNights(x), n < op
      PROVE  n \in HeldNights(y)
  <2> HIDE DEF y, op
  <2>1. QED
    BY <1>3, <1>4, <1>5, <1>6 DEF HeldNights, InventoryHeld, Span, Earlier
<1> HIDE DEF y
<1>7. KeepsSlept(x, y)
  BY <1>6 DEF KeepsSlept
<1>8. QED
  BY <1>2, <1>7, OneRow

-----------------------------------------------------------------------------
(* Departure and its undo.                                                 *)

\* Leaving early keeps what was held before the day the desk is working.
LEMMA CheckOutKeeps ==
    ASSUME IInv, NEW b \in Bookings, CheckOut(b)
    PROVE  SleptKept
<1> DEFINE x == [bk[b] EXCEPT !.status = "CheckedOut", !.outToday = TRUE]
           op == Operating
<1>1. bk[b] \in Booking /\ Coherent(bk[b]) /\ bk[b].status = "CheckedIn"
  BY RowFacts DEF CheckOut
<1>2. /\ bk[b].live /\ bk[b].legsTo = bk[b].checkout /\ bk[b].releasedFrom = NoDate
      /\ bk[b].kind \in {"confirm", "hold_confirm"} /\ HeldNights(bk[b]) = StayNights(bk[b])
      /\ bk[b].checkin < bk[b].checkout /\ bk[b].checkin \in Int /\ bk[b].checkout \in Int
  BY <1>1, InHouse
<1>3. /\ x \in Booking /\ x.status = "CheckedOut" /\ x.kind = bk[b].kind
      /\ x.checkin = bk[b].checkin /\ x.checkout = bk[b].checkout
      /\ x.live = bk[b].live /\ x.legsTo = bk[b].legsTo
      /\ x.releasedFrom = bk[b].releasedFrom
  BY <1>1 DEF Booking, Statuses
<1>4. op \in Int
  BY HorizonAssumption DEF Operating, Later, IInv, TypeOK, Dates
<1>5. Become(b, IF op < x.checkout THEN Released(x, op) ELSE x)
  BY DEF CheckOut
<1> HIDE DEF x
<1>6. InventoryHeld(x) /\ HeldNights(x) = HeldNights(bk[b])
  BY <1>2, <1>3 DEF InventoryHeld, HeldNights, StayNights
<1>7. CASE ~(op < x.checkout)
  <2>1. KeepsSlept(bk[b], x)
    BY <1>6 DEF KeepsSlept
  <2>2. QED
    BY <1>5, <1>7, <2>1, OneRow
<1>8. CASE op < x.checkout /\ op <= x.checkin
  <2> HIDE DEF op
  <2>1. \A n \in HeldNights(bk[b]) : ~(n < op)
    BY <1>2, <1>3, <1>4, <1>8 DEF StayNights, Span
  <2> USE DEF op
  <2>2. KeepsSlept(bk[b], Released(x, op))
    BY <2>1 DEF KeepsSlept
  <2>3. QED
    BY <1>5, <1>8, <2>2, OneRow
<1>9. CASE op < x.checkout /\ ~(op <= x.checkin)
  <2> HIDE DEF op
  <2>1. /\ x.checkin < op /\ op < x.checkout
        /\ x.live /\ x.legsTo = x.checkout /\ x.releasedFrom = NoDate
    BY <1>2, <1>3, <1>4, <1>9
  <2>2. HeldNights(x) = StayNights(x) /\ HeldNights(Released(x, op)) = Span(x.checkin, op)
    BY <1>3, <1>4, <1>6, <2>1, ReleasedTail
  <2>3. \A n \in HeldNights(bk[b]) : n < op => n \in HeldNights(Released(x, op))
    BY <1>2, <1>3, <1>4, <1>6, <2>2 DEF StayNights, Span
  <2> USE DEF op
  <2>4. KeepsSlept(bk[b], Released(x, op))
    BY <2>3 DEF KeepsSlept
  <2>5. QED
    BY <1>5, <1>9, <2>4, OneRow
<1>10. QED
  BY <1>7, <1>8, <1>9

LEMMA UndoCheckInKeeps ==
    ASSUME IInv, NEW b \in Bookings, UndoCheckIn(b)
    PROVE  SleptKept
<1> DEFINE x == [bk[b] EXCEPT !.status = "Approved", !.inToday = FALSE]
<1>1. bk[b] \in Booking /\ bk[b].status = "CheckedIn" /\ Become(b, x)
  BY RowFacts DEF UndoCheckIn
<1>2. /\ x.status = "Approved" /\ x.kind = bk[b].kind /\ x.live = bk[b].live
      /\ x.legsTo = bk[b].legsTo /\ x.checkin = bk[b].checkin
  BY <1>1 DEF Booking
<1> HIDE DEF x
<1>3. KeepsSlept(bk[b], x)
  BY <1>1, <1>2 DEF KeepsSlept, HeldNights, InventoryHeld
<1>4. QED
  BY <1>1, <1>3, OneRow

\* A check-out is undone with at least the nights it had kept.
LEMMA UndoCheckOutKeeps ==
    ASSUME IInv, NEW b \in Bookings, UndoCheckOut(b)
    PROVE  SleptKept
<1> DEFINE x == [bk[b] EXCEPT !.status = "CheckedIn", !.outToday = FALSE]
<1>1. bk[b] \in Booking /\ Coherent(bk[b]) /\ bk[b].status = "CheckedOut"
  BY RowFacts DEF UndoCheckOut
<1>2. /\ x \in Booking /\ x.status = "CheckedIn" /\ x.kind = bk[b].kind
      /\ x.checkin = bk[b].checkin /\ x.checkout = bk[b].checkout
      /\ x.live = bk[b].live /\ x.legsTo = bk[b].legsTo
      /\ x.releasedFrom = bk[b].releasedFrom
  BY <1>1 DEF Booking, Statuses
<1>3. \/ x.releasedFrom # NoDate /\ Become(b, Reclaimed(x))
      \/ x.releasedFrom = NoDate /\ ~x.live /\ Become(b, [x EXCEPT !.live = TRUE])
      \/ x.releasedFrom = NoDate /\ x.live /\ Become(b, x)
  BY DEF UndoCheckOut
<1> HIDE DEF x
<1>4. /\ x.kind \in {"confirm", "hold_confirm"} /\ LegsMatch(x) /\ x.checkin < x.checkout
      /\ (x.releasedFrom # NoDate => x.live)
  BY <1>1, <1>2 DEF Coherent, KindMatches, LegsMatch
<1>5. InventoryHeld(x) /\ HeldNights(x) = HeldNights(bk[b])
  BY <1>1, <1>2, <1>4 DEF InventoryHeld, HeldNights
<1>6. CASE x.releasedFrom # NoDate /\ Become(b, Reclaimed(x))
  <2>1. HeldNights(Reclaimed(x)) = HeldNights(x) \cup ReclaimedNights(x)
    BY <1>2, <1>4, <1>5, <1>6, ReclaimedRow
  <2>2. KeepsSlept(bk[b], Reclaimed(x))
    BY <1>5, <2>1 DEF KeepsSlept
  <2>3. QED
    BY <1>6, <2>2, OneRow
<1>7. CASE ~x.live /\ Become(b, [x EXCEPT !.live = TRUE])
  <2>1. HeldNights(bk[b]) = {}
    BY <1>2, <1>7 DEF HeldNights
  <2>2. KeepsSlept(bk[b], [x EXCEPT !.live = TRUE])
    BY <2>1 DEF KeepsSlept
  <2>3. QED
    BY <1>7, <2>2, OneRow
<1>8. CASE Become(b, x)
  <2>1. KeepsSlept(bk[b], x)
    BY <1>5 DEF KeepsSlept
  <2>2. QED
    BY <1>8, <2>1, OneRow
<1>9. QED
  BY <1>3, <1>6, <1>7, <1>8

-----------------------------------------------------------------------------
(* The system's own work, and time.                                        *)

LEMMA SweepKeeps ==
    ASSUME IInv, NEW due, NEW expired, Sweep(due, expired)
    PROVE  SleptKept
<1> SUFFICES ASSUME NEW b \in Bookings, InHouseOrGone(bk[b])
             PROVE  KeepsSlept(bk[b], bk'[b])
  BY DEF SleptKept
<1>1. b \notin due \cup expired
  BY DEF Sweep, DueHolds, Unconfirmed, PreArrival, InHouseOrGone
<1>2. bk'[b] = bk[b]
  BY <1>1 DEF Sweep
<1>3. QED
  BY <1>2 DEF KeepsSlept

\* The night audit checks overstays out after their last night, with all their nights.
LEMMA NightAuditKeeps ==
    ASSUME IInv, NEW swept, NEW gone, NEW out, NightAudit(swept, gone, out)
    PROVE  SleptKept
<1> SUFFICES ASSUME NEW b \in Bookings, InHouseOrGone(bk[b])
             PROVE  KeepsSlept(bk[b], bk'[b])
  BY DEF SleptKept
<1> DEFINE Left(x) == [x EXCEPT !.status = "CheckedOut", !.outToday = TRUE]
<1>1. b \notin swept /\ b \notin gone
  BY DEF NightAudit, DueHolds, Unconfirmed, NeverArrived, PreArrival, InHouseOrGone
<1>2. bk'[b] = IF b \in out THEN Left(bk[b]) ELSE bk[b]
  BY <1>1 DEF NightAudit
<1>3. bk[b] \in Booking
  BY RowFacts
<1>4. HeldNights(Left(bk[b])) = HeldNights(bk[b])
  BY <1>3 DEF HeldNights, InventoryHeld, InHouseOrGone, Booking
<1>5. QED
  BY <1>2, <1>4 DEF KeepsSlept

LEMMA NextDayKeeps ==
    ASSUME IInv, NextDay
    PROVE  SleptKept
<1> SUFFICES ASSUME NEW b \in Bookings
             PROVE  HeldNights(bk'[b]) = HeldNights(bk[b])
  BY DEF SleptKept, KeepsSlept
<1>1. bk[b] \in Booking /\ bk'[b] = [bk[b] EXCEPT !.inToday = FALSE, !.outToday = FALSE]
  BY RowFacts DEF NextDay
<1>2. QED
  BY <1>1 DEF HeldNights, InventoryHeld, Booking

LEMMA HoldLapsesKeeps ==
    ASSUME IInv, NEW b \in Bookings, HoldLapses(b)
    PROVE  SleptKept
<1> DEFINE x == [bk[b] EXCEPT !.hold = "due"]
<1>1. bk[b] \in Booking /\ Become(b, x)
  BY RowFacts DEF HoldLapses
<1>2. HeldNights(x) = HeldNights(bk[b])
  BY <1>1 DEF HeldNights, InventoryHeld, Booking
<1> HIDE DEF x
<1>3. KeepsSlept(bk[b], x)
  BY <1>2 DEF KeepsSlept
<1>4. QED
  BY <1>1, <1>3, OneRow

-----------------------------------------------------------------------------

LEMMA NextKeeps == IInv /\ [Next]_vars => SleptKept
<1> SUFFICES ASSUME IInv, [Next]_vars PROVE SleptKept
  OBVIOUS
<1>1. ASSUME NEW b \in Bookings, Desk(b) PROVE SleptKept
  BY <1>1, CreationKeeps, BeforeArrivalKeeps, AmendKeeps, ExtendStayKeeps, ShortenStayKeeps,
     CheckOutKeeps, UndoCheckInKeeps, UndoCheckOutKeeps DEF Desk
<1>2. ASSUME NEW due, NEW expired, Sweep(due, expired) PROVE SleptKept
  BY <1>2, SweepKeeps
<1>3. ASSUME NEW swept, NEW gone, NEW out, NightAudit(swept, gone, out) PROVE SleptKept
  BY <1>3, NightAuditKeeps
<1>4. ASSUME NEW b \in Bookings, HoldLapses(b) PROVE SleptKept
  BY <1>4, HoldLapsesKeeps
<1>5. CASE NextDay
  BY <1>5, NextDayKeeps
<1>6. CASE UNCHANGED vars
  BY <1>6 DEF vars, SleptKept, KeepsSlept
<1>7. QED
  BY <1>1, <1>2, <1>3, <1>4, <1>5, <1>6 DEF Next

\* Whatever is checked out early, shortened, extended, amended or undone, and however far
\* the audit has fallen behind, a night that is over stays with the stay that kept it.
THEOREM SleptNightsKept == Spec => SleptNightsStaySold
<1>1. IInv /\ [Next]_vars
        => [\A b \in Bookings :
               bk[b].status \in {"CheckedIn", "CheckedOut"}
                   => \A n \in HeldNights(bk[b]) :
                          n < Operating => n \in HeldNights(bk'[b])]_vars
  BY NextKeeps DEF SleptKept, KeepsSlept, InHouseOrGone
<1>2. QED
  BY <1>1, Invariant, PTL DEF Spec, SleptNightsStaySold

-----------------------------------------------------------------------------
(***************************************************************************)
(* StayInventory implements RoomLedger: what the bookings keep and what    *)
(* the counter shows is a ledger.  That no step takes more than there is   *)
(* follows from conservation before and after it, so an operation only has *)
(* to be looked at for the nights it takes: they must be open.             *)
(***************************************************************************)

\* The step takes rooms on open nights only.
TakesOpenOnly == \A n \in Nights : rts'[n] < rts[n] => n \in OpenNights

\* The step is the grant of one booking, or a release by any number of them.
Granted(b) == /\ \A c \in Bookings \ {b}, n \in Nights : Weight(bk'[c], n) = Weight(bk[c], n)
              /\ \A n \in Nights : Weight(bk'[b], n) > Weight(bk[b], n) =>
                     /\ n \in OpenNights
                     /\ Weight(bk'[b], n) - Weight(bk[b], n) <= rts[n]
AllReleased == \A b \in Bookings, n \in Nights : Weight(bk'[b], n) \in {0, Weight(bk[b], n)}
Move        == AllReleased \/ \E b \in Bookings : Granted(b)

-----------------------------------------------------------------------------
(* Steps of one booking.                                                   *)

LEMMA WeightType ==
    ASSUME NEW x \in Booking, NEW n
    PROVE  Weight(x, n) \in 0 .. MaxRooms
BY QuantityAssumption DEF Weight, Booking

\* What a booking keeps more of is what the counter lost, and it never loses what it has not.
LEMMA OneBookingMove ==
    ASSUME IInv, IInv', NEW b \in Bookings, NEW x, Become(b, x), TakesOpenOnly
    PROVE  Move
<1>1. /\ bk \in [Bookings -> Booking] /\ bk' \in [Bookings -> Booking]
      /\ bk' = [bk EXCEPT ![b] = x] /\ bk'[b] = x /\ x \in Booking
      /\ Conserved /\ Conserved'
      /\ rts \in [Nights -> 0 .. Quantity] /\ rts' \in [Nights -> 0 .. Quantity]
  BY DEF IInv, TypeOK, Become
<1>2. \A c \in Bookings \ {b} : bk'[c] = bk[c]
  BY <1>1
<1>3. ASSUME NEW n \in Nights, Weight(bk'[b], n) > Weight(bk[b], n)
      PROVE  n \in OpenNights /\ Weight(bk'[b], n) - Weight(bk[b], n) <= rts[n]
  <2>1. /\ Cardinality(OthersIn(bk, b, n)) \in Nat
        /\ Cardinality(HeldIn(bk, n)) = Cardinality(OthersIn(bk, b, n)) + Weight(bk[b], n)
        /\ Cardinality(HeldIn(bk', n)) = Cardinality(OthersIn(bk', b, n)) + Weight(bk'[b], n)
    BY <1>1, HeldSplit
  <2>2. OthersIn(bk', b, n) = OthersIn(bk, b, n)
    BY <1>1, OthersUnchanged
  <2>3. Held(n) = HeldIn(bk, n) /\ Held(n)' = HeldIn(bk', n)
    BY DEF Held, HeldIn
  <2>4. /\ rts[n] + Cardinality(HeldIn(bk, n)) = Quantity
        /\ rts'[n] + Cardinality(HeldIn(bk', n)) = Quantity
    BY <1>1, <2>3 DEF Conserved
  <2>5. /\ Weight(bk[b], n) \in Int /\ Weight(bk'[b], n) \in Int
        /\ rts[n] \in Int /\ rts'[n] \in Int /\ rts'[n] >= 0
    BY <1>1, WeightType, QuantityAssumption
  <2>6. rts[n] - rts'[n] = Weight(bk'[b], n) - Weight(bk[b], n)
    <3>1. \A r, s, o, v, w \in Int, q \in Nat :
             r + (o + v) = q /\ s + (o + w) = q => r - s = w - v
      OBVIOUS
    <3>2. Cardinality(OthersIn(bk, b, n)) \in Int
      BY <2>1
    <3>3. /\ rts[n] + (Cardinality(OthersIn(bk, b, n)) + Weight(bk[b], n)) = Quantity
          /\ rts'[n] + (Cardinality(OthersIn(bk, b, n)) + Weight(bk'[b], n)) = Quantity
      BY <2>1, <2>2, <2>4
    <3>4. QED
      BY <3>1, <3>2, <3>3, <2>5, QuantityAssumption
  <2>7. QED
    BY <1>3, <2>5, <2>6 DEF TakesOpenOnly
<1>4. Granted(b)
  BY <1>2, <1>3 DEF Granted
<1>5. QED
  BY <1>4 DEF Move

\* Giving back never lowers a counter.
LEMMA GivingTakesNothing ==
    ASSUME IInv, NEW G, rts' = Returned(G)
    PROVE  TakesOpenOnly
<1> SUFFICES ASSUME NEW n \in Nights
             PROVE  ~(rts'[n] < rts[n])
  BY DEF TakesOpenOnly
<1> DEFINE k == Cardinality({u \in Units : <<u[1], n>> \in G /\ u[2] <= bk[u[1]].rooms})
<1>1. k \in Nat
  BY UnitsFinite
<1>2. rts'[n] = Earlier(Quantity, rts[n] + k)
  BY DEF Returned
<1>3. rts[n] \in 0 .. Quantity
  BY DEF IInv, TypeOK
<1> HIDE DEF k
<1>4. QED
  BY <1>1, <1>2, <1>3, QuantityAssumption DEF Earlier

\* Taking only takes from open nights.
LEMMA TakingTakesOpen ==
    ASSUME IInv, NEW ns, NEW k, Take(ns, k)
    PROVE  TakesOpenOnly
<1> SUFFICES ASSUME NEW n \in Nights, n \notin OpenNights
             PROVE  ~(rts'[n] < rts[n])
  BY DEF TakesOpenOnly
<1>1. n \notin ns
  BY DEF Take, CanTake
<1>2. rts'[n] = rts[n] /\ rts[n] \in Int
  BY <1>1, QuantityAssumption DEF Take, Taken, IInv, TypeOK
<1>3. QED
  BY <1>2

LEMMA KeepingTakesNothing ==
    ASSUME IInv, UNCHANGED rts
    PROVE  TakesOpenOnly
<1>1. \A n \in Nights : rts'[n] = rts[n] /\ rts[n] \in Int
  BY QuantityAssumption DEF IInv, TypeOK
<1>2. QED
  BY <1>1 DEF TakesOpenOnly

-----------------------------------------------------------------------------
(* The desk.                                                               *)

LEMMA CreationMoves ==
    ASSUME IInv, IInv', NEW b \in Bookings, CreateReservation(b) \/ CreateBooking(b)
    PROVE  Move
<1>1. CASE CreateReservation(b)
  <2>1. PICK x, ns : Become(b, x) /\ (UNCHANGED rts \/ Take(ns, 1))
    BY <1>1 DEF CreateReservation
  <2>2. TakesOpenOnly
    BY <2>1, TakingTakesOpen, KeepingTakesNothing
  <2>3. QED
    BY <2>1, <2>2, OneBookingMove
<1>2. CASE CreateBooking(b)
  <2>1. PICK x, ns, k : Become(b, x) /\ Take(ns, k)
    BY <1>2 DEF CreateBooking
  <2>2. QED
    BY <2>1, TakingTakesOpen, OneBookingMove
<1>3. QED
  BY <1>1, <1>2

\* Operations that end a booking, or give some of its nights back.
LEMMA GivingMoves ==
    ASSUME IInv, IInv', NEW b \in Bookings,
           \/ Reject(b) \/ Cancel(b) \/ VoidBooking(b) \/ ReleaseHold(b) \/ NoShow(b)
           \/ ShortenStay(b)
    PROVE  Move
<1>1. CASE Reject(b) \/ Cancel(b) \/ VoidBooking(b)
  <2>1. PICK x : Become(b, x) /\ GiveRoomsBack(b)
    BY <1>1 DEF Reject, Cancel, VoidBooking
  <2>2. TakesOpenOnly
    BY <2>1, GivingTakesNothing, KeepingTakesNothing DEF GiveRoomsBack, GiveBack
  <2>3. QED
    BY <2>1, <2>2, OneBookingMove
<1>2. CASE ReleaseHold(b) \/ NoShow(b) \/ ShortenStay(b)
  <2>1. PICK x, ns : Become(b, x) /\ GiveBack(b, ns)
    BY <1>2 DEF ReleaseHold, NoShow, ShortenStay
  <2>2. TakesOpenOnly
    BY <2>1, GivingTakesNothing DEF GiveBack
  <2>3. QED
    BY <2>1, <2>2, OneBookingMove
<1>3. QED
  BY <1>1, <1>2

\* Operations that may take rooms.
LEMMA TakingMoves ==
    ASSUME IInv, IInv', NEW b \in Bookings,
           \/ Approve(b) \/ Confirm(b) \/ PutOnHold(b) \/ ExtendStay(b)
           \/ UndoCheckOut(b) \/ Reinstate(b)
    PROVE  Move
<1>1. CASE Approve(b) \/ Confirm(b) \/ PutOnHold(b)
  <2>1. PICK x : Become(b, x) /\ TakeIfUnheld(bk[b])
    BY <1>1 DEF Approve, Confirm, PutOnHold
  <2>2. TakesOpenOnly
    BY <2>1, TakingTakesOpen, KeepingTakesNothing DEF TakeIfUnheld
  <2>3. QED
    BY <2>1, <2>2, OneBookingMove
<1>2. CASE ExtendStay(b) \/ UndoCheckOut(b) \/ Reinstate(b)
  <2>1. PICK x, ns, k : Become(b, x) /\ (UNCHANGED rts \/ Take(ns, k))
    <3>1. CASE ExtendStay(b)
      BY <3>1 DEF ExtendStay
    <3>2. CASE UndoCheckOut(b)
      BY <3>2 DEF UndoCheckOut
    <3>3. CASE Reinstate(b)
      BY <3>3 DEF Reinstate
    <3>4. QED
      BY <1>2, <3>1, <3>2, <3>3
  <2>2. TakesOpenOnly
    BY <2>1, TakingTakesOpen, KeepingTakesNothing
  <2>3. QED
    BY <2>1, <2>2, OneBookingMove
<1>3. QED
  BY <1>1, <1>2

LEMMA KeepingMoves ==
    ASSUME IInv, IInv', NEW b \in Bookings, CheckIn(b) \/ UndoCheckIn(b) \/ HoldLapses(b)
    PROVE  Move
<1>1. PICK x : Become(b, x) /\ UNCHANGED rts
  BY DEF CheckIn, UndoCheckIn, HoldLapses
<1>2. QED
  BY <1>1, KeepingTakesNothing, OneBookingMove

\* Leaving gives nights back or leaves the counter alone.
LEMMA CheckOutMoves ==
    ASSUME IInv, IInv', NEW b \in Bookings, CheckOut(b)
    PROVE  Move
<1>1. PICK x, ns : Become(b, x) /\ (UNCHANGED rts \/ GiveBack(b, ns))
  BY DEF CheckOut
<1>2. TakesOpenOnly
  BY <1>1, GivingTakesNothing, KeepingTakesNothing DEF GiveBack
<1>3. QED
  BY <1>1, <1>2, OneBookingMove

\* An amendment gives the old stay back before it takes the new one: the sum of the two is
\* what moves.
LEMMA AmendMoves ==
    ASSUME IInv, IInv', NEW b \in Bookings, Amend(b)
    PROVE  Move
<1>1. PICK x, ns, G, k :
        /\ Become(b, x)
        /\ \/ UNCHANGED rts
           \/ CanTake(Returned(G), ns, k) /\ rts' = Taken(Returned(G), ns, k)
  BY DEF Amend
<1>2. CASE CanTake(Returned(G), ns, k) /\ rts' = Taken(Returned(G), ns, k)
  <2> SUFFICES ASSUME NEW n \in Nights, n \notin OpenNights
               PROVE  ~(rts'[n] < rts[n])
    BY <1>1, OneBookingMove DEF TakesOpenOnly
  <2> DEFINE f == Cardinality({u \in Units : <<u[1], n>> \in G /\ u[2] <= bk[u[1]].rooms})
  <2>1. f \in Nat
    BY UnitsFinite
  <2>2. n \notin ns
    BY <1>2 DEF CanTake
  <2>3. rts'[n] = Earlier(Quantity, rts[n] + f)
    BY <1>2, <2>2 DEF Taken, Returned
  <2>4. rts[n] \in 0 .. Quantity
    BY DEF IInv, TypeOK
  <2> HIDE DEF f
  <2>5. QED
    BY <2>1, <2>3, <2>4, QuantityAssumption DEF Earlier
<1>3. CASE UNCHANGED rts
  BY <1>1, <1>3, KeepingTakesNothing, OneBookingMove
<1>4. QED
  BY <1>1, <1>2, <1>3

-----------------------------------------------------------------------------
(* The sweep, the night audit and time: only releases.                     *)

\* A row that keeps its rooms and loses nights is released.
LEMMA RowReleased ==
    ASSUME NEW x, NEW y, y.rooms = x.rooms, HeldNights(y) \subseteq HeldNights(x), NEW n
    PROVE  Weight(y, n) \in {0, Weight(x, n)}
BY DEF Weight

LEMMA SweepMoves ==
    ASSUME IInv, NEW due \in SUBSET Bookings, NEW expired \in SUBSET Bookings,
           Sweep(due, expired)
    PROVE  AllReleased
<1> SUFFICES ASSUME NEW b \in Bookings, NEW n \in Nights
             PROVE  Weight(bk'[b], n) \in {0, Weight(bk[b], n)}
  BY DEF AllReleased
<1>1. bk'[b] = IF b \in due \cup expired THEN Swept(bk[b]) ELSE bk[b]
  BY DEF Sweep
<1>2. bk[b] \in Booking /\ Coherent(bk[b])
  BY RowFacts
<1>3. CASE b \in due \cup expired
  <2>1. PreArrival(bk[b])
    BY <1>3 DEF Sweep, DueHolds, Unconfirmed, PreArrival
  <2>2. HeldNights(Swept(bk[b])) = {} /\ Swept(bk[b]).rooms = bk[b].rooms
    BY <1>2, <2>1, SweptRow
  <2>3. QED
    BY <1>1, <1>3, <2>2, RowReleased
<1>4. CASE b \notin due \cup expired
  BY <1>1, <1>4
<1>5. QED
  BY <1>3, <1>4

LEMMA NightAuditMoves ==
    ASSUME IInv, NEW swept \in SUBSET Bookings, NEW gone \in SUBSET Bookings,
           NEW out \in SUBSET Bookings, NightAudit(swept, gone, out)
    PROVE  AllReleased
<1> SUFFICES ASSUME NEW b \in Bookings, NEW n \in Nights
             PROVE  Weight(bk'[b], n) \in {0, Weight(bk[b], n)}
  BY DEF AllReleased
<1> DEFINE Left(x) == [x EXCEPT !.status = "CheckedOut", !.outToday = TRUE]
<1>1. bk'[b] = CASE b \in swept -> Swept(bk[b])
                 [] b \in gone  -> AfterNoShow(bk[b], business)
                 [] b \in out   -> Left(bk[b])
                 [] OTHER       -> bk[b]
  BY DEF NightAudit
<1>2. bk[b] \in Booking /\ Coherent(bk[b]) /\ business \in Dates
  BY RowFacts DEF IInv, TypeOK
<1>3. CASE b \in swept
  <2>1. PreArrival(bk[b]) /\ b \notin gone /\ b \notin out
    BY <1>3 DEF NightAudit, DueHolds, Unconfirmed, Overstays, PreArrival
  <2>2. HeldNights(Swept(bk[b])) = {} /\ Swept(bk[b]).rooms = bk[b].rooms
    BY <1>2, <2>1, SweptRow
  <2>3. bk'[b] = Swept(bk[b])
    BY <1>1, <1>3, <2>1
  <2>4. QED
    BY <2>2, <2>3, RowReleased
<1>4. CASE b \in gone
  <2>1. bk[b].status = "Approved" /\ b \notin swept /\ b \notin out
    BY <1>4 DEF NightAudit, NeverArrived, Overstays
  <2>2. /\ AfterNoShow(bk[b], business).rooms = bk[b].rooms
        /\ HeldNights(AfterNoShow(bk[b], business)) \subseteq HeldNights(bk[b])
    BY <1>2, <2>1, NoShowRow
  <2>3. bk'[b] = AfterNoShow(bk[b], business)
    BY <1>1, <1>4, <2>1
  <2>4. QED
    BY <2>2, <2>3, RowReleased
<1>5. CASE b \in out
  <2>1. bk[b].status = "CheckedIn" /\ b \notin swept /\ b \notin gone
    BY <1>5 DEF NightAudit, Overstays, NeverArrived, DueHolds, Unconfirmed, PreArrival
  <2>2. bk'[b] = Left(bk[b])
    BY <1>1, <1>5, <2>1
  <2>3. Left(bk[b]).rooms = bk[b].rooms /\ HeldNights(Left(bk[b])) = HeldNights(bk[b])
    BY <1>2, <2>1 DEF HeldNights, InventoryHeld, Booking
  <2>4. QED
    BY <2>2, <2>3, RowReleased
<1>6. CASE b \notin swept /\ b \notin gone /\ b \notin out
  BY <1>1, <1>6
<1>7. QED
  BY <1>3, <1>4, <1>5, <1>6

LEMMA NextDayMoves ==
    ASSUME IInv, NextDay
    PROVE  AllReleased
<1> SUFFICES ASSUME NEW b \in Bookings, NEW n \in Nights
             PROVE  Weight(bk'[b], n) = Weight(bk[b], n)
  BY DEF AllReleased
<1>1. bk[b] \in Booking /\ bk'[b] = [bk[b] EXCEPT !.inToday = FALSE, !.outToday = FALSE]
  BY RowFacts DEF NextDay
<1>2. bk'[b].rooms = bk[b].rooms /\ HeldNights(bk'[b]) = HeldNights(bk[b])
  BY <1>1 DEF HeldNights, InventoryHeld, Booking
<1>3. QED
  BY <1>2 DEF Weight

LEMMA EveryStepMoves == IInv /\ IInv' /\ Next => Move
<1> SUFFICES ASSUME IInv, IInv', Next PROVE Move
  OBVIOUS
<1>1. ASSUME NEW b \in Bookings, Desk(b) PROVE Move
  BY <1>1, CreationMoves, GivingMoves, TakingMoves, KeepingMoves, CheckOutMoves,
     AmendMoves DEF Desk
<1>2. ASSUME NEW due \in SUBSET Bookings, NEW expired \in SUBSET Bookings,
             Sweep(due, expired)
      PROVE  Move
  BY <1>2, SweepMoves DEF Move
<1>3. ASSUME NEW swept \in SUBSET Bookings, NEW gone \in SUBSET Bookings,
             NEW out \in SUBSET Bookings, NightAudit(swept, gone, out)
      PROVE  Move
  BY <1>3, NightAuditMoves DEF Move
<1>4. ASSUME NEW b \in Bookings, HoldLapses(b) PROVE Move
  BY <1>4, KeepingMoves
<1>5. CASE NextDay
  BY <1>5, NextDayMoves DEF Move
<1>6. /\ DueHolds \subseteq Bookings /\ Unconfirmed \subseteq Bookings
      /\ NeverArrived \subseteq Bookings /\ Overstays \subseteq Bookings
  BY DEF DueHolds, Unconfirmed, NeverArrived, Overstays
<1>7. QED
  BY <1>1, <1>2, <1>3, <1>4, <1>5, <1>6 DEF Next

-----------------------------------------------------------------------------
(* The refinement.                                                         *)

\* What RoomLedger calls kept is the weight of each booking on each night.
Keeping(f) == [b \in Bookings |-> [n \in Nights |-> IF n \in HeldNights(f[b]) THEN f[b].rooms
                                                                          ELSE 0]]

LEMMA KeepingType ==
    ASSUME NEW f \in [Bookings -> Booking]
    PROVE  /\ Keeping(f) \in [Bookings -> [Nights -> 0 .. MaxRooms]]
           /\ \A b \in Bookings, n \in Nights : Keeping(f)[b][n] = Weight(f[b], n)
<1>1. \A b \in Bookings, n \in Nights : Keeping(f)[b][n] = Weight(f[b], n)
  BY DEF Keeping, Weight
<1>2. \A b \in Bookings, n \in Nights : Keeping(f)[b][n] \in 0 .. MaxRooms
  BY <1>1, WeightType
<1>3. QED
  BY <1>1, <1>2 DEF Keeping

\* The instance counts as the library does.
LEMMA SameCardinality == \A S : Ledger!Cardinality(S) = Cardinality(S)
BY DEF Cardinality, Ledger!Cardinality

\* A conserved calendar shows exactly what the ledger leaves.
LEMMA CalendarIsLeft == IInv => rts = Ledger!Left
<1> SUFFICES ASSUME IInv PROVE rts = Ledger!Left
  OBVIOUS
<1>1. bk \in [Bookings -> Booking] /\ rts \in [Nights -> 0 .. Quantity] /\ Conserved
  BY DEF IInv, TypeOK
<1>2. ASSUME NEW n \in Nights
      PROVE  Ledger!Kept(n) = Held(n)
  <2>1. Ledger!Kept(n)
          = {u \in Bookings \X (1 .. MaxRooms) : u[2] <= Keeping(bk)[u[1]][n]}
    BY DEF Ledger!Kept, Keeping
  <2>2. \A u \in Units : u[2] <= Keeping(bk)[u[1]][n]
                            <=> u[2] <= bk[u[1]].rooms /\ n \in HeldNights(bk[u[1]])
    <3> SUFFICES ASSUME NEW b \in Bookings, NEW k \in 1 .. MaxRooms
                 PROVE  k <= Keeping(bk)[b][n] <=> k <= bk[b].rooms /\ n \in HeldNights(bk[b])
      BY DEF Units
    <3>1. Keeping(bk)[b][n] = Weight(bk[b], n)
      BY <1>1, KeepingType
    <3>2. QED
      BY <3>1 DEF Weight
  <2>3. QED
    BY <2>1, <2>2 DEF Held, Units
<1>3. \A n \in Nights : rts[n] = Quantity - Cardinality(Ledger!Kept(n))
  <2> SUFFICES ASSUME NEW n \in Nights
               PROVE  rts[n] = Quantity - Cardinality(Ledger!Kept(n))
    OBVIOUS
  <2>1. rts[n] + Cardinality(Held(n)) = Quantity /\ rts[n] \in Int
    BY <1>1, QuantityAssumption DEF Conserved
  <2>2. Cardinality(Held(n)) \in Nat
    BY UnitsFinite DEF Held
  <2>3. QED
    BY <1>2, <2>1, <2>2, QuantityAssumption
<1>4. QED
  BY <1>1, <1>3, SameCardinality DEF Ledger!Left

\* And it still does after the step.
LEMMA CalendarStaysLeft == IInv' => (rts = Ledger!Left)'
BY CalendarIsLeft, PTL

LEMMA LedgerInit == Init => Ledger!Init
<1> SUFFICES ASSUME Init PROVE Ledger!Init
  OBVIOUS
<1>1. IInv
  BY InitInv
<1>2. rts = Ledger!Left
  BY <1>1, CalendarIsLeft
<1>3. \A b \in Bookings : HeldNights(bk[b]) = {}
  BY NothingHeld DEF Init, Blank
<1>4. Keeping(bk) = [b \in Bookings |-> [n \in Nights |-> 0]]
  BY <1>3 DEF Keeping
<1>5. QED
  BY <1>2, <1>4 DEF Ledger!Init, Keeping

LEMMA LedgerNext == IInv /\ IInv' /\ Move => Ledger!Next
<1> SUFFICES ASSUME IInv, IInv', Move PROVE Ledger!Next
  OBVIOUS
<1>1. /\ bk \in [Bookings -> Booking] /\ bk' \in [Bookings -> Booking]
      /\ rts' \in [Nights -> 0 .. Quantity]
  BY DEF IInv, TypeOK
<1>2. rts' = Ledger!Left'
  BY CalendarStaysLeft
<1>3. /\ Keeping(bk') \in [Bookings -> [Nights -> 0 .. MaxRooms]]
      /\ \A b \in Bookings, n \in Nights : /\ Keeping(bk)[b][n] = Weight(bk[b], n)
                                           /\ Keeping(bk')[b][n] = Weight(bk'[b], n)
  BY <1>1, KeepingType
<1>4. CASE AllReleased
  <2>1. \A b \in Bookings, n \in Nights : Keeping(bk')[b][n] \in {0, Keeping(bk)[b][n]}
    BY <1>3, <1>4 DEF AllReleased
  <2>2. Ledger!Release
    BY <1>3, <2>1 DEF Ledger!Release, Ledger!Rows, Keeping
  <2>3. QED
    BY <1>2, <2>2 DEF Ledger!Next
<1>5. ASSUME NEW b \in Bookings, Granted(b)
      PROVE  Ledger!Next
  <2>1. \A c \in Bookings \ {b} : Keeping(bk')[c] = Keeping(bk)[c]
    <3> SUFFICES ASSUME NEW c \in Bookings \ {b} PROVE Keeping(bk')[c] = Keeping(bk)[c]
      OBVIOUS
    <3>1. \A n \in Nights : Keeping(bk')[c][n] = Keeping(bk)[c][n]
      BY <1>3, <1>5 DEF Granted
    <3>2. QED
      BY <3>1 DEF Keeping
  <2>2. \A n \in Nights : Keeping(bk')[b][n] > Keeping(bk)[b][n] =>
            n \in OpenNights /\ Keeping(bk')[b][n] - Keeping(bk)[b][n] <= rts[n]
    BY <1>3, <1>5 DEF Granted
  <2>3. Ledger!Grant(b)
    BY <1>3, <2>1, <2>2 DEF Ledger!Grant, Ledger!Rows, Keeping
  <2>4. QED
    BY <1>2, <2>3 DEF Ledger!Next
<1>6. QED
  BY <1>4, <1>5 DEF Move

\* For every hotel: whatever the desk, the sweep and the night audit do, the nights that
\* bookings keep and the counter of rooms to sell are a ledger. Rooms are only ever granted
\* to one booking at a time, on open nights, out of what is left.
THEOREM ImplementsLedger == Spec => KeepsLedger
<1>1. IInv /\ IInv' /\ [Next]_vars
        => [Ledger!Next]_<<[b \in Bookings |->
                               [n \in Nights |->
                                   IF n \in HeldNights(bk[b]) THEN bk[b].rooms ELSE 0]], rts>>
  <2> SUFFICES ASSUME IInv, IInv', [Next]_vars
               PROVE  Ledger!Next \/ (bk' = bk /\ rts' = rts)
    OBVIOUS
  <2>1. CASE Next
    BY <2>1, EveryStepMoves, LedgerNext
  <2>2. CASE UNCHANGED vars
    BY <2>2 DEF vars
  <2>3. QED
    BY <2>1, <2>2
<1>2. QED
  BY <1>1, LedgerInit, Invariant, PTL DEF Spec, KeepsLedger, Ledger!Spec
=============================================================================
