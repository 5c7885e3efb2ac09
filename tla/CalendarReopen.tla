--------------------------- MODULE CalendarReopen ---------------------------
(***************************************************************************)
(* One night of one room type while its calendar row is being rewritten:   *)
(* owners who reopen the night (RoomsService.openAvailability counts the   *)
(* bookings, then the blocks, then writes the row, each a statement of a   *)
(* READ COMMITTED transaction) against the transactions that take the      *)
(* night or give it back.                                                  *)
(*                                                                         *)
(* A holder is whatever keeps one room of the type off the market: a       *)
(* booking or a maintenance block. Its transaction updates the row, which  *)
(* locks it until the transaction ends, and becomes visible when it        *)
(* commits; `rts` is the committed value of the row.                       *)
(***************************************************************************)
EXTENDS Integers, FiniteSets

CONSTANTS
    Bookings,     \* bookings that may want the night
    Blocks,       \* maintenance blocks of its physical rooms
    Owners,       \* transactions that reopen the night
    Quantity,     \* physical rooms of the type
    Asked,        \* the values of rooms to sell the owners ask for
    Nobody,       \* the lock of an unlocked row
    RawCalls      \* bound: calls of the raw reserve and release endpoints

Holders == Bookings \cup Blocks

ASSUME QuantityAssumption == Quantity \in Nat /\ Asked \subseteq Nat /\ RawCalls \in Nat
ASSUME HoldersAssumption  ==
    /\ IsFiniteSet(Bookings) /\ IsFiniteSet(Blocks)
    /\ Bookings \cap Blocks = {} /\ Nobody \notin Holders

VARIABLES
    status,       \* the row: "none" before the calendar is opened, "Open" or "Close"
    rts,          \* the row's rooms_to_sell
    lock,         \* the holder whose transaction has updated the row and not ended
    pc,           \* pc[h]: "out", "held" (both committed), "taking" or "giving"
    owner,        \* owner[o]: where its transaction is and which holders it counted
    offered,      \* history: the rooms the last reopening put on offer
    over,         \* history: rooms put on sale that were not there to sell
    lost          \* history: rooms withheld from sale that were there to sell

vars == <<status, rts, lock, pc, owner, offered, over, lost>>

Earlier(d, e) == IF d < e THEN d ELSE e
Later(d, e)   == IF d < e THEN e ELSE d

\* The rooms off the market, as committed.
Off == {h \in Holders : pc[h] \in {"held", "giving"}}
N(S) == Cardinality(S)

Become(h, state) == pc' = [pc EXCEPT ![h] = state]
RowIsFree        == lock = Nobody
History          == <<offered, over, lost>>

-----------------------------------------------------------------------------
(* The transactions that take the night and give it back.                  *)

\* Broken: the conditional UPDATE forgets to ask how many rooms are left.
TakeWithoutFloor(h) == RowIsFree /\ status = "Open" /\ lock' = h

\* reserveStay on this night: one conditional UPDATE.
TakeRow(h) == RowIsFree /\ status = "Open" /\ rts >= 1 /\ lock' = h

\* A booking, or a block of a hotel whose calendar is open (reserveConfiguredInventory):
\* without a calendar row a block reserves nothing.
Take(h) ==
    /\ pc[h] = "out"
    /\ \/ TakeRow(h)
       \/ h \in Blocks /\ status = "none" /\ UNCHANGED lock
    /\ Become(h, "taking")
    /\ UNCHANGED <<status, rts, owner, History>>

\* releaseStay: an UPDATE that finds no row changes nothing.
Give(h) ==
    /\ pc[h] = "held"
    /\ IF status = "none" THEN UNCHANGED lock ELSE RowIsFree /\ lock' = h
    /\ Become(h, "giving")
    /\ UNCHANGED <<status, rts, owner, History>>

\* Broken: the rooms given back are not put on sale again.
ForgetReturned(k) == k

\* releaseStay caps what it gives back at the physical quantity.
PlusOne(k) == Earlier(Quantity, k + 1)

\* The transaction of a holder that had updated the row, or that found none to update:
\* the second case is one room nobody accounts for if the row has been written since.
CommitTake(h) ==
    /\ pc[h] = "taking" /\ Become(h, "held")
    /\ IF lock = h THEN lock' = Nobody /\ rts' = rts - 1 /\ UNCHANGED over
       ELSE /\ over' = IF status = "none" THEN over ELSE over + 1
            /\ UNCHANGED <<lock, rts>>
    /\ UNCHANGED <<status, owner, offered, lost>>

CommitGive(h) ==
    /\ pc[h] = "giving" /\ Become(h, "out")
    /\ IF lock = h THEN lock' = Nobody /\ rts' = PlusOne(rts) /\ UNCHANGED lost
       ELSE /\ lost' = IF status = "none" THEN lost ELSE lost + 1
            /\ UNCHANGED <<lock, rts>>
    /\ UNCHANGED <<status, owner, offered, over>>

\* Any of them may roll back instead.
Abort(h) ==
    /\ \/ pc[h] = "taking" /\ Become(h, "out")
       \/ pc[h] = "giving" /\ Become(h, "held")
    /\ lock' = IF lock = h THEN Nobody ELSE lock
    /\ UNCHANGED <<status, rts, owner, History>>

\* amendWithin and BlocksService.update, when the night stays in the stay: given back and
\* taken again in one transaction, with the row locked from the first UPDATE on.
Move(h) ==
    /\ pc[h] = "held" /\ RowIsFree /\ status = "Open"
    /\ PlusOne(rts) >= 1 /\ rts' = PlusOne(rts) - 1
    /\ UNCHANGED <<status, lock, pc, owner, History>>

\* InventoryService.reserve and release: the counter alone, with no holder behind it.
RawReserve ==
    /\ RowIsFree /\ status = "Open" /\ rts >= 1
    /\ lost < RawCalls                         \* the bound of the model
    /\ rts' = rts - 1 /\ lost' = lost + 1
    /\ UNCHANGED <<status, lock, pc, owner, offered, over>>

RawRelease ==
    /\ RowIsFree /\ status # "none"
    /\ over < RawCalls                         \* the bound of the model
    /\ rts' = PlusOne(rts) /\ over' = over + (rts' - rts)
    /\ UNCHANGED <<status, lock, pc, owner, offered, lost>>

-----------------------------------------------------------------------------
(* The owner who reopens the night.                                        *)

\* The first statement counts the bookings that are committed. (A stay checked out on its
\* arrival day is counted too: StayInventory has that divergence.)
CountBookings(o) ==
    /\ owner[o].at = "start"
    /\ owner' = [owner EXCEPT ![o] = [at |-> "booked", saw |-> Off \cap Bookings]]
    /\ UNCHANGED <<status, rts, lock, pc, History>>

\* The second counts the blocks that are committed by then.
CountBlocks(o) ==
    /\ owner[o].at = "booked"
    /\ owner' = [owner EXCEPT ![o] = [at |-> "counted", saw |-> @.saw \cup (Off \cap Blocks)]]
    /\ UNCHANGED <<status, rts, lock, pc, History>>

\* Broken: the recount forgets the rooms that are blocked.
RemainingAfterBookings(sellable, saw) == Later(0, sellable - N(saw \cap Bookings))

Remaining(sellable, saw) == Later(0, sellable - N(saw))

\* The third writes what was counted over whatever the row says now.
WriteRow(o) ==
    \E asked \in Asked, open \in {"Open", "Close"} :
        LET sellable == Earlier(asked, Quantity)  saw == owner[o].saw IN
        /\ owner[o].at = "counted" /\ RowIsFree
        /\ rts' = Remaining(sellable, saw) /\ status' = open
        /\ owner' = [owner EXCEPT ![o] = [at |-> "start", saw |-> {}]]
        /\ offered' = sellable
        /\ over' = Later(N(Off \ saw), N(Off) - Quantity)
        /\ lost' = N(saw \ Off)
        /\ UNCHANGED <<lock, pc>>

-----------------------------------------------------------------------------

Init ==
    /\ status = "none" /\ rts = 0 /\ lock = Nobody
    /\ pc = [h \in Holders |-> "out"]
    /\ owner = [o \in Owners |-> [at |-> "start", saw |-> {}]]
    /\ offered = 0 /\ over = 0 /\ lost = 0

Next ==
    \/ \E h \in Holders : \/ Take(h) \/ Give(h) \/ CommitTake(h) \/ CommitGive(h)
                          \/ Abort(h) \/ Move(h)
    \/ RawReserve \/ RawRelease
    \/ \E o \in Owners : CountBookings(o) \/ CountBlocks(o) \/ WriteRow(o)

Spec == Init /\ [][Next]_vars

-----------------------------------------------------------------------------
(* Properties.                                                             *)

\* Every variable has its type: the counter stays between nothing and the physical
\* quantity, which the CHECK on availability_calendar asks for.
TypeOK ==
    /\ status \in {"none", "Open", "Close"}
    /\ rts \in 0 .. Quantity
    /\ lock \in Holders \cup {Nobody}
    /\ pc \in [Holders -> {"out", "taking", "held", "giving"}]
    /\ owner \in [Owners -> [at : {"start", "booked", "counted"}, saw : SUBSET Holders]]
    /\ offered \in 0 .. Quantity /\ over \in Nat /\ lost \in Nat

\* A night is never oversold by more than what the last reopening did not see when it
\* counted (or found oversold already), plus rooms handed out behind its back: no take,
\* release, change of dates, rollback or clamp at zero adds to it.
OversoldOnlyByRaces == status # "none" => rts + N(Off) <= Quantity + over

\* And rooms the owner put on offer are never withheld by more than what the last
\* reopening counted and was given back before it wrote.
UndersoldOnlyByRaces == status # "none" => rts + N(Off) >= offered - lost
=============================================================================
