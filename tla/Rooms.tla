------------------------------- MODULE Rooms -------------------------------
(***************************************************************************)
(* The numbered rooms of one room type: which guest has which room on      *)
(* which nights (the legs of a booking), the rooms taken out of service,   *)
(* and the moves planned for a later night.                                *)
(*                                                                         *)
(* A booking has one room at a time.  Guests and blocks are kept in two    *)
(* tables, each with a constraint of its own against overlaps; a request   *)
(* looks at the other table in an earlier statement than the one it writes *)
(* in.  So an assignment, a move and a block are taken in steps: what is   *)
(* read, then what is written.  The other operations, which lock their     *)
(* booking, are one step.  The business date is the calendar's, and the    *)
(* counter of rooms to sell is what is held and blocked of the type.       *)
(***************************************************************************)
EXTENDS Integers, Sequences, FiniteSets

CONSTANTS
    Bookings,     \* the bookings of the room type
    Handled,      \* those the desk changes; the others come, stay and leave
    Units,        \* its numbered rooms
    Horizon,      \* the last night, and the last day
    Stays,        \* the stays each may have, an arrival and a departure
    BlockSpans,   \* the spans a room may be blocked for
    MaxLegs,      \* bound on the leg rows of a booking
    MaxMoves,     \* bound on the moves planned
    NoUnit        \* no room

Nights == 1 .. Horizon
Dates  == 1 .. Horizon + 1
Spans  == {s \in Dates \X Dates : s[1] < s[2]}

ASSUME RoomsAssumption ==
    /\ Horizon \in Nat \ {0} /\ MaxLegs \in Nat \ {0} /\ MaxMoves \in Nat
    /\ Stays \in [Bookings -> SUBSET Spans] /\ BlockSpans \subseteq Spans
    /\ Bookings # {} /\ Handled \subseteq Bookings /\ NoUnit \notin Units /\ IsFiniteSet(Units)

VARIABLES
    bk,           \* bk[b]: the booking row
    legs,         \* legs[b]: its leg rows, those released included
    blocks,       \* the blocks in force
    moves,        \* the moves planned
    req,          \* the request that assigns or moves a guest
    blocking,     \* the request that blocks a room
    today,
    strayed       \* bookings of which a released leg was moved (history)

vars == <<bk, legs, blocks, moves, req, blocking, today, strayed>>

-----------------------------------------------------------------------------
(* Rows.                                                                   *)

Live      == {"Approved", "CheckedIn"}
Statuses  == Live \cup {"none", "NoShow", "CheckedOut", "Cancelled"}

\* until: the nights from checkin to before it are taken from the counter; out: checked out today.
Booking == [status : Statuses, checkin : Dates, checkout : Dates, until : Dates, out : BOOLEAN]

\* released: "no" for a live leg, "last" for those the booking's last release freed.
Leg    == [unit : Units \cup {NoUnit}, from : Dates, to : Dates, released : {"no", "last", "before"}]
Block  == [unit : Units, from : Dates, to : Dates]
Move   == [b : Bookings, leg : 1 .. MaxLegs, from : Units, to : Units, date : Dates]

Overlaps(x, from, to) == x.from < to /\ from < x.to
Rows(b)     == DOMAIN legs[b]
IsLive(l)   == l.released = "no"
LiveRows(b) == {i \in Rows(b) : IsLive(legs[b][i])}

\* Another live leg than row i of b has unit u in the span (assertDestinationFree, the constraint).
TakenByGuest(u, from, to, b, i) ==
    \E c \in Bookings : \E j \in LiveRows(c) :
        /\ <<c, j>> # <<b, i>>
        /\ legs[c][j].unit = u /\ Overlaps(legs[c][j], from, to)

\* booking_rooms_no_double_booking, for row i of b to become l.
Fits(b, i, l) == IsLive(l) /\ l.unit # NoUnit => ~TakenByGuest(l.unit, l.from, l.to, b, i)

\* booking_rooms_booking_leg_uq: one row of a booking for each first night, released or not.
FirstNightFree(b, i, from) == \A j \in Rows(b) \ {i} : legs[b][j].from # from

\* assertNotBlocked.
Blocked(u, from, to) == \E x \in blocks : x.unit = u /\ Overlaps(x, from, to)

\* A planned move keeps its destination from the move to the end of the leg.
Promised(u, from, to) ==
    \E m \in moves : m.to = u /\ m.date < to /\ from < legs[m.b][m.leg].to

\* Broken: blocks are not looked at.
FreeUnitsBlocked(b, i, from, to) ==
    {u \in Units : ~TakenByGuest(u, from, to, b, i) /\ ~Promised(u, from, to)}

\* freeUnits, for row i of b.
FreeUnits(b, i, from, to) ==
    {u \in Units : /\ ~TakenByGuest(u, from, to, b, i) /\ ~Blocked(u, from, to)
                   /\ ~Promised(u, from, to)}

\* The counter of the type: a night is held by the bookings, and by the blocks.
Held(b)  == IF bk[b].status \in {"none", "Cancelled"} THEN {}
            ELSE {n \in Nights : bk[b].checkin <= n /\ n < bk[b].until}
Sold(n)  == Cardinality({b \in Bookings : n \in Held(b)})
            + Cardinality({x \in blocks : Overlaps(x, n, n + 1)})
CanSell(from, to) == \A n \in from .. to - 1 : Sold(n) < Cardinality(Units)

\* The legs of b wait for the request that has locked one of them.
Unlocked(b) == ~(req.step = "checked" /\ req.b = b)

Later(d, e) == IF d < e THEN e ELSE d

-----------------------------------------------------------------------------
(* What a booking's operations do to its legs.                             *)

\* Stamps the rows S of ls as freed just now.
Release(ls, S) ==
    [i \in DOMAIN ls |->
        CASE i \in S                                  -> [ls[i] EXCEPT !.released = "last"]
          [] S # {} /\ ls[i].released = "last"       -> [ls[i] EXCEPT !.released = "before"]
          [] OTHER                                    -> ls[i]]

\* Broken: legs that begin after the cut are left.
CutLegsOnly(ls, d) ==
    [i \in DOMAIN ls |-> IF IsLive(ls[i]) /\ ls[i].from < d /\ ls[i].to > d
                         THEN [ls[i] EXCEPT !.to = d] ELSE ls[i]]

\* The live legs from d on are freed, the one that runs over d ends there.
CutLegs(ls, d) ==
    LET freed == Release(ls, {i \in DOMAIN ls : IsLive(ls[i]) /\ ls[i].from >= d}) IN
    [i \in DOMAIN ls |-> IF IsLive(freed[i]) /\ freed[i].to > d
                         THEN [freed[i] EXCEPT !.to = d] ELSE freed[i]]

\* releaseBookingInventory: all of the stay, or its nights from d on that are still held.
LegsReleased(b, d) ==
    CASE d <= bk[b].checkin -> Release(legs[b], LiveRows(b))
      [] bk[b].checkin < d /\ d < bk[b].until -> CutLegs(legs[b], d)
      [] OTHER -> legs[b]
Released(x, d) == [x EXCEPT !.until = IF d <= x.checkin THEN x.checkin
                                      ELSE IF d < @ THEN d ELSE @]

\* A leg that cannot be had again comes back without its room.
OrNoRoom(b, i, l) == IF Fits(b, i, l) THEN l ELSE [l EXCEPT !.unit = NoUnit]

\* reclaimReleasedNights.
Stretched(b) ==
    [i \in Rows(b) |-> IF i \in LiveRows(b) /\ legs[b][i].to = bk[b].until
                       THEN OrNoRoom(b, i, [legs[b][i] EXCEPT !.to = bk[b].checkout])
                       ELSE legs[b][i]]

\* restoreReleasedLegs.
Restored(b) ==
    [i \in Rows(b) |-> IF legs[b][i].released = "last"
                       THEN OrNoRoom(b, i, [legs[b][i] EXCEPT !.released = "no"])
                       ELSE legs[b][i]]

Whole(x) == [x EXCEPT !.until = x.checkout, !.out = FALSE]

\* The guest of row i of b sleeps in u from d on; the nights before stay in the room they were.
Split(b, i, u, d) ==
    LET l == legs[b][i] IN
    IF d > l.from
    THEN Append([legs[b] EXCEPT ![i].to = d],
                [unit |-> u, from |-> d, to |-> l.to, released |-> "no"])
    ELSE [legs[b] EXCEPT ![i].unit = u]

\* What the two constraints let pass of it.
CanSplit(b, i, u, d) ==
    LET l == legs[b][i] IN
    IF d > l.from
    THEN /\ Len(legs[b]) < MaxLegs /\ FirstNightFree(b, 0, d)
         /\ ~TakenByGuest(u, d, l.to, b, i)
    ELSE Fits(b, i, [l EXCEPT !.unit = u])

Stray(b, i) == IF IsLive(legs[b][i]) THEN strayed ELSE strayed \cup {b}

-----------------------------------------------------------------------------
(* Bookings.                                                               *)

\* createWithin and create: with the room asked for (checkUnit looks at blocks only), or none.
Create(b, s, u) ==
    /\ bk[b].status = "none" /\ s[1] >= today
    /\ CanSell(s[1], s[2])
    /\ u # NoUnit => ~Blocked(u, s[1], s[2]) /\ ~TakenByGuest(u, s[1], s[2], b, 0)
    /\ bk' = [bk EXCEPT ![b] = [status |-> "Approved", checkin |-> s[1], checkout |-> s[2],
                                until |-> s[2], out |-> FALSE]]
    /\ legs' = [legs EXCEPT ![b] = <<[unit |-> u, from |-> s[1], to |-> s[2], released |-> "no"]>>]
    /\ UNCHANGED <<blocks, moves, req, blocking, today, strayed>>

Stayed == UNCHANGED <<blocks, moves, req, blocking, today, strayed>>

\* assertReadyForCheckIn: every leg gets a room, and tonight's is not blocked.
CheckIn(b) ==
    /\ bk[b].status = "Approved" /\ bk[b].checkin <= today /\ Unlocked(b)
    /\ \E unit \in [LiveRows(b) -> Units] :
           /\ \A i \in LiveRows(b) :
                  LET l == legs[b][i] IN
                  /\ IF l.unit = NoUnit THEN unit[i] \in FreeUnits(b, i, l.from, l.to)
                                        ELSE unit[i] = l.unit
                  /\ Overlaps(l, today, today + 1) => ~Blocked(unit[i], today, today + 1)
           /\ legs' = [legs EXCEPT ![b] = [i \in Rows(b) |->
                  IF i \in LiveRows(b) THEN [legs[b][i] EXCEPT !.unit = unit[i]] ELSE legs[b][i]]]
    /\ bk' = [bk EXCEPT ![b].status = "CheckedIn"]
    /\ Stayed

UndoCheckIn(b) ==
    /\ bk[b].status = "CheckedIn"
    /\ bk' = [bk EXCEPT ![b].status = "Approved"]
    /\ UNCHANGED legs /\ Stayed

\* Leaving early frees the room and the nights from today on.
CheckOut(b) ==
    /\ bk[b].status = "CheckedIn" /\ Unlocked(b)
    /\ LET early == today < bk[b].checkout
           x     == [bk[b] EXCEPT !.status = "CheckedOut", !.out = TRUE] IN
       /\ bk'   = [bk EXCEPT ![b] = IF early THEN Released(x, today) ELSE x]
       /\ legs' = [legs EXCEPT ![b] = IF early THEN LegsReleased(b, today) ELSE @]
    /\ Stayed

\* takeBackReleasedStay: the nights given back, or all of the stay when no leg is left.
TakeBack(b) ==
    LET x == bk[b]
        cut == x.checkin < x.until /\ x.until < x.checkout IN
    /\ cut \/ LiveRows(b) = {} => CanSell(x.until, x.checkout)
    /\ legs' = [legs EXCEPT ![b] = CASE cut -> Stretched(b)
                                     [] ~cut /\ LiveRows(b) = {} -> Restored(b)
                                     [] OTHER -> @]

UndoCheckOut(b) ==
    /\ bk[b].status = "CheckedOut" /\ bk[b].out /\ Unlocked(b)
    /\ TakeBack(b)
    /\ bk' = [bk EXCEPT ![b] = [Whole(@) EXCEPT !.status = "CheckedIn"]]
    /\ Stayed

Cancel(b) ==
    /\ bk[b].status = "Approved" /\ Unlocked(b)
    /\ legs' = [legs EXCEPT ![b] = LegsReleased(b, bk[b].checkin)]
    /\ bk' = [bk EXCEPT ![b] = [Released(@, bk[b].checkin) EXCEPT !.status = "Cancelled"]]
    /\ Stayed

\* releaseNoShow keeps the later of the arrival and today.
NoShow(b) ==
    /\ bk[b].status = "Approved" /\ Unlocked(b)
    /\ LET d == Later(today, bk[b].checkin) + 1 IN
       /\ legs' = [legs EXCEPT ![b] = IF d < bk[b].checkout THEN LegsReleased(b, d) ELSE @]
       /\ bk' = [bk EXCEPT ![b] = [(IF d < bk[b].checkout THEN Released(@, d) ELSE @)
                                       EXCEPT !.status = "NoShow"]]
    /\ Stayed

Reinstate(b) ==
    /\ bk[b].status \in {"Cancelled", "NoShow"} /\ bk[b].checkout > today /\ Unlocked(b)
    /\ CanSell(bk[b].until, bk[b].checkout)
    /\ legs' = [legs EXCEPT ![b] = CASE bk[b].status = "Cancelled" -> Restored(b)
                                     [] bk[b].status = "NoShow" /\ bk[b].until < bk[b].checkout
                                            -> Stretched(b)
                                     [] OTHER -> @]
    /\ bk' = [bk EXCEPT ![b] = [Whole(@) EXCEPT !.status = "Approved"]]
    /\ Stayed

\* amendWithin before arrival: not for a stay split across rooms; the room is kept, or all refused.
Amend(b, s) ==
    /\ bk[b].status = "Approved" /\ s # <<bk[b].checkin, bk[b].checkout>> /\ s[2] > today
    /\ Unlocked(b) /\ Cardinality(LiveRows(b)) <= 1
    /\ \A n \in s[1] .. s[2] - 1 : n \in Held(b) \/ CanSell(n, n + 1)
    /\ \A i \in LiveRows(b) :
           LET l == [legs[b][i] EXCEPT !.from = s[1], !.to = s[2]] IN
           /\ FirstNightFree(b, i, s[1]) /\ Fits(b, i, l)
           /\ l.unit # NoUnit => ~Blocked(l.unit, s[1], s[2])
    /\ legs' = [legs EXCEPT ![b] = [i \in Rows(b) |->
           IF i \in LiveRows(b) THEN [legs[b][i] EXCEPT !.from = s[1], !.to = s[2]] ELSE legs[b][i]]]
    /\ bk' = [bk EXCEPT ![b] = [@ EXCEPT !.checkin = s[1], !.checkout = s[2], !.until = s[2]]]
    /\ Stayed

\* changeDepartureWithin: the room is stretched over the nights added, blocked or not, ...
Extend(b, d) ==
    LET last == {i \in LiveRows(b) : legs[b][i].to = bk[b].checkout} IN
    /\ bk[b].status = "CheckedIn" /\ d > bk[b].checkout /\ d >= today /\ Unlocked(b)
    /\ CanSell(bk[b].checkout, d)
    /\ \A i \in last : Fits(b, i, [legs[b][i] EXCEPT !.to = d])
    /\ legs' = [legs EXCEPT ![b] = [i \in Rows(b) |->
           IF i \in last THEN [legs[b][i] EXCEPT !.to = d] ELSE legs[b][i]]]
    /\ bk' = [bk EXCEPT ![b].checkout = d, ![b].until = d]
    /\ Stayed

\* ... or freed from the new departure on.
Shorten(b, d) ==
    /\ bk[b].status = "CheckedIn" /\ bk[b].checkin < d /\ d < bk[b].checkout /\ d >= today
    /\ Unlocked(b)
    /\ legs' = [legs EXCEPT ![b] = CutLegs(@, d)]
    /\ bk' = [bk EXCEPT ![b].checkout = d, ![b].until = d]
    /\ Stayed

-----------------------------------------------------------------------------
(* Rooms.                                                                  *)

SetUnit(b, i, u) == legs' = [legs EXCEPT ![b][i].unit = u]

Unassign(b, i) ==
    /\ bk[b].status = "Approved" /\ Unlocked(b) /\ legs[b][i].unit # NoUnit
    /\ legs[b][i].from > today
    /\ SetUnit(b, i, NoUnit) /\ UNCHANGED bk /\ Stayed

\* autoAssign, leg by leg.
AutoAssign(b, i) ==
    /\ bk[b].status \in Live /\ Unlocked(b) /\ i \in LiveRows(b) /\ legs[b][i].unit = NoUnit
    /\ \E u \in FreeUnits(b, i, legs[b][i].from, legs[b][i].to) : SetUnit(b, i, u)
    /\ UNCHANGED bk /\ Stayed

\* switchToCleanRooms: another free room for a dirty one.
SwitchToClean(b, i) ==
    /\ bk[b].status = "Approved" /\ Unlocked(b) /\ i \in LiveRows(b) /\ legs[b][i].unit # NoUnit
    /\ \E u \in FreeUnits(b, i, legs[b][i].from, legs[b][i].to) \ {legs[b][i].unit} :
           SetUnit(b, i, u)
    /\ UNCHANGED bk /\ Stayed

\* exchange of two guests with the same dates.
Exchange(b, i, c, j) ==
    LET l == legs[b][i]
        m == legs[c][j] IN
    /\ b # c /\ Unlocked(b) /\ Unlocked(c)
    /\ i \in LiveRows(b) /\ j \in LiveRows(c) /\ l.unit # NoUnit /\ m.unit # NoUnit
    /\ l.from = m.from /\ l.to = m.to
    /\ ~Blocked(m.unit, l.from, l.to) /\ ~Blocked(l.unit, l.from, l.to)
    /\ legs' = [legs EXCEPT ![b][i].unit = m.unit, ![c][j].unit = l.unit]
    /\ UNCHANGED bk /\ Stayed

\* assign and move: loadAssignable reads the booking, ...
NoReq == [step |-> "idle", b |-> CHOOSE b \in Bookings : TRUE, i |-> 1, unit |-> NoUnit, date |-> 0,
          inHouse |-> FALSE]

Begin(b, i) ==
    /\ req.step = "idle" /\ bk[b].status \in Live /\ i \in Rows(b)
    /\ req' = [NoReq EXCEPT !.step = "loaded", !.b = b, !.i = i,
                            !.inHouse = bk[b].status = "CheckedIn"]
    /\ UNCHANGED <<bk, legs, blocks, moves, blocking, today, strayed>>

Asked == legs[req.b][req.i]
Ready(u, d) == ~Blocked(u, d, Asked.to) /\ ~TakenByGuest(u, d, Asked.to, req.b, req.i)
               /\ ~Promised(u, d, Asked.to)

\* Where a move begins: a guest in the house keeps the past, one who has not arrived has none.
FirstMoved == IF req.inHouse THEN Later(Asked.from, today) ELSE Asked.from
\* Broken: the day of departure counts as a night.
MoveOnLastDay(d) == today <= d /\ Asked.from <= d /\ d <= Asked.to

CanMoveOn(d) == today <= d /\ Asked.from <= d /\ d < Asked.to

\* ... the leg is locked and the destination looked at, for an assignment, a move without a date
\* or one of today.
Look(u, d) ==
    /\ req.step = "loaded"
    /\ \/ d = Asked.from /\ ~(req.inHouse /\ Asked.unit \notin {NoUnit, u})
       \/ Asked.unit # NoUnit /\ d = FirstMoved /\ (req.inHouse => CanMoveOn(d))
       \/ Asked.unit # NoUnit /\ d = today /\ CanMoveOn(d)
    /\ Ready(u, d)
    /\ req' = [req EXCEPT !.step = "checked", !.unit = u, !.date = d]
    /\ UNCHANGED <<bk, legs, blocks, moves, blocking, today, strayed>>

\* The write, if the constraints let it pass.
Write ==
    /\ req.step = "checked" /\ CanSplit(req.b, req.i, req.unit, req.date)
    /\ legs' = [legs EXCEPT ![req.b] = Split(req.b, req.i, req.unit, req.date)]
    /\ strayed' = IF req.date > legs[req.b][req.i].from THEN Stray(req.b, req.i) ELSE strayed
    /\ req' = NoReq
    /\ UNCHANGED <<bk, blocks, moves, blocking, today>>

\* A move for a later date is only noted.
PlanMove(u, d) ==
    /\ req.step = "loaded" /\ Asked.unit # NoUnit /\ d > today /\ CanMoveOn(d)
    /\ Ready(u, d)
    /\ Cardinality(moves) < MaxMoves
    /\ moves' = moves \cup {[b |-> req.b, leg |-> req.i, from |-> Asked.unit, to |-> u,
                              date |-> d]}
    /\ req' = NoReq
    /\ UNCHANGED <<bk, legs, blocks, blocking, today, strayed>>

Refuse ==
    /\ req.step # "idle"
    /\ req' = NoReq
    /\ UNCHANGED <<bk, legs, blocks, moves, blocking, today, strayed>>

StopMove(m) ==
    /\ moves' = moves \ {m}
    /\ UNCHANGED <<bk, legs, blocks, req, blocking, today, strayed>>

Due(m) == bk[m.b].status \in Live /\ m.date <= today

\* The move no longer fits the leg.
Outdated(m) == legs[m.b][m.leg].unit # m.from \/ legs[m.b][m.leg].to <= m.date

\* A later move of a leg that is split goes on from the new row.
Relinked(m, new) ==
    {IF h.b = m.b /\ h.leg = m.leg /\ h.date > m.date THEN [h EXCEPT !.leg = new] ELSE h :
        h \in moves \ {m}}

\* applyPlannedRoomMoves: a due move is made or stopped; one the constraints refuse stays planned.
ApplyMove(m) ==
    /\ Due(m) /\ Unlocked(m.b)
    /\ IF Outdated(m)
       THEN /\ moves' = moves \ {m}
            /\ UNCHANGED <<legs, strayed>>
       ELSE /\ CanSplit(m.b, m.leg, m.to, m.date)
            /\ legs' = [legs EXCEPT ![m.b] = Split(m.b, m.leg, m.to, m.date)]
            /\ moves' = IF m.date > legs[m.b][m.leg].from
                        THEN Relinked(m, Len(legs[m.b]) + 1) ELSE moves \ {m}
            /\ strayed' = Stray(m.b, m.leg)
    /\ UNCHANGED <<bk, blocks, req, blocking, today>>

-----------------------------------------------------------------------------
(* Blocks: the guests are looked at first, then the row is written.        *)

NoBlock == [unit |-> NoUnit, from |-> 1, to |-> 1]
NoBlocking == [old |-> NoBlock, new |-> NoBlock]

\* assertNoGuest.
NoGuest(x) == \A b \in Bookings : \A i \in LiveRows(b) :
                  ~(legs[b][i].unit = x.unit /\ Overlaps(x, legs[b][i].from, legs[b][i].to))

\* create (old is NoBlock), and update, which keeps the row locked.
BeginBlock(old, x) ==
    /\ blocking = NoBlocking
    /\ NoGuest(x)
    /\ blocking' = [old |-> old, new |-> x]
    /\ UNCHANGED <<bk, legs, blocks, moves, req, today, strayed>>

\* maintenance_blocks_no_overlap, and a room of the counter for each night.
CanWriteBlock ==
    LET x == blocking.new
        others == blocks \ {blocking.old} IN
    /\ \A y \in others : y.unit = x.unit => ~Overlaps(y, x.from, x.to)
    /\ \A n \in x.from .. x.to - 1 :
           Sold(n) - (IF blocking.old \in blocks /\ Overlaps(blocking.old, n, n + 1) THEN 1 ELSE 0)
               < Cardinality(Units)

WriteBlock ==
    /\ blocking # NoBlocking
    /\ blocks' = IF CanWriteBlock THEN (blocks \ {blocking.old}) \cup {blocking.new} ELSE blocks
    /\ blocking' = NoBlocking
    /\ UNCHANGED <<bk, legs, moves, req, today, strayed>>

LiftBlock(x) ==
    /\ x # blocking.old
    /\ blocks' = blocks \ {x}
    /\ UNCHANGED <<bk, legs, moves, req, blocking, today, strayed>>

Midnight ==
    /\ today < Horizon
    /\ today' = today + 1
    /\ bk' = [b \in Bookings |-> [bk[b] EXCEPT !.out = FALSE]]
    /\ UNCHANGED <<legs, blocks, moves, req, blocking, strayed>>

-----------------------------------------------------------------------------
Init ==
    /\ bk = [b \in Bookings |-> [status |-> "none", checkin |-> 1, checkout |-> 1, until |-> 1,
                                 out |-> FALSE]]
    /\ legs = [b \in Bookings |-> <<>>]
    /\ blocks = {} /\ moves = {}
    /\ req = NoReq /\ blocking = NoBlocking
    /\ today = 1 /\ strayed = {}

Stay(b) ==
    \/ CheckIn(b) \/ CheckOut(b) \/ UndoCheckOut(b)
    \/ \E s \in Stays[b], u \in Units \cup {NoUnit} : Create(b, s, u)

ByHand(b) ==
    \/ UndoCheckIn(b) \/ Cancel(b) \/ NoShow(b) \/ Reinstate(b)
    \/ \E s \in Stays[b] : Amend(b, s)
    \/ \E d \in Dates : Extend(b, d) \/ Shorten(b, d)
    \/ \E i \in Rows(b) : Unassign(b, i) \/ AutoAssign(b, i) \/ SwitchToClean(b, i)
    \/ \E c \in Bookings : \E i \in Rows(b), j \in Rows(c) : Exchange(b, i, c, j)
    \/ \E i \in Rows(b) : Begin(b, i)

Sweep == \E m \in moves : ApplyMove(m)

Next ==
    \/ \E b \in Bookings : Stay(b)
    \/ \E b \in Handled : ByHand(b)
    \/ \E u \in Units, d \in Nights : Look(u, d) \/ PlanMove(u, d)
    \/ Write \/ Refuse
    \/ \E m \in moves : StopMove(m)
    \/ Sweep
    \/ \E u \in Units, s \in BlockSpans, old \in blocks \cup {NoBlock} :
           /\ old.unit \in {u, NoUnit}
           /\ BeginBlock(old, [unit |-> u, from |-> s[1], to |-> s[2]])
    \/ WriteBlock
    \/ \E x \in blocks : LiftBlock(x)
    \/ Midnight

Spec == Init /\ [][Next]_vars

-----------------------------------------------------------------------------
(* Properties.                                                             *)

\* The rows are well formed, and no leg, after any split, cut or move, is without a night.
TypeOK ==
    /\ bk \in [Bookings -> Booking]
    /\ \A b \in Bookings : legs[b] \in Seq(Leg) /\ Len(legs[b]) <= MaxLegs
    /\ \A b \in Bookings : \A i \in Rows(b) : legs[b][i].from < legs[b][i].to
    /\ blocks \subseteq Block
    /\ moves \subseteq Move /\ Cardinality(moves) <= MaxMoves
    /\ req \in [step : {"idle", "loaded", "checked"}, b : Bookings, i : 1 .. MaxLegs,
                unit : Units \cup {NoUnit}, date : 0 .. Horizon, inHouse : BOOLEAN]
    /\ blocking.old \in Block \cup {NoBlock} /\ blocking.new \in Block \cup {NoBlock}
    /\ today \in Nights
    /\ strayed \subseteq Bookings

\* The legs in force say of every night a booking holds in which one room it is slept, and keep
\* no room on any other night (Split, CutLegs, LegsReleased, Stretched, Restored), whatever the
\* desk cancels, undoes, moves and cuts; but for a leg the sweep or a late request moved after
\* it had been freed.
NightsHaveOneLeg ==
    \A b \in Bookings \ strayed, n \in Nights :
        Cardinality({i \in LiveRows(b) : Overlaps(legs[b][i], n, n + 1)})
            = (IF n \in Held(b) THEN 1 ELSE 0)

Clash(u, n) == /\ \E b \in Bookings : \E i \in LiveRows(b) :
                      legs[b][i].unit = u /\ Overlaps(legs[b][i], n, n + 1)
               /\ Blocked(u, n, n + 1)

\* A guest and a block come to share a room and a night only when their requests pass each other,
\* or when a stay is extended, taken back or moved by the sweep, which look at no block.
ClashesAreKnown ==
    [][\A u \in Units, n \in Nights : Clash(u, n)' /\ ~Clash(u, n) =>
          \/ Write \/ WriteBlock \/ Sweep
          \/ \E b \in Bookings : UndoCheckOut(b) \/ Reinstate(b) \/ \E d \in Dates : Extend(b, d)]_vars
=============================================================================
