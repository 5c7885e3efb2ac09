---------------------------- MODULE RoomsProofs ----------------------------
(***************************************************************************)
(* Rooms for any bookings, rooms, stays and spans of blocks: the rows stay *)
(* well formed, the live legs of a booking tile the nights it holds, and   *)
(* only the steps that look at no block can bring a guest and a block      *)
(* together.                                                               *)
(*                                                                         *)
(* The invariant says, for a booking no freed leg of which was moved, that *)
(* its live legs tile the nights from its arrival to where it still holds  *)
(* them, and that the legs its last release freed tile the whole stay when *)
(* that release was of the whole stay, for these are the rows an undo      *)
(* brings back.  A request that has looked still fits the leg it has       *)
(* locked.                                                                 *)
(***************************************************************************)
EXTENDS Rooms, FiniteSetTheorems, TLAPS

-----------------------------------------------------------------------------
(* The inductive invariant.                                                *)

\* Leg rows no one of which is without a night.
LegRows == {ls \in Seq(Leg) : Len(ls) <= MaxLegs /\ \A i \in DOMAIN ls : ls[i].from < ls[i].to}

LiveIn(ls) == {i \in DOMAIN ls : IsLive(ls[i])}
LastIn(ls) == {i \in DOMAIN ls : ls[i].released = "last"}

\* The rows S of ls say of each night between the two dates, and of no other, in which one room
\* it is slept.
Tiles(ls, S, from, to) ==
    /\ \A i \in S : from <= ls[i].from /\ ls[i].to <= to
    /\ \A n \in from .. to - 1 : \E i \in S : Overlaps(ls[i], n, n + 1)
    /\ \A i, j \in S : i # j => ~Overlaps(ls[i], ls[j].from, ls[j].to)

\* The dates of a booking row.
Dated(x) ==
    /\ x.status # "none" => x.checkin < x.checkout /\ x.checkin <= x.until /\ x.until <= x.checkout
    /\ x.status \in Live => x.until = x.checkout
    /\ x.status = "NoShow" => x.checkin < x.until

\* The legs of a booking: those in force, and those an undo would bring back.
Slept(x, ls) ==
    /\ x.status \notin {"none", "Cancelled"} => Tiles(ls, LiveIn(ls), x.checkin, x.until)
    /\ x.status = "Cancelled" => LiveIn(ls) = {}
    /\ x.status = "Cancelled" \/ (x.status = "CheckedOut" /\ x.until = x.checkin)
           => Tiles(ls, LastIn(ls), x.checkin, x.checkout)

Rowed ==
    /\ legs \in [Bookings -> LegRows]
    /\ \A b \in Bookings : /\ Dated(bk[b])
                           /\ bk[b].status = "none" => legs[b] = <<>>
                           /\ b \notin strayed => Slept(bk[b], legs[b])

\* The row a request asked for, and its dates once the leg is locked.
Requested ==
    /\ req.step # "idle" => req.i \in Rows(req.b)
    /\ req.step = "checked" => /\ req.unit \in Units
                               /\ Asked.from <= req.date /\ req.date < Asked.to

Planned == IsFiniteSet(moves) /\ \A m \in moves : m.leg \in Rows(m.b)

Barred == blocking = NoBlocking \/ blocking.new \in Block

IInv == TypeOK /\ Rowed /\ Requested /\ Planned /\ Barred

-----------------------------------------------------------------------------
(* Rows.                                                                   *)

LEMMA DatesAreIntegers ==
    /\ Horizon \in Nat /\ Horizon >= 1 /\ Dates \subseteq Nat /\ Nights \subseteq Dates
    /\ \A d \in Dates : d \in Int /\ 1 <= d /\ d <= Horizon + 1
    /\ \A d \in Int : 1 <= d /\ d <= Horizon + 1 => d \in Dates
BY RoomsAssumption DEF Dates, Nights

LEMMA LegFacts ==
    ASSUME NEW l \in Leg
    PROVE  /\ l.from \in Int /\ l.to \in Int /\ l.from \in Dates /\ l.to \in Dates
           /\ l.unit \in Units \cup {NoUnit} /\ l.released \in {"no", "last", "before"}
           /\ l = [unit |-> l.unit, from |-> l.from, to |-> l.to, released |-> l.released]
BY DatesAreIntegers DEF Leg

\* One field of a leg is written.
LEMMA LegReleased ==
    ASSUME NEW l \in Leg, NEW r \in {"no", "last", "before"},
           NEW m, m = [l EXCEPT !.released = r]
    PROVE  /\ m \in Leg /\ m.released = r
           /\ m.unit = l.unit /\ m.from = l.from /\ m.to = l.to
BY DEF Leg

LEMMA LegCut ==
    ASSUME NEW l \in Leg, NEW d \in Dates,
           NEW m, m = [l EXCEPT !.to = d]
    PROVE  /\ m \in Leg /\ m.to = d
           /\ m.unit = l.unit /\ m.from = l.from /\ m.released = l.released
BY DEF Leg

LEMMA LegRoomed ==
    ASSUME NEW l \in Leg, NEW u \in Units \cup {NoUnit},
           NEW m, m = [l EXCEPT !.unit = u]
    PROVE  /\ m \in Leg /\ m.unit = u
           /\ m.from = l.from /\ m.to = l.to /\ m.released = l.released
BY DEF Leg

LEMMA RowFacts ==
    ASSUME NEW ls \in LegRows
    PROVE  /\ Len(ls) \in Nat /\ Len(ls) <= MaxLegs /\ DOMAIN ls = 1 .. Len(ls)
           /\ ls \in [1 .. Len(ls) -> Leg]
           /\ \A i \in DOMAIN ls : ls[i] \in Leg /\ ls[i].from < ls[i].to
           /\ LiveIn(ls) \subseteq DOMAIN ls /\ LastIn(ls) \subseteq DOMAIN ls
           /\ \A i \in DOMAIN ls : i \in Int
BY DEF LegRows, LiveIn, LastIn

\* A function over the rows is a sequence of rows.
LEMMA SeqOf ==
    ASSUME NEW n \in Nat, NEW f \in [1 .. n -> Leg]
    PROVE  f \in Seq(Leg) /\ Len(f) = n
OBVIOUS

LEMMA RowsOf ==
    ASSUME NEW ls \in LegRows, NEW ms, ms = [i \in DOMAIN ls |-> ms[i]],
           \A i \in DOMAIN ls : ms[i] \in Leg /\ ms[i].from < ms[i].to
    PROVE  ms \in LegRows /\ Len(ms) = Len(ls) /\ DOMAIN ms = DOMAIN ls
<1>1. DOMAIN ls = 1 .. Len(ls) /\ Len(ls) \in Nat /\ Len(ls) <= MaxLegs
  BY RowFacts
<1>2. ms \in [1 .. Len(ls) -> Leg]
  BY <1>1
<1>3. ms \in Seq(Leg)
  BY <1>1, <1>2
<1>4. Len(ms) = Len(ls) /\ DOMAIN ms = DOMAIN ls
  BY <1>1, <1>2, <1>3
<1>5. QED
  BY <1>1, <1>3, <1>4 DEF LegRows

\* Only what the dates and the releases say matters to the nights.
LEMMA SameTiles ==
    ASSUME NEW ls, NEW ms, NEW S, NEW a, NEW e, Tiles(ls, S, a, e),
           \A i \in S : ms[i].from = ls[i].from /\ ms[i].to = ls[i].to
    PROVE  Tiles(ms, S, a, e)
<1>1. \A i \in S : a <= ms[i].from /\ ms[i].to <= e
  BY DEF Tiles
<1>2. \A n \in a .. e - 1 : \E i \in S : Overlaps(ms[i], n, n + 1)
  BY DEF Tiles, Overlaps
<1>3. \A i, j \in S : i # j => ~Overlaps(ms[i], ms[j].from, ms[j].to)
  BY DEF Tiles, Overlaps
<1>4. QED
  BY <1>1, <1>2, <1>3 DEF Tiles

LEMMA SameSlept ==
    ASSUME NEW ls, NEW ms, NEW x, NEW y, Slept(x, ls),
           DOMAIN ms = DOMAIN ls,
           \A i \in DOMAIN ls : /\ ms[i].from = ls[i].from /\ ms[i].to = ls[i].to
                                /\ ms[i].released = ls[i].released,
           \/ y.status = x.status
           \/ x.status \in Live /\ y.status \in Live,
           y.checkin = x.checkin, y.checkout = x.checkout, y.until = x.until
    PROVE  Slept(y, ms)
<1>1. LiveIn(ms) = LiveIn(ls) /\ LastIn(ms) = LastIn(ls)
  BY DEF LiveIn, LastIn, IsLive
<1>2. LiveIn(ls) \subseteq DOMAIN ls /\ LastIn(ls) \subseteq DOMAIN ls
  BY DEF LiveIn, LastIn
<1>3. \A a, e : /\ Tiles(ls, LiveIn(ls), a, e) => Tiles(ms, LiveIn(ms), a, e)
                /\ Tiles(ls, LastIn(ls), a, e) => Tiles(ms, LastIn(ms), a, e)
  BY <1>1, <1>2, SameTiles
<1>4. QED
  BY <1>1, <1>3 DEF Slept, Live

\* Freeing the rows S.
LEMMA ReleaseFrees ==
    ASSUME NEW ls \in LegRows, NEW S, S \subseteq LiveIn(ls), NEW ms, ms = Release(ls, S)
    PROVE  /\ ms \in LegRows /\ DOMAIN ms = DOMAIN ls /\ Len(ms) = Len(ls)
           /\ \A i \in DOMAIN ls : /\ ms[i].from = ls[i].from /\ ms[i].to = ls[i].to
                                   /\ ms[i].unit = ls[i].unit
           /\ LiveIn(ms) = LiveIn(ls) \ S
           /\ S # {} => LastIn(ms) = S
           /\ S = {} => ms = ls
<1>1. /\ DOMAIN ms = DOMAIN ls /\ ms = [i \in DOMAIN ls |-> ms[i]]
      /\ \A i \in DOMAIN ls :
             ms[i] = CASE i \in S                            -> [ls[i] EXCEPT !.released = "last"]
                       [] S # {} /\ ls[i].released = "last" -> [ls[i] EXCEPT !.released = "before"]
                       [] OTHER                              -> ls[i]
  BY DEF Release
<1>2. \A i \in DOMAIN ls : ls[i] \in Leg /\ ls[i].from < ls[i].to
  BY RowFacts
<1>3. ASSUME NEW i \in DOMAIN ls
      PROVE  /\ ms[i] \in Leg /\ ms[i].from = ls[i].from /\ ms[i].to = ls[i].to
             /\ ms[i].unit = ls[i].unit
             /\ i \in S => ms[i].released = "last"
             /\ i \notin S /\ S # {} /\ ls[i].released = "last" => ms[i].released = "before"
             /\ i \notin S /\ ~(S # {} /\ ls[i].released = "last") => ms[i] = ls[i]
  <2>1. CASE i \in S
    <3>1. ls[i].released = "no"
      BY <2>1 DEF LiveIn, IsLive
    <3>2. ms[i] = [ls[i] EXCEPT !.released = "last"]
      BY <1>1, <2>1, <3>1
    <3>3. /\ ms[i] \in Leg /\ ms[i].released = "last" /\ ms[i].unit = ls[i].unit
          /\ ms[i].from = ls[i].from /\ ms[i].to = ls[i].to
      BY <1>2, <3>2, LegReleased
    <3>4. QED
      BY <1>2, <2>1, <3>1, <3>3
  <2>2. CASE i \notin S /\ S # {} /\ ls[i].released = "last"
    <3>1. ms[i] = [ls[i] EXCEPT !.released = "before"]
      BY <1>1, <2>2
    <3>2. /\ ms[i] \in Leg /\ ms[i].released = "before" /\ ms[i].unit = ls[i].unit
          /\ ms[i].from = ls[i].from /\ ms[i].to = ls[i].to
      BY <1>2, <3>1, LegReleased
    <3>3. QED
      BY <1>2, <2>2, <3>2
  <2>3. CASE i \notin S /\ ~(S # {} /\ ls[i].released = "last")
    <3>1. ms[i] = ls[i]
      BY <1>1, <2>3
    <3>2. QED
      BY <1>2, <2>3, <3>1
  <2>4. QED
    BY <2>1, <2>2, <2>3
<1>4. ms \in LegRows /\ Len(ms) = Len(ls)
  BY <1>1, <1>2, <1>3, RowsOf
<1>5. LiveIn(ms) = LiveIn(ls) \ S
  BY <1>1, <1>3 DEF LiveIn, IsLive
<1>6. S # {} => LastIn(ms) = S
  BY <1>1, <1>3 DEF LastIn, LiveIn
<1>7. S = {} => ms = ls
  <2>1. ls = [i \in DOMAIN ls |-> ls[i]]
    BY DEF LegRows
  <2>2. SUFFICES ASSUME S = {} PROVE ms = ls
    OBVIOUS
  <2>3. \A i \in DOMAIN ls : ms[i] = ls[i]
    BY <1>3, <2>2
  <2>4. QED
    BY <1>1, <2>1, <2>3
<1>8. QED
  BY <1>1, <1>3, <1>4, <1>5, <1>6, <1>7

\* Cutting the legs off at d.
IsCut(ls, d, ms) ==
    /\ ms \in LegRows /\ DOMAIN ms = DOMAIN ls /\ Len(ms) = Len(ls)
    /\ \A i \in DOMAIN ls :
           /\ ms[i].from = ls[i].from /\ ms[i].unit = ls[i].unit
           /\ IsLive(ms[i]) <=> (IsLive(ls[i]) /\ ls[i].from < d)
           /\ IsLive(ms[i]) => ms[i].to = IF ls[i].to > d THEN d ELSE ls[i].to

LEMMA CutEnds ==
    ASSUME NEW ls \in LegRows, NEW d \in Dates
    PROVE  IsCut(ls, d, CutLegs(ls, d))
<1>0. SUFFICES ASSUME NEW ms, ms = CutLegs(ls, d) PROVE IsCut(ls, d, ms)
  OBVIOUS
<1> DEFINE S  == {i \in DOMAIN ls : IsLive(ls[i]) /\ ls[i].from >= d}
           fr == Release(ls, S)
<1>1. S \subseteq LiveIn(ls)
  BY DEF LiveIn
<1>2. ms = [i \in DOMAIN ls |-> IF IsLive(fr[i]) /\ fr[i].to > d
                                THEN [fr[i] EXCEPT !.to = d] ELSE fr[i]]
  BY <1>0 DEF CutLegs
<1>3. \A i \in DOMAIN ls : ls[i] \in Leg /\ ls[i].from < ls[i].to
  BY RowFacts
<1>4. /\ fr \in LegRows /\ DOMAIN fr = DOMAIN ls
      /\ \A i \in DOMAIN ls : /\ fr[i].from = ls[i].from /\ fr[i].to = ls[i].to
                              /\ fr[i].unit = ls[i].unit
      /\ LiveIn(fr) = LiveIn(ls) \ S
  BY <1>1, ReleaseFrees
<1>5. \A i \in DOMAIN ls : fr[i] \in Leg
  BY <1>4, RowFacts
<1>6. ASSUME NEW i \in DOMAIN ls
      PROVE  IsLive(fr[i]) <=> IsLive(ls[i]) /\ ls[i].from < d
  <2>1. i \in LiveIn(fr) <=> i \in LiveIn(ls) /\ i \notin S
    BY <1>4
  <2>2. IsLive(fr[i]) <=> IsLive(ls[i]) /\ ~(IsLive(ls[i]) /\ ls[i].from >= d)
    BY <1>4, <2>1 DEF LiveIn
  <2>3. ls[i].from \in Int /\ d \in Int
    BY <1>3, LegFacts, DatesAreIntegers
  <2>4. QED
    BY <2>2, <2>3 DEF IsLive
<1> HIDE DEF S, fr
<1>7. ASSUME NEW i \in DOMAIN ls
      PROVE  /\ ms[i] \in Leg /\ ms[i].from = ls[i].from /\ ms[i].unit = ls[i].unit
             /\ ms[i].from < ms[i].to
             /\ IsLive(ms[i]) <=> IsLive(ls[i]) /\ ls[i].from < d
             /\ IsLive(ms[i]) => ms[i].to = IF ls[i].to > d THEN d ELSE ls[i].to
  <2>1. /\ ls[i].from \in Int /\ ls[i].to \in Int /\ d \in Int /\ ls[i].from < ls[i].to
        /\ fr[i].from = ls[i].from /\ fr[i].to = ls[i].to /\ fr[i].unit = ls[i].unit
        /\ fr[i] \in Leg
    BY <1>3, <1>4, <1>5, LegFacts, DatesAreIntegers
  <2>2. CASE IsLive(fr[i]) /\ fr[i].to > d
    <3>1. ms[i] = [fr[i] EXCEPT !.to = d]
      BY <1>2, <2>2
    <3>2. /\ ms[i] \in Leg /\ ms[i].to = d /\ ms[i].unit = fr[i].unit
          /\ ms[i].from = fr[i].from /\ ms[i].released = fr[i].released
      BY <2>1, <3>1, LegCut
    <3>3. QED
      BY <1>6, <2>1, <2>2, <3>2 DEF IsLive
  <2>3. CASE ~(IsLive(fr[i]) /\ fr[i].to > d)
    <3>1. ms[i] = fr[i]
      BY <1>2, <2>3
    <3>2. QED
      BY <1>6, <2>1, <2>3, <3>1
  <2>4. QED
    BY <2>2, <2>3
<1>8. ms = [i \in DOMAIN ls |-> ms[i]]
  BY <1>2
<1>9. ms \in LegRows /\ DOMAIN ms = DOMAIN ls /\ Len(ms) = Len(ls)
  BY <1>7, <1>8, RowsOf
<1>10. QED
  BY <1>7, <1>9 DEF IsCut

\* What is left tiles the nights before the cut.
LEMMA CutTiles ==
    ASSUME NEW ls \in LegRows, NEW a \in Dates, NEW e \in Dates, NEW d \in Dates,
           Tiles(ls, LiveIn(ls), a, e), d <= e, NEW ms, ms = CutLegs(ls, d)
    PROVE  Tiles(ms, LiveIn(ms), a, d)
<1>1. /\ ms \in LegRows /\ DOMAIN ms = DOMAIN ls
      /\ \A i \in DOMAIN ls : ms[i].from = ls[i].from
      /\ \A i \in DOMAIN ls : IsLive(ms[i]) <=> IsLive(ls[i]) /\ ls[i].from < d
      /\ \A i \in DOMAIN ls : IsLive(ms[i]) =>
             ms[i].to = IF ls[i].to > d THEN d ELSE ls[i].to
  <2>1. IsCut(ls, d, ms)
    BY CutEnds
  <2>2. QED
    BY <2>1 DEF IsCut
<1>2. \A i \in LiveIn(ms) :
          /\ i \in LiveIn(ls) /\ ms[i].from = ls[i].from /\ ls[i].from < d
          /\ ls[i].from \in Int /\ ls[i].to \in Int
          /\ ms[i].to = IF ls[i].to > d THEN d ELSE ls[i].to
  BY <1>1, RowFacts, LegFacts DEF LiveIn
<1>3. a \in Int /\ e \in Int /\ d \in Int
  BY DatesAreIntegers
<1>4. \A i \in LiveIn(ms) : a <= ms[i].from /\ ms[i].to <= d
  BY <1>2, <1>3 DEF Tiles
<1>5. ASSUME NEW n \in a .. d - 1
      PROVE  \E i \in LiveIn(ms) : Overlaps(ms[i], n, n + 1)
  <2>1. n \in a .. e - 1 /\ n \in Int /\ n < d
    BY <1>3
  <2>2. PICK i \in LiveIn(ls) : Overlaps(ls[i], n, n + 1)
    BY <2>1 DEF Tiles
  <2>3. ls[i].from \in Int /\ ls[i].to \in Int /\ i \in DOMAIN ls /\ IsLive(ls[i])
    BY RowFacts, LegFacts DEF LiveIn
  <2>4. ls[i].from <= n /\ n < ls[i].to
    BY <2>1, <2>2, <2>3 DEF Overlaps
  <2>5. i \in LiveIn(ms)
    BY <1>1, <1>3, <2>1, <2>3, <2>4 DEF LiveIn
  <2>6. Overlaps(ms[i], n, n + 1)
    BY <1>2, <1>3, <2>1, <2>3, <2>4, <2>5 DEF Overlaps
  <2>7. QED
    BY <2>5, <2>6
<1>6. ASSUME NEW i \in LiveIn(ms), NEW j \in LiveIn(ms), i # j
      PROVE  ~Overlaps(ms[i], ms[j].from, ms[j].to)
  <2>1. ~(ls[i].from < ls[j].to /\ ls[j].from < ls[i].to)
    BY <1>2, <1>6 DEF Tiles, Overlaps
  <2>2. QED
    BY <1>2, <1>3, <2>1 DEF Overlaps
<1>7. QED
  BY <1>4, <1>5, <1>6 DEF Tiles

\* Letting the leg that ends at e run on to g.
LEMMA StretchTiles ==
    ASSUME NEW ls \in LegRows, NEW ms \in LegRows, DOMAIN ms = DOMAIN ls,
           NEW a \in Dates, NEW e \in Dates, NEW g \in Dates, a < e, e <= g,
           Tiles(ls, LiveIn(ls), a, e),
           \A i \in DOMAIN ls :
               /\ ms[i].from = ls[i].from
               /\ IsLive(ms[i]) <=> IsLive(ls[i])
               /\ IsLive(ls[i]) => ms[i].to = IF ls[i].to = e THEN g ELSE ls[i].to
    PROVE  Tiles(ms, LiveIn(ms), a, g)
<1>1. LiveIn(ms) = LiveIn(ls)
  BY DEF LiveIn
<1>2. \A i \in LiveIn(ls) :
          /\ ls[i].from \in Int /\ ls[i].to \in Int /\ ls[i].from < ls[i].to
          /\ a <= ls[i].from /\ ls[i].to <= e
          /\ ms[i].from = ls[i].from /\ ms[i].to = IF ls[i].to = e THEN g ELSE ls[i].to
  BY RowFacts, LegFacts DEF LiveIn, Tiles
<1>3. a \in Int /\ e \in Int /\ g \in Int
  BY DatesAreIntegers
<1>4. \A i \in LiveIn(ms) : a <= ms[i].from /\ ms[i].to <= g
  BY <1>1, <1>2, <1>3
<1>5. ASSUME NEW n \in a .. g - 1
      PROVE  \E i \in LiveIn(ms) : Overlaps(ms[i], n, n + 1)
  <2> DEFINE k == IF n < e THEN n ELSE e - 1
  <2>1. k \in a .. e - 1 /\ k \in Int /\ n \in Int /\ n < g /\ k <= n
        /\ (n < e => k = n) /\ (n >= e => k = e - 1)
    BY <1>3
  <2> HIDE DEF k
  <2>2. PICK i \in LiveIn(ls) : Overlaps(ls[i], k, k + 1)
    BY <2>1 DEF Tiles
  <2>3. ls[i].from <= k /\ k < ls[i].to
    BY <1>2, <2>1, <2>2 DEF Overlaps
  <2>4. ms[i].from <= n /\ n < ms[i].to /\ ms[i].from \in Int /\ ms[i].to \in Int
    BY <1>2, <1>3, <2>1, <2>3
  <2>5. QED
    BY <1>1, <2>1, <2>4 DEF Overlaps
<1>6. ASSUME NEW i \in LiveIn(ms), NEW j \in LiveIn(ms), i # j
      PROVE  ~Overlaps(ms[i], ms[j].from, ms[j].to)
  <2>1. ~(ls[i].from < ls[j].to /\ ls[j].from < ls[i].to)
    BY <1>1, <1>6 DEF Tiles, Overlaps
  <2>2. QED
    BY <1>1, <1>2, <1>3, <2>1 DEF Overlaps
<1>7. QED
  BY <1>4, <1>5, <1>6 DEF Tiles

\* A leg split at d, or given another room.
SplitRows(ls, i, u, d) ==
    IF d > ls[i].from
    THEN Append([ls EXCEPT ![i].to = d],
                [unit |-> u, from |-> d, to |-> ls[i].to, released |-> "no"])
    ELSE [ls EXCEPT ![i].unit = u]

IsReRoomed(ls, i, u, ms) ==
    /\ ms \in LegRows /\ DOMAIN ms = DOMAIN ls /\ Len(ms) = Len(ls)
    /\ \A k \in DOMAIN ls : /\ ms[k].from = ls[k].from /\ ms[k].to = ls[k].to
                            /\ ms[k].released = ls[k].released
                            /\ ms[k].unit = IF k = i THEN u ELSE ls[k].unit

LEMMA ReRoomed ==
    ASSUME NEW ls \in LegRows, NEW i \in DOMAIN ls, NEW u \in Units \cup {NoUnit}
    PROVE  IsReRoomed(ls, i, u, [ls EXCEPT ![i].unit = u])
<1>0. SUFFICES ASSUME NEW ms, ms = [ls EXCEPT ![i].unit = u] PROVE IsReRoomed(ls, i, u, ms)
  OBVIOUS
<1>1. \A k \in DOMAIN ls : ls[k] \in Leg /\ ls[k].from < ls[k].to
  BY RowFacts
<1>2. /\ ms = [k \in DOMAIN ls |-> ms[k]]
      /\ ms[i] = [ls[i] EXCEPT !.unit = u]
      /\ \A k \in DOMAIN ls : k # i => ms[k] = ls[k]
  BY <1>0, RowFacts
<1>3. /\ ms[i] \in Leg /\ ms[i].unit = u
      /\ ms[i].from = ls[i].from /\ ms[i].to = ls[i].to /\ ms[i].released = ls[i].released
  BY <1>1, <1>2, LegRoomed
<1>4. \A k \in DOMAIN ls : /\ ms[k] \in Leg /\ ms[k].from < ms[k].to
                           /\ ms[k].from = ls[k].from /\ ms[k].to = ls[k].to
                           /\ ms[k].released = ls[k].released
                           /\ ms[k].unit = IF k = i THEN u ELSE ls[k].unit
  BY <1>1, <1>2, <1>3
<1>5. ms \in LegRows /\ DOMAIN ms = DOMAIN ls /\ Len(ms) = Len(ls)
  <2>1. Len(ls) \in Nat /\ DOMAIN ls = 1 .. Len(ls) /\ Len(ls) <= MaxLegs
    BY RowFacts
  <2>2. DOMAIN ms = DOMAIN ls
    BY <1>2
  <2>3. ms \in [1 .. Len(ls) -> Leg]
    BY <1>2, <1>4, <2>1
  <2>4. ms \in Seq(Leg) /\ Len(ms) = Len(ls)
    BY <2>1, <2>3, SeqOf
  <2>5. QED
    BY <1>4, <2>1, <2>2, <2>4 DEF LegRows
<1>6. QED
  BY <1>4, <1>5 DEF IsReRoomed

IsSplit(ls, i, u, d, ms) ==
    LET k == Len(ls) + 1 IN
    /\ ms \in LegRows /\ DOMAIN ms = DOMAIN ls \cup {k} /\ k \notin DOMAIN ls
    /\ Len(ms) = k /\ k \in 1 .. MaxLegs
    /\ ms[k] = [unit |-> u, from |-> d, to |-> ls[i].to, released |-> "no"]
    /\ ms[i].to = d /\ ms[i].from = ls[i].from /\ ms[i].released = ls[i].released
    /\ ms[i].unit = ls[i].unit
    /\ \A j \in DOMAIN ls \ {i} : ms[j] = ls[j]

LEMMA SplitEnds ==
    ASSUME NEW ls \in LegRows, NEW i \in DOMAIN ls, NEW u \in Units, NEW d \in Dates,
           d > ls[i].from, d < ls[i].to, Len(ls) < MaxLegs
    PROVE  IsSplit(ls, i, u, d, SplitRows(ls, i, u, d))
<1>0. SUFFICES ASSUME NEW ms, ms = SplitRows(ls, i, u, d), NEW k, k = Len(ls) + 1
               PROVE  IsSplit(ls, i, u, d, ms)
  OBVIOUS
<1> DEFINE rs == [ls EXCEPT ![i].to = d]
           l  == [unit |-> u, from |-> d, to |-> ls[i].to, released |-> "no"]
<1>1. \A j \in DOMAIN ls : ls[j] \in Leg /\ ls[j].from < ls[j].to
  BY RowFacts
<1>2. /\ rs = [j \in DOMAIN ls |-> rs[j]] /\ rs[i] = [ls[i] EXCEPT !.to = d]
      /\ \A j \in DOMAIN ls \ {i} : rs[j] = ls[j]
  BY RowFacts
<1>3. /\ rs[i] \in Leg /\ rs[i].to = d /\ rs[i].unit = ls[i].unit
      /\ rs[i].from = ls[i].from /\ rs[i].released = ls[i].released
  <2> HIDE DEF rs
  <2>1. QED
    BY <1>1, <1>2, LegCut
<1>4. l \in Leg /\ l.from < l.to
  BY <1>1, LegFacts DEF Leg
<1>5. ms = Append(rs, l)
  BY <1>0 DEF SplitRows
<1> HIDE DEF rs, l
<1>6. rs \in LegRows /\ DOMAIN rs = DOMAIN ls /\ Len(rs) = Len(ls)
  <2>1. \A j \in DOMAIN ls : rs[j] \in Leg /\ rs[j].from < rs[j].to
    BY <1>1, <1>2, <1>3
  <2>2. QED
    BY <1>2, <2>1, RowsOf
<1>7. /\ rs \in Seq(Leg) /\ Len(rs) \in Nat /\ DOMAIN rs = 1 .. Len(rs)
      /\ \A j \in DOMAIN rs : rs[j].from < rs[j].to
      /\ Len(ls) \in Nat /\ DOMAIN ls = 1 .. Len(ls)
  BY <1>6, RowFacts DEF LegRows
<1>8. /\ ms \in Seq(Leg) /\ Len(ms) = k /\ DOMAIN ms = 1 .. k
      /\ ms[k] = l /\ \A j \in 1 .. Len(ls) : ms[j] = rs[j]
  BY <1>0, <1>4, <1>5, <1>6, <1>7
<1>9. DOMAIN ms = DOMAIN ls \cup {k} /\ k \notin DOMAIN ls /\ k \in 1 .. MaxLegs
  BY <1>0, <1>7, <1>8, RoomsAssumption
<1>10. \A j \in DOMAIN ms : ms[j].from < ms[j].to
  BY <1>4, <1>6, <1>7, <1>8, <1>9
<1>11. ms \in LegRows
  BY <1>0, <1>7, <1>8, <1>10, RoomsAssumption DEF LegRows
<1>12. QED
  BY <1>0, <1>2, <1>3, <1>6, <1>7, <1>8, <1>9, <1>11 DEF l, IsSplit

LEMMA SplitTiles ==
    ASSUME NEW ls \in LegRows, NEW i \in DOMAIN ls, NEW u \in Units, NEW d \in Dates,
           d > ls[i].from, d < ls[i].to, Len(ls) < MaxLegs, IsLive(ls[i]),
           NEW a \in Dates, NEW e \in Dates, Tiles(ls, LiveIn(ls), a, e),
           NEW ms, ms = SplitRows(ls, i, u, d)
    PROVE  Tiles(ms, LiveIn(ms), a, e)
<1>0. PICK k : k = Len(ls) + 1
  OBVIOUS
<1>1. /\ ms \in LegRows /\ DOMAIN ms = DOMAIN ls \cup {k} /\ k \notin DOMAIN ls
      /\ Len(ms) = k /\ k \in 1 .. MaxLegs
      /\ ms[k] = [unit |-> u, from |-> d, to |-> ls[i].to, released |-> "no"]
      /\ ms[i].to = d /\ ms[i].from = ls[i].from /\ ms[i].released = ls[i].released
      /\ \A j \in DOMAIN ls \ {i} : ms[j] = ls[j]
  <2>1. IsSplit(ls, i, u, d, ms)
    BY SplitEnds
  <2>2. QED
    BY <1>0, <2>1 DEF IsSplit
<1>2. LiveIn(ms) = LiveIn(ls) \cup {k} /\ i \in LiveIn(ls) /\ k \notin LiveIn(ls)
  BY <1>1 DEF LiveIn, IsLive
<1>3. \A j \in LiveIn(ls) : /\ ls[j].from \in Int /\ ls[j].to \in Int
                            /\ ls[j].from < ls[j].to /\ a <= ls[j].from /\ ls[j].to <= e
  BY RowFacts, LegFacts DEF LiveIn, Tiles
<1>4. a \in Int /\ e \in Int /\ d \in Int
  BY DatesAreIntegers
<1>5. /\ ms[k].from = d /\ ms[k].to = ls[i].to
      /\ \A j \in LiveIn(ls) \ {i} : ms[j].from = ls[j].from /\ ms[j].to = ls[j].to
  BY <1>1 DEF LiveIn
<1>6. \A j \in LiveIn(ms) : a <= ms[j].from /\ ms[j].to <= e
  BY <1>1, <1>2, <1>3, <1>4, <1>5
<1>7. ASSUME NEW n \in a .. e - 1
      PROVE  \E j \in LiveIn(ms) : Overlaps(ms[j], n, n + 1)
  <2>1. PICK j \in LiveIn(ls) : Overlaps(ls[j], n, n + 1)
    BY DEF Tiles
  <2>2. ls[j].from <= n /\ n < ls[j].to /\ n \in Int
    BY <1>3, <1>4, <2>1 DEF Overlaps
  <2>3. CASE j # i
    BY <1>2, <1>3, <1>5, <2>1, <2>3 DEF Overlaps
  <2>4. CASE j = i /\ n < d
    BY <1>1, <1>2, <1>3, <1>4, <2>2, <2>4 DEF Overlaps
  <2>5. CASE j = i /\ n >= d
    BY <1>2, <1>3, <1>4, <1>5, <2>2, <2>5 DEF Overlaps
  <2>6. QED
    BY <1>4, <2>2, <2>3, <2>4, <2>5
<1>8. ASSUME NEW j \in LiveIn(ls), j # i
      PROVE  /\ ~(ls[j].from < ls[i].to /\ ls[i].from < ls[j].to)
             /\ ~(ls[i].from < ls[j].to /\ ls[j].from < ls[i].to)
  BY <1>2, <1>8 DEF Tiles, Overlaps
<1>9. ASSUME NEW j \in LiveIn(ms), NEW h \in LiveIn(ms), j # h
      PROVE  ~Overlaps(ms[j], ms[h].from, ms[h].to)
  <2>1. CASE j \in LiveIn(ls) \ {i} /\ h \in LiveIn(ls) \ {i}
    BY <1>5, <1>9, <2>1 DEF Tiles, Overlaps
  <2>2. CASE j \in {i, k} /\ h \in LiveIn(ls) \ {i}
    BY <1>1, <1>2, <1>3, <1>4, <1>5, <1>8, <2>2 DEF Overlaps
  <2>3. CASE j \in LiveIn(ls) \ {i} /\ h \in {i, k}
    BY <1>1, <1>2, <1>3, <1>4, <1>5, <1>8, <2>3 DEF Overlaps
  <2>4. CASE j \in {i, k} /\ h \in {i, k}
    BY <1>1, <1>2, <1>3, <1>4, <1>5, <1>9, <2>4 DEF Overlaps
  <2>5. QED
    BY <1>2, <2>1, <2>2, <2>3, <2>4
<1>10. QED
  BY <1>6, <1>7, <1>9 DEF Tiles

\* A leg keeps its dates whether its room can be had again or not.
LEMMA OrNoRoomKeeps ==
    ASSUME NEW b, NEW i, NEW l \in Leg
    PROVE  /\ OrNoRoom(b, i, l) \in Leg /\ OrNoRoom(b, i, l).from = l.from
           /\ OrNoRoom(b, i, l).to = l.to /\ OrNoRoom(b, i, l).released = l.released
           /\ OrNoRoom(b, i, l).unit \in {l.unit, NoUnit}
<1>1. CASE Fits(b, i, l)
  BY <1>1 DEF OrNoRoom
<1>2. CASE ~Fits(b, i, l)
  <2>1. SUFFICES ASSUME NEW m, m = [l EXCEPT !.unit = NoUnit]
                 PROVE  /\ m \in Leg /\ m.from = l.from /\ m.to = l.to
                        /\ m.released = l.released /\ m.unit = NoUnit
    BY <1>2 DEF OrNoRoom
  <2>2. QED
    BY <2>1, LegRoomed
<1>3. QED
  BY <1>1, <1>2

\* The leg that ends at e runs on to g; the rows are otherwise as they were.
IsStretch(ls, e, g, ms) ==
    /\ ms \in LegRows /\ DOMAIN ms = DOMAIN ls
    /\ \A i \in DOMAIN ls :
           /\ ms[i].from = ls[i].from /\ ms[i].released = ls[i].released
           /\ ms[i].to = IF IsLive(ls[i]) /\ ls[i].to = e THEN g ELSE ls[i].to

LEMMA StretchedStretches ==
    ASSUME NEW b \in Bookings, legs[b] \in LegRows, bk[b].until <= bk[b].checkout,
           bk[b].until \in Dates, bk[b].checkout \in Dates
    PROVE  IsStretch(legs[b], bk[b].until, bk[b].checkout, Stretched(b))
<1> DEFINE ls == legs[b]
           g  == bk[b].checkout
<1>0. SUFFICES ASSUME NEW ms, ms = Stretched(b) PROVE IsStretch(ls, bk[b].until, g, ms)
  OBVIOUS
<1>1. /\ ms = [i \in DOMAIN ls |-> ms[i]]
      /\ \A i \in DOMAIN ls :
             ms[i] = IF IsLive(ls[i]) /\ ls[i].to = bk[b].until
                     THEN OrNoRoom(b, i, [ls[i] EXCEPT !.to = g]) ELSE ls[i]
  BY <1>0 DEF Stretched, LiveRows, Rows
<1>2. \A i \in DOMAIN ls : /\ ls[i] \in Leg /\ ls[i].from < ls[i].to
                           /\ ls[i].from \in Int /\ ls[i].to \in Int
  BY RowFacts, LegFacts
<1>3. g \in Dates /\ g \in Int /\ bk[b].until \in Int /\ bk[b].until <= g
  BY DatesAreIntegers
<1> HIDE DEF ls, g
<1>4. ASSUME NEW i \in DOMAIN ls
      PROVE  /\ ms[i] \in Leg /\ ms[i].from = ls[i].from /\ ms[i].from < ms[i].to
             /\ ms[i].released = ls[i].released
             /\ ms[i].to = IF IsLive(ls[i]) /\ ls[i].to = bk[b].until THEN g ELSE ls[i].to
  <2>1. CASE IsLive(ls[i]) /\ ls[i].to = bk[b].until
    <3>1. PICK l : l = [ls[i] EXCEPT !.to = g]
      OBVIOUS
    <3>2. /\ l \in Leg /\ l.to = g /\ l.from = ls[i].from /\ l.released = ls[i].released
      BY <1>2, <1>3, <3>1, LegCut
    <3>3. ms[i] = OrNoRoom(b, i, l)
      BY <1>1, <2>1, <3>1
    <3>4. /\ ms[i] \in Leg /\ ms[i].from = l.from /\ ms[i].to = l.to
          /\ ms[i].released = l.released
      BY <3>2, <3>3, OrNoRoomKeeps
    <3>5. QED
      BY <1>2, <1>3, <2>1, <3>2, <3>4
  <2>2. CASE ~(IsLive(ls[i]) /\ ls[i].to = bk[b].until)
    <3>1. ms[i] = ls[i]
      BY <1>1, <2>2
    <3>2. QED
      BY <1>2, <2>2, <3>1
  <2>3. QED
    BY <2>1, <2>2
<1>5. ls \in LegRows
  BY DEF ls
<1>6. ms \in LegRows /\ DOMAIN ms = DOMAIN ls
  <2>1. \A i \in DOMAIN ls : ms[i] \in Leg /\ ms[i].from < ms[i].to
    BY <1>4
  <2>2. QED
    BY <1>1, <1>5, <2>1, RowsOf
<1>7. QED
  BY <1>4, <1>6 DEF IsStretch

LEMMA StretchSleeps ==
    ASSUME NEW ls \in LegRows, NEW a \in Dates, NEW e \in Dates, NEW g \in Dates,
           a < e, e <= g, Tiles(ls, LiveIn(ls), a, e), NEW ms, IsStretch(ls, e, g, ms)
    PROVE  Tiles(ms, LiveIn(ms), a, g)
<1>1. /\ ms \in LegRows /\ DOMAIN ms = DOMAIN ls
      /\ \A i \in DOMAIN ls :
             /\ ms[i].from = ls[i].from
             /\ IsLive(ms[i]) <=> IsLive(ls[i])
             /\ IsLive(ls[i]) => ms[i].to = IF ls[i].to = e THEN g ELSE ls[i].to
  BY DEF IsStretch, IsLive
<1>2. QED
  BY <1>1, StretchTiles

\* The rows of the last release come back.
IsRestored(ls, ms) ==
    /\ ms \in LegRows /\ DOMAIN ms = DOMAIN ls
    /\ \A i \in DOMAIN ls :
           /\ ms[i].from = ls[i].from /\ ms[i].to = ls[i].to
           /\ IsLive(ms[i]) <=> (IsLive(ls[i]) \/ ls[i].released = "last")

LEMMA RestoredRestores ==
    ASSUME NEW b \in Bookings, legs[b] \in LegRows
    PROVE  IsRestored(legs[b], Restored(b))
<1> DEFINE ls == legs[b]
<1>0. SUFFICES ASSUME NEW ms, ms = Restored(b) PROVE IsRestored(ls, ms)
  OBVIOUS
<1>1. /\ ms = [i \in DOMAIN ls |-> ms[i]]
      /\ \A i \in DOMAIN ls :
             ms[i] = IF ls[i].released = "last"
                     THEN OrNoRoom(b, i, [ls[i] EXCEPT !.released = "no"]) ELSE ls[i]
  BY <1>0 DEF Restored, Rows
<1>2. \A i \in DOMAIN ls : ls[i] \in Leg /\ ls[i].from < ls[i].to
  BY RowFacts
<1> HIDE DEF ls
<1>3. ASSUME NEW i \in DOMAIN ls
      PROVE  /\ ms[i] \in Leg /\ ms[i].from = ls[i].from /\ ms[i].to = ls[i].to
             /\ IsLive(ms[i]) <=> (IsLive(ls[i]) \/ ls[i].released = "last")
  <2>1. CASE ls[i].released = "last"
    <3>1. PICK l : l = [ls[i] EXCEPT !.released = "no"]
      OBVIOUS
    <3>2. /\ l \in Leg /\ l.released = "no" /\ l.from = ls[i].from /\ l.to = ls[i].to
      BY <1>2, <3>1, LegReleased
    <3>3. ms[i] = OrNoRoom(b, i, l)
      BY <1>1, <2>1, <3>1
    <3>4. /\ ms[i] \in Leg /\ ms[i].from = l.from /\ ms[i].to = l.to
          /\ ms[i].released = l.released
      BY <3>2, <3>3, OrNoRoomKeeps
    <3>5. QED
      BY <2>1, <3>2, <3>4 DEF IsLive
  <2>2. CASE ls[i].released # "last"
    <3>1. ms[i] = ls[i]
      BY <1>1, <2>2
    <3>2. QED
      BY <1>2, <2>2, <3>1
  <2>3. QED
    BY <2>1, <2>2
<1>4. ls \in LegRows
  BY DEF ls
<1>5. ms \in LegRows /\ DOMAIN ms = DOMAIN ls
  <2>1. \A i \in DOMAIN ls : ms[i] \in Leg /\ ms[i].from < ms[i].to
    BY <1>2, <1>3
  <2>2. QED
    BY <1>1, <1>4, <2>1, RowsOf
<1>6. QED
  BY <1>3, <1>5 DEF IsRestored

LEMMA RestoreSleeps ==
    ASSUME NEW ls \in LegRows, NEW a, NEW e, LiveIn(ls) = {}, Tiles(ls, LastIn(ls), a, e),
           NEW ms, IsRestored(ls, ms)
    PROVE  Tiles(ms, LiveIn(ms), a, e)
<1>1. LiveIn(ms) = LastIn(ls)
  BY DEF IsRestored, LiveIn, LastIn
<1>2. \A i \in LastIn(ls) : ms[i].from = ls[i].from /\ ms[i].to = ls[i].to
  BY DEF IsRestored, LastIn
<1>3. QED
  BY <1>1, <1>2, SameTiles

\* A release of all of the stay, and the stay's live rows are those an undo brings back.
LEMMA ReleaseSleeps ==
    ASSUME NEW ls \in LegRows, NEW a \in Dates, NEW e \in Dates, a < e,
           Tiles(ls, LiveIn(ls), a, e), NEW ms, ms = Release(ls, LiveIn(ls))
    PROVE  LiveIn(ms) = {} /\ Tiles(ms, LastIn(ms), a, e)
<1>1. LiveIn(ls) # {}
  <2>1. a \in a .. e - 1
    BY DatesAreIntegers
  <2>2. QED
    BY <2>1 DEF Tiles
<1>2. /\ LiveIn(ms) = {} /\ LastIn(ms) = LiveIn(ls)
      /\ \A i \in DOMAIN ls : ms[i].from = ls[i].from /\ ms[i].to = ls[i].to
  BY <1>1, ReleaseFrees
<1>3. \A i \in LiveIn(ls) : ms[i].from = ls[i].from /\ ms[i].to = ls[i].to
  BY <1>2, RowFacts
<1>4. QED
  BY <1>2, <1>3, SameTiles

-----------------------------------------------------------------------------
(* What the invariant gives, and what a step on bookings owes it.          *)

LEMMA RequestType ==
    ASSUME TypeOK
    PROVE  /\ req.step \in {"idle", "loaded", "checked"} /\ req.b \in Bookings
           /\ req.i \in 1 .. MaxLegs /\ req.unit \in Units \cup {NoUnit}
           /\ req.date \in 0 .. Horizon /\ req.date \in Int /\ req.inHouse \in BOOLEAN
<1>1. req \in [step : {"idle", "loaded", "checked"}, b : Bookings, i : 1 .. MaxLegs,
               unit : Units \cup {NoUnit}, date : 0 .. Horizon, inHouse : BOOLEAN]
  BY DEF TypeOK
<1>2. QED
  BY <1>1, RoomsAssumption

LEMMA BookingFacts ==
    ASSUME NEW x \in Booking
    PROVE  /\ x.status \in Statuses /\ x.out \in BOOLEAN
           /\ x.checkin \in Dates /\ x.checkout \in Dates /\ x.until \in Dates
           /\ x.checkin \in Int /\ x.checkout \in Int /\ x.until \in Int
BY DatesAreIntegers DEF Booking

LEMMA BookedFacts ==
    ASSUME IInv, NEW b \in Bookings
    PROVE  /\ bk[b] \in Booking /\ bk[b].status \in Statuses
           /\ bk[b].checkin \in Dates /\ bk[b].checkout \in Dates /\ bk[b].until \in Dates
           /\ bk[b].checkin \in Int /\ bk[b].checkout \in Int /\ bk[b].until \in Int
           /\ legs[b] \in LegRows /\ Dated(bk[b])
           /\ bk[b].status = "none" => legs[b] = <<>>
           /\ b \notin strayed => Slept(bk[b], legs[b])
           /\ today \in Nights /\ today \in Dates /\ today \in Int
           /\ LiveRows(b) = LiveIn(legs[b]) /\ Rows(b) = DOMAIN legs[b]
<1>1. bk[b] \in Booking /\ today \in Nights
  BY DEF IInv, TypeOK
<1>2. bk[b] \in Booking => /\ bk[b].status \in Statuses
          /\ bk[b].checkin \in Dates /\ bk[b].checkout \in Dates /\ bk[b].until \in Dates
          /\ bk[b].checkin \in Int /\ bk[b].checkout \in Int /\ bk[b].until \in Int
  BY BookingFacts
<1>3. /\ legs[b] \in LegRows /\ Dated(bk[b])
      /\ bk[b].status = "none" => legs[b] = <<>>
      /\ b \notin strayed => Slept(bk[b], legs[b])
  BY DEF IInv, Rowed
<1>4. LiveRows(b) = LiveIn(legs[b]) /\ Rows(b) = DOMAIN legs[b]
  BY DEF LiveRows, LiveIn, Rows
<1>5. today \in Dates /\ today \in Int
  BY <1>1, DatesAreIntegers
<1>6. QED
  BY <1>1, <1>2, <1>3, <1>4, <1>5

\* A booking may change as long as its rows stay and the leg a request has locked keeps its dates.
RowsKept(b, ms) ==
    /\ DOMAIN legs[b] \subseteq DOMAIN ms
    /\ \/ Unlocked(b)
       \/ \A i \in DOMAIN legs[b] : ms[i].from = legs[b][i].from /\ ms[i].to = legs[b][i].to

LEMMA TypedRows ==
    ASSUME NEW ls \in [Bookings -> LegRows]
    PROVE  \A b \in Bookings : /\ ls[b] \in Seq(Leg) /\ Len(ls[b]) <= MaxLegs
                               /\ \A i \in DOMAIN ls[b] : ls[b][i].from < ls[b][i].to
BY DEF LegRows

LEMMA BookingsStep ==
    ASSUME IInv, bk' \in [Bookings -> Booking], legs' \in [Bookings -> LegRows],
           \A b \in Bookings : /\ Dated(bk'[b])
                               /\ bk'[b].status = "none" => legs'[b] = <<>>
                               /\ b \notin strayed => Slept(bk'[b], legs'[b])
                               /\ RowsKept(b, legs'[b]),
           today' \in Nights, UNCHANGED <<blocks, moves, req, blocking, strayed>>
    PROVE  IInv'
<1>1. TypeOK'
  <2>1. \A b \in Bookings : /\ legs'[b] \in Seq(Leg) /\ Len(legs'[b]) <= MaxLegs
                            /\ \A i \in DOMAIN legs'[b] : legs'[b][i].from < legs'[b][i].to
    BY TypedRows
  <2>2. QED
    BY <2>1 DEF IInv, TypeOK, Rows
<1>2. Rowed'
  BY DEF Rowed
<1>3. Requested'
  <2>1. req.b \in Bookings /\ Requested
    BY RequestType DEF IInv
  <2>2. RowsKept(req.b, legs'[req.b])
    BY <2>1
  <2>3. req.step # "idle" => req.i \in DOMAIN legs'[req.b]
    BY <2>1, <2>2 DEF Requested, RowsKept, Rows
  <2>4. ASSUME req.step = "checked"
        PROVE  /\ req.unit \in Units
               /\ legs'[req.b][req.i].from <= req.date /\ req.date < legs'[req.b][req.i].to
    <3>1. ~Unlocked(req.b) /\ req.i \in DOMAIN legs[req.b]
      BY <2>1, <2>4 DEF Unlocked, Requested, Rows
    <3>2. /\ legs'[req.b][req.i].from = legs[req.b][req.i].from
          /\ legs'[req.b][req.i].to = legs[req.b][req.i].to
      BY <2>2, <3>1 DEF RowsKept
    <3>3. QED
      BY <2>1, <2>4, <3>2 DEF Requested, Asked
  <2>5. QED
    BY <2>3, <2>4 DEF Requested, Asked, Rows
<1>4. Planned'
  <2>1. \A m \in moves : m.b \in Bookings
    BY DEF IInv, TypeOK, Move
  <2>2. \A m \in moves : m.leg \in DOMAIN legs'[m.b]
    BY <2>1 DEF IInv, Planned, Rows, RowsKept
  <2>3. QED
    BY <2>2 DEF IInv, Planned, Rows
<1>5. Barred'
  BY DEF IInv, Barred
<1>6. QED
  BY <1>1, <1>2, <1>3, <1>4, <1>5 DEF IInv

LEMMA OneBooking ==
    ASSUME IInv, NEW b \in Bookings, NEW x \in Booking, NEW ms \in LegRows,
           bk' = [bk EXCEPT ![b] = x], legs' = [legs EXCEPT ![b] = ms], Stayed,
           x.status # "none", Dated(x), b \notin strayed => Slept(x, ms), RowsKept(b, ms)
    PROVE  IInv'
<1>1. bk \in [Bookings -> Booking] /\ legs \in [Bookings -> LegRows]
  BY DEF IInv, TypeOK, Rowed
<1>2. /\ bk' \in [Bookings -> Booking] /\ legs' \in [Bookings -> LegRows]
      /\ bk'[b] = x /\ legs'[b] = ms
      /\ \A c \in Bookings \ {b} : bk'[c] = bk[c] /\ legs'[c] = legs[c]
  BY <1>1
<1>3. ASSUME NEW c \in Bookings
      PROVE  /\ Dated(bk'[c])
             /\ bk'[c].status = "none" => legs'[c] = <<>>
             /\ c \notin strayed => Slept(bk'[c], legs'[c])
             /\ RowsKept(c, legs'[c])
  <2>1. CASE c = b
    BY <1>2, <2>1
  <2>2. CASE c # b
    <3>1. bk'[c] = bk[c] /\ legs'[c] = legs[c]
      BY <1>2, <2>2
    <3>2. RowsKept(c, legs[c])
      BY DEF RowsKept
    <3>3. QED
      BY <3>1, <3>2, BookedFacts
  <2>3. QED
    BY <2>1, <2>2
<1>4. today' \in Nights /\ UNCHANGED <<blocks, moves, req, blocking, strayed>>
  BY DEF IInv, TypeOK, Stayed
<1>5. QED
  BY <1>2, <1>3, <1>4, BookingsStep

\* Only rooms change.
LEMMA RoomsOnly ==
    ASSUME IInv, NEW b \in Bookings, NEW x \in Booking, NEW ms \in LegRows,
           DOMAIN ms = DOMAIN legs[b],
           \A i \in DOMAIN legs[b] : /\ ms[i].from = legs[b][i].from /\ ms[i].to = legs[b][i].to
                                     /\ ms[i].released = legs[b][i].released,
           \/ x.status = bk[b].status
           \/ x.status \in Live /\ bk[b].status \in Live,
           x.checkin = bk[b].checkin, x.checkout = bk[b].checkout, x.until = bk[b].until
    PROVE  Dated(x) /\ (b \notin strayed => Slept(x, ms)) /\ RowsKept(b, ms)
<1>1. Dated(bk[b]) /\ (b \notin strayed => Slept(bk[b], legs[b]))
  BY BookedFacts
<1>2. Dated(x)
  BY <1>1 DEF Dated, Live
<1>3. Slept(bk[b], legs[b]) => Slept(x, ms)
  BY SameSlept
<1>4. RowsKept(b, ms)
  BY DEF RowsKept
<1>5. QED
  BY <1>1, <1>2, <1>3, <1>4

-----------------------------------------------------------------------------
(* The steps of a booking.                                                 *)

LEMMA StatusIn ==
    {"Approved", "CheckedIn", "none", "NoShow", "CheckedOut", "Cancelled"} = Statuses
BY DEF Statuses, Live

LEMMA NoTiles ==
    ASSUME NEW ms, NEW a \in Int
    PROVE  Tiles(ms, {}, a, a)
BY DEF Tiles

LEMMA CreateStep ==
    ASSUME IInv, NEW b \in Bookings, NEW s \in Stays[b], NEW u \in Units \cup {NoUnit},
           Create(b, s, u)
    PROVE  IInv'
<1> DEFINE x == [status |-> "Approved", checkin |-> s[1], checkout |-> s[2],
                 until |-> s[2], out |-> FALSE]
           l == [unit |-> u, from |-> s[1], to |-> s[2], released |-> "no"]
           ms == <<l>>
<1>1. s \in Dates \X Dates /\ s[1] < s[2]
  BY RoomsAssumption DEF Spans
<1>2. s[1] \in Dates /\ s[2] \in Dates /\ s[1] \in Int /\ s[2] \in Int
  BY <1>1, DatesAreIntegers
<1>3. /\ bk[b].status = "none" /\ bk' = [bk EXCEPT ![b] = x]
      /\ legs' = [legs EXCEPT ![b] = ms] /\ Stayed
  BY DEF Create, Stayed
<1>4. x \in Booking /\ x.status = "Approved" /\ x.checkin = s[1] /\ x.checkout = s[2]
      /\ x.until = s[2]
  BY <1>2, StatusIn DEF Booking
<1>5. l \in Leg /\ l.from = s[1] /\ l.to = s[2] /\ l.released = "no"
  BY <1>2 DEF Leg
<1> HIDE DEF x, l
<1>6. ms \in LegRows /\ DOMAIN ms = {1} /\ ms[1] = l
  <2>1. ms \in Seq(Leg) /\ Len(ms) = 1 /\ DOMAIN ms = {1} /\ ms[1] = l
    BY <1>5
  <2>2. QED
    BY <1>1, <1>5, <2>1, RoomsAssumption DEF LegRows
<1> HIDE DEF ms
<1>7. LiveIn(ms) = {1}
  BY <1>5, <1>6 DEF LiveIn, IsLive
<1>8. Tiles(ms, LiveIn(ms), s[1], s[2])
  BY <1>2, <1>5, <1>6, <1>7 DEF Tiles, Overlaps
<1>9. Slept(x, ms) /\ Dated(x) /\ x.status # "none"
  BY <1>1, <1>2, <1>4, <1>8 DEF Slept, Dated, Live
<1>10. RowsKept(b, ms)
  <2>1. legs[b] = <<>>
    BY <1>3, BookedFacts
  <2>2. DOMAIN legs[b] = {}
    BY <2>1
  <2>3. QED
    BY <2>2 DEF RowsKept
<1>11. QED
  BY <1>3, <1>4, <1>6, <1>9, <1>10, OneBooking

LEMMA CheckInStep ==
    ASSUME IInv, NEW b \in Bookings, CheckIn(b)
    PROVE  IInv'
<1>1. /\ bk[b].status = "Approved" /\ Stayed
      /\ bk' = [bk EXCEPT ![b].status = "CheckedIn"]
  BY DEF CheckIn, Stayed
<1>2. PICK unit \in [LiveRows(b) -> Units] :
          legs' = [legs EXCEPT ![b] = [i \in Rows(b) |->
              IF i \in LiveRows(b) THEN [legs[b][i] EXCEPT !.unit = unit[i]] ELSE legs[b][i]]]
  BY DEF CheckIn
<1>3. PICK ms : ms = [i \in Rows(b) |->
              IF i \in LiveRows(b) THEN [legs[b][i] EXCEPT !.unit = unit[i]] ELSE legs[b][i]]
  OBVIOUS
<1>4. legs[b] \in LegRows /\ Rows(b) = DOMAIN legs[b] /\ bk[b] \in Booking
  BY BookedFacts
<1>5. ASSUME NEW i \in DOMAIN legs[b]
      PROVE  /\ ms[i] \in Leg /\ ms[i].from = legs[b][i].from /\ ms[i].to = legs[b][i].to
             /\ ms[i].released = legs[b][i].released /\ ms[i].from < ms[i].to
  <2>1. legs[b][i] \in Leg /\ legs[b][i].from < legs[b][i].to
    BY <1>4, RowFacts
  <2>2. CASE i \in LiveRows(b)
    <3>1. ms[i] = [legs[b][i] EXCEPT !.unit = unit[i]] /\ unit[i] \in Units
      BY <1>3, <1>4, <2>2
    <3>2. /\ ms[i] \in Leg /\ ms[i].from = legs[b][i].from /\ ms[i].to = legs[b][i].to
          /\ ms[i].released = legs[b][i].released
      BY <2>1, <3>1, LegRoomed
    <3>3. QED
      BY <2>1, <3>2
  <2>3. CASE i \notin LiveRows(b)
    <3>1. ms[i] = legs[b][i]
      BY <1>3, <1>4, <2>3
    <3>2. QED
      BY <2>1, <3>1
  <2>4. QED
    BY <2>2, <2>3
<1>6. ms \in LegRows /\ DOMAIN ms = DOMAIN legs[b]
  <2>1. ms = [i \in DOMAIN legs[b] |-> ms[i]]
    BY <1>3, <1>4
  <2>2. \A i \in DOMAIN legs[b] : ms[i] \in Leg /\ ms[i].from < ms[i].to
    BY <1>5
  <2>3. QED
    BY <1>4, <2>1, <2>2, RowsOf
<1>7. PICK x : x = [bk[b] EXCEPT !.status = "CheckedIn"]
  OBVIOUS
<1>8. /\ x \in Booking /\ x.status = "CheckedIn" /\ x.checkin = bk[b].checkin
      /\ x.checkout = bk[b].checkout /\ x.until = bk[b].until
  BY <1>4, <1>7, StatusIn DEF Booking
<1>9. Dated(x) /\ (b \notin strayed => Slept(x, ms)) /\ RowsKept(b, ms)
  BY <1>1, <1>5, <1>6, <1>8, RoomsOnly DEF Live
<1>10. bk' = [bk EXCEPT ![b] = x] /\ legs' = [legs EXCEPT ![b] = ms]
  BY <1>1, <1>2, <1>3, <1>7 DEF IInv, TypeOK
<1>11. QED
  BY <1>1, <1>6, <1>8, <1>9, <1>10, OneBooking

LEMMA UndoCheckInStep ==
    ASSUME IInv, NEW b \in Bookings, UndoCheckIn(b)
    PROVE  IInv'
<1>1. /\ bk[b].status = "CheckedIn" /\ Stayed /\ legs' = legs
      /\ bk' = [bk EXCEPT ![b].status = "Approved"]
  BY DEF UndoCheckIn, Stayed
<1>2. legs[b] \in LegRows /\ bk[b] \in Booking
  BY BookedFacts
<1>3. PICK x : x = [bk[b] EXCEPT !.status = "Approved"]
  OBVIOUS
<1>4. /\ x \in Booking /\ x.status = "Approved" /\ x.checkin = bk[b].checkin
      /\ x.checkout = bk[b].checkout /\ x.until = bk[b].until
  BY <1>2, <1>3, StatusIn DEF Booking
<1>5. Dated(x) /\ (b \notin strayed => Slept(x, legs[b])) /\ RowsKept(b, legs[b])
  BY <1>1, <1>2, <1>4, RoomsOnly DEF Live
<1>6. bk' = [bk EXCEPT ![b] = x] /\ legs' = [legs EXCEPT ![b] = legs[b]]
  BY <1>1, <1>3 DEF IInv, TypeOK, Rowed
<1>7. QED
  BY <1>1, <1>2, <1>4, <1>5, <1>6, OneBooking

\* A room is set, or taken away.
LEMMA SetUnitStep ==
    ASSUME IInv, NEW b \in Bookings, NEW i \in Rows(b), NEW u \in Units \cup {NoUnit},
           SetUnit(b, i, u), UNCHANGED bk, Stayed, bk[b].status # "none"
    PROVE  IInv'
<1>1. /\ legs[b] \in LegRows /\ bk[b] \in Booking /\ i \in DOMAIN legs[b]
      /\ legs \in [Bookings -> LegRows] /\ bk \in [Bookings -> Booking]
  BY BookedFacts DEF Rows, IInv, Rowed, TypeOK
<1>2. PICK ms : ms = [legs[b] EXCEPT ![i].unit = u]
  OBVIOUS
<1>3. /\ ms \in LegRows /\ DOMAIN ms = DOMAIN legs[b]
      /\ \A k \in DOMAIN legs[b] :
             /\ ms[k].from = legs[b][k].from /\ ms[k].to = legs[b][k].to
             /\ ms[k].released = legs[b][k].released
  <2>1. IsReRoomed(legs[b], i, u, ms)
    BY <1>1, <1>2, ReRoomed
  <2>2. QED
    BY <2>1 DEF IsReRoomed
<1>4. Dated(bk[b]) /\ (b \notin strayed => Slept(bk[b], ms)) /\ RowsKept(b, ms)
  BY <1>1, <1>3, RoomsOnly
<1>5. bk' = [bk EXCEPT ![b] = bk[b]] /\ legs' = [legs EXCEPT ![b] = ms]
  BY <1>1, <1>2 DEF SetUnit
<1>6. QED
  BY <1>1, <1>3, <1>4, <1>5, OneBooking

LEMMA UnassignStep ==
    ASSUME IInv, NEW b \in Bookings, NEW i \in Rows(b), Unassign(b, i)
    PROVE  IInv'
BY SetUnitStep DEF Unassign

LEMMA AutoAssignStep ==
    ASSUME IInv, NEW b \in Bookings, NEW i \in Rows(b), AutoAssign(b, i)
    PROVE  IInv'
BY SetUnitStep DEF AutoAssign, FreeUnits, Live

LEMMA SwitchToCleanStep ==
    ASSUME IInv, NEW b \in Bookings, NEW i \in Rows(b), SwitchToClean(b, i)
    PROVE  IInv'
BY SetUnitStep DEF SwitchToClean, FreeUnits

LEMMA ExchangeStep ==
    ASSUME IInv, NEW b \in Bookings, NEW c \in Bookings, NEW i \in Rows(b), NEW j \in Rows(c),
           Exchange(b, i, c, j)
    PROVE  IInv'
<1>1. PICK u, v : u = legs[c][j].unit /\ v = legs[b][i].unit
  OBVIOUS
<1>2. /\ b # c /\ i \in LiveRows(b) /\ j \in LiveRows(c) /\ UNCHANGED bk /\ Stayed
      /\ legs' = [legs EXCEPT ![b][i].unit = u, ![c][j].unit = v]
  BY <1>1 DEF Exchange
<1>3. /\ legs[b] \in LegRows /\ legs[c] \in LegRows /\ bk \in [Bookings -> Booking]
      /\ i \in DOMAIN legs[b] /\ j \in DOMAIN legs[c] /\ legs \in [Bookings -> LegRows]
  BY BookedFacts DEF Rows, IInv, Rowed, TypeOK
<1>4. u \in Units \cup {NoUnit} /\ v \in Units \cup {NoUnit}
  BY <1>1, <1>3, RowFacts, LegFacts
<1>5. PICK ms, ns : ms = [legs[b] EXCEPT ![i].unit = u] /\ ns = [legs[c] EXCEPT ![j].unit = v]
  OBVIOUS
<1>6. IsReRoomed(legs[b], i, u, ms) /\ IsReRoomed(legs[c], j, v, ns)
  BY <1>3, <1>4, <1>5, ReRoomed
<1>7. legs' = [[legs EXCEPT ![b] = ms] EXCEPT ![c] = ns]
  BY <1>2, <1>3, <1>5
<1>8. /\ legs' \in [Bookings -> LegRows] /\ legs'[b] = ms /\ legs'[c] = ns
      /\ \A k \in Bookings \ {b, c} : legs'[k] = legs[k]
  <2>1. ms \in LegRows /\ ns \in LegRows
    BY <1>6 DEF IsReRoomed
  <2>2. PICK hs : hs = [legs EXCEPT ![b] = ms]
    OBVIOUS
  <2>3. /\ hs \in [Bookings -> LegRows] /\ hs[b] = ms
        /\ \A k \in Bookings \ {b} : hs[k] = legs[k]
    BY <1>3, <2>1, <2>2
  <2>4. legs' = [hs EXCEPT ![c] = ns]
    BY <1>7, <2>2
  <2>5. QED
    BY <1>2, <2>1, <2>3, <2>4
<1>9. ASSUME NEW k \in Bookings
      PROVE  /\ legs'[k] \in LegRows /\ DOMAIN legs'[k] = DOMAIN legs[k]
             /\ \A h \in DOMAIN legs[k] :
                    /\ legs'[k][h].from = legs[k][h].from /\ legs'[k][h].to = legs[k][h].to
                    /\ legs'[k][h].released = legs[k][h].released
  <2>1. CASE k = b
    BY <1>6, <1>8, <2>1 DEF IsReRoomed
  <2>2. CASE k = c
    BY <1>6, <1>8, <2>2 DEF IsReRoomed
  <2>3. CASE k \notin {b, c}
    BY <1>8, <2>3
  <2>4. QED
    BY <2>1, <2>2, <2>3
<1>10. ASSUME NEW k \in Bookings
       PROVE  /\ Dated(bk'[k])
              /\ bk'[k].status = "none" => legs'[k] = <<>>
              /\ k \notin strayed => Slept(bk'[k], legs'[k])
              /\ RowsKept(k, legs'[k])
  <2>1. bk'[k] = bk[k] /\ bk[k] \in Booking /\ (bk[k].status = "none" => legs[k] = <<>>)
    BY <1>2, BookedFacts
  <2>2. /\ Dated(bk[k]) /\ (k \notin strayed => Slept(bk[k], legs'[k])) /\ RowsKept(k, legs'[k])
    BY <1>9, <2>1, RoomsOnly
  <2>3. k \in {b, c} => DOMAIN legs[k] # {}
    BY <1>3
  <2>4. legs[k] = <<>> => DOMAIN legs[k] = {}
    OBVIOUS
  <2>5. QED
    BY <1>8, <2>1, <2>2, <2>3, <2>4
<1>11. QED
  BY <1>2, <1>3, <1>8, <1>10, BookingsStep DEF IInv, TypeOK, Stayed

\* A booking that is live, or has left or not come, and not cancelled, holds its nights.
LEMMA HeldTiles ==
    ASSUME IInv, NEW b \in Bookings, b \notin strayed,
           bk[b].status \notin {"none", "Cancelled"}
    PROVE  Tiles(legs[b], LiveIn(legs[b]), bk[b].checkin, bk[b].until)
BY BookedFacts DEF Slept

LEMMA LiveDates ==
    ASSUME IInv, NEW b \in Bookings, bk[b].status \in Live
    PROVE  bk[b].checkin < bk[b].checkout /\ bk[b].until = bk[b].checkout
BY BookedFacts DEF Dated, Live

\* What a release leaves of the row and of its legs.
LEMMA ReleasedAll ==
    ASSUME NEW y \in Booking, NEW d \in Int, d <= y.checkin
    PROVE  Released(y, d) = [y EXCEPT !.until = y.checkin]
BY DEF Released

LEMMA ReleasedFrom ==
    ASSUME NEW y \in Booking, NEW d \in Int, y.checkin < d, d < y.until
    PROVE  Released(y, d) = [y EXCEPT !.until = d]
BY BookingFacts DEF Released

LEMMA LegsReleasedAll ==
    ASSUME NEW b, NEW d \in Int, bk[b].checkin \in Int, d <= bk[b].checkin
    PROVE  LegsReleased(b, d) = Release(legs[b], LiveRows(b))
BY DEF LegsReleased

LEMMA LegsReleasedFrom ==
    ASSUME NEW b, NEW d \in Int, bk[b].checkin \in Int, bk[b].checkin < d, d < bk[b].until
    PROVE  LegsReleased(b, d) = CutLegs(legs[b], d)
BY DEF LegsReleased

LEMMA CheckOutStep ==
    ASSUME IInv, NEW b \in Bookings, CheckOut(b)
    PROVE  IInv'
<1>1. PICK y : y = [bk[b] EXCEPT !.status = "CheckedOut", !.out = TRUE]
  OBVIOUS
<1>2. PICK x : x = IF today < bk[b].checkout THEN Released(y, today) ELSE y
  OBVIOUS
<1>3. PICK ms : ms = IF today < bk[b].checkout THEN LegsReleased(b, today) ELSE legs[b]
  OBVIOUS
<1>4. /\ bk[b].status = "CheckedIn" /\ Unlocked(b) /\ Stayed
      /\ bk' = [bk EXCEPT ![b] = x]
  BY <1>1, <1>2 DEF CheckOut, Stayed
<1>5. legs' = [legs EXCEPT ![b] = ms]
  BY <1>3 DEF CheckOut, IInv, Rowed
<1>6. /\ bk[b] \in Booking /\ legs[b] \in LegRows /\ today \in Dates /\ today \in Int
      /\ bk[b].checkin \in Dates /\ bk[b].checkin \in Int
      /\ bk[b].checkout \in Dates /\ bk[b].checkout \in Int
      /\ LiveRows(b) = LiveIn(legs[b])
  BY BookedFacts
<1>7. bk[b].checkin < bk[b].checkout /\ bk[b].until = bk[b].checkout
  BY <1>4, LiveDates DEF Live
<1>8. /\ y \in Booking /\ y.status = "CheckedOut" /\ y.checkin = bk[b].checkin
      /\ y.checkout = bk[b].checkout /\ y.until = bk[b].checkout
  BY <1>1, <1>6, <1>7, StatusIn DEF Booking
<1>9. b \notin strayed => Tiles(legs[b], LiveIn(legs[b]), bk[b].checkin, bk[b].checkout)
  BY <1>4, <1>7, HeldTiles
<1>10. CASE ~(today < bk[b].checkout)
  <2>1. x = y /\ ms = legs[b]
    BY <1>2, <1>3, <1>10
  <2>2. Dated(x) /\ (b \notin strayed => Slept(x, ms)) /\ x.status # "none"
    BY <1>6, <1>7, <1>8, <1>9, <2>1 DEF Dated, Slept, Live
  <2>3. RowsKept(b, ms)
    BY <1>4, <2>1 DEF RowsKept
  <2>4. QED
    BY <1>4, <1>5, <1>6, <1>8, <2>1, <2>2, <2>3, OneBooking
<1>11. CASE today < bk[b].checkout /\ today <= bk[b].checkin
  <2>1. x = [y EXCEPT !.until = y.checkin] /\ ms = Release(legs[b], LiveIn(legs[b]))
    BY <1>2, <1>3, <1>6, <1>8, <1>11 DEF Released, LegsReleased
  <2>2. /\ x \in Booking /\ x.status = "CheckedOut" /\ x.checkin = bk[b].checkin
        /\ x.checkout = bk[b].checkout /\ x.until = bk[b].checkin
    BY <1>6, <1>8, <2>1 DEF Booking
  <2>3. ms \in LegRows /\ DOMAIN ms = DOMAIN legs[b]
    BY <1>6, <2>1, ReleaseFrees
  <2>4. b \notin strayed =>
            LiveIn(ms) = {} /\ Tiles(ms, LastIn(ms), bk[b].checkin, bk[b].checkout)
    BY <1>6, <1>7, <1>9, <2>1, ReleaseSleeps
  <2>5. Tiles(ms, {}, bk[b].checkin, bk[b].checkin)
    BY <1>6, NoTiles
  <2>6. Dated(x) /\ (b \notin strayed => Slept(x, ms)) /\ x.status # "none"
    BY <1>6, <1>7, <2>2, <2>4, <2>5 DEF Dated, Slept, Live
  <2>7. RowsKept(b, ms)
    BY <1>4, <2>3 DEF RowsKept
  <2>8. QED
    BY <1>4, <1>5, <2>2, <2>3, <2>6, <2>7, OneBooking
<1>12. CASE bk[b].checkin < today /\ today < bk[b].checkout
  <2>1. x = [y EXCEPT !.until = today] /\ ms = CutLegs(legs[b], today)
    BY <1>2, <1>3, <1>6, <1>7, <1>8, <1>12 DEF Released, LegsReleased
  <2>2. /\ x \in Booking /\ x.status = "CheckedOut" /\ x.checkin = bk[b].checkin
        /\ x.checkout = bk[b].checkout /\ x.until = today
    BY <1>6, <1>8, <2>1 DEF Booking
  <2>3. ms \in LegRows /\ DOMAIN ms = DOMAIN legs[b]
    <3>1. IsCut(legs[b], today, ms)
      BY <1>6, <2>1, CutEnds
    <3>2. QED
      BY <3>1 DEF IsCut
  <2>4. b \notin strayed => Tiles(ms, LiveIn(ms), bk[b].checkin, today)
    BY <1>6, <1>9, <1>12, <2>1, CutTiles
  <2>5. Dated(x) /\ (b \notin strayed => Slept(x, ms)) /\ x.status # "none"
    BY <1>6, <1>7, <1>12, <2>2, <2>4 DEF Dated, Slept, Live
  <2>6. RowsKept(b, ms)
    BY <1>4, <2>3 DEF RowsKept
  <2>7. QED
    BY <1>4, <1>5, <2>2, <2>3, <2>5, <2>6, OneBooking
<1>13. QED
  BY <1>6, <1>10, <1>11, <1>12

LEMMA CancelStep ==
    ASSUME IInv, NEW b \in Bookings, Cancel(b)
    PROVE  IInv'
<1>1. PICK x : x = [Released(bk[b], bk[b].checkin) EXCEPT !.status = "Cancelled"]
  OBVIOUS
<1>2. PICK ms : ms = Release(legs[b], LiveIn(legs[b]))
  OBVIOUS
<1>3. /\ bk[b] \in Booking /\ legs[b] \in LegRows
      /\ bk[b].checkin \in Dates /\ bk[b].checkin \in Int
      /\ bk[b].checkout \in Dates /\ bk[b].checkout \in Int
      /\ LiveRows(b) = LiveIn(legs[b])
  BY BookedFacts
<1>4. /\ bk[b].status = "Approved" /\ Unlocked(b) /\ Stayed
      /\ bk' = [bk EXCEPT ![b] = x] /\ legs' = [legs EXCEPT ![b] = ms]
  <2>1. LegsReleased(b, bk[b].checkin) = ms
    BY <1>2, <1>3, LegsReleasedAll
  <2>2. legs' = [legs EXCEPT ![b] = LegsReleased(b, bk[b].checkin)]
    BY DEF Cancel
  <2>3. bk' = [bk EXCEPT ![b] = x]
    BY <1>1 DEF Cancel
  <2>4. bk[b].status = "Approved" /\ Unlocked(b) /\ Stayed
    BY DEF Cancel
  <2>5. QED
    BY <2>1, <2>2, <2>3, <2>4
<1>5. bk[b].checkin < bk[b].checkout /\ bk[b].until = bk[b].checkout
  BY <1>4, LiveDates DEF Live
<1>6. /\ x \in Booking /\ x.status = "Cancelled" /\ x.checkin = bk[b].checkin
      /\ x.checkout = bk[b].checkout /\ x.until = bk[b].checkin
  <2>0. Released(bk[b], bk[b].checkin) = [bk[b] EXCEPT !.until = bk[b].checkin]
    BY <1>3, ReleasedAll
  <2>1. x = [[bk[b] EXCEPT !.until = bk[b].checkin] EXCEPT !.status = "Cancelled"]
    BY <1>1, <2>0
  <2>2. QED
    BY <1>3, <2>1, StatusIn DEF Booking
<1>7. ms \in LegRows /\ DOMAIN ms = DOMAIN legs[b]
  BY <1>2, <1>3, ReleaseFrees
<1>8. b \notin strayed => Tiles(legs[b], LiveIn(legs[b]), bk[b].checkin, bk[b].checkout)
  BY <1>4, <1>5, HeldTiles
<1>9. b \notin strayed =>
          LiveIn(ms) = {} /\ Tiles(ms, LastIn(ms), bk[b].checkin, bk[b].checkout)
  BY <1>2, <1>3, <1>5, <1>8, ReleaseSleeps
<1>10. Dated(x) /\ (b \notin strayed => Slept(x, ms)) /\ x.status # "none"
  BY <1>3, <1>5, <1>6, <1>9 DEF Dated, Slept, Live
<1>11. RowsKept(b, ms)
  BY <1>4, <1>7 DEF RowsKept
<1>12. QED
  BY <1>4, <1>6, <1>7, <1>10, <1>11, OneBooking

LEMMA NoShowStep ==
    ASSUME IInv, NEW b \in Bookings, NoShow(b)
    PROVE  IInv'
<1>1. PICK d : d = Later(today, bk[b].checkin) + 1
  OBVIOUS
<1>2. PICK x : x = [(IF d < bk[b].checkout THEN Released(bk[b], d) ELSE bk[b])
                        EXCEPT !.status = "NoShow"]
  OBVIOUS
<1>3. PICK ms : ms = IF d < bk[b].checkout THEN LegsReleased(b, d) ELSE legs[b]
  OBVIOUS
<1>4. /\ bk[b] \in Booking /\ legs[b] \in LegRows /\ today \in Int /\ today \in Dates
      /\ bk[b].checkin \in Dates /\ bk[b].checkin \in Int
      /\ bk[b].checkout \in Dates /\ bk[b].checkout \in Int
  BY BookedFacts
<1>5. /\ bk[b].status = "Approved" /\ Unlocked(b) /\ Stayed
      /\ bk' = [bk EXCEPT ![b] = x]
  BY <1>1, <1>2 DEF NoShow, Stayed, IInv, TypeOK
<1>6. legs' = [legs EXCEPT ![b] = ms]
  BY <1>1, <1>3 DEF NoShow, IInv, Rowed
<1>7. bk[b].checkin < bk[b].checkout /\ bk[b].until = bk[b].checkout
  BY <1>5, LiveDates DEF Live
<1>8. d \in Int /\ bk[b].checkin < d
  BY <1>1, <1>4 DEF Later
<1>9. b \notin strayed => Tiles(legs[b], LiveIn(legs[b]), bk[b].checkin, bk[b].checkout)
  BY <1>5, <1>7, HeldTiles
<1>10. CASE ~(d < bk[b].checkout)
  <2>1. x = [bk[b] EXCEPT !.status = "NoShow"] /\ ms = legs[b]
    BY <1>2, <1>3, <1>10
  <2>2. /\ x \in Booking /\ x.status = "NoShow" /\ x.checkin = bk[b].checkin
        /\ x.checkout = bk[b].checkout /\ x.until = bk[b].checkout
    BY <1>4, <1>7, <2>1, StatusIn DEF Booking
  <2>3. Dated(x) /\ (b \notin strayed => Slept(x, ms)) /\ x.status # "none"
    BY <1>4, <1>7, <1>9, <2>1, <2>2 DEF Dated, Slept, Live
  <2>4. RowsKept(b, ms)
    BY <1>5, <2>1 DEF RowsKept
  <2>5. QED
    BY <1>4, <1>5, <1>6, <2>1, <2>2, <2>3, <2>4, OneBooking
<1>11. CASE d < bk[b].checkout
  <2>1. d \in Dates
    BY <1>4, <1>8, <1>11, DatesAreIntegers
  <2>2. x = [[bk[b] EXCEPT !.until = d] EXCEPT !.status = "NoShow"] /\ ms = CutLegs(legs[b], d)
    <3>1. Released(bk[b], d) = [bk[b] EXCEPT !.until = d]
      BY <1>4, <1>7, <1>8, <1>11, ReleasedFrom
    <3>2. LegsReleased(b, d) = CutLegs(legs[b], d)
      BY <1>4, <1>7, <1>8, <1>11, LegsReleasedFrom
    <3>3. QED
      BY <1>2, <1>3, <1>11, <3>1, <3>2
  <2>3. /\ x \in Booking /\ x.status = "NoShow" /\ x.checkin = bk[b].checkin
        /\ x.checkout = bk[b].checkout /\ x.until = d
    BY <1>4, <2>1, <2>2, StatusIn DEF Booking
  <2>4. ms \in LegRows /\ DOMAIN ms = DOMAIN legs[b]
    <3>1. IsCut(legs[b], d, ms)
      BY <1>4, <2>1, <2>2, CutEnds
    <3>2. QED
      BY <3>1 DEF IsCut
  <2>5. b \notin strayed => Tiles(ms, LiveIn(ms), bk[b].checkin, d)
    BY <1>4, <1>8, <1>9, <1>11, <2>1, <2>2, CutTiles
  <2>6. Dated(x) /\ (b \notin strayed => Slept(x, ms)) /\ x.status # "none"
    BY <1>4, <1>7, <1>8, <1>11, <2>3, <2>5 DEF Dated, Slept, Live
  <2>7. RowsKept(b, ms)
    BY <1>5, <2>4 DEF RowsKept
  <2>8. QED
    BY <1>5, <1>6, <2>3, <2>4, <2>6, <2>7, OneBooking
<1>12. QED
  BY <1>10, <1>11

\* The row x of a stay whose whole dates are held again in status st: what UndoCheckOut and
\* Reinstate write, which keep the dates of the row y.
IsWhole(y, st, x) ==
    /\ x \in Booking /\ x.status = st /\ x.checkin = y.checkin
    /\ x.checkout = y.checkout /\ x.until = y.checkout /\ Dated(x) /\ x.status # "none"

LEMMA WholeRow ==
    ASSUME NEW y \in Booking, NEW st \in Live, y.checkin < y.checkout
    PROVE  IsWhole(y, st, [Whole(y) EXCEPT !.status = st])
<1>0. SUFFICES ASSUME NEW x, x = [Whole(y) EXCEPT !.status = st] PROVE IsWhole(y, st, x)
  OBVIOUS
<1>1. x = [[y EXCEPT !.until = y.checkout, !.out = FALSE] EXCEPT !.status = st]
  BY <1>0 DEF Whole
<1>2. /\ x \in Booking /\ x.status = st /\ x.checkin = y.checkin
      /\ x.checkout = y.checkout /\ x.until = y.checkout
  BY <1>1, StatusIn DEF Booking, Live, Statuses
<1>3. Dated(x) /\ x.status # "none"
  BY <1>2, BookingFacts DEF Dated, Live
<1>4. QED
  BY <1>2, <1>3 DEF IsWhole

LEMMA LiveSlept ==
    ASSUME NEW x, NEW ms, x.status \in Live, Tiles(ms, LiveIn(ms), x.checkin, x.until)
    PROVE  Slept(x, ms)
BY DEF Slept, Live

\* The booking is whole again: its legs are those in force, stretched, or those of its release.
LEMMA ComesBack ==
    ASSUME IInv, NEW b \in Bookings, Stayed, Unlocked(b), NEW st \in Live,
           bk[b].status \in {"CheckedOut", "NoShow", "Cancelled"},
           bk' = [bk EXCEPT ![b] = [Whole(bk[b]) EXCEPT !.status = st]],
           NEW ms, legs' = [legs EXCEPT ![b] = ms],
           \/ ms = Stretched(b) /\ bk[b].status # "Cancelled" /\ bk[b].checkin < bk[b].until
           \/ ms = Restored(b) /\ LiveRows(b) = {} /\ bk[b].status = "CheckedOut"
              /\ ~(bk[b].checkin < bk[b].until /\ bk[b].until < bk[b].checkout)
           \/ ms = Restored(b) /\ bk[b].status = "Cancelled"
           \/ ms = legs[b] /\ bk[b].status # "Cancelled" /\ LiveRows(b) # {}
              /\ ~(bk[b].checkin < bk[b].until /\ bk[b].until < bk[b].checkout)
           \/ ms = legs[b] /\ bk[b].status # "Cancelled" /\ bk[b].until = bk[b].checkout
    PROVE  IInv'
<1> DEFINE a == bk[b].checkin
           e == bk[b].until
           g == bk[b].checkout
<1>1. /\ bk[b] \in Booking /\ legs[b] \in LegRows /\ Dated(bk[b])
      /\ a \in Dates /\ e \in Dates /\ g \in Dates /\ a \in Int /\ e \in Int /\ g \in Int
      /\ LiveRows(b) = LiveIn(legs[b])
      /\ b \notin strayed => Slept(bk[b], legs[b])
  BY BookedFacts
<1>2. a < g /\ a <= e /\ e <= g
  BY <1>1 DEF Dated
<1>3. PICK x : x = [Whole(bk[b]) EXCEPT !.status = st]
  OBVIOUS
<1>4. /\ x \in Booking /\ x.status = st /\ x.checkin = a
      /\ x.checkout = g /\ x.until = g /\ Dated(x) /\ x.status # "none"
  <2>1. IsWhole(bk[b], st, x)
    BY <1>1, <1>2, <1>3, WholeRow
  <2>2. QED
    BY <2>1 DEF IsWhole
<1>5. bk' = [bk EXCEPT ![b] = x]
  BY <1>3
<1>6. b \notin strayed /\ bk[b].status # "Cancelled" => Tiles(legs[b], LiveIn(legs[b]), a, e)
  BY HeldTiles
<1>7. b \notin strayed /\ LiveIn(legs[b]) # {} /\ bk[b].status # "Cancelled" => a < e
  <2>1. \A i \in LiveIn(legs[b]) : legs[b][i].from \in Int /\ legs[b][i].to \in Int
                                    /\ legs[b][i].from < legs[b][i].to
    BY <1>1, RowFacts, LegFacts
  <2>2. QED
    BY <1>1, <1>6, <2>1 DEF Tiles
<1>8. b \notin strayed /\ bk[b].status = "CheckedOut" /\ LiveIn(legs[b]) = {} => a = e
  <2>1. SUFFICES ASSUME b \notin strayed, bk[b].status = "CheckedOut", LiveIn(legs[b]) = {}, a # e
                 PROVE  FALSE
    OBVIOUS
  <2>2. a \in a .. e - 1
    BY <1>1, <1>2, <2>1
  <2>3. QED
    BY <1>6, <2>1, <2>2 DEF Tiles
<1> SUFFICES /\ ms \in LegRows /\ DOMAIN legs[b] \subseteq DOMAIN ms
             /\ b \notin strayed => Tiles(ms, LiveIn(ms), a, g)
  <2>1. RowsKept(b, ms)
    BY DEF RowsKept
  <2>2. b \notin strayed => Slept(x, ms)
    BY <1>4, LiveSlept
  <2>3. QED
    BY <1>4, <1>5, <2>1, <2>2, OneBooking
<1>9. CASE ms = Stretched(b) /\ bk[b].status # "Cancelled" /\ a < e
  <2>1. IsStretch(legs[b], e, g, ms)
    BY <1>1, <1>2, <1>9, StretchedStretches
  <2>2. b \notin strayed => Tiles(ms, LiveIn(ms), a, g)
    BY <1>1, <1>2, <1>6, <1>9, <2>1, StretchSleeps
  <2>3. QED
    BY <2>1, <2>2 DEF IsStretch
<1>10. CASE /\ ms = Restored(b)
            /\ \/ LiveRows(b) = {} /\ bk[b].status = "CheckedOut"
               \/ bk[b].status = "Cancelled"
  <2>1. IsRestored(legs[b], ms)
    BY <1>1, <1>10, RestoredRestores
  <2>2. b \notin strayed => LiveIn(legs[b]) = {} /\ Tiles(legs[b], LastIn(legs[b]), a, g)
    BY <1>1, <1>8, <1>10 DEF Slept
  <2>3. b \notin strayed => Tiles(ms, LiveIn(ms), a, g)
    BY <1>1, <2>1, <2>2, RestoreSleeps
  <2>4. QED
    BY <2>1, <2>3 DEF IsRestored
<1>11. CASE /\ ms = legs[b] /\ bk[b].status # "Cancelled"
            /\ (LiveRows(b) # {} /\ ~(a < e /\ e < g)) \/ e = g
  <2>1. b \notin strayed => e = g
    BY <1>1, <1>2, <1>7, <1>11
  <2>2. QED
    BY <1>1, <1>6, <1>11, <2>1
<1>12. QED
  BY <1>9, <1>10, <1>11

LEMMA UndoCheckOutStep ==
    ASSUME IInv, NEW b \in Bookings, UndoCheckOut(b)
    PROVE  IInv'
<1> DEFINE cut == bk[b].checkin < bk[b].until /\ bk[b].until < bk[b].checkout
<1>1. PICK ms : ms = CASE cut -> Stretched(b)
                       [] ~cut /\ LiveRows(b) = {} -> Restored(b)
                       [] OTHER -> legs[b]
  OBVIOUS
<1>2. legs' = [legs EXCEPT ![b] = ms]
  BY <1>1 DEF UndoCheckOut, TakeBack, IInv, Rowed
<1>3. /\ bk[b].status = "CheckedOut" /\ Unlocked(b) /\ Stayed
      /\ bk' = [bk EXCEPT ![b] = [Whole(bk[b]) EXCEPT !.status = "CheckedIn"]]
  BY DEF UndoCheckOut, Stayed
<1>4. \/ ms = Stretched(b) /\ cut
      \/ ms = Restored(b) /\ LiveRows(b) = {} /\ ~cut
      \/ ms = legs[b] /\ LiveRows(b) # {} /\ ~cut
  BY <1>1
<1>5. QED
  BY <1>2, <1>3, <1>4, ComesBack DEF Live

LEMMA ReinstateStep ==
    ASSUME IInv, NEW b \in Bookings, Reinstate(b)
    PROVE  IInv'
<1>1. PICK ms : ms = CASE bk[b].status = "Cancelled" -> Restored(b)
                       [] bk[b].status = "NoShow" /\ bk[b].until < bk[b].checkout -> Stretched(b)
                       [] OTHER -> legs[b]
  OBVIOUS
<1>2. legs' = [legs EXCEPT ![b] = ms]
  BY <1>1 DEF Reinstate, IInv, Rowed
<1>3. /\ bk[b].status \in {"Cancelled", "NoShow"} /\ Unlocked(b) /\ Stayed
      /\ bk' = [bk EXCEPT ![b] = [Whole(bk[b]) EXCEPT !.status = "Approved"]]
  BY DEF Reinstate, Stayed
<1>4. /\ bk[b].checkin \in Int /\ bk[b].until \in Int /\ bk[b].checkout \in Int
      /\ Dated(bk[b])
  BY BookedFacts
<1>5. \/ ms = Restored(b) /\ bk[b].status = "Cancelled"
      \/ ms = Stretched(b) /\ bk[b].status = "NoShow" /\ bk[b].checkin < bk[b].until
      \/ ms = legs[b] /\ bk[b].status = "NoShow" /\ bk[b].until = bk[b].checkout
  BY <1>1, <1>3, <1>4 DEF Dated
<1>6. QED
  BY <1>2, <1>3, <1>5, ComesBack DEF Live

LEMMA AmendStep ==
    ASSUME IInv, NEW b \in Bookings, NEW s \in Stays[b], Amend(b, s)
    PROVE  IInv'
<1>1. /\ s[1] \in Dates /\ s[2] \in Dates /\ s[1] < s[2] /\ s[1] \in Int /\ s[2] \in Int
  <2>1. s \in Dates \X Dates /\ s[1] < s[2]
    BY RoomsAssumption DEF Spans
  <2>2. QED
    BY <2>1, DatesAreIntegers
<1>2. /\ bk[b] \in Booking /\ legs[b] \in LegRows /\ Rows(b) = DOMAIN legs[b]
      /\ LiveRows(b) = LiveIn(legs[b])
  BY BookedFacts
<1>3. PICK x : x = [bk[b] EXCEPT !.checkin = s[1], !.checkout = s[2], !.until = s[2]]
  OBVIOUS
<1>4. PICK ms : ms = [i \in Rows(b) |->
           IF i \in LiveRows(b) THEN [legs[b][i] EXCEPT !.from = s[1], !.to = s[2]] ELSE legs[b][i]]
  OBVIOUS
<1>5. /\ bk[b].status = "Approved" /\ Unlocked(b) /\ Stayed
      /\ Cardinality(LiveRows(b)) <= 1
      /\ bk' = [bk EXCEPT ![b] = x] /\ legs' = [legs EXCEPT ![b] = ms]
  BY <1>3, <1>4 DEF Amend, Stayed
<1>6. /\ x \in Booking /\ x.status = "Approved" /\ x.checkin = s[1] /\ x.checkout = s[2]
      /\ x.until = s[2]
  BY <1>1, <1>2, <1>3, <1>5 DEF Booking
<1>7. ASSUME NEW i \in DOMAIN legs[b]
      PROVE  /\ ms[i] \in Leg /\ ms[i].from < ms[i].to
             /\ ms[i].released = legs[b][i].released
             /\ i \in LiveRows(b) => ms[i].from = s[1] /\ ms[i].to = s[2]
  <2>1. legs[b][i] \in Leg /\ legs[b][i].from < legs[b][i].to
    BY <1>2, RowFacts
  <2>2. CASE i \in LiveRows(b)
    <3>1. ms[i] = [legs[b][i] EXCEPT !.from = s[1], !.to = s[2]]
      BY <1>2, <1>4, <2>2
    <3>2. /\ ms[i] \in Leg /\ ms[i].from = s[1] /\ ms[i].to = s[2]
          /\ ms[i].released = legs[b][i].released
      BY <1>1, <2>1, <3>1 DEF Leg
    <3>3. QED
      BY <1>1, <3>2
  <2>3. CASE i \notin LiveRows(b)
    <3>1. ms[i] = legs[b][i]
      BY <1>2, <1>4, <2>3
    <3>2. QED
      BY <2>1, <2>3, <3>1
  <2>4. QED
    BY <2>2, <2>3
<1>8. ms \in LegRows /\ DOMAIN ms = DOMAIN legs[b]
  <2>1. ms = [i \in DOMAIN legs[b] |-> ms[i]]
    BY <1>2, <1>4
  <2>2. \A i \in DOMAIN legs[b] : ms[i] \in Leg /\ ms[i].from < ms[i].to
    BY <1>7
  <2>3. QED
    BY <1>2, <2>1, <2>2, RowsOf
<1>9. LiveIn(ms) = LiveIn(legs[b])
  BY <1>7, <1>8 DEF LiveIn, IsLive
<1>10. \A i, j \in LiveIn(legs[b]) : i = j
  <2>1. IsFiniteSet(LiveIn(legs[b]))
    <3>1. DOMAIN legs[b] = 1 .. Len(legs[b]) /\ Len(legs[b]) \in Int
      BY <1>2, RowFacts
    <3>2. IsFiniteSet(DOMAIN legs[b])
      BY <3>1, FS_Interval
    <3>3. LiveIn(legs[b]) \subseteq DOMAIN legs[b]
      BY <1>2, RowFacts
    <3>4. QED
      BY <3>2, <3>3, FS_Subset
  <2>2. SUFFICES ASSUME NEW i \in LiveIn(legs[b]), NEW j \in LiveIn(legs[b]), i # j PROVE FALSE
    OBVIOUS
  <2>3. Cardinality({i, j}) <= Cardinality(LiveIn(legs[b]))
    <3>1. {i, j} \in SUBSET LiveIn(legs[b])
      OBVIOUS
    <3>2. QED
      BY <2>1, <3>1, FS_Subset
  <2>4. IsFiniteSet({i}) /\ Cardinality({i}) = 1
    BY FS_Singleton
  <2>5. Cardinality({i} \cup {j}) = 2
    BY <2>2, <2>4, FS_AddElement
  <2>6. {i} \cup {j} = {i, j} /\ Cardinality(LiveIn(legs[b])) \in Nat
    BY <2>1, FS_CardinalityType
  <2>7. QED
    BY <1>2, <1>5, <2>3, <2>5, <2>6
<1>11. b \notin strayed => Slept(x, ms)
  <2>1. SUFFICES ASSUME b \notin strayed PROVE Slept(x, ms)
    OBVIOUS
  <2>2. Tiles(legs[b], LiveIn(legs[b]), bk[b].checkin, bk[b].checkout)
    BY <1>5, <2>1, HeldTiles, LiveDates DEF Live
  <2>3. bk[b].checkin \in bk[b].checkin .. bk[b].checkout - 1
    BY <1>5, LiveDates, BookedFacts DEF Live
  <2>4. PICK i : i \in LiveIn(legs[b])
    BY <2>2, <2>3 DEF Tiles
  <2>5. \A j \in LiveIn(ms) : j = i /\ ms[j].from = s[1] /\ ms[j].to = s[2]
    BY <1>2, <1>7, <1>9, <1>10, <2>4, RowFacts
  <2>6. i \in LiveIn(ms)
    BY <1>9, <2>4
  <2>7. Tiles(ms, LiveIn(ms), s[1], s[2])
    BY <1>1, <2>5, <2>6 DEF Tiles, Overlaps
  <2>8. QED
    BY <1>6, <2>7, LiveSlept DEF Live
<1>12. Dated(x) /\ x.status # "none" /\ RowsKept(b, ms)
  BY <1>1, <1>5, <1>6, <1>8 DEF Dated, Live, RowsKept
<1>13. QED
  BY <1>5, <1>6, <1>8, <1>11, <1>12, OneBooking

LEMMA ExtendStep ==
    ASSUME IInv, NEW b \in Bookings, NEW d \in Dates, Extend(b, d)
    PROVE  IInv'
<1> DEFINE e == bk[b].checkout
           last == {i \in LiveRows(b) : legs[b][i].to = e}
<1>1. /\ bk[b] \in Booking /\ legs[b] \in LegRows /\ Rows(b) = DOMAIN legs[b]
      /\ LiveRows(b) = LiveIn(legs[b])
      /\ bk[b].checkin \in Dates /\ e \in Dates /\ bk[b].checkin \in Int /\ e \in Int
      /\ d \in Int
  BY BookedFacts, DatesAreIntegers
<1>2. PICK x : x = [bk[b] EXCEPT !.checkout = d, !.until = d]
  OBVIOUS
<1>3. PICK ms : ms = [i \in Rows(b) |->
           IF i \in last THEN [legs[b][i] EXCEPT !.to = d] ELSE legs[b][i]]
  OBVIOUS
<1>4. /\ bk[b].status = "CheckedIn" /\ Unlocked(b) /\ Stayed /\ d > e
      /\ legs' = [legs EXCEPT ![b] = ms]
  BY <1>3 DEF Extend, Stayed
<1>5. bk' = [bk EXCEPT ![b] = x]
  BY <1>2 DEF Extend, IInv, TypeOK
<1>6. bk[b].checkin < e /\ bk[b].until = e
  BY <1>4, LiveDates DEF Live
<1>7. /\ x \in Booking /\ x.status = "CheckedIn" /\ x.checkin = bk[b].checkin
      /\ x.checkout = d /\ x.until = d
  BY <1>1, <1>2, <1>4 DEF Booking
<1>8. ASSUME NEW i \in DOMAIN legs[b]
      PROVE  /\ ms[i] \in Leg /\ ms[i].from < ms[i].to
             /\ ms[i].from = legs[b][i].from /\ ms[i].released = legs[b][i].released
             /\ ms[i].to = IF IsLive(legs[b][i]) /\ legs[b][i].to = e THEN d ELSE legs[b][i].to
  <2>1. /\ legs[b][i] \in Leg /\ legs[b][i].from < legs[b][i].to
        /\ legs[b][i].from \in Int /\ legs[b][i].to \in Int
    BY <1>1, RowFacts, LegFacts
  <2>2. i \in last <=> (IsLive(legs[b][i]) /\ legs[b][i].to = e)
    BY <1>1 DEF LiveIn
  <2>3. CASE i \in last
    <3>1. ms[i] = [legs[b][i] EXCEPT !.to = d]
      BY <1>1, <1>3, <2>3
    <3>2. /\ ms[i] \in Leg /\ ms[i].to = d /\ ms[i].from = legs[b][i].from
          /\ ms[i].released = legs[b][i].released
      BY <2>1, <3>1, LegCut
    <3>3. legs[b][i].to = e
      BY <2>2, <2>3
    <3>4. QED
      BY <1>1, <1>4, <2>1, <2>2, <2>3, <3>2, <3>3
  <2>4. CASE i \notin last
    <3>1. ms[i] = legs[b][i]
      BY <1>1, <1>3, <2>4
    <3>2. QED
      BY <2>1, <2>2, <2>4, <3>1
  <2>5. QED
    BY <2>3, <2>4
<1>9. ms \in LegRows /\ DOMAIN ms = DOMAIN legs[b]
  <2>1. ms = [i \in DOMAIN legs[b] |-> ms[i]]
    BY <1>1, <1>3
  <2>2. \A i \in DOMAIN legs[b] : ms[i] \in Leg /\ ms[i].from < ms[i].to
    BY <1>8
  <2>3. QED
    BY <1>1, <2>1, <2>2, RowsOf
<1>10. IsStretch(legs[b], e, d, ms)
  BY <1>8, <1>9 DEF IsStretch
<1>11. b \notin strayed => Slept(x, ms)
  <2>1. SUFFICES ASSUME b \notin strayed PROVE Slept(x, ms)
    OBVIOUS
  <2>2. Tiles(legs[b], LiveIn(legs[b]), bk[b].checkin, e)
    BY <1>4, <1>6, <2>1, HeldTiles
  <2>3. Tiles(ms, LiveIn(ms), bk[b].checkin, d)
    BY <1>1, <1>4, <1>6, <1>10, <2>2, StretchSleeps
  <2>4. QED
    BY <1>7, <2>3, LiveSlept DEF Live
<1>12. Dated(x) /\ x.status # "none" /\ RowsKept(b, ms)
  BY <1>1, <1>4, <1>6, <1>7, <1>9 DEF Dated, Live, RowsKept
<1>13. QED
  BY <1>4, <1>5, <1>7, <1>9, <1>11, <1>12, OneBooking

LEMMA ShortenStep ==
    ASSUME IInv, NEW b \in Bookings, NEW d \in Dates, Shorten(b, d)
    PROVE  IInv'
<1>1. /\ bk[b] \in Booking /\ legs[b] \in LegRows
      /\ bk[b].checkin \in Dates /\ bk[b].checkout \in Dates
      /\ bk[b].checkin \in Int /\ bk[b].checkout \in Int /\ d \in Int
  BY BookedFacts, DatesAreIntegers
<1>2. PICK x : x = [bk[b] EXCEPT !.checkout = d, !.until = d]
  OBVIOUS
<1>3. PICK ms : ms = CutLegs(legs[b], d)
  OBVIOUS
<1>4. /\ bk[b].status = "CheckedIn" /\ Unlocked(b) /\ Stayed
      /\ bk[b].checkin < d /\ d < bk[b].checkout
  BY DEF Shorten, Stayed
<1>5. bk' = [bk EXCEPT ![b] = x] /\ legs' = [legs EXCEPT ![b] = ms]
  BY <1>2, <1>3 DEF Shorten, IInv, TypeOK, Rowed
<1>6. /\ x \in Booking /\ x.status = "CheckedIn" /\ x.checkin = bk[b].checkin
      /\ x.checkout = d /\ x.until = d
  BY <1>1, <1>2, <1>4 DEF Booking
<1>7. ms \in LegRows /\ DOMAIN ms = DOMAIN legs[b]
  <2>1. IsCut(legs[b], d, ms)
    BY <1>1, <1>3, CutEnds
  <2>2. QED
    BY <2>1 DEF IsCut
<1>8. b \notin strayed => Slept(x, ms)
  <2>1. SUFFICES ASSUME b \notin strayed PROVE Slept(x, ms)
    OBVIOUS
  <2>2. Tiles(legs[b], LiveIn(legs[b]), bk[b].checkin, bk[b].checkout)
    BY <1>4, <2>1, HeldTiles, LiveDates DEF Live
  <2>3. Tiles(ms, LiveIn(ms), bk[b].checkin, d)
    BY <1>1, <1>3, <1>4, <2>2, CutTiles
  <2>4. QED
    BY <1>6, <2>3, LiveSlept DEF Live
<1>9. Dated(x) /\ x.status # "none" /\ RowsKept(b, ms)
  BY <1>1, <1>4, <1>6, <1>7 DEF Dated, Live, RowsKept
<1>10. QED
  BY <1>5, <1>4, <1>6, <1>7, <1>8, <1>9, OneBooking

-----------------------------------------------------------------------------
(* Requests, planned moves and blocks.                                     *)

Requests == [step : {"idle", "loaded", "checked"}, b : Bookings, i : 1 .. MaxLegs,
             unit : Units \cup {NoUnit}, date : 0 .. Horizon, inHouse : BOOLEAN]

LEMMA NoReqType ==
    NoReq \in Requests /\ NoReq.step = "idle"
<1>1. (CHOOSE b \in Bookings : TRUE) \in Bookings
  BY RoomsAssumption
<1>2. 1 \in 1 .. MaxLegs /\ 0 \in 0 .. Horizon
  BY RoomsAssumption
<1>3. QED
  BY <1>1, <1>2 DEF NoReq, Requests

\* A step that leaves the bookings and their legs alone.
LEMMA ElsewhereStep ==
    ASSUME IInv, UNCHANGED <<bk, legs, today, strayed>>,
           blocks' \subseteq Block,
           IsFiniteSet(moves'), moves' \subseteq Move, Cardinality(moves') <= MaxMoves,
           \A m \in moves' : m.leg \in Rows(m.b),
           req' \in Requests, Requested',
           blocking'.old \in Block \cup {NoBlock}, blocking'.new \in Block \cup {NoBlock},
           blocking' = NoBlocking \/ blocking'.new \in Block
    PROVE  IInv'
<1>1. TypeOK'
  BY DEF IInv, TypeOK, Requests, Rows
<1>2. Rowed'
  BY DEF IInv, Rowed
<1>3. Planned' /\ Barred'
  BY DEF Planned, Barred, Rows
<1>4. QED
  BY <1>1, <1>2, <1>3 DEF IInv

\* What of the invariant a step that leaves the moves, the request or the block alone still has.
LEMMA StillThere ==
    ASSUME IInv
    PROVE  /\ blocks \subseteq Block
           /\ IsFiniteSet(moves) /\ moves \subseteq Move /\ Cardinality(moves) <= MaxMoves
           /\ Cardinality(moves) \in Nat
           /\ \A m \in moves : m.leg \in Rows(m.b)
           /\ req \in Requests
           /\ blocking.old \in Block \cup {NoBlock} /\ blocking.new \in Block \cup {NoBlock}
           /\ blocking = NoBlocking \/ blocking.new \in Block
BY FS_CardinalityType DEF IInv, TypeOK, Planned, Barred, Requests

LEMMA BeginStep ==
    ASSUME IInv, NEW b \in Bookings, NEW i \in Rows(b), Begin(b, i)
    PROVE  IInv'
<1>1. req' = [NoReq EXCEPT !.step = "loaded", !.b = b, !.i = i,
                           !.inHouse = bk[b].status = "CheckedIn"]
  BY DEF Begin
<1>2. i \in 1 .. MaxLegs
  <2>1. legs[b] \in LegRows /\ i \in DOMAIN legs[b]
    BY BookedFacts DEF Rows
  <2>2. QED
    BY <2>1, RowFacts, RoomsAssumption
<1>3. req' \in Requests /\ req'.step = "loaded" /\ req'.b = b /\ req'.i = i
  BY <1>1, <1>2, NoReqType DEF Requests
<1>4. Requested'
  BY <1>3 DEF Requested, Begin, Rows
<1>5. QED
  BY <1>3, <1>4, StillThere, ElsewhereStep DEF Begin

LEMMA LookStep ==
    ASSUME IInv, NEW u \in Units, NEW d \in Nights, Look(u, d)
    PROVE  IInv'
<1>1. /\ req.step = "loaded" /\ req' = [req EXCEPT !.step = "checked", !.unit = u, !.date = d]
      /\ UNCHANGED <<bk, legs, blocks, moves, blocking, today, strayed>>
  BY DEF Look
<1>2. req.b \in Bookings /\ req.i \in DOMAIN legs[req.b] /\ req.inHouse \in BOOLEAN
  BY <1>1, RequestType DEF IInv, Requested, Rows
<1>3. /\ Asked \in Leg /\ Asked.from < Asked.to /\ Asked.from \in Int /\ Asked.to \in Int
      /\ d \in Int /\ d \in 0 .. Horizon /\ today \in Int
  BY <1>2, BookedFacts, RowFacts, LegFacts, DatesAreIntegers DEF Asked, Nights
<1>4. Asked.from <= d /\ d < Asked.to
  <2>1. CASE d = Asked.from
    BY <1>3, <2>1
  <2>2. CASE CanMoveOn(d)
    BY <2>2 DEF CanMoveOn
  <2>3. CASE d = FirstMoved /\ (req.inHouse => CanMoveOn(d))
    BY <1>2, <2>1, <2>2, <2>3 DEF FirstMoved
  <2>4. QED
    BY <2>1, <2>2, <2>3 DEF Look
<1>5. req' \in Requests /\ req'.b = req.b /\ req'.i = req.i /\ req'.unit = u /\ req'.date = d
  BY <1>1, <1>3, StillThere DEF Requests
<1>6. Requested'
  <2>1. Asked' = Asked
    BY <1>1, <1>5 DEF Asked
  <2>2. QED
    BY <1>1, <1>2, <1>4, <1>5, <2>1 DEF Requested, Rows
<1>7. QED
  BY <1>1, <1>5, <1>6, StillThere, ElsewhereStep

LEMMA RefuseStep ==
    ASSUME IInv, Refuse
    PROVE  IInv'
<1>1. req' \in Requests /\ Requested'
  BY NoReqType DEF Refuse, Requested
<1>2. QED
  BY <1>1, StillThere, ElsewhereStep DEF Refuse

LEMMA PlanMoveStep ==
    ASSUME IInv, NEW u \in Units, NEW d \in Nights, PlanMove(u, d)
    PROVE  IInv'
<1> DEFINE h == [b |-> req.b, leg |-> req.i, from |-> Asked.unit, to |-> u, date |-> d]
<1>1. /\ req.step = "loaded" /\ Asked.unit # NoUnit /\ Cardinality(moves) < MaxMoves
      /\ moves' = moves \cup {h} /\ req' = NoReq
      /\ UNCHANGED <<bk, legs, blocks, blocking, today, strayed>>
  BY DEF PlanMove
<1>2. req.b \in Bookings /\ req.i \in DOMAIN legs[req.b] /\ req.i \in 1 .. MaxLegs
  BY <1>1, RequestType DEF IInv, Requested, Rows
<1>3. Asked.unit \in Units /\ d \in Dates
  BY <1>1, <1>2, BookedFacts, RowFacts, LegFacts, DatesAreIntegers DEF Asked
<1>4. h \in Move /\ h.b = req.b /\ h.leg = req.i
  BY <1>2, <1>3 DEF Move
<1> HIDE DEF h
<1>5. moves' \subseteq Move /\ \A m \in moves' : m.leg \in Rows(m.b)
  BY <1>1, <1>2, <1>4, StillThere DEF Rows
<1>6. IsFiniteSet(moves') /\ Cardinality(moves') <= MaxMoves
  <2>1. /\ IsFiniteSet(moves \cup {h})
        /\ Cardinality(moves \cup {h}) = IF h \in moves THEN Cardinality(moves)
                                                       ELSE Cardinality(moves) + 1
    BY StillThere, FS_AddElement
  <2>2. QED
    BY <1>1, <2>1, StillThere, RoomsAssumption
<1>7. req' \in Requests /\ Requested'
  BY <1>1, NoReqType DEF Requested
<1>8. QED
  BY <1>1, <1>5, <1>6, <1>7, StillThere, ElsewhereStep

LEMMA StopMoveStep ==
    ASSUME IInv, NEW m \in moves, StopMove(m)
    PROVE  IInv'
<1>1. /\ moves' = moves \ {m}
      /\ UNCHANGED <<bk, legs, blocks, req, blocking, today, strayed>>
  BY DEF StopMove
<1>2. IsFiniteSet(moves') /\ Cardinality(moves') <= MaxMoves
  <2>1. /\ IsFiniteSet(moves \ {m})
        /\ Cardinality(moves \ {m}) = Cardinality(moves) - 1
    BY StillThere, FS_RemoveElement
  <2>2. QED
    BY <1>1, <2>1, StillThere, RoomsAssumption
<1>3. Requested'
  BY <1>1 DEF IInv, Requested, Asked, Rows
<1>4. moves' \subseteq Move /\ \A h \in moves' : h.leg \in Rows(h.b)
  BY <1>1, StillThere
<1>5. QED
  BY <1>1, <1>2, <1>3, <1>4, StillThere, ElsewhereStep

LEMMA SameRequest ==
    ASSUME IInv, UNCHANGED <<bk, legs, req>>
    PROVE  Requested'
BY DEF IInv, Requested, Asked, Rows

LEMMA BeginBlockStep ==
    ASSUME IInv, NEW u \in Units, NEW s \in BlockSpans, NEW old \in blocks \cup {NoBlock},
           BeginBlock(old, [unit |-> u, from |-> s[1], to |-> s[2]])
    PROVE  IInv'
<1> DEFINE x == [unit |-> u, from |-> s[1], to |-> s[2]]
<1>1. s[1] \in Dates /\ s[2] \in Dates
  BY RoomsAssumption DEF Spans
<1>2. x \in Block
  BY <1>1 DEF Block
<1>3. /\ blocking' = [old |-> old, new |-> x]
      /\ UNCHANGED <<bk, legs, blocks, moves, req, today, strayed>>
  BY DEF BeginBlock
<1> HIDE DEF x
<1>4. /\ blocking'.old \in Block \cup {NoBlock} /\ blocking'.new \in Block
  BY <1>2, <1>3, StillThere
<1>5. QED
  BY <1>3, <1>4, SameRequest, StillThere, ElsewhereStep

LEMMA WriteBlockStep ==
    ASSUME IInv, WriteBlock
    PROVE  IInv'
<1>1. /\ blocking # NoBlocking /\ blocking' = NoBlocking
      /\ UNCHANGED <<bk, legs, moves, req, today, strayed>>
      /\ blocks' \subseteq blocks \cup {blocking.new}
  BY DEF WriteBlock
<1>2. blocks' \subseteq Block
  BY <1>1, StillThere
<1>3. NoBlocking.old = NoBlock /\ NoBlocking.new = NoBlock
  BY DEF NoBlocking
<1>4. QED
  BY <1>1, <1>2, <1>3, SameRequest, StillThere, ElsewhereStep

LEMMA LiftBlockStep ==
    ASSUME IInv, NEW x \in blocks, LiftBlock(x)
    PROVE  IInv'
<1>1. /\ blocks' = blocks \ {x}
      /\ UNCHANGED <<bk, legs, moves, req, blocking, today, strayed>>
  BY DEF LiftBlock
<1>2. QED
  BY <1>1, SameRequest, StillThere, ElsewhereStep

LEMMA MidnightStep ==
    ASSUME IInv, Midnight
    PROVE  IInv'
<1>1. /\ bk' = [b \in Bookings |-> [bk[b] EXCEPT !.out = FALSE]] /\ today < Horizon
      /\ today' = today + 1 /\ UNCHANGED <<legs, blocks, moves, req, blocking, strayed>>
  BY DEF Midnight
<1>2. today' \in Nights
  BY <1>1, DatesAreIntegers DEF IInv, TypeOK, Nights
<1>3. ASSUME NEW b \in Bookings
      PROVE  /\ bk'[b] \in Booking
             /\ Dated(bk'[b])
             /\ bk'[b].status = "none" => legs'[b] = <<>>
             /\ b \notin strayed => Slept(bk'[b], legs'[b])
             /\ RowsKept(b, legs'[b])
  <2>1. PICK x : x = [bk[b] EXCEPT !.out = FALSE]
    OBVIOUS
  <2>2. bk[b] \in Booking /\ legs[b] \in LegRows
    BY BookedFacts
  <2>3. /\ x \in Booking /\ x.status = bk[b].status /\ x.checkin = bk[b].checkin
        /\ x.checkout = bk[b].checkout /\ x.until = bk[b].until
    BY <2>1, <2>2 DEF Booking
  <2>4. bk'[b] = x /\ legs'[b] = legs[b]
    BY <1>1, <2>1
  <2>5. Dated(x) /\ (b \notin strayed => Slept(x, legs[b])) /\ RowsKept(b, legs[b])
    BY <2>2, <2>3, RoomsOnly
  <2>6. QED
    BY <2>3, <2>4, <2>5, BookedFacts
<1>4. bk' \in [Bookings -> Booking] /\ legs' \in [Bookings -> LegRows]
  BY <1>1, <1>3 DEF IInv, Rowed
<1>5. QED
  BY <1>1, <1>2, <1>3, <1>4, BookingsStep

LEMMA Begins == Init => IInv
<1> SUFFICES ASSUME Init PROVE IInv
  OBVIOUS
<1>1. 1 \in Dates /\ 1 \in Nights
  BY RoomsAssumption DEF Dates, Nights
<1>2. bk \in [Bookings -> Booking] /\ \A b \in Bookings : bk[b].status = "none"
  BY <1>1, StatusIn DEF Init, Booking
<1>3. <<>> \in LegRows /\ legs \in [Bookings -> LegRows] /\ \A b \in Bookings : legs[b] = <<>>
  BY RoomsAssumption DEF Init, LegRows
<1>4. Rowed
  BY <1>2, <1>3 DEF Rowed, Dated, Slept, Live
<1>5. IsFiniteSet(moves) /\ Cardinality(moves) = 0 /\ moves = {}
  BY FS_EmptySet DEF Init
<1>6. TypeOK
  <2>1. \A b \in Bookings : /\ legs[b] \in Seq(Leg) /\ Len(legs[b]) <= MaxLegs
                            /\ \A i \in DOMAIN legs[b] : legs[b][i].from < legs[b][i].to
    BY <1>3, TypedRows
  <2>2. req \in Requests
    BY NoReqType DEF Init
  <2>3. blocking.old = NoBlock /\ blocking.new = NoBlock /\ blocks = {} /\ strayed = {} /\ today = 1
    BY DEF Init, NoBlocking
  <2>4. QED
    BY <1>1, <1>2, <1>5, <2>1, <2>2, <2>3, RoomsAssumption DEF TypeOK, Rows, Requests
<1>7. Requested /\ Planned /\ Barred
  BY <1>5, NoReqType DEF Init, Requested, Planned, Barred
<1>8. QED
  BY <1>4, <1>6, <1>7 DEF IInv

-----------------------------------------------------------------------------
(* A leg is split, or gets another room.                                   *)

\* A row in force is split within the nights its booking holds; one that is not is another matter.
LEMMA SplitSleeps ==
    ASSUME IInv, NEW b \in Bookings, NEW i \in Rows(b), NEW u \in Units, NEW d \in Dates,
           d < legs[b][i].to, CanSplit(b, i, u, d), NEW ms, ms = Split(b, i, u, d)
    PROVE  /\ ms \in LegRows /\ DOMAIN legs[b] \subseteq DOMAIN ms
           /\ bk[b].status # "none"
           /\ d > legs[b][i].from => /\ Len(legs[b]) + 1 \in DOMAIN ms
                                     /\ Len(legs[b]) + 1 \in 1 .. MaxLegs
           /\ b \notin strayed /\ (IsLive(legs[b][i]) \/ ~(d > legs[b][i].from))
                  => Slept(bk[b], ms)
<1>1. /\ legs[b] \in LegRows /\ i \in DOMAIN legs[b] /\ bk[b] \in Booking
      /\ bk[b].checkin \in Dates /\ bk[b].until \in Dates
      /\ bk[b].checkin \in Int /\ bk[b].until \in Int
      /\ bk[b].status = "none" => legs[b] = <<>>
      /\ b \notin strayed => Slept(bk[b], legs[b])
  BY BookedFacts
<1>2. bk[b].status # "none"
  <2>1. legs[b] = <<>> => DOMAIN legs[b] = {}
    OBVIOUS
  <2>2. QED
    BY <1>1, <2>1
<1>3. CASE d > legs[b][i].from
  <2>1. ms = SplitRows(legs[b], i, u, d) /\ Len(legs[b]) < MaxLegs
    BY <1>3 DEF Split, SplitRows, CanSplit
  <2>2. IsSplit(legs[b], i, u, d, ms)
    BY <1>1, <1>3, <2>1, SplitEnds
  <2>3. /\ ms \in LegRows /\ DOMAIN legs[b] \subseteq DOMAIN ms
        /\ Len(legs[b]) + 1 \in DOMAIN ms /\ Len(legs[b]) + 1 \in 1 .. MaxLegs
    BY <2>2 DEF IsSplit
  <2>4. ASSUME b \notin strayed, IsLive(legs[b][i])
        PROVE  Slept(bk[b], ms)
    <3>1. i \in LiveIn(legs[b])
      BY <1>1, <2>4 DEF LiveIn
    <3>2. bk[b].status # "Cancelled"
      BY <1>1, <2>4, <3>1 DEF Slept
    <3>3. Tiles(legs[b], LiveIn(legs[b]), bk[b].checkin, bk[b].until)
      BY <1>2, <2>4, <3>2, HeldTiles
    <3>4. Tiles(ms, LiveIn(ms), bk[b].checkin, bk[b].until)
      BY <1>1, <1>3, <2>1, <2>4, <3>3, SplitTiles
    <3>5. bk[b].until # bk[b].checkin
      <4>1. /\ legs[b][i].from \in Int /\ legs[b][i].to \in Int
            /\ legs[b][i].from < legs[b][i].to
        BY <1>1, RowFacts, LegFacts
      <4>2. QED
        BY <1>1, <3>1, <3>3, <4>1 DEF Tiles
    <3>6. QED
      BY <3>2, <3>4, <3>5 DEF Slept
  <2>5. QED
    BY <1>2, <1>3, <2>3, <2>4
<1>4. CASE ~(d > legs[b][i].from)
  <2>1. ms = [legs[b] EXCEPT ![i].unit = u]
    BY <1>4 DEF Split
  <2>2. IsReRoomed(legs[b], i, u, ms)
    BY <1>1, <2>1, ReRoomed
  <2>3. /\ ms \in LegRows /\ DOMAIN ms = DOMAIN legs[b]
        /\ \A k \in DOMAIN legs[b] :
               /\ ms[k].from = legs[b][k].from /\ ms[k].to = legs[b][k].to
               /\ ms[k].released = legs[b][k].released
    BY <2>2 DEF IsReRoomed
  <2>4. b \notin strayed => Slept(bk[b], ms)
    BY <1>1, <2>3, RoomsOnly
  <2>5. QED
    BY <1>2, <1>4, <2>3, <2>4
<1>5. QED
  BY <1>3, <1>4

LEMMA SplitStep ==
    ASSUME IInv, NEW b \in Bookings, NEW i \in Rows(b), NEW u \in Units, NEW d \in Dates,
           d < legs[b][i].to, CanSplit(b, i, u, d), UNCHANGED bk,
           legs' = [legs EXCEPT ![b] = Split(b, i, u, d)],
           strayed \subseteq strayed', strayed' \subseteq Bookings,
           d > legs[b][i].from /\ ~IsLive(legs[b][i]) => b \in strayed'
    PROVE  /\ Rowed' /\ \A c \in Bookings \ {b} : legs'[c] = legs[c]
           /\ \A c \in Bookings : DOMAIN legs[c] \subseteq DOMAIN legs'[c]
           /\ d > legs[b][i].from => /\ Len(legs[b]) + 1 \in DOMAIN legs'[b]
                                     /\ Len(legs[b]) + 1 \in 1 .. MaxLegs
<1>1. PICK ms : ms = Split(b, i, u, d)
  OBVIOUS
<1>2. /\ ms \in LegRows /\ DOMAIN legs[b] \subseteq DOMAIN ms
      /\ bk[b].status # "none"
      /\ d > legs[b][i].from => /\ Len(legs[b]) + 1 \in DOMAIN ms
                                /\ Len(legs[b]) + 1 \in 1 .. MaxLegs
      /\ b \notin strayed /\ (IsLive(legs[b][i]) \/ ~(d > legs[b][i].from))
             => Slept(bk[b], ms)
  BY <1>1, SplitSleeps
<1>3. /\ legs' \in [Bookings -> LegRows] /\ legs'[b] = ms
      /\ \A c \in Bookings \ {b} : legs'[c] = legs[c]
  BY <1>1, <1>2 DEF IInv, Rowed
<1>4. ASSUME NEW c \in Bookings
      PROVE  /\ Dated(bk'[c])
             /\ bk'[c].status = "none" => legs'[c] = <<>>
             /\ c \notin strayed' => Slept(bk'[c], legs'[c])
  <2>1. CASE c = b
    BY <1>2, <1>3, <2>1, BookedFacts
  <2>2. CASE c # b
    BY <1>3, <2>2, BookedFacts
  <2>3. QED
    BY <2>1, <2>2
<1>5. Rowed'
  BY <1>3, <1>4 DEF Rowed
<1>6. QED
  BY <1>2, <1>3, <1>5

\* The invariant of a step that splits a leg and keeps the rest in order.
LEMMA SplitMeets ==
    ASSUME IInv, Rowed', UNCHANGED <<bk, blocks, blocking, today>>, strayed' \subseteq Bookings,
           IsFiniteSet(moves'), moves' \subseteq Move, Cardinality(moves') <= MaxMoves,
           \A m \in moves' : m.leg \in DOMAIN legs'[m.b],
           req' \in Requests, Requested'
    PROVE  IInv'
<1>1. \A b \in Bookings : /\ legs'[b] \in Seq(Leg) /\ Len(legs'[b]) <= MaxLegs
                          /\ \A i \in DOMAIN legs'[b] : legs'[b][i].from < legs'[b][i].to
  BY TypedRows DEF Rowed
<1>2. TypeOK'
  BY <1>1 DEF IInv, TypeOK, Requests, Rows
<1>3. Planned' /\ Barred'
  BY DEF IInv, Planned, Barred, Rows
<1>4. QED
  BY <1>2, <1>3 DEF IInv

LEMMA WriteStep ==
    ASSUME IInv, Write
    PROVE  IInv'
<1>1. PICK b, i, u, d : b = req.b /\ i = req.i /\ u = req.unit /\ d = req.date
  OBVIOUS
<1>2. /\ req.step = "checked" /\ CanSplit(b, i, u, d)
      /\ legs' = [legs EXCEPT ![b] = Split(b, i, u, d)]
      /\ strayed' = IF d > legs[b][i].from THEN Stray(b, i) ELSE strayed
      /\ req' = NoReq /\ UNCHANGED <<bk, blocks, moves, blocking, today>>
  BY <1>1 DEF Write
<1>3. /\ b \in Bookings /\ i \in Rows(b) /\ u \in Units
      /\ legs[b][i].from <= d /\ d < legs[b][i].to /\ d \in Int
  BY <1>1, <1>2, RequestType DEF IInv, Requested, Asked
<1>4. d \in Dates
  <2>1. legs[b][i].from \in Dates /\ legs[b][i].to \in Dates
    BY <1>3, BookedFacts, RowFacts, LegFacts
  <2>2. QED
    BY <1>3, <2>1, RoomsAssumption DEF Dates
<1>5. /\ strayed \subseteq strayed' /\ strayed' \subseteq Bookings
      /\ d > legs[b][i].from /\ ~IsLive(legs[b][i]) => b \in strayed'
  BY <1>2, <1>3 DEF Stray, IInv, TypeOK
<1>6. Rowed' /\ \A c \in Bookings : DOMAIN legs[c] \subseteq DOMAIN legs'[c]
  BY <1>2, <1>3, <1>4, <1>5, SplitStep
<1>7. \A m \in moves : m.leg \in DOMAIN legs'[m.b]
  <2>1. \A m \in moves : m.b \in Bookings /\ m.leg \in DOMAIN legs[m.b]
    BY StillThere DEF Move, Rows
  <2>2. QED
    BY <1>6, <2>1
<1>8. req' \in Requests /\ Requested'
  BY <1>2, NoReqType DEF Requested
<1>9. QED
  BY <1>2, <1>5, <1>6, <1>7, <1>8, StillThere, SplitMeets

\* Moves that go on from the new row are no more than those there were.
LEMMA RelinkedFits ==
    ASSUME IInv, NEW m \in moves, NEW new \in 1 .. MaxLegs, NEW S, S = Relinked(m, new)
    PROVE  /\ IsFiniteSet(S) /\ Cardinality(S) <= MaxMoves /\ S \subseteq Move
           /\ \A h \in S : \/ h \in moves
                           \/ h.b = m.b /\ h.leg = new
<1> DEFINE T == moves \ {m}
           f == [h \in T |-> IF h.b = m.b /\ h.leg = m.leg /\ h.date > m.date
                             THEN [h EXCEPT !.leg = new] ELSE h]
<1>1. \A h \in T : /\ f[h] \in Move
                   /\ \/ f[h] \in moves
                      \/ f[h].b = m.b /\ f[h].leg = new
  <2>1. SUFFICES ASSUME NEW h \in T
                 PROVE  /\ f[h] \in Move
                        /\ \/ f[h] \in moves
                           \/ f[h].b = m.b /\ f[h].leg = new
    OBVIOUS
  <2>2. h \in Move /\ h \in moves
    BY StillThere
  <2>3. CASE h.b = m.b /\ h.leg = m.leg /\ h.date > m.date
    <3>1. f[h] = [h EXCEPT !.leg = new]
      BY <2>3
    <3>2. f[h] \in Move /\ f[h].b = h.b /\ f[h].leg = new
      BY <2>2, <3>1 DEF Move
    <3>3. QED
      BY <2>3, <3>2
  <2>4. CASE ~(h.b = m.b /\ h.leg = m.leg /\ h.date > m.date)
    BY <2>2, <2>4
  <2>5. QED
    BY <2>3, <2>4
<1>2. S = {f[h] : h \in T}
  BY DEF Relinked
<1>3. IsFiniteSet(T) /\ Cardinality(T) <= MaxMoves
  <2>1. IsFiniteSet(T) /\ Cardinality(T) = Cardinality(moves) - 1
    BY StillThere, FS_RemoveElement
  <2>2. QED
    BY <2>1, StillThere, RoomsAssumption
<1>4. f \in Surjection(T, S)
  <2>1. f \in [T -> S]
    BY <1>2
  <2>2. \A t \in S : \E h \in T : f[h] = t
    BY <1>2
  <2>3. QED
    BY <2>1, <2>2 DEF Surjection
<1> HIDE DEF f, T
<1>5. IsFiniteSet(S) /\ Cardinality(S) <= Cardinality(T)
  BY <1>3, <1>4, FS_Surjection
<1>6. Cardinality(S) <= MaxMoves
  BY <1>3, <1>5, FS_CardinalityType, RoomsAssumption
<1>7. QED
  BY <1>1, <1>2, <1>5, <1>6

LEMMA ApplyMoveStep ==
    ASSUME IInv, NEW m \in moves, ApplyMove(m)
    PROVE  IInv'
<1>1. /\ m \in Move /\ m.b \in Bookings /\ m.leg \in Rows(m.b) /\ m.to \in Units
      /\ m.date \in Dates /\ m.date \in Int
  BY StillThere, DatesAreIntegers DEF Move
<1>2. Unlocked(m.b) /\ UNCHANGED <<bk, blocks, req, blocking, today>>
  BY DEF ApplyMove
<1>3. CASE Outdated(m)
  <2>1. StopMove(m)
    BY <1>2, <1>3 DEF ApplyMove, StopMove
  <2>2. QED
    BY <2>1, StopMoveStep
<1>4. CASE ~Outdated(m)
  <2>1. /\ CanSplit(m.b, m.leg, m.to, m.date)
        /\ legs' = [legs EXCEPT ![m.b] = Split(m.b, m.leg, m.to, m.date)]
        /\ moves' = IF m.date > legs[m.b][m.leg].from
                    THEN Relinked(m, Len(legs[m.b]) + 1) ELSE moves \ {m}
        /\ strayed' = Stray(m.b, m.leg)
    BY <1>4 DEF ApplyMove
  <2>2. m.date < legs[m.b][m.leg].to
    <3>1. legs[m.b][m.leg].to \in Int
      BY <1>1, BookedFacts, RowFacts, LegFacts
    <3>2. QED
      BY <1>1, <1>4, <3>1 DEF Outdated
  <2>3. /\ strayed \subseteq strayed' /\ strayed' \subseteq Bookings
        /\ ~IsLive(legs[m.b][m.leg]) => m.b \in strayed'
    BY <1>1, <2>1 DEF Stray, IInv, TypeOK
  <2>4. /\ Rowed' /\ \A c \in Bookings \ {m.b} : legs'[c] = legs[c]
        /\ \A c \in Bookings : DOMAIN legs[c] \subseteq DOMAIN legs'[c]
        /\ m.date > legs[m.b][m.leg].from =>
               /\ Len(legs[m.b]) + 1 \in DOMAIN legs'[m.b]
               /\ Len(legs[m.b]) + 1 \in 1 .. MaxLegs
    BY <1>1, <1>2, <2>1, <2>2, <2>3, SplitStep
  <2>5. \A h \in moves : h.b \in Bookings /\ h.leg \in DOMAIN legs'[h.b]
    <3>1. \A h \in moves : h.b \in Bookings /\ h.leg \in DOMAIN legs[h.b]
      BY StillThere DEF Move, Rows
    <3>2. QED
      BY <2>4, <3>1
  <2>6. /\ IsFiniteSet(moves') /\ moves' \subseteq Move /\ Cardinality(moves') <= MaxMoves
        /\ \A h \in moves' : h.leg \in DOMAIN legs'[h.b]
    <3>1. CASE m.date > legs[m.b][m.leg].from
      <4>1. PICK new \in 1 .. MaxLegs : new = Len(legs[m.b]) + 1
        BY <2>4, <3>1
      <4>2. moves' = Relinked(m, new)
        BY <2>1, <3>1, <4>1
      <4>3. /\ IsFiniteSet(moves') /\ Cardinality(moves') <= MaxMoves /\ moves' \subseteq Move
            /\ \A h \in moves' : \/ h \in moves
                                 \/ h.b = m.b /\ h.leg = new
        BY <4>2, RelinkedFits
      <4>4. new \in DOMAIN legs'[m.b]
        BY <2>4, <3>1, <4>1
      <4>5. QED
        BY <2>5, <4>3, <4>4
    <3>2. CASE ~(m.date > legs[m.b][m.leg].from)
      <4>1. moves' = moves \ {m}
        BY <2>1, <3>2
      <4>2. IsFiniteSet(moves \ {m}) /\ Cardinality(moves \ {m}) = Cardinality(moves) - 1
        BY StillThere, FS_RemoveElement
      <4>3. Cardinality(moves \ {m}) <= MaxMoves
        BY <4>2, StillThere, RoomsAssumption
      <4>4. QED
        BY <2>5, <4>1, <4>2, <4>3, StillThere
    <3>3. QED
      BY <3>1, <3>2
  <2>7. Requested'
    <3>1. req.b \in Bookings /\ Requested /\ req' = req
      BY <1>2, RequestType DEF IInv
    <3>2. req.step = "checked" => req.b # m.b
      BY <1>2 DEF Unlocked
    <3>3. req.step # "idle" => req.i \in DOMAIN legs'[req.b]
      BY <2>4, <3>1 DEF Requested, Rows
    <3>4. req.step = "checked" => legs'[req.b] = legs[req.b]
      BY <2>4, <3>1, <3>2
    <3>5. QED
      BY <3>1, <3>3, <3>4 DEF Requested, Asked, Rows
  <2>8. req' \in Requests
    BY <1>2, StillThere
  <2>9. QED
    BY <1>2, <2>3, <2>4, <2>6, <2>7, <2>8, SplitMeets
<1>5. QED
  BY <1>3, <1>4

-----------------------------------------------------------------------------
(* The theorems.                                                           *)

LEMMA Stutters ==
    ASSUME IInv, UNCHANGED vars
    PROVE  IInv'
<1>1. UNCHANGED <<bk, legs, blocks, moves, req, blocking, today, strayed>>
  BY DEF vars
<1>2. QED
  BY <1>1, SameRequest, StillThere, ElsewhereStep

LEMMA Keeps == IInv /\ [Next]_vars => IInv'
<1> SUFFICES ASSUME IInv, [Next]_vars PROVE IInv'
  OBVIOUS
<1>1. CASE UNCHANGED vars
  BY <1>1, Stutters
<1>2. ASSUME NEW b \in Bookings, Stay(b)
      PROVE  IInv'
  BY <1>2, CheckInStep, CheckOutStep, UndoCheckOutStep, CreateStep DEF Stay
<1>3. ASSUME NEW b \in Handled, ByHand(b)
      PROVE  IInv'
  <2>1. b \in Bookings
    BY RoomsAssumption
  <2>2. CASE UndoCheckIn(b) \/ Cancel(b) \/ NoShow(b) \/ Reinstate(b)
    BY <2>1, <2>2, UndoCheckInStep, CancelStep, NoShowStep, ReinstateStep
  <2>3. CASE \E s \in Stays[b] : Amend(b, s)
    BY <2>1, <2>3, AmendStep
  <2>4. CASE \E d \in Dates : Extend(b, d) \/ Shorten(b, d)
    BY <2>1, <2>4, ExtendStep, ShortenStep
  <2>5. CASE \E i \in Rows(b) : Unassign(b, i) \/ AutoAssign(b, i) \/ SwitchToClean(b, i)
    BY <2>1, <2>5, UnassignStep, AutoAssignStep, SwitchToCleanStep
  <2>6. CASE \E c \in Bookings : \E i \in Rows(b), j \in Rows(c) : Exchange(b, i, c, j)
    BY <2>1, <2>6, ExchangeStep
  <2>7. CASE \E i \in Rows(b) : Begin(b, i)
    BY <2>1, <2>7, BeginStep
  <2>8. QED
    BY <1>3, <2>2, <2>3, <2>4, <2>5, <2>6, <2>7 DEF ByHand
<1>4. CASE \E u \in Units, d \in Nights : Look(u, d) \/ PlanMove(u, d)
  BY <1>4, LookStep, PlanMoveStep
<1>5. CASE Write \/ Refuse
  BY <1>5, WriteStep, RefuseStep
<1>6. CASE (\E m \in moves : StopMove(m)) \/ Sweep
  BY <1>6, StopMoveStep, ApplyMoveStep DEF Sweep
<1>7. CASE \E u \in Units, s \in BlockSpans, old \in blocks \cup {NoBlock} :
               /\ old.unit \in {u, NoUnit}
               /\ BeginBlock(old, [unit |-> u, from |-> s[1], to |-> s[2]])
  BY <1>7, BeginBlockStep
<1>8. CASE WriteBlock \/ (\E x \in blocks : LiftBlock(x)) \/ Midnight
  BY <1>8, WriteBlockStep, LiftBlockStep, MidnightStep
<1>9. QED
  BY <1>1, <1>2, <1>3, <1>4, <1>5, <1>6, <1>7, <1>8 DEF Next

\* The invariant holds of every step of every behaviour (the whole of Rooms).
THEOREM RoomsInductive == Spec => []IInv
<1>1. Init => IInv
  BY Begins
<1>2. IInv /\ [Next]_vars => IInv'
  BY Keeps
<1>3. QED
  BY <1>1, <1>2, PTL DEF Spec

\* The rows are well formed, and no leg is without a night, whatever cuts, splits and moves it
\* (Split, CutLegs, Stretched, Restored, Relinked), for any bookings, rooms and stays.
THEOREM RoomsTyped == Spec => []TypeOK
<1>1. IInv => TypeOK
  BY DEF IInv
<1>2. QED
  BY <1>1, RoomsInductive, PTL

\* Rows that tile the nights of a booking are one for each night it holds, and none for another.
LEMMA TiledNights ==
    ASSUME NEW ls, NEW S, NEW a \in Int, NEW e \in Int, NEW n \in Int,
           \A i \in S : ls[i].from \in Int /\ ls[i].to \in Int,
           Tiles(ls, S, a, e)
    PROVE  Cardinality({i \in S : Overlaps(ls[i], n, n + 1)})
               = IF a <= n /\ n < e THEN 1 ELSE 0
<1> DEFINE T == {i \in S : Overlaps(ls[i], n, n + 1)}
<1>1. \A i \in T : i \in S /\ ls[i].from <= n /\ n < ls[i].to
  BY DEF Overlaps
<1>2. CASE a <= n /\ n < e
  <2>1. n \in a .. e - 1
    BY <1>2
  <2>2. PICK i \in S : Overlaps(ls[i], n, n + 1)
    BY <2>1 DEF Tiles
  <2>3. ASSUME NEW j \in T, j # i
        PROVE  FALSE
    <3>1. ~(ls[i].from < ls[j].to /\ ls[j].from < ls[i].to)
      BY <1>1, <2>2, <2>3 DEF Tiles, Overlaps
    <3>2. /\ ls[i].from <= n /\ n < ls[i].to /\ ls[j].from <= n /\ n < ls[j].to
      BY <1>1, <2>2
    <3>3. QED
      BY <1>1, <2>2, <3>1, <3>2
  <2>4. T = {i}
    BY <2>2, <2>3
  <2>5. QED
    BY <1>2, <2>4, FS_Singleton
<1>3. CASE ~(a <= n /\ n < e)
  <2>1. T = {}
    BY <1>1, <1>3 DEF Tiles
  <2>2. QED
    BY <1>3, <2>1, FS_EmptySet
<1>4. QED
  BY <1>2, <1>3

\* The legs in force say of every night a booking holds in which one room it is slept, and keep
\* no room on any other night, whatever the desk cancels, undoes, moves and cuts, but for a leg
\* moved after it had been freed: for any bookings, rooms, stays and number of legs.
THEOREM EveryNightIsSlept == Spec => []NightsHaveOneLeg
<1>1. IInv => NightsHaveOneLeg
  <2>1. SUFFICES ASSUME IInv, NEW b \in Bookings \ strayed, NEW n \in Nights
                 PROVE  Cardinality({i \in LiveRows(b) : Overlaps(legs[b][i], n, n + 1)})
                            = (IF n \in Held(b) THEN 1 ELSE 0)
    BY DEF NightsHaveOneLeg
  <2>2. /\ legs[b] \in LegRows /\ Slept(bk[b], legs[b]) /\ LiveRows(b) = LiveIn(legs[b])
        /\ bk[b].checkin \in Int /\ bk[b].until \in Int /\ n \in Int
        /\ bk[b].status = "none" => legs[b] = <<>>
    BY <2>1, BookedFacts, DatesAreIntegers
  <2>3. CASE bk[b].status \in {"none", "Cancelled"}
    <3>1. Held(b) = {}
      BY <2>3 DEF Held
    <3>2. LiveRows(b) = {}
      <4>1. bk[b].status = "none" => DOMAIN legs[b] = {}
        BY <2>2
      <4>2. QED
        BY <2>2, <2>3, <4>1 DEF Slept, LiveIn
    <3>3. {i \in LiveRows(b) : Overlaps(legs[b][i], n, n + 1)} = {}
      BY <3>2
    <3>4. QED
      BY <3>1, <3>3, FS_EmptySet
  <2>4. CASE bk[b].status \notin {"none", "Cancelled"}
    <3>1. Tiles(legs[b], LiveIn(legs[b]), bk[b].checkin, bk[b].until)
      BY <2>2, <2>4 DEF Slept
    <3>2. \A i \in LiveIn(legs[b]) : legs[b][i].from \in Int /\ legs[b][i].to \in Int
      BY <2>2, RowFacts, LegFacts
    <3>3. Cardinality({i \in LiveIn(legs[b]) : Overlaps(legs[b][i], n, n + 1)})
              = IF bk[b].checkin <= n /\ n < bk[b].until THEN 1 ELSE 0
      BY <2>2, <3>1, <3>2, TiledNights
    <3>4. n \in Held(b) <=> bk[b].checkin <= n /\ n < bk[b].until
      BY <2>1, <2>4 DEF Held
    <3>5. QED
      BY <2>2, <3>3, <3>4
  <2>5. QED
    BY <2>3, <2>4
<1>2. QED
  BY <1>1, RoomsInductive, PTL

-----------------------------------------------------------------------------
(* Guests and blocks.                                                      *)

\* The legs ms of booking b take no room on a night it was blocked, but where b had it already.
KeepsApart(b, ms) ==
    \A i \in DOMAIN ms : IsLive(ms[i]) /\ ms[i].unit \in Units =>
        \/ /\ i \in DOMAIN legs[b] /\ IsLive(legs[b][i]) /\ legs[b][i].unit = ms[i].unit
           /\ legs[b][i].from <= ms[i].from /\ ms[i].to <= legs[b][i].to
        \/ ~Blocked(ms[i].unit, ms[i].from, ms[i].to)

NoNewClash == \A u \in Units, n \in Nights : Clash(u, n)' => Clash(u, n)

LEMMA ApartStep ==
    ASSUME IInv, IInv', blocks' \subseteq blocks,
           \A b \in Bookings : KeepsApart(b, legs'[b])
    PROVE  NoNewClash
<1> SUFFICES ASSUME NEW u \in Units, NEW n \in Nights, Clash(u, n)'
             PROVE  Clash(u, n)
  BY DEF NoNewClash
<1>1. n \in Int
  BY DatesAreIntegers
<1>2. PICK x \in blocks' : x.unit = u /\ Overlaps(x, n, n + 1)
  BY DEF Clash, Blocked
<1>3. x \in blocks /\ x.from \in Int /\ x.to \in Int /\ x.from <= n /\ n < x.to
  <2>1. x \in blocks /\ x \in Block
    BY <1>2 DEF IInv, TypeOK
  <2>2. x.from \in Int /\ x.to \in Int
    BY <2>1, DatesAreIntegers DEF Block
  <2>3. QED
    BY <1>1, <1>2, <2>1, <2>2 DEF Overlaps
<1>4. PICK b \in Bookings : \E i \in DOMAIN legs'[b] :
          /\ IsLive(legs'[b][i]) /\ legs'[b][i].unit = u
          /\ Overlaps(legs'[b][i], n, n + 1)
  BY DEF Clash, LiveRows, Rows
<1>5. PICK i \in DOMAIN legs'[b] : /\ IsLive(legs'[b][i]) /\ legs'[b][i].unit = u
                                    /\ Overlaps(legs'[b][i], n, n + 1)
  BY <1>4
<1>6. legs[b] \in LegRows /\ legs'[b] \in LegRows
  BY DEF IInv, Rowed
<1>7. /\ legs'[b][i].from \in Int /\ legs'[b][i].to \in Int
      /\ legs'[b][i].from <= n /\ n < legs'[b][i].to
  <2>1. legs'[b][i].from \in Int /\ legs'[b][i].to \in Int
    BY <1>6, RowFacts, LegFacts
  <2>2. QED
    BY <1>1, <1>5, <2>1 DEF Overlaps
<1>8. Blocked(u, legs'[b][i].from, legs'[b][i].to)
  BY <1>1, <1>2, <1>3, <1>7 DEF Blocked, Overlaps
<1>9. /\ i \in DOMAIN legs[b] /\ IsLive(legs[b][i]) /\ legs[b][i].unit = u
      /\ legs[b][i].from <= legs'[b][i].from /\ legs'[b][i].to <= legs[b][i].to
  BY <1>5, <1>8 DEF KeepsApart
<1>10. legs[b][i].from \in Int /\ legs[b][i].to \in Int
  BY <1>6, <1>9, RowFacts, LegFacts
<1>11. Overlaps(legs[b][i], n, n + 1)
  BY <1>1, <1>7, <1>9, <1>10 DEF Overlaps
<1>12. Blocked(u, n, n + 1)
  BY <1>1, <1>2, <1>3 DEF Blocked
<1>13. QED
  BY <1>9, <1>11, <1>12 DEF Clash, LiveRows, Rows

\* Legs that were there, or ran longer.
LEMMA NoLonger ==
    ASSUME IInv, NEW b \in Bookings, NEW ms \in LegRows, DOMAIN ms = DOMAIN legs[b],
           \A i \in DOMAIN ms : IsLive(ms[i]) =>
               /\ IsLive(legs[b][i]) /\ ms[i].unit \in {legs[b][i].unit, NoUnit}
               /\ ms[i].from = legs[b][i].from /\ ms[i].to <= legs[b][i].to
    PROVE  KeepsApart(b, ms)
<1>1. \A i \in DOMAIN legs[b] : legs[b][i].from \in Int
  BY BookedFacts, RowFacts, LegFacts
<1>2. NoUnit \notin Units
  BY RoomsAssumption
<1>3. QED
  BY <1>1, <1>2 DEF KeepsApart

LEMMA SameLegsApart ==
    ASSUME IInv, NEW b \in Bookings
    PROVE  KeepsApart(b, legs[b])
<1>1. \A i \in DOMAIN legs[b] : legs[b][i].from \in Int /\ legs[b][i].to \in Int
  BY BookedFacts, RowFacts, LegFacts
<1>2. QED
  BY <1>1 DEF KeepsApart

LEMMA CutApart ==
    ASSUME IInv, NEW b \in Bookings, NEW d \in Dates
    PROVE  KeepsApart(b, CutLegs(legs[b], d))
<1>1. PICK ms : ms = CutLegs(legs[b], d)
  OBVIOUS
<1>2. legs[b] \in LegRows /\ d \in Int
  BY BookedFacts, DatesAreIntegers
<1>3. IsCut(legs[b], d, ms)
  BY <1>1, <1>2, CutEnds
<1>4. \A i \in DOMAIN legs[b] : legs[b][i].to \in Int
  BY <1>2, RowFacts, LegFacts
<1>5. \A i \in DOMAIN ms : IsLive(ms[i]) =>
          /\ IsLive(legs[b][i]) /\ ms[i].unit \in {legs[b][i].unit, NoUnit}
          /\ ms[i].from = legs[b][i].from /\ ms[i].to <= legs[b][i].to
  BY <1>2, <1>3, <1>4 DEF IsCut
<1>6. KeepsApart(b, ms)
  BY <1>3, <1>5, NoLonger DEF IsCut
<1>7. QED
  BY <1>1, <1>6

LEMMA ReleaseApart ==
    ASSUME IInv, NEW b \in Bookings
    PROVE  KeepsApart(b, Release(legs[b], LiveRows(b)))
<1>1. PICK ms : ms = Release(legs[b], LiveIn(legs[b]))
  OBVIOUS
<1>2. legs[b] \in LegRows /\ LiveRows(b) = LiveIn(legs[b])
  BY BookedFacts
<1>3. LiveIn(ms) = {}
  BY <1>1, <1>2, ReleaseFrees
<1>4. KeepsApart(b, ms)
  BY <1>3 DEF KeepsApart, LiveIn
<1>5. QED
  BY <1>1, <1>2, <1>4

LEMMA LegsReleasedApart ==
    ASSUME IInv, NEW b \in Bookings, NEW d \in Int, d < bk[b].until => d \in Dates
    PROVE  KeepsApart(b, LegsReleased(b, d))
<1>1. bk[b].checkin \in Int /\ bk[b].until \in Int
  BY BookedFacts
<1>2. CASE d <= bk[b].checkin
  BY <1>1, <1>2, LegsReleasedAll, ReleaseApart
<1>3. CASE bk[b].checkin < d /\ d < bk[b].until
  BY <1>1, <1>3, LegsReleasedFrom, CutApart
<1>4. CASE bk[b].checkin < d /\ ~(d < bk[b].until)
  <2>1. LegsReleased(b, d) = legs[b]
    BY <1>1, <1>4 DEF LegsReleased
  <2>2. QED
    BY <2>1, SameLegsApart
<1>5. QED
  BY <1>1, <1>2, <1>3, <1>4

\* One booking's legs are written, and no block.
LEMMA OneApart ==
    ASSUME IInv, IInv', NEW b \in Bookings, blocks' = blocks,
           NEW ms, legs' = [legs EXCEPT ![b] = ms], KeepsApart(b, ms)
    PROVE  NoNewClash
<1>1. legs'[b] = ms /\ \A c \in Bookings \ {b} : legs'[c] = legs[c]
  BY DEF IInv, Rowed
<1>2. \A c \in Bookings : KeepsApart(c, legs'[c])
  BY <1>1, SameLegsApart
<1>3. QED
  BY <1>2, ApartStep

LEMMA NothingApart ==
    ASSUME IInv, IInv', blocks' \subseteq blocks, legs' = legs
    PROVE  NoNewClash
<1>1. \A b \in Bookings : KeepsApart(b, legs'[b])
  BY SameLegsApart
<1>2. QED
  BY <1>1, ApartStep

LEMMA CreateApart ==
    ASSUME IInv, IInv', NEW b \in Bookings, NEW s \in Stays[b], NEW u \in Units \cup {NoUnit},
           Create(b, s, u)
    PROVE  NoNewClash
<1>1. PICK ms : ms = <<[unit |-> u, from |-> s[1], to |-> s[2], released |-> "no"]>>
  OBVIOUS
<1>2. /\ legs' = [legs EXCEPT ![b] = ms] /\ blocks' = blocks
      /\ u # NoUnit => ~Blocked(u, s[1], s[2])
  BY <1>1 DEF Create
<1>3. /\ DOMAIN ms = {1} /\ ms[1].unit = u /\ ms[1].from = s[1] /\ ms[1].to = s[2]
  BY <1>1
<1>4. KeepsApart(b, ms)
  BY <1>2, <1>3, RoomsAssumption DEF KeepsApart
<1>5. QED
  BY <1>2, <1>4, OneApart

LEMMA CheckInApart ==
    ASSUME IInv, IInv', NEW b \in Bookings, CheckIn(b)
    PROVE  NoNewClash
<1>1. PICK unit \in [LiveRows(b) -> Units] :
          /\ \A i \in LiveRows(b) :
                 IF legs[b][i].unit = NoUnit
                 THEN unit[i] \in FreeUnits(b, i, legs[b][i].from, legs[b][i].to)
                 ELSE unit[i] = legs[b][i].unit
          /\ legs' = [legs EXCEPT ![b] = [i \in Rows(b) |->
                 IF i \in LiveRows(b) THEN [legs[b][i] EXCEPT !.unit = unit[i]] ELSE legs[b][i]]]
  BY DEF CheckIn
<1>2. PICK ms : ms = [i \in Rows(b) |->
                 IF i \in LiveRows(b) THEN [legs[b][i] EXCEPT !.unit = unit[i]] ELSE legs[b][i]]
  OBVIOUS
<1>3. legs[b] \in LegRows /\ Rows(b) = DOMAIN legs[b] /\ LiveRows(b) = LiveIn(legs[b])
  BY BookedFacts
<1>4. ASSUME NEW i \in DOMAIN ms, IsLive(ms[i]), ms[i].unit \in Units
      PROVE  \/ /\ i \in DOMAIN legs[b] /\ IsLive(legs[b][i]) /\ legs[b][i].unit = ms[i].unit
                /\ legs[b][i].from <= ms[i].from /\ ms[i].to <= legs[b][i].to
             \/ ~Blocked(ms[i].unit, ms[i].from, ms[i].to)
  <2>1. i \in DOMAIN legs[b] /\ legs[b][i] \in Leg
    BY <1>2, <1>3, RowFacts
  <2>2. i \in LiveRows(b)
    <3>1. i \notin LiveRows(b) => ms[i] = legs[b][i]
      BY <1>2, <1>3, <2>1
    <3>2. QED
      BY <1>3, <1>4, <2>1, <3>1 DEF LiveIn
  <2>3. ms[i] = [legs[b][i] EXCEPT !.unit = unit[i]] /\ unit[i] \in Units
    BY <1>2, <1>3, <2>1, <2>2
  <2>4. /\ ms[i].unit = unit[i] /\ ms[i].from = legs[b][i].from /\ ms[i].to = legs[b][i].to
    BY <2>1, <2>3, LegRoomed
  <2>5. legs[b][i].from \in Int /\ legs[b][i].to \in Int
    BY <2>1, LegFacts
  <2>6. CASE legs[b][i].unit = NoUnit
    BY <1>1, <2>2, <2>4, <2>6 DEF FreeUnits
  <2>7. CASE legs[b][i].unit # NoUnit
    BY <1>1, <1>3, <2>1, <2>2, <2>4, <2>5, <2>7 DEF LiveIn
  <2>8. QED
    BY <2>6, <2>7
<1>5. KeepsApart(b, ms)
  BY <1>4 DEF KeepsApart
<1>6. legs' = [legs EXCEPT ![b] = ms] /\ blocks' = blocks
  BY <1>1, <1>2 DEF CheckIn, Stayed
<1>7. QED
  BY <1>5, <1>6, OneApart

LEMMA CheckOutApart ==
    ASSUME IInv, IInv', NEW b \in Bookings, CheckOut(b)
    PROVE  NoNewClash
<1>1. PICK ms : ms = IF today < bk[b].checkout THEN LegsReleased(b, today) ELSE legs[b]
  OBVIOUS
<1>2. legs' = [legs EXCEPT ![b] = ms] /\ blocks' = blocks
  BY <1>1 DEF CheckOut, Stayed, IInv, Rowed
<1>3. today \in Int /\ today \in Dates
  BY BookedFacts
<1>4. KeepsApart(b, ms)
  BY <1>1, <1>3, LegsReleasedApart, SameLegsApart
<1>5. QED
  BY <1>2, <1>4, OneApart

LEMMA CancelApart ==
    ASSUME IInv, IInv', NEW b \in Bookings, Cancel(b)
    PROVE  NoNewClash
<1>1. bk[b].checkin \in Int /\ bk[b].checkin \in Dates
  BY BookedFacts
<1>2. legs' = [legs EXCEPT ![b] = LegsReleased(b, bk[b].checkin)] /\ blocks' = blocks
  BY DEF Cancel, Stayed
<1>3. KeepsApart(b, LegsReleased(b, bk[b].checkin))
  BY <1>1, LegsReleasedApart
<1>4. QED
  BY <1>2, <1>3, OneApart

LEMMA NoShowApart ==
    ASSUME IInv, IInv', NEW b \in Bookings, NoShow(b)
    PROVE  NoNewClash
<1>1. PICK d : d = Later(today, bk[b].checkin) + 1
  OBVIOUS
<1>2. PICK ms : ms = IF d < bk[b].checkout THEN LegsReleased(b, d) ELSE legs[b]
  OBVIOUS
<1>3. legs' = [legs EXCEPT ![b] = ms] /\ blocks' = blocks
  BY <1>1, <1>2 DEF NoShow, Stayed, IInv, Rowed
<1>4. /\ today \in Int /\ bk[b].checkin \in Int /\ bk[b].until \in Int
      /\ bk[b].checkin >= 1 /\ bk[b].until <= Horizon + 1
  BY BookedFacts, DatesAreIntegers
<1>5. d \in Int /\ d > bk[b].checkin
  BY <1>1, <1>4 DEF Later
<1>6. d < bk[b].until => d \in Dates
  BY <1>4, <1>5, DatesAreIntegers
<1>7. KeepsApart(b, ms)
  BY <1>2, <1>5, <1>6, LegsReleasedApart, SameLegsApart
<1>8. QED
  BY <1>3, <1>7, OneApart

LEMMA AmendApart ==
    ASSUME IInv, IInv', NEW b \in Bookings, NEW s \in Stays[b], Amend(b, s)
    PROVE  NoNewClash
<1>1. PICK ms : ms = [i \in Rows(b) |->
           IF i \in LiveRows(b) THEN [legs[b][i] EXCEPT !.from = s[1], !.to = s[2]] ELSE legs[b][i]]
  OBVIOUS
<1>2. /\ legs' = [legs EXCEPT ![b] = ms] /\ blocks' = blocks
      /\ \A i \in LiveRows(b) : [legs[b][i] EXCEPT !.from = s[1], !.to = s[2]].unit # NoUnit =>
             ~Blocked([legs[b][i] EXCEPT !.from = s[1], !.to = s[2]].unit, s[1], s[2])
  BY <1>1 DEF Amend, Stayed
<1>3. legs[b] \in LegRows /\ Rows(b) = DOMAIN legs[b] /\ LiveRows(b) = LiveIn(legs[b])
  BY BookedFacts
<1>4. ASSUME NEW i \in DOMAIN ms, IsLive(ms[i]), ms[i].unit \in Units
      PROVE  ~Blocked(ms[i].unit, ms[i].from, ms[i].to)
  <2>1. i \in DOMAIN legs[b] /\ legs[b][i] \in Leg
    BY <1>1, <1>3, RowFacts
  <2>2. i \in LiveRows(b)
    <3>1. i \notin LiveRows(b) => ms[i] = legs[b][i]
      BY <1>1, <1>3, <2>1
    <3>2. QED
      BY <1>3, <1>4, <2>1, <3>1 DEF LiveIn
  <2>3. ms[i] = [legs[b][i] EXCEPT !.from = s[1], !.to = s[2]]
    BY <1>1, <1>3, <2>1, <2>2
  <2>4. ms[i].from = s[1] /\ ms[i].to = s[2]
    BY <2>1, <2>3 DEF Leg
  <2>5. ms[i].unit # NoUnit => ~Blocked(ms[i].unit, s[1], s[2])
    BY <1>2, <2>2, <2>3
  <2>6. QED
    BY <1>4, <2>4, <2>5, RoomsAssumption
<1>5. KeepsApart(b, ms)
  BY <1>4 DEF KeepsApart
<1>6. QED
  BY <1>2, <1>5, OneApart

LEMMA ShortenApart ==
    ASSUME IInv, IInv', NEW b \in Bookings, NEW d \in Dates, Shorten(b, d)
    PROVE  NoNewClash
<1>1. legs' = [legs EXCEPT ![b] = CutLegs(legs[b], d)] /\ blocks' = blocks
  BY DEF Shorten, Stayed, IInv, Rowed
<1>2. QED
  BY <1>1, CutApart, OneApart

\* A room that is not blocked, or none, is set.
LEMMA ReRoomedApart ==
    ASSUME IInv, NEW b \in Bookings, NEW i \in Rows(b), NEW u \in Units \cup {NoUnit},
           u # NoUnit => ~Blocked(u, legs[b][i].from, legs[b][i].to)
    PROVE  KeepsApart(b, [legs[b] EXCEPT ![i].unit = u])
<1>1. PICK ms : ms = [legs[b] EXCEPT ![i].unit = u]
  OBVIOUS
<1>2. legs[b] \in LegRows /\ i \in DOMAIN legs[b]
  BY BookedFacts DEF Rows
<1>3. IsReRoomed(legs[b], i, u, ms)
  BY <1>1, <1>2, ReRoomed
<1>4. \A k \in DOMAIN legs[b] : legs[b][k].from \in Int /\ legs[b][k].to \in Int
  BY <1>2, RowFacts, LegFacts
<1>5. ASSUME NEW k \in DOMAIN ms, IsLive(ms[k]), ms[k].unit \in Units
      PROVE  \/ /\ k \in DOMAIN legs[b] /\ IsLive(legs[b][k]) /\ legs[b][k].unit = ms[k].unit
                /\ legs[b][k].from <= ms[k].from /\ ms[k].to <= legs[b][k].to
             \/ ~Blocked(ms[k].unit, ms[k].from, ms[k].to)
  <2>1. /\ k \in DOMAIN legs[b]
        /\ ms[k].from = legs[b][k].from /\ ms[k].to = legs[b][k].to
        /\ ms[k].released = legs[b][k].released
        /\ ms[k].unit = IF k = i THEN u ELSE legs[b][k].unit
    BY <1>3 DEF IsReRoomed
  <2>2. CASE k = i
    BY <1>5, <2>1, <2>2, RoomsAssumption
  <2>3. CASE k # i
    BY <1>4, <1>5, <2>1, <2>3 DEF IsLive
  <2>4. QED
    BY <2>2, <2>3
<1>6. KeepsApart(b, ms)
  BY <1>5 DEF KeepsApart
<1>7. QED
  BY <1>1, <1>6

LEMMA SetUnitApart ==
    ASSUME IInv, IInv', NEW b \in Bookings, NEW i \in Rows(b), NEW u \in Units \cup {NoUnit},
           SetUnit(b, i, u), Stayed,
           u # NoUnit => ~Blocked(u, legs[b][i].from, legs[b][i].to)
    PROVE  NoNewClash
<1>1. PICK ms : ms = [legs[b] EXCEPT ![i].unit = u]
  OBVIOUS
<1>2. legs' = [legs EXCEPT ![b] = ms] /\ blocks' = blocks
  BY <1>1 DEF SetUnit, Stayed, IInv, Rowed
<1>3. KeepsApart(b, ms)
  BY <1>1, ReRoomedApart
<1>4. QED
  BY <1>2, <1>3, OneApart

LEMMA ExchangeApart ==
    ASSUME IInv, IInv', NEW b \in Bookings, NEW c \in Bookings, NEW i \in Rows(b),
           NEW j \in Rows(c), Exchange(b, i, c, j)
    PROVE  NoNewClash
<1>1. PICK u, v : u = legs[c][j].unit /\ v = legs[b][i].unit
  OBVIOUS
<1>2. /\ b # c /\ blocks' = blocks
      /\ legs' = [legs EXCEPT ![b][i].unit = u, ![c][j].unit = v]
      /\ legs[b][i].from = legs[c][j].from /\ legs[b][i].to = legs[c][j].to
      /\ ~Blocked(u, legs[b][i].from, legs[b][i].to)
      /\ ~Blocked(v, legs[b][i].from, legs[b][i].to)
  BY <1>1 DEF Exchange, Stayed
<1>3. /\ legs[b] \in LegRows /\ legs[c] \in LegRows /\ legs \in [Bookings -> LegRows]
      /\ i \in DOMAIN legs[b] /\ j \in DOMAIN legs[c]
  BY BookedFacts DEF Rows, IInv, Rowed
<1>4. u \in Units \cup {NoUnit} /\ v \in Units \cup {NoUnit}
  BY <1>1, <1>3, RowFacts, LegFacts
<1>5. PICK ms, ns : ms = [legs[b] EXCEPT ![i].unit = u] /\ ns = [legs[c] EXCEPT ![j].unit = v]
  OBVIOUS
<1>6. KeepsApart(b, ms) /\ KeepsApart(c, ns)
  BY <1>2, <1>4, <1>5, ReRoomedApart
<1>7. /\ legs'[b] = ms /\ legs'[c] = ns
      /\ \A k \in Bookings \ {b, c} : legs'[k] = legs[k]
  <2>1. PICK hs : hs = [legs EXCEPT ![b] = ms]
    OBVIOUS
  <2>2. hs[b] = ms /\ DOMAIN hs = Bookings /\ \A k \in Bookings \ {b} : hs[k] = legs[k]
    BY <1>3, <2>1
  <2>3. legs' = [hs EXCEPT ![c] = ns]
    BY <1>2, <1>3, <1>5, <2>1
  <2>4. QED
    BY <1>2, <2>2, <2>3
<1>8. \A k \in Bookings : KeepsApart(k, legs'[k])
  BY <1>6, <1>7, SameLegsApart
<1>9. QED
  BY <1>2, <1>8, ApartStep

\* The steps that may bring a guest and a block together.
Known == \/ Write \/ WriteBlock \/ Sweep
         \/ \E b \in Bookings : UndoCheckOut(b) \/ Reinstate(b) \/ \E d \in Dates : Extend(b, d)

LEMMA ClashStep == IInv /\ [Next]_vars => Known \/ NoNewClash
<1> SUFFICES ASSUME IInv, [Next]_vars PROVE Known \/ NoNewClash
  OBVIOUS
<1>0. IInv'
  BY Keeps
<1>1. CASE UNCHANGED vars
  BY <1>0, <1>1, NothingApart DEF vars
<1>2. ASSUME NEW b \in Bookings, Stay(b)
      PROVE  Known \/ NoNewClash
  BY <1>0, <1>2, CheckInApart, CheckOutApart, CreateApart DEF Stay, Known
<1>3. ASSUME NEW b \in Handled, ByHand(b)
      PROVE  Known \/ NoNewClash
  <2>1. b \in Bookings
    BY RoomsAssumption
  <2>2. CASE UndoCheckIn(b)
    BY <1>0, <2>2, NothingApart DEF UndoCheckIn, Stayed
  <2>3. CASE Cancel(b) \/ NoShow(b) \/ Reinstate(b)
    BY <1>0, <2>1, <2>3, CancelApart, NoShowApart DEF Known
  <2>4. CASE \E s \in Stays[b] : Amend(b, s)
    BY <1>0, <2>1, <2>4, AmendApart
  <2>5. CASE \E d \in Dates : Extend(b, d) \/ Shorten(b, d)
    BY <1>0, <2>1, <2>5, ShortenApart DEF Known
  <2>6. CASE \E i \in Rows(b) : Unassign(b, i)
    BY <1>0, <2>1, <2>6, SetUnitApart DEF Unassign
  <2>7. CASE \E i \in Rows(b) : AutoAssign(b, i) \/ SwitchToClean(b, i)
    BY <1>0, <2>1, <2>7, SetUnitApart DEF AutoAssign, SwitchToClean, FreeUnits
  <2>8. CASE \E c \in Bookings : \E i \in Rows(b), j \in Rows(c) : Exchange(b, i, c, j)
    BY <1>0, <2>1, <2>8, ExchangeApart
  <2>9. CASE \E i \in Rows(b) : Begin(b, i)
    BY <1>0, <2>9, NothingApart DEF Begin
  <2>10. QED
    BY <1>3, <2>2, <2>3, <2>4, <2>5, <2>6, <2>7, <2>8, <2>9 DEF ByHand
<1>4. CASE \E u \in Units, d \in Nights : Look(u, d) \/ PlanMove(u, d)
  BY <1>0, <1>4, NothingApart DEF Look, PlanMove
<1>5. CASE Write \/ WriteBlock \/ Sweep
  BY <1>5 DEF Known
<1>6. CASE Refuse \/ (\E m \in moves : StopMove(m)) \/ Midnight
  BY <1>0, <1>6, NothingApart DEF Refuse, StopMove, Midnight
<1>7. CASE \E u \in Units, s \in BlockSpans, old \in blocks \cup {NoBlock} :
               /\ old.unit \in {u, NoUnit}
               /\ BeginBlock(old, [unit |-> u, from |-> s[1], to |-> s[2]])
  BY <1>0, <1>7, NothingApart DEF BeginBlock
<1>8. CASE \E x \in blocks : LiftBlock(x)
  BY <1>0, <1>8, NothingApart DEF LiftBlock
<1>9. QED
  BY <1>1, <1>2, <1>3, <1>4, <1>5, <1>6, <1>7, <1>8 DEF Next

\* A guest and a block come to share a room and a night only where the requests pass each other,
\* or by an extension, an undo or the sweep: every other operation that gives a guest a room or
\* nights (createWithin, assertReadyForCheckIn, amendWithin, autoAssign, switchToCleanRooms,
\* exchange) has looked at the blocks in the step in which it writes.
THEOREM OnlyTheseClash == Spec => ClashesAreKnown
<1>1. IInv /\ [Next]_vars =>
          [\A u \in Units, n \in Nights : Clash(u, n)' /\ ~Clash(u, n) =>
              \/ Write \/ WriteBlock \/ Sweep
              \/ \E b \in Bookings :
                     UndoCheckOut(b) \/ Reinstate(b) \/ \E d \in Dates : Extend(b, d)]_vars
  BY ClashStep DEF NoNewClash, Known
<1>2. QED
  BY <1>1, RoomsInductive, PTL DEF Spec, ClashesAreKnown
=============================================================================
