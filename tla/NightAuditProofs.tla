-------------------------- MODULE NightAuditProofs --------------------------
(***************************************************************************)
(* Theorems about NightAudit, for any bookings, stays and nights.          *)
(*                                                                         *)
(* An audit writes at its end what it read at its beginning.  The          *)
(* inductive invariant says, of a transaction under way, which of the      *)
(* things it read are still so, as far as the desk left the booking alone. *)
(***************************************************************************)
EXTENDS NightAudit, TLAPS

Transactions == [step : Steps, date : Dates, swept : SUBSET Bookings,
                 rooms : SUBSET Bookings, unarrived : SUBSET Bookings,
                 overdue : SUBSET Bookings, looked : Bookings \cup {Nobody},
                 pending : SUBSET Key, touched : SUBSET Bookings]

\* What a transaction looks at or has written is of its own date, none is of a later date than
\* the hotel's, and what it cancels it does not also call a no-show or check out.
Coherent(x) ==
    /\ x.date <= date /\ (x.step # "idle" => x.date <= Horizon)
    /\ x.step \in {"idle", "due"} => x.pending = {} /\ x.looked = Nobody
    /\ x.looked # Nobody => x.step = "rooms"
    /\ x.step = "commit" => x.rooms = {}
    /\ \A l \in x.pending : l.night = x.date /\ l.window = 1
    /\ x.swept \cap (x.unarrived \cup x.overdue) = {}

\* A night it has found not charged has not come on to the bill through window 2.
Unmoved(x) ==
    \A b \in Bookings \ raced :
        x.looked = b \/ Line(b, x.date, "room", 1) \in x.pending
            => live[Line(b, x.date, "room", 2)] = 0

\* It still has to look at a stay it must charge, or has found or made the line.
Charges(x) ==
    x.step \in {"rooms", "commit"} /\ x.date = date =>
        \A b \in Bookings \ (x.touched \cup x.swept) :
            bk[b].status \in {"Approved", "CheckedIn"} /\ Covers(bk[b], date) =>
                \/ b \in x.rooms \/ x.looked = b \/ Line(b, date, "room", 1) \in x.pending
                \/ \E w \in Windows : live[Line(b, date, "room", w)] > 0

\* The levies it has written are of guests who came, and, while its date is the business date,
\* of guests in the house for the night.
LevySafe(x) ==
    \A l \in x.pending : l.src = "levy" /\ l.b \notin raced =>
        /\ bk[l.b].status # "Approved"
        /\ x.date = date => bk[l.b].status = "CheckedIn" /\ Covers(bk[l.b], l.night)

\* The nights the desk's posting found not charged have not come on to the bill through window 2.
PostUnmoved ==
    post.b \in Bookings \ raced =>
        \A n \in post.nights : live[Line(post.b, n, "room", 2)] = 0

\* The levies on the bill of a guest in the house are of nights of the stay that are over.
LeviesStand ==
    \A b \in Levied \ raced, n \in Nights :
        live[Line(b, n, "levy", 1)] > 0 =>
            /\ bk[b].status # "Approved"
            /\ bk[b].status = "CheckedIn" => Covers(bk[b], n) /\ n < date

Sound(x) == Coherent(x) /\ Unmoved(x) /\ Charges(x) /\ LevySafe(x)

IInv ==
    /\ TypeOK /\ EachDateClosedOnce /\ BilledOnce /\ PostUnmoved /\ LeviesStand
    /\ \A a \in Audits : Sound(audit[a])

-----------------------------------------------------------------------------
(* Lines.                                                                  *)

LEMMA LineFields ==
    ASSUME NEW b, NEW n, NEW s, NEW w
    PROVE  /\ Line(b, n, s, w).b = b /\ Line(b, n, s, w).night = n
           /\ Line(b, n, s, w).src = s /\ Line(b, n, s, w).window = w
BY DEF Line

LEMMA LineIsKey ==
    ASSUME NEW b \in Bookings, NEW n \in Nights
    PROVE  /\ \A w \in Windows : Line(b, n, "room", w) \in Key
           /\ Line(b, n, "levy", 1) \in Key
BY DEF Line, Key, Sources, Windows

\* A key is the line of its own fields.
LEMMA KeyIsLine ==
    ASSUME NEW k \in Key
    PROVE  /\ k = Line(k.b, k.night, k.src, k.window) /\ k.b \in Bookings /\ k.night \in Nights
           /\ k.src \in Sources /\ k.window \in Windows
           /\ k.src = "levy" => k.window = 1
BY DEF Line, Key

\* Two lines are one only if they agree in everything.
LEMMA LinesDiffer ==
    ASSUME NEW b, NEW n, NEW s, NEW w, NEW c, NEW m, NEW t, NEW v,
           Line(b, n, s, w) = Line(c, m, t, v)
    PROVE  b = c /\ n = m /\ s = t /\ w = v
BY LineFields

\* A levy being written is one LevyUnderWay knows of.
LEMMA LevyIsUnderWay ==
    ASSUME NEW l \in Pending, l \in Key, l.src = "levy"
    PROVE  LevyUnderWay(l.b)
<1>1. l = Line(l.b, l.night, "levy", 1)
    BY KeyIsLine
<1>2. [l EXCEPT !.night = 1] = Line(l.b, 1, "levy", 1)
    BY <1>1 DEF Line
<1> QED
    BY <1>2 DEF LevyUnderWay

-----------------------------------------------------------------------------
(* A step of one audit, that leaves the bookings and the lines alone.      *)

LEMMA NoneSound ==
    ASSUME TypeOK
    PROVE  None \in Transactions /\ Sound(None)
<1>1. None \in Transactions
    BY AuditAssumption DEF None, Transactions, Steps, Dates
<1>2. Coherent(None)
    BY DEF None, Coherent, TypeOK, Dates
<1>3. Unmoved(None)
    BY AuditAssumption DEF None, Unmoved
<1> QED
    BY <1>1, <1>2, <1>3 DEF Sound, None, Charges, LevySafe

LEMMA AuditStep ==
    ASSUME IInv, NEW c \in Audits, NEW x \in Transactions, Sound(x),
           audit' = [audit EXCEPT ![c] = x], UNCHANGED <<rows, today, post>>
    PROVE  IInv'
<1> USE DEF IInv
<1>1. UNCHANGED <<bk, live, raced, date, runs, today, post>>
    BY DEF rows
<1>2. audit \in [Audits -> Transactions]
    BY DEF TypeOK, Transactions
<1>3. audit' \in [Audits -> Transactions] /\ \A a \in Audits : audit'[a] = IF a = c THEN x ELSE audit[a]
    BY <1>2
<1>4. TypeOK'
    BY <1>1, <1>3 DEF TypeOK, Transactions
<1>5. EachDateClosedOnce' /\ BilledOnce' /\ PostUnmoved' /\ LeviesStand'
    BY <1>1 DEF EachDateClosedOnce, BilledOnce, PostUnmoved, LeviesStand
<1>6. ASSUME NEW a \in Audits PROVE Sound(audit[a])'
    <2>1. Sound(audit'[a])
        BY <1>3
    <2> QED
        BY <1>1, <2>1 DEF Sound, Coherent, Unmoved, Charges, LevySafe
<1> QED
    BY <1>4, <1>5, <1>6

\* The transaction of an audit, and what it has seen.
LEMMA Running ==
    ASSUME IInv, NEW a \in Audits
    PROVE  audit[a] \in Transactions /\ Sound(audit[a])
BY DEF IInv, TypeOK, Transactions

LEMMA AutoDueKeeps == ASSUME IInv, AutoDue PROVE IInv'
<1> DEFINE x == [None EXCEPT !.step = "due", !.date = date]
<1>1. /\ audit' = [audit EXCEPT ![Timer] = x] /\ UNCHANGED <<rows, today, post>>
      /\ date <= Horizon
    BY DEF AutoDue
<1>0. Timer \in Audits
    BY DEF Audits
<1>2. /\ x \in Transactions /\ x.step = "due" /\ x.date = date
      /\ x.pending = {} /\ x.looked = Nobody /\ x.swept = {}
    BY NoneSound DEF IInv, TypeOK, None, Transactions, Steps
<1> HIDE DEF x
<1>3. Coherent(x)
    BY <1>1, <1>2 DEF Coherent, IInv, TypeOK, Dates
<1>4. Unmoved(x) /\ LevySafe(x) /\ Charges(x)
    BY <1>2, AuditAssumption DEF Unmoved, LevySafe, Charges
<1> QED
    BY <1>0, <1>1, <1>2, <1>3, <1>4, AuditStep DEF Sound

LEMMA BeginKeeps == ASSUME IInv, NEW a \in Audits, Begin(a) PROVE IInv'
<1> DEFINE swept == {b \in Bookings : bk[b].due /\ bk[b].status = "Approved" /\ ~Locked(b)}
           x == [None EXCEPT
                    !.step = "rooms", !.date = date, !.swept = swept, !.rooms = DueCharges(swept),
                    !.unarrived = {b \in Bookings \ swept :
                                      bk[b].status = "Approved" /\ bk[b].checkin <= date},
                    !.overdue = {b \in Bookings :
                                    bk[b].status = "CheckedIn" /\ bk[b].checkout <= date}]
<1>1. /\ audit' = [audit EXCEPT ![a] = x] /\ UNCHANGED <<rows, today, post>> /\ date <= Horizon
    BY DEF Begin
<1>2. /\ x \in Transactions /\ x.step = "rooms" /\ x.date = date /\ x.swept = swept
      /\ x.unarrived \subseteq Bookings \ swept
      /\ x.overdue \subseteq {b \in Bookings : bk[b].status = "CheckedIn"}
      /\ x.rooms = DueCharges(swept) /\ x.pending = {} /\ x.looked = Nobody
    BY NoneSound DEF IInv, TypeOK, None, Transactions, Steps, DueCharges
<1> HIDE DEF x
<1>3. Coherent(x)
    BY <1>1, <1>2 DEF Coherent, IInv, TypeOK, Dates
<1>4. Unmoved(x) /\ LevySafe(x)
    BY <1>2, AuditAssumption DEF Unmoved, LevySafe
<1>5. Charges(x)
    BY <1>2 DEF Charges, DueCharges
<1> QED
    BY <1>1, <1>2, <1>3, <1>4, <1>5, AuditStep DEF Sound

LEMMA LookUpKeeps == ASSUME IInv, NEW a \in Audits, NEW b \in Bookings, LookUp(a, b) PROVE IInv'
<1> DEFINE t == audit[a]
           x == [t EXCEPT !.rooms = @ \ {b},
                          !.looked = IF Posted(b, t.date, "room") THEN Nobody ELSE b]
<1>1. /\ t.step = "rooms" /\ t.looked = Nobody /\ b \in t.rooms
      /\ audit' = [audit EXCEPT ![a] = x] /\ UNCHANGED <<rows, today, post>>
    BY DEF LookUp
<1>2. t \in Transactions /\ Sound(t)
    BY Running
<1>3. /\ x \in Transactions /\ x.step = t.step /\ x.date = t.date /\ x.swept = t.swept
      /\ x.unarrived = t.unarrived /\ x.overdue = t.overdue
      /\ x.touched = t.touched /\ x.pending = t.pending /\ x.rooms = t.rooms \ {b}
      /\ x.looked = IF Posted(b, t.date, "room") THEN Nobody ELSE b
    BY <1>2 DEF Transactions
<1>4. t.date \in Nights /\ t.date \in Nat
    BY <1>1, <1>2, AuditAssumption DEF Sound, Coherent, Transactions, Dates, Nights
<1> HIDE DEF x, t
<1>5. Coherent(x)
    BY <1>1, <1>2, <1>3 DEF Sound, Coherent
<1>6. ASSUME NEW w \in Windows, ~Posted(b, t.date, "room")
      PROVE  live[Line(b, t.date, "room", w)] = 0
    <2>1. Line(b, t.date, "room", w) \in Key
        BY <1>4, LineIsKey
    <2>2. ~(live[Line(b, t.date, "room", w)] > 0)
        BY <1>6, <2>1, LineFields DEF Posted, OnTheBill
    <2>3. live[Line(b, t.date, "room", w)] \in Nat
        BY <2>1 DEF IInv, TypeOK
    <2> QED
        BY <2>2, <2>3
<1>7. Unmoved(x)
    BY <1>2, <1>3, <1>6, AuditAssumption DEF Sound, Unmoved, Windows
<1>8. ASSUME Posted(b, t.date, "room") PROVE \E w \in Windows : live[Line(b, t.date, "room", w)] > 0
    <2>1. PICK k \in Key : k.b = b /\ k.night = t.date /\ k.src = "room" /\ live[k] > 0
        BY <1>8 DEF Posted, OnTheBill
    <2>2. k = Line(b, t.date, "room", k.window) /\ k.window \in Windows
        BY <2>1, KeyIsLine
    <2> QED
        BY <2>1, <2>2
<1>9. Charges(x)
    <2> SUFFICES ASSUME t.date = date, NEW d \in Bookings \ (t.touched \cup t.swept),
                        bk[d].status \in {"Approved", "CheckedIn"}, Covers(bk[d], date)
                 PROVE  \/ d \in x.rooms \/ x.looked = d \/ Line(d, date, "room", 1) \in x.pending
                        \/ \E w \in Windows : live[Line(d, date, "room", w)] > 0
        BY <1>3 DEF Charges
    <2>1. \/ d \in t.rooms \/ Line(d, date, "room", 1) \in t.pending
          \/ \E w \in Windows : live[Line(d, date, "room", w)] > 0
        BY <1>1, <1>2, AuditAssumption DEF Sound, Charges
    <2>2. CASE d = b
        BY <1>3, <1>8, <2>2
    <2>3. CASE d # b
        BY <1>3, <2>1, <2>3
    <2> QED
        BY <2>2, <2>3
<1>10. LevySafe(x)
    BY <1>2, <1>3 DEF Sound, LevySafe
<1> QED
    BY <1>1, <1>3, <1>5, <1>7, <1>9, <1>10, AuditStep DEF Sound

LEMMA InsertKeeps == ASSUME IInv, NEW a \in Audits, Insert(a) PROVE IInv'
<1> DEFINE t == audit[a]
           l == Line(t.looked, t.date, "room", 1)
           x == [t EXCEPT !.looked = Nobody, !.pending = @ \cup {l}]
<1>1. /\ t.looked # Nobody
      /\ audit' = [audit EXCEPT ![a] = x] /\ UNCHANGED <<rows, today, post>>
    BY DEF Insert
<1>2. t \in Transactions /\ Sound(t)
    BY Running
<1>3. t.step = "rooms" /\ t.looked \in Bookings /\ t.date \in Nights
    BY <1>1, <1>2, AuditAssumption DEF Sound, Coherent, Transactions, Dates, Nights
<1>4. l \in Key /\ l.night = t.date /\ l.src = "room" /\ l.window = 1
    BY <1>3, LineIsKey, LineFields DEF Windows
<1>5. /\ x \in Transactions /\ x.step = t.step /\ x.date = t.date /\ x.swept = t.swept
      /\ x.unarrived = t.unarrived /\ x.overdue = t.overdue
      /\ x.touched = t.touched /\ x.pending = t.pending \cup {l} /\ x.rooms = t.rooms
      /\ x.looked = Nobody
    BY <1>2, <1>4 DEF Transactions
<1> HIDE DEF x, t
<1>6. Coherent(x)
    BY <1>2, <1>3, <1>4, <1>5 DEF Sound, Coherent
<1>7. Unmoved(x)
    <2> SUFFICES ASSUME NEW b \in Bookings \ raced,
                        x.looked = b \/ Line(b, x.date, "room", 1) \in x.pending
                 PROVE  live[Line(b, x.date, "room", 2)] = 0
        BY DEF Unmoved
    <2>1. b = t.looked \/ Line(b, t.date, "room", 1) \in t.pending
        BY <1>5, LinesDiffer, AuditAssumption
    <2> QED
        BY <1>2, <1>5, <2>1 DEF Sound, Unmoved
<1>8. Charges(x)
    BY <1>2, <1>5 DEF Sound, Charges
<1>9. LevySafe(x)
    BY <1>2, <1>4, <1>5 DEF Sound, LevySafe
<1> QED
    BY <1>1, <1>5, <1>6, <1>7, <1>8, <1>9, AuditStep DEF Sound

LEMMA PostLeviesKeeps == ASSUME IInv, NEW a \in Audits, PostLevies(a) PROVE IInv'
<1> DEFINE t == audit[a]
           who == {c \in Levied : /\ bk[c].status = "CheckedIn" /\ Covers(bk[c], t.date)
                                  /\ ~Posted(c, t.date, "levy")}
           new == {Line(b, t.date, "levy", 1) : b \in who}
           x == [t EXCEPT !.step = "commit", !.pending = @ \cup new]
<1>1. /\ t.step = "rooms" /\ t.looked = Nobody /\ t.rooms = {}
      /\ audit' = [audit EXCEPT ![a] = x] /\ UNCHANGED <<rows, today, post>>
    BY DEF PostLevies
<1>2. t \in Transactions /\ Sound(t)
    BY Running
<1>3. t.date \in Nights
    BY <1>1, <1>2, AuditAssumption DEF Sound, Coherent, Transactions, Dates, Nights
<1>4. \A l \in new : /\ l \in Key /\ l.night = t.date /\ l.window = 1 /\ l.src = "levy" /\ l.b \in who
                     /\ bk[l.b].status = "CheckedIn" /\ Covers(bk[l.b], t.date)
    BY <1>3, LineIsKey, LineFields, AuditAssumption
<1>5. "commit" \in Steps
    BY DEF Steps
<1>6. /\ x \in Transactions /\ x.step = "commit" /\ x.date = t.date /\ x.swept = t.swept
      /\ x.unarrived = t.unarrived /\ x.overdue = t.overdue
      /\ x.touched = t.touched /\ x.pending = t.pending \cup new /\ x.rooms = {} /\ x.looked = Nobody
    BY <1>1, <1>2, <1>4, <1>5 DEF Transactions
<1> HIDE DEF x, t, new
<1>7. Coherent(x)
    BY <1>1, <1>2, <1>4, <1>6 DEF Sound, Coherent
<1>8. Unmoved(x)
    <2> SUFFICES ASSUME NEW b \in Bookings \ raced,
                        x.looked = b \/ Line(b, x.date, "room", 1) \in x.pending
                 PROVE  live[Line(b, x.date, "room", 2)] = 0
        BY DEF Unmoved
    <2>1. Line(b, t.date, "room", 1) \in t.pending
        BY <1>4, <1>6, LineFields, AuditAssumption
    <2> QED
        BY <1>2, <1>6, <2>1 DEF Sound, Unmoved
<1>9. Charges(x)
    BY <1>1, <1>2, <1>6, AuditAssumption DEF Sound, Charges
<1>10. LevySafe(x)
    BY <1>2, <1>4, <1>6 DEF Sound, LevySafe
<1> QED
    BY <1>1, <1>6, <1>7, <1>8, <1>9, <1>10, AuditStep DEF Sound

\* An audit that is rolled back leaves nothing.
LEMMA RollbackKeeps == ASSUME IInv, NEW a \in Audits, Conflict(a) \/ Crash(a) PROVE IInv'
<1>1. audit' = [audit EXCEPT ![a] = None] /\ UNCHANGED <<rows, today, post>>
    BY DEF Conflict, Crash
<1> QED
    BY <1>1, NoneSound, AuditStep DEF IInv

-----------------------------------------------------------------------------
(* A step of the desk on one booking.                                      *)

LEMMA Touched ==
    ASSUME TypeOK, NEW b \in Bookings, Touch(b)
    PROVE  /\ audit' \in [Audits -> Transactions]
           /\ \A a \in Audits :
                  /\ audit'[a].step = audit[a].step /\ audit'[a].date = audit[a].date
                  /\ audit'[a].unarrived = audit[a].unarrived /\ audit'[a].overdue = audit[a].overdue
                  /\ audit'[a].swept = audit[a].swept /\ audit'[a].rooms = audit[a].rooms
                  /\ audit'[a].looked = audit[a].looked /\ audit'[a].pending = audit[a].pending
                  /\ audit[a].touched \subseteq audit'[a].touched
                  /\ audit[a].step \in {"rooms", "commit"} => b \in audit'[a].touched
<1>1. audit \in [Audits -> Transactions]
    BY DEF TypeOK, Transactions
<1> SUFFICES ASSUME NEW a \in Audits
             PROVE  /\ audit'[a] \in Transactions
                    /\ audit'[a].step = audit[a].step /\ audit'[a].date = audit[a].date
                    /\ audit'[a].unarrived = audit[a].unarrived /\ audit'[a].overdue = audit[a].overdue
                    /\ audit'[a].swept = audit[a].swept /\ audit'[a].rooms = audit[a].rooms
                    /\ audit'[a].looked = audit[a].looked /\ audit'[a].pending = audit[a].pending
                    /\ audit[a].touched \subseteq audit'[a].touched
                    /\ audit[a].step \in {"rooms", "commit"} => b \in audit'[a].touched
    BY DEF Touch
<1>2. audit[a] \in Transactions
    BY <1>1
<1>3. audit'[a] = IF audit[a].step \in {"idle", "due"} THEN audit[a]
                  ELSE [audit[a] EXCEPT !.touched = @ \cup {b}]
    BY DEF Touch
<1>4. CASE audit[a].step \in {"idle", "due"}
    BY <1>2, <1>3, <1>4
<1>5. CASE audit[a].step \notin {"idle", "due"}
    <2>1. audit'[a] = [audit[a] EXCEPT !.touched = @ \cup {b}]
        BY <1>3, <1>5
    <2> QED
        BY <1>2, <2>1 DEF Transactions
<1> QED
    BY <1>4, <1>5

\* The bill of b gains no room, a levy being written for b is one of a stay that is as it was, or
\* noted, and the levies on the bill of b stand.
LEMMA DeskStep ==
    ASSUME IInv, NEW b \in Bookings, Touch(b), UNCHANGED <<date, today, runs, post>>,
           bk' \in [Bookings -> Booking], \A c \in Bookings \ {b} : bk'[c] = bk[c],
           live' \in [Key -> Nat], \A k \in Key : k.b # b => live'[k] = live[k],
           raced \subseteq raced', raced' \subseteq Bookings,
           \A n \in Nights, w \in Windows : live'[Line(b, n, "room", w)] <= live[Line(b, n, "room", w)],
           \/ b \in raced' \/ ~LevyUnderWay(b)
           \/ /\ bk'[b].status = bk[b].status
              /\ bk'[b].checkin = bk[b].checkin /\ bk'[b].checkout = bk[b].checkout,
           b \in Levied \ raced' => \A n \in Nights :
               live'[Line(b, n, "levy", 1)] > 0 =>
                   /\ bk'[b].status # "Approved"
                   /\ bk'[b].status = "CheckedIn" => Covers(bk'[b], n) /\ n < date
    PROVE  IInv'
<1> USE DEF IInv
<1>1. /\ audit' \in [Audits -> Transactions]
      /\ \A a \in Audits :
             /\ audit'[a].step = audit[a].step /\ audit'[a].date = audit[a].date
             /\ audit'[a].unarrived = audit[a].unarrived /\ audit'[a].overdue = audit[a].overdue
             /\ audit'[a].swept = audit[a].swept /\ audit'[a].rooms = audit[a].rooms
             /\ audit'[a].looked = audit[a].looked /\ audit'[a].pending = audit[a].pending
             /\ audit[a].touched \subseteq audit'[a].touched
             /\ audit[a].step \in {"rooms", "commit"} => b \in audit'[a].touched
    BY Touched
<1>2. TypeOK'
    BY <1>1 DEF TypeOK, Transactions
<1>3. EachDateClosedOnce'
    BY DEF EachDateClosedOnce
<1>4. \A c \in Bookings \ {b}, n \in Nights :
          /\ \A w \in Windows : live'[Line(c, n, "room", w)] = live[Line(c, n, "room", w)]
          /\ live'[Line(c, n, "levy", 1)] = live[Line(c, n, "levy", 1)]
    BY LineIsKey, LineFields
<1>5. \A c \in Bookings, n \in Nights, w \in Windows :
          /\ live[Line(c, n, "room", w)] \in Nat /\ live'[Line(c, n, "room", w)] \in Nat
          /\ live'[Line(c, n, "room", w)] <= live[Line(c, n, "room", w)]
    BY <1>4, LineIsKey DEF TypeOK
<1>6. 1 \in Windows /\ 2 \in Windows
    BY DEF Windows
<1>7. \A c \in Bookings, n \in Nights :
          live[Line(c, n, "room", 2)] = 0 => live'[Line(c, n, "room", 2)] = 0
    BY <1>5, <1>6
<1>8. BilledOnce'
    <2> SUFFICES ASSUME NEW c \in Bookings \ raced', NEW n \in Nights
                 PROVE  live'[Line(c, n, "room", 1)] + live'[Line(c, n, "room", 2)] <= 1
        BY DEF BilledOnce
    <2>1. live[Line(c, n, "room", 1)] + live[Line(c, n, "room", 2)] <= 1
        BY DEF BilledOnce
    <2> QED
        BY <1>5, <1>6, <2>1
<1>9. PostUnmoved'
    BY <1>7 DEF PostUnmoved, TypeOK
<1>10. LeviesStand'
    <2> SUFFICES ASSUME NEW c \in Levied \ raced', NEW n \in Nights, live'[Line(c, n, "levy", 1)] > 0
                 PROVE  /\ bk'[c].status # "Approved"
                        /\ bk'[c].status = "CheckedIn" => Covers(bk'[c], n) /\ n < date
        BY DEF LeviesStand
    <2> QED
        BY <1>4, AuditAssumption DEF LeviesStand
<1>11. ASSUME NEW a \in Audits PROVE Sound(audit[a])'
    <2> DEFINE t == audit[a]
               u == audit'[a]
    <2>1. t \in Transactions /\ Sound(t)
        BY Running
    <2>2. /\ u.step = t.step /\ u.date = t.date /\ u.swept = t.swept /\ u.rooms = t.rooms
          /\ u.unarrived = t.unarrived /\ u.overdue = t.overdue
          /\ u.looked = t.looked /\ u.pending = t.pending /\ t.touched \subseteq u.touched
          /\ t.step \in {"rooms", "commit"} => b \in u.touched
        BY <1>1
    <2> HIDE DEF t
    <2>3. Coherent(audit[a])'
        BY <2>1, <2>2 DEF Sound, Coherent
    <2>4. Unmoved(audit[a])'
        <3> SUFFICES ASSUME NEW c \in Bookings \ raced',
                            t.looked = c \/ Line(c, t.date, "room", 1) \in t.pending
                     PROVE  live'[Line(c, t.date, "room", 2)] = 0
            BY <2>2 DEF Unmoved
        <3>1. t.date \in Nights
            BY <2>1, AuditAssumption DEF Sound, Coherent, Transactions, Dates, Nights, Steps
        <3> QED
            BY <1>7, <2>1, <3>1 DEF Sound, Unmoved
    <2>5. Charges(audit[a])'
        <3> SUFFICES ASSUME t.step \in {"rooms", "commit"}, t.date = date,
                            NEW c \in Bookings \ (u.touched \cup u.swept),
                            bk'[c].status \in {"Approved", "CheckedIn"}, Covers(bk'[c], date)
                     PROVE  \/ c \in t.rooms \/ t.looked = c \/ Line(c, date, "room", 1) \in t.pending
                            \/ \E w \in Windows : live'[Line(c, date, "room", w)] > 0
            BY <2>2 DEF Charges
        <3>1. c # b /\ c \in Bookings \ (t.touched \cup t.swept) /\ date \in Nights
            BY <2>1, <2>2, AuditAssumption DEF Sound, Coherent, Transactions, Dates, Nights
        <3>2. bk'[c] = bk[c]
            BY <3>1
        <3> QED
            BY <1>4, <2>1, <3>1, <3>2 DEF Sound, Charges
    <2>6. LevySafe(audit[a])'
        <3> SUFFICES ASSUME NEW l \in t.pending, l.src = "levy", l.b \notin raced'
                     PROVE  /\ bk'[l.b].status # "Approved"
                            /\ t.date = date => bk'[l.b].status = "CheckedIn" /\ Covers(bk'[l.b], l.night)
            BY <2>2 DEF LevySafe
        <3>1. /\ l \in Key /\ l.b \in Bookings /\ l \in Pending
              /\ bk[l.b].status # "Approved"
              /\ t.date = date => bk[l.b].status = "CheckedIn" /\ Covers(bk[l.b], l.night)
            BY <2>1, KeyIsLine DEF Sound, LevySafe, Transactions, Pending, t
        <3>2. CASE l.b # b
            BY <3>1, <3>2
        <3>3. CASE l.b = b
            BY <3>1, <3>3, LevyIsUnderWay DEF Covers
        <3> QED
            BY <3>2, <3>3
    <2> QED
        BY <2>3, <2>4, <2>5, <2>6 DEF Sound
<1> QED
    BY <1>2, <1>3, <1>8, <1>9, <1>10, <1>11

\* A levy is being written only for a guest who has come.
LEMMA LevyNeedsGuest ==
    ASSUME IInv, NEW b \in Bookings \ raced, LevyUnderWay(b)
    PROVE  bk[b].status # "Approved"
<1>1. PICK l \in Pending : Line(b, 1, "levy", 1) = [l EXCEPT !.night = 1]
    BY DEF LevyUnderWay
<1>2. PICK a \in Audits : l \in audit[a].pending
    BY DEF Pending
<1>3. l \in Key
    BY <1>2, Running DEF Transactions
<1>4. [l EXCEPT !.night = 1].b = l.b /\ [l EXCEPT !.night = 1].src = l.src
    BY <1>3 DEF Key
<1>5. l.b = b /\ l.src = "levy"
    <2>1. Line(b, 1, "levy", 1).b = b /\ Line(b, 1, "levy", 1).src = "levy"
        BY LineFields
    <2> QED
        BY <1>1, <1>4, <2>1
<1> QED
    BY <1>2, <1>5, Running DEF Sound, LevySafe

LEMMA ChangeFields ==
    ASSUME IInv, NEW b \in Bookings, NEW x \in Booking, Change(b, x)
    PROVE  /\ Touch(b) /\ bk' \in [Bookings -> Booking] /\ bk'[b] = x
           /\ \A c \in Bookings \ {b} : bk'[c] = bk[c]
BY DEF Change, IInv, TypeOK

LEMMA CheckInKeeps == ASSUME IInv, NEW b \in Bookings, CheckIn(b) PROVE IInv'
<1> USE DEF IInv
<1> DEFINE x == [bk[b] EXCEPT !.status = "CheckedIn", !.due = FALSE, !.fresh = TRUE,
                              !.prior = {n \in Nights : OnTheBill(b, n, "room")}]
<1>1. /\ bk[b].status = "Approved" /\ Change(b, x)
      /\ UNCHANGED <<live, raced, date, today, runs, post>>
    BY DEF CheckIn
<1>2. x \in Booking
    <2>1. bk[b] \in Booking
        BY DEF TypeOK
    <2> QED
        BY <2>1 DEF Booking, Statuses
<1> HIDE DEF x
<1>3. b \in raced' \/ ~LevyUnderWay(b)
    BY <1>1, LevyNeedsGuest
<1>4. b \in Levied \ raced' => \A n \in Nights : ~(live'[Line(b, n, "levy", 1)] > 0)
    BY <1>1 DEF LeviesStand
<1>5. \A n \in Nights, w \in Windows : live[Line(b, n, "room", w)] \in Nat
    BY LineIsKey DEF TypeOK
<1> QED
    BY <1>1, <1>2, <1>3, <1>4, <1>5, ChangeFields, DeskStep DEF TypeOK

LEMMA CancelKeeps == ASSUME IInv, NEW b \in Bookings, Cancel(b) PROVE IInv'
<1> USE DEF IInv
<1> DEFINE x == [bk[b] EXCEPT !.status = "Cancelled", !.due = FALSE]
<1>1. /\ bk[b].status = "Approved" /\ Change(b, x)
      /\ UNCHANGED <<live, raced, date, today, runs, post>>
    BY DEF Cancel
<1>2. x \in Booking
    <2>1. bk[b] \in Booking
        BY DEF TypeOK
    <2> QED
        BY <2>1 DEF Booking, Statuses
<1> HIDE DEF x
<1>3. b \in raced' \/ ~LevyUnderWay(b)
    BY <1>1, LevyNeedsGuest
<1>4. b \in Levied \ raced' => \A n \in Nights : ~(live'[Line(b, n, "levy", 1)] > 0)
    BY <1>1 DEF LeviesStand
<1>5. \A n \in Nights, w \in Windows : live[Line(b, n, "room", w)] \in Nat
    BY LineIsKey DEF TypeOK
<1> QED
    BY <1>1, <1>2, <1>3, <1>4, <1>5, ChangeFields, DeskStep DEF TypeOK

\* Race notes a booking of which a levy is being written.
LEMMA RaceNotes ==
    ASSUME TypeOK, NEW b \in Bookings, Race(b, LevyUnderWay(b))
    PROVE  /\ raced \subseteq raced' /\ raced' \subseteq Bookings
           /\ b \in raced' \/ ~LevyUnderWay(b)
BY DEF Race, TypeOK

LEMMA MoveDepartureKeeps ==
    ASSUME IInv, NEW b \in Bookings, NEW d \in Dates, MoveDeparture(b, d)
    PROVE  IInv'
<1> USE DEF IInv
<1> DEFINE x == [bk[b] EXCEPT !.checkout = d, !.prior = {n \in @ : n < d}]
<1>1. /\ bk[b].status = "CheckedIn" /\ d >= Operating /\ Change(b, x)
      /\ UNCHANGED <<date, today, runs, post>> /\ Race(b, LevyUnderWay(b))
      /\ live' = [k \in Key |->
                     IF k.b = b /\ k.src = "room" /\ d <= k.night /\ Covers(bk[b], k.night)
                     THEN 0 ELSE live[k]]
    BY DEF MoveDeparture
<1>2. x \in Booking /\ x.status = "CheckedIn" /\ x.checkin = bk[b].checkin /\ x.checkout = d
    BY <1>1 DEF TypeOK, Booking, Statuses
<1> HIDE DEF x
<1>3. live' \in [Key -> Nat] /\ \A k \in Key : live'[k] <= live[k] /\ (k.b # b => live'[k] = live[k])
                                               /\ (k.src # "room" => live'[k] = live[k])
    BY <1>1 DEF TypeOK
<1>4. \A n \in Nights, w \in Windows : live'[Line(b, n, "room", w)] <= live[Line(b, n, "room", w)]
    BY <1>3, LineIsKey
<1>5. ASSUME b \in Levied \ raced', NEW n \in Nights, live'[Line(b, n, "levy", 1)] > 0
      PROVE  x.status # "Approved" /\ Covers(x, n) /\ n < date
    <2>1. live[Line(b, n, "levy", 1)] > 0 /\ b \notin raced
        BY <1>1, <1>3, <1>5, LineIsKey, LineFields, RaceNotes
    <2>2. Covers(bk[b], n) /\ n < date
        BY <1>1, <1>5, <2>1 DEF LeviesStand
    <2>3. n < d
        BY <1>1, <2>2 DEF Operating, Later, TypeOK, Dates, Nights
    <2> QED
        BY <1>2, <2>2, <2>3 DEF Covers
<1> QED
    BY <1>1, <1>2, <1>3, <1>4, <1>5, ChangeFields, RaceNotes, DeskStep

\* What the reconciliation does to the lines of b.
LEMMA ReconciledLines ==
    ASSUME TypeOK, NEW f \in [Key -> Nat], NEW b \in Bookings, NEW d \in Int
    PROVE  /\ Reconciled(f, b, d) \in [Key -> Nat]
           /\ \A k \in Key : k.b # b \/ k.src # "levy" => Reconciled(f, b, d)[k] = f[k]
           /\ \A n \in Nights :
                  LET l == Line(b, n, "levy", 1) IN
                  /\ n >= d => Reconciled(f, b, d)[l] = 0
                  /\ n < d /\ Owed(b, n) => Reconciled(f, b, d)[l] = 1
                  /\ n < d /\ ~Owed(b, n) => Reconciled(f, b, d)[l] = f[l]
<1>1. ASSUME NEW k \in Key
      PROVE  /\ Reconciled(f, b, d)[k] \in Nat
             /\ k \notin Levies(b) => Reconciled(f, b, d)[k] = f[k]
             /\ k \in Levies(b) /\ k.night >= d => Reconciled(f, b, d)[k] = 0
             /\ k \in Levies(b) /\ k.night < d /\ Owed(b, k.night) => Reconciled(f, b, d)[k] = 1
             /\ k \in Levies(b) /\ k.night < d /\ ~Owed(b, k.night) => Reconciled(f, b, d)[k] = f[k]
    <2>1. k.night \in Int
        BY KeyIsLine DEF Nights
    <2>2. Reconciled(f, b, d)[k] = CASE k \in Levies(b) /\ k.night >= d -> 0
                                     [] k \in Levies(b) /\ k.night < d /\ Owed(b, k.night) -> 1
                                     [] OTHER -> f[k]
        BY DEF Reconciled
    <2> QED
        BY <2>1, <2>2
<1>2. Reconciled(f, b, d) \in [Key -> Nat]
    BY <1>1 DEF Reconciled
<1>3. \A k \in Key : k.b # b \/ k.src # "levy" => Reconciled(f, b, d)[k] = f[k]
    BY <1>1 DEF Levies
<1>4. ASSUME NEW n \in Nights
      PROVE  LET l == Line(b, n, "levy", 1) IN
             /\ n >= d => Reconciled(f, b, d)[l] = 0
             /\ n < d /\ Owed(b, n) => Reconciled(f, b, d)[l] = 1
             /\ n < d /\ ~Owed(b, n) => Reconciled(f, b, d)[l] = f[l]
    <2>1. Line(b, n, "levy", 1) \in Levies(b) /\ Line(b, n, "levy", 1).night = n
        BY LineIsKey, LineFields DEF Levies
    <2> QED
        BY <1>1, <2>1 DEF Levies
<1> QED
    BY <1>2, <1>3, <1>4

LEMMA CheckOutKeeps == ASSUME IInv, NEW b \in Bookings, CheckOut(b) PROVE IInv'
<1> USE DEF IInv
<1>1. /\ bk[b].status = "CheckedIn" /\ Change(b, Left(bk[b]))
      /\ UNCHANGED <<date, today, runs, post>> /\ Race(b, LevyUnderWay(b))
      /\ live' = Reconciled(live, b, Operating)
    BY DEF CheckOut
<1>2. Left(bk[b]) \in Booking /\ Left(bk[b]).status = "CheckedOut"
    <2>1. bk[b] \in Booking
        BY DEF TypeOK
    <2> QED
        BY <2>1 DEF Left, Booking, Statuses
<1>3. Operating \in Int
    BY DEF Operating, Later, TypeOK, Dates
<1>4. live' \in [Key -> Nat] /\ \A k \in Key : k.b # b \/ k.src # "levy" => live'[k] = live[k]
    BY <1>1, <1>3, ReconciledLines DEF TypeOK
<1>5. \A n \in Nights, w \in Windows : live'[Line(b, n, "room", w)] <= live[Line(b, n, "room", w)]
    BY <1>4, LineIsKey, LineFields DEF TypeOK
<1> QED
    BY <1>1, <1>2, <1>4, <1>5, ChangeFields, RaceNotes, DeskStep

LEMMA UndoCheckInKeeps == ASSUME IInv, NEW b \in Bookings, UndoCheckIn(b) PROVE IInv'
<1> USE DEF IInv
<1> DEFINE x == [bk[b] EXCEPT !.status = "Approved", !.fresh = FALSE, !.prior = {}]
<1>1. /\ bk[b].status = "CheckedIn" /\ Change(b, x)
      /\ UNCHANGED <<date, today, runs, post>> /\ Race(b, LevyUnderWay(b))
      /\ live' = [k \in Key |-> IF k.b = b /\ k.src = "levy" THEN 0 ELSE live[k]]
    BY DEF UndoCheckIn
<1>2. x \in Booking
    <2>1. bk[b] \in Booking
        BY DEF TypeOK
    <2> QED
        BY <2>1 DEF Booking, Statuses
<1> HIDE DEF x
<1>3. live' \in [Key -> Nat] /\ \A k \in Key : k.b # b \/ k.src # "levy" => live'[k] = live[k]
    BY <1>1 DEF TypeOK
<1>4. \A n \in Nights, w \in Windows : live'[Line(b, n, "room", w)] <= live[Line(b, n, "room", w)]
    BY <1>3, LineIsKey, LineFields DEF TypeOK
<1>5. \A n \in Nights : ~(live'[Line(b, n, "levy", 1)] > 0)
    BY <1>1, LineIsKey, LineFields
<1> QED
    BY <1>1, <1>2, <1>3, <1>4, <1>5, ChangeFields, RaceNotes, DeskStep

LEMMA VoidKeeps == ASSUME IInv, NEW k \in Key, Void(k) PROVE IInv'
<1> USE DEF IInv
<1> DEFINE b == k.b
<1>1. /\ live[k] > 0 /\ k.src = "room" /\ Touch(b)
      /\ live' = [live EXCEPT ![k] = @ - 1]
      /\ bk' = [bk EXCEPT ![b].prior = @ \ {k.night}]
      /\ UNCHANGED <<raced, date, today, runs, post>>
    BY DEF Void
<1>2. b \in Bookings
    BY KeyIsLine
<1> HIDE DEF b
<1>3. bk[b] \in Booking /\ [bk[b] EXCEPT !.prior = @ \ {k.night}] \in Booking
    BY <1>2 DEF TypeOK, Booking
<1>4. /\ bk' \in [Bookings -> Booking] /\ \A c \in Bookings \ {b} : bk'[c] = bk[c]
      /\ bk'[b].status = bk[b].status
      /\ bk'[b].checkin = bk[b].checkin /\ bk'[b].checkout = bk[b].checkout
    BY <1>1, <1>2, <1>3 DEF TypeOK, Booking
<1>5. live' \in [Key -> Nat] /\ \A j \in Key : /\ live'[j] <= live[j] /\ (j # k => live'[j] = live[j])
    BY <1>1 DEF TypeOK
<1>6. \A n \in Nights, w \in Windows : live'[Line(b, n, "room", w)] <= live[Line(b, n, "room", w)]
    BY <1>2, <1>5, LineIsKey
<1>7. \A n \in Nights : live'[Line(b, n, "levy", 1)] = live[Line(b, n, "levy", 1)]
    BY <1>1, <1>2, <1>5, LineIsKey, LineFields
<1>8. b \in Levied \ raced' => \A n \in Nights :
          live'[Line(b, n, "levy", 1)] > 0 =>
              /\ bk'[b].status # "Approved"
              /\ bk'[b].status = "CheckedIn" => Covers(bk'[b], n) /\ n < date
    BY <1>1, <1>4, <1>7 DEF LeviesStand, Covers
<1>9. \A j \in Key : j.b # b => live'[j] = live[j]
    BY <1>5 DEF b
<1> QED
    BY <1>1, <1>2, <1>4, <1>5, <1>6, <1>8, <1>9, DeskStep DEF TypeOK

\* A night that a transaction has found not charged is one RoomUnderWay knows of.
LEMMA RoomIsUnderWay ==
    ASSUME NEW a \in Audits, NEW b \in Bookings,
           audit[a].looked = b \/ Line(b, audit[a].date, "room", 1) \in audit[a].pending
    PROVE  RoomUnderWay(b)
BY LineFields DEF RoomUnderWay, Pending

LEMMA TransferKeeps == ASSUME IInv, NEW k \in Key, Transfer(k) PROVE IInv'
<1> USE DEF IInv
<1> DEFINE to == [k EXCEPT !.window = 2]
<1>1. /\ live[k] > 0 /\ k.src = "room" /\ k.window = 1
      /\ live' = [live EXCEPT ![k] = @ - 1, ![to] = @ + 1]
      /\ raced' = IF RoomUnderWay(k.b) THEN raced \cup {k.b} ELSE raced
      /\ UNCHANGED <<bk, date, today, runs, audit, post>>
    BY DEF Transfer, Race
<1>2. k.b \in Bookings /\ k.night \in Nights /\ k = Line(k.b, k.night, "room", 1)
    BY <1>1, KeyIsLine
<1>3. to = Line(k.b, k.night, "room", 2)
    BY <1>2 DEF Line
<1> HIDE DEF to
<1>4. to \in Key /\ to # k
    BY <1>2, <1>3, LineIsKey, LinesDiffer DEF Windows
<1>5. /\ live' \in [Key -> Nat] /\ live'[k] = live[k] - 1 /\ live'[to] = live[to] + 1
      /\ \A j \in Key : j # k /\ j # to => live'[j] = live[j]
    BY <1>1, <1>4 DEF TypeOK
<1>6. \A b \in Bookings, n \in Nights :
          /\ b # k.b \/ n # k.night => \A w \in Windows : live'[Line(b, n, "room", w)] = live[Line(b, n, "room", w)]
          /\ live'[Line(b, n, "levy", 1)] = live[Line(b, n, "levy", 1)]
    BY <1>2, <1>3, <1>5, LineIsKey, LineFields
<1>7. TypeOK' /\ EachDateClosedOnce' /\ LeviesStand'
    <2>1. TypeOK'
        BY <1>1, <1>2, <1>5 DEF TypeOK
    <2>2. EachDateClosedOnce'
        BY <1>1 DEF EachDateClosedOnce
    <2>3. LeviesStand'
        BY <1>1, <1>6, AuditAssumption DEF LeviesStand
    <2> QED
        BY <2>1, <2>2, <2>3
<1>8. BilledOnce'
    <2> SUFFICES ASSUME NEW b \in Bookings \ raced', NEW n \in Nights
                 PROVE  live'[Line(b, n, "room", 1)] + live'[Line(b, n, "room", 2)] <= 1
        BY DEF BilledOnce
    <2>1. live[Line(b, n, "room", 1)] + live[Line(b, n, "room", 2)] <= 1
        BY <1>1 DEF BilledOnce
    <2>2. CASE b = k.b /\ n = k.night
        <3>1. live[k] \in Nat /\ live[to] \in Nat
            BY <1>4 DEF TypeOK
        <3> QED
            BY <1>2, <1>3, <1>5, <2>1, <2>2, <3>1
    <2>3. CASE b # k.b \/ n # k.night
        BY <1>6, <2>1, <2>3 DEF Windows
    <2> QED
        BY <2>2, <2>3
<1>9. PostUnmoved'
    <2> SUFFICES ASSUME post.b \in Bookings \ raced', NEW n \in post.nights
                 PROVE  live'[Line(post.b, n, "room", 2)] = 0
        BY <1>1 DEF PostUnmoved
    <2>1. post.b # k.b /\ post.b \notin raced
        <3>1. post.b \notin (IF RoomUnderWay(k.b) THEN raced \cup {k.b} ELSE raced)
            BY <1>1
        <3> QED
            BY <3>1 DEF RoomUnderWay
    <2>2. n \in Nights
        BY DEF TypeOK
    <2> QED
        BY <1>6, <2>1, <2>2 DEF PostUnmoved, Windows
<1>10. ASSUME NEW a \in Audits PROVE Sound(audit[a])'
    <2> DEFINE t == audit[a]
    <2>1. t \in Transactions /\ Sound(t)
        BY Running
    <2>2. Coherent(audit[a])' /\ LevySafe(audit[a])'
        BY <1>1, <2>1 DEF Sound, Coherent, LevySafe
    <2>3. Unmoved(audit[a])'
        <3> SUFFICES ASSUME NEW c \in Bookings \ raced',
                            t.looked = c \/ Line(c, t.date, "room", 1) \in t.pending
                     PROVE  live'[Line(c, t.date, "room", 2)] = 0
            BY <1>1 DEF Unmoved
        <3>1. c # k.b /\ c \notin raced
            <4>1. RoomUnderWay(c)
                BY RoomIsUnderWay
            <4>2. c \notin (IF RoomUnderWay(k.b) THEN raced \cup {k.b} ELSE raced)
                BY <1>1
            <4> QED
                BY <4>1, <4>2
        <3>2. t.date \in Nights
            BY <2>1, AuditAssumption DEF Sound, Coherent, Transactions, Dates, Nights, Steps
        <3> QED
            BY <1>6, <2>1, <3>1, <3>2 DEF Sound, Unmoved, Windows
    <2>4. Charges(audit[a])'
        <3> SUFFICES ASSUME t.step \in {"rooms", "commit"}, t.date = date,
                            NEW c \in Bookings \ (t.touched \cup t.swept),
                            bk[c].status \in {"Approved", "CheckedIn"}, Covers(bk[c], date)
                     PROVE  \/ c \in t.rooms \/ t.looked = c \/ Line(c, date, "room", 1) \in t.pending
                            \/ \E w \in Windows : live'[Line(c, date, "room", w)] > 0
            BY <1>1 DEF Charges
        <3>1. \/ c \in t.rooms \/ t.looked = c \/ Line(c, date, "room", 1) \in t.pending
              \/ \E w \in Windows : live[Line(c, date, "room", w)] > 0
            BY <2>1 DEF Sound, Charges
        <3>2. CASE c = k.b /\ date = k.night
            <4>1. live[to] \in Nat
                BY <1>4 DEF TypeOK
            <4> QED
                BY <1>3, <1>5, <3>2, <4>1 DEF Windows
        <3>3. CASE c # k.b \/ date # k.night
            <4>1. date \in Nights
                BY <2>1, AuditAssumption DEF Sound, Coherent, Transactions, Dates, Nights
            <4> QED
                BY <1>6, <3>1, <3>3, <4>1
        <3> QED
            BY <3>2, <3>3
    <2> QED
        BY <2>2, <2>3, <2>4 DEF Sound
<1> QED
    BY <1>7, <1>8, <1>9, <1>10

-----------------------------------------------------------------------------
(* The desk's posting, and midnight.                                       *)

\* A night that is not posted has no line of a room, in either window.
LEMMA NotPosted ==
    ASSUME TypeOK, NEW b \in Bookings, NEW n \in Nights, ~Posted(b, n, "room"), NEW w \in Windows
    PROVE  live[Line(b, n, "room", w)] = 0
<1>1. Line(b, n, "room", w) \in Key
    BY LineIsKey
<1>2. ~(live[Line(b, n, "room", w)] > 0)
    BY <1>1, LineFields DEF Posted, OnTheBill
<1>3. live[Line(b, n, "room", w)] \in Nat
    BY <1>1 DEF TypeOK
<1> QED
    BY <1>2, <1>3

\* A new posting changes no row.
LEMMA PostStep ==
    ASSUME IInv, UNCHANGED <<rows, today, audit>>,
           post' \in [b : Bookings \cup {Nobody}, nights : SUBSET Nights],
           post'.b \in Bookings =>
               \A n \in post'.nights : live[Line(post'.b, n, "room", 2)] = 0
    PROVE  IInv'
<1> USE DEF IInv
<1>1. UNCHANGED <<bk, live, raced, date, runs, today, audit>>
    BY DEF rows
<1>2. TypeOK' /\ EachDateClosedOnce' /\ BilledOnce' /\ LeviesStand'
    BY <1>1 DEF TypeOK, EachDateClosedOnce, BilledOnce, LeviesStand
<1>3. PostUnmoved'
    BY <1>1 DEF PostUnmoved
<1>4. \A a \in Audits : Sound(audit[a])'
    BY <1>1 DEF Sound, Coherent, Unmoved, Charges, LevySafe
<1> QED
    BY <1>2, <1>3, <1>4

LEMMA BeginPostKeeps == ASSUME IInv, NEW b \in Bookings, BeginPost(b) PROVE IInv'
<1>1. /\ post' = [b |-> b, nights |-> {n \in Nights : Covers(bk[b], n) /\ ~Posted(b, n, "room")}]
      /\ UNCHANGED <<rows, today, audit>>
    BY DEF BeginPost
<1>2. \A n \in Nights : ~Posted(b, n, "room") => live[Line(b, n, "room", 2)] = 0
    BY NotPosted DEF IInv, Windows
<1> QED
    BY <1>1, <1>2, PostStep

LEMMA RefusePostKeeps == ASSUME IInv, RefusePost PROVE IInv'
BY PostStep, AuditAssumption DEF RefusePost

LEMMA Added ==
    ASSUME NEW f \in [Key -> Nat], NEW keys \in SUBSET Key
    PROVE  /\ With(f, keys) \in [Key -> Nat]
           /\ \A k \in Key : With(f, keys)[k] = IF k \in keys THEN f[k] + 1 ELSE f[k]
BY DEF With

LEMMA CommitPostKeeps == ASSUME IInv, CommitPost PROVE IInv'
<1> USE DEF IInv
<1>1. /\ post.b # Nobody /\ \A l \in PostKeys : ~Duplicate(l)
      /\ live' = With(live, PostKeys)
      /\ post' = [b |-> Nobody, nights |-> {}]
      /\ UNCHANGED <<bk, raced, date, today, runs, audit>>
    BY DEF CommitPost
<1>2. post.b \in Bookings /\ post.nights \subseteq Nights
    BY <1>1 DEF TypeOK
<1>3. /\ PostKeys \subseteq Key
      /\ \A l \in PostKeys : l.b = post.b /\ l.night \in post.nights /\ l.src = "room" /\ l.window = 1
    BY <1>2, LineIsKey, LineFields DEF PostKeys, Windows
<1>4. /\ live' \in [Key -> Nat]
      /\ \A k \in Key : live'[k] = IF k \in PostKeys THEN live[k] + 1 ELSE live[k]
    BY <1>1, <1>3, Added DEF TypeOK
<1>5. \A c \in Bookings, n \in Nights :
          /\ live'[Line(c, n, "room", 2)] = live[Line(c, n, "room", 2)]
          /\ live'[Line(c, n, "levy", 1)] = live[Line(c, n, "levy", 1)]
    BY <1>3, <1>4, LineIsKey, LineFields DEF Windows
<1>6. TypeOK' /\ EachDateClosedOnce' /\ LeviesStand' /\ PostUnmoved'
    <2>1. TypeOK'
        BY <1>1, <1>4 DEF TypeOK
    <2>2. EachDateClosedOnce'
        BY <1>1 DEF EachDateClosedOnce
    <2>3. LeviesStand'
        BY <1>1, <1>5, AuditAssumption DEF LeviesStand
    <2>4. PostUnmoved'
        BY <1>1, AuditAssumption DEF PostUnmoved
    <2> QED
        BY <2>1, <2>2, <2>3, <2>4
<1>7. BilledOnce'
    <2> SUFFICES ASSUME NEW b \in Bookings \ raced, NEW n \in Nights
                 PROVE  live'[Line(b, n, "room", 1)] + live'[Line(b, n, "room", 2)] <= 1
        BY <1>1 DEF BilledOnce
    <2>1. live[Line(b, n, "room", 1)] + live[Line(b, n, "room", 2)] <= 1
        BY DEF BilledOnce
    <2>2. Line(b, n, "room", 1) \in Key
        BY LineIsKey DEF Windows
    <2>3. CASE Line(b, n, "room", 1) \in PostKeys
        <3>1. b = post.b /\ n \in post.nights
            BY <1>3, <2>3, LineFields
        <3>2. live[Line(b, n, "room", 2)] = 0
            BY <3>1 DEF PostUnmoved
        <3>3. live[Line(b, n, "room", 1)] = 0
            BY <1>1, <2>2, <2>3 DEF Duplicate, TypeOK
        <3> QED
            BY <1>4, <1>5, <2>2, <2>3, <3>2, <3>3
    <2>4. CASE Line(b, n, "room", 1) \notin PostKeys
        BY <1>4, <1>5, <2>1, <2>2, <2>4
    <2> QED
        BY <2>3, <2>4
<1>8. ASSUME NEW a \in Audits PROVE Sound(audit[a])'
    <2> DEFINE t == audit[a]
    <2>1. t \in Transactions /\ Sound(t)
        BY Running
    <2>2. Coherent(audit[a])' /\ LevySafe(audit[a])'
        BY <1>1, <2>1 DEF Sound, Coherent, LevySafe
    <2>3. t.step \in {"rooms", "commit"} => t.date \in Nights
        BY <2>1, AuditAssumption DEF Sound, Coherent, Transactions, Dates, Nights
    <2>4. Unmoved(audit[a])'
        <3> SUFFICES ASSUME NEW c \in Bookings \ raced,
                            t.looked = c \/ Line(c, t.date, "room", 1) \in t.pending
                     PROVE  live'[Line(c, t.date, "room", 2)] = 0
            BY <1>1 DEF Unmoved
        <3>1. t.date \in Nights
            BY <2>1, AuditAssumption DEF Sound, Coherent, Transactions, Dates, Nights, Steps
        <3> QED
            BY <1>5, <2>1, <3>1 DEF Sound, Unmoved
    <2>5. Charges(audit[a])'
        <3> SUFFICES ASSUME t.step \in {"rooms", "commit"}, t.date = date,
                            NEW c \in Bookings \ (t.touched \cup t.swept),
                            bk[c].status \in {"Approved", "CheckedIn"}, Covers(bk[c], date)
                     PROVE  \/ c \in t.rooms \/ t.looked = c \/ Line(c, date, "room", 1) \in t.pending
                            \/ \E w \in Windows : live'[Line(c, date, "room", w)] > 0
            BY <1>1 DEF Charges
        <3>1. \/ c \in t.rooms \/ t.looked = c \/ Line(c, date, "room", 1) \in t.pending
              \/ \E w \in Windows : live[Line(c, date, "room", w)] > 0
            BY <2>1 DEF Sound, Charges
        <3>2. \A w \in Windows : /\ live[Line(c, date, "room", w)] \in Nat
                                 /\ live'[Line(c, date, "room", w)] >= live[Line(c, date, "room", w)]
            BY <1>4, <2>3, LineIsKey DEF TypeOK
        <3>3. \A w \in Windows : live'[Line(c, date, "room", w)] \in Nat
            BY <1>4, <2>3, LineIsKey
        <3> QED
            BY <3>1, <3>2, <3>3
    <2> QED
        BY <2>2, <2>4, <2>5 DEF Sound
<1> QED
    BY <1>6, <1>7, <1>8

LEMMA MidnightKeeps == ASSUME IInv, Midnight PROVE IInv'
<1> USE DEF IInv
<1>1. /\ today <= Horizon /\ today' = today + 1
      /\ bk' = [b \in Bookings |-> [bk[b] EXCEPT !.fresh = FALSE, !.prior = {}]]
      /\ UNCHANGED <<live, raced, date, runs, audit, post>>
    BY DEF Midnight
<1>2. ASSUME NEW b \in Bookings
      PROVE  /\ bk'[b] \in Booking /\ bk'[b].status = bk[b].status
             /\ bk'[b].checkin = bk[b].checkin /\ bk'[b].checkout = bk[b].checkout
    <2>1. bk[b] \in Booking
        BY DEF TypeOK
    <2>2. bk'[b] = [bk[b] EXCEPT !.fresh = FALSE, !.prior = {}]
        BY <1>1
    <2> QED
        BY <2>1, <2>2 DEF Booking
<1>3. TypeOK'
    <2>1. bk' \in [Bookings -> Booking]
        BY <1>1, <1>2
    <2>2. today' \in Dates
        <3>1. Horizon \in Nat /\ today \in 1 .. Horizon + 1
            BY AuditAssumption DEF TypeOK, Dates
        <3>2. today' = today + 1 /\ today <= Horizon
            BY <1>1
        <3> HIDE DEF IInv
        <3> QED
            BY <3>1, <3>2 DEF Dates
    <2> QED
        BY <1>1, <2>1, <2>2 DEF TypeOK
<1>4. EachDateClosedOnce' /\ BilledOnce' /\ PostUnmoved'
    BY <1>1 DEF EachDateClosedOnce, BilledOnce, PostUnmoved
<1>5. \A b \in Bookings, n \in Nights : Covers(bk'[b], n) <=> Covers(bk[b], n)
    BY <1>2 DEF Covers
<1>6. LeviesStand'
    BY <1>1, <1>2, <1>5, AuditAssumption DEF LeviesStand
<1>7. ASSUME NEW a \in Audits PROVE Sound(audit[a])'
    <2> DEFINE t == audit[a]
    <2>1. t \in Transactions /\ Sound(t)
        BY Running
    <2>2. Coherent(audit[a])' /\ Unmoved(audit[a])'
        BY <1>1, <2>1 DEF Sound, Coherent, Unmoved
    <2>3. Charges(audit[a])'
        BY <1>1, <1>2, <2>1 DEF Sound, Charges, Covers
    <2>4. LevySafe(audit[a])'
        <3>1. \A l \in t.pending : l.b \in Bookings
            BY <2>1, KeyIsLine DEF Transactions
        <3> QED
            BY <1>1, <1>2, <2>1, <3>1 DEF Sound, LevySafe, Covers
    <2> QED
        BY <2>2, <2>3, <2>4 DEF Sound
<1> QED
    BY <1>3, <1>4, <1>6, <1>7

-----------------------------------------------------------------------------
(* An audit commits.                                                       *)

Gone(a, kept)   == {b \in audit[a].unarrived \ kept : StillUnarrived(a, b)}
Out(a, refused) == {b \in audit[a].overdue \ refused : bk[b].status = "CheckedIn"}
Base(a)         == With(live, audit[a].pending)

\* The date it closes is the business date.
LEMMA CommitsToday ==
    ASSUME IInv, NEW a \in Audits, NEW kept, NEW refused, Commit(a, kept, refused)
    PROVE  /\ audit[a].date = date /\ date \in Nights /\ date' = date + 1
           /\ audit[a].rooms = {} /\ audit[a].looked = Nobody
<1>1. /\ audit[a].step = "commit" /\ ~AlreadyRun(a) /\ date' = audit[a].date + 1
    BY DEF Commit
<1>2. audit[a] \in Transactions /\ Sound(audit[a])
    BY Running
<1>3. /\ audit[a].date <= date /\ audit[a].date <= Horizon
      /\ audit[a].rooms = {} /\ audit[a].looked = Nobody
    BY <1>1, <1>2 DEF Sound, Coherent, Transactions
<1>4. Horizon \in Nat /\ date \in 1 .. Horizon + 1 /\ audit[a].date \in 1 .. Horizon
    BY <1>2, <1>3, AuditAssumption DEF IInv, TypeOK, Dates, Transactions
<1>5. runs[audit[a].date] = IF audit[a].date < date THEN 1 ELSE 0
    BY <1>4 DEF IInv, EachDateClosedOnce, Nights
<1>6. ~(audit[a].date < date)
    BY <1>1, <1>5 DEF AlreadyRun
<1> QED
    BY <1>1, <1>3, <1>4, <1>6 DEF Nights

\* What becomes of the bookings.
LEMMA CommitBookings ==
    ASSUME IInv, NEW a \in Audits, NEW kept, NEW refused, Commit(a, kept, refused)
    PROVE  /\ bk' \in [Bookings -> Booking]
           /\ \A b \in Bookings :
                  /\ \/ bk'[b] = bk[b] /\ b \notin Out(a, refused)
                     \/ bk'[b].status = "Cancelled" /\ b \notin Out(a, refused)
                     \/ /\ bk'[b].status = "NoShow" /\ bk[b].status = "Approved"
                        /\ b \notin Out(a, refused)
                     \/ bk'[b].status = "CheckedOut" /\ b \in Out(a, refused)
<1> DEFINE x == audit[a]
           gone == Gone(a, kept)
           out  == Out(a, refused)
<1>1. bk' = [b \in Bookings |->
                 CASE b \in x.swept -> [bk[b] EXCEPT !.status = "Cancelled", !.due = FALSE]
                   [] b \in gone    -> [bk[b] EXCEPT !.status = "NoShow"]
                   [] b \in out     -> Left(bk[b])
                   [] OTHER         -> bk[b]]
    BY DEF Commit, Gone, Out
<1>2. /\ x.swept \cap gone = {} /\ x.swept \cap out = {} /\ gone \cap out = {}
      /\ \A b \in gone : bk[b].status = "Approved"
    <2>1. x.swept \cap (x.unarrived \cup x.overdue) = {}
        BY Running DEF Sound, Coherent
    <2> QED
        BY <2>1 DEF Gone, Out, StillUnarrived
<1> HIDE DEF x, gone, out
<1>3. ASSUME NEW b \in Bookings
      PROVE  /\ bk'[b] \in Booking
             /\ \/ bk'[b] = bk[b] /\ b \notin out
                \/ bk'[b].status = "Cancelled" /\ b \notin out
                \/ bk'[b].status = "NoShow" /\ bk[b].status = "Approved" /\ b \notin out
                \/ bk'[b].status = "CheckedOut" /\ b \in out
    <2>1. bk[b] \in Booking
        BY DEF IInv, TypeOK
    <2>2. CASE b \in x.swept
        <3>1. bk'[b] = [bk[b] EXCEPT !.status = "Cancelled", !.due = FALSE]
            BY <1>1, <1>2, <2>2
        <3> QED
            BY <1>2, <2>1, <2>2, <3>1 DEF Booking, Statuses
    <2>3. CASE b \in gone
        <3>1. bk'[b] = [bk[b] EXCEPT !.status = "NoShow"]
            BY <1>1, <1>2, <2>3
        <3> QED
            BY <1>2, <2>1, <2>3, <3>1 DEF Booking, Statuses
    <2>4. CASE b \in out
        <3>1. bk'[b] = Left(bk[b])
            BY <1>1, <1>2, <2>4
        <3> QED
            BY <1>2, <2>1, <2>4, <3>1 DEF Left, Booking, Statuses
    <2>5. CASE b \notin x.swept /\ b \notin gone /\ b \notin out
        BY <1>1, <2>1, <2>5
    <2> QED
        BY <2>2, <2>3, <2>4, <2>5
<1> QED
    BY <1>1, <1>3 DEF out

\* What becomes of the lines.
LEMMA CommitLines ==
    ASSUME IInv, NEW a \in Audits, NEW kept, NEW refused, Commit(a, kept, refused)
    PROVE  /\ live' \in [Key -> Nat]
           /\ \A k \in Key : k.b \notin Out(a, refused) \/ k.src = "room" =>
                  live'[k] = IF k \in audit[a].pending THEN live[k] + 1 ELSE live[k]
           /\ \A b \in Out(a, refused), n \in Nights :
                  LET l == Line(b, n, "levy", 1) IN
                  /\ n >= Operating => live'[l] = 0
                  /\ n < Operating /\ Owed(b, n) => live'[l] = 1
                  /\ n < Operating /\ ~Owed(b, n) =>
                         live'[l] = IF l \in audit[a].pending THEN live[l] + 1 ELSE live[l]
<1> DEFINE out == Out(a, refused)
           base == Base(a)
<1>1. live' = [k \in Key |-> IF k.b \in out THEN Reconciled(base, k.b, Operating)[k] ELSE base[k]]
    BY DEF Commit, Out, Base
<1>2. audit[a].pending \subseteq Key /\ out \subseteq Bookings
    BY Running DEF Transactions, Out
<1>3. /\ base \in [Key -> Nat]
      /\ \A k \in Key : base[k] = IF k \in audit[a].pending THEN live[k] + 1 ELSE live[k]
    BY <1>2, Added DEF IInv, TypeOK, Base
<1>4. Operating \in Int /\ TypeOK
    BY DEF Operating, Later, IInv, TypeOK, Dates
<1> HIDE DEF out, base
<1>5. \A b \in out :
          /\ Reconciled(base, b, Operating) \in [Key -> Nat]
          /\ \A k \in Key : k.src # "levy" => Reconciled(base, b, Operating)[k] = base[k]
          /\ \A n \in Nights :
                  LET l == Line(b, n, "levy", 1) IN
                  /\ n >= Operating => Reconciled(base, b, Operating)[l] = 0
                  /\ n < Operating /\ Owed(b, n) => Reconciled(base, b, Operating)[l] = 1
                  /\ n < Operating /\ ~Owed(b, n) => Reconciled(base, b, Operating)[l] = base[l]
    BY <1>2, <1>3, <1>4, ReconciledLines
<1>6. \A k \in Key : live'[k] = IF k.b \in out THEN Reconciled(base, k.b, Operating)[k] ELSE base[k]
    BY <1>1
<1>7. live' \in [Key -> Nat]
    <2>1. \A k \in Key : live'[k] \in Nat
        BY <1>3, <1>5, <1>6
    <2> QED
        BY <1>1, <2>1
<1>8. \A k \in Key : k.b \notin out \/ k.src = "room" =>
          live'[k] = IF k \in audit[a].pending THEN live[k] + 1 ELSE live[k]
    BY <1>3, <1>5, <1>6
<1>9. \A b \in out, n \in Nights :
          LET l == Line(b, n, "levy", 1) IN
          /\ n >= Operating => live'[l] = 0
          /\ n < Operating /\ Owed(b, n) => live'[l] = 1
          /\ n < Operating /\ ~Owed(b, n) =>
                 live'[l] = IF l \in audit[a].pending THEN live[l] + 1 ELSE live[l]
    <2> TAKE b \in out, n \in Nights
    <2>1. /\ Line(b, n, "levy", 1) \in Key /\ Line(b, n, "levy", 1).b = b
        BY <1>2, LineIsKey, LineFields
    <2> QED
        BY <1>3, <1>5, <1>6, <2>1
<1> QED
    BY <1>7, <1>8, <1>9 DEF out

\* What the two lemmas say of a room's lines: those of window 1 gain what was pending.
LEMMA CommitRooms ==
    ASSUME IInv, NEW a \in Audits, NEW kept, NEW refused, Commit(a, kept, refused),
           NEW b \in Bookings, NEW n \in Nights
    PROVE  /\ live'[Line(b, n, "room", 1)]
                 = live[Line(b, n, "room", 1)]
                       + (IF Line(b, n, "room", 1) \in audit[a].pending THEN 1 ELSE 0)
           /\ live'[Line(b, n, "room", 2)] = live[Line(b, n, "room", 2)]
           /\ \A w \in Windows : live[Line(b, n, "room", w)] \in Nat
<1>1. \A w \in Windows : Line(b, n, "room", w) \in Key /\ Line(b, n, "room", w).src = "room"
    BY LineIsKey, LineFields
<1>2. Line(b, n, "room", 2) \notin audit[a].pending
    BY Running, LineFields DEF Sound, Coherent
<1>3. \A w \in Windows : live[Line(b, n, "room", w)] \in Nat
    BY <1>1 DEF IInv, TypeOK
<1>4. 1 \in Windows /\ 2 \in Windows
    BY DEF Windows
<1> QED
    BY <1>1, <1>2, <1>3, <1>4, CommitLines

LEMMA CommitKeeps ==
    ASSUME IInv, NEW a \in Audits, NEW kept, NEW refused, Commit(a, kept, refused)
    PROVE  IInv'
<1> DEFINE x   == audit[a]
           out == Out(a, refused)
<1>1. /\ runs' = [runs EXCEPT ![x.date] = @ + 1] /\ \A l \in x.pending : ~Duplicate(l)
      /\ audit' = [audit EXCEPT ![a] = None] /\ UNCHANGED <<raced, today, post>>
    BY DEF Commit
<1>2. /\ x.date = date /\ date \in Nights /\ date' = date + 1
      /\ x.rooms = {} /\ x.looked = Nobody
    BY CommitsToday
<1>3. /\ x \in Transactions /\ Sound(x) /\ audit \in [Audits -> Transactions]
      /\ \A l \in x.pending : l \in Key /\ l.night = date /\ l.window = 1
    BY <1>2, Running DEF IInv, TypeOK, Transactions, Sound, Coherent
<1>4. /\ bk' \in [Bookings -> Booking]
      /\ \A b \in Bookings : \/ bk'[b] = bk[b] /\ b \notin out
                             \/ bk'[b].status \in {"Cancelled", "NoShow", "CheckedOut"}
    BY CommitBookings
<1>5. Horizon \in Nat /\ date \in 1 .. Horizon
    BY <1>2, AuditAssumption DEF Nights
<1>6. TypeOK'
    <2>1. date' \in Dates
        BY <1>2, <1>5 DEF Dates
    <2>2. runs' \in [Nights -> Nat]
        BY <1>1, <1>2 DEF IInv, TypeOK
    <2>3. audit' \in [Audits -> Transactions]
        BY <1>1, <1>3, NoneSound DEF IInv
    <2>4. live' \in [Key -> Nat]
        BY CommitLines
    <2> QED
        BY <1>1, <1>4, <2>1, <2>2, <2>3, <2>4 DEF IInv, TypeOK, Transactions
<1>7. EachDateClosedOnce'
    <2>1. runs \in [Nights -> Nat] /\ \A d \in Nights : runs[d] = (IF d < date THEN 1 ELSE 0)
        BY DEF IInv, TypeOK, EachDateClosedOnce
    <2>2. ASSUME NEW d \in Nights PROVE runs'[d] = IF d < date' THEN 1 ELSE 0
        <3>1. d \in Int /\ runs'[d] = IF d = date THEN runs[d] + 1 ELSE runs[d]
            BY <1>1, <1>2, <2>1 DEF Nights
        <3> QED
            BY <1>2, <1>5, <2>1, <3>1
    <2> QED
        BY <2>2 DEF EachDateClosedOnce
<1>8. BilledOnce'
    <2> SUFFICES ASSUME NEW b \in Bookings \ raced, NEW n \in Nights
                 PROVE  live'[Line(b, n, "room", 1)] + live'[Line(b, n, "room", 2)] <= 1
        BY <1>1 DEF BilledOnce
    <2>1. /\ live'[Line(b, n, "room", 1)]
                = live[Line(b, n, "room", 1)] + (IF Line(b, n, "room", 1) \in x.pending THEN 1 ELSE 0)
          /\ live'[Line(b, n, "room", 2)] = live[Line(b, n, "room", 2)]
          /\ live[Line(b, n, "room", 1)] \in Nat /\ live[Line(b, n, "room", 2)] \in Nat
        BY CommitRooms DEF Windows
    <2>2. live[Line(b, n, "room", 1)] + live[Line(b, n, "room", 2)] <= 1
        BY DEF IInv, BilledOnce
    <2>3. CASE Line(b, n, "room", 1) \in x.pending
        <3>1. n = x.date
            BY <1>2, <1>3, <2>3, LineFields
        <3>2. live[Line(b, n, "room", 2)] = 0
            BY <1>3, <2>3, <3>1 DEF Sound, Unmoved
        <3>3. ~(live[Line(b, n, "room", 1)] > 0)
            BY <1>1, <2>3 DEF Duplicate
        <3> QED
            BY <2>1, <3>2, <3>3
    <2>4. CASE Line(b, n, "room", 1) \notin x.pending
        BY <2>1, <2>2, <2>4
    <2> QED
        BY <2>3, <2>4
<1>9. PostUnmoved'
    <2> SUFFICES ASSUME post.b \in Bookings \ raced, NEW n \in post.nights
                 PROVE  live'[Line(post.b, n, "room", 2)] = 0
        BY <1>1 DEF PostUnmoved
    <2>1. n \in Nights
        BY DEF IInv, TypeOK
    <2> QED
        BY <2>1, CommitRooms DEF IInv, PostUnmoved
<1>10. LeviesStand'
    <2> SUFFICES ASSUME NEW b \in Levied \ raced, NEW n \in Nights, live'[Line(b, n, "levy", 1)] > 0,
                        bk'[b].status \notin {"Cancelled", "NoShow", "CheckedOut"}
                 PROVE  /\ bk'[b].status # "Approved"
                        /\ bk'[b].status = "CheckedIn" => Covers(bk'[b], n) /\ n < date'
        BY <1>1 DEF LeviesStand
    <2> DEFINE l == Line(b, n, "levy", 1)
    <2>1. b \in Bookings /\ l \in Key /\ l.b = b /\ l.night = n /\ l.src = "levy"
        BY LineIsKey, LineFields, AuditAssumption
    <2>2. bk'[b] = bk[b] /\ b \notin out
        BY <1>4, <2>1
    <2>3. live'[l] = IF l \in x.pending THEN live[l] + 1 ELSE live[l]
        BY <2>1, <2>2, CommitLines
    <2>4. n \in Int
        BY DEF Nights
    <2>5. CASE l \in x.pending
        <3>1. n = date
            BY <1>3, <2>1, <2>5
        <3>2. bk[b].status # "Approved" /\ (bk[b].status = "CheckedIn" => Covers(bk[b], n))
            BY <1>2, <1>3, <2>1, <2>5 DEF Sound, LevySafe
        <3> QED
            BY <1>2, <1>5, <2>2, <3>1, <3>2
    <2>6. CASE l \notin x.pending
        <3>1. live[l] > 0
            BY <2>3, <2>6
        <3>2. bk[b].status # "Approved" /\ (bk[b].status = "CheckedIn" => Covers(bk[b], n) /\ n < date)
            BY <3>1 DEF IInv, LeviesStand
        <3> QED
            BY <1>2, <1>5, <2>2, <2>4, <3>2
    <2> QED
        BY <2>5, <2>6
<1>11. ASSUME NEW c \in Audits PROVE Sound(audit[c])'
    <2> DEFINE t == audit[c]
    <2>1. t \in Transactions /\ Sound(t) /\ t.date \in Nat /\ t.date <= date
        BY Running, AuditAssumption DEF Sound, Coherent, Transactions, Dates
    <2>2. CASE c = a
        <3>1. audit'[c] = None
            BY <1>1, <1>3, <2>2
        <3>2. Coherent(audit[c])'
            BY <1>2, <1>5, <3>1 DEF None, Coherent
        <3>3. Unmoved(audit[c])'
            BY <3>1, AuditAssumption DEF None, Unmoved
        <3>4. Charges(audit[c])' /\ LevySafe(audit[c])'
            BY <3>1 DEF None, Charges, LevySafe
        <3> QED
            BY <3>2, <3>3, <3>4 DEF Sound
    <2>3. CASE c # a
        <3>1. audit'[c] = t
            BY <1>1, <1>3, <2>3
        <3>2. t.date # date' /\ t.date <= date'
            BY <1>2, <1>5, <2>1
        <3>3. Coherent(audit[c])'
            BY <2>1, <3>1, <3>2 DEF Sound, Coherent
        <3>4. Unmoved(audit[c])'
            <4> SUFFICES ASSUME NEW b \in Bookings \ raced,
                                t.looked = b \/ Line(b, t.date, "room", 1) \in t.pending
                         PROVE  live'[Line(b, t.date, "room", 2)] = 0
                BY <1>1, <3>1 DEF Unmoved
            <4>1. t.date \in Nights
                BY <2>1, AuditAssumption DEF Sound, Coherent, Transactions, Dates, Nights, Steps
            <4> QED
                BY <2>1, <4>1, CommitRooms DEF Sound, Unmoved
        <3>5. Charges(audit[c])'
            BY <3>1, <3>2 DEF Charges
        <3>6. LevySafe(audit[c])'
            <4>1. \A l \in t.pending : l.b \in Bookings
                BY <2>1, KeyIsLine DEF Transactions
            <4> QED
                BY <1>1, <1>4, <2>1, <3>1, <3>2, <4>1 DEF Sound, LevySafe
        <3> QED
            BY <3>3, <3>4, <3>5, <3>6 DEF Sound
    <2> QED
        BY <2>2, <2>3
<1> QED
    BY <1>6, <1>7, <1>8, <1>9, <1>10, <1>11 DEF IInv

-----------------------------------------------------------------------------
(* The invariant holds, and what follows from it.                          *)

LEMMA InitIInv == Init => IInv
<1> SUFFICES ASSUME Init PROVE IInv
    OBVIOUS
<1>1. /\ bk \in [Bookings -> Booking] /\ live = [k \in Key |-> 0] /\ raced = {}
      /\ date = 1 /\ today = 1 /\ runs = [n \in Nights |-> 0]
      /\ audit = [a \in Audits |-> None] /\ post = [b |-> Nobody, nights |-> {}]
    BY DEF Init
<1>2. Horizon \in Nat \ {0} /\ 1 \in Dates
    BY AuditAssumption DEF Dates
<1>3. None \in Transactions
    BY <1>2 DEF None, Transactions, Steps
<1>4. TypeOK
    BY <1>1, <1>2, <1>3 DEF TypeOK, Transactions
<1>5. EachDateClosedOnce
    BY <1>1 DEF EachDateClosedOnce, Nights
<1>6. \A b \in Bookings, n \in Nights :
          /\ live[Line(b, n, "levy", 1)] = 0
          /\ \A w \in Windows : live[Line(b, n, "room", w)] = 0
    BY <1>1, LineIsKey
<1>7. BilledOnce /\ LeviesStand
    BY <1>6, AuditAssumption DEF BilledOnce, LeviesStand, Windows
<1>8. PostUnmoved
    BY <1>1, AuditAssumption DEF PostUnmoved
<1>9. \A a \in Audits : Sound(audit[a])
    BY <1>1, <1>4, NoneSound
<1> QED
    BY <1>4, <1>5, <1>7, <1>8, <1>9 DEF IInv

LEMMA StutterKeeps == ASSUME IInv, UNCHANGED vars PROVE IInv'
<1>1. UNCHANGED <<bk, live, raced, date, today, runs, audit, post>>
    BY DEF vars
<1> QED
    BY <1>1 DEF IInv, TypeOK, EachDateClosedOnce, BilledOnce, PostUnmoved, LeviesStand, Sound,
                Coherent, Unmoved, Charges, LevySafe

LEMMA NextIInv == IInv /\ [Next]_vars => IInv'
<1> SUFFICES ASSUME IInv, [Next]_vars PROVE IInv'
    OBVIOUS
<1>1. CASE AutoDue
    BY <1>1, AutoDueKeeps
<1>2. CASE Midnight
    BY <1>2, MidnightKeeps
<1>3. ASSUME NEW a \in Audits, Goes(a) \/ Crash(a) PROVE IInv'
    <2>1. CASE Begin(a)
        BY <2>1, BeginKeeps
    <2>2. CASE Insert(a)
        BY <2>2, InsertKeeps
    <2>3. CASE PostLevies(a)
        BY <2>3, PostLeviesKeeps
    <2>4. CASE Conflict(a) \/ Crash(a)
        BY <2>4, RollbackKeeps
    <2>5. CASE \E b \in Bookings : LookUp(a, b)
        BY <2>5, LookUpKeeps
    <2>6. CASE \E kept, refused \in SUBSET Bookings : Commit(a, kept, refused)
        BY <2>6, CommitKeeps
    <2> QED
        BY <1>3, <2>1, <2>2, <2>3, <2>4, <2>5, <2>6 DEF Goes
<1>4. CASE Desk
    <2>1. ASSUME NEW b \in Bookings,
                 CheckIn(b) \/ Cancel(b) \/ CheckOut(b) \/ UndoCheckIn(b) \/ BeginPost(b)
          PROVE  IInv'
        BY <2>1, CheckInKeeps, CancelKeeps, CheckOutKeeps, UndoCheckInKeeps, BeginPostKeeps
    <2>2. ASSUME NEW b \in Bookings, NEW d \in Dates, MoveDeparture(b, d) PROVE IInv'
        BY <2>2, MoveDepartureKeeps
    <2>3. ASSUME NEW k \in Key, Void(k) \/ Transfer(k) PROVE IInv'
        BY <2>3, VoidKeeps, TransferKeeps
    <2>4. CASE CommitPost \/ RefusePost
        BY <2>4, CommitPostKeeps, RefusePostKeeps
    <2> QED
        BY <1>4, <2>1, <2>2, <2>3, <2>4 DEF Desk
<1>5. CASE UNCHANGED vars
    BY <1>5, StutterKeeps
<1> QED
    BY <1>1, <1>2, <1>3, <1>4, <1>5 DEF Next

LEMMA Inductive == Spec => []IInv
BY InitIInv, NextIInv, PTL DEF Spec

\* Every variable keeps its type, with any bookings, nights and stays.
THEOREM NightTypes == Spec => []TypeOK
<1>1. IInv => TypeOK
    BY DEF IInv
<1> QED
    BY <1>1, Inductive, PTL

\* However audits by hand and of the timer overlap, crash and conflict, each date before the
\* business date was closed by exactly one run.
THEOREM DatesClosedOnce == Spec => []EachDateClosedOnce
<1>1. IInv => EachDateClosedOnce
    BY DEF IInv
<1> QED
    BY <1>1, Inductive, PTL

\* A night's room is on the bill at most once, whoever posts it, audits or the desk, but for a
\* line moved between a posting's look-up and its insert.
THEOREM NightBilledOnce == Spec => []BilledOnce
<1>1. IInv => BilledOnce
    BY DEF IInv
<1> QED
    BY <1>1, Inductive, PTL

\* The date changes only when an audit commits, and only that audit ends.
LEMMA ClosingStep ==
    ASSUME Next, NEW c \in Audits, date' # date, audit'[c] # audit[c], IInv
    PROVE  \E kept, refused \in SUBSET Bookings : Commit(c, kept, refused)
<1>1. ASSUME NEW a \in Audits, NEW kept \in SUBSET Bookings, NEW refused \in SUBSET Bookings,
             Commit(a, kept, refused)
      PROVE  a = c
    <2>1. audit' = [audit EXCEPT ![a] = None] /\ audit \in [Audits -> Transactions]
        BY <1>1 DEF Commit, IInv, TypeOK, Transactions
    <2> QED
        BY <2>1
<1>2. \E a \in Audits, kept, refused \in SUBSET Bookings : Commit(a, kept, refused)
    BY DEF Next, Goes, Desk, AutoDue, Midnight, Begin, Insert, PostLevies, Conflict, LookUp, Crash,
           CheckIn, Cancel, CheckOut, UndoCheckIn, BeginPost, MoveDeparture, Void, Transfer,
           CommitPost, RefusePost, rows
<1> QED
    BY <1>1, <1>2

\* An audit that commits has charged the night to every stay the desk left alone meanwhile.
THEOREM CommittedNightIsBilled == Spec => ClosedNightIsBilled
<1>1. ASSUME IInv, Next, NEW a \in Audits, date' # date, audit'[a] # audit[a],
             NEW b \in Bookings \ (audit[a].touched \cup audit[a].swept),
             bk[b].status \in {"Approved", "CheckedIn"}, Covers(bk[b], date)
      PROVE  \E w \in Windows : live'[Line(b, date, "room", w)] > 0
    <2>1. PICK kept \in SUBSET Bookings, refused \in SUBSET Bookings : Commit(a, kept, refused)
        BY <1>1, ClosingStep
    <2>2. /\ audit[a].date = date /\ date \in Nights /\ audit[a].step = "commit"
          /\ audit[a].rooms = {} /\ audit[a].looked = Nobody
        BY <1>1, <2>1, CommitsToday DEF Commit
    <2>3. \/ Line(b, date, "room", 1) \in audit[a].pending
          \/ \E w \in Windows : live[Line(b, date, "room", w)] > 0
        BY <1>1, <2>2, Running, AuditAssumption DEF Sound, Charges
    <2>4. /\ live'[Line(b, date, "room", 1)]
                = live[Line(b, date, "room", 1)]
                      + (IF Line(b, date, "room", 1) \in audit[a].pending THEN 1 ELSE 0)
          /\ live'[Line(b, date, "room", 2)] = live[Line(b, date, "room", 2)]
          /\ live[Line(b, date, "room", 1)] \in Nat
        BY <1>1, <2>1, <2>2, CommitRooms DEF Windows
    <2> QED
        BY <2>3, <2>4 DEF Windows
<1>2. ASSUME IInv, [Next]_vars
      PROVE  [\A a \in Audits : date' # date /\ audit'[a] # audit[a] =>
          \A b \in Bookings \ (audit[a].touched \cup audit[a].swept) :
              bk[b].status \in {"Approved", "CheckedIn"} /\ Covers(bk[b], date)
                  => \E w \in Windows : live'[Line(b, date, "room", w)] > 0]_vars
    BY <1>1, <1>2
<1> QED
    BY <1>2, Inductive, PTL DEF Spec, ClosedNightIsBilled

\* The status of a booking changes at the desk or when an audit commits, nowhere else.
LEMMA StatusStep ==
    ASSUME IInv, [Next]_vars, NEW b \in Bookings, bk'[b].status # bk[b].status
    PROVE  \/ CheckIn(b) \/ Cancel(b) \/ CheckOut(b) \/ UndoCheckIn(b)
           \/ \E a \in Audits, kept, refused \in SUBSET Bookings : Commit(a, kept, refused)
<1>1. bk \in [Bookings -> Booking]
    BY DEF IInv, TypeOK
<1>2. CASE AutoDue \/ UNCHANGED vars
    BY <1>2 DEF AutoDue, rows, vars
<1>3. CASE Midnight
    <2>1. bk'[b] = [bk[b] EXCEPT !.fresh = FALSE, !.prior = {}] /\ bk[b] \in Booking
        BY <1>1, <1>3 DEF Midnight
    <2> QED
        BY <2>1 DEF Booking
<1>4. ASSUME NEW a \in Audits, Goes(a) \/ Crash(a)
      PROVE  \E kept, refused \in SUBSET Bookings : Commit(a, kept, refused)
    BY <1>4 DEF Goes, Begin, Insert, PostLevies, Conflict, LookUp, Crash, rows
<1>5. CASE Desk
    <2>1. ASSUME NEW c \in Bookings, CheckIn(c) \/ Cancel(c) \/ CheckOut(c) \/ UndoCheckIn(c)
          PROVE  c = b
        BY <1>1, <2>1 DEF CheckIn, Cancel, CheckOut, UndoCheckIn, Change
    <2>2. ASSUME NEW c \in Bookings, NEW d \in Dates, MoveDeparture(c, d) PROVE FALSE
        <3>1. bk[b] \in Booking /\ bk[c] \in Booking
            BY <1>1
        <3>2. bk' = [bk EXCEPT ![c] = [bk[c] EXCEPT !.checkout = d, !.prior = {n \in @ : n < d}]]
            BY <2>2 DEF MoveDeparture, Change
        <3> QED
            BY <1>1, <3>1, <3>2 DEF Booking
    <2>3. ASSUME NEW k \in Key, Void(k) PROVE FALSE
        <3>1. bk[b] \in Booking /\ bk' = [bk EXCEPT ![k.b] = [bk[k.b] EXCEPT !.prior = @ \ {k.night}]]
            BY <1>1, <2>3 DEF Void
        <3> QED
            BY <1>1, <3>1 DEF Booking
    <2>4. ASSUME NEW c \in Bookings, BeginPost(c) PROVE FALSE
        BY <2>4 DEF BeginPost, rows
    <2>5. ASSUME NEW k \in Key, Transfer(k) PROVE FALSE
        BY <2>5 DEF Transfer
    <2>6. CASE CommitPost \/ RefusePost
        BY <2>6 DEF CommitPost, RefusePost, rows
    <2> QED
        BY <1>5, <2>1, <2>2, <2>3, <2>4, <2>5, <2>6 DEF Desk
<1> QED
    BY <1>2, <1>3, <1>4, <1>5 DEF Next

\* Only a guest who has not arrived is made a no-show.
THEOREM NoShowsAreUnarrived == Spec => OnlyUnarrivedAreNoShows
<1>1. ASSUME IInv, [Next]_vars, NEW b \in Bookings, bk'[b].status = "NoShow"
      PROVE  bk[b].status \in {"Approved", "NoShow"}
    <2> SUFFICES ASSUME bk'[b].status # bk[b].status PROVE bk[b].status = "Approved"
        BY <1>1
    <2>1. bk[b].status = "Approved" \/ CheckOut(b) \/ UndoCheckIn(b)
              \/ \E a \in Audits, kept, refused \in SUBSET Bookings : Commit(a, kept, refused)
        BY <1>1, StatusStep DEF CheckIn, Cancel
    <2>2. ~CheckOut(b) /\ ~UndoCheckIn(b)
        <3>1. bk[b] \in Booking /\ bk \in [Bookings -> Booking]
            BY <1>1 DEF IInv, TypeOK
        <3>2. CheckOut(b) => bk'[b] = Left(bk[b])
            BY <3>1 DEF CheckOut, Change
        <3>3. UndoCheckIn(b) =>
                  bk'[b] = [bk[b] EXCEPT !.status = "Approved", !.fresh = FALSE, !.prior = {}]
            BY <3>1 DEF UndoCheckIn, Change
        <3> QED
            BY <1>1, <3>1, <3>2, <3>3 DEF Left, Booking
    <2>3. ASSUME NEW a \in Audits, NEW kept, NEW refused, Commit(a, kept, refused)
          PROVE  bk[b].status = "Approved"
        BY <1>1, <2>3, CommitBookings
    <2> QED
        BY <2>1, <2>2, <2>3
<1>2. ASSUME IInv, [Next]_vars
      PROVE  [\A b \in Bookings :
                 bk'[b].status = "NoShow" => bk[b].status \in {"Approved", "NoShow"}]_vars
    BY <1>1, <1>2
<1> QED
    BY <1>2, Inductive, PTL DEF Spec, OnlyUnarrivedAreNoShows

\* A guest who checks out owes each levy for exactly the nights stayed, once.
THEOREM LeviesAreOfTheStay == Spec => LeviesMatchStay
<1>1. ASSUME IInv, [Next]_vars, NEW b \in Levied \ raced', bk[b].status = "CheckedIn",
             bk'[b].status = "CheckedOut", NEW n \in Nights
      PROVE  live'[Line(b, n, "levy", 1)] = (IF Covers(bk[b], n) /\ n < Operating THEN 1 ELSE 0)
    <2> DEFINE l == Line(b, n, "levy", 1)
    <2>1. b \in Bookings /\ l \in Key /\ l.b = b /\ l.night = n /\ l.src = "levy"
        BY LineIsKey, LineFields, AuditAssumption
    <2>2. /\ TypeOK /\ live \in [Key -> Nat] /\ n \in Int /\ Operating \in Int
          /\ bk \in [Bookings -> Booking] /\ bk[b] \in Booking
        BY <1>1, <2>1 DEF IInv, TypeOK, Nights, Operating, Later, Dates
    <2>3. b \notin raced => (live[l] > 0 => Covers(bk[b], n))
        BY <1>1 DEF IInv, LeviesStand
    <2>4. Owed(b, n) <=> Covers(bk[b], n)
        BY DEF Owed
    <2>5. ~CheckIn(b) /\ ~Cancel(b)
        BY <1>1 DEF CheckIn, Cancel
    <2>6. ~UndoCheckIn(b)
        <3>1. UndoCheckIn(b) =>
                  bk'[b] = [bk[b] EXCEPT !.status = "Approved", !.fresh = FALSE, !.prior = {}]
            BY <2>1, <2>2 DEF UndoCheckIn, Change
        <3> QED
            BY <1>1, <2>2, <3>1 DEF Booking
    <2>7. CASE CheckOut(b)
        <3>1. live' = Reconciled(live, b, Operating) /\ b \notin raced
            BY <1>1, <2>7 DEF CheckOut, Race
        <3>2. live[l] \in Nat
            BY <2>1, <2>2
        <3>3. /\ n >= Operating => live'[l] = 0
              /\ n < Operating /\ Owed(b, n) => live'[l] = 1
              /\ n < Operating /\ ~Owed(b, n) => live'[l] = live[l]
            BY <2>1, <2>2, <3>1, ReconciledLines
        <3> QED
            BY <2>2, <2>3, <2>4, <3>1, <3>2, <3>3
    <2>8. ASSUME NEW a \in Audits, NEW kept, NEW refused, Commit(a, kept, refused)
          PROVE  live'[l] = (IF Covers(bk[b], n) /\ n < Operating THEN 1 ELSE 0)
        <3>1. b \in Out(a, refused) /\ b \notin raced
            BY <1>1, <2>1, <2>8, CommitBookings DEF Commit
        <3>2. /\ n >= Operating => live'[l] = 0
              /\ n < Operating /\ Owed(b, n) => live'[l] = 1
              /\ n < Operating /\ ~Owed(b, n) =>
                     live'[l] = IF l \in audit[a].pending THEN live[l] + 1 ELSE live[l]
            BY <1>1, <2>8, <3>1, CommitLines
        <3>3. l \in audit[a].pending => Covers(bk[b], n)
            BY <1>1, <2>1, <2>8, <3>1, CommitsToday, Running DEF Sound, LevySafe
        <3>4. live[l] \in Nat
            BY <2>1, <2>2
        <3> QED
            BY <2>2, <2>3, <2>4, <3>1, <3>2, <3>3, <3>4
    <2> QED
        BY <1>1, <2>1, <2>5, <2>6, <2>7, <2>8, StatusStep
<1>2. ASSUME IInv, [Next]_vars
      PROVE  [\A b \in Levied \ raced' : bk[b].status = "CheckedIn" /\ bk'[b].status = "CheckedOut" =>
          \A n \in Nights : live'[Line(b, n, "levy", 1)]
                               = (IF Covers(bk[b], n) /\ n < Operating THEN 1 ELSE 0)]_vars
    BY <1>1, <1>2
<1> QED
    BY <1>2, Inductive, PTL DEF Spec, LeviesMatchStay
=============================================================================
