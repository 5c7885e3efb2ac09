---------------------------- MODULE NightAudit ----------------------------
(***************************************************************************)
(* The night audit of one hotel against its desk: the plan it reads, the   *)
(* night's lines it posts on the folios, the no-shows, the overdue stays,  *)
(* and the roll of the business date, for audits started by hand and by    *)
(* the day-close timer.                                                    *)
(*                                                                         *)
(* An audit is one READ COMMITTED transaction of many statements.  What it *)
(* reads without a lock is a step of its own; what it writes under a row   *)
(* lock or a unique index takes effect when it commits, after the recheck  *)
(* it makes under that lock.  A desk operation locks its booking row and   *)
(* is one step.  Rooms and the calendar are in StayInventory, tills in     *)
(* Tills, prices and messages are left out.                                *)
(***************************************************************************)
EXTENDS Integers, FiniteSets

CONSTANTS
    Bookings,     \* the hotel's bookings
    Stays,        \* the stays booked at first, each an arrival and a departure
    Levied,       \* those whose guests owe a levy for each night
    Horizon,      \* the last night
    Manual, Timer, \* the audits: by hand, and of the day-close timer
    ManualDates,  \* bound on the dates somebody closes by hand
    Nobody        \* no booking

Nights == 1 .. Horizon
Dates  == 1 .. Horizon + 1
Audits == {Manual, Timer}

ASSUME AuditAssumption == /\ Horizon \in Nat \ {0}
                          /\ Stays \subseteq {s \in Dates \X Dates : s[1] < s[2]}
                          /\ Levied \subseteq Bookings /\ ManualDates \subseteq Nights
                          /\ Nobody \notin Bookings /\ Manual # Timer

VARIABLES
    bk,           \* bk[b]: the booking row
    live,         \* live[k]: the lines not voided of a booking, night, source and window
    raced,        \* the bookings the desk changed under a posting's feet (history)
    date,         \* the business date
    today,        \* the hotel's calendar date
    runs,         \* runs[d]: the audit runs recorded for date d
    audit,        \* audit[a]: the transaction of audit a
    post          \* the desk's posting of room charges

rows  == <<bk, live, raced, date, runs>>
vars  == <<bk, live, raced, date, today, runs, audit, post>>

-----------------------------------------------------------------------------
(* Bookings and lines.                                                     *)

Statuses == {"Approved", "CheckedIn", "CheckedOut", "Cancelled", "NoShow"}
\* fresh: in the house since today; prior: the nights that were on the bill when the guest came.
Booking  == [status : Statuses, checkin : Dates, checkout : Dates, due : BOOLEAN,
             fresh : BOOLEAN, prior : SUBSET Nights]
Sources  == {"room", "levy"}
Windows  == {1, 2}
Key      == {k \in [b : Bookings, night : Nights, src : Sources, window : Windows] :
                k.src = "levy" => k.window = 1}

Line(b, n, src, w) == [b |-> b, night |-> n, src |-> src, window |-> w]

Covers(x, n) == x.checkin <= n /\ n < x.checkout
OnTheBill(b, n, src) ==
    \E k \in Key : k.b = b /\ k.night = n /\ k.src = src /\ live[k] > 0

\* Broken: what is posted already is not looked up.
PostedNever(b, n, src) == FALSE

\* Broken: only window 1 is looked at.
PostedWindowOne(b, n, src) == live[Line(b, n, src, 1)] > 0

\* The look-up over every window of the booking.
Posted(b, n, src) == OnTheBill(b, n, src)

Left(x) == [x EXCEPT !.status = "CheckedOut", !.fresh = FALSE, !.prior = {}]

With(f, keys) == [k \in Key |-> IF k \in keys THEN f[k] + 1 ELSE f[k]]

Later(d, e) == IF d < e THEN e ELSE d
Operating   == Later(date, today)

Levies(b)  == {k \in Key : k.b = b /\ k.src = "levy"}
Owed(b, n) == b \in Levied /\ Covers(bk[b], n)

\* Broken: the night of the departure is stayed.
ReconciledOneMore(f, b, departure) ==
    [k \in Key |->
        CASE k \in Levies(b) /\ k.night > departure -> 0
          [] k \in Levies(b) /\ k.night <= departure /\ Owed(b, k.night) -> 1
          [] OTHER -> f[k]]

\* reconcileLevies: the nights from the departure on are voided, those stayed are posted.
Reconciled(f, b, departure) ==
    [k \in Key |->
        CASE k \in Levies(b) /\ k.night >= departure -> 0
          [] k \in Levies(b) /\ k.night < departure /\ Owed(b, k.night) -> 1
          [] OTHER -> f[k]]

-----------------------------------------------------------------------------
(* The audit's transaction.                                                *)

Steps == {"idle", "due", "rooms", "commit"}
None  == [step |-> "idle", date |-> 1, swept |-> {}, rooms |-> {}, unarrived |-> {},
          overdue |-> {}, looked |-> Nobody, pending |-> {}, touched |-> {}]

Pending == UNION {audit[a].pending : a \in Audits}
Locked(b) == \E a \in Audits : b \in audit[a].swept

\* A desk change of b, while audits are under way that have not seen it.
Touch(b) == audit' = [a \in Audits |-> IF audit[a].step \in {"idle", "due"} THEN audit[a]
                                       ELSE [audit[a] EXCEPT !.touched = @ \cup {b}]]

\* The desk changes a stay of which a levy is being written, or a line that is being looked up.
Race(b, now) == raced' = IF now THEN raced \cup {b} ELSE raced
LevyUnderWay(b) == Line(b, 1, "levy", 1) \in {[l EXCEPT !.night = 1] : l \in Pending}
RoomUnderWay(b) == \/ post.b = b \/ \E a \in Audits : audit[a].looked = b
                   \/ \E l \in Pending : l.b = b /\ l.src = "room"

\* dateDueForAudit: the timer asks, in a transaction of its own.
AutoDue ==
    /\ audit[Timer].step = "idle" /\ today > date /\ date <= Horizon
    /\ audit' = [audit EXCEPT ![Timer] = [None EXCEPT !.step = "due", !.date = date]]
    /\ UNCHANGED <<rows, today, post>>

\* Broken: only the guests in the house are charged.
DueChargesInHouse(swept) ==
    {b \in Bookings \ swept : bk[b].status = "CheckedIn" /\ Covers(bk[b], date)}

DueCharges(swept) ==
    {b \in Bookings \ swept : bk[b].status \in {"Approved", "CheckedIn"} /\ Covers(bk[b], date)}

\* run: the date is read, the holds past their release time are cancelled and locked (those
\* another audit has locked are skipped), and plan finds what to charge, who has not arrived and
\* who is past the departure.  One step: the date, read first, is checked again by AlreadyRun.
Begin(a) ==
    LET swept == {b \in Bookings : bk[b].due /\ bk[b].status = "Approved" /\ ~Locked(b)} IN
    /\ audit[a].step = (IF a = Timer THEN "due" ELSE "idle")
    /\ date <= Horizon /\ runs[date] = 0 /\ (a = Manual => date \in ManualDates)
    /\ audit' = [audit EXCEPT
           ![a] = [None EXCEPT
                      !.step = "rooms", !.date = date, !.swept = swept,
                      !.rooms = DueCharges(swept),
                      !.unarrived = {b \in Bookings \ swept :
                                        bk[b].status = "Approved" /\ bk[b].checkin <= date},
                      !.overdue = {b \in Bookings :
                                      bk[b].status = "CheckedIn" /\ bk[b].checkout <= date}]]
    /\ UNCHANGED <<rows, today, post>>

\* The look-up of a booking's night; a night already on the bill is skipped.
LookUp(a, b) ==
    /\ audit[a].step = "rooms" /\ audit[a].looked = Nobody /\ b \in audit[a].rooms
    /\ audit' = [audit EXCEPT
           ![a].rooms  = @ \ {b},
           ![a].looked = IF Posted(b, audit[a].date, "room") THEN Nobody ELSE b]
    /\ UNCHANGED <<rows, today, post>>

\* An insert waits while another transaction has the same line uncommitted.
Insert(a) ==
    LET l == Line(audit[a].looked, audit[a].date, "room", 1) IN
    /\ audit[a].looked # Nobody /\ l \notin Pending
    /\ audit' = [audit EXCEPT ![a].looked = Nobody, ![a].pending = @ \cup {l}]
    /\ UNCHANGED <<rows, today, post>>

\* postLeviesForNight: only guests in the house.
PostLevies(a) ==
    LET new == {Line(b, audit[a].date, "levy", 1) :
                   b \in {c \in Levied : /\ bk[c].status = "CheckedIn"
                                         /\ Covers(bk[c], audit[a].date)
                                         /\ ~Posted(c, audit[a].date, "levy")}} IN
    /\ audit[a].step = "rooms" /\ audit[a].looked = Nobody /\ audit[a].rooms = {}
    /\ new \cap Pending = {}
    /\ audit' = [audit EXCEPT ![a].step = "commit", ![a].pending = @ \cup new]
    /\ UNCHANGED <<rows, today, post>>

\* A live line that a unique index would refuse a second time.
Duplicate(l) == live[l] > 0

\* Broken: no index on the runs.
AlreadyRunNever(a) == FALSE

\* The unique index on (property_id, from_date).
AlreadyRun(a) == runs[audit[a].date] > 0

\* Broken: the booking is not read again under its lock.
StillUnchecked(a, b) == TRUE

\* Before a no-show the row is locked and read again.
StillUnarrived(a, b) == bk[b].status = "Approved"

\* The sweep's cancellations, the no-shows but those kept, the overdue but those refused, the
\* lines, the roll of the date and the run, all at once.  A row another audit has locked is waited for.
Commit(a, kept, refused) ==
    LET x    == audit[a]
        gone == {b \in x.unarrived \ kept : StillUnarrived(a, b)}
        out  == {b \in x.overdue \ refused : bk[b].status = "CheckedIn"}
        base == With(live, x.pending)
    IN
    /\ x.step = "commit"
    /\ ~AlreadyRun(a) /\ \A l \in x.pending : ~Duplicate(l)
    /\ \A c \in Audits \ {a} : audit[c].swept \cap gone = {}
    /\ bk' = [b \in Bookings |->
                 CASE b \in x.swept -> [bk[b] EXCEPT !.status = "Cancelled", !.due = FALSE]
                   [] b \in gone    -> [bk[b] EXCEPT !.status = "NoShow"]
                   [] b \in out     -> Left(bk[b])
                   [] OTHER         -> bk[b]]
    /\ live' = [k \in Key |-> IF k.b \in out THEN Reconciled(base, k.b, Operating)[k]
                                             ELSE base[k]]
    /\ date' = x.date + 1
    /\ runs' = [runs EXCEPT ![x.date] = @ + 1]
    /\ audit' = [audit EXCEPT ![a] = None]
    /\ UNCHANGED <<raced, today, post>>

\* A line or the run is refused by its unique index: everything is rolled back.
Conflict(a) ==
    /\ audit[a].step = "commit"
    /\ AlreadyRun(a) \/ \E l \in audit[a].pending : Duplicate(l)
    /\ audit' = [audit EXCEPT ![a] = None]
    /\ UNCHANGED <<rows, today, post>>

\* A restart of the server, or a deadlock the database breaks.
Crash(a) ==
    /\ audit[a].step # "idle"
    /\ audit' = [audit EXCEPT ![a] = None]
    /\ UNCHANGED <<rows, today, post>>

-----------------------------------------------------------------------------
(* The desk.  Each operation locks the booking it changes.                 *)

Change(b, x) == ~Locked(b) /\ bk' = [bk EXCEPT ![b] = x] /\ Touch(b)

CheckIn(b) ==
    /\ bk[b].status = "Approved" /\ bk[b].checkin <= Operating
    /\ Change(b, [bk[b] EXCEPT !.status = "CheckedIn", !.due = FALSE, !.fresh = TRUE,
                               !.prior = {n \in Nights : OnTheBill(b, n, "room")}])
    /\ UNCHANGED <<live, raced, date, today, runs, post>>

Cancel(b) ==
    /\ bk[b].status = "Approved"
    /\ Change(b, [bk[b] EXCEPT !.status = "Cancelled", !.due = FALSE])
    /\ UNCHANGED <<live, raced, date, today, runs, post>>

\* A stay is extended, or shortened to a date not before the desk's day: the rooms of the nights
\* that fall away are voided.
MoveDeparture(b, d) ==
    /\ bk[b].status = "CheckedIn" /\ d > bk[b].checkin /\ d >= Operating /\ d # bk[b].checkout
    /\ Change(b, [bk[b] EXCEPT !.checkout = d, !.prior = {n \in @ : n < d}])
    /\ live' = [k \in Key |-> IF k.b = b /\ k.src = "room" /\ d <= k.night /\ Covers(bk[b], k.night)
                              THEN 0 ELSE live[k]]
    /\ Race(b, LevyUnderWay(b))
    /\ UNCHANGED <<date, today, runs, post>>

CheckOut(b) ==
    /\ bk[b].status = "CheckedIn"
    /\ Change(b, Left(bk[b]))
    /\ live' = Reconciled(live, b, Operating)
    /\ Race(b, LevyUnderWay(b))
    /\ UNCHANGED <<date, today, runs, post>>

\* On the day of the check-in only, and refused once a night has been charged since; the levies
\* are voided.
UndoCheckIn(b) ==
    /\ bk[b].status = "CheckedIn" /\ bk[b].fresh
    /\ \A n \in Nights : OnTheBill(b, n, "room") => n \in bk[b].prior
    /\ Change(b, [bk[b] EXCEPT !.status = "Approved", !.fresh = FALSE, !.prior = {}])
    /\ live' = [k \in Key |-> IF k.b = b /\ k.src = "levy" THEN 0 ELSE live[k]]
    /\ Race(b, LevyUnderWay(b))
    /\ UNCHANGED <<date, today, runs, post>>

\* postRoomCharges: the nights not on the bill are read, then posted on window 1.
BeginPost(b) ==
    /\ post.b = Nobody /\ bk[b].status # "Cancelled"
    /\ post' = [b |-> b, nights |-> {n \in Nights : Covers(bk[b], n) /\ ~Posted(b, n, "room")}]
    /\ UNCHANGED <<rows, today, audit>>

PostKeys == {Line(post.b, n, "room", 1) : n \in post.nights}

CommitPost ==
    /\ post.b # Nobody
    /\ PostKeys \cap Pending = {} /\ \A l \in PostKeys : ~Duplicate(l)
    /\ live' = With(live, PostKeys)
    /\ post' = [b |-> Nobody, nights |-> {}]
    /\ UNCHANGED <<bk, raced, date, today, runs, audit>>

RefusePost ==
    /\ post.b # Nobody /\ \E l \in PostKeys : Duplicate(l)
    /\ post' = [b |-> Nobody, nights |-> {}]
    /\ UNCHANGED <<rows, today, audit>>

\* Broken: a line is voided whether or not it was voided before.
VoidAgain(k) ==
    /\ k.src = "room"
    /\ live' = [live EXCEPT ![k] = @ - 1]
    /\ bk' = [bk EXCEPT ![k.b].prior = @ \ {k.night}]
    /\ Touch(k.b)
    /\ UNCHANGED <<raced, date, today, runs, post>>

\* voidCharge, of a room line.
Void(k) ==
    /\ live[k] > 0 /\ k.src = "room"
    /\ live' = [live EXCEPT ![k] = @ - 1]
    /\ bk' = [bk EXCEPT ![k.b].prior = @ \ {k.night}]
    /\ Touch(k.b)
    /\ UNCHANGED <<raced, date, today, runs, post>>

\* transfer of a room line to window 2, whose index may refuse it (a levy's window is left out).
Transfer(k) ==
    LET to == [k EXCEPT !.window = 2] IN
    /\ live[k] > 0 /\ k.src = "room" /\ k.window = 1 /\ ~Duplicate(to)
    /\ live' = [live EXCEPT ![k] = @ - 1, ![to] = @ + 1]
    /\ Race(k.b, RoomUnderWay(k.b))
    /\ UNCHANGED <<bk, date, today, runs, audit, post>>

Midnight ==
    /\ today <= Horizon
    /\ today' = today + 1
    /\ bk' = [b \in Bookings |-> [bk[b] EXCEPT !.fresh = FALSE, !.prior = {}]]
    /\ UNCHANGED <<live, raced, date, runs, audit, post>>

-----------------------------------------------------------------------------
Init ==
    /\ bk \in [Bookings -> {x \in Booking : /\ x.status = "Approved"
                                            /\ <<x.checkin, x.checkout>> \in Stays
                                            /\ ~x.fresh /\ x.prior = {}}]
    /\ live = [k \in Key |-> 0]
    /\ raced = {}
    /\ date = 1 /\ today = 1
    /\ runs = [n \in Nights |-> 0]
    /\ audit = [a \in Audits |-> None]
    /\ post = [b |-> Nobody, nights |-> {}]

Goes(a) ==
    \/ Begin(a) \/ Insert(a) \/ PostLevies(a) \/ Conflict(a)
    \/ \E b \in Bookings : LookUp(a, b)
    \/ \E kept, refused \in SUBSET Bookings : Commit(a, kept, refused)

Desk ==
    \/ \E b \in Bookings : \/ CheckIn(b) \/ Cancel(b) \/ CheckOut(b) \/ UndoCheckIn(b) \/ BeginPost(b)
    \/ \E b \in Bookings, d \in Dates : MoveDeparture(b, d)
    \/ \E k \in Key : Void(k) \/ Transfer(k)
    \/ CommitPost \/ RefusePost

Next == \/ AutoDue \/ Midnight
        \/ \E a \in Audits : Goes(a) \/ Crash(a)
        \/ Desk

Spec == Init /\ [][Next]_vars

\* The timer asks again and again, an audit that has begun goes on to its end, and so does the
\* desk's posting.  Nobody has to start an audit by hand.  Crashes and what voids a night's room,
\* each of which can undo an audit's work, come to an end.
FairSpec ==
    /\ Spec
    /\ WF_vars(AutoDue) /\ WF_vars(Goes(Timer))
    /\ WF_vars(audit[Manual].step # "idle" /\ Goes(Manual))
    /\ WF_vars(CommitPost \/ RefusePost)
    /\ <>[][~ \E a \in Audits : Crash(a) /\ ~Conflict(a)]_vars
    /\ <>[][~ \E k \in Key : Void(k)]_vars
    /\ <>[][~ \E b \in Bookings, d \in Dates : MoveDeparture(b, d)]_vars

-----------------------------------------------------------------------------
(* Properties.                                                             *)

\* Type invariant of the bookings, the lines, the audits and the desk's posting.
TypeOK ==
    /\ bk \in [Bookings -> Booking]
    /\ live \in [Key -> Nat]
    /\ raced \subseteq Bookings
    /\ date \in Dates /\ today \in Dates
    /\ runs \in [Nights -> Nat]
    /\ audit \in [Audits -> [step : Steps, date : Dates, swept : SUBSET Bookings,
                             rooms : SUBSET Bookings, unarrived : SUBSET Bookings,
                             overdue : SUBSET Bookings, looked : Bookings \cup {Nobody},
                             pending : SUBSET Key, touched : SUBSET Bookings]]
    /\ post \in [b : Bookings \cup {Nobody}, nights : SUBSET Nights]

\* "The date is the lock" (run): whatever audits overlap, every date before the business date
\* was closed by exactly one run, and no later one by any.
EachDateClosedOnce == \A d \in Nights : runs[d] = (IF d < date THEN 1 ELSE 0)

\* A night's room is never on the bill twice, in whatever windows ("across EVERY window of the
\* booking", run, postRoomCharges), but for a line moved between a posting's look-up and insert.
BilledOnce ==
    \A b \in Bookings \ raced, n \in Nights :
        live[Line(b, n, "room", 1)] + live[Line(b, n, "room", 2)] <= 1

\* An audit that commits has charged the night to every stay, expected or in house, that the
\* desk left alone while it ran, or found it charged already (plan, run).
ClosedNightIsBilled ==
    [][\A a \in Audits : date' # date /\ audit'[a] # audit[a] =>
          \A b \in Bookings \ (audit[a].touched \cup audit[a].swept) :
              bk[b].status \in {"Approved", "CheckedIn"} /\ Covers(bk[b], date)
                  => \E w \in Windows : live'[Line(b, date, "room", w)] > 0]_vars

\* A guest who arrives while the audit runs is not made a no-show, and nobody who left, or
\* cancelled, is (the recheck under the row lock).
OnlyUnarrivedAreNoShows ==
    [][\A b \in Bookings : bk'[b].status = "NoShow" => bk[b].status \in {"Approved", "NoShow"}]_vars

\* A guest who checks out, at the desk or by the audit, owes each levy for exactly the nights
\* stayed, once (postLeviesForNight, reconcileLevies), unless the desk changed the stay while an
\* audit was writing them.
LeviesMatchStay ==
    [][\A b \in Levied \ raced' : bk[b].status = "CheckedIn" /\ bk'[b].status = "CheckedOut" =>
          \A n \in Nights : live'[Line(b, n, "levy", 1)]
                               = (IF Covers(bk[b], n) /\ n < Operating THEN 1 ELSE 0)]_vars

\* A hotel whose business date has fallen behind the calendar catches up by itself, although
\* the desk charges nights by hand and audits fail or meet one run by hand.
BehindCatchesUp == \A d \in Dates \ {1} : (today = d) ~> (date >= d)
=============================================================================
