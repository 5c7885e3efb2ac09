------------------------------- MODULE Tills -------------------------------
(***************************************************************************)
(* The cash drawers of one hotel: shifts (`drawer_sessions`), what is paid *)
(* into and out of them, and the two ways a shift ends, a cashier's count  *)
(* and the night audit's forced closing.                                   *)
(*                                                                         *)
(* Every request reads the shift in one statement and writes in a later    *)
(* one, with no lock in between (READ COMMITTED), so both are steps of     *)
(* their own.  An amount is not kept: a frozen total is the set of entries *)
(* that were summed into it.                                               *)
(***************************************************************************)
EXTENDS Integers, FiniteSets

CONSTANTS
    Drawers,      \* the drawers in service
    Shifts,       \* the shift rows the hotel may create
    Requests,     \* requests served at the same time
    MaxTime,      \* bound on the logical clock: requests begun
    NoShift, NoDrawer, NoRequest

ASSUME TillsAssumption == /\ NoShift \notin Shifts /\ NoDrawer \notin Drawers
                          /\ NoRequest \notin Requests /\ MaxTime \in Nat

VARIABLES
    shift,        \* shift[s]: the row of shift s
    entries,      \* payments and expense vouchers, by the time their request began
    req,          \* req[r]: what request r has read so far
    audit,        \* the night audit's transaction
    series,       \* the receipt series: its next number, and who holds its row
    clock         \* counts the requests begun (history)

vars == <<shift, entries, req, audit, series, clock>>

Times == 0 .. MaxTime
Cash  == {"cash", "refund", "expense"}             \* what moves the drawer's money
Kinds == Cash \cup {"card"}

-----------------------------------------------------------------------------
(* Rows and requests.                                                      *)

\* at and done: when the request began and committed; no: its receipt or voucher number.
Entry == [at : Times, done : Times, shift : Shifts \cup {NoShift}, kind : Kinds,
          no : Nat, receipt : BOOLEAN]

\* began: when the closing that froze the row began; ended: when the row was first closed.
Row == [drawer : Drawers \cup {NoDrawer}, status : {"none", "open", "closed"},
        by : {"nobody", "cashier", "audit"}, counted : SUBSET Times,
        began : Times, ended : Times]

Request == [op : {"idle", "pay", "close"}, step : {"check", "number", "spent", "refunded", "write"},
            at : Times, shift : Shifts \cup {NoShift}, kind : Kinds, voucher : Nat,
            counted : SUBSET Times]

Idle == [op |-> "idle", step |-> "check", at |-> 0, shift |-> NoShift, kind |-> "card",
         voucher |-> 0, counted |-> {}]

\* pending: the totals the audit has frozen and not yet committed.
Closing == [running : BOOLEAN, at : Times, todo : SUBSET Shifts,
            pending : UNION {[held -> SUBSET Times] : held \in SUBSET Shifts}]

NoAudit == [running |-> FALSE, at |-> 0, todo |-> {}, pending |-> [s \in {} |-> {}]]

IsOpen(s) == shift[s].status = "open"

\* Broken: a shift that exists will do.
CanUseAny(s) == shift[s].status # "none"

\* loadSession with mustBeOpen, and the checks of resolveDrawerSession.
CanUse(s) == IsOpen(s)

\* With one of the hotel's own methods (own), cash goes to the shift named or to an open one
\* found for it, and to none only when none is open; anything else names a shift or none.
ShiftFor(kind, own) ==
    CASE own /\ kind = "card" -> {NoShift}
      [] own /\ kind # "card" -> IF \E s \in Shifts : IsOpen(s)
                                 THEN {s \in Shifts : CanUse(s)} ELSE {NoShift}
      [] OTHER -> {s \in Shifts : CanUse(s)} \cup {NoShift}

\* What expectedFor counts on a shift: cash taken, then expenses, then cash given back.
TakenKinds == {"cash"}
SpentKinds == {"expense"}
\* Broken: the refunds of the till are forgotten.
NoRefunds == {}
RefundedKinds == {"refund"}
On(s, kinds) == {e.at : e \in {x \in entries : x.shift = s /\ x.kind \in kinds}}

\* The rows the audit has updated and not yet committed.
Held == DOMAIN audit.pending

Vouchers == {e \in entries : e.kind = "expense"}

-----------------------------------------------------------------------------
(* Shifts begin.  A partial unique index keeps one open shift per drawer;  *)
(* a row the audit has closed but not committed keeps its entry there.     *)

OpenSession(d, s) ==
    /\ shift[s].status = "none"
    /\ \A t \in Shifts : shift[t].drawer = d => shift[t].status = "closed"
    /\ shift' = [shift EXCEPT ![s].drawer = d, ![s].status = "open"]
    /\ UNCHANGED <<entries, req, audit, series, clock>>

-----------------------------------------------------------------------------
(* Money in and out.  The shift is checked first; a payment with one of    *)
(* the hotel's own methods then takes a receipt number.                    *)

Begin(r, x) ==
    /\ req[r] = Idle /\ clock < MaxTime
    /\ clock' = clock + 1
    /\ req' = [req EXCEPT ![r] = [x EXCEPT !.at = clock + 1]]

\* recordPayment, refund and createExpense up to their insert: a payment with an own method
\* will need a receipt number, an expense has counted the vouchers for its own.
BeginPay(r, kind, own) ==
    /\ \E s \in ShiftFor(kind, own) :
           Begin(r, [Idle EXCEPT !.op = "pay", !.kind = kind, !.shift = s,
                                 !.step = IF own /\ kind \in {"cash", "card"}
                                          THEN "number" ELSE "write",
                                 !.voucher = IF kind = "expense" THEN Cardinality(Vouchers) + 1
                                                                 ELSE 0])
    /\ UNCHANGED <<shift, entries, audit, series>>

\* nextDocumentNumber: the upsert keeps the row of the series until the request ends.
TakeNumber(r) ==
    /\ req[r].op = "pay" /\ req[r].step = "number" /\ series.holder = NoRequest
    /\ series' = [series EXCEPT !.holder = r]
    /\ req' = [req EXCEPT ![r].step = "write"]
    /\ UNCHANGED <<shift, entries, audit, clock>>

Holds(r) == series.holder = r

\* Broken: the number stays used when the request fails.
NumberBurnt(r) == IF Holds(r) THEN [next |-> series.next + 1, holder |-> NoRequest] ELSE series

\* Broken: the row of the series stays locked when the request fails.
NumberStuck(r) == series

\* Broken: the number is given back although another has been given since.
NumberReturned(r) == IF Holds(r) THEN [next |-> series.next - 1, holder |-> NoRequest] ELSE series

\* A rollback gives the number back and frees the row of the series.
NumberBack(r) == IF Holds(r) THEN [series EXCEPT !.holder = NoRequest] ELSE series

VoucherTaken(r) == /\ req[r].kind = "expense"
                   /\ \E e \in Vouchers : e.no = req[r].voucher

\* insertPayment, insertRefund or createExpense, and the commit.
CommitPay(r) ==
    /\ req[r].op = "pay" /\ req[r].step = "write"
    /\ ~VoucherTaken(r)
    /\ entries' = entries \cup
           {[at |-> req[r].at, done |-> clock, shift |-> req[r].shift, kind |-> req[r].kind,
             no |-> IF Holds(r) THEN series.next ELSE req[r].voucher, receipt |-> Holds(r)]}
    /\ series' = IF Holds(r) THEN [next |-> series.next + 1, holder |-> NoRequest] ELSE series
    /\ req' = [req EXCEPT ![r] = Idle]
    /\ UNCHANGED <<shift, audit, clock>>

Fail(r) ==
    /\ req[r].op = "pay"
    /\ series' = NumberBack(r)
    /\ req' = [req EXCEPT ![r] = Idle]
    /\ UNCHANGED <<shift, entries, audit, clock>>

\* The unique index refuses a voucher number that was taken meanwhile.
VoucherConflict(r) == req[r].step = "write" /\ VoucherTaken(r) /\ Fail(r)

\* A refusal after the check: a missing reference, a walk-in that cannot be checked in.
Refuse(r) == ~VoucherTaken(r) /\ Fail(r)

-----------------------------------------------------------------------------
(* closeSession: check, three sums, and an UPDATE by id that asks nothing. *)

BeginClose(r, s) ==
    /\ CanUse(s)
    /\ Begin(r, [Idle EXCEPT !.op = "close", !.shift = s])
    /\ UNCHANGED <<shift, entries, audit, series>>

\* expectedFor: the cash taken ...
SumTaken(r) ==
    /\ req[r].op = "close" /\ req[r].step = "check"
    /\ req' = [req EXCEPT ![r] = [req[r] EXCEPT !.step = "spent",
                                                !.counted = On(req[r].shift, TakenKinds)]]
    /\ UNCHANGED <<shift, entries, audit, series, clock>>

\* ... and what left the drawer, in two more statements.
SumSpent(r) ==
    /\ req[r].op = "close" /\ req[r].step = "spent"
    /\ req' = [req EXCEPT ![r] = [req[r] EXCEPT !.step = "refunded",
                                                !.counted = req[r].counted
                                                         \cup On(req[r].shift, SpentKinds)]]
    /\ UNCHANGED <<shift, entries, audit, series, clock>>

SumRefunded(r) ==
    /\ req[r].op = "close" /\ req[r].step = "refunded"
    /\ req' = [req EXCEPT ![r] = [req[r] EXCEPT !.step = "write",
                                                !.counted = req[r].counted
                                                         \cup On(req[r].shift, RefundedKinds)]]
    /\ UNCHANGED <<shift, entries, audit, series, clock>>

Closed(row, by, counted, began) ==
    [row EXCEPT !.status = "closed", !.by = by, !.counted = counted, !.began = began,
                !.ended = IF row.status = "open" THEN clock ELSE @]

\* The UPDATE waits for the audit when the audit has updated the row.
WriteClose(r) ==
    LET s == req[r].shift IN
    /\ req[r].op = "close" /\ req[r].step = "write" /\ s \notin Held
    /\ shift' = [shift EXCEPT ![s] = Closed(@, "cashier", req[r].counted, req[r].at)]
    /\ req' = [req EXCEPT ![r] = Idle]
    /\ UNCHANGED <<entries, audit, series, clock>>

-----------------------------------------------------------------------------
(* forceCloseOpenSessions: the audit lists the open shifts, sums and       *)
(* updates them one by one, and commits with the rest of its work.         *)

AuditList ==
    /\ ~audit.running /\ clock < MaxTime
    /\ clock' = clock + 1
    /\ audit' = [NoAudit EXCEPT !.running = TRUE, !.at = clock + 1,
                                !.todo = {s \in Shifts : IsOpen(s)}]
    /\ UNCHANGED <<shift, entries, req, series>>

AuditClose(s) ==
    /\ audit.running /\ s \in audit.todo
    /\ audit' = [audit EXCEPT
           !.todo = @ \ {s},
           !.pending = [t \in Held \cup {s} |->
                           IF t = s THEN On(s, TakenKinds \cup SpentKinds \cup RefundedKinds)
                                    ELSE @[t]]]
    /\ UNCHANGED <<shift, entries, req, series, clock>>

AuditCommit ==
    /\ audit.running /\ audit.todo = {}
    /\ shift' = [s \in Shifts |-> IF s \in Held
                                  THEN Closed(shift[s], "audit", audit.pending[s], audit.at)
                                  ELSE shift[s]]
    /\ audit' = NoAudit
    /\ UNCHANGED <<entries, req, series, clock>>

\* Another run of the audit closed the day first.
AuditRollback ==
    /\ audit.running
    /\ audit' = NoAudit
    /\ UNCHANGED <<shift, entries, req, series, clock>>

-----------------------------------------------------------------------------
Init ==
    /\ shift = [s \in Shifts |-> [drawer |-> NoDrawer, status |-> "none", by |-> "nobody",
                                  counted |-> {}, began |-> 0, ended |-> 0]]
    /\ entries = {}
    /\ req = [r \in Requests |-> Idle]
    /\ audit = NoAudit
    /\ series = [next |-> 1, holder |-> NoRequest]
    /\ clock = 0

RequestStep(r) == \/ TakeNumber(r) \/ CommitPay(r) \/ VoucherConflict(r)
                  \/ SumTaken(r) \/ SumSpent(r) \/ SumRefunded(r) \/ WriteClose(r)
AuditStep == (\E s \in Shifts : AuditClose(s)) \/ AuditCommit

Next ==
    \/ \E d \in Drawers, s \in Shifts : OpenSession(d, s)
    \/ \E r \in Requests, k \in Kinds, own \in BOOLEAN : BeginPay(r, k, own)
    \/ \E r \in Requests, s \in Shifts : BeginClose(r, s)
    \/ \E r \in Requests : RequestStep(r) \/ Refuse(r)
    \/ AuditList
    \/ AuditStep
    \/ AuditRollback

Spec == Init /\ [][Next]_vars

\* A request and an audit that have begun go on to their end: the server runs each of them
\* as one call.  Nothing is assumed of refusals and rollbacks.
FairSpec == Spec /\ (\A r \in Requests : WF_vars(RequestStep(r))) /\ WF_vars(AuditStep)

-----------------------------------------------------------------------------
(* Properties.                                                             *)

\* Type invariant of the shifts, entries, requests, the audit and the receipt series.
TypeOK ==
    /\ shift \in [Shifts -> Row]
    /\ entries \subseteq Entry
    /\ req \in [Requests -> Request]
    /\ audit \in Closing
    /\ series \in [next : Nat \ {0}, holder : Requests \cup {NoRequest}]
    /\ clock \in Times

\* The total frozen on a closed shift (expectedFor, closeSession, forceCloseOpenSessions) holds
\* all the cash that moved before the closing began and nothing but cash of that shift, and
\* nothing is recorded on the shift by a request that began after it was closed.
TotalExplained ==
    \A s \in Shifts : shift[s].status = "closed" =>
        /\ shift[s].counted \subseteq On(s, Cash)
        /\ \A e \in entries : e.shift = s =>
               /\ e.kind \in Cash /\ e.done < shift[s].began => e.at \in shift[s].counted
               /\ e.at <= shift[s].ended

\* Receipt numbers (nextReceiptNo) run from 1 without a gap and none is given twice, whatever
\* requests fail after they took one.
ReceiptsDense ==
    LET receipts == {e \in entries : e.receipt} IN
    /\ {e.no : e \in receipts} = 1 .. series.next - 1
    /\ \A e, f \in receipts : e.no = f.no => e = f

\* A payment, an expense or a closing that has begun ends, also while the audit holds the row
\* of the shift or another payment the row of the receipt series.
RequestsEnd == \A r \in Requests : req[r] # Idle ~> req[r] = Idle
=============================================================================
