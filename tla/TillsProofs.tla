---------------------------- MODULE TillsProofs ----------------------------
(***************************************************************************)
(* Theorems about Tills, for any drawers, shifts, requests and clock.      *)
(*                                                                         *)
(* A closing freezes a total it has read in several statements, while      *)
(* payments go on.  The inductive invariant says how much of the cash a    *)
(* closing under way has counted by each of its statements.                *)
(***************************************************************************)
EXTENDS Tills, FiniteSetTheorems, TLAPS

\* A shift that has been opened.
Used(s) == shift[s].status # "none"

\* The entries of shift s of these kinds, done before a closing began, are in its total.
Counts(total, s, kinds, began) ==
    \A e \in entries : e.shift = s /\ e.kind \in kinds /\ e.done < began => e.at \in total

\* What a closing has read so far, by its next step.
Read(step) == CASE step = "check"    -> {}
                [] step = "spent"    -> {"cash"}
                [] step = "refunded" -> {"cash", "expense"}
                [] OTHER             -> {"cash", "expense", "refund"}

\* Nothing is of a later time than the clock.
Clocked ==
    /\ \A e \in entries : e.at <= clock /\ e.done <= clock
    /\ \A r \in Requests : req[r].at <= clock
    /\ audit.at <= clock
    /\ \A s \in Shifts : shift[s].began <= clock

\* A request is on a shift that was open when it began.
OnShift(x) ==
    x.shift # NoShift => Used(x.shift) /\ (shift[x.shift].status = "closed" => x.at <= shift[x.shift].ended)

\* A closing under way has counted cash of its shift only, and all of what it has read.
Summing(x) ==
    x.op = "close" => /\ x.shift # NoShift /\ x.counted \subseteq On(x.shift, Cash)
                      /\ Counts(x.counted, x.shift, Read(x.step), x.at)

\* So have the totals the audit has not committed.
Forced ==
    /\ \A s \in audit.todo \cup Held : Used(s)
    /\ \A s \in Held : /\ audit.pending[s] \subseteq On(s, Cash)
                       /\ Counts(audit.pending[s], s, Cash, audit.at)

IInv ==
    /\ TypeOK /\ TotalExplained /\ ReceiptsDense /\ IsFiniteSet(entries)
    /\ Clocked /\ Forced
    /\ \A e \in entries : e.shift # NoShift => Used(e.shift)
    /\ \A r \in Requests : OnShift(req[r]) /\ Summing(req[r])

-----------------------------------------------------------------------------
(* Requests and rows.                                                      *)

\* An idle request is well formed, and no drawer is closed yet by a request that begins.
LEMMA IdleIsRequest == Idle \in Request /\ OnShift(Idle) /\ Summing(Idle) /\ Idle.at = 0
<1>1. 0 \in Times /\ 0 \in Nat
    BY TillsAssumption DEF Times
<1> QED
    BY <1>1 DEF Idle, Request, OnShift, Summing, Kinds

\* A step that changes one request, and neither shifts nor entries.
LEMMA RequestStepKeeps ==
    ASSUME IInv, NEW r \in Requests, NEW x \in Request, req' = [req EXCEPT ![r] = x],
           OnShift(x), Summing(x), x.at <= clock', clock <= clock', clock' \in Times,
           series' \in [next : Nat \ {0}, holder : Requests \cup {NoRequest}],
           series'.next = series.next, UNCHANGED <<shift, entries, audit>>
    PROVE  IInv'
<1> USE DEF IInv
<1>1. /\ req' \in [Requests -> Request]
      /\ \A q \in Requests : req'[q] = IF q = r THEN x ELSE req[q]
    BY DEF TypeOK
<1>2. TypeOK'
    BY <1>1 DEF TypeOK
<1>3. TotalExplained' /\ ReceiptsDense' /\ IsFiniteSet(entries)'
    BY DEF TotalExplained, ReceiptsDense, On
<1>4. Forced' /\ \A e \in entries' : e.shift # NoShift => Used(e.shift)'
    BY DEF Forced, Used, On, Counts, Held
<1>5. Clocked'
    <2>1. clock \in Int /\ clock' \in Int
        BY TillsAssumption DEF TypeOK, Times
    <2>2. \A e \in entries : e.at \in Int /\ e.done \in Int
        BY TillsAssumption DEF TypeOK, Entry, Times
    <2>3. \A q \in Requests : req[q].at \in Int
        BY TillsAssumption DEF TypeOK, Request, Times
    <2>4. audit.at \in Int /\ \A s \in Shifts : shift[s].began \in Int
        BY TillsAssumption DEF TypeOK, Closing, Row, Times
    <2>5. \A q \in Requests : req'[q].at <= clock'
        BY <1>1, <2>1, <2>3 DEF Clocked
    <2>6. \A e \in entries : e.at <= clock' /\ e.done <= clock'
        BY <2>1, <2>2 DEF Clocked
    <2>7. audit.at <= clock' /\ \A s \in Shifts : shift[s].began <= clock'
        BY <2>1, <2>4 DEF Clocked
    <2> QED
        BY <2>5, <2>6, <2>7 DEF Clocked
<1>6. \A q \in Requests : OnShift(req[q])' /\ Summing(req[q])'
    <2> TAKE q \in Requests
    <2>1. OnShift(req'[q]) /\ Summing(req'[q])
        BY <1>1
    <2>2. OnShift(req[q])'
        BY <2>1 DEF OnShift, Used
    <2>3. Summing(req[q])'
        BY <2>1 DEF Summing, On, Counts, Read
    <2> QED
        BY <2>2, <2>3
<1> QED
    BY <1>2, <1>3, <1>4, <1>5, <1>6

\* Begin puts a request on an open shift, or on none.
LEMMA BeginKeeps ==
    ASSUME IInv, NEW r \in Requests, NEW x \in Request, Begin(r, x),
           x.shift = NoShift \/ IsOpen(x.shift),
           x.op = "close" => x.shift # NoShift /\ x.step = "check" /\ x.counted = {},
           UNCHANGED <<shift, entries, audit, series>>
    PROVE  IInv'
<1> DEFINE y == [x EXCEPT !.at = clock + 1]
<1>1. clock < MaxTime /\ clock' = clock + 1 /\ req' = [req EXCEPT ![r] = y]
    BY DEF Begin
<1>2. clock \in 0 .. MaxTime /\ MaxTime \in Nat
    BY TillsAssumption DEF IInv, TypeOK, Times
<1>3. clock' \in Times /\ clock <= clock'
    BY <1>1, <1>2 DEF Times
<1>4. /\ y \in Request /\ y.at = clock' /\ y.op = x.op /\ y.shift = x.shift /\ y.step = x.step
      /\ y.counted = x.counted
    BY <1>1, <1>3 DEF Request
<1> HIDE DEF y
<1>5. OnShift(y)
    BY <1>4 DEF OnShift, Used, IsOpen
<1>6. Summing(y)
    BY <1>4 DEF Summing, Counts, Read
<1>7. series' \in [next : Nat \ {0}, holder : Requests \cup {NoRequest}]
    BY DEF IInv, TypeOK
<1> QED
    <2>1. y.at <= clock' /\ clock <= clock' /\ series'.next = series.next
        BY <1>1, <1>2, <1>4
    <2> QED
        BY <1>1, <1>3, <1>4, <1>5, <1>6, <1>7, <2>1, RequestStepKeeps

LEMMA BeginPayKeeps ==
    ASSUME IInv, NEW r \in Requests, NEW k \in Kinds, NEW own \in BOOLEAN, BeginPay(r, k, own)
    PROVE  IInv'
<1>1. PICK s \in ShiftFor(k, own) :
          Begin(r, [Idle EXCEPT !.op = "pay", !.kind = k, !.shift = s,
                                !.step = IF own /\ k \in {"cash", "card"} THEN "number" ELSE "write",
                                !.voucher = IF k = "expense" THEN Cardinality(Vouchers) + 1 ELSE 0])
    BY DEF BeginPay
<1> DEFINE x == [Idle EXCEPT !.op = "pay", !.kind = k, !.shift = s,
                             !.step = IF own /\ k \in {"cash", "card"} THEN "number" ELSE "write",
                             !.voucher = IF k = "expense" THEN Cardinality(Vouchers) + 1 ELSE 0]
<1>2. s = NoShift \/ (s \in Shifts /\ IsOpen(s))
    <2>1. CASE own /\ k = "card"
        BY <2>1 DEF ShiftFor
    <2>2. CASE own /\ k # "card"
        BY <2>2 DEF ShiftFor, CanUse
    <2>3. CASE ~own
        BY <2>3 DEF ShiftFor, CanUse
    <2> QED
        BY <2>1, <2>2, <2>3
<1>3. Cardinality(Vouchers) + 1 \in Nat
    <2>1. IsFiniteSet(Vouchers)
        BY FS_Subset DEF IInv, Vouchers
    <2> QED
        BY <2>1, FS_CardinalityType
<1>4. x \in Request /\ x.shift = s /\ x.op = "pay"
    BY <1>2, <1>3, IdleIsRequest DEF Idle, Request
<1> HIDE DEF x
<1>5. Begin(r, x)
    BY <1>1 DEF x
<1>6. UNCHANGED <<shift, entries, audit, series>>
    BY DEF BeginPay
<1> QED
    BY <1>2, <1>4, <1>5, <1>6, BeginKeeps

LEMMA BeginCloseKeeps ==
    ASSUME IInv, NEW r \in Requests, NEW s \in Shifts, BeginClose(r, s)
    PROVE  IInv'
<1> DEFINE x == [Idle EXCEPT !.op = "close", !.shift = s]
<1>1. Begin(r, x) /\ IsOpen(s) /\ UNCHANGED <<shift, entries, audit, series>>
    BY DEF BeginClose, CanUse
<1>2. x \in Request /\ x.shift = s /\ x.step = "check" /\ x.counted = {}
    BY IdleIsRequest DEF Idle, Request
<1> HIDE DEF x
<1> QED
    BY <1>1, <1>2, TillsAssumption, BeginKeeps

\* The request r as it is.
LEMMA AsItIs ==
    ASSUME IInv, NEW r \in Requests
    PROVE  /\ req[r] \in Request /\ OnShift(req[r]) /\ Summing(req[r]) /\ req[r].at <= clock
           /\ clock \in Times /\ clock \in Nat
           /\ series \in [next : Nat \ {0}, holder : Requests \cup {NoRequest}]
BY TillsAssumption DEF IInv, TypeOK, Clocked, Times

LEMMA TakeNumberKeeps == ASSUME IInv, NEW r \in Requests, TakeNumber(r) PROVE IInv'
<1> DEFINE x == [req[r] EXCEPT !.step = "write"]
<1>1. /\ req[r].op = "pay" /\ req' = [req EXCEPT ![r] = x]
      /\ series' = [series EXCEPT !.holder = r] /\ UNCHANGED <<shift, entries, audit, clock>>
    BY DEF TakeNumber
<1>2. /\ x \in Request /\ x.op = "pay" /\ x.at = req[r].at /\ x.shift = req[r].shift
    BY <1>1, AsItIs DEF Request
<1> HIDE DEF x
<1>3. OnShift(x) /\ Summing(x)
    BY <1>2, AsItIs DEF OnShift, Summing
<1>4. x.at <= clock' /\ clock <= clock' /\ clock' \in Times
    BY <1>1, <1>2, AsItIs
<1>5. series' \in [next : Nat \ {0}, holder : Requests \cup {NoRequest}] /\ series'.next = series.next
    BY <1>1, AsItIs
<1> QED
    BY <1>1, <1>2, <1>3, <1>4, <1>5, RequestStepKeeps

LEMMA FailKeeps == ASSUME IInv, NEW r \in Requests, Fail(r) PROVE IInv'
<1>1. /\ req' = [req EXCEPT ![r] = Idle] /\ series' = NumberBack(r)
      /\ UNCHANGED <<shift, entries, audit, clock>>
    BY DEF Fail
<1>2. /\ NumberBack(r) \in [next : Nat \ {0}, holder : Requests \cup {NoRequest}]
      /\ NumberBack(r).next = series.next
    BY AsItIs DEF NumberBack
<1>3. Idle.at <= clock' /\ clock <= clock' /\ clock' \in Times
    BY <1>1, AsItIs, IdleIsRequest
<1> QED
    BY <1>1, <1>2, <1>3, IdleIsRequest, RequestStepKeeps

\* A sum: the total read so far is of cash, and all of it that the statements made so far see.
LEMMA SumKeeps ==
    ASSUME IInv, NEW r \in Requests, req[r].op = "close", NEW step \in {"spent", "refunded", "write"},
           NEW total, total \subseteq On(req[r].shift, Cash),
           Counts(total, req[r].shift, Read(step), req[r].at),
           req' = [req EXCEPT ![r] = [req[r] EXCEPT !.step = step, !.counted = total]],
           UNCHANGED <<shift, entries, audit, series, clock>>
    PROVE  IInv'
<1> DEFINE t == req[r]
           x == [t EXCEPT !.step = step, !.counted = total]
<1>1. req' = [req EXCEPT ![r] = x] /\ t \in Request
    BY AsItIs DEF IInv, TypeOK
<1>2. total \subseteq Times
    BY DEF On, IInv, TypeOK, Entry
<1>3. /\ x \in Request /\ x.at = t.at /\ x.op = "close" /\ x.shift = t.shift /\ x.step = step
      /\ x.counted = total
    BY <1>1, <1>2 DEF Request
<1>4. OnShift(t) /\ t.shift # NoShift
    BY AsItIs DEF Summing
<1> HIDE DEF x
<1>5. OnShift(x)
    BY <1>3, <1>4 DEF OnShift
<1>6. Summing(x)
    BY <1>3, <1>4 DEF Summing
<1>7. x.at <= clock' /\ clock <= clock' /\ clock' \in Times
    BY <1>3, AsItIs
<1>8. series' \in [next : Nat \ {0}, holder : Requests \cup {NoRequest}] /\ series'.next = series.next
    BY AsItIs
<1> QED
    BY <1>1, <1>3, <1>5, <1>6, <1>7, <1>8, RequestStepKeeps

\* What a closing has counted so far, and counts now.
LEMMA CountsNow ==
    ASSUME IInv, NEW r \in Requests, req[r].op = "close", NEW kinds \in SUBSET Cash
    PROVE  /\ req[r].counted \subseteq On(req[r].shift, Cash)
           /\ On(req[r].shift, kinds) \subseteq On(req[r].shift, Cash)
           /\ Counts(On(req[r].shift, kinds), req[r].shift, kinds, req[r].at)
           /\ Counts(req[r].counted, req[r].shift, Read(req[r].step), req[r].at)
<1>1. On(req[r].shift, kinds) \subseteq On(req[r].shift, Cash)
    BY DEF On
<1>2. Counts(On(req[r].shift, kinds), req[r].shift, kinds, req[r].at)
    BY DEF On, Counts
<1> QED
    BY <1>1, <1>2, AsItIs DEF Summing

LEMMA SumTakenKeeps == ASSUME IInv, NEW r \in Requests, SumTaken(r) PROVE IInv'
<1> DEFINE total == On(req[r].shift, TakenKinds)
<1>1. /\ req[r].op = "close" /\ req' = [req EXCEPT ![r] = [req[r] EXCEPT !.step = "spent", !.counted = total]]
      /\ UNCHANGED <<shift, entries, audit, series, clock>>
    BY DEF SumTaken
<1>2. TakenKinds \in SUBSET Cash /\ Read("spent") = TakenKinds
    BY DEF TakenKinds, Cash, Read
<1>3. total \subseteq On(req[r].shift, Cash) /\ Counts(total, req[r].shift, Read("spent"), req[r].at)
    BY <1>1, <1>2, CountsNow
<1> QED
    BY <1>1, <1>3, SumKeeps

LEMMA SumSpentKeeps == ASSUME IInv, NEW r \in Requests, SumSpent(r) PROVE IInv'
<1> DEFINE total == req[r].counted \cup On(req[r].shift, SpentKinds)
<1>1. /\ req[r].op = "close" /\ req[r].step = "spent"
      /\ req' = [req EXCEPT ![r] = [req[r] EXCEPT !.step = "refunded", !.counted = total]]
      /\ UNCHANGED <<shift, entries, audit, series, clock>>
    BY DEF SumSpent
<1>3. SpentKinds \in SUBSET Cash /\ Read("refunded") = Read("spent") \cup SpentKinds
    BY DEF SpentKinds, Cash, Read
<1>4. /\ total \subseteq On(req[r].shift, Cash)
      /\ Counts(total, req[r].shift, Read("refunded"), req[r].at)
    <2>1. /\ req[r].counted \subseteq On(req[r].shift, Cash)
          /\ On(req[r].shift, SpentKinds) \subseteq On(req[r].shift, Cash)
          /\ Counts(On(req[r].shift, SpentKinds), req[r].shift, SpentKinds, req[r].at)
          /\ Counts(req[r].counted, req[r].shift, Read("spent"), req[r].at)
        BY <1>1, <1>3, CountsNow
    <2> QED
        BY <1>3, <2>1 DEF Counts
<1> QED
    BY <1>1, <1>4, SumKeeps

LEMMA SumRefundedKeeps == ASSUME IInv, NEW r \in Requests, SumRefunded(r) PROVE IInv'
<1> DEFINE total == req[r].counted \cup On(req[r].shift, RefundedKinds)
<1>1. /\ req[r].op = "close" /\ req[r].step = "refunded"
      /\ req' = [req EXCEPT ![r] = [req[r] EXCEPT !.step = "write", !.counted = total]]
      /\ UNCHANGED <<shift, entries, audit, series, clock>>
    BY DEF SumRefunded
<1>3. RefundedKinds \in SUBSET Cash /\ Read("write") = Read("refunded") \cup RefundedKinds
    BY DEF RefundedKinds, Cash, Read
<1>4. /\ total \subseteq On(req[r].shift, Cash)
      /\ Counts(total, req[r].shift, Read("write"), req[r].at)
    <2>1. /\ req[r].counted \subseteq On(req[r].shift, Cash)
          /\ On(req[r].shift, RefundedKinds) \subseteq On(req[r].shift, Cash)
          /\ Counts(On(req[r].shift, RefundedKinds), req[r].shift, RefundedKinds, req[r].at)
          /\ Counts(req[r].counted, req[r].shift, Read("refunded"), req[r].at)
        BY <1>1, <1>3, CountsNow
    <2> QED
        BY <1>3, <2>1 DEF Counts
<1> QED
    BY <1>1, <1>4, SumKeeps

-----------------------------------------------------------------------------
(* A payment, a refund or an expense is recorded.                          *)

LEMMA Stamps ==
    ASSUME IInv
    PROVE  /\ clock \in Int /\ clock \in Times /\ audit.at \in Int /\ audit.at <= clock
           /\ \A e \in entries : e.at \in Int /\ e.done \in Int /\ e.at \in Times
           /\ \A e \in entries : e.at <= clock /\ e.done <= clock
           /\ \A r \in Requests : req[r].at \in Int /\ req[r].at <= clock
           /\ \A s \in Shifts : shift[s].began \in Int /\ shift[s].ended \in Int /\ shift[s].began <= clock
           /\ series.next \in Nat \ {0}
<1>1. Times \subseteq Int
    BY TillsAssumption DEF Times
<1>2. /\ clock \in Times /\ audit \in Closing /\ entries \subseteq Entry
      /\ req \in [Requests -> Request] /\ shift \in [Shifts -> Row]
      /\ series \in [next : Nat \ {0}, holder : Requests \cup {NoRequest}]
    BY DEF IInv, TypeOK
<1>3. \A e \in entries : e.at \in Int /\ e.done \in Int /\ e.at \in Times
    <2>1. \A e \in entries : e.at \in Times /\ e.done \in Times
        BY <1>2 DEF Entry
    <2> QED
        BY <1>1, <2>1
<1>4. \A r \in Requests : req[r].at \in Int
    BY <1>1, <1>2 DEF Request
<1>5. \A s \in Shifts : shift[s].began \in Int /\ shift[s].ended \in Int
    BY <1>1, <1>2 DEF Row
<1>6. audit.at \in Int /\ clock \in Int /\ series.next \in Nat \ {0}
    BY <1>1, <1>2 DEF Closing
<1> QED
    BY <1>2, <1>3, <1>4, <1>5, <1>6 DEF IInv, Clocked

LEMMA CommitPayKeeps == ASSUME IInv, NEW r \in Requests, CommitPay(r) PROVE IInv'
<1> USE DEF IInv
<1> DEFINE t  == req[r]
           ne == [at |-> t.at, done |-> clock, shift |-> t.shift, kind |-> t.kind,
                  no |-> IF Holds(r) THEN series.next ELSE t.voucher, receipt |-> Holds(r)]
<1>1. /\ t.op = "pay" /\ entries' = entries \cup {ne} /\ req' = [req EXCEPT ![r] = Idle]
      /\ series' = IF Holds(r) THEN [next |-> series.next + 1, holder |-> NoRequest] ELSE series
      /\ UNCHANGED <<shift, audit, clock>>
    BY DEF CommitPay
<1>2. t \in Request /\ OnShift(t)
    BY AsItIs
<1>3. /\ ne.at = t.at /\ ne.done = clock /\ ne.shift = t.shift /\ ne.kind = t.kind
      /\ ne.receipt = Holds(r) /\ (Holds(r) => ne.no = series.next)
    OBVIOUS
<1>4. ne \in Entry
    <2>1. Holds(r) \in BOOLEAN
        BY DEF Holds
    <2> QED
        BY <1>2, <2>1, Stamps DEF Entry, Request
<1> HIDE DEF ne, t
<1>5. /\ req' \in [Requests -> Request]
      /\ \A q \in Requests : req'[q] = IF q = r THEN Idle ELSE req[q]
    BY <1>1, IdleIsRequest DEF TypeOK
<1>6. TypeOK'
    <2>1. series' \in [next : Nat \ {0}, holder : Requests \cup {NoRequest}]
        BY <1>1 DEF TypeOK
    <2> QED
        BY <1>1, <1>4, <1>5, <2>1 DEF TypeOK
<1>7. IsFiniteSet(entries')
    BY <1>1, FS_AddElement
<1>8. \A s, kinds : On(s, kinds) \subseteq On(s, kinds)'
    BY <1>1 DEF On
<1>9. TotalExplained'
    <2> SUFFICES ASSUME NEW s \in Shifts, shift[s].status = "closed"
                 PROVE  /\ shift[s].counted \subseteq On(s, Cash)'
                        /\ \A e \in entries' : e.shift = s =>
                               /\ e.kind \in Cash /\ e.done < shift[s].began => e.at \in shift[s].counted
                               /\ e.at <= shift[s].ended
        BY <1>1 DEF TotalExplained
    <2>1. shift[s].counted \subseteq On(s, Cash)'
        BY <1>8 DEF TotalExplained
    <2>2. ASSUME NEW e \in entries, e.shift = s
          PROVE  /\ e.kind \in Cash /\ e.done < shift[s].began => e.at \in shift[s].counted
                 /\ e.at <= shift[s].ended
        BY <2>2 DEF TotalExplained
    <2>3. ASSUME ne.shift = s
          PROVE  ~(ne.done < shift[s].began) /\ ne.at <= shift[s].ended
        <3>1. t.at <= shift[s].ended
            BY <1>2, <1>3, <2>3, TillsAssumption DEF OnShift
        <3>2. shift[s].began <= clock /\ clock \in Int /\ shift[s].began \in Int
            BY Stamps
        <3> QED
            BY <1>3, <3>1, <3>2
    <2> QED
        BY <1>1, <2>1, <2>2, <2>3
<1>10. ReceiptsDense'
    <2>1. CASE Holds(r)
        <3>1. series'.next = series.next + 1 /\ ne.receipt /\ ne.no = series.next
            BY <1>1, <1>3, <2>1
        <3>2. {e \in entries' : e.receipt} = {e \in entries : e.receipt} \cup {ne}
            BY <1>1, <3>1
        <3>3. \A e \in entries : e.receipt => e.no # ne.no
            BY <3>1, Stamps DEF ReceiptsDense
        <3>4. {e.no : e \in {x \in entries' : x.receipt}} = 1 .. series'.next - 1
            <4>1. {e.no : e \in {x \in entries' : x.receipt}}
                      = {e.no : e \in {x \in entries : x.receipt}} \cup {series.next}
                BY <3>1, <3>2
            <4>2. {e.no : e \in {x \in entries : x.receipt}} = 1 .. series.next - 1
                BY DEF ReceiptsDense
            <4>3. (1 .. series.next - 1) \cup {series.next} = 1 .. series.next
                BY Stamps
            <4>4. series'.next - 1 = series.next
                BY <3>1, Stamps
            <4> QED
                BY <4>1, <4>2, <4>3, <4>4
        <3>5. \A e, f \in {x \in entries' : x.receipt} : e.no = f.no => e = f
            BY <3>2, <3>3 DEF ReceiptsDense
        <3> QED
            BY <3>4, <3>5 DEF ReceiptsDense
    <2>2. CASE ~Holds(r)
        <3>1. {e \in entries' : e.receipt} = {e \in entries : e.receipt} /\ series' = series
            BY <1>1, <1>3, <2>2
        <3> QED
            BY <3>1 DEF ReceiptsDense
    <2> QED
        BY <2>1, <2>2
<1>11. Clocked'
    <2>1. \A e \in entries' : e.at <= clock /\ e.done <= clock
        BY <1>1, <1>3, Stamps DEF t
    <2>2. \A q \in Requests : req'[q].at <= clock
        <3>1. 0 <= clock
            BY Stamps DEF Times
        <3> QED
            BY <1>5, <3>1, Stamps, IdleIsRequest
    <2> QED
        BY <1>1, <2>1, <2>2, Stamps DEF Clocked
<1>12. \A total, s, kinds, began :
           Counts(total, s, kinds, began) /\ began \in Int /\ began <= clock
               => Counts(total, s, kinds, began)'
    BY <1>1, <1>3, Stamps DEF Counts
<1>13. Forced'
    BY <1>1, <1>8, <1>12, Stamps DEF Forced, Held, Used
<1>14. \A e \in entries' : e.shift # NoShift => Used(e.shift)'
    BY <1>1, <1>2, <1>3 DEF OnShift, Used
<1>15. ASSUME NEW q \in Requests PROVE OnShift(req[q])' /\ Summing(req[q])'
    <2>1. CASE q = r
        BY <1>1, <1>5, <2>1, IdleIsRequest DEF Idle, OnShift, Summing
    <2>2. CASE q # r
        <3>1. req'[q] = req[q] /\ OnShift(req[q]) /\ Summing(req[q])
            BY <1>5, <2>2
        <3>2. OnShift(req[q])'
            BY <1>1, <3>1 DEF OnShift, Used
        <3>3. Summing(req[q])'
            BY <1>8, <1>12, <3>1, Stamps DEF Summing
        <3> QED
            BY <3>2, <3>3
    <2> QED
        BY <2>1, <2>2
<1> QED
    BY <1>6, <1>7, <1>9, <1>10, <1>11, <1>13, <1>14, <1>15

-----------------------------------------------------------------------------
(* A shift is closed.                                                      *)

\* A total that may be frozen on shift s by a closing that began at a time.
Freezable(s, total, began) ==
    /\ Used(s) /\ total \subseteq On(s, Cash) /\ Counts(total, s, Cash, began)
    /\ began \in Times /\ began <= clock

\* A row closed with such a total is explained by it.
LEMMA ClosedRow ==
    ASSUME IInv, NEW s \in Shifts, NEW by \in {"cashier", "audit"}, NEW total, NEW began,
           Freezable(s, total, began)
    PROVE  LET row == Closed(shift[s], by, total, began) IN
           /\ row \in Row /\ row.status = "closed" /\ row.counted = total /\ row.began = began
           /\ \A time \in Int : time <= clock /\ (shift[s].status = "closed" => time <= shift[s].ended)
                  => time <= row.ended
<1> DEFINE row == Closed(shift[s], by, total, began)
<1>1. shift[s] \in Row
    BY DEF IInv, TypeOK
<1>2. total \in SUBSET Times
    <2>1. On(s, Cash) \subseteq Times
        BY DEF On, IInv, TypeOK, Entry
    <2> QED
        BY <2>1 DEF Freezable
<1>3. began \in Times /\ clock \in Times
    BY Stamps DEF Freezable
<1>4. row = [shift[s] EXCEPT !.status = "closed", !.by = by, !.counted = total, !.began = began,
                             !.ended = IF shift[s].status = "open" THEN clock ELSE shift[s].ended]
    BY <1>1 DEF Closed, Row
<1>5. /\ row \in Row /\ row.status = "closed" /\ row.counted = total /\ row.began = began
      /\ row.ended = IF shift[s].status = "open" THEN clock ELSE shift[s].ended
    BY <1>1, <1>2, <1>3, <1>4 DEF Row
<1>6. shift[s].status = "open" \/ shift[s].status = "closed"
    BY <1>1 DEF Freezable, Used, Row
<1> HIDE DEF row
<1>7. \A time \in Int : time <= clock /\ (shift[s].status = "closed" => time <= shift[s].ended)
          => time <= row.ended
    BY <1>5, <1>6
<1> QED
    BY <1>5, <1>7 DEF row

\* A step that closes some shifts with such totals, and touches nothing else of what is recorded.
LEMMA ClosingKeeps ==
    ASSUME IInv, shift' \in [Shifts -> Row], UNCHANGED <<entries, clock, series>>,
           \A s \in Shifts : \/ shift'[s] = shift[s]
                             \/ \E by, total, began :
                                    /\ by \in {"cashier", "audit"}
                                    /\ Freezable(s, total, began)
                                    /\ shift'[s] = Closed(shift[s], by, total, began)
    PROVE  /\ TotalExplained' /\ ReceiptsDense' /\ IsFiniteSet(entries')
           /\ \A s \in Shifts : Used(s) => Used(s)'
           /\ \A s \in Shifts : shift'[s].began <= clock
           /\ \A x \in Request : OnShift(x) /\ x.at <= clock => OnShift(x)'
           /\ \A s, kinds : On(s, kinds)' = On(s, kinds)
<1>1. \A s \in Shifts :
          \/ shift'[s] = shift[s]
          \/ \E total, began :
                 /\ Freezable(s, total, began) /\ shift'[s].status = "closed"
                 /\ shift'[s].counted = total /\ shift'[s].began = began
                 /\ \A time \in Int :
                        time <= clock /\ (shift[s].status = "closed" => time <= shift[s].ended)
                            => time <= shift'[s].ended
    <2> TAKE s \in Shifts
    <2>1. CASE shift'[s] = shift[s]
        BY <2>1
    <2>2. CASE \E by, total, began :
                   /\ by \in {"cashier", "audit"}
                   /\ Freezable(s, total, began)
                   /\ shift'[s] = Closed(shift[s], by, total, began)
        <3>1. PICK by, total, began :
                  /\ by \in {"cashier", "audit"}
                  /\ Freezable(s, total, began)
                  /\ shift'[s] = Closed(shift[s], by, total, began)
            BY <2>2
        <3> QED
            BY <3>1, ClosedRow
    <2> QED
        BY <2>1, <2>2
<1>2. ReceiptsDense' /\ IsFiniteSet(entries') /\ \A s, kinds : On(s, kinds)' = On(s, kinds)
    BY DEF IInv, ReceiptsDense, On
<1>3. TotalExplained'
    <2> SUFFICES ASSUME NEW s \in Shifts, shift'[s].status = "closed"
                 PROVE  /\ shift'[s].counted \subseteq On(s, Cash)
                        /\ \A e \in entries : e.shift = s =>
                               /\ e.kind \in Cash /\ e.done < shift'[s].began
                                      => e.at \in shift'[s].counted
                               /\ e.at <= shift'[s].ended
        BY <1>2 DEF TotalExplained
    <2>1. CASE shift'[s] = shift[s]
        BY <2>1 DEF IInv, TotalExplained
    <2>2. CASE shift'[s] # shift[s]
        <3>1. PICK total, began :
                 /\ Freezable(s, total, began)
                 /\ shift'[s].counted = total /\ shift'[s].began = began
                 /\ \A time \in Int :
                        time <= clock /\ (shift[s].status = "closed" => time <= shift[s].ended)
                            => time <= shift'[s].ended
            BY <1>1, <2>2
        <3>2. \A e \in entries : e.shift = s => e.at <= shift'[s].ended
            BY <3>1, Stamps DEF IInv, TotalExplained
        <3> QED
            BY <3>1, <3>2 DEF Freezable, Counts
    <2> QED
        BY <2>1, <2>2
<1>4. \A s \in Shifts : (Used(s) => Used(s)') /\ shift'[s].began <= clock
    BY <1>1, Stamps DEF Used, Freezable
<1>5. ASSUME NEW x \in Request, OnShift(x), x.at <= clock PROVE OnShift(x)'
    <2> SUFFICES ASSUME x.shift # NoShift, shift'[x.shift].status = "closed"
                 PROVE  x.at <= shift'[x.shift].ended
        BY <1>4, <1>5 DEF OnShift, Request
    <2>1. x.shift \in Shifts /\ x.at \in Int
        BY TillsAssumption DEF Request, Times
    <2>2. shift[x.shift].status = "closed" => x.at <= shift[x.shift].ended
        BY <1>5 DEF OnShift
    <2> QED
        BY <1>1, <1>5, <2>1, <2>2
<1> QED
    BY <1>2, <1>3, <1>4, <1>5

LEMMA WriteCloseKeeps == ASSUME IInv, NEW r \in Requests, WriteClose(r) PROVE IInv'
<1> DEFINE t == req[r]
           s == t.shift
<1>1. /\ t.op = "close" /\ t.step = "write"
      /\ shift' = [shift EXCEPT ![s] = Closed(shift[s], "cashier", t.counted, t.at)]
      /\ req' = [req EXCEPT ![r] = Idle] /\ UNCHANGED <<entries, audit, series, clock>>
    BY DEF WriteClose
<1>2. t \in Request /\ OnShift(t) /\ Summing(t) /\ t.at <= clock /\ t.at \in Times
    BY AsItIs DEF Request
<1>3. s \in Shifts /\ Freezable(s, t.counted, t.at)
    <2>1. Read("write") = Cash
        BY DEF Read, Cash
    <2>2. s # NoShift /\ s \in Shifts
        BY <1>1, <1>2 DEF Summing, Request
    <2> QED
        BY <1>1, <1>2, <2>1, <2>2 DEF Freezable, Summing, OnShift
<1> HIDE DEF s, t
<1>4. /\ shift \in [Shifts -> Row] /\ Closed(shift[s], "cashier", t.counted, t.at) \in Row
    BY <1>3, ClosedRow DEF IInv, TypeOK
<1>5. /\ shift' \in [Shifts -> Row]
      /\ \A v \in Shifts : shift'[v] = IF v = s THEN Closed(shift[s], "cashier", t.counted, t.at)
                                                ELSE shift[v]
    BY <1>1, <1>4
<1>6. \A v \in Shifts : \/ shift'[v] = shift[v]
                        \/ \E by, total, began :
                               /\ by \in {"cashier", "audit"}
                               /\ Freezable(v, total, began)
                               /\ shift'[v] = Closed(shift[v], by, total, began)
    BY <1>3, <1>5
<1>7. /\ TotalExplained' /\ ReceiptsDense' /\ IsFiniteSet(entries')
      /\ \A v \in Shifts : Used(v) => Used(v)'
      /\ \A v \in Shifts : shift'[v].began <= clock
      /\ \A x \in Request : OnShift(x) /\ x.at <= clock => OnShift(x)'
      /\ \A v, kinds : On(v, kinds)' = On(v, kinds)
    BY <1>1, <1>5, <1>6, ClosingKeeps
<1>8. /\ req' \in [Requests -> Request]
      /\ \A q \in Requests : req'[q] = IF q = r THEN Idle ELSE req[q]
    BY <1>1, IdleIsRequest DEF IInv, TypeOK
<1>9. TypeOK'
    BY <1>1, <1>5, <1>8 DEF IInv, TypeOK
<1>10. Clocked'
    <2>1. 0 <= clock
        BY TillsAssumption, Stamps DEF Times
    <2>2. \A q \in Requests : req'[q].at <= clock
        BY <1>8, <2>1, Stamps, IdleIsRequest
    <2> QED
        BY <1>1, <1>7, <2>2 DEF IInv, Clocked
<1>11. Forced' /\ \A e \in entries' : e.shift # NoShift => Used(e.shift)'
    <2>1. audit.todo \cup Held \subseteq Shifts
        BY DEF IInv, TypeOK, Closing, Held
    <2>2. \A e \in entries : e.shift # NoShift => e.shift \in Shifts
        BY DEF IInv, TypeOK, Entry
    <2>3. Forced'
        BY <1>1, <1>7, <2>1 DEF IInv, Forced, Held, Counts
    <2> QED
        BY <1>1, <1>7, <2>2, <2>3 DEF IInv
<1>12. ASSUME NEW q \in Requests PROVE OnShift(req[q])' /\ Summing(req[q])'
    <2>1. req'[q] \in Request /\ OnShift(req'[q]) /\ Summing(req'[q]) /\ req'[q].at <= clock
        <3>1. 0 <= clock
            BY TillsAssumption, Stamps DEF Times
        <3> QED
            BY <1>8, <3>1, AsItIs, IdleIsRequest
    <2>2. OnShift(req[q])'
        BY <1>7, <2>1
    <2>3. Summing(req[q])'
        BY <1>1, <1>7, <2>1 DEF Summing, Counts, Read
    <2> QED
        BY <2>2, <2>3
<1> QED
    BY <1>7, <1>9, <1>10, <1>11, <1>12 DEF IInv

-----------------------------------------------------------------------------
(* The night audit, and a shift that opens.                                *)

\* A step of the audit alone.
LEMMA AuditKeeps ==
    ASSUME IInv, audit' \in Closing, clock' \in Times, clock <= clock', audit'.at <= clock',
           UNCHANGED <<shift, entries, req, series>>, Forced'
    PROVE  IInv'
<1> USE DEF IInv
<1>1. TypeOK' /\ TotalExplained' /\ ReceiptsDense' /\ IsFiniteSet(entries')
    BY DEF TypeOK, TotalExplained, ReceiptsDense, On
<1>2. Clocked'
    <2>1. clock \in Int /\ clock' \in Int
        BY TillsAssumption, Stamps DEF Times
    <2> QED
        BY <2>1, Stamps DEF Clocked
<1>3. \A e \in entries' : e.shift # NoShift => Used(e.shift)'
    BY DEF Used
<1>4. \A r \in Requests : OnShift(req[r])' /\ Summing(req[r])'
    BY DEF OnShift, Summing, Used, On, Counts, Read
<1> QED
    BY <1>1, <1>2, <1>3, <1>4

LEMMA NoAuditIsClosing == NoAudit \in Closing /\ NoAudit.at = 0
<1>1. [s \in {} |-> {}] \in [{} -> SUBSET Times]
    OBVIOUS
<1>2. [s \in {} |-> {}] \in UNION {[held -> SUBSET Times] : held \in SUBSET Shifts}
    BY <1>1
<1>3. 0 \in Times
    BY TillsAssumption DEF Times
<1> QED
    BY <1>2, <1>3 DEF NoAudit, Closing

LEMMA AuditListKeeps == ASSUME IInv, AuditList PROVE IInv'
<1> DEFINE x == [NoAudit EXCEPT !.running = TRUE, !.at = clock + 1,
                                !.todo = {s \in Shifts : IsOpen(s)}]
<1>1. /\ clock < MaxTime /\ clock' = clock + 1 /\ audit' = x
      /\ UNCHANGED <<shift, entries, req, series>>
    BY DEF AuditList
<1>2. clock' \in Times /\ clock <= clock'
    BY <1>1, TillsAssumption, Stamps DEF Times
<1>3. /\ x \in Closing /\ x.at = clock' /\ x.todo = {s \in Shifts : IsOpen(s)}
      /\ x.pending = [s \in {} |-> {}]
    BY <1>1, <1>2, NoAuditIsClosing DEF NoAudit, Closing
<1> HIDE DEF x
<1>4. Forced'
    <2>1. Held' = {}
        BY <1>1, <1>3 DEF Held
    <2>2. \A s \in audit'.todo : Used(s)'
        BY <1>1, <1>3 DEF IsOpen, Used
    <2> QED
        BY <2>1, <2>2 DEF Forced
<1>5. audit'.at <= clock'
    BY <1>1, <1>2, <1>3, Stamps
<1> QED
    BY <1>1, <1>2, <1>3, <1>4, <1>5, AuditKeeps

LEMMA AuditRollbackKeeps == ASSUME IInv, AuditRollback PROVE IInv'
<1>1. audit' = NoAudit /\ UNCHANGED <<shift, entries, req, series, clock>>
    BY DEF AuditRollback
<1>2. Forced'
    BY <1>1 DEF Forced, Held, NoAudit
<1>3. audit' \in Closing /\ clock' \in Times /\ clock <= clock' /\ audit'.at <= clock'
    BY <1>1, NoAuditIsClosing, TillsAssumption, Stamps DEF Times
<1> QED
    BY <1>1, <1>2, <1>3, AuditKeeps

LEMMA AuditCloseKeeps == ASSUME IInv, NEW s \in Shifts, AuditClose(s) PROVE IInv'
<1> DEFINE f == [v \in Held \cup {s} |-> IF v = s THEN On(s, TakenKinds \cup SpentKinds \cup RefundedKinds)
                                                  ELSE audit.pending[v]]
<1>1. /\ s \in audit.todo /\ audit' = [audit EXCEPT !.todo = audit.todo \ {s}, !.pending = f]
      /\ UNCHANGED <<shift, entries, req, series, clock>>
    BY DEF AuditClose
<1>2. TakenKinds \cup SpentKinds \cup RefundedKinds = Cash
    BY DEF TakenKinds, SpentKinds, RefundedKinds, Cash
<1>3. audit \in Closing /\ Held \subseteq Shifts /\ \A v \in Held : audit.pending[v] \subseteq Times
    BY DEF IInv, TypeOK, Closing, Held
<1>4. On(s, Cash) \subseteq Times
    BY DEF On, IInv, TypeOK, Entry
<1>5. /\ DOMAIN f = Held \cup {s}
      /\ \A v \in Held \cup {s} : f[v] = IF v = s THEN On(s, Cash) ELSE audit.pending[v]
    BY <1>2
<1>6. f \in [Held \cup {s} -> SUBSET Times]
    BY <1>3, <1>4, <1>5
<1>7. f \in UNION {[held -> SUBSET Times] : held \in SUBSET Shifts}
    <2>1. Held \cup {s} \in SUBSET Shifts
        BY <1>3
    <2> QED
        BY <1>6, <2>1
<1> HIDE DEF f
<1>8. /\ audit' \in Closing /\ audit'.at = audit.at /\ audit'.todo = audit.todo \ {s}
      /\ audit'.pending = f
    BY <1>1, <1>3, <1>7 DEF Closing
<1>9. Counts(On(s, Cash), s, Cash, audit.at)
    BY DEF Counts, On
<1>10. Forced'
    <2>1. Held' = Held \cup {s}
        BY <1>5, <1>8 DEF Held
    <2>2. \A v \in audit'.todo \cup Held' : Used(v)'
        BY <1>1, <1>8, <2>1 DEF IInv, Forced, Used
    <2>3. \A v \in Shifts : \A kinds : On(v, kinds)' = On(v, kinds)
        BY <1>1 DEF On
    <2>4. \A v \in Held \cup {s} : f[v] \subseteq On(v, Cash) /\ Counts(f[v], v, Cash, audit.at)
        BY <1>5, <1>9 DEF IInv, Forced
    <2>5. \A v \in Held' : /\ audit'.pending[v] \subseteq On(v, Cash)'
                           /\ Counts(audit.pending[v], v, Cash, audit.at)'
        BY <1>1, <1>3, <1>8, <2>1, <2>3, <2>4 DEF Counts
    <2> QED
        BY <2>2, <2>5 DEF Forced
<1>11. clock' \in Times /\ clock <= clock' /\ audit'.at <= clock'
    BY <1>1, <1>8, Stamps
<1> QED
    BY <1>1, <1>8, <1>10, <1>11, AuditKeeps

LEMMA AuditCommitKeeps == ASSUME IInv, AuditCommit PROVE IInv'
<1>1. /\ shift' = [s \in Shifts |-> IF s \in Held
                                    THEN Closed(shift[s], "audit", audit.pending[s], audit.at)
                                    ELSE shift[s]]
      /\ audit' = NoAudit /\ UNCHANGED <<entries, req, series, clock>>
    BY DEF AuditCommit
<1>2. audit \in Closing /\ Held \subseteq Shifts /\ shift \in [Shifts -> Row]
    BY DEF IInv, TypeOK, Closing, Held
<1>3. \A s \in Held : Freezable(s, audit.pending[s], audit.at)
    BY <1>2, Stamps DEF Freezable, IInv, Forced, Closing
<1>4. \A s \in Held : Closed(shift[s], "audit", audit.pending[s], audit.at) \in Row
    BY <1>2, <1>3, ClosedRow
<1>5. \A s \in Shifts : shift'[s] = IF s \in Held
                                    THEN Closed(shift[s], "audit", audit.pending[s], audit.at)
                                    ELSE shift[s]
    BY <1>1
<1>6. shift' \in [Shifts -> Row]
    BY <1>1, <1>2, <1>4
<1>7. \A v \in Shifts : \/ shift'[v] = shift[v]
                        \/ \E by, total, began :
                               /\ by \in {"cashier", "audit"}
                               /\ Freezable(v, total, began)
                               /\ shift'[v] = Closed(shift[v], by, total, began)
    BY <1>3, <1>5
<1>8. /\ TotalExplained' /\ ReceiptsDense' /\ IsFiniteSet(entries')
      /\ \A v \in Shifts : Used(v) => Used(v)'
      /\ \A v \in Shifts : shift'[v].began <= clock
      /\ \A x \in Request : OnShift(x) /\ x.at <= clock => OnShift(x)'
      /\ \A v, kinds : On(v, kinds)' = On(v, kinds)
    BY <1>1, <1>6, <1>7, ClosingKeeps
<1>9. TypeOK'
    BY <1>1, <1>6, NoAuditIsClosing DEF IInv, TypeOK
<1>10. Clocked'
    <2>1. 0 <= clock
        BY TillsAssumption, Stamps DEF Times
    <2> QED
        BY <1>1, <1>8, <2>1, NoAuditIsClosing DEF IInv, Clocked
<1>11. Forced'
    BY <1>1 DEF Forced, Held, NoAudit
<1>12. \A e \in entries' : e.shift # NoShift => Used(e.shift)'
    <2>1. \A e \in entries : e.shift # NoShift => e.shift \in Shifts
        BY DEF IInv, TypeOK, Entry
    <2> QED
        BY <1>1, <1>8, <2>1 DEF IInv
<1>13. ASSUME NEW q \in Requests PROVE OnShift(req[q])' /\ Summing(req[q])'
    <2>1. req[q] \in Request /\ OnShift(req[q]) /\ Summing(req[q]) /\ req[q].at <= clock
        BY AsItIs
    <2>2. OnShift(req[q])'
        BY <1>1, <1>8, <2>1
    <2>3. Summing(req[q])'
        BY <1>1, <1>8, <2>1 DEF Summing, Counts, Read
    <2> QED
        BY <2>2, <2>3
<1> QED
    BY <1>8, <1>9, <1>10, <1>11, <1>12, <1>13 DEF IInv

LEMMA OpenSessionKeeps ==
    ASSUME IInv, NEW d \in Drawers, NEW s \in Shifts, OpenSession(d, s)
    PROVE  IInv'
<1> DEFINE x == [shift[s] EXCEPT !.drawer = d, !.status = "open"]
<1>1. /\ shift[s].status = "none" /\ shift' = [shift EXCEPT ![s].drawer = d, ![s].status = "open"]
      /\ UNCHANGED <<entries, req, audit, series, clock>>
    BY DEF OpenSession
<1>2. shift \in [Shifts -> Row] /\ shift[s] \in Row
    BY DEF IInv, TypeOK
<1>3. shift' = [shift EXCEPT ![s] = x]
    BY <1>1, <1>2
<1>4. x \in Row /\ x.status = "open" /\ x.began = shift[s].began
    BY <1>2 DEF Row
<1> HIDE DEF x
<1>5. shift' \in [Shifts -> Row] /\ \A v \in Shifts : shift'[v] = IF v = s THEN x ELSE shift[v]
    BY <1>2, <1>3, <1>4
<1>6. \A v, kinds : On(v, kinds)' = On(v, kinds)
    BY <1>1 DEF On
<1>7. \A v \in Shifts : Used(v) => Used(v)' /\ shift'[v] = shift[v]
    BY <1>1, <1>4, <1>5 DEF Used
<1>8. TypeOK' /\ Clocked'
    BY <1>1, <1>4, <1>5 DEF IInv, TypeOK, Clocked
<1>9. TotalExplained' /\ ReceiptsDense' /\ IsFiniteSet(entries')
    BY <1>1, <1>4, <1>5, <1>6 DEF IInv, TotalExplained, ReceiptsDense
<1>10. Forced' /\ \A e \in entries' : e.shift # NoShift => Used(e.shift)'
    <2>1. audit.todo \cup Held \subseteq Shifts
        BY DEF IInv, TypeOK, Closing, Held
    <2>2. \A e \in entries : e.shift # NoShift => e.shift \in Shifts
        BY DEF IInv, TypeOK, Entry
    <2>3. Forced'
        BY <1>1, <1>6, <1>7, <2>1 DEF IInv, Forced, Held, Counts
    <2> QED
        BY <1>1, <1>7, <2>2, <2>3 DEF IInv
<1>11. ASSUME NEW q \in Requests PROVE OnShift(req[q])' /\ Summing(req[q])'
    <2>1. req[q] \in Request /\ OnShift(req[q]) /\ Summing(req[q])
        BY AsItIs
    <2>2. req[q].shift \in Shifts \cup {NoShift}
        BY <2>1 DEF Request
    <2>3. OnShift(req[q])'
        BY <1>1, <1>7, <2>1, <2>2 DEF OnShift
    <2>4. Summing(req[q])'
        BY <1>1, <1>6, <2>1 DEF Summing, Counts, Read
    <2> QED
        BY <2>3, <2>4
<1> QED
    BY <1>8, <1>9, <1>10, <1>11 DEF IInv

-----------------------------------------------------------------------------
(* The invariant holds, and what follows from it.                          *)

LEMMA InitIInv == Init => IInv
<1> SUFFICES ASSUME Init PROVE IInv
    OBVIOUS
<1>1. /\ shift = [s \in Shifts |-> [drawer |-> NoDrawer, status |-> "none", by |-> "nobody",
                                    counted |-> {}, began |-> 0, ended |-> 0]]
      /\ entries = {} /\ req = [r \in Requests |-> Idle] /\ audit = NoAudit
      /\ series = [next |-> 1, holder |-> NoRequest] /\ clock = 0
    BY DEF Init
<1>2. 0 \in Times
    BY TillsAssumption DEF Times
<1>3. TypeOK
    BY <1>1, <1>2, IdleIsRequest, NoAuditIsClosing DEF TypeOK, Row
<1>4. TotalExplained
    BY <1>1 DEF TotalExplained
<1>5. ReceiptsDense
    <2>1. 1 .. series.next - 1 = {}
        BY <1>1
    <2> QED
        BY <1>1, <2>1 DEF ReceiptsDense
<1>6. IsFiniteSet(entries)
    BY <1>1, FS_EmptySet
<1>7. Clocked
    BY <1>1, IdleIsRequest, NoAuditIsClosing DEF Clocked
<1>8. Forced
    BY <1>1 DEF Forced, Held, NoAudit
<1>9. \A r \in Requests : OnShift(req[r]) /\ Summing(req[r])
    BY <1>1, IdleIsRequest
<1> QED
    BY <1>1, <1>3, <1>4, <1>5, <1>6, <1>7, <1>8, <1>9 DEF IInv

LEMMA StutterKeeps == ASSUME IInv, UNCHANGED vars PROVE IInv'
<1>1. UNCHANGED <<shift, entries, req, audit, series, clock>>
    BY DEF vars
<1> QED
    BY <1>1 DEF IInv, TypeOK, TotalExplained, ReceiptsDense, Clocked, Forced, OnShift, Summing,
                Counts, On, Used, Held, Read

LEMMA NextIInv == IInv /\ [Next]_vars => IInv'
<1> SUFFICES ASSUME IInv, [Next]_vars PROVE IInv'
    OBVIOUS
<1>1. CASE \E d \in Drawers, s \in Shifts : OpenSession(d, s)
    BY <1>1, OpenSessionKeeps
<1>2. CASE \E r \in Requests, k \in Kinds, own \in BOOLEAN : BeginPay(r, k, own)
    BY <1>2, BeginPayKeeps
<1>3. CASE \E r \in Requests, s \in Shifts : BeginClose(r, s)
    BY <1>3, BeginCloseKeeps
<1>4. ASSUME NEW r \in Requests, RequestStep(r) \/ Refuse(r) PROVE IInv'
    BY <1>4, TakeNumberKeeps, CommitPayKeeps, FailKeeps, SumTakenKeeps, SumSpentKeeps,
       SumRefundedKeeps, WriteCloseKeeps DEF RequestStep, Refuse, VoucherConflict
<1>5. CASE AuditList \/ AuditStep \/ AuditRollback
    BY <1>5, AuditListKeeps, AuditCloseKeeps, AuditCommitKeeps, AuditRollbackKeeps DEF AuditStep
<1>6. CASE UNCHANGED vars
    BY <1>6, StutterKeeps
<1> QED
    BY <1>1, <1>2, <1>3, <1>4, <1>5, <1>6 DEF Next

LEMMA Inductive == Spec => []IInv
BY InitIInv, NextIInv, PTL DEF Spec

\* Shifts, entries, requests, the audit and the series keep their types, for any drawers, shifts
\* and requests.
THEOREM TillTypes == Spec => []TypeOK
<1>1. IInv => TypeOK
    BY DEF IInv
<1> QED
    BY <1>1, Inductive, PTL

\* The total frozen on a closed shift holds all the cash that moved before its closing began, and
\* no other, however payments, closings and the audit interleave.
THEOREM TotalsExplained == Spec => []TotalExplained
<1>1. IInv => TotalExplained
    BY DEF IInv
<1> QED
    BY <1>1, Inductive, PTL

\* Receipt numbers run from 1 without a gap or a repetition, whatever requests fail.
THEOREM ReceiptNumbersDense == Spec => []ReceiptsDense
<1>1. IInv => ReceiptsDense
    BY DEF IInv
<1> QED
    BY <1>1, Inductive, PTL
=============================================================================
