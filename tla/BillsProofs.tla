---------------------------- MODULE BillsProofs ----------------------------
(***************************************************************************)
(* Theorems about Bills, for any windows, lines, desks and limit.          *)
(*                                                                         *)
(* A closing decides by what it has read, in two statements, and closes by *)
(* id.  The inductive invariant says how far what it has read is from what *)
(* is true, and that a closed window knows of every request that may still *)
(* change what it owes.                                                    *)
(***************************************************************************)
EXTENDS Bills, FiniteSetTheorems, TLAPS

\* Requests that have found their window open.
OnWindow == {"entered", "refund", "charge", "settle", "transfer", "count", "close"}

Posted(c) == line[c].at # Nowhere

\* Window w, if closed, knows that the request at d may still write.
InTime(d, w) == ~window[w].open => d \in window[w].late

\* So does the window that line c stands on by now.
Knows(d, c) == Posted(c) /\ (~line[c].void => InTime(d, line[c].at))

\* The windows the request x at d will change know of it; the hotel's own lines and strikes,
\* which ask no window, are not among those requests.
Known(d, x) ==
    /\ x.op \in OnWindow => InTime(d, x.w)
    /\ x.op = "void" => Knows(d, x.c)
    /\ x.op = "transfer" => \A c \in x.cs : Knows(d, c)
    /\ x.op = "routed" => ~Posted(x.c)

\* A closing's reading is off by its drift.
Counted(x) ==
    /\ x.op = "count" => Cardinality(Lines(x.w)) = x.lines + x.drift
    /\ x.op = "close" => Balance(x.w) = x.drift

\* A line of the hotel's own is posted by one request.
RoutedApart == \A d, e \in Busy({"routed"}) : req[d].c = req[e].c => d = e

Closings == /\ \A d \in Desks : Known(d, req[d]) /\ Counted(req[d])
            /\ RoutedApart /\ ClosedOwesOnlyWhatWasUnderWay

\* An issue under way is alone on its window and has a number of its own, ...
IssueAlone(d) ==
    /\ Standing(req[d].w) = {} /\ req[d].no <= asked
    /\ \A x \in docs : x.issue # req[d].no
    /\ \A e \in Busy({"issue"}) \ {d} : req[e].w # req[d].w /\ req[e].no # req[d].no

\* ... and a credit note under way is alone on its document, which still stands.
CreditAlone(d) ==
    /\ req[d].doc \in docs /\ ~req[d].doc.credited
    /\ \A e \in Busy({"credit"}) : req[e].doc = req[d].doc => e = d

Documents ==
    /\ \A x, y \in docs : x.issue = y.issue /\ x.kind = y.kind => x = y
    /\ \A x \in docs : x.issue <= asked
    /\ \A d \in Busy({"issue"}) : IssueAlone(d)
    /\ \A d \in Busy({"credit"}) : CreditAlone(d)
    /\ InvoicedOnce

\* Where no refund met another, one at most is under way and there is money for it; ...
RefundsFit(w) ==
    /\ given[w] <= paid[w]
    /\ \A d \in Busy({"refund"}) : req[d].w = w =>
           /\ given[w] < paid[w]
           /\ \A e \in Busy({"refund"}) : req[e].w = w => e = d

\* ... and the same of charges to the account.
ChargesFit ==
    /\ account <= Limit /\ Busy({"settle"}) = {}
    /\ \A d \in Busy({"charge"}) : account < Limit /\ \A e \in Busy({"charge"}) : e = d

Limits == /\ \A w \in Windows \ raced : RefundsFit(w)
          /\ Nowhere \notin raced => ChargesFit

IInv == TypeOK /\ Closings /\ Documents /\ Limits

-----------------------------------------------------------------------------
(* What a request of each kind is made of.                                 *)

LEMMA RequestType ==
    ASSUME NEW x \in Request
    PROVE  /\ x.op = "idle" <=> x = Idle
           /\ x.op \in OnWindow \cup {"routed", "issue"} => x.w \in Windows
           /\ x.op \in {"routed", "void", "strike"} => x.c \in Charges
           /\ x.op = "transfer" => x.cs \subseteq Charges
           /\ x.op = "settle" => x.sum \in Nat
           /\ x.op \in {"count", "close"} =>
                  /\ x \in [op : {"count", "close"}, w : Windows, lines : Nat, drift : Int]
                  /\ x.lines \in Nat /\ x.drift \in Int
           /\ x.op = "issue" => x.lines \subseteq Charges /\ x.no \in 1 .. MaxRequests
           /\ x.op = "credit" => x.doc \in Doc
           /\ x.op \in OnWindow \cup {"idle", "routed", "void", "strike", "issue", "credit"}
BY DEF Request, Idle, OnWindow

LEMMA LinesType ==
    ASSUME NEW w
    PROVE  /\ IsFiniteSet(Lines(w)) /\ Cardinality(Lines(w)) \in Nat
           /\ IsFiniteSet(Lines(w)') /\ Cardinality(Lines(w))' \in Nat
<1>1. IsFiniteSet(Charges)
    BY BillsAssumption
<1>2. Lines(w) \in SUBSET Charges /\ Lines(w)' \in SUBSET Charges
    BY DEF Lines
<1>3. IsFiniteSet(Lines(w)) /\ IsFiniteSet(Lines(w)')
    BY <1>1, <1>2, FS_Subset
<1> QED
    BY <1>3, FS_CardinalityType

LEMMA BalanceType ==
    ASSUME TypeOK, NEW w \in Windows
    PROVE  Balance(w) \in Int
BY LinesType DEF TypeOK, Balance

-----------------------------------------------------------------------------
(* Steps that only read.                                                   *)

LEMMA ReadsTypes ==
    ASSUME TypeOK, NEW d \in Desks, NEW x \in Request, Reads(d, x),
           asked' \in 0 .. MaxRequests, raced' \subseteq Windows \cup {Nowhere}
    PROVE  /\ TypeOK' /\ req'[d] = x /\ \A e \in Desks \ {d} : req'[e] = req[e]
BY DEF TypeOK, Reads

LEMMA ReadsClosings ==
    ASSUME TypeOK, Closings, NEW d \in Desks, NEW x \in Request, Reads(d, x),
           Known(d, x), Counted(x),
           x.op = "routed" => \A e \in Busy({"routed"}) \ {d} : req[e].c # x.c
    PROVE  Closings'
<1>1. req'[d] = x /\ \A e \in Desks \ {d} : req'[e] = req[e]
    BY DEF TypeOK, Reads
<1>2. \A e \in Desks : Known(e, req[e])' /\ Counted(req[e])'
    <2> TAKE e \in Desks
    <2>1. Known(e, req'[e]) /\ Counted(req'[e])
        BY <1>1 DEF Closings
    <2> QED
        BY <2>1 DEF Reads, Known, Knows, Posted, InTime, Counted, Lines, Balance
<1>3. RoutedApart'
    BY <1>1 DEF Closings, RoutedApart, Busy
<1>4. ClosedOwesOnlyWhatWasUnderWay'
    BY DEF Closings, ClosedOwesOnlyWhatWasUnderWay, Reads, Balance, Lines
<1> QED
    BY <1>2, <1>3, <1>4 DEF Closings

\* No issue and no credit note begins.
LEMMA ReadsDocuments ==
    ASSUME TypeOK, Documents, NEW d \in Desks, NEW x \in Request, Reads(d, x),
           x.op \notin {"issue", "credit"}, asked <= asked', asked' \in Nat
    PROVE  Documents'
<1>1. req'[d] = x /\ \A e \in Desks \ {d} : req'[e] = req[e]
    BY DEF TypeOK, Reads
<1>2. /\ Busy({"issue"})' = Busy({"issue"}) \ {d} /\ Busy({"credit"})' = Busy({"credit"}) \ {d}
      /\ \A e \in Busy({"issue"})' \cup Busy({"credit"})' : e \in Desks \ {d} /\ req'[e] = req[e]
    BY <1>1 DEF Busy
<1>3. docs' = docs /\ asked \in Nat /\ \A y \in docs : y.issue \in Nat
    BY BillsAssumption DEF Reads, TypeOK, Doc
<1>4. \A e \in Busy({"issue"})' : IssueAlone(e)'
    <2> TAKE e \in Busy({"issue"})'
    <2>1. IssueAlone(e) /\ req'[e] = req[e] /\ req[e].no \in Nat
        <3>1. e \in Desks /\ req[e].op = "issue" /\ req'[e] = req[e] /\ e \in Busy({"issue"})
            BY <1>2 DEF Busy
        <3>2. req[e].no \in 1 .. MaxRequests
            BY <3>1, RequestType DEF TypeOK
        <3> QED
            BY <3>1, <3>2, BillsAssumption DEF Documents
    <2> QED
        BY <1>2, <1>3, <2>1 DEF IssueAlone, Standing
<1>5. \A e \in Busy({"credit"})' : CreditAlone(e)'
    BY <1>2, <1>3 DEF Documents, CreditAlone
<1> QED
    BY <1>3, <1>4, <1>5 DEF Documents, InvoicedOnce

\* No refund, charge or settlement begins.
LEMMA ReadsLimits ==
    ASSUME TypeOK, Limits, NEW d \in Desks, NEW x \in Request, Reads(d, x),
           x.op \notin {"refund", "charge", "settle"}, raced \subseteq raced'
    PROVE  Limits'
<1>1. req'[d] = x /\ \A e \in Desks \ {d} : req'[e] = req[e]
    BY DEF TypeOK, Reads
<1>2. \A ops \in {{"refund"}, {"charge"}, {"settle"}} :
          Busy(ops)' \subseteq Busy(ops) /\ \A e \in Busy(ops)' : req'[e] = req[e]
    BY <1>1 DEF Busy
<1>3. \A w \in Windows \ raced' : RefundsFit(w)'
    BY <1>2 DEF Limits, RefundsFit, Reads
<1>4. Nowhere \notin raced' => ChargesFit'
    BY <1>2 DEF Limits, ChargesFit, Reads
<1> QED
    BY <1>3, <1>4 DEF Limits

LEMMA ReadsKeeps ==
    ASSUME IInv, NEW d \in Desks, NEW x \in Request, Reads(d, x),
           asked <= asked', asked' \in 0 .. MaxRequests,
           raced \subseteq raced', raced' \subseteq Windows \cup {Nowhere},
           x.op \notin {"issue", "credit", "refund", "charge", "settle"},
           Known(d, x), Counted(x),
           x.op = "routed" => \A e \in Busy({"routed"}) \ {d} : req[e].c # x.c
    PROVE  IInv'
<1>1. asked' \in Nat
    BY BillsAssumption
<1> QED
    BY <1>1, ReadsTypes, ReadsClosings, ReadsDocuments, ReadsLimits DEF IInv

\* The request at d, and what the invariant says of it.
LEMMA AsItIs ==
    ASSUME IInv, NEW d \in Desks
    PROVE  /\ req[d] \in Request /\ Known(d, req[d]) /\ Counted(req[d])
           /\ asked \in 0 .. MaxRequests /\ asked \in Nat /\ MaxRequests \in Nat
           /\ raced \subseteq Windows \cup {Nowhere}
BY BillsAssumption DEF IInv, TypeOK, Closings

\* A request that begins is counted.
LEMMA BeginsKeeps ==
    ASSUME IInv, NEW d \in Desks, NEW x \in Request, Begins(d, x),
           x.op \notin {"issue", "credit", "refund", "charge", "settle", "count", "close"},
           Known(d, x),
           x.op = "routed" => \A e \in Busy({"routed"}) \ {d} : req[e].c # x.c
    PROVE  IInv'
<1>1. /\ Reads(d, x) /\ asked < MaxRequests /\ asked' = asked + 1 /\ raced' = raced
    BY DEF Begins
<1>2. asked' \in 0 .. MaxRequests /\ asked <= asked'
    BY <1>1, AsItIs
<1>3. Counted(x)
    BY DEF Counted
<1> QED
    BY <1>1, <1>2, <1>3, AsItIs, ReadsKeeps

LEMMA EnterKeeps == ASSUME IInv, NEW d \in Desks, NEW w \in Windows, Enter(d, w) PROVE IInv'
<1> DEFINE x == [op |-> "entered", w |-> w]
<1>1. Open(w) /\ Begins(d, x)
    BY DEF Enter
<1>2. x \in Request /\ x.op = "entered" /\ x.w = w
    BY DEF Request
<1> HIDE DEF x
<1>3. Known(d, x)
    BY <1>1, <1>2 DEF Known, InTime, Open
<1> QED
    BY <1>1, <1>2, <1>3, BeginsKeeps

LEMMA GatherKeeps ==
    ASSUME IInv, NEW d \in Desks, NEW cs \in SUBSET Charges, Gather(d, cs)
    PROVE  IInv'
<1> DEFINE x == [op |-> "transfer", w |-> req[d].w, cs |-> cs]
<1>1. /\ req[d].op = "entered" /\ \A c \in cs : Live(c) /\ Open(line[c].at)
      /\ Reads(d, x) /\ asked' = asked /\ raced' = raced
    BY DEF Gather
<1>2. req[d].w \in Windows /\ InTime(d, req[d].w)
    BY <1>1, AsItIs, RequestType DEF Known, OnWindow
<1>3. x \in Request /\ x.op = "transfer" /\ x.w = req[d].w /\ x.cs = cs
    BY <1>2 DEF Request
<1> HIDE DEF x
<1>4. Known(d, x)
    BY <1>1, <1>2, <1>3 DEF Known, Knows, Posted, InTime, Open, Live
<1>5. Counted(x)
    BY <1>3 DEF Counted
<1> QED
    BY <1>1, <1>3, <1>4, <1>5, AsItIs, ReadsKeeps

LEMMA CountKeeps == ASSUME IInv, NEW d \in Desks, Count(d) PROVE IInv'
<1> DEFINE x == [op |-> "count", w |-> req[d].w, lines |-> Cardinality(Lines(req[d].w)),
                 drift |-> 0]
<1>1. req[d].op = "entered" /\ Reads(d, x) /\ asked' = asked /\ raced' = raced
    BY DEF Count
<1>2. req[d].w \in Windows /\ InTime(d, req[d].w)
    BY <1>1, AsItIs, RequestType DEF Known, OnWindow
<1>3. /\ x \in Request /\ x.op = "count" /\ x.w = req[d].w /\ x.drift = 0
      /\ x.lines = Cardinality(Lines(req[d].w)) /\ x.lines \in Nat
    BY <1>2, LinesType DEF Request
<1> HIDE DEF x
<1>4. Known(d, x) /\ Counted(x)
    BY <1>2, <1>3 DEF Known, Counted
<1> QED
    BY <1>1, <1>3, <1>4, AsItIs, ReadsKeeps

\* The lines read and their drift, less the money there is now, are the balance there is now.
LEMMA TallyKeeps == ASSUME IInv, NEW d \in Desks, Tally(d) PROVE IInv'
<1> DEFINE x == [req[d] EXCEPT !.op = "close"]
<1>1. /\ req[d].op = "count" /\ req[d].lines - paid[req[d].w] + given[req[d].w] = 0
      /\ Reads(d, x) /\ asked' = asked /\ raced' = raced
    BY DEF Tally
<1>2. /\ req[d].w \in Windows /\ InTime(d, req[d].w)
      /\ req[d] \in [op : {"count", "close"}, w : Windows, lines : Nat, drift : Int]
      /\ Cardinality(Lines(req[d].w)) = req[d].lines + req[d].drift
    BY <1>1, AsItIs, RequestType DEF Known, OnWindow, Counted
<1>3. x \in Request /\ x.op = "close" /\ x.w = req[d].w /\ x.drift = req[d].drift
    BY <1>2 DEF Request
<1> HIDE DEF x
<1>4. paid[req[d].w] \in Nat /\ given[req[d].w] \in Nat
    BY <1>2 DEF IInv, TypeOK
<1>5. Balance(req[d].w) = req[d].drift
    <2>1. Cardinality(Lines(req[d].w)) \in Nat /\ req[d].lines \in Nat /\ req[d].drift \in Int
        BY <1>2, LinesType
    <2> QED
        BY <1>1, <1>2, <1>4, <2>1 DEF Balance
<1>6. Known(d, x) /\ Counted(x)
    BY <1>2, <1>3, <1>5 DEF Known, Counted
<1> QED
    BY <1>1, <1>3, <1>6, AsItIs, ReadsKeeps

LEMMA PostRoutedKeeps ==
    ASSUME IInv, NEW d \in Desks, NEW w \in Windows, NEW c \in Charges,
           PostNight(d, w, c) \/ PostService(d, w, c)
    PROVE  IInv'
<1> DEFINE x == [op |-> "routed", w |-> w, c |-> c]
<1>1. Unposted(c) /\ Begins(d, x)
    BY DEF PostNight, PostService, PostRouted
<1>2. x \in Request /\ x.op = "routed" /\ x.c = c
    BY DEF Request
<1> HIDE DEF x
<1>3. Known(d, x)
    BY <1>1, <1>2 DEF Known, Posted, Unposted, OnWindow
<1>4. \A e \in Busy({"routed"}) \ {d} : req[e].c # x.c
    BY <1>1, <1>2 DEF Unposted
<1> QED
    BY <1>1, <1>2, <1>3, <1>4, BeginsKeeps

LEMMA VoidKeeps ==
    ASSUME IInv, NEW d \in Desks, NEW c \in Charges, Void(d, c) \/ Strike(d, c)
    PROVE  IInv'
<1>1. CASE Void(d, c)
    <2> DEFINE x == [op |-> "void", c |-> c]
    <2>1. Live(c) /\ Open(line[c].at) /\ Begins(d, x)
        BY <1>1 DEF Void
    <2>2. x \in Request /\ x.op = "void" /\ x.c = c
        BY DEF Request
    <2> HIDE DEF x
    <2>3. Known(d, x)
        BY <2>1, <2>2 DEF Known, Knows, Posted, InTime, Open, Live, OnWindow
    <2> QED
        BY <2>1, <2>2, <2>3, BeginsKeeps
<1>2. CASE Strike(d, c)
    <2> DEFINE x == [op |-> "strike", c |-> c]
    <2>1. Begins(d, x)
        BY <1>2 DEF Strike
    <2>2. x \in Request /\ x.op = "strike"
        BY DEF Request
    <2> HIDE DEF x
    <2>3. Known(d, x)
        BY <2>2 DEF Known, OnWindow
    <2> QED
        BY <2>1, <2>2, <2>3, BeginsKeeps
<1> QED
    BY <1>1, <1>2

-----------------------------------------------------------------------------
(* Steps that read a limit, or a document.                                 *)

\* What the other two parts of the invariant ask of a request about money.
LEMMA MoneyRead ==
    ASSUME IInv, NEW d \in Desks, req[d].op = "entered", NEW x \in Request, Reads(d, x),
           x.op \in {"refund", "charge", "settle"}, x.w = req[d].w, asked' = asked,
           raced' \subseteq Windows \cup {Nowhere}
    PROVE  /\ TypeOK' /\ Closings' /\ Documents'
           /\ req'[d] = x /\ \A e \in Desks \ {d} : req'[e] = req[e]
           /\ UNCHANGED <<paid, given, account>>
<1>1. Known(d, x) /\ Counted(x)
    BY AsItIs DEF Known, Counted, OnWindow
<1>2. asked' \in Nat /\ asked' \in 0 .. MaxRequests /\ asked <= asked'
    BY AsItIs
<1>3. x.op # "routed" /\ x.op \notin {"issue", "credit"}
    OBVIOUS
<1>4. TypeOK' /\ req'[d] = x /\ \A e \in Desks \ {d} : req'[e] = req[e]
    BY <1>2, ReadsTypes DEF IInv
<1>5. Closings'
    BY <1>1, <1>3, ReadsClosings DEF IInv
<1>6. Documents'
    BY <1>2, <1>3, ReadsDocuments DEF IInv
<1> QED
    BY <1>4, <1>5, <1>6 DEF Reads

LEMMA RefundKeeps == ASSUME IInv, NEW d \in Desks, Refund(d) PROVE IInv'
<1> DEFINE x == [op |-> "refund", w |-> req[d].w]
           v == req[d].w
<1>1. /\ req[d].op = "entered" /\ Refundable(v) >= 1 /\ Reads(d, x) /\ asked' = asked
      /\ raced' = raced \cup {w \in {v} : \E e \in Busy({"refund"}) : req[e].w = w}
    BY DEF Refund
<1>2. v \in Windows
    BY <1>1, AsItIs, RequestType DEF OnWindow
<1>3. x \in Request /\ x.op = "refund" /\ x.w = v
    BY <1>2 DEF Request
<1> HIDE DEF x
<1>4. raced' \subseteq Windows \cup {Nowhere} /\ raced \subseteq raced'
    BY <1>1, <1>2, AsItIs
<1>5. /\ TypeOK' /\ Closings' /\ Documents' /\ UNCHANGED <<paid, given, account>>
      /\ req'[d] = x /\ \A e \in Desks \ {d} : req'[e] = req[e]
    BY <1>1, <1>3, <1>4, MoneyRead
<1>6. Busy({"refund"})' = Busy({"refund"}) \cup {d}
    BY <1>3, <1>5 DEF Busy
<1>7. \A w \in Windows \ raced' : RefundsFit(w)'
    <2> TAKE w \in Windows \ raced'
    <2>1. RefundsFit(w) /\ w \in Windows
        BY <1>4 DEF IInv, Limits
    <2>2. CASE w = v
        <3>1. \A e \in Busy({"refund"}) : req[e].w # v
            BY <1>1, <2>2
        <3>2. given[v] < paid[v] /\ given[v] <= paid[v]
            BY <1>1, <1>2 DEF IInv, TypeOK, Refundable
        <3> QED
            BY <1>3, <1>5, <1>6, <2>2, <3>1, <3>2 DEF RefundsFit, Busy
    <2>3. CASE w # v
        BY <1>3, <1>5, <1>6, <2>1, <2>3 DEF RefundsFit, Busy
    <2> QED
        BY <2>2, <2>3
<1>8. Nowhere \notin raced' => ChargesFit'
    <2>1. Busy({"charge"})' = Busy({"charge"}) /\ Busy({"settle"})' = Busy({"settle"})
        BY <1>1, <1>3, <1>5 DEF Busy
    <2> QED
        BY <1>4, <1>5, <2>1 DEF IInv, Limits, ChargesFit
<1> QED
    BY <1>5, <1>7, <1>8 DEF IInv, Limits

\* A charge or a settlement leaves the refunds.
LEMMA DebitReadKeepsRefunds ==
    ASSUME IInv, NEW d \in Desks, req[d].op = "entered", NEW x \in Request, Reads(d, x),
           x.op \in {"charge", "settle"}, raced \subseteq raced',
           req'[d] = x, \A e \in Desks \ {d} : req'[e] = req[e]
    PROVE  \A w \in Windows \ raced' : RefundsFit(w)'
<1>1. Busy({"refund"})' = Busy({"refund"}) /\ \A e \in Busy({"refund"}) : req'[e] = req[e]
    BY DEF Busy
<1> QED
    BY <1>1 DEF IInv, Limits, RefundsFit, Reads

LEMMA ChargeKeeps == ASSUME IInv, NEW d \in Desks, Charge(d) PROVE IInv'
<1> DEFINE x == [op |-> "charge", w |-> req[d].w]
<1>1. /\ req[d].op = "entered" /\ account + 1 <= Limit /\ Reads(d, x) /\ asked' = asked
      /\ raced' = IF Busy({"charge"}) # {} THEN raced \cup {Nowhere} ELSE raced
    BY DEF Charge
<1>2. req[d].w \in Windows
    BY <1>1, AsItIs, RequestType DEF OnWindow
<1>3. x \in Request /\ x.op = "charge" /\ x.w = req[d].w
    BY <1>2 DEF Request
<1> HIDE DEF x
<1>4. raced' \subseteq Windows \cup {Nowhere} /\ raced \subseteq raced'
    BY <1>1, AsItIs
<1>5. /\ TypeOK' /\ Closings' /\ Documents' /\ UNCHANGED <<paid, given, account>>
      /\ req'[d] = x /\ \A e \in Desks \ {d} : req'[e] = req[e]
    BY <1>1, <1>3, <1>4, MoneyRead
<1>6. \A w \in Windows \ raced' : RefundsFit(w)'
    BY <1>1, <1>3, <1>4, <1>5, DebitReadKeepsRefunds
<1>7. ASSUME Nowhere \notin raced' PROVE ChargesFit'
    <2>1. Busy({"charge"}) = {} /\ raced' = raced
        BY <1>1, <1>7
    <2>2. Busy({"charge"})' = {d} /\ Busy({"settle"})' = Busy({"settle"})
        BY <1>1, <1>3, <1>5, <2>1 DEF Busy
    <2>3. account < Limit
        BY <1>1, BillsAssumption DEF IInv, TypeOK
    <2> QED
        BY <1>5, <1>7, <2>1, <2>2, <2>3 DEF IInv, Limits, ChargesFit
<1> QED
    BY <1>5, <1>6, <1>7 DEF IInv, Limits

LEMMA SettleKeeps == ASSUME IInv, NEW d \in Desks, Settle(d) PROVE IInv'
<1> DEFINE x == [op |-> "settle", w |-> req[d].w, sum |-> Balance(req[d].w)]
<1>1. /\ req[d].op = "entered" /\ Balance(req[d].w) > 0 /\ Reads(d, x) /\ asked' = asked
      /\ raced' = raced \cup {Nowhere}
    BY DEF Settle, Owes
<1>2. req[d].w \in Windows
    BY <1>1, AsItIs, RequestType DEF OnWindow
<1>3. x \in Request /\ x.op = "settle" /\ x.w = req[d].w
    <2>1. Balance(req[d].w) \in Nat
        BY <1>1, <1>2, BalanceType DEF IInv
    <2> QED
        BY <1>2, <2>1 DEF Request
<1> HIDE DEF x
<1>4. raced' \subseteq Windows \cup {Nowhere} /\ raced \subseteq raced'
    BY <1>1, AsItIs
<1>5. /\ TypeOK' /\ Closings' /\ Documents'
      /\ req'[d] = x /\ \A e \in Desks \ {d} : req'[e] = req[e]
    BY <1>1, <1>3, <1>4, MoneyRead
<1>6. \A w \in Windows \ raced' : RefundsFit(w)'
    BY <1>1, <1>3, <1>4, <1>5, DebitReadKeepsRefunds
<1> QED
    BY <1>1, <1>5, <1>6 DEF IInv, Limits

\* An issue that begins finds the window locked by none and without a document, and takes the
\* next number.
LEMMA IssueKeeps ==
    ASSUME IInv, NEW d \in Desks, NEW w \in Windows, Issue(d, w)
    PROVE  IInv'
<1> DEFINE x == [op |-> "issue", w |-> w, lines |-> Lines(w), no |-> asked + 1]
<1>1. /\ ~Issuing(w) /\ Standing(w) = {} /\ req[d] = Idle
      /\ Reads(d, x) /\ asked < MaxRequests /\ asked' = asked + 1 /\ raced' = raced
    BY DEF Issue, Begins
<1>2. asked' \in 1 .. MaxRequests /\ asked <= asked' /\ asked' \in Nat /\ asked' \in 0 .. MaxRequests
    BY <1>1, AsItIs
<1>3. x \in Request /\ x.op = "issue" /\ x.w = w /\ x.no = asked'
    <2>1. asked + 1 \in 1 .. MaxRequests /\ Lines(w) \in SUBSET Charges
        BY <1>1, <1>2 DEF Lines
    <2> QED
        BY <1>1, <2>1 DEF Request
<1> HIDE DEF x
<1>4. Known(d, x) /\ Counted(x)
    BY <1>3 DEF Known, Counted, OnWindow
<1>5. /\ TypeOK' /\ Closings' /\ Limits'
      /\ req'[d] = x /\ \A e \in Desks \ {d} : req'[e] = req[e]
    BY <1>1, <1>2, <1>3, <1>4, AsItIs, ReadsTypes, ReadsClosings, ReadsLimits DEF IInv
<1>6. /\ docs' = docs /\ \A y \in docs : y.issue \in Nat /\ y.issue <= asked
    BY <1>1, BillsAssumption DEF IInv, Documents, TypeOK, Doc, Reads
<1>7. Busy({"issue"})' = Busy({"issue"}) \cup {d} /\ d \notin Busy({"issue"})
    BY <1>1, <1>3, <1>5 DEF Busy, Idle
<1>8. \A e \in Busy({"issue"}) : /\ e \in Desks \ {d} /\ IssueAlone(e) /\ req'[e] = req[e]
                                 /\ req[e].no \in Nat /\ req[e].no <= asked /\ req[e].w # w
    <2> TAKE e \in Busy({"issue"})
    <2>1. e \in Desks \ {d} /\ req[e].op = "issue" /\ IssueAlone(e) /\ req[e].w # w
        BY <1>1, <1>7 DEF Busy, IInv, Documents, Issuing
    <2>2. req[e].no \in 1 .. MaxRequests
        BY <2>1, AsItIs, RequestType
    <2> QED
        BY <1>5, <2>1, <2>2, AsItIs DEF IssueAlone
<1>9. \A e \in Busy({"issue"})' : IssueAlone(e)'
    <2> TAKE e \in Busy({"issue"})'
    <2>1. CASE e = d
        <3>1. \A y \in docs : y.issue # x.no /\ Standing(w)' = Standing(w)
            BY <1>1, <1>3, <1>6, AsItIs DEF Standing
        <3>2. \A a \in Busy({"issue"}) : req'[a].w # w /\ req'[a].no # x.no
            BY <1>1, <1>3, <1>8, AsItIs
        <3>3. Standing(w)' = {}
            BY <1>1, <1>6 DEF Standing
        <3> QED
            BY <1>2, <1>3, <1>5, <1>6, <1>7, <2>1, <3>1, <3>2, <3>3 DEF IssueAlone
    <2>2. CASE e # d
        <3>1. e \in Busy({"issue"})
            BY <1>7, <2>2
        <3>2. req[e].no # x.no /\ req[e].no <= asked'
            BY <1>1, <1>3, <1>8, <3>1, AsItIs
        <3>3. Standing(req[e].w)' = Standing(req[e].w)
            BY <1>6, <1>8, <3>1 DEF Standing
        <3> QED
            BY <1>3, <1>5, <1>6, <1>7, <1>8, <3>1, <3>2, <3>3 DEF IssueAlone
    <2> QED
        BY <2>1, <2>2
<1>10. \A e \in Busy({"credit"})' : CreditAlone(e)'
    <2>1. Busy({"credit"})' = Busy({"credit"}) /\ d \notin Busy({"credit"})
        BY <1>1, <1>3, <1>5 DEF Busy, Idle
    <2> QED
        BY <1>5, <1>6, <2>1 DEF IInv, Documents, CreditAlone, Busy
<1>11. Documents'
    <2>1. \A y \in docs' : y.issue <= asked'
        BY <1>1, <1>2, <1>6, AsItIs
    <2> QED
        BY <1>6, <1>9, <1>10, <2>1 DEF IInv, Documents, InvoicedOnce
<1> QED
    BY <1>5, <1>11 DEF IInv

LEMMA CreditKeeps == ASSUME IInv, NEW d \in Desks, NEW z \in docs, Credit(d, z) PROVE IInv'
<1> DEFINE x == [op |-> "credit", doc |-> z]
<1>1. /\ ~z.credited /\ \A e \in Busy({"credit"}) : req[e].doc # z
      /\ req[d] = Idle /\ Reads(d, x) /\ asked < MaxRequests /\ asked' = asked + 1
      /\ raced' = raced
    BY DEF Credit, Begins
<1>2. asked <= asked' /\ asked' \in Nat /\ asked' \in 0 .. MaxRequests
    BY <1>1, AsItIs
<1>3. x \in Request /\ x.op = "credit" /\ x.doc = z
    BY DEF Request, IInv, TypeOK
<1> HIDE DEF x
<1>4. Known(d, x) /\ Counted(x)
    BY <1>3 DEF Known, Counted, OnWindow
<1>5. /\ TypeOK' /\ Closings' /\ Limits'
      /\ req'[d] = x /\ \A e \in Desks \ {d} : req'[e] = req[e]
    BY <1>1, <1>2, <1>3, <1>4, AsItIs, ReadsTypes, ReadsClosings, ReadsLimits DEF IInv
<1>6. docs' = docs /\ \A y \in docs : y.issue \in Nat /\ y.issue <= asked
    BY <1>1, BillsAssumption DEF IInv, Documents, TypeOK, Doc, Reads
<1>7. /\ Busy({"issue"})' = Busy({"issue"}) /\ d \notin Busy({"issue"})
      /\ Busy({"credit"})' = Busy({"credit"}) \cup {d}
    BY <1>1, <1>3, <1>5 DEF Busy, Idle
<1>8. \A e \in Busy({"issue"})' : IssueAlone(e)'
    <2> TAKE e \in Busy({"issue"})'
    <2>1. e \in Desks \ {d} /\ req[e].op = "issue" /\ IssueAlone(e) /\ req'[e] = req[e]
        BY <1>5, <1>7 DEF Busy, IInv, Documents
    <2>2. req[e].no \in 1 .. MaxRequests /\ req[e].no <= asked
        BY <2>1, AsItIs, RequestType DEF IssueAlone
    <2>3. req[e].no <= asked'
        BY <1>1, <2>2, AsItIs
    <2>4. \A a \in Busy({"issue"}) : req'[a] = req[a]
        BY <1>5, <1>7 DEF Busy
    <2> QED
        BY <1>6, <1>7, <2>1, <2>3, <2>4 DEF IssueAlone, Standing
<1>9. \A e \in Busy({"credit"})' : CreditAlone(e)'
    BY <1>1, <1>3, <1>5, <1>6, <1>7 DEF IInv, Documents, CreditAlone, Busy
<1>10. Documents'
    <2>1. \A y \in docs' : y.issue <= asked'
        BY <1>1, <1>2, <1>6, AsItIs
    <2> QED
        BY <1>6, <1>8, <1>9, <2>1 DEF IInv, Documents, InvoicedOnce
<1> QED
    BY <1>5, <1>10 DEF IInv

-----------------------------------------------------------------------------
(* Steps that write: what a request that ends does to the others.          *)

Lined == [w \in Windows |-> Cardinality(Lines(w))' - Cardinality(Lines(w))]
Owed  == [w \in Windows |-> Balance(w)' - Balance(w)]

\* The request at d may change what window w owes without that being unexpected.
Expected(d, w) == d \in window[w].late \/ req[d].op \in {"routed", "strike"}

LEMMA Finished ==
    ASSUME TypeOK, NEW d \in Desks, Finish(d), line' \in [Charges -> Line],
           paid' \in [Windows -> Nat], given' \in [Windows -> Nat], account' \in Int, docs' \subseteq Doc
    PROVE  /\ TypeOK' /\ req'[d] = Idle /\ asked' = asked /\ raced' = raced
           /\ \A e \in Desks \ {d} :
                  /\ req'[e].op = req[e].op
                  /\ req[e].op \notin {"count", "close"} => req'[e] = req[e]
                  /\ req[e].op \in {"count", "close"} =>
                         /\ req'[e].w = req[e].w /\ req'[e].lines = req[e].lines
                         /\ req'[e].drift = req[e].drift + (IF req[e].op = "count" THEN Lined[req[e].w]
                                                            ELSE Owed[req[e].w])
           /\ \A w \in Windows :
                  /\ window'[w].open = window[w].open /\ window'[w].forced = window[w].forced
                  /\ ~window[w].open =>
                         /\ window'[w].drift = window[w].drift + (IF Expected(d, w) THEN Owed[w] ELSE 0)
                         /\ window'[w].late = IF d \in window[w].late /\ Owed[w] # 0
                                              THEN {e \in Desks \ {d} : req[e] # Idle}
                                              ELSE window[w].late \ {d}
<1>1. /\ req' = [e \in Desks |->
                    CASE e = d -> Idle
                      [] e # d /\ req[e].op = "count" -> [req[e] EXCEPT !.drift = @ + Lined[req[e].w]]
                      [] e # d /\ req[e].op = "close" -> [req[e] EXCEPT !.drift = @ + Owed[req[e].w]]
                      [] OTHER -> req[e]]
    <2>1. \A e \in Desks : req[e].op \in {"count", "close"} => req[e].w \in Windows
        BY RequestType DEF TypeOK, OnWindow
    <2> QED
        BY <2>1 DEF Finish, Lined, Owed
<1>2. /\ window' = [w \in Windows |->
                       IF window[w].open THEN window[w]
                       ELSE [window[w] EXCEPT
                                !.drift = IF Expected(d, w) THEN @ + Owed[w] ELSE @,
                                !.late  = IF d \in @ /\ Owed[w] # 0
                                          THEN {e \in Desks \ {d} : req[e] # Idle} ELSE @ \ {d}]]
      /\ asked' = asked /\ raced' = raced
    BY DEF Finish, Owed, Expected
<1>3. \A w \in Windows : Lined[w] \in Int /\ Owed[w] \in Int
    <2> TAKE w \in Windows
    <2>1. Lined[w] \in Int
        BY LinesType DEF Lined
    <2>2. Balance(w)' \in Int
        BY LinesType DEF Balance
    <2> QED
        BY <2>1, <2>2, BalanceType DEF Owed
<1>4. \A e \in Desks \ {d} :
          /\ req'[e] \in Request /\ req'[e].op = req[e].op
          /\ req[e].op \notin {"count", "close"} => req'[e] = req[e]
          /\ req[e].op \in {"count", "close"} =>
                 /\ req'[e].w = req[e].w /\ req'[e].lines = req[e].lines
                 /\ req'[e].drift = req[e].drift + (IF req[e].op = "count" THEN Lined[req[e].w]
                                                    ELSE Owed[req[e].w])
    <2> TAKE e \in Desks \ {d}
    <2>1. req[e] \in Request
        BY DEF TypeOK
    <2>2. CASE req[e].op \in {"count", "close"}
        <3> DEFINE n == IF req[e].op = "count" THEN Lined[req[e].w] ELSE Owed[req[e].w]
        <3>1. /\ req[e] \in [op : {"count", "close"}, w : Windows, lines : Nat, drift : Int]
              /\ req'[e] = [req[e] EXCEPT !.drift = @ + n]
            BY <1>1, <2>1, <2>2, RequestType
        <3>2. n \in Int
            BY <1>3, <3>1
        <3> HIDE DEF n
        <3>3. /\ req'[e] \in [op : {"count", "close"}, w : Windows, lines : Nat, drift : Int]
              /\ req'[e].op = req[e].op /\ req'[e].w = req[e].w /\ req'[e].lines = req[e].lines
              /\ req'[e].drift = req[e].drift + n
            BY <3>1, <3>2
        <3>4. req'[e] \in Request
            BY <3>3 DEF Request
        <3> QED
            BY <2>2, <3>3, <3>4 DEF n
    <2>3. CASE req[e].op \notin {"count", "close"}
        BY <1>1, <2>1, <2>3
    <2> QED
        BY <2>2, <2>3
<1>5. \A w \in Windows :
          /\ window'[w] \in Window
          /\ window'[w].open = window[w].open /\ window'[w].forced = window[w].forced
          /\ ~window[w].open =>
                 /\ window'[w].drift = window[w].drift + (IF Expected(d, w) THEN Owed[w] ELSE 0)
                 /\ window'[w].late = IF d \in window[w].late /\ Owed[w] # 0
                                      THEN {e \in Desks \ {d} : req[e] # Idle}
                                      ELSE window[w].late \ {d}
        <2> TAKE w \in Windows
    <2>1. window[w] \in [open : BOOLEAN, forced : BOOLEAN, drift : Int, late : SUBSET Desks]
        BY DEF TypeOK, Window
    <2>2. CASE window[w].open
        BY <1>2, <2>1, <2>2 DEF Window
    <2>3. CASE ~window[w].open
        <3> DEFINE n == window[w].drift + (IF Expected(d, w) THEN Owed[w] ELSE 0)
                   l == IF d \in window[w].late /\ Owed[w] # 0
                        THEN {e \in Desks \ {d} : req[e] # Idle} ELSE window[w].late \ {d}
        <3>1. n \in Int /\ l \in SUBSET Desks
            BY <1>3, <2>1
        <3>2. window'[w] = [window[w] EXCEPT !.drift = IF Expected(d, w) THEN @ + Owed[w] ELSE @,
                                             !.late = l]
            BY <1>2, <2>3
        <3>3. (IF Expected(d, w) THEN window[w].drift + Owed[w] ELSE window[w].drift) = n
            BY <2>1
        <3>4. window'[w] = [window[w] EXCEPT !.drift = n, !.late = l]
            BY <3>2, <3>3
        <3> HIDE DEF n, l
        <3>5. /\ window'[w] \in Window /\ window'[w].open = window[w].open
              /\ window'[w].forced = window[w].forced /\ window'[w].drift = n /\ window'[w].late = l
            BY <2>1, <3>1, <3>4 DEF Window
        <3> QED
            BY <3>5 DEF n, l
    <2> QED
        BY <2>2, <2>3
<1>6. req'[d] = Idle /\ Idle \in Request
    BY <1>1 DEF Request
<1>7. TypeOK'
    <2>1. req' \in [Desks -> Request]
        BY <1>1, <1>4, <1>6
    <2>2. window' \in [Windows -> Window]
        BY <1>2, <1>5
    <2> QED
        BY <1>2, <2>1, <2>2 DEF TypeOK
<1> QED
    BY <1>2, <1>4, <1>5, <1>6, <1>7

\* Line c is where it was, or is void, or has been moved by the request at d, to a window that is
\* open, or owes something else by that.
Followed(d, c) ==
    \/ line'[c] = line[c]
    \/ Posted(c)' /\ line'[c].void
    \/ /\ line'[c].at \in Windows
       /\ window[line'[c].at].open \/ (d \in window[line'[c].at].late /\ Owed[line'[c].at] # 0)

\* After the step, window w, if closed, knows that the request at e may still write.
NextInTime(e, w) == ~window'[w].open => e \in window'[w].late

LEMMA StillInTime ==
    ASSUME TypeOK, NEW d \in Desks, NEW w \in Windows, NEW e \in Desks \ {d}, req[e] # Idle,
           window'[w].open = window[w].open,
           ~window[w].open => window'[w].late = IF d \in window[w].late /\ Owed[w] # 0
                                                THEN {a \in Desks \ {d} : req[a] # Idle}
                                                ELSE window[w].late \ {d},
           InTime(e, w) \/ (d \in window[w].late /\ Owed[w] # 0)
    PROVE  NextInTime(e, w)
BY DEF InTime, NextInTime

LEMMA FinishClosings ==
    ASSUME IInv, NEW d \in Desks, Finish(d), line' \in [Charges -> Line],
           paid' \in [Windows -> Nat], given' \in [Windows -> Nat], account' \in Int, docs' \subseteq Doc,
           \A w \in Windows : ~window[w].open /\ Owed[w] # 0 => Expected(d, w),
           \A e \in Desks \ {d} :
               /\ req[e].op = "void" => Followed(d, req[e].c)
               /\ req[e].op = "transfer" => \A c \in req[e].cs : Followed(d, c)
               /\ req[e].op = "routed" => \A c \in {req[e].c} : ~Posted(c)'
    PROVE  Closings'
<1>1. TypeOK
    BY DEF IInv
<1>2. TypeOK' /\ req'[d] = Idle
    BY <1>1, Finished
<1>3. \A e \in Desks \ {d} :
          /\ req'[e].op = req[e].op
          /\ req[e].op \notin {"count", "close"} => req'[e] = req[e]
          /\ req[e].op \in {"count", "close"} =>
                 /\ req'[e].w = req[e].w /\ req'[e].lines = req[e].lines
                 /\ req'[e].drift = req[e].drift + (IF req[e].op = "count" THEN Lined[req[e].w]
                                                    ELSE Owed[req[e].w])
    BY <1>1, Finished
<1>4. \A w \in Windows :
          /\ window'[w].open = window[w].open /\ window'[w].forced = window[w].forced
          /\ ~window[w].open =>
                 /\ window'[w].drift = window[w].drift + (IF Expected(d, w) THEN Owed[w] ELSE 0)
                 /\ window'[w].late = IF d \in window[w].late /\ Owed[w] # 0
                                      THEN {e \in Desks \ {d} : req[e] # Idle}
                                      ELSE window[w].late \ {d}
    BY <1>1, Finished
<1>5. \A w \in Windows : Balance(w) \in Int /\ Balance(w)' \in Int /\ Balance(w)' = Balance(w) + Owed[w]
    <2> TAKE w \in Windows
    <2>1. Balance(w) \in Int
        BY <1>1, BalanceType
    <2>2. Balance(w)' \in Int
        BY <1>2, LinesType DEF Balance, TypeOK
    <2> QED
        BY <2>1, <2>2 DEF Owed
<1>6. \A e \in Desks \ {d}, w \in Windows :
          req[e] # Idle /\ (InTime(e, w) \/ (d \in window[w].late /\ Owed[w] # 0)) => NextInTime(e, w)
    BY <1>1, <1>4, StillInTime
<1>7. \A e \in Desks \ {d}, c \in Charges :
          req[e] # Idle /\ Knows(e, c) /\ Followed(d, c) => Knows(e, c)'
    <2> SUFFICES ASSUME NEW e \in Desks \ {d}, NEW c \in Charges,
                        req[e] # Idle, Knows(e, c), Followed(d, c)
                 PROVE  Knows(e, c)'
        OBVIOUS
    <2>1. CASE line'[c] = line[c]
        <3>1. line[c].at \in Windows
            BY <1>1 DEF Knows, Posted, TypeOK, Line
        <3>2. ~line[c].void => NextInTime(e, line[c].at)
            BY <1>6, <3>1 DEF Knows
        <3> QED
            BY <2>1, <3>2 DEF Knows, Posted, InTime, NextInTime
    <2>2. CASE Posted(c)' /\ line'[c].void
        BY <2>2 DEF Knows
    <2>3. CASE /\ line'[c].at \in Windows
               /\ window[line'[c].at].open \/ (d \in window[line'[c].at].late /\ Owed[line'[c].at] # 0)
        <3> DEFINE v == line'[c].at
        <3>1. v \in Windows /\ Posted(c)'
            BY <2>3, BillsAssumption DEF Posted
        <3>2. CASE window[v].open
            BY <1>4, <3>1, <3>2 DEF Knows, InTime
        <3>3. CASE d \in window[v].late /\ Owed[v] # 0
            <4>1. ~window[v].open => e \in window'[v].late
                BY <1>4, <3>1, <3>3
            <4> QED
                BY <1>4, <3>1, <4>1 DEF Knows, InTime
        <3> QED
            BY <2>3, <3>2, <3>3
    <2> QED
        BY <2>1, <2>2, <2>3 DEF Followed
<1>8. \A e \in Desks \ {d} : Known(e, req[e])'
    <2> TAKE e \in Desks \ {d}
    <2>1. req[e] \in Request /\ Known(e, req[e]) /\ (req[e].op # "idle" => req[e] # Idle)
        BY AsItIs, RequestType
    <2>2. req[e].op \in OnWindow => req'[e].w = req[e].w /\ req[e].w \in Windows
        BY <1>3, <2>1, RequestType
    <2>3. req[e].op \in OnWindow => NextInTime(e, req[e].w)
        BY <1>6, <2>1, <2>2 DEF Known, OnWindow
    <2>4. req[e].op = "void" => \A c \in {req'[e].c} : Knows(e, c)'
        <3>1. SUFFICES ASSUME req[e].op = "void" PROVE \A c \in {req'[e].c} : Knows(e, c)'
            OBVIOUS
        <3>2. req'[e] = req[e] /\ req[e].c \in Charges /\ Knows(e, req[e].c) /\ req[e] # Idle
            BY <1>3, <2>1, <3>1, RequestType DEF Known
        <3> QED
            BY <1>7, <3>1, <3>2
    <2>5. req[e].op = "transfer" => req'[e].cs = req[e].cs /\ \A c \in req[e].cs : Knows(e, c)'
        <3>1. SUFFICES ASSUME req[e].op = "transfer"
                       PROVE  req'[e].cs = req[e].cs /\ \A c \in req[e].cs : Knows(e, c)'
            OBVIOUS
        <3>2. /\ req'[e] = req[e] /\ req[e].cs \subseteq Charges /\ req[e] # Idle
              /\ \A c \in req[e].cs : Knows(e, c)
            BY <1>3, <2>1, <3>1, RequestType DEF Known
        <3> QED
            BY <1>7, <3>1, <3>2
    <2>6. req[e].op = "routed" => (\A c \in {req[e].c} : ~Posted(c)') /\ req'[e] = req[e]
        BY <1>3
    <2> QED
        BY <1>3, <2>2, <2>3, <2>4, <2>5, <2>6 DEF Known, Knows, Posted, InTime, NextInTime
<1>9. \A e \in Desks \ {d} : Counted(req[e])'
    <2> TAKE e \in Desks \ {d}
    <2>1. /\ req[e] \in Request /\ Counted(req[e])
          /\ req[e].op \in {"count", "close"} =>
                 req[e].w \in Windows /\ req[e].lines \in Nat /\ req[e].drift \in Int
        BY AsItIs, RequestType DEF OnWindow
    <2>2. CASE req[e].op = "count"
        <3> DEFINE w == req[e].w
        <3>1. /\ req'[e].op = "count" /\ req'[e].w = w /\ req'[e].lines = req[e].lines
              /\ req'[e].drift = req[e].drift + Lined[w]
            BY <1>3, <2>2
        <3>2. Cardinality(Lines(w)) = req[e].lines + req[e].drift
            BY <2>1, <2>2 DEF Counted
        <3>3. Cardinality({c \in Charges : line'[c].at = w /\ ~line'[c].void})
                  = req'[e].lines + req'[e].drift
            <4> DEFINE m == Cardinality({c \in Charges : line'[c].at = w /\ ~line'[c].void})
            <4>1. \A v \in Windows :
                      /\ Lined[v] = Cardinality({c \in Charges : line'[c].at = v /\ ~line'[c].void})
                                     - Cardinality(Lines(v))
                      /\ Cardinality({c \in Charges : line'[c].at = v /\ ~line'[c].void}) \in Nat
                      /\ Cardinality(Lines(v)) \in Nat
                BY LinesType DEF Lines, Lined
            <4> QED
                BY <2>1, <2>2, <3>1, <3>2, <4>1
        <3> QED
            BY <3>1, <3>3 DEF Counted, Lines
    <2>3. CASE req[e].op = "close"
        BY <1>3, <1>5, <2>1, <2>3 DEF Counted
    <2>4. CASE req[e].op \notin {"count", "close"}
        BY <1>3, <2>4 DEF Counted
    <2> QED
        BY <2>2, <2>3, <2>4
<1>10. RoutedApart'
    BY <1>2, <1>3 DEF IInv, Closings, RoutedApart, Busy, Idle
<1>11. ClosedOwesOnlyWhatWasUnderWay'
    <2> SUFFICES ASSUME NEW w \in Windows, ~window'[w].open, ~window'[w].forced
                 PROVE  Balance(w)' = window'[w].drift
        BY DEF ClosedOwesOnlyWhatWasUnderWay
    <2>1. ~window[w].open /\ Balance(w) = window[w].drift
        BY <1>4 DEF IInv, Closings, ClosedOwesOnlyWhatWasUnderWay
    <2>2. /\ window'[w].drift = window[w].drift + (IF Expected(d, w) THEN Owed[w] ELSE 0)
          /\ Owed[w] # 0 => Expected(d, w)
        BY <1>4, <2>1
    <2>3. Owed[w] \in Int
        BY <1>5 DEF Owed
    <2> QED
        BY <1>5, <2>1, <2>2, <2>3
<1>12. Known(d, Idle)' /\ Counted(Idle)'
    BY DEF Known, Counted, Idle, OnWindow
<1> QED
    <2>1. Known(d, req[d])' /\ Counted(req[d])'
        BY <1>2 DEF Known, Counted, Idle, OnWindow
    <2> QED
        BY <1>8, <1>9, <1>10, <1>11, <2>1 DEF Closings

LEMMA FinishDocuments ==
    ASSUME IInv, NEW d \in Desks, Finish(d), line' \in [Charges -> Line],
           paid' \in [Windows -> Nat], given' \in [Windows -> Nat], account' \in Int, docs' = docs
    PROVE  Documents'
<1>1. /\ req'[d] = Idle /\ asked' = asked
      /\ \A e \in Desks \ {d} : /\ req'[e].op = req[e].op
                                /\ req[e].op \notin {"count", "close"} => req'[e] = req[e]
    BY Finished DEF IInv, TypeOK
<1>2. \A ops \in {{"issue"}, {"credit"}} :
          Busy(ops)' \subseteq Busy(ops) /\ \A e \in Busy(ops)' : req'[e] = req[e]
    BY <1>1 DEF Busy, Idle
<1>3. \A e \in Busy({"issue"})' : IssueAlone(e)'
    <2> TAKE e \in Busy({"issue"})'
    <2>1. e \in Busy({"issue"}) /\ IssueAlone(e) /\ req'[e] = req[e]
        BY <1>2 DEF IInv, Documents
    <2> QED
        BY <1>1, <1>2, <2>1 DEF IssueAlone, Standing
<1>4. \A e \in Busy({"credit"})' : CreditAlone(e)'
    BY <1>2 DEF IInv, Documents, CreditAlone
<1> QED
    BY <1>1, <1>3, <1>4 DEF IInv, Documents, InvoicedOnce

LEMMA FinishLimits ==
    ASSUME IInv, NEW d \in Desks, Finish(d), line' \in [Charges -> Line],
           paid' \in [Windows -> Nat], given' = given, account' = account, docs' \subseteq Doc,
           \A w \in Windows : paid[w] <= paid'[w]
    PROVE  Limits'
<1>1. /\ req'[d] = Idle /\ raced' = raced
      /\ \A e \in Desks \ {d} : /\ req'[e].op = req[e].op
                                /\ req[e].op \notin {"count", "close"} => req'[e] = req[e]
    BY Finished DEF IInv, TypeOK
<1>2. \A ops \in {{"refund"}, {"charge"}, {"settle"}} :
          Busy(ops)' \subseteq Busy(ops) /\ \A e \in Busy(ops)' : req'[e] = req[e]
    BY <1>1 DEF Busy, Idle
<1>3. \A w \in Windows \ raced' : RefundsFit(w)'
    <2> TAKE w \in Windows \ raced'
    <2>1. RefundsFit(w) /\ paid[w] \in Nat /\ given[w] \in Nat /\ paid'[w] \in Nat
        BY <1>1 DEF IInv, TypeOK, Limits
    <2>2. given'[w] = given[w] /\ paid[w] <= paid'[w]
        OBVIOUS
    <2>3. given'[w] <= paid'[w] /\ (given[w] < paid[w] => given'[w] < paid'[w])
        BY <2>1, <2>2 DEF RefundsFit
    <2> QED
        BY <1>2, <2>1, <2>3 DEF RefundsFit
<1>4. Nowhere \notin raced' => ChargesFit'
    BY <1>1, <1>2 DEF IInv, Limits, ChargesFit
<1> QED
    BY <1>3, <1>4 DEF Limits

-----------------------------------------------------------------------------
(* Steps that write lines.                                                 *)

\* A window whose lines and money stay owes what it owed.
LEMMA SameOwed ==
    ASSUME IInv, NEW w \in Windows, Lines(w)' = Lines(w), paid'[w] = paid[w], given'[w] = given[w]
    PROVE  Owed[w] = 0
BY BalanceType DEF IInv, Owed, Balance

\* So may the line itself stay, and so do the invariant's other parts: lines are not their matter.
LEMMA LineWritten ==
    ASSUME IInv, NEW d \in Desks, Finish(d), line' \in [Charges -> Line],
           UNCHANGED <<paid, given, account, docs>>, Closings'
    PROVE  IInv'
<1>1. /\ TypeOK /\ paid' \in [Windows -> Nat] /\ given' \in [Windows -> Nat] /\ account' \in Int
      /\ docs' \subseteq Doc /\ \A w \in Windows : paid[w] <= paid'[w]
    BY DEF IInv, TypeOK
<1>2. TypeOK'
    BY <1>1, Finished
<1>3. Documents'
    BY <1>1, FinishDocuments
<1>4. Limits'
    BY <1>1, FinishLimits
<1> QED
    BY <1>2, <1>3, <1>4 DEF IInv

LEMMA WriteLineKeeps ==
    ASSUME IInv, NEW d \in Desks, NEW c \in Charges, WriteLine(d, c)
    PROVE  IInv'
<1> DEFINE v == req[d].w
<1>1. /\ \/ req[d].op = "entered" /\ Unposted(c)
         \/ req[d].op = "routed" /\ req[d].c = c
      /\ line' = Moved({c}, v) /\ UNCHANGED <<paid, given, account, docs>> /\ Finish(d)
    BY DEF WriteLine
<1>2. v \in Windows /\ (req[d].op = "entered" => InTime(d, v))
    BY <1>1, AsItIs, RequestType DEF Known, OnWindow
<1>3. ~Posted(c)
    BY <1>1, AsItIs DEF Known, Posted, Unposted
<1>4. /\ line' \in [Charges -> Line] /\ line'[c].at = v
      /\ \A a \in Charges \ {c} : line'[a] = line[a]
    BY <1>1, <1>2 DEF Moved, IInv, TypeOK, Line
<1> HIDE DEF v
<1>5. \A w \in Windows : ~window[w].open /\ Owed[w] # 0 => Expected(d, w)
    <2> SUFFICES ASSUME NEW w \in Windows, ~window[w].open, Owed[w] # 0
                 PROVE  Expected(d, w)
        OBVIOUS
    <2>1. CASE w = v
        BY <1>1, <1>2, <2>1 DEF Expected, InTime
    <2>2. CASE w # v
        <3>1. Lines(w)' = Lines(w)
            BY <1>3, <1>4, <2>2, BillsAssumption DEF Lines, Posted
        <3> QED
            BY <1>1, <3>1, SameOwed
    <2> QED
        BY <2>1, <2>2
<1>6. \A e \in Desks \ {d} :
          /\ req[e].op = "void" => Followed(d, req[e].c)
          /\ req[e].op = "transfer" => \A a \in req[e].cs : Followed(d, a)
          /\ req[e].op = "routed" => \A a \in {req[e].c} : ~Posted(a)'
    <2> TAKE e \in Desks \ {d}
    <2>1. req[e] \in Request /\ Known(e, req[e])
        BY AsItIs
    <2>2. \A a \in Charges : Posted(a) => line'[a] = line[a]
        BY <1>3, <1>4
    <2>3. req[e].op = "routed" => req[e].c \in Charges \ {c} /\ ~Posted(req[e].c)
        <3>1. SUFFICES ASSUME req[e].op = "routed" PROVE req[e].c \in Charges \ {c} /\ ~Posted(req[e].c)
            OBVIOUS
        <3>2. req[e].c \in Charges /\ ~Posted(req[e].c)
            BY <2>1, <3>1, RequestType DEF Known
        <3>3. req[e].c # c
            BY <1>1, <3>1 DEF Unposted, IInv, Closings, RoutedApart, Busy
        <3> QED
            BY <3>2, <3>3
    <2>4. req[e].op = "void" => req[e].c \in Charges /\ Posted(req[e].c)
        BY <2>1, RequestType DEF Known, Knows
    <2>5. req[e].op = "transfer" => req[e].cs \subseteq Charges /\ \A a \in req[e].cs : Posted(a)
        BY <2>1, RequestType DEF Known, Knows
    <2>6. \A a \in Charges : line'[a] = line[a] => Followed(d, a) /\ (Posted(a)' <=> Posted(a))
        BY DEF Followed, Posted
    <2> QED
        BY <1>4, <2>2, <2>3, <2>4, <2>5, <2>6
<1>7. Closings'
    <2>1. /\ paid' \in [Windows -> Nat] /\ given' \in [Windows -> Nat] /\ account' \in Int
          /\ docs' \subseteq Doc
        BY <1>1 DEF IInv, TypeOK
    <2> QED
        BY <1>1, <1>4, <1>5, <1>6, <2>1, FinishClosings
<1> QED
    BY <1>1, <1>4, <1>7, LineWritten

LEMMA WriteVoidKeeps == ASSUME IInv, NEW d \in Desks, WriteVoid(d) PROVE IInv'
<1> DEFINE c == req[d].c
<1>1. /\ req[d].op \in {"void", "strike"} /\ line' = [line EXCEPT ![c].void = TRUE]
      /\ UNCHANGED <<paid, given, account, docs>> /\ Finish(d)
    BY DEF WriteVoid
<1>2. c \in Charges /\ (req[d].op = "void" => Knows(d, c))
    BY <1>1, AsItIs, RequestType DEF Known
<1>3. /\ line' \in [Charges -> Line] /\ line'[c].at = line[c].at /\ line'[c].void
      /\ line[c] \in Line /\ \A a \in Charges \ {c} : line'[a] = line[a]
    BY <1>1, <1>2 DEF IInv, TypeOK, Line
<1> HIDE DEF c
<1>4. \A w \in Windows : ~window[w].open /\ Owed[w] # 0 => Expected(d, w)
    <2> SUFFICES ASSUME NEW w \in Windows, ~window[w].open, Owed[w] # 0
                 PROVE  Expected(d, w)
        OBVIOUS
    <2>1. CASE line[c].at = w /\ ~line[c].void
        BY <1>1, <1>2, <2>1 DEF Expected, Knows, InTime
    <2>2. CASE line[c].at # w \/ line[c].void
        <3>1. Lines(w)' = Lines(w)
            BY <1>3, <2>2 DEF Lines
        <3> QED
            BY <1>1, <3>1, SameOwed
    <2> QED
        BY <2>1, <2>2
<1>5. \A e \in Desks \ {d} :
          /\ req[e].op = "void" => Followed(d, req[e].c)
          /\ req[e].op = "transfer" => \A a \in req[e].cs : Followed(d, a)
          /\ req[e].op = "routed" => \A a \in {req[e].c} : ~Posted(a)'
    <2> TAKE e \in Desks \ {d}
    <2>1. req[e] \in Request /\ Known(e, req[e])
        BY AsItIs
    <2>2. \A a \in Charges : /\ Posted(a)' <=> Posted(a)
                             /\ Posted(a) => Followed(d, a)
        BY <1>3 DEF Followed, Posted
    <2>3. /\ req[e].op \in {"void", "routed"} => req[e].c \in Charges
          /\ req[e].op = "void" => Posted(req[e].c)
          /\ req[e].op = "routed" => ~Posted(req[e].c)
        BY <2>1, RequestType DEF Known, Knows
    <2>4. req[e].op = "transfer" => req[e].cs \subseteq Charges /\ \A a \in req[e].cs : Posted(a)
        BY <2>1, RequestType DEF Known, Knows
    <2> QED
        BY <2>2, <2>3, <2>4
<1>6. Closings'
    <2>1. /\ paid' \in [Windows -> Nat] /\ given' \in [Windows -> Nat] /\ account' \in Int
          /\ docs' \subseteq Doc
        BY <1>1 DEF IInv, TypeOK
    <2> QED
        BY <1>1, <1>3, <1>4, <1>5, <2>1, FinishClosings
<1> QED
    BY <1>1, <1>3, <1>6, LineWritten

LEMMA WriteTransferKeeps == ASSUME IInv, NEW d \in Desks, WriteTransfer(d) PROVE IInv'
<1> DEFINE v  == req[d].w
           cs == req[d].cs
<1>1. /\ req[d].op = "transfer" /\ line' = Moved(cs, v)
      /\ UNCHANGED <<paid, given, account, docs>> /\ Finish(d)
    BY DEF WriteTransfer
<1>2. /\ v \in Windows /\ InTime(d, v)
      /\ cs \subseteq Charges /\ \A c \in cs : Knows(d, c)
    BY <1>1, AsItIs, RequestType DEF Known, OnWindow
<1>3. /\ line' \in [Charges -> Line] /\ \A c \in Charges : line[c] \in Line
      /\ \A c \in cs : line'[c].at = v /\ line'[c].void = line[c].void
      /\ \A c \in cs : line[c].at = v => line'[c] = line[c]
      /\ \A c \in Charges \ cs : line'[c] = line[c]
    BY <1>1, <1>2 DEF Moved, IInv, TypeOK, Line
<1> HIDE DEF v, cs
<1>4. \A w \in Windows : ~window[w].open /\ Owed[w] # 0 => Expected(d, w)
    <2> SUFFICES ASSUME NEW w \in Windows, ~window[w].open, Owed[w] # 0
                 PROVE  Expected(d, w)
        OBVIOUS
    <2>1. CASE w = v
        BY <1>2, <2>1 DEF Expected, InTime
    <2>2. CASE w # v /\ \E c \in cs : line[c].at = w /\ ~line[c].void
        BY <1>2, <2>2 DEF Expected, Knows, InTime
    <2>3. CASE w # v /\ \A c \in cs : line[c].at = w => line[c].void
        <3>1. Lines(w)' = Lines(w)
            BY <1>2, <1>3, <2>3 DEF Lines
        <3> QED
            BY <1>1, <3>1, SameOwed
    <2> QED
        BY <2>1, <2>2, <2>3
\* A line in force that comes to v makes it owe more: nothing leaves v.
<1>5. ASSUME NEW w \in Windows, w = v, NEW c \in cs, ~line[c].void, line[c].at # w
      PROVE  Owed[w] # 0
    <2>1. Lines(w) \subseteq Lines(w)' /\ c \in Lines(w)' /\ c \notin Lines(w)
        BY <1>2, <1>3, <1>5 DEF Lines
    <2>2. IsFiniteSet(Lines(w)') /\ Cardinality(Lines(w)) \in Nat /\ Cardinality(Lines(w)') \in Nat
        BY LinesType
    <2>3. /\ Cardinality(Lines(w)) <= Cardinality(Lines(w)')
          /\ Cardinality(Lines(w)) = Cardinality(Lines(w)') => Lines(w) = Lines(w)'
        BY <2>1, <2>2, FS_Subset
    <2>4. Cardinality(Lines(w)) < Cardinality(Lines(w)')
        BY <2>1, <2>2, <2>3
    <2> QED
        BY <1>1, <1>2, <2>2, <2>4 DEF Owed, Balance, IInv, TypeOK
<1>6. \A e \in Desks \ {d} :
          /\ req[e].op = "void" => Followed(d, req[e].c)
          /\ req[e].op = "transfer" => \A a \in req[e].cs : Followed(d, a)
          /\ req[e].op = "routed" => \A a \in {req[e].c} : ~Posted(a)'
    <2> TAKE e \in Desks \ {d}
    <2>1. req[e] \in Request /\ Known(e, req[e])
        BY AsItIs
    <2>2. \A a \in Charges : Posted(a) => Followed(d, a)
        <3> TAKE a \in Charges
        <3>1. CASE a \notin cs \/ line[a].at = v
            BY <1>3, <3>1 DEF Followed
        <3>2. CASE a \in cs /\ line[a].at # v /\ ~line[a].void
            <4>1. Owed[v] # 0 /\ line'[a].at = v
                BY <1>2, <1>3, <1>5, <3>2
            <4> QED
                BY <1>2, <4>1 DEF Followed, InTime
        <3>3. CASE a \in cs /\ line[a].void
            BY <1>2, <1>3, <3>3, BillsAssumption DEF Followed, Posted
        <3> QED
            BY <3>1, <3>2, <3>3
    <2>3. \A a \in Charges : ~Posted(a) => ~Posted(a)'
        BY <1>2, <1>3 DEF Knows, Posted
    <2>4. /\ req[e].op \in {"void", "routed"} => req[e].c \in Charges
          /\ req[e].op = "void" => Posted(req[e].c)
          /\ req[e].op = "routed" => ~Posted(req[e].c)
        BY <2>1, RequestType DEF Known, Knows
    <2>5. req[e].op = "transfer" => req[e].cs \subseteq Charges /\ \A a \in req[e].cs : Posted(a)
        BY <2>1, RequestType DEF Known, Knows
    <2> QED
        BY <2>2, <2>3, <2>4, <2>5
<1>7. Closings'
    <2>1. /\ paid' \in [Windows -> Nat] /\ given' \in [Windows -> Nat] /\ account' \in Int
          /\ docs' \subseteq Doc
        BY <1>1 DEF IInv, TypeOK
    <2> QED
        BY <1>1, <1>3, <1>4, <1>6, <2>1, FinishClosings
<1> QED
    BY <1>1, <1>3, <1>7, LineWritten

-----------------------------------------------------------------------------
(* Steps that write money.                                                 *)

\* Lines stay; the window of the request may owe something else.
LEMMA MoneyClosings ==
    ASSUME IInv, NEW d \in Desks, Finish(d), line' = line,
           paid' \in [Windows -> Nat], given' \in [Windows -> Nat], account' \in Int, docs' \subseteq Doc,
           \A w \in Windows : \/ paid'[w] = paid[w] /\ given'[w] = given[w]
                              \/ req[d].op \in OnWindow /\ w = req[d].w
    PROVE  Closings'
<1>1. \A w \in Windows : ~window[w].open /\ Owed[w] # 0 => Expected(d, w)
    <2> SUFFICES ASSUME NEW w \in Windows, ~window[w].open, Owed[w] # 0
                 PROVE  Expected(d, w)
        OBVIOUS
    <2>1. CASE paid'[w] = paid[w] /\ given'[w] = given[w]
        <3>1. Lines(w)' = Lines(w)
            BY DEF Lines
        <3> QED
            BY <2>1, <3>1, SameOwed
    <2>2. CASE req[d].op \in OnWindow /\ w = req[d].w
        BY <2>2, AsItIs DEF Known, InTime, Expected
    <2> QED
        BY <2>1, <2>2
<1>2. \A e \in Desks \ {d} :
          /\ req[e].op = "void" => Followed(d, req[e].c)
          /\ req[e].op = "transfer" => \A c \in req[e].cs : Followed(d, c)
          /\ req[e].op = "routed" => \A c \in {req[e].c} : ~Posted(c)'
    <2> TAKE e \in Desks \ {d}
    <2>1. \A c : Followed(d, c) /\ (Posted(c)' <=> Posted(c))
        BY DEF Followed, Posted
    <2>2. req[e].op = "routed" => ~Posted(req[e].c)
        BY AsItIs DEF Known
    <2> QED
        BY <2>1, <2>2
<1>3. line' \in [Charges -> Line]
    BY DEF IInv, TypeOK
<1> QED
    BY <1>1, <1>2, <1>3, FinishClosings

LEMMA WritePaymentKeeps == ASSUME IInv, NEW d \in Desks, WritePayment(d) PROVE IInv'
<1> DEFINE v == req[d].w
<1>1. /\ req[d].op = "entered" /\ paid' = Plus(paid, v, 1)
      /\ UNCHANGED <<line, given, account, docs>> /\ Finish(d)
    BY DEF WritePayment
<1>2. req[d].op \in OnWindow /\ v \in Windows
    BY <1>1, AsItIs, RequestType DEF OnWindow
<1>3. /\ paid' \in [Windows -> Nat]
      /\ \A w \in Windows : paid[w] <= paid'[w] /\ (w # v => paid'[w] = paid[w])
    BY <1>1, <1>2 DEF Plus, IInv, TypeOK
<1>4. /\ TypeOK /\ line' \in [Charges -> Line] /\ given' \in [Windows -> Nat] /\ account' \in Int
      /\ docs' \subseteq Doc
    BY <1>1 DEF IInv, TypeOK
<1>5. Closings'
    BY <1>1, <1>2, <1>3, <1>4, MoneyClosings
<1>6. TypeOK' /\ Documents' /\ Limits'
    BY <1>1, <1>3, <1>4, Finished, FinishDocuments, FinishLimits
<1> QED
    BY <1>5, <1>6 DEF IInv

\* The refund a request has found the money for, if none met it, is within what is paid.
LEMMA WriteRefundKeeps == ASSUME IInv, NEW d \in Desks, WriteRefund(d) PROVE IInv'
<1> DEFINE v == req[d].w
<1>1. /\ req[d].op = "refund" /\ given' = Plus(given, v, 1)
      /\ UNCHANGED <<line, paid, account, docs>> /\ Finish(d)
    BY DEF WriteRefund
<1>2. req[d].op \in OnWindow /\ v \in Windows
    BY <1>1, AsItIs, RequestType DEF OnWindow
<1>3. /\ given' \in [Windows -> Nat] /\ given'[v] = given[v] + 1
      /\ \A w \in Windows : w # v => given'[w] = given[w]
    BY <1>1, <1>2 DEF Plus, IInv, TypeOK
<1>4. /\ TypeOK /\ line' \in [Charges -> Line] /\ paid' \in [Windows -> Nat] /\ account' \in Int
      /\ docs' \subseteq Doc
    BY <1>1 DEF IInv, TypeOK
<1>5. Closings'
    BY <1>1, <1>2, <1>3, <1>4, MoneyClosings
<1>6. TypeOK' /\ Documents'
    BY <1>1, <1>3, <1>4, Finished, FinishDocuments
<1>7. /\ req'[d] = Idle /\ raced' = raced
      /\ \A e \in Desks \ {d} : /\ req'[e].op = req[e].op
                                /\ req[e].op \notin {"count", "close"} => req'[e] = req[e]
    BY <1>1, <1>3, <1>4, Finished
<1>8. \A ops \in {{"refund"}, {"charge"}, {"settle"}} :
          /\ Busy(ops)' \subseteq Busy(ops) \ {d}
          /\ \A e \in Busy(ops)' : req'[e] = req[e]
    BY <1>7 DEF Busy, Idle
<1>9. \A w \in Windows \ raced' : RefundsFit(w)'
    <2> TAKE w \in Windows \ raced'
    <2>1. RefundsFit(w) /\ d \in Busy({"refund"})
        BY <1>1, <1>7 DEF IInv, Limits, Busy
    <2>2. CASE w = v
        <3>1. given[v] < paid[v] /\ \A e \in Busy({"refund"}) : req[e].w = v => e = d
            BY <2>1, <2>2 DEF RefundsFit
        <3>2. given'[v] <= paid'[v]
            BY <1>1, <1>2, <1>3, <3>1 DEF IInv, TypeOK
        <3> QED
            BY <1>8, <2>2, <3>1, <3>2 DEF RefundsFit
    <2>3. CASE w # v
        BY <1>1, <1>3, <1>8, <2>1, <2>3 DEF RefundsFit
    <2> QED
        BY <2>2, <2>3
<1>10. Nowhere \notin raced' => ChargesFit'
    BY <1>1, <1>7, <1>8 DEF IInv, Limits, ChargesFit
<1> QED
    BY <1>5, <1>6, <1>9, <1>10 DEF IInv, Limits

LEMMA WriteDebitKeeps == ASSUME IInv, NEW d \in Desks, WriteDebit(d) PROVE IInv'
<1> DEFINE v == req[d].w
           n == IF req[d].op = "settle" THEN req[d].sum ELSE 1
<1>1. /\ req[d].op \in {"charge", "settle"} /\ paid' = Plus(paid, v, n) /\ account' = account + n
      /\ UNCHANGED <<line, given, docs>> /\ Finish(d)
    BY DEF WriteDebit
<1>2. req[d].op \in OnWindow /\ v \in Windows /\ n \in Nat /\ (req[d].op = "charge" => n = 1)
    BY <1>1, AsItIs, RequestType DEF OnWindow
<1> HIDE DEF n
<1>3. /\ paid' \in [Windows -> Nat]
      /\ \A w \in Windows : paid[w] <= paid'[w] /\ (w # v => paid'[w] = paid[w])
    BY <1>1, <1>2 DEF Plus, IInv, TypeOK
<1>4. /\ TypeOK /\ line' \in [Charges -> Line] /\ given' \in [Windows -> Nat] /\ account' \in Int
      /\ docs' \subseteq Doc
    BY <1>1, <1>2 DEF IInv, TypeOK
<1>5. Closings'
    BY <1>1, <1>2, <1>3, <1>4, MoneyClosings
<1>6. TypeOK' /\ Documents'
    BY <1>1, <1>3, <1>4, Finished, FinishDocuments
<1>7. /\ req'[d] = Idle /\ raced' = raced
      /\ \A e \in Desks \ {d} : /\ req'[e].op = req[e].op
                                /\ req[e].op \notin {"count", "close"} => req'[e] = req[e]
    BY <1>1, <1>3, <1>4, Finished
<1>8. \A ops \in {{"refund"}, {"charge"}, {"settle"}} :
          /\ Busy(ops)' \subseteq Busy(ops) \ {d}
          /\ \A e \in Busy(ops)' : req'[e] = req[e]
    BY <1>7 DEF Busy, Idle
<1>9. \A w \in Windows \ raced' : RefundsFit(w)'
    <2> TAKE w \in Windows \ raced'
    <2>1. RefundsFit(w) /\ paid[w] \in Nat /\ given[w] \in Nat /\ paid'[w] \in Nat /\ given'[w] = given[w]
        BY <1>1, <1>3, <1>7 DEF IInv, TypeOK, Limits
    <2>2. given'[w] <= paid'[w] /\ (given[w] < paid[w] => given'[w] < paid'[w])
        BY <1>3, <2>1 DEF RefundsFit
    <2> QED
        BY <1>8, <2>1, <2>2 DEF RefundsFit
<1>10. ASSUME Nowhere \notin raced' PROVE ChargesFit'
    <2>1. ChargesFit /\ d \in Desks
        BY <1>7, <1>10 DEF IInv, Limits
    <2>2. d \in Busy({"charge"})
        BY <1>1, <2>1 DEF ChargesFit, Busy
    <2>3. account < Limit /\ \A e \in Busy({"charge"}) : e = d
        BY <2>1, <2>2 DEF ChargesFit
    <2>4. account' <= Limit
        <3>1. req[d].op = "charge"
            BY <2>2 DEF Busy
        <3> QED
            BY <1>1, <1>2, <1>4, <2>3, <3>1, BillsAssumption DEF TypeOK
    <2>5. Busy({"charge"})' = {} /\ Busy({"settle"})' = {}
        BY <1>8, <2>1, <2>3 DEF ChargesFit
    <2> QED
        BY <2>4, <2>5 DEF ChargesFit
<1> QED
    BY <1>5, <1>6, <1>9, <1>10 DEF IInv, Limits

\* A request that ends without a trace.
LEMMA RollbackKeeps == ASSUME IInv, NEW d \in Desks, Rollback(d) PROVE IInv'
<1>1. UNCHANGED <<line, paid, given, account, docs>> /\ Finish(d)
    BY DEF Rollback
<1>2. /\ TypeOK /\ line' \in [Charges -> Line] /\ paid' \in [Windows -> Nat]
      /\ given' \in [Windows -> Nat] /\ account' \in Int /\ docs' \subseteq Doc
    BY <1>1 DEF IInv, TypeOK
<1>3. Closings'
    BY <1>1, <1>2, MoneyClosings
<1> QED
    BY <1>1, <1>2, <1>3, LineWritten

\* The company pays.
LEMMA SettleLedgerKeeps == ASSUME IInv, SettleLedger PROVE IInv'
<1>1. /\ account' = account - 1 /\ account \in Int
      /\ UNCHANGED <<window, line, paid, given, docs, req, asked, raced>>
    BY DEF SettleLedger, IInv, TypeOK
<1>2. TypeOK'
    BY <1>1 DEF IInv, TypeOK
<1>3. Closings'
    BY <1>1 DEF IInv, Closings, Known, Knows, InTime, Posted, Counted, RoutedApart, Busy,
                ClosedOwesOnlyWhatWasUnderWay, Balance, Lines
<1>4. Documents'
    BY <1>1 DEF IInv, Documents, IssueAlone, CreditAlone, Busy, Standing, InvoicedOnce
<1>5. Limits'
    <2>1. \A w \in Windows \ raced' : RefundsFit(w)'
        BY <1>1 DEF IInv, Limits, RefundsFit, Busy
    <2>2. Nowhere \notin raced => ChargesFit'
        BY <1>1, BillsAssumption DEF IInv, Limits, ChargesFit, Busy
    <2> QED
        BY <1>1, <2>1, <2>2 DEF Limits
<1> QED
    BY <1>2, <1>3, <1>4, <1>5 DEF IInv

-----------------------------------------------------------------------------
(* Closing a window.                                                       *)

LEMMA WriteCloseKeeps ==
    ASSUME IInv, NEW d \in Desks, NEW forced \in BOOLEAN, WriteClose(d, forced)
    PROVE  IInv'
<1> DEFINE v == req[d].w
           x == [open |-> FALSE, forced |-> forced,
                 drift |-> IF req[d].op = "close" THEN req[d].drift ELSE 0,
                 late |-> {e \in Desks \ {d} : req[e] # Idle}]
<1>1. /\ req[d].op = (IF forced THEN "entered" ELSE "close") /\ window' = [window EXCEPT ![v] = x]
      /\ req' = [req EXCEPT ![d] = Idle]
      /\ UNCHANGED <<line, paid, given, account, docs, asked, raced>>
    BY DEF WriteClose
<1>2. v \in Windows /\ (req[d].op = "close" => req[d].drift \in Int) /\ Counted(req[d])
    BY <1>1, AsItIs, RequestType DEF OnWindow
<1>3. /\ x \in Window /\ ~x.open /\ x.forced = forced
      /\ x.late = {e \in Desks \ {d} : req[e] # Idle}
      /\ ~forced => x.drift = Balance(v)
    BY <1>1, <1>2 DEF Window, Counted
<1> HIDE DEF x, v
<1>4. /\ TypeOK' /\ req'[d] = Idle /\ \A e \in Desks \ {d} : req'[e] = req[e]
      /\ window'[v] = x /\ \A w \in Windows \ {v} : window'[w] = window[w]
    <2>1. Idle \in Request
        BY DEF Request
    <2> QED
        BY <1>1, <1>2, <1>3, <2>1 DEF IInv, TypeOK
<1>5. \A e \in Desks \ {d}, w \in Windows : InTime(e, w) /\ req[e] # Idle => NextInTime(e, w)
    BY <1>3, <1>4 DEF InTime, NextInTime
<1>6. \A e \in Desks \ {d} : Known(e, req[e])' /\ Counted(req[e])'
    <2> TAKE e \in Desks \ {d}
    <2>1. /\ req[e] \in Request /\ Known(e, req[e]) /\ Counted(req[e])
          /\ req[e].op # "idle" => req[e] # Idle
        BY AsItIs, RequestType
    <2>2. req[e].op \in OnWindow => NextInTime(e, req[e].w)
        BY <1>5, <2>1, RequestType DEF Known, OnWindow
    <2>3. \A c \in Charges : Knows(e, c) /\ req[e] # Idle =>
              Posted(c) /\ (~line[c].void => NextInTime(e, line[c].at))
        <3> SUFFICES ASSUME NEW c \in Charges, Knows(e, c), req[e] # Idle
                     PROVE  Posted(c) /\ (~line[c].void => NextInTime(e, line[c].at))
            OBVIOUS
        <3>1. line[c].at \in Windows
            BY DEF Knows, Posted, IInv, TypeOK, Line
        <3> QED
            BY <1>5, <3>1 DEF Knows
    <2>4. \A c \in Charges : Knows(e, c) /\ req[e] # Idle => Knows(e, c)'
        BY <1>1, <2>3 DEF Knows, Posted, InTime, NextInTime
    <2>5. req[e].op = "void" => req[e].c \in Charges /\ Knows(e, req[e].c)
        BY <2>1, RequestType DEF Known
    <2>6. req[e].op = "transfer" => req[e].cs \subseteq Charges /\ \A c \in req[e].cs : Knows(e, c)
        BY <2>1, RequestType DEF Known
    <2>7. req[e].op = "void" => \A c \in {req[e].c} : Knows(e, c)'
        BY <2>1, <2>4, <2>5
    <2>8. req[e].op = "transfer" => \A c \in req[e].cs : Knows(e, c)'
        BY <2>1, <2>4, <2>6
    <2>9. req[e].op = "routed" => ~Posted(req[e].c)
        BY <2>1 DEF Known
    <2>10. Known(e, req[e])'
        BY <1>1, <1>4, <2>2, <2>7, <2>8, <2>9 DEF Known, Knows, Posted, InTime, NextInTime
    <2>11. Counted(req[e])'
        BY <1>1, <1>4, <2>1 DEF Counted, Lines, Balance
    <2> QED
        BY <2>10, <2>11
<1>7. Known(d, req[d])' /\ Counted(req[d])'
    BY <1>4 DEF Known, Counted, Idle, OnWindow
<1>8. RoutedApart'
    BY <1>4 DEF IInv, Closings, RoutedApart, Busy, Idle
<1>9. ClosedOwesOnlyWhatWasUnderWay'
    <2> SUFFICES ASSUME NEW w \in Windows, ~window'[w].open, ~window'[w].forced
                 PROVE  Balance(w)' = window'[w].drift
        BY DEF ClosedOwesOnlyWhatWasUnderWay
    <2>1. Balance(w)' = Balance(w)
        BY <1>1 DEF Balance, Lines
    <2> QED
        BY <1>3, <1>4, <2>1 DEF IInv, Closings, ClosedOwesOnlyWhatWasUnderWay
<1>10. \A ops \in {{"issue"}, {"credit"}, {"refund"}, {"charge"}, {"settle"}} :
          Busy(ops)' = Busy(ops) /\ \A e \in Busy(ops) : req'[e] = req[e]
    BY <1>1, <1>4 DEF Busy, Idle
<1>11. Documents'
    <2>1. \A e \in Busy({"issue"})' : IssueAlone(e)'
        <3> TAKE e \in Busy({"issue"})'
        <3>1. IssueAlone(e) /\ req'[e] = req[e]
            BY <1>10 DEF IInv, Documents
        <3> QED
            BY <1>1, <1>10, <3>1 DEF IssueAlone, Standing
    <2>2. \A e \in Busy({"credit"})' : CreditAlone(e)'
        BY <1>1, <1>10 DEF IInv, Documents, CreditAlone
    <2> QED
        BY <1>1, <2>1, <2>2 DEF IInv, Documents, InvoicedOnce
<1>12. Limits'
    <2>1. \A w \in Windows \ raced' : RefundsFit(w)'
        BY <1>1, <1>10 DEF IInv, Limits, RefundsFit
    <2>2. Nowhere \notin raced' => ChargesFit'
        BY <1>1, <1>10 DEF IInv, Limits, ChargesFit
    <2> QED
        BY <2>1, <2>2 DEF Limits
<1> QED
    BY <1>4, <1>6, <1>7, <1>8, <1>9, <1>11, <1>12 DEF IInv, Closings

-----------------------------------------------------------------------------
(* Issuing a document, and cancelling one.                                 *)

\* A step that ends a request and changes documents only.
LEMMA DocumentWritten ==
    ASSUME IInv, NEW d \in Desks, Finish(d), UNCHANGED <<line, paid, given, account>>, docs' \subseteq Doc
    PROVE  /\ TypeOK' /\ Closings' /\ Limits'
           /\ asked' = asked /\ req'[d] = Idle
           /\ \A ops \in {{"issue"}, {"credit"}} :
                  Busy(ops)' = Busy(ops) \ {d} /\ \A e \in Busy(ops)' : req'[e] = req[e]
<1>1. /\ TypeOK /\ line' \in [Charges -> Line] /\ paid' \in [Windows -> Nat]
      /\ given' \in [Windows -> Nat] /\ account' \in Int /\ \A w \in Windows : paid[w] <= paid'[w]
    BY DEF IInv, TypeOK
<1>2. Closings'
    BY <1>1, MoneyClosings
<1>3. Limits'
    BY <1>1, FinishLimits
<1>4. /\ TypeOK' /\ asked' = asked /\ req'[d] = Idle
      /\ \A e \in Desks \ {d} : /\ req'[e].op = req[e].op
                                /\ req[e].op \notin {"count", "close"} => req'[e] = req[e]
    BY <1>1, Finished
<1> QED
    BY <1>2, <1>3, <1>4 DEF Busy, Idle

LEMMA IssuedType ==
    ASSUME NEW r, r.w \in Windows, r.lines \subseteq Charges, r.no \in 1 .. MaxRequests
    PROVE  /\ \A x \in Issued(r) : /\ x \in Doc /\ x.issue = r.no /\ x.window = r.w /\ ~x.credited
                                   /\ x.notes = 0
           /\ \A x, y \in Issued(r) : x.kind = y.kind => x = y
<1> DEFINE Made(k) == [issue |-> r.no, kind |-> k, window |-> r.w, notes |-> 0, credited |-> FALSE,
                       lines |-> IF k = "bill" THEN r.lines \ Vat ELSE r.lines \cap Vat]
<1>1. \A x \in Issued(r) : \E k \in Kinds : x = Made(k)
    BY DEF Issued
<1>2. \A k \in Kinds : /\ Made(k).kind = k /\ Made(k).issue = r.no /\ Made(k).window = r.w
                       /\ ~Made(k).credited /\ Made(k).notes = 0
    OBVIOUS
<1>3. \A k \in Kinds : Made(k) \in Doc
    <2> TAKE k \in Kinds
    <2> DEFINE l == IF k = "bill" THEN r.lines \ Vat ELSE r.lines \cap Vat
    <2>1. l \in SUBSET Charges
        OBVIOUS
    <2> HIDE DEF l
    <2>2. [issue |-> r.no, kind |-> k, window |-> r.w, notes |-> 0, credited |-> FALSE, lines |-> l]
              \in Doc
        BY <2>1 DEF Doc
    <2> QED
        BY <2>2 DEF l
<1> HIDE DEF Made
<1> QED
    BY <1>1, <1>2, <1>3

LEMMA WriteIssueKeeps == ASSUME IInv, NEW d \in Desks, WriteIssue(d) PROVE IInv'
<1> DEFINE r == req[d]
           new == {x \in Issued(r) : x.lines # {}}
<1>1. /\ r.op = "issue" /\ docs' = docs \cup new
      /\ UNCHANGED <<line, paid, given, account>> /\ Finish(d)
    BY DEF WriteIssue
<1>2. /\ r.w \in Windows /\ r.lines \subseteq Charges /\ r.no \in 1 .. MaxRequests
      /\ IssueAlone(d) /\ d \in Busy({"issue"})
    <2>1. d \in Busy({"issue"})
        BY <1>1 DEF Busy
    <2> QED
        BY <1>1, <2>1, AsItIs, RequestType DEF IInv, Documents
<1>3. /\ \A x \in new : /\ x \in Doc /\ x.issue = r.no /\ x.window = r.w /\ ~x.credited /\ x.notes = 0
      /\ \A x, y \in new : x.kind = y.kind => x = y
    BY <1>2, IssuedType
<1> HIDE DEF new, r
<1>4. docs \subseteq Doc /\ docs' \subseteq Doc
    BY <1>1, <1>3 DEF IInv, TypeOK
<1>5. /\ TypeOK' /\ Closings' /\ Limits' /\ asked' = asked
      /\ \A ops \in {{"issue"}, {"credit"}} :
             Busy(ops)' = Busy(ops) \ {d} /\ \A e \in Busy(ops)' : req'[e] = req[e]
    BY <1>1, <1>4, DocumentWritten
<1>6. /\ \A x \in docs : x.issue # r.no /\ ~(x.window = r.w /\ ~x.credited)
      /\ r.no <= asked
      /\ \A e \in Busy({"issue"}) \ {d} : req[e].w # r.w /\ req[e].no # r.no
    BY <1>2 DEF IssueAlone, Standing, r
<1>7. /\ \A x, y \in docs' : x.issue = y.issue /\ x.kind = y.kind => x = y
      /\ \A x \in docs' : x.issue <= asked'
    BY <1>1, <1>3, <1>5, <1>6 DEF IInv, Documents
<1>8. \A e \in Busy({"issue"})' : IssueAlone(e)'
    <2> TAKE e \in Busy({"issue"})'
    <2>1. e \in Busy({"issue"}) \ {d} /\ IssueAlone(e) /\ req'[e] = req[e]
        BY <1>5 DEF IInv, Documents
    <2>2. \A x \in docs' : x.issue # req[e].no /\ ~(x.window = req[e].w /\ ~x.credited)
        BY <1>1, <1>3, <1>6, <2>1 DEF IssueAlone, Standing
    <2>3. \A a \in Busy({"issue"})' \ {e} : req'[a].w # req[e].w /\ req'[a].no # req[e].no
        BY <1>5, <2>1 DEF IssueAlone
    <2> QED
        BY <1>5, <2>1, <2>2, <2>3 DEF IssueAlone, Standing
<1>9. \A e \in Busy({"credit"})' : CreditAlone(e)'
    <2> TAKE e \in Busy({"credit"})'
    <2>1. CreditAlone(e) /\ req'[e] = req[e]
        BY <1>5 DEF IInv, Documents
    <2> QED
        BY <1>1, <1>5, <2>1 DEF CreditAlone
<1>10. InvoicedOnce'
    <2>1. InvoicedOnce
        BY DEF IInv, Documents
    <2>2. ASSUME NEW x \in docs', NEW y \in docs', x.window = y.window, ~x.credited, ~y.credited
          PROVE  x.issue = y.issue /\ (x.kind = y.kind => x = y)
        <3>1. CASE x \in docs /\ y \in docs
            BY <2>1, <2>2, <3>1 DEF InvoicedOnce
        <3>2. CASE x \in new /\ y \in new
            BY <1>3, <3>2
        <3>3. CASE (x \in docs /\ y \in new) \/ (x \in new /\ y \in docs)
            BY <1>3, <1>6, <2>2, <3>3
        <3> QED
            BY <1>1, <3>1, <3>2, <3>3
    <2>3. \A x \in docs' : x.notes = IF x.credited THEN 1 ELSE 0
        BY <1>1, <1>3, <2>1 DEF InvoicedOnce
    <2> QED
        BY <2>2, <2>3 DEF InvoicedOnce
<1> QED
    BY <1>5, <1>7, <1>8, <1>9, <1>10 DEF IInv, Documents

LEMMA Stamped ==
    ASSUME NEW z \in Doc, z.notes = 0
    PROVE  \A u : u = [z EXCEPT !.notes = @ + 1, !.credited = TRUE] =>
               /\ u \in Doc /\ u.credited /\ u.notes = 1 /\ u.issue = z.issue /\ u.kind = z.kind
               /\ u.window = z.window
<1> DEFINE n == z.notes + 1
           y == [z EXCEPT !.notes = n]
<1>1. n = 1
    OBVIOUS
<1> HIDE DEF n
<1>2. /\ y \in Doc /\ y.notes = 1 /\ y.issue = z.issue /\ y.kind = z.kind /\ y.window = z.window
    BY <1>1 DEF Doc
<1> HIDE DEF y
<1>3. /\ [y EXCEPT !.credited = TRUE] \in Doc
      /\ [y EXCEPT !.credited = TRUE].credited
      /\ [y EXCEPT !.credited = TRUE].notes = 1
      /\ [y EXCEPT !.credited = TRUE].issue = z.issue
      /\ [y EXCEPT !.credited = TRUE].kind = z.kind
      /\ [y EXCEPT !.credited = TRUE].window = z.window
    BY <1>2 DEF Doc
<1>4. [z EXCEPT !.notes = @ + 1, !.credited = TRUE] = [y EXCEPT !.credited = TRUE]
    BY Zenon DEF y, n
<1> QED
    BY <1>3, <1>4

LEMMA WriteCreditKeeps == ASSUME IInv, NEW d \in Desks, WriteCredit(d) PROVE IInv'
<1> DEFINE z == req[d].doc
           u == [z EXCEPT !.notes = @ + 1, !.credited = TRUE]
<1>1. /\ req[d].op = "credit"
      /\ docs' = {IF x.issue = z.issue /\ x.kind = z.kind
                  THEN [x EXCEPT !.notes = @ + 1, !.credited = TRUE] ELSE x : x \in docs}
      /\ UNCHANGED <<line, paid, given, account>> /\ Finish(d)
    BY DEF WriteCredit
<1>2. /\ z \in docs /\ ~z.credited /\ z \in Doc /\ z.notes = 0
      /\ \A e \in Busy({"credit"}) : req[e].doc = z => e = d
    BY <1>1 DEF IInv, TypeOK, Documents, CreditAlone, Busy, InvoicedOnce
<1>3. \A x \in docs : x.issue = z.issue /\ x.kind = z.kind => x = z
    BY <1>2 DEF IInv, Documents
<1>4. docs' = (docs \ {z}) \cup {u}
    <2>1. \A x \in docs \ {z} : ~(x.issue = z.issue /\ x.kind = z.kind)
        BY <1>3
    <2> QED
        BY <1>1, <1>2, <2>1
<1>5. /\ u \in Doc /\ u.credited /\ u.notes = 1 /\ u.issue = z.issue /\ u.kind = z.kind
      /\ u.window = z.window
    BY <1>2, Stamped
<1> HIDE DEF u, z
<1>6. docs \subseteq Doc /\ docs' \subseteq Doc
    BY <1>4, <1>5 DEF IInv, TypeOK
<1>7. /\ TypeOK' /\ Closings' /\ Limits' /\ asked' = asked
      /\ \A ops \in {{"issue"}, {"credit"}} :
             Busy(ops)' = Busy(ops) \ {d} /\ \A e \in Busy(ops)' : req'[e] = req[e]
    BY <1>1, <1>6, DocumentWritten
<1>8. /\ \A x, y \in docs' : x.issue = y.issue /\ x.kind = y.kind => x = y
      /\ \A x \in docs' : x.issue <= asked'
    BY <1>2, <1>4, <1>5, <1>7 DEF IInv, Documents
<1>9. \A e \in Busy({"issue"})' : IssueAlone(e)'
    <2> TAKE e \in Busy({"issue"})'
    <2>1. IssueAlone(e) /\ req'[e] = req[e]
        BY <1>7 DEF IInv, Documents
    <2>2. \A x \in docs' : x.issue # req[e].no /\ ~(x.window = req[e].w /\ ~x.credited)
        BY <1>2, <1>4, <1>5, <2>1 DEF IssueAlone, Standing
    <2>3. \A a \in Busy({"issue"})' \ {e} : req'[a].w # req[e].w /\ req'[a].no # req[e].no
        BY <1>7, <2>1 DEF IssueAlone
    <2> QED
        BY <1>7, <2>1, <2>2, <2>3 DEF IssueAlone, Standing
<1>10. \A e \in Busy({"credit"})' : CreditAlone(e)'
    <2> TAKE e \in Busy({"credit"})'
    <2>1. CreditAlone(e) /\ req'[e] = req[e] /\ e \in Busy({"credit"}) \ {d}
        BY <1>7 DEF IInv, Documents
    <2>2. req[e].doc \in docs'
        BY <1>2, <1>4, <2>1 DEF CreditAlone
    <2> QED
        BY <1>7, <2>1, <2>2 DEF CreditAlone
<1>11. InvoicedOnce'
    BY <1>4, <1>5 DEF IInv, Documents, InvoicedOnce
<1> QED
    BY <1>7, <1>8, <1>9, <1>10, <1>11 DEF IInv, Documents

-----------------------------------------------------------------------------
(* The theorems.                                                           *)

LEMMA InitIInv == Init => IInv
<1> SUFFICES ASSUME Init PROVE IInv
    OBVIOUS
<1>1. 0 \in Nat /\ 0 \in Int /\ 0 \in 0 .. MaxRequests
    BY BillsAssumption
<1>2. TypeOK
    <2>1. window \in [Windows -> Window] /\ req \in [Desks -> Request]
        BY <1>1 DEF Init, Window, Request
    <2>2. line \in [Charges -> Line]
        BY BillsAssumption DEF Init, Line
    <2> QED
        BY <1>1, <2>1, <2>2 DEF Init, TypeOK
<1>3. \A d \in Desks : req[d] = Idle /\ req[d].op = "idle"
    BY DEF Init, Idle
<1>4. Closings
    BY <1>3 DEF Init, Closings, Known, OnWindow, Counted, RoutedApart, Busy,
                ClosedOwesOnlyWhatWasUnderWay
<1>5. Documents
    BY <1>3 DEF Init, Documents, Busy, InvoicedOnce
<1>6. Limits
    BY <1>1, <1>3, BillsAssumption DEF Init, Limits, RefundsFit, ChargesFit, Busy
<1> QED
    BY <1>2, <1>4, <1>5, <1>6 DEF IInv

LEMMA ReadKeeps == ASSUME IInv, NEW d \in Desks, Read(d) PROVE IInv'
<1>1. ASSUME NEW w \in Windows, Enter(d, w) \/ Issue(d, w) PROVE IInv'
    BY <1>1, EnterKeeps, IssueKeeps
<1>2. ASSUME NEW cs \in SUBSET Charges, Gather(d, cs) PROVE IInv'
    BY <1>2, GatherKeeps
<1>3. ASSUME Refund(d) \/ Charge(d) \/ Settle(d) PROVE IInv'
    BY <1>3, RefundKeeps, ChargeKeeps, SettleKeeps
<1>4. ASSUME Count(d) \/ Tally(d) PROVE IInv'
    BY <1>4, CountKeeps, TallyKeeps
<1>5. ASSUME NEW c \in Charges, Void(d, c) \/ Strike(d, c) PROVE IInv'
    BY <1>5, VoidKeeps
<1>6. ASSUME NEW x \in docs, Credit(d, x) PROVE IInv'
    BY <1>6, CreditKeeps
<1>7. ASSUME NEW w \in Windows, NEW c \in Charges, PostNight(d, w, c) \/ PostService(d, w, c)
      PROVE  IInv'
    BY <1>7, PostRoutedKeeps
<1> QED
    BY <1>1, <1>2, <1>3, <1>4, <1>5, <1>6, <1>7 DEF Read

LEMMA WriteKeeps == ASSUME IInv, NEW d \in Desks, Write(d) PROVE IInv'
<1>1. ASSUME NEW c \in Charges, WriteLine(d, c) PROVE IInv'
    BY <1>1, WriteLineKeeps
<1>2. ASSUME WriteVoid(d) \/ WriteTransfer(d) PROVE IInv'
    BY <1>2, WriteVoidKeeps, WriteTransferKeeps
<1>3. ASSUME WritePayment(d) \/ WriteRefund(d) \/ WriteDebit(d) PROVE IInv'
    BY <1>3, WritePaymentKeeps, WriteRefundKeeps, WriteDebitKeeps
<1>4. ASSUME NEW forced \in BOOLEAN, WriteClose(d, forced) PROVE IInv'
    BY <1>4, WriteCloseKeeps
<1>5. ASSUME WriteIssue(d) \/ WriteCredit(d) \/ Rollback(d) PROVE IInv'
    BY <1>5, WriteIssueKeeps, WriteCreditKeeps, RollbackKeeps
<1> QED
    BY <1>1, <1>2, <1>3, <1>4, <1>5 DEF Write

LEMMA NextIInv == IInv /\ [Next]_vars => IInv'
<1> SUFFICES ASSUME IInv, [Next]_vars PROVE IInv'
    OBVIOUS
<1>1. CASE SettleLedger
    BY <1>1, SettleLedgerKeeps
<1>2. ASSUME NEW d \in Desks, Read(d) \/ Write(d) PROVE IInv'
    BY <1>2, ReadKeeps, WriteKeeps
<1>3. CASE UNCHANGED vars
    <2>1. TypeOK'
        BY <1>3 DEF IInv, TypeOK, vars
    <2>2. Closings'
        BY <1>3 DEF IInv, Closings, Known, Knows, InTime, Posted, Counted, RoutedApart, Busy,
                    ClosedOwesOnlyWhatWasUnderWay, Balance, Lines, vars
    <2>3. Documents'
        BY <1>3 DEF IInv, Documents, IssueAlone, CreditAlone, Busy, Standing, InvoicedOnce, vars
    <2>4. Limits'
        BY <1>3 DEF IInv, Limits, RefundsFit, ChargesFit, Busy, vars
    <2> QED
        BY <2>1, <2>2, <2>3, <2>4 DEF IInv
<1> QED
    BY <1>1, <1>2, <1>3 DEF Next

THEOREM BillsInductive == Spec => []IInv
<1> QED
    BY InitIInv, NextIInv, PTL DEF Spec

\* The rows and requests are well formed for any number of windows, lines and desks.
THEOREM BillsTyped == Spec => []TypeOK
<1>1. IInv => TypeOK
    BY DEF IInv
<1> QED
    BY <1>1, BillsInductive, PTL

\* However many requests pass a closing (closeWindow), what a window closed without force comes to
\* owe is the work of requests that were under way when it was closed, or when one of those wrote,
\* or a line the hotel posts or strikes without asking whether the window is open: of a room night,
\* a levy, an inclusion, a pick-up or drop-off.
THEOREM ClosingIsAccountedFor == Spec => []ClosedOwesOnlyWhatWasUnderWay
<1>1. IInv => ClosedOwesOnlyWhatWasUnderWay
    BY DEF IInv, Closings
<1> QED
    BY <1>1, BillsInductive, PTL

\* A window has one invoice in force, and a document one credit note (issueWithin, creditNote).
THEOREM WindowsAreInvoicedOnce == Spec => []InvoicedOnce
<1>1. IInv => InvoicedOnce
    BY DEF IInv, Documents
<1> QED
    BY <1>1, BillsInductive, PTL

\* The limits of refunds and of an account break only where two requests read the same state, or
\* a check-out moved a balance to the account (refund, chargeToLedger, settleAtCheckout).
THEOREM LimitsHoldUnraced == Spec => []LimitsBreakOnlyByRaces
<1>1. IInv => LimitsBreakOnlyByRaces
    <2> SUFFICES ASSUME IInv PROVE LimitsBreakOnlyByRaces
        OBVIOUS
    <2>1. ASSUME NEW w \in Windows, given[w] > paid[w] PROVE w \in raced
        BY <2>1 DEF IInv, TypeOK, Limits, RefundsFit
    <2>2. ASSUME account > Limit PROVE Nowhere \in raced
        BY <2>2, BillsAssumption DEF IInv, TypeOK, Limits, ChargesFit
    <2> QED
        BY <2>1, <2>2 DEF LimitsBreakOnlyByRaces
<1> QED
    BY <1>1, BillsInductive, PTL
=============================================================================
