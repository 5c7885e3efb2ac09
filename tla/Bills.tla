------------------------------- MODULE Bills -------------------------------
(***************************************************************************)
(* The bill of one stay: its folio windows, the lines and payments on      *)
(* them, the company account a balance may move to, and the tax documents  *)
(* issued for a window and cancelled by credit notes.                      *)
(*                                                                         *)
(* A request reads what it decides by, and writes later, in one READ       *)
(* COMMITTED transaction: each is a step.  Only issuing locks the window,  *)
(* only a credit note its document, only a check-out its booking.  Every   *)
(* line, payment and refund is of one unit of money; document numbers      *)
(* are the series of Tills.                                                *)
(***************************************************************************)
EXTENDS Integers, FiniteSets

CONSTANTS
    Windows,      \* the windows of the stay's bill
    Guest,        \* window 1
    Charges,      \* the lines that may be posted
    Nightly,      \* those of room nights and levies, posted and struck by the hotel itself
    Services,     \* those of pick-ups, drop-offs and inclusions, posted likewise
    Vat,          \* those with VAT, billed on a tax invoice of their own
    Desks,        \* requests served at the same time
    Limit,        \* the credit limit of the company's account
    MaxRequests,  \* bound on the requests begun
    Nowhere       \* the window of a line not posted yet

ASSUME BillsAssumption == /\ Guest \in Windows /\ Nowhere \notin Windows
                          /\ Nightly \subseteq Charges /\ Services \subseteq Charges
                          /\ Nightly \cap Services = {} /\ IsFiniteSet(Charges)
                          /\ Limit \in Nat \ {0} /\ MaxRequests \in Nat

VARIABLES
    window,       \* window[w]: the row of window w
    line,         \* line[c]: the window of line c, and whether it is voided
    paid, given,  \* paid[w], given[w]: money received and refunded on window w
    account,      \* the account's balance
    docs,         \* the documents issued
    req,          \* req[d]: what the request at desk d has read
    asked,        \* counts the requests begun; numbers the issues (history)
    raced         \* what overlapping requests have read twice (history)

vars == <<window, line, paid, given, account, docs, req, asked, raced>>

-----------------------------------------------------------------------------
(* Rows and requests.                                                      *)

\* drift: what the balance changed by since the closing read it; late: the requests that were
\* under way when the window was closed, or when one of them changed what it owes.
Window == [open : BOOLEAN, forced : BOOLEAN, drift : Int, late : SUBSET Desks]
Line   == [at : Windows \cup {Nowhere}, void : BOOLEAN]

Kinds == {"tax_invoice", "bill"}
Doc   == [issue : 1 .. MaxRequests, kind : Kinds, window : Windows, lines : SUBSET Charges,
          notes : Nat, credited : BOOLEAN]

Idle    == [op |-> "idle"]
Request == {Idle} \cup [op : {"entered", "refund", "charge"}, w : Windows]
           \cup [op : {"routed"}, w : Windows, c : Charges]
           \cup [op : {"void", "strike"}, c : Charges]
           \cup [op : {"transfer"}, w : Windows, cs : SUBSET Charges]
           \cup [op : {"settle"}, w : Windows, sum : Nat]
           \cup [op : {"count", "close"}, w : Windows, lines : Nat, drift : Int]
           \cup [op : {"issue"}, w : Windows, lines : SUBSET Charges, no : 1 .. MaxRequests]
           \cup [op : {"credit"}, doc : Doc]

Live(c)    == line[c].at # Nowhere /\ ~line[c].void
Lines(w)   == {c \in Charges : line[c].at = w /\ ~line[c].void}
Balance(w) == Cardinality(Lines(w)) - paid[w] + given[w]

Busy(ops) == {d \in Desks : req[d].op \in ops}

\* Broken: issuing takes no lock.
IssuingUnlocked(w) == FALSE

\* An issue under way has locked the window's row: a change of it, another issue and, by its
\* foreign key, every new line, payment or document on it wait.
Issuing(w) == \E d \in Busy({"issue"}) : req[d].w = w

\* The documents of a window no credit note has cancelled.
Standing(w) == {x \in docs : x.window = w /\ ~x.credited}

-----------------------------------------------------------------------------
(* What a request reads.                                                   *)

Reads(d, r) == /\ req' = [req EXCEPT ![d] = r]
               /\ UNCHANGED <<window, line, paid, given, account, docs>>

Begins(d, r) == /\ req[d] = Idle /\ asked < MaxRequests /\ asked' = asked + 1
                /\ Reads(d, r) /\ UNCHANGED raced

\* Broken: a closed window is written like an open one.
OpenAny(w) == TRUE

Open(w) == window[w].open

\* loadOpenFolio: the first statement of most requests on a window.
Enter(d, w) == Open(w) /\ Begins(d, [op |-> "entered", w |-> w])

\* transfer: lines that stand, on open windows.
Gather(d, cs) ==
    /\ req[d].op = "entered"
    /\ cs # {} /\ \A c \in cs : Live(c) /\ Open(line[c].at)
    /\ Reads(d, [op |-> "transfer", w |-> req[d].w, cs |-> cs]) /\ UNCHANGED <<asked, raced>>

\* Broken: what was given back still counts as paid.
RefundableGross(w) == paid[w]

\* What is paid on a window, net of what was given back.
Refundable(w) == paid[w] - given[w]

\* refund: no more than is paid, as far as this request can see.
Refund(d) ==
    /\ req[d].op = "entered" /\ Refundable(req[d].w) >= 1
    /\ Reads(d, [op |-> "refund", w |-> req[d].w])
    /\ raced' = raced \cup {w \in {req[d].w} : \E e \in Busy({"refund"}) : req[e].w = w}
    /\ UNCHANGED asked

\* chargeToLedger: the debt moves to the account, within its limit.
Charge(d) ==
    /\ req[d].op = "entered" /\ account + 1 <= Limit
    /\ Reads(d, [op |-> "charge", w |-> req[d].w])
    /\ raced' = IF Busy({"charge"}) # {} THEN raced \cup {Nowhere} ELSE raced
    /\ UNCHANGED asked

\* Broken: an overpaid window is moved to the account as well.
OwesAny(w) == TRUE

Owes(w) == Balance(w) > 0

\* settleAtCheckout: whatever a window owes, without a limit; check-outs of the stay wait for
\* each other on its row.
Settle(d) ==
    /\ req[d].op = "entered" /\ Owes(req[d].w) /\ Busy({"settle"}) = {}
    /\ Reads(d, [op |-> "settle", w |-> req[d].w, sum |-> Balance(req[d].w)])
    /\ raced' = raced \cup {Nowhere} /\ UNCHANGED asked

\* closeWindow, through windowDetail: the lines in one statement, the payments in the next.
Count(d) ==
    /\ req[d].op = "entered"
    /\ Reads(d, [op |-> "count", w |-> req[d].w, lines |-> Cardinality(Lines(req[d].w)),
                 drift |-> 0])
    /\ UNCHANGED <<asked, raced>>

Tally(d) ==
    /\ req[d].op = "count" /\ req[d].lines - paid[req[d].w] + given[req[d].w] = 0
    /\ Reads(d, [req[d] EXCEPT !.op = "close"]) /\ UNCHANGED <<asked, raced>>

Unposted(c) == line[c].at = Nowhere /\ \A d \in Busy({"routed"}) : req[d].c # c

\* A line goes to an open window that claims its kind, or else to window 1, whatever its status.
Routed(w) == w = Guest \/ Open(w)

\* Some room night or levy of the stay stands on w.
Joined(w) == \E c \in Nightly : line[c].at = w /\ Live(c)

PostRouted(d, w, c) == Unposted(c) /\ Begins(d, [op |-> "routed", w |-> w, c |-> c])

\* The night audit, postRoomCharges and an amended stay; a levy joins the levies there are, a night
\* at a new price the one it replaces, on a closed window as well.  Prices are units: a higher one
\* is one line more here, a lower one a strike.
PostNight(d, w, c) == c \in Nightly /\ (Routed(w) \/ Joined(w)) /\ PostRouted(d, w, c)

\* A pick-up or drop-off that is done, and an inclusion.
PostService(d, w, c) == c \in Services /\ Routed(w) /\ PostRouted(d, w, c)

\* voidCharge: the window is the one the line was read on; it can only be closed after that.
Void(d, c) == Live(c) /\ Open(line[c].at) /\ Begins(d, [op |-> "void", c |-> c])

\* A shortened or amended stay, a reconciled levy and a cancelled pick-up or drop-off void their
\* lines on any window.
Strike(d, c) ==
    /\ c \in Nightly \cup Services /\ Live(c)
    /\ Begins(d, [op |-> "strike", c |-> c])

\* issueWithin: the row is locked, no document of the window stands, and there are lines to bill.
Issue(d, w) ==
    /\ ~Issuing(w) /\ Standing(w) = {} /\ Lines(w) # {}
    /\ Begins(d, [op |-> "issue", w |-> w, lines |-> Lines(w), no |-> asked + 1])

\* creditNote: the document's row is locked, and none has cancelled it.
Credit(d, x) ==
    /\ ~x.credited /\ \A e \in Busy({"credit"}) : req[e].doc # x
    /\ Begins(d, [op |-> "credit", doc |-> x])

-----------------------------------------------------------------------------
(* What it writes.                                                         *)

Moved(cs, w)  == [c \in Charges |-> IF c \in cs THEN [line[c] EXCEPT !.at = w] ELSE line[c]]
Plus(f, w, n) == [f EXCEPT ![w] = @ + n]

\* The request at d ends.  Closings that have read the lines, or all, count what it changed since,
\* and so do closed windows if it was late for them.
Finish(d) ==
    LET lines  == [w \in Windows |-> Cardinality(Lines(w))' - Cardinality(Lines(w))]
        change == [w \in Windows |-> Balance(w)' - Balance(w)] IN
    /\ req' = [e \in Desks |->
                  CASE e = d -> Idle
                    [] e # d /\ req[e].op = "count" ->
                           [req[e] EXCEPT !.drift = @ + lines[req[e].w]]
                    [] e # d /\ req[e].op = "close" ->
                           [req[e] EXCEPT !.drift = @ + change[req[e].w]]
                    [] OTHER -> req[e]]
    /\ window' = [w \in Windows |->
                     IF window[w].open THEN window[w]
                     ELSE [window[w] EXCEPT
                              !.drift = IF d \in window[w].late \/ req[d].op \in {"routed", "strike"}
                                        THEN @ + change[w] ELSE @,
                              !.late  = IF d \in @ /\ change[w] # 0
                                        THEN {e \in Desks \ {d} : req[e] # Idle} ELSE @ \ {d}]]
    /\ UNCHANGED <<asked, raced>>

\* postCharge, and what PostNight and PostService have looked up.
WriteLine(d, c) ==
    /\ \/ req[d].op = "entered" /\ c \notin Nightly \cup Services /\ Unposted(c)
       \/ req[d].op = "routed" /\ req[d].c = c
    /\ ~Issuing(req[d].w)
    /\ line' = Moved({c}, req[d].w)
    /\ UNCHANGED <<paid, given, account, docs>> /\ Finish(d)

\* The voids stamp the line wherever it is by now.
WriteVoid(d) ==
    /\ req[d].op \in {"void", "strike"}
    /\ line' = [line EXCEPT ![req[d].c].void = TRUE]
    /\ UNCHANGED <<paid, given, account, docs>> /\ Finish(d)

\* transfer moves the lines by id, whatever became of them.
WriteTransfer(d) ==
    /\ req[d].op = "transfer" /\ ~Issuing(req[d].w)
    /\ \A c \in req[d].cs : ~Issuing(line[c].at)
    /\ line' = Moved(req[d].cs, req[d].w)
    /\ UNCHANGED <<paid, given, account, docs>> /\ Finish(d)

\* recordPayment.
WritePayment(d) ==
    /\ req[d].op = "entered" /\ ~Issuing(req[d].w)
    /\ paid' = Plus(paid, req[d].w, 1)
    /\ UNCHANGED <<line, given, account, docs>> /\ Finish(d)

\* insertRefund.
WriteRefund(d) ==
    /\ req[d].op = "refund" /\ ~Issuing(req[d].w)
    /\ given' = Plus(given, req[d].w, 1)
    /\ UNCHANGED <<line, paid, account, docs>> /\ Finish(d)

\* The payment that clears the window and the account's debit, together.
WriteDebit(d) ==
    /\ req[d].op \in {"charge", "settle"} /\ ~Issuing(req[d].w)
    /\ LET n == IF req[d].op = "settle" THEN req[d].sum ELSE 1 IN
       paid' = Plus(paid, req[d].w, n) /\ account' = account + n
    /\ UNCHANGED <<line, given, docs>> /\ Finish(d)

\* closeWindow's UPDATE by id; forced, it does not look at the balance.
WriteClose(d, forced) ==
    /\ req[d].op = IF forced THEN "entered" ELSE "close"
    /\ ~Issuing(req[d].w)
    /\ window' = [window EXCEPT ![req[d].w] =
                     [open |-> FALSE, forced |-> forced,
                      drift |-> IF req[d].op = "close" THEN req[d].drift ELSE 0,
                      late |-> {e \in Desks \ {d} : req[e] # Idle}]]
    /\ req' = [req EXCEPT ![d] = Idle]
    /\ UNCHANGED <<line, paid, given, account, docs, asked, raced>>

\* A tax invoice for the lines with VAT and a bill for the rest.
Issued(r) == {[issue |-> r.no, kind |-> k, window |-> r.w, notes |-> 0, credited |-> FALSE,
               lines |-> IF k = "bill" THEN r.lines \ Vat ELSE r.lines \cap Vat] : k \in Kinds}

\* The unique index on the standing documents of a window and kind.
WriteIssue(d) ==
    /\ req[d].op = "issue"
    /\ LET new == {x \in Issued(req[d]) : x.lines # {}} IN
       /\ \A x \in new, y \in Standing(req[d].w) : x.kind # y.kind
       /\ docs' = docs \cup new
    /\ UNCHANGED <<line, paid, given, account>> /\ Finish(d)

\* creditNote: a note is inserted, and the document is stamped.
WriteCredit(d) ==
    /\ req[d].op = "credit" /\ ~Issuing(req[d].doc.window)
    /\ docs' = {IF x.issue = req[d].doc.issue /\ x.kind = req[d].doc.kind
                THEN [x EXCEPT !.notes = @ + 1, !.credited = TRUE] ELSE x : x \in docs}
    /\ UNCHANGED <<line, paid, given, account>> /\ Finish(d)

\* A refusal or a lost connection rolls the transaction back.
Rollback(d) ==
    /\ req[d] # Idle
    /\ UNCHANGED <<line, paid, given, account, docs>> /\ Finish(d)

\* settleLedger: the company pays.  Bound: not more than it owes.
SettleLedger ==
    /\ account > 0 /\ account' = account - 1
    /\ UNCHANGED <<window, line, paid, given, docs, req, asked, raced>>

-----------------------------------------------------------------------------
(* The specification.                                                      *)

\* A bill as it may be in mid-stay: some of the hotel's own lines on window 1, nothing paid.
Init ==
    /\ window = [w \in Windows |-> [open |-> TRUE, forced |-> FALSE, drift |-> 0, late |-> {}]]
    /\ \E posted \in SUBSET (Nightly \cup Services) :
           line = [c \in Charges |->
                      [at |-> IF c \in posted THEN Guest ELSE Nowhere, void |-> FALSE]]
    /\ paid = [w \in Windows |-> 0] /\ given = [w \in Windows |-> 0]
    /\ account = 0 /\ docs = {} /\ req = [d \in Desks |-> Idle] /\ asked = 0 /\ raced = {}

Read(d) ==
    \/ \E w \in Windows : Enter(d, w) \/ Issue(d, w)
    \/ \E w \in Windows, c \in Charges : PostNight(d, w, c) \/ PostService(d, w, c)
    \/ \E cs \in SUBSET Charges : Gather(d, cs)
    \/ Refund(d) \/ Charge(d) \/ Settle(d) \/ Count(d) \/ Tally(d)
    \/ \E c \in Charges : Void(d, c) \/ Strike(d, c)
    \/ \E x \in docs : Credit(d, x)

Write(d) ==
    \/ \E c \in Charges : WriteLine(d, c)
    \/ WriteVoid(d) \/ WriteTransfer(d) \/ WritePayment(d) \/ WriteRefund(d) \/ WriteDebit(d)
    \/ \E forced \in BOOLEAN : WriteClose(d, forced)
    \/ WriteIssue(d) \/ WriteCredit(d) \/ Rollback(d)

Next == SettleLedger \/ \E d \in Desks : Read(d) \/ Write(d)

Spec == Init /\ [][Next]_vars

-----------------------------------------------------------------------------
(* Properties.                                                             *)

TypeOK ==
    /\ window \in [Windows -> Window] /\ line \in [Charges -> Line]
    /\ paid \in [Windows -> Nat] /\ given \in [Windows -> Nat] /\ account \in Int
    /\ docs \subseteq Doc /\ req \in [Desks -> Request]
    /\ asked \in 0 .. MaxRequests /\ raced \subseteq Windows \cup {Nowhere}

\* "Closing a bill someone still owes money on is how a hotel loses revenue" (closeWindow): a
\* window closed without force was settled, and whatever it owes or is owed now came from a
\* request that was under way when it was closed, or when one of those wrote, or from a line
\* the hotel posts or strikes without asking whether its window is open: of a room night, a levy,
\* an inclusion, a pick-up or drop-off.
ClosedOwesOnlyWhatWasUnderWay ==
    \A w \in Windows : ~window[w].open /\ ~window[w].forced => Balance(w) = window[w].drift

\* A window is invoiced once: the standing documents of a window are of one issue, a tax invoice
\* and a bill at most, and one credit note cancels a document, however many desks issue and credit.
InvoicedOnce ==
    /\ \A x, y \in docs : x.window = y.window /\ ~x.credited /\ ~y.credited =>
           x.issue = y.issue /\ (x.kind = y.kind => x = y)
    /\ \A x \in docs : x.notes = IF x.credited THEN 1 ELSE 0

\* More is given back than was paid on a window only where two refunds read the same payments,
\* and an account is over its limit only if two charges read the same balance or a check-out,
\* which has no limit, moved a balance to it.
LimitsBreakOnlyByRaces ==
    /\ \A w \in Windows : given[w] > paid[w] => w \in raced
    /\ account > Limit => Nowhere \in raced
=============================================================================
