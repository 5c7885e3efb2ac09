------------------------------- MODULE Intake -------------------------------
(***************************************************************************)
(* Reservations that reach the hotel over a network: those a channel       *)
(* pushes to the webhook, and those the desk's page posts under an         *)
(* idempotency key.  Both may come twice, late, or while an earlier copy   *)
(* is still being served, and a request may die at any step.               *)
(*                                                                         *)
(* A channel's reservation has a row (`ota_reservations`), written in one  *)
(* transaction, imported in a second, and marked failed or cancelled in a  *)
(* third, on what was read before.  A key has a row too                    *)
(* (`reservation_requests`), written by the transaction that books.  Both  *)
(* take rooms of the same type.                                            *)
(***************************************************************************)
EXTENDS Integers, Sequences, FiniteSets

CONSTANTS
    Refs,         \* reservations of a channel, by its reference
    Keys,         \* idempotency keys
    Calls,        \* requests served at the same time
    Rooms,        \* rooms to sell
    MaxCalls,     \* bound on the requests begun
    NoCall, NoSource

ASSUME IntakeAssumption ==
    /\ Refs \cap Keys = {} /\ NoSource \notin Refs \cup Keys
    /\ NoCall \notin Calls
    /\ Rooms \in Nat /\ MaxCalls \in Nat

VARIABLES
    row,          \* row[r]: the status and the booking of the row of channel reservation r
    key,          \* key[k]: the row of key k, and the transaction that has written it
    bookings,     \* the bookings made, in order
    call,         \* call[c]: the request c serves and what it has read
    begun,        \* requests begun
    raced,        \* references a retry or a cancellation found with another import or
                  \* cancellation under way (history)
    cut,          \* references whose import died (history)
    pruned,       \* bookings whose key was deleted (history)
    forgotten,    \* bookings whose import was marked failed: its commit was not answered (history)
    reinstated    \* bookings that stand because the desk brought them back (history)

stood == <<forgotten, reinstated>>
seen  == <<cut, pruned, stood>>
vars  == <<row, key, bookings, call, begun, raced, seen>>

Booked   == DOMAIN bookings
Sources  == Refs \cup Keys
Statuses == {"none", "received", "imported", "failed", "cancelled"}

\* booking: 0 for none.
Row     == [status : Statuses, booking : Nat]
\* response: the booking of the first request, 0 while there is no row; old: for two days.
Key     == [response : Nat, old : BOOLEAN, holder : Calls \cup {NoCall}]
\* CheckedIn: any status in which a booking takes its room and cannot be cancelled, a no-show too.
Booking == [source : Sources, status : {"Approved", "CheckedIn", "Cancelled"}]
Call    == [op : {"idle", "book", "retry", "cancel", "post"},
            step : {"insert", "import", "fail", "release", "mark", "claim", "create"},
            source : Sources \cup {NoSource}, booking : Nat]

Idle   == [op |-> "idle", step |-> "insert", source |-> NoSource, booking |-> 0]
Unused == [response |-> 0, old |-> FALSE, holder |-> NoCall]

Taken    == {n \in Booked : bookings[n].status # "Cancelled"}
RoomFree == Cardinality(Taken) < Rooms
MadeFor(s) == {n \in Booked : bookings[n].source = s}

Book(s) == bookings' = Append(bookings, [source |-> s, status |-> "Approved"])
NewBooking == Len(bookings) + 1

At(c, op, step) == call[c].op = op /\ call[c].step = step
Serve(c, x) == call' = [call EXCEPT ![c] = x]
Step(c, step) == call' = [call EXCEPT ![c].step = step]
End(c) == Serve(c, Idle)

Begin(c) == call[c] = Idle /\ begun < MaxCalls /\ begun' = begun + 1

-----------------------------------------------------------------------------
(* A channel's reservations.                                               *)

\* Requests for r that will write its row, and have seen it.
Writing(r) == {c \in Calls : call[c].source = r /\ call[c].step # "insert"}
Meets(r)   == raced' = IF Writing(r) = {} THEN raced ELSE raced \cup {r}

\* findByRef has found the row.
Known(r) == row[r].status # "none"

\* ingest: a reservation already known is answered from its row.
Deliver(c, r) ==
    /\ Begin(c)
    /\ IF Known(r) THEN UNCHANGED call
       ELSE Serve(c, [Idle EXCEPT !.op = "book", !.source = r])
    /\ UNCHANGED <<row, key, bookings, raced, seen>>

\* The row is recorded; UNIQUE(channel, external_ref) refuses the second of two at once.
Record(c) ==
    LET r == call[c].source IN
    /\ At(c, "book", "insert")
    /\ IF Known(r) THEN /\ End(c) /\ UNCHANGED <<row, raced>>
       ELSE /\ row' = [row EXCEPT ![r].status = "received"]
            /\ Step(c, "import") /\ Meets(r)
    /\ UNCHANGED <<key, bookings, begun, seen>>

\* Broken: a retry looks at no status.
MayRetryAny(r) == Known(r)
MayRetry(r) == row[r].status = "failed"

Retry(c, r) ==
    /\ Begin(c) /\ MayRetry(r)
    /\ Serve(c, [Idle EXCEPT !.op = "retry", !.step = "import", !.source = r])
    /\ Meets(r)
    /\ UNCHANGED <<row, key, bookings, seen>>

\* import: the booking and the row's new status are one transaction; the status is not read again.
CommitImport(c) ==
    LET r == call[c].source IN
    /\ call[c].op \in {"book", "retry"} /\ call[c].step = "import"
    /\ RoomFree
    /\ Book(r)
    /\ row' = [row EXCEPT ![r] = [status |-> "imported", booking |-> NewBooking]]
    /\ UNCHANGED <<key, begun, raced, seen>>

Import(c) == CommitImport(c) /\ End(c)

\* The try covers the COMMIT: when the connection is lost before its answer, the booking stands
\* and the request goes on to the catch.
ImportUnanswered(c) ==
    /\ CommitImport(c)
    /\ Serve(c, [call[c] EXCEPT !.step = "fail", !.booking = NewBooking])

\* Broken: an error leaves the request without a mark on the row.
ImportForgets(c) ==
    /\ call[c].op \in {"book", "retry"} /\ call[c].step = "import"
    /\ End(c)
    /\ UNCHANGED <<row, key, bookings, begun, raced, seen>>

\* No room, no rate, no occupancy, an error of the database or a connection lost before the COMMIT.
ImportFails(c) ==
    /\ call[c].op \in {"book", "retry"} /\ call[c].step = "import"
    /\ Step(c, "fail")
    /\ UNCHANGED <<row, key, bookings, begun, raced, seen>>

\* The row is marked in a transaction of its own, whatever it says by now.
MarkFailed(c) ==
    /\ call[c].step = "fail"
    /\ row' = [row EXCEPT ![call[c].source].status = "failed"]
    /\ forgotten' = forgotten \cup ({call[c].booking} \ {0})
    /\ End(c)
    /\ UNCHANGED <<key, bookings, begun, raced, cut, pruned, reinstated>>

\* Broken: the booking of the row is left alone.
ToReleaseNone(r) == FALSE
ToRelease(r) == row[r].status = "imported" /\ row[r].booking # 0

\* cancelByRef.
ChannelCancel(c, r) ==
    /\ Begin(c)
    /\ IF row[r].status \in {"none", "cancelled"} THEN UNCHANGED <<call, raced>>
       ELSE /\ Serve(c, [Idle EXCEPT !.op = "cancel", !.source = r, !.booking = row[r].booking,
                                     !.step = IF ToRelease(r) THEN "release" ELSE "mark"])
            /\ Meets(r)
    /\ UNCHANGED <<row, key, bookings, seen>>

\* bookings.cancel, a transaction of its own; a guest in the house or a booking already cancelled
\* is refused, and the request with it.
ReleaseBooking(c) ==
    LET n == call[c].booking IN
    /\ At(c, "cancel", "release")
    /\ IF bookings[n].status = "Approved"
       THEN /\ bookings' = [bookings EXCEPT ![n].status = "Cancelled"]
            /\ reinstated' = reinstated \ {n}
            /\ Step(c, "mark")
       ELSE End(c) /\ UNCHANGED <<bookings, reinstated>>
    /\ UNCHANGED <<row, key, begun, raced, cut, pruned, forgotten>>

MarkCancelled(c) ==
    /\ At(c, "cancel", "mark")
    /\ row' = [row EXCEPT ![call[c].source].status = "cancelled"]
    /\ End(c)
    /\ UNCHANGED <<key, bookings, begun, raced, seen>>

-----------------------------------------------------------------------------
(* The desk's keyed requests.  The transaction that has written or pruned  *)
(* the row of a key keeps others waiting until it ends.                    *)

Stored(k) == key[k].response # 0
Held(k)   == key[k].holder # NoCall
OldKeys   == {k \in Keys : Stored(k) /\ key[k].old}

Post(c, k) ==
    /\ Begin(c)
    /\ Serve(c, [Idle EXCEPT !.op = "post", !.step = "claim", !.source = k])
    /\ UNCHANGED <<row, key, bookings, raced, seen>>

\* Broken: a request does not wait for another that has the key.
CanInsertNow(k) == ~Stored(k)
CanInsert(k) == ~Stored(k) /\ ~Held(k)

\* claimIdempotencyKey: the row is written, and those of old keys are deleted.
Claim(c) ==
    LET k == call[c].source IN
    /\ At(c, "post", "claim") /\ CanInsert(k)
    /\ \A h \in OldKeys : ~Held(h)
    /\ key' = [h \in Keys |-> IF h = k \/ h \in OldKeys THEN [key[h] EXCEPT !.holder = c] ELSE key[h]]
    /\ Step(c, "create")
    /\ UNCHANGED <<row, bookings, begun, raced, seen>>

\* The stored response is the answer, or a refusal when the body posted is another.
Replay(c) ==
    /\ At(c, "post", "claim") /\ Stored(call[c].source) /\ ~Held(call[c].source)
    /\ End(c)
    /\ UNCHANGED <<row, key, bookings, begun, raced, seen>>

\* Broken: the key stays with the request that failed.
LetGoNever(c) == key

\* What the database does with the keys c has when its transaction is rolled back.
LetGo(c) == [k \in Keys |-> IF key[k].holder = c THEN [key[k] EXCEPT !.holder = NoCall] ELSE key[k]]

\* createWithin, the response and the commit: the booking, its key and the pruned ones together.
Create(c) ==
    LET k == call[c].source IN
    /\ At(c, "post", "create") /\ RoomFree
    /\ Book(k)
    /\ key' = [h \in Keys |->
                  CASE h = k -> [response |-> NewBooking, old |-> FALSE, holder |-> NoCall]
                    [] h # k /\ key[h].holder = c -> Unused
                    [] OTHER -> key[h]]
    /\ pruned' = pruned \cup {key[h].response : h \in {h \in OldKeys \ {k} : key[h].holder = c}}
    /\ End(c)
    /\ UNCHANGED <<row, begun, raced, cut, stood>>

\* No room, a changed price, a refused approval, or the 20 seconds a statement may wait.
PostFails(c) ==
    /\ call[c].op = "post"
    /\ key' = LetGo(c)
    /\ End(c)
    /\ UNCHANGED <<row, bookings, begun, raced, seen>>

-----------------------------------------------------------------------------
(* The rest of the world.                                                  *)

\* The process that serves c dies, or, outside of an import, its connection to the database does.
Die(c) ==
    /\ call[c] # Idle
    /\ key' = LetGo(c)
    /\ End(c)
    /\ cut' = IF call[c].step \in {"import", "fail"} THEN cut \cup {call[c].source} ELSE cut
    /\ UNCHANGED <<row, bookings, begun, raced, pruned, stood>>

Restatus(n, from, to) ==
    /\ bookings[n].status = from
    /\ bookings' = [bookings EXCEPT ![n].status = to]
    /\ UNCHANGED <<row, key, call, begun, raced, cut, pruned, forgotten>>

\* The desk checks a guest in or marks a no-show, ...
Arrive(n) == Restatus(n, "Approved", "CheckedIn") /\ UNCHANGED reinstated

\* ... takes it back (undoCheckIn, reinstate), ...
UndoArrival(n) == Restatus(n, "CheckedIn", "Approved") /\ UNCHANGED reinstated

\* ... cancels a booking, ...
DeskCancel(n) == Restatus(n, "Approved", "Cancelled") /\ reinstated' = reinstated \ {n}

\* ... and brings a cancelled one back, a channel's like its own: the channel's row is not asked.
Reinstate(n) ==
    /\ RoomFree /\ Restatus(n, "Cancelled", "Approved")
    /\ reinstated' = reinstated \cup {n}

Desk(n) == Arrive(n) \/ UndoArrival(n) \/ DeskCancel(n) \/ Reinstate(n)

TwoDaysPass ==
    /\ \A c \in Calls : call[c] = Idle
    /\ key' = [k \in Keys |-> [key[k] EXCEPT !.old = Stored(k)]]
    /\ UNCHANGED <<row, bookings, call, begun, raced, seen>>

-----------------------------------------------------------------------------
Init ==
    /\ row = [r \in Refs |-> [status |-> "none", booking |-> 0]]
    /\ key = [k \in Keys |-> Unused]
    /\ bookings = <<>>
    /\ call = [c \in Calls |-> Idle]
    /\ begun = 0
    /\ raced = {} /\ cut = {} /\ pruned = {} /\ forgotten = {} /\ reinstated = {}

Finish(c) ==
    \/ Record(c) \/ Import(c) \/ ImportUnanswered(c) \/ ImportFails(c) \/ MarkFailed(c)
    \/ ReleaseBooking(c) \/ MarkCancelled(c)
    \/ Claim(c) \/ Replay(c) \/ Create(c) \/ PostFails(c)

Next ==
    \/ \E c \in Calls, r \in Refs : Deliver(c, r) \/ Retry(c, r) \/ ChannelCancel(c, r)
    \/ \E c \in Calls, k \in Keys : Post(c, k)
    \/ \E c \in Calls : Finish(c) \/ Die(c)
    \/ \E n \in Booked : Desk(n)
    \/ TwoDaysPass

Spec == Init /\ [][Next]_vars

\* The server goes on with every request it has.
FairSpec == Spec /\ \A c \in Calls : WF_vars(Finish(c))

-----------------------------------------------------------------------------
(* Properties.                                                             *)

\* The rows are well formed, and a key is held by the request that is booking under it or pruning
\* it: none stays with a request that has ended.
TypeOK ==
    /\ row \in [Refs -> Row] /\ key \in [Keys -> Key]
    /\ bookings \in Seq(Booking) /\ call \in [Calls -> Call]
    /\ begun \in 0 .. MaxCalls
    /\ raced \subseteq Refs /\ cut \subseteq Refs
    /\ pruned \subseteq Nat /\ forgotten \subseteq Nat /\ reinstated \subseteq Nat
    /\ \A k \in Keys : Held(k) => At(key[k].holder, "post", "create")

\* A channel's reservation is booked at most once, however often it is delivered and retried and
\* whichever of its requests die (findByRef, the UNIQUE of Record, the single transaction of
\* Import), but for a booking whose import was marked failed because its commit was not answered,
\* and unless a retry or a cancellation ran beside another import or cancellation of it.
BookedOnce ==
    \A r \in Refs \ raced : \A m, n \in MadeFor(r) \ forgotten : m = n

\* A reservation the channel has cancelled keeps no booking that takes a room, unless it was raced
\* (cancelByRef releases the booking first and marks the row after), but for a booking its row
\* had forgotten, and one the desk has reinstated since it was last cancelled.
CancelledIsReleased ==
    \A r \in Refs \ raced : row[r].status = "cancelled" =>
        MadeFor(r) \cap Taken \subseteq forgotten \cup reinstated

\* Of the bookings made under a key there is one only, the one its row answers with, until two days
\* later the row is pruned (Claim, Replay, Create), whichever requests under it failed or died.
KeyBooksOnce ==
    \A k \in Keys : MadeFor(k) \ pruned \subseteq {key[k].response}

\* A reservation recorded is imported, failed or cancelled in the end, unless the request that was
\* importing it died (import): nothing else takes it up again.
ReceivedSettles ==
    \A r \in Refs : row[r].status = "received" ~> row[r].status # "received" \/ r \in cut
=============================================================================
