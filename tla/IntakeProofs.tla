---------------------------- MODULE IntakeProofs ----------------------------
(***************************************************************************)
(* Theorems about Intake, for any references, keys, requests and rooms.    *)
(*                                                                         *)
(* That a reservation is booked once depends on what each request will     *)
(* write, and on what it has seen of the row it writes to.  The inductive  *)
(* invariant says it for the references no two requests have met on, but   *)
(* for the bookings a row has forgotten and those the desk has reinstated, *)
(* and for each key which request has it and what was booked under it.     *)
(***************************************************************************)
EXTENDS Intake, SequenceTheorems, TLAPS

\* Each kind of request takes the steps of its own handler, for a source of its own.
CallCoherent(c) ==
    /\ call[c].op = "idle" => call[c] = Idle
    /\ call[c].op = "book" => /\ call[c].step \in {"insert", "import", "fail"}
                              /\ call[c].source \in Refs
    /\ call[c].op = "retry" => call[c].step \in {"import", "fail"} /\ call[c].source \in Refs
    /\ call[c].op = "cancel" => call[c].step \in {"release", "mark"} /\ call[c].source \in Refs
    /\ call[c].op = "post" => call[c].step \in {"claim", "create"} /\ call[c].source \in Keys

CallsCoherent == \A c \in Calls : CallCoherent(c)

\* The bookings that may take a room although the row of r does not name them.
Excused(r) == MadeFor(r) \cap Taken \subseteq forgotten \cup reinstated

\* One request at a time will write the row of r, and the row is still as it found or left it.
WriterKnows(r) ==
    /\ \A c, d \in Writing(r) : c = d
    /\ \A c \in Writing(r) :
           /\ call[c].step = "import" => row[r].status \in {"received", "failed"}
           /\ call[c].step = "fail" => \/ row[r].status \in {"received", "failed"}
                                       \/ /\ row[r].status = "imported"
                                          /\ call[c].booking = row[r].booking
           /\ call[c].step = "release" => /\ row[r].status = "imported"
                                          /\ call[c].booking = row[r].booking
           /\ call[c].step = "mark" => \/ row[r].status \in {"received", "failed"}
                                       \/ row[r].status = "imported" /\ Excused(r)

\* What the row of r says of the bookings made for it.
RowKnows(r) ==
    /\ row[r].status = "none" => Writing(r) = {}
    /\ row[r].status \in {"none", "received", "failed"} => MadeFor(r) \subseteq forgotten
    /\ row[r].status = "imported" => /\ row[r].booking # 0
                                     /\ MadeFor(r) \subseteq forgotten \cup {row[r].booking}
    /\ row[r].status = "cancelled" => /\ Excused(r)
                                      /\ \A m, n \in MadeFor(r) \ forgotten : m = n

RefsCoherent == \A r \in Refs \ raced : WriterKnows(r) /\ RowKnows(r)

\* The request that books under a key has its row, and has it alone; the other keys it has are
\* old.  What was booked under a key without a response has been pruned.
KeysCoherent ==
    /\ \A c \in Calls : At(c, "post", "create") => /\ key[call[c].source].holder = c
                                                  /\ ~Stored(call[c].source)
    /\ \A k \in Keys : /\ Held(k) => k = call[key[k].holder].source \/ k \in OldKeys
                       /\ ~Stored(k) => MadeFor(k) \subseteq pruned

\* A step that brings no booking back to its room, but for those the desk reinstates.
NoneComesBack ==
    /\ forgotten \subseteq forgotten'
    /\ \A n \in Booked : n \in Taken' => n \in reinstated' \/ n \in Taken \ reinstated

IInv == TypeOK /\ CallsCoherent /\ RefsCoherent /\ KeysCoherent /\ KeyBooksOnce

-----------------------------------------------------------------------------
(* What a new booking, and a change of one, do to those of a source.       *)

LEMMA Appended ==
    ASSUME TypeOK, NEW s \in Sources, Book(s)
    PROVE  /\ bookings' \in Seq(Booking)
           /\ NewBooking \in Nat \ {0} /\ NewBooking \notin Booked
           /\ MadeFor(s)' = MadeFor(s) \cup {NewBooking}
           /\ \A t \in Sources \ {s} : MadeFor(t)' = MadeFor(t)
           /\ UNCHANGED stood => NoneComesBack
<1> DEFINE new == [source |-> s, status |-> "Approved"]
<1>1. new \in Booking
    BY DEF Booking
<1>2. bookings \in Seq(Booking) /\ bookings' = Append(bookings, new)
    BY DEF TypeOK, Book
<1> HIDE DEF new
<1>3. /\ bookings' \in Seq(Booking)
      /\ Len(bookings) \in Nat /\ DOMAIN bookings = 1 .. Len(bookings)
      /\ DOMAIN bookings' = 1 .. Len(bookings) + 1
      /\ \A n \in 1 .. Len(bookings) : bookings'[n] = bookings[n]
      /\ bookings'[Len(bookings) + 1] = new
    BY <1>1, <1>2
<1>4. new.source = s
    BY DEF new
<1>5. NewBooking \in Nat \ {0} /\ NewBooking \notin Booked
    BY <1>3 DEF NewBooking, Booked
<1>6. DOMAIN bookings' = Booked \cup {NewBooking} /\ bookings'[NewBooking].source = s
    BY <1>3, <1>4 DEF NewBooking, Booked
<1>7. \A n \in Booked : bookings'[n] = bookings[n]
    BY <1>3 DEF Booked
<1>8. \A t : MadeFor(t)' = {n \in Booked \cup {NewBooking} : bookings'[n].source = t}
    BY <1>6 DEF MadeFor, Booked
<1>9. MadeFor(s)' = MadeFor(s) \cup {NewBooking}
    BY <1>5, <1>6, <1>7, <1>8 DEF MadeFor
<1>10. \A t \in Sources \ {s} : MadeFor(t)' = MadeFor(t)
    BY <1>5, <1>6, <1>7, <1>8 DEF MadeFor
<1>11. \A n \in Booked : n \in Taken' => n \in Taken
    BY <1>7 DEF Taken, Booked
<1>12. UNCHANGED stood => NoneComesBack
    BY <1>11 DEF NoneComesBack, stood
<1> QED
    BY <1>3, <1>5, <1>9, <1>10, <1>12

LEMMA Restatused ==
    ASSUME TypeOK, NEW n, NEW to \in {"Approved", "CheckedIn", "Cancelled"},
           bookings' = [bookings EXCEPT ![n].status = to]
    PROVE  /\ bookings' \in Seq(Booking)
           /\ \A t : MadeFor(t)' = MadeFor(t)
           /\ \A m \in Booked \ {n} : m \in Taken' => m \in Taken
           /\ to = "Cancelled" => n \notin Taken'
<1>1. bookings \in Seq(Booking) /\ DOMAIN bookings = 1 .. Len(bookings) /\ Len(bookings) \in Nat
    BY DEF TypeOK
<1>2. \A m \in Booked : bookings[m] \in Booking
    BY <1>1 DEF Booked
<1>3. DOMAIN bookings' = Booked
    BY DEF Booked
<1>4. \A m \in Booked : /\ bookings'[m] \in Booking /\ bookings'[m].source = bookings[m].source
                        /\ bookings'[m].status = IF m = n THEN to ELSE bookings[m].status
    BY <1>2 DEF Booking, Booked
<1>5. bookings' \in [1 .. Len(bookings) -> Booking]
    BY <1>1, <1>4 DEF Booked
<1>6. bookings' \in Seq(Booking)
    BY <1>1, <1>5
<1>7. \A t : MadeFor(t)' = MadeFor(t)
    BY <1>3, <1>4 DEF MadeFor, Booked
<1>8. (\A m \in Booked \ {n} : m \in Taken' => m \in Taken) /\ (to = "Cancelled" => n \notin Taken')
    BY <1>3, <1>4 DEF Taken, Booked
<1> QED
    BY <1>6, <1>7, <1>8

-----------------------------------------------------------------------------
(* A step that leaves a row and its bookings, and adds no request to those *)
(* that will write it.                                                     *)

LEMMA RefFrame ==
    ASSUME NEW r \in Refs, WriterKnows(r), RowKnows(r),
           row'[r] = row[r], MadeFor(r)' = MadeFor(r), NoneComesBack,
           Writing(r)' \subseteq Writing(r), \A c \in Writing(r)' : call'[c] = call[c]
    PROVE  WriterKnows(r)' /\ RowKnows(r)'
<1>1. Excused(r) => Excused(r)'
    BY DEF Excused, NoneComesBack, MadeFor
<1>2. WriterKnows(r)'
    BY <1>1 DEF WriterKnows
<1>3. RowKnows(r)'
    BY <1>1 DEF RowKnows, NoneComesBack
<1> QED
    BY <1>2, <1>3

\* One request moves, and is not, or no longer, about to write the row of r.
LEMMA OtherRefs ==
    ASSUME RefsCoherent, NEW c \in Calls, \A d \in Calls \ {c} : call'[d] = call[d],
           raced \subseteq raced', NEW r \in Refs \ raced', c \notin Writing(r)',
           row'[r] = row[r], MadeFor(r)' = MadeFor(r), NoneComesBack
    PROVE  WriterKnows(r)' /\ RowKnows(r)'
<1>1. r \in Refs \ raced /\ WriterKnows(r) /\ RowKnows(r)
    BY DEF RefsCoherent
<1>2. \A d \in Writing(r)' : d \in Calls \ {c} /\ d \in Writing(r)
    BY DEF Writing
<1> QED
    BY <1>1, <1>2, RefFrame

\* No request gains or loses a key.
LEMMA KeysFrame ==
    ASSUME TypeOK, KeysCoherent, KeyBooksOnce, key' = key, pruned' = pruned,
           \A k \in Keys : MadeFor(k)' = MadeFor(k),
           \A c \in Calls : \/ call'[c] = call[c]
                            \/ ~At(c, "post", "create") /\ ~At(c, "post", "create")'
    PROVE  KeysCoherent' /\ KeyBooksOnce'
<1>1. \A k \in Keys : (Stored(k)' <=> Stored(k)) /\ (Held(k)' <=> Held(k))
    BY DEF Stored, Held
<1>2. OldKeys' = OldKeys
    BY DEF OldKeys, Stored
<1>3. \A c \in Calls : At(c, "post", "create")' => At(c, "post", "create") /\ call'[c] = call[c]
    BY DEF At
<1>4. (\A c \in Calls : At(c, "post", "create") => /\ key[call[c].source].holder = c
                                                  /\ ~Stored(call[c].source))'
    BY <1>3 DEF KeysCoherent, Stored
<1>5. \A k \in Keys : Held(k)' => k = call'[key'[k].holder].source \/ k \in OldKeys'
    <2> SUFFICES ASSUME NEW k \in Keys, Held(k)'
                 PROVE  k = call'[key'[k].holder].source \/ k \in OldKeys'
        OBVIOUS
    <2>1. Held(k) /\ key[k].holder \in Calls /\ At(key[k].holder, "post", "create")
        BY <1>1 DEF TypeOK, Key, Held
    <2>2. call'[key[k].holder] = call[key[k].holder]
        BY <2>1
    <2> QED
        BY <1>2, <2>1, <2>2 DEF KeysCoherent
<1>6. \A k \in Keys : ~Stored(k)' => MadeFor(k)' \subseteq pruned'
    BY <1>1 DEF KeysCoherent
<1>7. KeysCoherent'
    BY <1>4, <1>5, <1>6 DEF KeysCoherent
<1>8. KeyBooksOnce'
    BY DEF KeyBooksOnce
<1> QED
    BY <1>7, <1>8


\* What a request is after it begins or ends, and after its next step.
LEMMA Served ==
    ASSUME TypeOK, NEW c \in Calls, NEW x \in Call, Serve(c, x)
    PROVE  /\ call' \in [Calls -> Call] /\ call'[c] = x
           /\ \A d \in Calls \ {c} : call'[d] = call[d]
BY DEF TypeOK, Serve

LEMMA Stepped ==
    ASSUME TypeOK, NEW c \in Calls, Step(c, "import") \/ Step(c, "fail") \/ Step(c, "mark")
                                    \/ Step(c, "create")
    PROVE  /\ call' \in [Calls -> Call]
           /\ call'[c].op = call[c].op /\ call'[c].source = call[c].source
           /\ call'[c].booking = call[c].booking
           /\ \A s : Step(c, s) => call'[c].step = s
           /\ \A d \in Calls \ {c} : call'[d] = call[d]
<1>1. call \in [Calls -> Call] /\ call[c] \in Call
    BY DEF TypeOK
<1>2. PICK s \in {"import", "fail", "mark", "create"} : call' = [call EXCEPT ![c].step = s]
    BY DEF Step
<1>3. [call[c] EXCEPT !.step = s] \in Call
    BY <1>1, <1>2 DEF Call
<1>4. call'[c] = [call[c] EXCEPT !.step = s] /\ \A d \in Calls \ {c} : call'[d] = call[d]
    BY <1>1, <1>2
<1>5. call' \in [Calls -> Call]
    BY <1>1, <1>2, <1>3
<1>6. \A u : Step(c, u) => call'[c].step = u
    BY <1>1 DEF Step, Call
<1> QED
    BY <1>1, <1>4, <1>5, <1>6 DEF Call

LEMMA IdleCall ==
    /\ Idle \in Call /\ Idle.op = "idle" /\ Idle.step = "insert" /\ Idle.source = NoSource
    /\ Idle.booking = 0
BY DEF Idle, Call, Sources

LEMMA Ended ==
    ASSUME TypeOK, NEW c \in Calls, End(c)
    PROVE  /\ call' \in [Calls -> Call] /\ call'[c] = Idle
           /\ \A d \in Calls \ {c} : call'[d] = call[d]
BY Served, IdleCall DEF End

\* The type invariant, when no request gains or loses a key.
LEMMA TypeFrame ==
    ASSUME TypeOK, key' = key, call' \in [Calls -> Call],
           \A c \in Calls : call'[c] = call[c] \/ ~At(c, "post", "create"),
           row' \in [Refs -> Row], bookings' \in Seq(Booking), begun' \in 0 .. MaxCalls,
           raced' \subseteq Refs, cut' \subseteq Refs, pruned' = pruned,
           forgotten' \subseteq Nat, reinstated' \subseteq Nat
    PROVE  TypeOK'
<1>1. (\A k \in Keys : Held(k) => At(key[k].holder, "post", "create"))'
    BY DEF TypeOK, Held, At, Key
<1> QED
    BY <1>1 DEF TypeOK

\* The request that is, or will be, the only one to write the row of r.
LEMMA ActorRef ==
    ASSUME RefsCoherent, NEW c \in Calls, \A d \in Calls \ {c} : call'[d] = call[d],
           NEW r \in Refs \ raced, c \in Writing(r) \/ Writing(r) = {},
           c \in Writing(r)' =>
               /\ call'[c].step = "import" => row'[r].status \in {"received", "failed"}
               /\ call'[c].step = "fail" => \/ row'[r].status \in {"received", "failed"}
                                            \/ /\ row'[r].status = "imported"
                                               /\ call'[c].booking = row'[r].booking
               /\ call'[c].step = "release" => /\ row'[r].status = "imported"
                                               /\ call'[c].booking = row'[r].booking
               /\ call'[c].step = "mark" =>
                      \/ row'[r].status \in {"received", "failed"}
                      \/ row'[r].status = "imported" /\ Excused(r)'
    PROVE  WriterKnows(r)'
<1>1. \A d \in Writing(r) : d = c
    BY DEF RefsCoherent, WriterKnows
<1>2. \A d \in Writing(r)' : d = c
    BY <1>1 DEF Writing
<1> QED
    BY <1>2 DEF WriterKnows

-----------------------------------------------------------------------------
(* A step of one request for a channel's reservation r keeps the           *)
(* invariant, when it does so for r.                                       *)

LEMMA RefStep ==
    ASSUME IInv, NEW c \in Calls, NEW r \in Refs, key' = key, pruned' = pruned,
           call' \in [Calls -> Call], \A d \in Calls \ {c} : call'[d] = call[d],
           call[c].op # "post", call'[c].op # "post", CallCoherent(c)',
           call'[c].source \in {r, NoSource},
           row' \in [Refs -> Row], \A s \in Refs \ {r} : row'[s] = row[s],
           bookings' \in Seq(Booking), \A s \in Sources \ {r} : MadeFor(s)' = MadeFor(s),
           NoneComesBack, forgotten' \subseteq Nat, reinstated' \subseteq Nat,
           raced \subseteq raced', raced' \subseteq Refs, cut' \subseteq Refs,
           begun' \in 0 .. MaxCalls,
           r \notin raced' => WriterKnows(r)' /\ RowKnows(r)'
    PROVE  IInv'
<1> USE DEF IInv
<1>1. ~At(c, "post", "create") /\ ~At(c, "post", "create")'
    BY DEF At
<1>2. TypeOK'
    BY <1>1, TypeFrame
<1>3. CallsCoherent'
    <2> SUFFICES ASSUME NEW d \in Calls PROVE CallCoherent(d)'
        BY DEF CallsCoherent
    <2> QED
        BY DEF CallsCoherent, CallCoherent
<1>4. RefsCoherent'
    <2> SUFFICES ASSUME NEW s \in Refs \ raced', s # r PROVE WriterKnows(s)' /\ RowKnows(s)'
        BY DEF RefsCoherent
    <2>1. c \notin Writing(s)'
        BY IntakeAssumption DEF Writing
    <2>2. MadeFor(s)' = MadeFor(s)
        BY DEF Sources
    <2> QED
        BY <2>1, <2>2, OtherRefs
<1>5. KeysCoherent' /\ KeyBooksOnce'
    BY <1>1, KeysFrame, IntakeAssumption DEF Sources
<1> QED
    BY <1>2, <1>3, <1>4, <1>5

LEMMA Unbooked ==
    ASSUME bookings' = bookings
    PROVE  /\ Taken' = Taken /\ \A s : MadeFor(s)' = MadeFor(s)
           /\ forgotten \subseteq forgotten' /\ reinstated' = reinstated => NoneComesBack
BY DEF MadeFor, Taken, Booked, NoneComesBack

-----------------------------------------------------------------------------
(* One lemma for each step of a channel's reservations.                    *)

LEMMA DeliverKeeps ==
    ASSUME IInv, NEW c \in Calls, NEW r \in Refs, Deliver(c, r)
    PROVE  IInv'
<1> USE DEF IInv
<1> DEFINE x == [Idle EXCEPT !.op = "book", !.source = r]
<1>1. /\ call[c] = Idle
      /\ UNCHANGED <<row, key, bookings, raced, cut, pruned, forgotten, reinstated>>
      /\ begun' = begun + 1 /\ begun < MaxCalls
      /\ call' = call \/ Serve(c, x)
    BY DEF Deliver, Begin, seen, stood
<1>2. x \in Call /\ x.op = "book" /\ x.step = "insert" /\ x.source = r
    BY DEF Idle, Call, Sources
<1> HIDE DEF x
<1>3. /\ call' \in [Calls -> Call] /\ call'[c] \in {Idle, x}
      /\ \A d \in Calls \ {c} : call'[d] = call[d]
    BY <1>1, <1>2, Served DEF TypeOK
<1>4. begun' \in 0 .. MaxCalls
    BY <1>1, IntakeAssumption DEF TypeOK
<1>5. call[c].op # "post" /\ call'[c].op # "post" /\ call'[c].source \in {r, NoSource}
    BY <1>1, <1>2, <1>3, IdleCall
<1>6. CallCoherent(c)'
    BY <1>2, <1>3, IdleCall DEF CallCoherent
<1>7. c \notin Writing(r)'
    BY <1>2, <1>3, IdleCall DEF Writing
<1>8. r \notin raced' => WriterKnows(r)' /\ RowKnows(r)'
    BY <1>1, <1>3, <1>7, Unbooked, OtherRefs
<1> QED
    BY <1>1, <1>3, <1>4, <1>5, <1>6, <1>8, Unbooked, RefStep DEF TypeOK

LEMMA RecordKeeps ==
    ASSUME IInv, NEW c \in Calls, Record(c)
    PROVE  IInv'
<1> USE DEF IInv
<1>1. PICK r \in Refs : r = call[c].source
    BY DEF Record, At, CallsCoherent, CallCoherent
<1>2. /\ At(c, "book", "insert")
      /\ UNCHANGED <<key, bookings, begun, cut, pruned, forgotten, reinstated>>
    BY DEF Record, seen, stood
<1>3. call[c].op # "post" /\ c \notin Writing(r)
    BY <1>2 DEF At, Writing
<1>4. CASE End(c) /\ UNCHANGED <<row, raced>>
    <2>1. /\ call' \in [Calls -> Call] /\ call'[c] = Idle
          /\ \A d \in Calls \ {c} : call'[d] = call[d]
        BY <1>4, Ended
    <2>2. CallCoherent(c)' /\ c \notin Writing(r)' /\ call'[c].source = NoSource /\ call'[c].op # "post"
        BY <2>1, IdleCall DEF CallCoherent, Writing
    <2>3. r \notin raced' => WriterKnows(r)' /\ RowKnows(r)'
        BY <1>2, <1>4, <2>1, <2>2, Unbooked, OtherRefs
    <2> QED
        BY <1>2, <1>3, <1>4, <2>1, <2>2, <2>3, Unbooked, RefStep DEF TypeOK
<1>5. CASE /\ ~Known(r) /\ row' = [row EXCEPT ![r].status = "received"]
           /\ Step(c, "import") /\ Meets(r)
    <2>1. /\ call' \in [Calls -> Call] /\ \A d \in Calls \ {c} : call'[d] = call[d]
          /\ call'[c].op = "book" /\ call'[c].source = r /\ call'[c].step = "import"
        BY <1>1, <1>2, <1>5, Stepped DEF At
    <2>2. CallCoherent(c)'
        BY <2>1 DEF CallCoherent
    <2>3. /\ row' \in [Refs -> Row] /\ row'[r].status = "received"
          /\ \A s \in Refs \ {r} : row'[s] = row[s]
        BY <1>5 DEF TypeOK, Row, Statuses
    <2>4. raced \subseteq raced' /\ raced' \subseteq Refs
        BY <1>5 DEF Meets, TypeOK
    <2>5. ASSUME r \notin raced' PROVE WriterKnows(r)' /\ RowKnows(r)'
        <3>1. Writing(r) = {} /\ row[r].status = "none" /\ r \notin raced
            BY <1>5, <2>5 DEF Meets, Known
        <3>2. WriterKnows(r)'
            BY <2>1, <2>3, <3>1, ActorRef
        <3>3. MadeFor(r)' \subseteq forgotten'
            BY <1>2, <3>1, Unbooked DEF RefsCoherent, RowKnows
        <3> QED
            BY <2>3, <3>2, <3>3 DEF RowKnows
    <2>6. /\ bookings' \in Seq(Booking) /\ begun' \in 0 .. MaxCalls /\ cut' \subseteq Refs
          /\ forgotten' \subseteq Nat /\ reinstated' \subseteq Nat
        BY <1>2 DEF TypeOK
    <2>7. NoneComesBack /\ \A s \in Sources \ {r} : MadeFor(s)' = MadeFor(s)
        BY <1>2, Unbooked
    <2> QED
        BY <1>2, <1>3, <2>1, <2>2, <2>3, <2>4, <2>5, <2>6, <2>7, RefStep
<1> QED
    BY <1>1, <1>4, <1>5 DEF Record

LEMMA RetryKeeps ==
    ASSUME IInv, NEW c \in Calls, NEW r \in Refs, Retry(c, r)
    PROVE  IInv'
<1> USE DEF IInv
<1> DEFINE x == [Idle EXCEPT !.op = "retry", !.step = "import", !.source = r]
<1>1. /\ call[c] = Idle /\ UNCHANGED <<row, key, bookings, cut, pruned, forgotten, reinstated>>
      /\ begun' = begun + 1 /\ begun < MaxCalls
      /\ row[r].status = "failed" /\ Serve(c, x) /\ Meets(r)
    BY DEF Retry, Begin, seen, stood, MayRetry
<1>2. x \in Call /\ x.op = "retry" /\ x.step = "import" /\ x.source = r
    BY DEF Idle, Call, Sources
<1> HIDE DEF x
<1>3. /\ call' \in [Calls -> Call] /\ call'[c] = x
      /\ \A d \in Calls \ {c} : call'[d] = call[d]
    BY <1>1, <1>2, Served DEF TypeOK
<1>4. raced \subseteq raced' /\ raced' \subseteq Refs /\ begun' \in 0 .. MaxCalls
    BY <1>1, IntakeAssumption DEF Meets, TypeOK
<1>5. CallCoherent(c)' /\ call[c].op # "post"
    BY <1>1, <1>2, <1>3, IdleCall DEF CallCoherent
<1>6. ASSUME r \notin raced' PROVE WriterKnows(r)' /\ RowKnows(r)'
    <2>1. Writing(r) = {} /\ r \notin raced
        BY <1>1, <1>6 DEF Meets
    <2>2. WriterKnows(r)'
        BY <1>1, <1>2, <1>3, <2>1, ActorRef
    <2>3. MadeFor(r)' \subseteq forgotten'
        BY <1>1, <2>1, Unbooked DEF RefsCoherent, RowKnows
    <2> QED
        BY <1>1, <2>2, <2>3 DEF RowKnows
<1> QED
    BY <1>1, <1>2, <1>3, <1>4, <1>5, <1>6, Unbooked, RefStep DEF TypeOK

\* A request that imports, or marks a row failed, is one for a reservation of a channel.
LEMMA Importing ==
    ASSUME IInv, NEW c \in Calls, call[c].step \in {"import", "fail"}
    PROVE  /\ call[c].op \in {"book", "retry"} /\ call[c].source \in Refs
           /\ c \in Writing(call[c].source)
           /\ call[c].source \notin raced => /\ WriterKnows(call[c].source)
                                             /\ RowKnows(call[c].source)
<1> USE DEF IInv
<1>1. call[c].op \in {"book", "retry"} /\ call[c].source \in Refs
    <2>1. call[c].op # "idle"
        BY IdleCall DEF CallsCoherent, CallCoherent
    <2>2. call[c] \in Call
        BY DEF TypeOK
    <2> QED
        BY <2>1, <2>2 DEF CallsCoherent, CallCoherent, Call
<1>2. c \in Writing(call[c].source)
    BY DEF Writing
<1> QED
    BY <1>1, <1>2 DEF RefsCoherent

\* The import commits, whether its request ends with it or goes on to the catch.
LEMMA CommitKeeps ==
    ASSUME IInv, NEW c \in Calls, NEW r \in Refs, r = call[c].source, CommitImport(c),
           call' \in [Calls -> Call], \A d \in Calls \ {c} : call'[d] = call[d],
           CallCoherent(c)', call'[c].op # "post", call'[c].source \in {r, NoSource},
           c \in Writing(r)' => call'[c].step = "fail" /\ call'[c].booking = NewBooking
    PROVE  IInv'
<1> USE DEF IInv
<1>1. /\ call[c].step = "import" /\ Book(r)
      /\ UNCHANGED <<key, begun, raced, cut, pruned, forgotten, reinstated>>
      /\ row' = [row EXCEPT ![r] = [status |-> "imported", booking |-> NewBooking]]
    BY DEF CommitImport, seen, stood
<1>2. /\ call[c].op # "post" /\ c \in Writing(r)
      /\ r \notin raced => MadeFor(r) \subseteq forgotten
    BY <1>1, Importing DEF WriterKnows, RowKnows
<1>3. /\ bookings' \in Seq(Booking) /\ NewBooking \in Nat \ {0}
      /\ MadeFor(r)' = MadeFor(r) \cup {NewBooking}
      /\ \A t \in Sources \ {r} : MadeFor(t)' = MadeFor(t)
      /\ NoneComesBack
    BY <1>1, Appended DEF Sources, stood
<1>4. [status |-> "imported", booking |-> NewBooking] \in Row
    BY <1>3 DEF Row, Statuses
<1>5. /\ row' \in [Refs -> Row] /\ \A s \in Refs \ {r} : row'[s] = row[s]
      /\ row'[r].status = "imported" /\ row'[r].booking = NewBooking
    BY <1>1, <1>4 DEF TypeOK
<1>6. ASSUME r \notin raced' PROVE WriterKnows(r)' /\ RowKnows(r)'
    <2>1. WriterKnows(r)'
        BY <1>1, <1>2, <1>5, <1>6, ActorRef
    <2>2. MadeFor(r)' \subseteq forgotten' \cup {row'[r].booking} /\ row'[r].booking # 0
        BY <1>1, <1>2, <1>3, <1>5, <1>6
    <2> QED
        BY <1>5, <2>1, <2>2 DEF RowKnows
<1> QED
    BY <1>1, <1>2, <1>3, <1>5, <1>6, RefStep DEF TypeOK

LEMMA ImportKeeps ==
    ASSUME IInv, NEW c \in Calls, Import(c)
    PROVE  IInv'
<1> USE DEF IInv
<1>1. CommitImport(c) /\ End(c) /\ call[c].step = "import"
    BY DEF Import, CommitImport
<1>2. PICK r \in Refs : r = call[c].source
    BY <1>1, Importing
<1>3. /\ call' \in [Calls -> Call] /\ call'[c] = Idle
      /\ \A d \in Calls \ {c} : call'[d] = call[d]
    BY <1>1, Ended
<1>4. CallCoherent(c)' /\ c \notin Writing(r)' /\ call'[c].source = NoSource /\ call'[c].op # "post"
    BY <1>3, IdleCall DEF CallCoherent, Writing
<1> QED
    BY <1>1, <1>2, <1>3, <1>4, CommitKeeps

LEMMA ImportUnansweredKeeps ==
    ASSUME IInv, NEW c \in Calls, ImportUnanswered(c)
    PROVE  IInv'
<1> USE DEF IInv
<1> DEFINE x == [call[c] EXCEPT !.step = "fail", !.booking = NewBooking]
<1>1. CommitImport(c) /\ Serve(c, x) /\ call[c].step = "import"
    BY DEF ImportUnanswered, CommitImport
<1>2. PICK r \in Refs : r = call[c].source
    BY <1>1, Importing
<1>3. call[c].op \in {"book", "retry"} /\ call[c] \in Call /\ NewBooking \in Nat
    BY <1>1, Importing DEF TypeOK, NewBooking
<1>4. x \in Call /\ x.op = call[c].op /\ x.source = r /\ x.step = "fail" /\ x.booking = NewBooking
    BY <1>2, <1>3 DEF Call
<1> HIDE DEF x
<1>5. call' \in [Calls -> Call] /\ call'[c] = x /\ \A d \in Calls \ {c} : call'[d] = call[d]
    BY <1>1, <1>4, Served
<1>6. CallCoherent(c)' /\ call'[c].op # "post"
    BY <1>3, <1>4, <1>5 DEF CallCoherent
<1> QED
    BY <1>1, <1>2, <1>4, <1>5, <1>6, CommitKeeps

LEMMA ImportFailsKeeps ==
    ASSUME IInv, NEW c \in Calls, ImportFails(c)
    PROVE  IInv'
<1> USE DEF IInv
<1>1. PICK r \in Refs : r = call[c].source
    BY Importing DEF ImportFails
<1>2. /\ call[c].step = "import" /\ Step(c, "fail")
      /\ UNCHANGED <<row, key, bookings, begun, raced, cut, pruned, forgotten, reinstated>>
    BY DEF ImportFails, seen, stood
<1>3. /\ call[c].op \in {"book", "retry"} /\ c \in Writing(r)
      /\ r \notin raced => row[r].status \in {"received", "failed"} /\ MadeFor(r) \subseteq forgotten
    BY <1>1, <1>2, Importing DEF WriterKnows, RowKnows
<1>4. /\ call' \in [Calls -> Call] /\ call'[c].op = call[c].op /\ call'[c].source = r
      /\ call'[c].step = "fail" /\ \A d \in Calls \ {c} : call'[d] = call[d]
    BY <1>1, <1>2, Stepped
<1>5. CallCoherent(c)'
    BY <1>3, <1>4 DEF CallCoherent
<1>6. ASSUME r \notin raced' PROVE WriterKnows(r)' /\ RowKnows(r)'
    <2>1. WriterKnows(r)'
        BY <1>2, <1>3, <1>4, <1>6, ActorRef
    <2>2. MadeFor(r)' \subseteq forgotten'
        BY <1>2, <1>3, <1>6, Unbooked
    <2> QED
        BY <1>2, <1>3, <1>6, <2>1, <2>2 DEF RowKnows
<1> QED
    BY <1>2, <1>3, <1>4, <1>5, <1>6, Unbooked, RefStep DEF TypeOK

LEMMA MarkFailedKeeps ==
    ASSUME IInv, NEW c \in Calls, MarkFailed(c)
    PROVE  IInv'
<1> USE DEF IInv
<1>1. PICK r \in Refs : r = call[c].source
    BY Importing DEF MarkFailed
<1>2. /\ call[c].step = "fail" /\ End(c)
      /\ UNCHANGED <<key, bookings, begun, raced, cut, pruned, reinstated>>
      /\ row' = [row EXCEPT ![r].status = "failed"]
      /\ forgotten' = forgotten \cup ({call[c].booking} \ {0})
    BY <1>1 DEF MarkFailed
<1>3. /\ call[c].op # "post" /\ c \in Writing(r)
      /\ r \notin raced => MadeFor(r) \subseteq forgotten'
    BY <1>1, <1>2, Importing DEF WriterKnows, RowKnows
<1>4. /\ call' \in [Calls -> Call] /\ call'[c] = Idle
      /\ \A d \in Calls \ {c} : call'[d] = call[d]
    BY <1>2, Ended
<1>5. CallCoherent(c)' /\ c \notin Writing(r)' /\ call'[c].source = NoSource /\ call'[c].op # "post"
    BY <1>4, IdleCall DEF CallCoherent, Writing
<1>6. /\ row' \in [Refs -> Row] /\ row'[r].status = "failed"
      /\ \A s \in Refs \ {r} : row'[s] = row[s]
    BY <1>2 DEF TypeOK, Row, Statuses
<1>7. ASSUME r \notin raced' PROVE WriterKnows(r)' /\ RowKnows(r)'
    <2>1. WriterKnows(r)'
        BY <1>2, <1>3, <1>4, <1>5, <1>7, ActorRef
    <2>2. MadeFor(r)' \subseteq forgotten'
        BY <1>2, <1>3, <1>7, Unbooked
    <2> QED
        BY <1>6, <2>1, <2>2 DEF RowKnows
<1>8. forgotten' \subseteq Nat
    BY <1>2 DEF TypeOK, Call
<1> QED
    BY <1>2, <1>3, <1>4, <1>5, <1>6, <1>7, <1>8, Unbooked, RefStep DEF TypeOK

LEMMA ChannelCancelKeeps ==
    ASSUME IInv, NEW c \in Calls, NEW r \in Refs, ChannelCancel(c, r)
    PROVE  IInv'
<1> USE DEF IInv
<1> DEFINE x == [Idle EXCEPT !.op = "cancel", !.source = r, !.booking = row[r].booking,
                             !.step = IF ToRelease(r) THEN "release" ELSE "mark"]
<1>1. /\ call[c] = Idle /\ UNCHANGED <<row, key, bookings, cut, pruned, forgotten, reinstated>>
      /\ begun' = begun + 1 /\ begun < MaxCalls
      /\ \/ call' = call /\ raced' = raced
         \/ row[r].status \in {"received", "imported", "failed"} /\ Serve(c, x) /\ Meets(r)
    BY DEF ChannelCancel, Begin, seen, stood, TypeOK, Row, Statuses
<1>2. /\ x \in Call /\ x.op = "cancel" /\ x.source = r /\ x.booking = row[r].booking
      /\ x.step = IF ToRelease(r) THEN "release" ELSE "mark"
    BY DEF Idle, Call, Sources, TypeOK, Row
<1> HIDE DEF x
<1>3. /\ call' \in [Calls -> Call] /\ call'[c] \in {Idle, x}
      /\ \A d \in Calls \ {c} : call'[d] = call[d]
    BY <1>1, <1>2, Served DEF TypeOK
<1>4. raced \subseteq raced' /\ raced' \subseteq Refs /\ begun' \in 0 .. MaxCalls
    BY <1>1, IntakeAssumption DEF Meets, TypeOK
<1>5. /\ CallCoherent(c)' /\ call[c].op # "post" /\ call'[c].op # "post"
      /\ call'[c].source \in {r, NoSource}
    BY <1>1, <1>2, <1>3, IdleCall DEF CallCoherent
<1>6. ASSUME r \notin raced' PROVE WriterKnows(r)' /\ RowKnows(r)'
    <2>1. CASE call' = call /\ raced' = raced
        <3>1. c \notin Writing(r)'
            BY <1>1, <2>1, IdleCall DEF Writing
        <3> QED
            BY <1>1, <1>3, <1>6, <2>1, <3>1, Unbooked, OtherRefs
    <2>2. CASE row[r].status \in {"received", "imported", "failed"} /\ Serve(c, x) /\ Meets(r)
        <3>1. Writing(r) = {} /\ r \notin raced /\ RowKnows(r)
            BY <1>6, <2>2 DEF Meets, RefsCoherent
        <3>2. call'[c] = x
            BY <1>2, <2>2, Served
        <3>3. row[r].status = "imported" => row[r].booking # 0
            BY <3>1 DEF RowKnows
        <3>4. /\ x.step = "release" => row[r].status = "imported"
              /\ x.step = "mark" => row[r].status \in {"received", "failed"}
            BY <1>2, <2>2, <3>3 DEF ToRelease
        <3>5. WriterKnows(r)'
            BY <1>1, <1>2, <1>3, <3>1, <3>2, <3>4, ActorRef
        <3>6. RowKnows(r)'
            BY <1>1, <2>2, <3>1, Unbooked DEF RowKnows
        <3> QED
            BY <3>5, <3>6
    <2> QED
        BY <1>1, <2>1, <2>2
<1> QED
    BY <1>1, <1>3, <1>4, <1>5, <1>6, Unbooked, RefStep DEF TypeOK

\* A request that releases a booking, or marks a row cancelled, is a channel's cancellation.
LEMMA Cancelling ==
    ASSUME IInv, NEW c \in Calls, call[c].op = "cancel"
    PROVE  /\ call[c].source \in Refs /\ c \in Writing(call[c].source)
           /\ call[c].source \notin raced => /\ WriterKnows(call[c].source)
                                             /\ RowKnows(call[c].source)
BY DEF IInv, CallsCoherent, CallCoherent, RefsCoherent, Writing

LEMMA ReleaseBookingKeeps ==
    ASSUME IInv, NEW c \in Calls, ReleaseBooking(c)
    PROVE  IInv'
<1> USE DEF IInv
<1>1. PICK r \in Refs : r = call[c].source
    BY Cancelling DEF ReleaseBooking, At
<1>2. PICK n : n = call[c].booking
    OBVIOUS
<1>3. /\ call[c].op = "cancel" /\ call[c].step = "release"
      /\ UNCHANGED <<row, key, begun, raced, cut, pruned, forgotten>>
      /\ \/ /\ bookings[n].status = "Approved" /\ Step(c, "mark")
            /\ bookings' = [bookings EXCEPT ![n].status = "Cancelled"]
            /\ reinstated' = reinstated \ {n}
         \/ End(c) /\ UNCHANGED <<bookings, reinstated>>
    BY <1>2 DEF ReleaseBooking, At
<1>4. /\ c \in Writing(r)
      /\ r \notin raced => /\ RowKnows(r) /\ WriterKnows(r)
                           /\ row[r].status = "imported" /\ MadeFor(r) \subseteq forgotten \cup {n}
    BY <1>1, <1>2, <1>3, Cancelling DEF WriterKnows, RowKnows
<1>5. CASE End(c) /\ UNCHANGED <<bookings, reinstated>>
    <2>1. /\ call' \in [Calls -> Call] /\ call'[c] = Idle
          /\ \A d \in Calls \ {c} : call'[d] = call[d]
        BY <1>5, Ended
    <2>2. CallCoherent(c)' /\ c \notin Writing(r)' /\ call'[c].source = NoSource /\ call'[c].op # "post"
        BY <2>1, IdleCall DEF CallCoherent, Writing
    <2>3. r \notin raced' => WriterKnows(r)' /\ RowKnows(r)'
        BY <1>3, <1>5, <2>1, <2>2, Unbooked, OtherRefs
    <2> QED
        BY <1>3, <1>5, <2>1, <2>2, <2>3, Unbooked, RefStep DEF TypeOK
<1>6. CASE /\ bookings[n].status = "Approved" /\ Step(c, "mark")
           /\ bookings' = [bookings EXCEPT ![n].status = "Cancelled"]
           /\ reinstated' = reinstated \ {n}
    <2>1. /\ call' \in [Calls -> Call] /\ call'[c].op = "cancel" /\ call'[c].source = r
          /\ call'[c].step = "mark" /\ \A d \in Calls \ {c} : call'[d] = call[d]
        BY <1>1, <1>3, <1>6, Stepped
    <2>2. CallCoherent(c)'
        BY <2>1 DEF CallCoherent
    <2>3. /\ bookings' \in Seq(Booking) /\ \A t : MadeFor(t)' = MadeFor(t)
          /\ n \notin Taken' /\ \A m \in Booked \ {n} : m \in Taken' => m \in Taken
        BY <1>6, Restatused
    <2> NoneComesBack
        BY <1>3, <1>6, <2>3 DEF NoneComesBack
    <2>4. ASSUME r \notin raced' PROVE WriterKnows(r)' /\ RowKnows(r)'
        <3>1. row'[r].status = "imported" /\ Excused(r)'
            BY <1>3, <1>4, <2>3, <2>4 DEF Excused
        <3>2. WriterKnows(r)'
            BY <1>3, <1>4, <2>1, <2>4, <3>1, ActorRef
        <3> QED
            BY <1>3, <1>4, <2>3, <2>4, <3>1, <3>2 DEF RowKnows
    <2>5. forgotten' \subseteq Nat /\ reinstated' \subseteq Nat
        BY <1>3, <1>6 DEF TypeOK
    <2> QED
        BY <1>3, <2>1, <2>2, <2>3, <2>4, <2>5, RefStep DEF TypeOK
<1> QED
    BY <1>3, <1>5, <1>6

LEMMA MarkCancelledKeeps ==
    ASSUME IInv, NEW c \in Calls, MarkCancelled(c)
    PROVE  IInv'
<1> USE DEF IInv
<1>1. PICK r \in Refs : r = call[c].source
    BY Cancelling DEF MarkCancelled, At
<1>2. /\ call[c].op = "cancel" /\ call[c].step = "mark" /\ End(c)
      /\ UNCHANGED <<key, bookings, begun, raced, cut, pruned, forgotten, reinstated>>
      /\ row' = [row EXCEPT ![r].status = "cancelled"]
    BY <1>1 DEF MarkCancelled, At, seen, stood
<1>3. /\ c \in Writing(r)
      /\ r \notin raced => Excused(r) /\ \A m, n \in MadeFor(r) \ forgotten : m = n
    BY <1>1, <1>2, Cancelling DEF WriterKnows, RowKnows, Excused
<1>4. /\ call' \in [Calls -> Call] /\ call'[c] = Idle
      /\ \A d \in Calls \ {c} : call'[d] = call[d]
    BY <1>2, Ended
<1>5. CallCoherent(c)' /\ c \notin Writing(r)' /\ call'[c].source = NoSource /\ call'[c].op # "post"
    BY <1>4, IdleCall DEF CallCoherent, Writing
<1>6. /\ row' \in [Refs -> Row] /\ row'[r].status = "cancelled"
      /\ \A s \in Refs \ {r} : row'[s] = row[s]
    BY <1>2 DEF TypeOK, Row, Statuses
<1>7. ASSUME r \notin raced' PROVE WriterKnows(r)' /\ RowKnows(r)'
    <2>1. WriterKnows(r)'
        BY <1>2, <1>3, <1>4, <1>5, <1>7, ActorRef
    <2>2. Excused(r)' /\ \A m, n \in MadeFor(r)' \ forgotten' : m = n
        BY <1>2, <1>3, <1>7, Unbooked DEF Excused
    <2> QED
        BY <1>6, <2>1, <2>2 DEF RowKnows
<1> QED
    BY <1>2, <1>3, <1>4, <1>5, <1>6, <1>7, Unbooked, RefStep DEF TypeOK

-----------------------------------------------------------------------------
(* A step of one request for a key leaves what the channels' rows say.     *)

LEMMA KeyStep ==
    ASSUME IInv, NEW c \in Calls, row' = row, raced' = raced,
           \A d \in Calls \ {c} : call'[d] = call[d], CallCoherent(c)',
           call'[c].source \notin Refs,
           \A r \in Refs : MadeFor(r)' = MadeFor(r), NoneComesBack
    PROVE  CallsCoherent' /\ RefsCoherent'
<1> USE DEF IInv
<1>1. CallsCoherent'
    <2> SUFFICES ASSUME NEW d \in Calls PROVE CallCoherent(d)'
        BY DEF CallsCoherent
    <2> QED
        BY DEF CallsCoherent, CallCoherent
<1>2. RefsCoherent'
    <2> SUFFICES ASSUME NEW r \in Refs \ raced' PROVE WriterKnows(r)' /\ RowKnows(r)'
        BY DEF RefsCoherent
    <2>1. c \notin Writing(r)'
        BY DEF Writing
    <2> QED
        BY <2>1, OtherRefs
<1> QED
    BY <1>1, <1>2

\* A request for a key.
LEMMA Posting ==
    ASSUME IInv, NEW c \in Calls, call[c].op = "post"
    PROVE  call[c].source \in Keys /\ call[c].step \in {"claim", "create"}
BY DEF IInv, CallsCoherent, CallCoherent

\* The key a request has.
LEMMA Holding ==
    ASSUME IInv, NEW k \in Keys, Held(k)
    PROVE  /\ key[k].holder \in Calls /\ At(key[k].holder, "post", "create")
           /\ k = call[key[k].holder].source \/ k \in OldKeys
BY DEF IInv, TypeOK, Key, Held, KeysCoherent

\* The request c leaves the keys as the others have them.
LEMMA KeyTypes ==
    ASSUME IInv, NEW c \in Calls, call' \in [Calls -> Call], \A d \in Calls \ {c} : call'[d] = call[d],
           row' = row, begun' = begun, raced' = raced, cut' \subseteq Refs, pruned' \subseteq Nat,
           forgotten' \subseteq Nat, reinstated' \subseteq Nat,
           bookings' \in Seq(Booking), key' \in [Keys -> Key],
           \A k \in Keys : \/ key'[k].holder = NoCall
                           \/ key'[k].holder = c /\ At(c, "post", "create")'
                           \/ key'[k].holder = key[k].holder /\ key[k].holder # c
    PROVE  TypeOK'
<1> USE DEF IInv
<1>1. ASSUME NEW k \in Keys, Held(k)'
      PROVE  call'[key'[k].holder].op = "post" /\ call'[key'[k].holder].step = "create"
    <2>1. CASE key'[k].holder = c /\ At(c, "post", "create")'
        BY <2>1 DEF At
    <2>2. CASE key'[k].holder = key[k].holder /\ key[k].holder # c
        <3>1. Held(k)
            BY <1>1, <2>2 DEF Held
        <3>2. key[k].holder \in Calls \ {c} /\ At(key[k].holder, "post", "create")
            BY <2>2, <3>1, Holding
        <3> QED
            BY <2>2, <3>2 DEF At
    <2> QED
        BY <1>1, <2>1, <2>2 DEF Held
<1>2. (\A k \in Keys : Held(k) => At(key[k].holder, "post", "create"))'
    BY <1>1 DEF At
<1> QED
    BY <1>2 DEF TypeOK

-----------------------------------------------------------------------------
(* One lemma for each step of the keyed requests.                          *)

LEMMA PostKeeps ==
    ASSUME IInv, NEW c \in Calls, NEW k \in Keys, Post(c, k)
    PROVE  IInv'
<1> USE DEF IInv
<1> DEFINE x == [Idle EXCEPT !.op = "post", !.step = "claim", !.source = k]
<1>1. /\ call[c] = Idle
      /\ UNCHANGED <<row, key, bookings, raced, cut, pruned, forgotten, reinstated>>
      /\ begun' = begun + 1 /\ begun < MaxCalls /\ Serve(c, x)
    BY DEF Post, Begin, seen, stood
<1>2. x \in Call /\ x.op = "post" /\ x.step = "claim" /\ x.source = k
    BY DEF Idle, Call, Sources
<1> HIDE DEF x
<1>3. /\ call' \in [Calls -> Call] /\ call'[c] = x
      /\ \A d \in Calls \ {c} : call'[d] = call[d]
    BY <1>1, <1>2, Served DEF TypeOK
<1>4. begun' \in 0 .. MaxCalls
    BY <1>1, IntakeAssumption DEF TypeOK
<1>5. ~At(c, "post", "create") /\ ~At(c, "post", "create")'
    BY <1>1, <1>2, <1>3, IdleCall DEF At
<1>6. TypeOK'
    BY <1>1, <1>3, <1>4, <1>5, TypeFrame DEF TypeOK
<1>7. CallCoherent(c)' /\ call'[c].source \notin Refs
    BY <1>2, <1>3, IntakeAssumption DEF CallCoherent
<1>8. CallsCoherent' /\ RefsCoherent'
    BY <1>1, <1>3, <1>7, Unbooked, KeyStep
<1>9. KeysCoherent' /\ KeyBooksOnce'
    BY <1>1, <1>3, <1>5, Unbooked, KeysFrame
<1> QED
    BY <1>6, <1>8, <1>9

LEMMA ReplayKeeps ==
    ASSUME IInv, NEW c \in Calls, Replay(c)
    PROVE  IInv'
<1> USE DEF IInv
<1>1. /\ call[c].op = "post" /\ call[c].step = "claim" /\ End(c)
      /\ UNCHANGED <<row, key, bookings, begun, raced, cut, pruned, forgotten, reinstated>>
    BY DEF Replay, At, seen, stood
<1>2. /\ call' \in [Calls -> Call] /\ call'[c] = Idle
      /\ \A d \in Calls \ {c} : call'[d] = call[d]
    BY <1>1, Ended
<1>3. ~At(c, "post", "create") /\ ~At(c, "post", "create")'
    BY <1>1, <1>2, IdleCall DEF At
<1>4. TypeOK'
    BY <1>1, <1>2, <1>3, TypeFrame DEF TypeOK
<1>5. CallCoherent(c)' /\ call'[c].source \notin Refs
    BY <1>2, IdleCall, IntakeAssumption DEF CallCoherent
<1>6. CallsCoherent' /\ RefsCoherent'
    BY <1>1, <1>2, <1>5, Unbooked, KeyStep
<1>7. KeysCoherent' /\ KeyBooksOnce'
    BY <1>1, <1>2, <1>3, Unbooked, KeysFrame
<1> QED
    BY <1>4, <1>6, <1>7

LEMMA ClaimKeeps ==
    ASSUME IInv, NEW c \in Calls, Claim(c)
    PROVE  IInv'
<1> USE DEF IInv
<1>1. PICK k \in Keys : k = call[c].source
    BY Posting DEF Claim, At
<1>2. /\ call[c].op = "post" /\ call[c].step = "claim" /\ Step(c, "create")
      /\ ~Stored(k) /\ ~Held(k) /\ \A h \in OldKeys : ~Held(h)
      /\ UNCHANGED <<row, bookings, begun, raced, cut, pruned, forgotten, reinstated>>
      /\ key' = [h \in Keys |-> IF h = k \/ h \in OldKeys THEN [key[h] EXCEPT !.holder = c] ELSE key[h]]
    BY <1>1 DEF Claim, CanInsert, At, seen, stood
<1>3. /\ call' \in [Calls -> Call] /\ call'[c].op = "post" /\ call'[c].source = k
      /\ call'[c].step = "create" /\ \A d \in Calls \ {c} : call'[d] = call[d]
    BY <1>1, <1>2, Stepped
<1>4. \A h \in Keys : /\ key[h] \in Key /\ key'[h] \in Key
                      /\ key'[h].response = key[h].response /\ key'[h].old = key[h].old
                      /\ key'[h].holder = IF h = k \/ h \in OldKeys THEN c ELSE key[h].holder
    BY <1>2 DEF TypeOK, Key
<1>5. \A h \in Keys : Held(h) => key[h].holder # c
    <2> SUFFICES ASSUME NEW h \in Keys, Held(h) PROVE key[h].holder # c
        OBVIOUS
    <2>1. At(key[h].holder, "post", "create")
        BY Holding
    <2> QED
        BY <1>2, <2>1 DEF At
<1>6. TypeOK'
    <2>1. key' \in [Keys -> Key]
        BY <1>2, <1>4
    <2>2. At(c, "post", "create")'
        BY <1>3 DEF At
    <2> QED
        BY <1>2, <1>3, <1>4, <1>5, <2>1, <2>2, KeyTypes DEF TypeOK, Held
<1>7. CallsCoherent' /\ RefsCoherent'
    <2>1. CallCoherent(c)' /\ call'[c].source \notin Refs
        BY <1>3, IntakeAssumption DEF CallCoherent
    <2> QED
        BY <1>2, <1>3, <2>1, Unbooked, KeyStep
<1>8. OldKeys' = OldKeys /\ \A h \in Keys : Stored(h)' <=> Stored(h)
    BY <1>4 DEF OldKeys, Stored
<1>9. ASSUME NEW d \in Calls, At(d, "post", "create")'
      PROVE  key'[call'[d].source].holder = d /\ key'[call'[d].source].response = 0
    <2>1. CASE d = c
        BY <1>2, <1>3, <1>4, <2>1 DEF Stored
    <2>2. CASE d # c
        <3>1. call'[d] = call[d] /\ At(d, "post", "create") /\ call[d].source \in Keys
            BY <1>3, <1>9, <2>2, Posting DEF At
        <3>2. key[call[d].source].holder = d /\ ~Stored(call[d].source)
            BY <3>1 DEF KeysCoherent
        <3>3. Held(call[d].source)
            BY <3>2, IntakeAssumption DEF Held
        <3>4. call[d].source # k /\ call[d].source \notin OldKeys
            BY <1>2, <3>2, <3>3 DEF OldKeys
        <3> QED
            BY <1>4, <3>1, <3>2, <3>4 DEF Stored
    <2> QED
        BY <2>1, <2>2
<1>10. ASSUME NEW h \in Keys, Held(h)'
       PROVE  h = call'[key'[h].holder].source \/ h \in OldKeys'
    <2>1. CASE h = k \/ h \in OldKeys
        BY <1>3, <1>4, <1>8, <2>1
    <2>2. CASE ~(h = k \/ h \in OldKeys)
        <3>1. key'[h].holder = key[h].holder /\ Held(h)
            BY <1>4, <1>10, <2>2 DEF Held
        <3>2. key[h].holder \in Calls \ {c} /\ h = call[key[h].holder].source
            BY <1>5, <2>2, <3>1, Holding
        <3> QED
            BY <1>3, <3>1, <3>2
    <2> QED
        BY <2>1, <2>2
<1>11. KeysCoherent'
    <2>1. (\A d \in Calls : At(d, "post", "create") => /\ key[call[d].source].holder = d
                                                       /\ ~Stored(call[d].source))'
        BY <1>9 DEF Stored
    <2>2. \A h \in Keys : ~Stored(h)' => MadeFor(h)' \subseteq pruned'
        BY <1>2, <1>8, Unbooked DEF KeysCoherent
    <2> QED
        BY <1>10, <2>1, <2>2 DEF KeysCoherent
<1>12. KeyBooksOnce'
    BY <1>2, <1>4, Unbooked DEF KeyBooksOnce
<1> QED
    BY <1>6, <1>7, <1>11, <1>12

LEMMA CreateKeeps ==
    ASSUME IInv, NEW c \in Calls, Create(c)
    PROVE  IInv'
<1> USE DEF IInv
<1>1. PICK k \in Keys : k = call[c].source
    BY Posting DEF Create, At
<1> DEFINE Dropped == {h \in OldKeys \ {k} : key[h].holder = c}
<1>2. /\ At(c, "post", "create") /\ End(c) /\ Book(k)
      /\ UNCHANGED <<row, begun, raced, cut, forgotten, reinstated>>
      /\ key' = [h \in Keys |->
                    CASE h = k -> [response |-> NewBooking, old |-> FALSE, holder |-> NoCall]
                      [] h # k /\ key[h].holder = c -> Unused
                      [] OTHER -> key[h]]
      /\ pruned' = pruned \cup {key[h].response : h \in Dropped}
    BY <1>1 DEF Create, stood
<1>3. /\ call' \in [Calls -> Call] /\ call'[c] = Idle
      /\ \A d \in Calls \ {c} : call'[d] = call[d]
    BY <1>2, Ended
<1>4. /\ bookings' \in Seq(Booking) /\ NewBooking \in Nat \ {0}
      /\ MadeFor(k)' = MadeFor(k) \cup {NewBooking}
      /\ \A t \in Sources \ {k} : MadeFor(t)' = MadeFor(t)
      /\ NoneComesBack
    BY <1>2, Appended DEF Sources, stood
<1>5. key[k].holder = c /\ ~Stored(k) /\ MadeFor(k) \subseteq pruned
    BY <1>1, <1>2 DEF KeysCoherent
<1>6. /\ key'[k].response = NewBooking /\ key'[k].holder = NoCall /\ key'[k].old = FALSE
      /\ \A h \in Keys \ {k} : key'[h] = IF key[h].holder = c THEN Unused ELSE key[h]
    BY <1>2
<1>7. Unused \in Key /\ Unused.response = 0 /\ Unused.holder = NoCall
    BY DEF Unused, Key
<1>8. c # NoCall
    BY IntakeAssumption
<1>9. TypeOK'
    <2>1. key' \in [Keys -> Key]
        <3>1. [response |-> NewBooking, old |-> FALSE, holder |-> NoCall] \in Key
            BY <1>4 DEF Key
        <3> QED
            BY <1>2, <1>7, <3>1 DEF TypeOK
    <2>2. pruned' \subseteq Nat
        BY <1>2 DEF TypeOK, OldKeys, Key
    <2>3. \A h \in Keys : \/ key'[h].holder = NoCall
                          \/ key'[h].holder = key[h].holder /\ key[h].holder # c
        BY <1>6, <1>7
    <2> QED
        BY <1>2, <1>3, <1>4, <2>1, <2>2, <2>3, KeyTypes DEF TypeOK
<1>10. CallsCoherent' /\ RefsCoherent'
    <2>1. CallCoherent(c)' /\ call'[c].source \notin Refs
        BY <1>3, IdleCall, IntakeAssumption DEF CallCoherent
    <2>2. \A r \in Refs : MadeFor(r)' = MadeFor(r)
        BY <1>4, IntakeAssumption DEF Sources
    <2> QED
        BY <1>2, <1>3, <1>4, <2>1, <2>2, KeyStep
<1>11. ASSUME NEW d \in Calls, At(d, "post", "create")'
       PROVE  key'[call'[d].source].holder = d /\ key'[call'[d].source].response = 0
    <2>1. d # c
        BY <1>3, <1>11, IdleCall DEF At
    <2>2. call'[d] = call[d] /\ At(d, "post", "create") /\ call[d].source \in Keys
        BY <1>3, <1>11, <2>1, Posting DEF At
    <2>3. key[call[d].source].holder = d /\ ~Stored(call[d].source)
        BY <2>2 DEF KeysCoherent
    <2> QED
        BY <1>5, <1>6, <2>1, <2>2, <2>3 DEF Stored
<1>12. ASSUME NEW h \in Keys, Held(h)'
       PROVE  h = call'[key'[h].holder].source \/ h \in OldKeys'
    <2>1. h # k /\ key'[h] = key[h] /\ key[h].holder # c /\ Held(h)
        BY <1>6, <1>7, <1>12 DEF Held
    <2>2. key[h].holder \in Calls \ {c} /\ (h = call[key[h].holder].source \/ h \in OldKeys)
        BY <2>1, Holding
    <2>3. h \in OldKeys => h \in OldKeys'
        BY <2>1 DEF OldKeys, Stored
    <2> QED
        BY <1>3, <2>1, <2>2, <2>3
<1>13. \A h \in Dropped : key[h].response \in pruned'
    BY <1>2
<1>14. ASSUME NEW h \in Keys \ {k}, key[h].holder = c
       PROVE  MadeFor(h)' \subseteq pruned'
    <2>1. Held(h) /\ h \in Dropped
        BY <1>1, <1>8, <1>14, Holding DEF Held
    <2>2. MadeFor(h)' \ pruned \subseteq {key[h].response}
        BY <1>4 DEF KeyBooksOnce, Sources
    <2> QED
        BY <1>2, <1>13, <2>1, <2>2
<1>15. KeysCoherent'
    <2>1. (\A d \in Calls : At(d, "post", "create") => /\ key[call[d].source].holder = d
                                                       /\ ~Stored(call[d].source))'
        BY <1>11 DEF Stored
    <2>2. ASSUME NEW h \in Keys, ~Stored(h)' PROVE MadeFor(h)' \subseteq pruned'
        <3>1. h # k
            BY <1>4, <1>6, <2>2 DEF Stored
        <3>2. CASE key[h].holder # c
            <4>1. ~Stored(h)
                BY <1>6, <2>2, <3>1, <3>2 DEF Stored
            <4> QED
                BY <1>2, <1>4, <3>1, <4>1 DEF KeysCoherent, Sources
        <3> QED
            BY <1>14, <3>1, <3>2
    <2> QED
        BY <1>12, <2>1, <2>2 DEF KeysCoherent
<1>16. KeyBooksOnce'
    <2> SUFFICES ASSUME NEW h \in Keys PROVE MadeFor(h)' \ pruned' \subseteq {key'[h].response}
        BY DEF KeyBooksOnce
    <2>1. CASE h = k
        BY <1>2, <1>4, <1>5, <1>6, <2>1
    <2>2. CASE h # k /\ key[h].holder = c
        BY <1>14, <2>2
    <2>3. CASE h # k /\ key[h].holder # c
        BY <1>2, <1>4, <1>6, <2>3 DEF KeyBooksOnce, Sources
    <2> QED
        BY <2>1, <2>2, <2>3
<1> QED
    BY <1>9, <1>10, <1>15, <1>16

\* A request for a key that ends without booking.
LEMMA LetGoKeeps ==
    ASSUME IInv, NEW c \in Calls, call[c].op = "post", key' = LetGo(c), End(c), cut' \subseteq Refs,
           UNCHANGED <<row, bookings, begun, raced, pruned, forgotten, reinstated>>
    PROVE  IInv'
<1> USE DEF IInv
<1>1. /\ call' \in [Calls -> Call] /\ call'[c] = Idle
      /\ \A d \in Calls \ {c} : call'[d] = call[d]
    BY Ended
<1>2. \A h \in Keys : /\ key'[h] \in Key
                      /\ key'[h].response = key[h].response /\ key'[h].old = key[h].old
                      /\ key'[h].holder = IF key[h].holder = c THEN NoCall ELSE key[h].holder
    BY DEF LetGo, TypeOK, Key
<1>3. TypeOK'
    <2>1. key' \in [Keys -> Key]
        BY <1>2 DEF LetGo
    <2> QED
        BY <1>1, <1>2, <2>1, KeyTypes DEF TypeOK
<1>4. CallsCoherent' /\ RefsCoherent'
    <2>1. CallCoherent(c)' /\ call'[c].source \notin Refs
        BY <1>1, IdleCall, IntakeAssumption DEF CallCoherent
    <2> QED
        BY <1>1, <2>1, Unbooked, KeyStep
<1>5. OldKeys' = OldKeys /\ \A h \in Keys : Stored(h)' <=> Stored(h)
    BY <1>2 DEF OldKeys, Stored
<1>6. ASSUME NEW d \in Calls, At(d, "post", "create")'
      PROVE  key'[call'[d].source].holder = d /\ key'[call'[d].source].response = 0
    <2>1. d # c
        BY <1>1, <1>6, IdleCall DEF At
    <2>2. call'[d] = call[d] /\ At(d, "post", "create") /\ call[d].source \in Keys
        BY <1>1, <1>6, <2>1, Posting DEF At
    <2>3. key[call[d].source].holder = d /\ ~Stored(call[d].source)
        BY <2>2 DEF KeysCoherent
    <2> QED
        BY <1>2, <2>1, <2>2, <2>3 DEF Stored
<1>7. ASSUME NEW h \in Keys, Held(h)'
      PROVE  h = call'[key'[h].holder].source \/ h \in OldKeys'
    <2>1. key'[h].holder = key[h].holder /\ key[h].holder # c /\ Held(h)
        BY <1>2, <1>7 DEF Held
    <2>2. key[h].holder \in Calls \ {c} /\ (h = call[key[h].holder].source \/ h \in OldKeys)
        BY <2>1, Holding
    <2> QED
        BY <1>1, <1>5, <2>1, <2>2
<1>8. KeysCoherent'
    <2>1. (\A d \in Calls : At(d, "post", "create") => /\ key[call[d].source].holder = d
                                                       /\ ~Stored(call[d].source))'
        BY <1>6 DEF Stored
    <2>2. \A h \in Keys : ~Stored(h)' => MadeFor(h)' \subseteq pruned'
        BY <1>5, Unbooked DEF KeysCoherent
    <2> QED
        BY <1>7, <2>1, <2>2 DEF KeysCoherent
<1>9. KeyBooksOnce'
    BY <1>2, Unbooked DEF KeyBooksOnce
<1> QED
    BY <1>3, <1>4, <1>8, <1>9

LEMMA PostFailsKeeps ==
    ASSUME IInv, NEW c \in Calls, PostFails(c)
    PROVE  IInv'
BY LetGoKeeps DEF PostFails, seen, stood, IInv, TypeOK

-----------------------------------------------------------------------------
(* One lemma for each step of the rest of the world.                       *)

LEMMA DieKeeps ==
    ASSUME IInv, NEW c \in Calls, Die(c)
    PROVE  IInv'
<1> USE DEF IInv
<1>1. /\ call[c] # Idle /\ key' = LetGo(c) /\ End(c)
      /\ UNCHANGED <<row, bookings, begun, raced, pruned, forgotten, reinstated>>
      /\ cut' = IF call[c].step \in {"import", "fail"} THEN cut \cup {call[c].source} ELSE cut
    BY DEF Die, stood
<1>2. cut' \subseteq Refs
    BY <1>1, Importing DEF TypeOK
<1>3. CASE call[c].op = "post"
    BY <1>1, <1>2, <1>3, LetGoKeeps
<1>4. CASE call[c].op # "post"
    <2>1. PICK r \in Refs : r = call[c].source
        <3>1. call[c] \in Call
            BY DEF TypeOK
        <3> QED
            BY <1>1, <1>4, <3>1 DEF CallsCoherent, CallCoherent, Call
    <2>2. \A k \in Keys : key[k].holder # c
        <3> SUFFICES ASSUME NEW k \in Keys, key[k].holder = c PROVE FALSE
            OBVIOUS
        <3>1. Held(k)
            BY IntakeAssumption DEF Held
        <3> QED
            BY <1>4, <3>1, Holding DEF At
    <2>3. key' = key
        BY <1>1, <2>2 DEF LetGo, TypeOK
    <2>4. /\ call' \in [Calls -> Call] /\ call'[c] = Idle
          /\ \A d \in Calls \ {c} : call'[d] = call[d]
        BY <1>1, Ended
    <2>5. CallCoherent(c)' /\ c \notin Writing(r)' /\ call'[c].source = NoSource /\ call'[c].op # "post"
        BY <2>4, IdleCall DEF CallCoherent, Writing
    <2>6. r \notin raced' => WriterKnows(r)' /\ RowKnows(r)'
        BY <1>1, <2>4, <2>5, Unbooked, OtherRefs
    <2> QED
        BY <1>1, <1>2, <1>4, <2>3, <2>4, <2>5, <2>6, Unbooked, RefStep DEF TypeOK
<1> QED
    BY <1>3, <1>4

\* The desk gives a booking another status.
LEMMA RestatusKeeps ==
    ASSUME IInv, NEW n \in Booked, NEW from, NEW to \in {"Approved", "CheckedIn", "Cancelled"},
           Restatus(n, from, to), NoneComesBack, reinstated' \subseteq Nat
    PROVE  IInv'
<1> USE DEF IInv
<1>1. UNCHANGED <<row, key, call, begun, raced, cut, pruned, forgotten>>
    BY DEF Restatus
<1>2. bookings' \in Seq(Booking) /\ \A t : MadeFor(t)' = MadeFor(t)
    BY Restatused DEF Restatus
<1>3. TypeOK'
    BY <1>1, <1>2, TypeFrame DEF TypeOK
<1>4. CallsCoherent'
    BY <1>1 DEF CallsCoherent, CallCoherent
<1>5. RefsCoherent'
    <2> SUFFICES ASSUME NEW r \in Refs \ raced' PROVE WriterKnows(r)' /\ RowKnows(r)'
        BY DEF RefsCoherent
    <2>1. WriterKnows(r) /\ RowKnows(r) /\ Writing(r)' = Writing(r)
        BY <1>1 DEF RefsCoherent, Writing
    <2> QED
        BY <1>1, <1>2, <2>1, RefFrame
<1>6. KeysCoherent' /\ KeyBooksOnce'
    BY <1>1, <1>2, KeysFrame
<1> QED
    BY <1>3, <1>4, <1>5, <1>6

LEMMA DeskKeeps ==
    ASSUME IInv, NEW n \in Booked, Desk(n)
    PROVE  IInv'
<1> USE DEF IInv
<1>1. ASSUME NEW from \in {"Approved", "CheckedIn"}, NEW to \in {"Approved", "CheckedIn"},
             Restatus(n, from, to), reinstated' = reinstated
      PROVE  IInv'
    <2>1. n \in Taken /\ forgotten' = forgotten
        BY <1>1 DEF Restatus, Taken
    <2>2. NoneComesBack
        BY <1>1, <2>1, Restatused DEF Restatus, NoneComesBack
    <2> QED
        BY <1>1, <2>2, RestatusKeeps DEF TypeOK
<1>2. CASE DeskCancel(n)
    <2>1. /\ Restatus(n, "Approved", "Cancelled") /\ reinstated' = reinstated \ {n}
          /\ forgotten' = forgotten
        BY <1>2 DEF DeskCancel, Restatus
    <2>2. NoneComesBack
        BY <2>1, Restatused DEF Restatus, NoneComesBack
    <2> QED
        BY <2>1, <2>2, RestatusKeeps DEF TypeOK
<1>3. CASE Reinstate(n)
    <2>1. /\ Restatus(n, "Cancelled", "Approved") /\ reinstated' = reinstated \cup {n}
          /\ forgotten' = forgotten
        BY <1>3 DEF Reinstate, Restatus
    <2>2. NoneComesBack
        BY <2>1, Restatused DEF Restatus, NoneComesBack
    <2>3. n \in Nat
        BY DEF TypeOK, Booked
    <2> QED
        BY <2>1, <2>2, <2>3, RestatusKeeps DEF TypeOK
<1> QED
    BY <1>1, <1>2, <1>3 DEF Desk, Arrive, UndoArrival

LEMMA TwoDaysPassKeeps ==
    ASSUME IInv, TwoDaysPass
    PROVE  IInv'
<1> USE DEF IInv
<1>1. /\ \A c \in Calls : call[c] = Idle
      /\ UNCHANGED <<row, bookings, call, begun, raced, cut, pruned, forgotten, reinstated>>
      /\ key' = [k \in Keys |-> [key[k] EXCEPT !.old = Stored(k)]]
    BY DEF TwoDaysPass, seen, stood
<1>2. \A k \in Keys : /\ key'[k] \in Key /\ key'[k].response = key[k].response
                      /\ key'[k].holder = key[k].holder
    BY <1>1 DEF TypeOK, Key, Stored
<1>3. \A k \in Keys : ~Held(k)
    BY <1>1, Holding, IdleCall DEF At
<1>4. TypeOK'
    <2>1. (\A k \in Keys : Held(k) => At(key[k].holder, "post", "create"))'
        BY <1>2, <1>3 DEF Held
    <2>2. key' \in [Keys -> Key]
        BY <1>1, <1>2
    <2> QED
        BY <1>1, <2>1, <2>2 DEF TypeOK
<1>5. CallsCoherent'
    BY <1>1 DEF CallsCoherent, CallCoherent
<1>6. RefsCoherent'
    <2> SUFFICES ASSUME NEW r \in Refs \ raced' PROVE WriterKnows(r)' /\ RowKnows(r)'
        BY DEF RefsCoherent
    <2>1. WriterKnows(r) /\ RowKnows(r) /\ Writing(r)' = Writing(r)
        BY <1>1 DEF RefsCoherent, Writing
    <2> QED
        BY <1>1, <2>1, Unbooked, RefFrame
<1>7. KeysCoherent'
    <2>1. (\A d \in Calls : At(d, "post", "create") => /\ key[call[d].source].holder = d
                                                       /\ ~Stored(call[d].source))'
        BY <1>1, IdleCall DEF At
    <2>2. \A k \in Keys : (Stored(k)' <=> Stored(k)) /\ ~Held(k)'
        BY <1>2, <1>3 DEF Stored, Held
    <2>3. \A k \in Keys : ~Stored(k)' => MadeFor(k)' \subseteq pruned'
        BY <1>1, <2>2, Unbooked DEF KeysCoherent
    <2> QED
        BY <2>1, <2>2, <2>3 DEF KeysCoherent
<1>8. KeyBooksOnce'
    BY <1>1, <1>2, Unbooked DEF KeyBooksOnce
<1> QED
    BY <1>4, <1>5, <1>6, <1>7, <1>8

-----------------------------------------------------------------------------
(* The theorems.                                                           *)

\* Nothing is booked, recorded or served at first.
LEMMA IInvInit == Init => IInv
<1> SUFFICES ASSUME Init PROVE IInv
    OBVIOUS
<1> USE DEF Init
<1>1. Booked = {} /\ \A s : MadeFor(s) = {}
    <2>1. bookings = <<>> /\ DOMAIN bookings = {}
        OBVIOUS
    <2> QED
        BY <2>1 DEF Booked, MadeFor
<1>2. \A k \in Keys : ~Held(k) /\ ~Stored(k) /\ key[k] \in Key
    BY DEF Held, Stored, Unused, Key
<1>3. \A c \in Calls : call[c] = Idle
    OBVIOUS
<1>4. TypeOK
    <2>1. bookings \in Seq(Booking)
        OBVIOUS
    <2>2. row \in [Refs -> Row]
        BY DEF Row, Statuses
    <2>3. call \in [Calls -> Call]
        BY IdleCall
    <2>4. key \in [Keys -> Key]
        BY <1>2
    <2> QED
        BY <1>2, <2>1, <2>2, <2>3, <2>4, IntakeAssumption DEF TypeOK
<1>5. CallsCoherent
    BY <1>3, IdleCall DEF CallsCoherent, CallCoherent
<1>6. RefsCoherent
    <2>1. \A r \in Refs : Writing(r) = {}
        BY <1>3, IdleCall DEF Writing
    <2> QED
        BY <1>1, <2>1 DEF RefsCoherent, WriterKnows, RowKnows
<1>7. KeysCoherent /\ KeyBooksOnce
    BY <1>1, <1>2, <1>3, IdleCall DEF KeysCoherent, KeyBooksOnce, At
<1> QED
    BY <1>4, <1>5, <1>6, <1>7 DEF IInv

LEMMA IInvStep == IInv /\ [Next]_vars => IInv'
<1> SUFFICES ASSUME IInv, [Next]_vars PROVE IInv'
    OBVIOUS
<1>1. CASE \E c \in Calls, r \in Refs : Deliver(c, r) \/ Retry(c, r) \/ ChannelCancel(c, r)
    BY <1>1, DeliverKeeps, RetryKeeps, ChannelCancelKeeps
<1>2. CASE \E c \in Calls, k \in Keys : Post(c, k)
    BY <1>2, PostKeeps
<1>3. CASE \E c \in Calls : Finish(c)
    <2> PICK c \in Calls : Finish(c)
        BY <1>3
    <2> QED
        BY RecordKeeps, ImportKeeps, ImportUnansweredKeeps, ImportFailsKeeps, MarkFailedKeeps,
           ReleaseBookingKeeps, MarkCancelledKeeps, ClaimKeeps, ReplayKeeps, CreateKeeps,
           PostFailsKeeps DEF Finish
<1>4. CASE \E c \in Calls : Die(c)
    BY <1>4, DieKeeps
<1>5. CASE \E n \in Booked : Desk(n)
    BY <1>5, DeskKeeps
<1>6. CASE TwoDaysPass
    BY <1>6, TwoDaysPassKeeps
<1>7. CASE UNCHANGED vars
    BY <1>7 DEF vars, seen, stood, IInv, TypeOK, CallsCoherent, CallCoherent, RefsCoherent,
                WriterKnows, RowKnows, Excused, KeysCoherent, KeyBooksOnce, Writing, MadeFor,
                Taken, Booked, Held, Stored, OldKeys, At
<1> QED
    BY <1>1, <1>2, <1>3, <1>4, <1>5, <1>6, <1>7 DEF Next

LEMMA IInvHolds == Spec => []IInv
BY IInvInit, IInvStep, PTL DEF Spec

\* The rows are well formed, and a key is held by a request that is booking under it or pruning it:
\* whatever request fails or dies, it takes no key with it.
THEOREM IntakeTypes == Spec => []TypeOK
<1>1. IInv => TypeOK
    BY DEF IInv
<1> QED
    BY <1>1, IInvHolds, PTL

\* What the rows say of the references no two requests have met on.
LEMMA RowsTell ==
    IInv => \A r \in Refs \ raced :
                /\ \A m, n \in MadeFor(r) \ forgotten : m = n
                /\ row[r].status = "cancelled" => Excused(r)
<1> SUFFICES ASSUME IInv, NEW r \in Refs \ raced
             PROVE  /\ \A m, n \in MadeFor(r) \ forgotten : m = n
                    /\ row[r].status = "cancelled" => Excused(r)
    OBVIOUS
<1>1. RowKnows(r) /\ row[r].status \in Statuses
    BY DEF IInv, RefsCoherent, TypeOK, Row
<1> QED
    BY <1>1 DEF RowKnows, Statuses

\* However many requests deliver and retry a channel's reservation, and whichever of them die, it is
\* booked at most once, but for the bookings whose import was marked failed since its commit was not
\* answered, and unless two of the requests met on it.
THEOREM ReservationBookedOnce == Spec => []BookedOnce
<1>1. IInv => BookedOnce
    BY RowsTell DEF BookedOnce
<1> QED
    BY <1>1, IInvHolds, PTL

\* A reservation the channel has cancelled takes no room any more, but for a booking its row had
\* forgotten or one the desk has reinstated, and unless it was raced.
THEOREM CancelledTakesNoRoom == Spec => []CancelledIsReleased
<1>1. IInv => CancelledIsReleased
    BY RowsTell DEF CancelledIsReleased, Excused
<1> QED
    BY <1>1, IInvHolds, PTL

\* However often a request is posted under a key, and whichever of them fail or die, one booking is
\* made under it until its row is pruned.
THEOREM KeyIsBookedOnce == Spec => []KeyBooksOnce
<1>1. IInv => KeyBooksOnce
    BY DEF IInv
<1> QED
    BY <1>1, IInvHolds, PTL
=============================================================================
