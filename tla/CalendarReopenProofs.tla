------------------------ MODULE CalendarReopenProofs ------------------------
(***************************************************************************)
(* Reopening a calendar night, for any number of holders and owners: the   *)
(* counter and the rooms off the market stay within what the history       *)
(* variables account for.                                                  *)
(***************************************************************************)
EXTENDS CalendarReopen, FiniteSetTheorems, TLAPS

\* A transaction that holds the row's lock has updated a row that exists, and one that is
\* taking a room has found one: nobody else can have changed the row since.
LockInv ==
    lock # Nobody =>
        /\ status # "none" /\ pc[lock] \in {"taking", "giving"}
        /\ pc[lock] = "taking" => rts >= 1

IInv == TypeOK /\ LockInv /\ OversoldOnlyByRaces /\ UndersoldOnlyByRaces

-----------------------------------------------------------------------------
(* Counting.                                                               *)

\* The rooms off the market are finitely many.
LEMMA OffFinite == IsFiniteSet(Off) /\ N(Off) \in Nat /\ Off \subseteq Holders
<1>1. IsFiniteSet(Holders) BY FS_Union, HoldersAssumption DEF Holders
<1>2. Off \subseteq Holders BY DEF Off
<1>3. IsFiniteSet(Off) BY <1>1, <1>2, FS_Subset
<1> QED BY <1>2, <1>3, FS_CardinalityType DEF N

\* A set is larger than another by at most what the other lacks.
LEMMA Missing ==
    ASSUME NEW S, NEW T, IsFiniteSet(S), IsFiniteSet(T)
    PROVE  /\ N(S) \in Nat /\ N(T) \in Nat /\ N(S \ T) \in Nat
           /\ N(S) - N(T) <= N(S \ T)
<1>1. IsFiniteSet(S \ T) /\ N(S \ T) = N(S) - N(S \cap T)
    BY FS_Difference DEF N
<1>2. S \cap T \subseteq T OBVIOUS
<1>3. N(S \cap T) <= N(T) BY <1>2, FS_Subset DEF N
<1>4. N(S) \in Nat /\ N(T) \in Nat /\ N(S \ T) \in Nat /\ N(S \cap T) \in Nat
    BY <1>1, <1>2, FS_Subset, FS_CardinalityType DEF N
<1> QED BY <1>1, <1>3, <1>4

\* A holder that commits a take is one more room off the market, a holder that commits a
\* release one less; every other change of a transaction leaves them as they are.
LEMMA OffChanges ==
    ASSUME TypeOK, NEW h \in Holders, NEW x \in {"out", "taking", "held", "giving"},
           Become(h, x)
    PROVE  /\ pc[h] = "taking" /\ x = "held" => N(Off') = N(Off) + 1
           /\ pc[h] = "giving" /\ x = "out"  => N(Off') = N(Off) - 1
           /\ (pc[h] \in {"held", "giving"} <=> x \in {"held", "giving"}) => Off' = Off
<1> USE DEF TypeOK, Become
<1>1. IsFiniteSet(Off) /\ N(Off) \in Nat BY OffFinite
<1>2. ASSUME pc[h] = "taking", x = "held" PROVE N(Off') = N(Off) + 1
    <2>1. Off' = Off \cup {h} /\ h \notin Off BY <1>2 DEF Off
    <2> QED BY <1>1, <2>1, FS_AddElement DEF N
<1>3. ASSUME pc[h] = "giving", x = "out" PROVE N(Off') = N(Off) - 1
    <2>1. Off' = Off \ {h} /\ h \in Off BY <1>3 DEF Off
    <2> QED BY <1>1, <2>1, FS_RemoveElement DEF N
<1>4. ASSUME pc[h] \in {"held", "giving"} <=> x \in {"held", "giving"} PROVE Off' = Off
    BY <1>4 DEF Off
<1> QED BY <1>2, <1>3, <1>4

-----------------------------------------------------------------------------
(* The transactions.                                                       *)

LEMMA TakeStep ==
    ASSUME IInv, NEW h \in Holders, Take(h) PROVE IInv'
<1> USE DEF IInv, Take, TakeRow, History, RowIsFree
<1>1. TypeOK' BY DEF TypeOK, Become
<1>2. LockInv'
    <2>1. CASE TakeRow(h) BY <2>1 DEF LockInv, TypeOK, Become
    <2>2. CASE UNCHANGED lock BY <2>2, HoldersAssumption DEF LockInv, TypeOK, Become
    <2> QED BY <2>1, <2>2
<1>3. Off' = Off BY OffChanges
<1>4. (OversoldOnlyByRaces /\ UndersoldOnlyByRaces)'
    BY <1>3 DEF OversoldOnlyByRaces, UndersoldOnlyByRaces
<1> QED BY <1>1, <1>2, <1>4

LEMMA GiveStep ==
    ASSUME IInv, NEW h \in Holders, Give(h) PROVE IInv'
<1> USE DEF IInv, Give, History, RowIsFree
<1>1. TypeOK' BY DEF TypeOK, Become
<1>2. LockInv'
    <2>1. CASE status = "none" BY <2>1, HoldersAssumption DEF LockInv, TypeOK, Become
    <2>2. CASE status # "none" BY <2>2 DEF LockInv, TypeOK, Become
    <2> QED BY <2>1, <2>2
<1>3. Off' = Off BY OffChanges
<1>4. (OversoldOnlyByRaces /\ UndersoldOnlyByRaces)'
    BY <1>3 DEF OversoldOnlyByRaces, UndersoldOnlyByRaces
<1> QED BY <1>1, <1>2, <1>4

LEMMA CommitTakeStep ==
    ASSUME IInv, NEW h \in Holders, CommitTake(h) PROVE IInv'
<1> USE DEF IInv, CommitTake
<1>1. N(Off) \in Nat /\ N(Off') = N(Off) + 1 BY OffFinite, OffChanges
<1>2. lock = h => rts >= 1 /\ status # "none"
    BY HoldersAssumption DEF LockInv
<1>3. TypeOK' BY <1>2, QuantityAssumption DEF TypeOK, Become
<1>4. LockInv'
    <2>1. CASE lock = h BY <2>1, HoldersAssumption DEF LockInv
    <2>2. CASE lock # h BY <2>2, HoldersAssumption DEF LockInv, TypeOK, Become
    <2> QED BY <2>1, <2>2
<1>5. OversoldOnlyByRaces'
    BY <1>1, <1>2, QuantityAssumption DEF OversoldOnlyByRaces, TypeOK
<1>6. UndersoldOnlyByRaces'
    BY <1>1, <1>2, QuantityAssumption DEF UndersoldOnlyByRaces, TypeOK
<1> QED BY <1>3, <1>4, <1>5, <1>6

LEMMA CommitGiveStep ==
    ASSUME IInv, NEW h \in Holders, CommitGive(h) PROVE IInv'
<1> USE DEF IInv, CommitGive
<1>1. N(Off) \in Nat /\ N(Off') \in Nat /\ N(Off') = N(Off) - 1
    <2>1. h \in Off BY DEF Off
    <2>2. N(Off) \in Nat /\ N(Off') = N(Off) - 1 BY OffFinite, OffChanges
    <2>3. N(Off) # 0 BY <2>1, OffFinite, FS_EmptySet DEF N
    <2> QED BY <2>2, <2>3
<1>2. PlusOne(rts) \in 0 .. Quantity /\ PlusOne(rts) <= rts + 1
      /\ (PlusOne(rts) = rts + 1 \/ PlusOne(rts) = Quantity)
    BY QuantityAssumption DEF PlusOne, Earlier, TypeOK
<1>3. TypeOK' BY <1>2, QuantityAssumption DEF TypeOK, Become
<1>4. LockInv'
    <2>1. CASE lock = h BY <2>1, HoldersAssumption DEF LockInv
    <2>2. CASE lock # h BY <2>2, HoldersAssumption DEF LockInv, TypeOK, Become
    <2> QED BY <2>1, <2>2
<1>5. OversoldOnlyByRaces'
    BY <1>1, <1>2, QuantityAssumption DEF OversoldOnlyByRaces, TypeOK
<1>6. UndersoldOnlyByRaces'
    BY <1>1, <1>2, QuantityAssumption DEF UndersoldOnlyByRaces, TypeOK
<1> QED BY <1>3, <1>4, <1>5, <1>6

LEMMA AbortStep ==
    ASSUME IInv, NEW h \in Holders, Abort(h) PROVE IInv'
<1> USE DEF IInv, Abort, History
<1>1. TypeOK' BY DEF TypeOK, Become
<1>2. LockInv'
    <2>1. CASE lock = h BY <2>1 DEF LockInv
    <2>2. CASE lock # h BY <2>2, HoldersAssumption DEF LockInv, TypeOK, Become
    <2> QED BY <2>1, <2>2
<1>3. Off' = Off BY OffChanges
<1>4. (OversoldOnlyByRaces /\ UndersoldOnlyByRaces)'
    BY <1>3 DEF OversoldOnlyByRaces, UndersoldOnlyByRaces
<1> QED BY <1>1, <1>2, <1>4

LEMMA MoveStep ==
    ASSUME IInv, NEW h \in Holders, Move(h) PROVE IInv'
<1> USE DEF IInv, Move, History, RowIsFree
<1>1. rts' \in 0 .. Quantity /\ (rts' = rts \/ (rts' < rts /\ rts' = Quantity - 1))
    BY QuantityAssumption DEF PlusOne, Earlier, TypeOK
<1>2. TypeOK' BY <1>1 DEF TypeOK
<1>3. LockInv' BY DEF LockInv
<1>4. Off' = Off /\ N(Off) \in Nat /\ N(Off) >= 1
    <2>1. Off' = Off /\ h \in Off BY DEF Off
    <2>2. N(Off) # 0 BY <2>1, OffFinite, FS_EmptySet DEF N
    <2> QED BY <2>1, <2>2, OffFinite
<1>5. OversoldOnlyByRaces'
    BY <1>1, <1>4, QuantityAssumption DEF OversoldOnlyByRaces, TypeOK
<1>6. UndersoldOnlyByRaces'
    BY <1>1, <1>4, QuantityAssumption DEF UndersoldOnlyByRaces, TypeOK
<1> QED BY <1>2, <1>3, <1>5, <1>6

LEMMA RawStep ==
    ASSUME IInv, RawReserve \/ RawRelease PROVE IInv'
<1> USE DEF IInv, RowIsFree
<1>1. Off' = Off /\ N(Off) \in Nat BY OffFinite DEF Off, RawReserve, RawRelease
<1>2. LockInv' BY DEF LockInv, RawReserve, RawRelease
<1>3. CASE RawReserve
    BY <1>1, <1>2, <1>3, QuantityAssumption
    DEF RawReserve, TypeOK, OversoldOnlyByRaces, UndersoldOnlyByRaces
<1>4. CASE RawRelease
    <2>1. rts' \in rts .. Quantity BY <1>4, QuantityAssumption DEF RawRelease, PlusOne, Earlier, TypeOK
    <2> QED BY <1>1, <1>2, <1>4, <2>1, QuantityAssumption
            DEF RawRelease, TypeOK, OversoldOnlyByRaces, UndersoldOnlyByRaces
<1> QED BY <1>3, <1>4

-----------------------------------------------------------------------------
(* The owners.                                                             *)

LEMMA CountStep ==
    ASSUME IInv, NEW o \in Owners, CountBookings(o) \/ CountBlocks(o) PROVE IInv'
<1> USE DEF IInv, CountBookings, CountBlocks, History
<1>1. TypeOK'
    <2>1. Off \cap Bookings \subseteq Holders /\ Off \cap Blocks \subseteq Holders BY DEF Holders
    <2> QED BY <2>1 DEF TypeOK
<1>2. LockInv' BY DEF LockInv
<1>3. Off' = Off BY DEF Off
<1>4. (OversoldOnlyByRaces /\ UndersoldOnlyByRaces)'
    BY <1>3 DEF OversoldOnlyByRaces, UndersoldOnlyByRaces
<1> QED BY <1>1, <1>2, <1>4

\* What is written is what was counted; the history variables take up the difference.
LEMMA WriteStep ==
    ASSUME IInv, NEW o \in Owners, WriteRow(o) PROVE IInv'
<1> USE DEF IInv
<1>1. PICK asked \in Asked, open \in {"Open", "Close"} :
          LET sellable == Earlier(asked, Quantity)  saw == owner[o].saw IN
          /\ RowIsFree
          /\ rts' = Remaining(sellable, saw) /\ status' = open
          /\ owner' = [owner EXCEPT ![o] = [at |-> "start", saw |-> {}]]
          /\ offered' = sellable
          /\ over' = Later(N(Off \ saw), N(Off) - Quantity)
          /\ lost' = N(saw \ Off)
          /\ UNCHANGED <<lock, pc>>
    BY DEF WriteRow
<1> DEFINE sellable == Earlier(asked, Quantity)
           saw      == owner[o].saw
<1>2. sellable \in 0 .. Quantity BY QuantityAssumption DEF Earlier
<1>3. IsFiniteSet(Off) /\ IsFiniteSet(saw)
    <2>1. IsFiniteSet(Holders) BY FS_Union, HoldersAssumption DEF Holders
    <2>2. saw \subseteq Holders BY DEF TypeOK
    <2> QED BY <2>1, <2>2, FS_Subset, OffFinite
<1>4. /\ N(Off) \in Nat /\ N(saw) \in Nat /\ N(Off \ saw) \in Nat /\ N(saw \ Off) \in Nat
      /\ N(Off) - N(saw) <= N(Off \ saw) /\ N(saw) - N(Off) <= N(saw \ Off)
    BY <1>3, Missing
<1>5. rts' = Later(0, sellable - N(saw)) BY <1>1 DEF Remaining
<1> HIDE DEF sellable, saw
<1>6. TypeOK'
    <2>1. rts' \in 0 .. Quantity BY <1>2, <1>4, <1>5, QuantityAssumption DEF Later
    <2>2. over' \in Nat /\ lost' \in Nat
        BY <1>1, <1>4, QuantityAssumption DEF Later, saw
    <2>3. owner' \in [Owners -> [at : {"start", "booked", "counted"}, saw : SUBSET Holders]]
        BY <1>1 DEF TypeOK
    <2> QED BY <1>1, <1>2, <2>1, <2>2, <2>3 DEF TypeOK, sellable
<1>7. LockInv' BY <1>1 DEF LockInv, RowIsFree
<1>8. Off' = Off BY <1>1 DEF Off
<1>9. OversoldOnlyByRaces'
    <2>1. over' >= N(Off \ saw) /\ over' >= N(Off) - Quantity /\ over' \in Int
        BY <1>1, <1>4, QuantityAssumption DEF Later, saw
    <2> QED BY <1>2, <1>4, <1>5, <1>8, <2>1, QuantityAssumption DEF Later, OversoldOnlyByRaces
<1>10. UndersoldOnlyByRaces'
    <2>1. offered' = sellable /\ lost' = N(saw \ Off) BY <1>1 DEF sellable, saw
    <2> QED BY <1>2, <1>4, <1>5, <1>8, <2>1, QuantityAssumption DEF Later, UndersoldOnlyByRaces
<1> QED BY <1>6, <1>7, <1>9, <1>10

-----------------------------------------------------------------------------

\* The inductive invariant.
LEMMA IInvHolds == Spec => []IInv
<1>1. Init => IInv
    BY QuantityAssumption
    DEF Init, IInv, TypeOK, LockInv, OversoldOnlyByRaces, UndersoldOnlyByRaces
<1>2. ASSUME IInv, [Next]_vars PROVE IInv'
    <2>1. CASE UNCHANGED vars
        BY <1>2, <2>1
        DEF vars, IInv, TypeOK, LockInv, OversoldOnlyByRaces, UndersoldOnlyByRaces, Off
    <2>2. CASE Next
        BY <1>2, <2>2, TakeStep, GiveStep, CommitTakeStep, CommitGiveStep, AbortStep, MoveStep,
           RawStep, CountStep, WriteStep DEF Next
    <2> QED BY <1>2, <2>1, <2>2
<1> QED BY <1>1, <1>2, PTL DEF Spec

\* The counter always stays within the physical quantity, whatever was counted, clamped
\* or rolled back (openAvailability, reserveStay and releaseStay on one row).
THEOREM TypeCorrect == Spec => []TypeOK
BY IInvHolds, PTL DEF IInv

\* For any number of bookings, blocks and owners, a reopening oversells a night by no more
\* rooms than were taken between its count and its write.
THEOREM OversellBounded == Spec => []OversoldOnlyByRaces
BY IInvHolds, PTL DEF IInv

\* And withholds no more rooms than were given back between its count and its write.
THEOREM UndersellBounded == Spec => []UndersoldOnlyByRaces
BY IInvHolds, PTL DEF IInv
=============================================================================
