---------------------------- MODULE OutboxProofs ----------------------------
(***************************************************************************)
(* The outbox, for any set of events and any number of attempts: what is   *)
(* marked sent has reached the channel manager, and what is dead-lettered  *)
(* has been tried.                                                         *)
(***************************************************************************)
EXTENDS Outbox, TLAPS

\* What is marked sent, or is about to be, has been read by the channel manager; nothing
\* runs for a row that does not exist yet.
Synced ==
    \A e \in Events :
        /\ row[e].status = "sent" \/ job[e].at \in {"pushed", "done"} => channel >= ver[e]
        /\ row[e].status = "absent" => job[e].at = "none" /\ hands[e] = 0 /\ ~dying[e]

\* Some event announces the latest change.
Announced == version = 0 \/ \E e \in Events : row[e].status # "absent" /\ ver[e] = version

\* Neither the row nor its job counts an attempt that was not made.
Counted(e) ==
    /\ row[e].attempts <= tries[e]
    /\ job[e].made + (IF job[e].at \in Running THEN 1 ELSE 0) <= tries[e]
    /\ dying[e] \/ row[e].status = "failed" => tries[e] >= MaxAttempts

Tried == \A e \in Events : replayed[e] \/ Counted(e)

IInv == TypeOK /\ Synced /\ Announced /\ Tried

-----------------------------------------------------------------------------
(* The types of a row and of a job.                                        *)

Rows == [status : RowStates, attempts : 0 .. MaxAttempts, stale : BOOLEAN]
Jobs == [at : JobStates, made : 0 .. MaxAttempts - 1, stalls : 0 .. 1]

\* A row keeps its type when it changes status.
LEMMA RowMoves ==
    ASSUME row \in [Events -> Rows], NEW e \in Events, NEW s \in RowStates,
           row' = [row EXCEPT ![e].status = s]
    PROVE  row' \in [Events -> Rows]
<1>1. row[e] \in Rows OBVIOUS
<1>2. [row[e] EXCEPT !.status = s] \in Rows BY <1>1 DEF Rows
<1>3. row' = [row EXCEPT ![e] = [row[e] EXCEPT !.status = s]] OBVIOUS
<1> QED BY <1>2, <1>3

\* A job keeps its type when it goes on to another state.
LEMMA JobMoves ==
    ASSUME job \in [Events -> Jobs], NEW e \in Events, NEW to \in JobStates,
           job' = [job EXCEPT ![e].at = to]
    PROVE  job' \in [Events -> Jobs]
<1>1. job[e] \in Jobs OBVIOUS
<1>2. [job[e] EXCEPT !.at = to] \in Jobs BY <1>1 DEF Jobs
<1>3. job' = [job EXCEPT ![e] = [job[e] EXCEPT !.at = to]] OBVIOUS
<1> QED BY <1>2, <1>3

-----------------------------------------------------------------------------
(* The actions.                                                            *)

\* The change and its event commit together.
LEMMA CommitStep ==
    ASSUME IInv, NEW e \in Events, Commit(e) PROVE IInv'
<1> USE DEF IInv, Commit, Notes
<1>1. TypeOK'
    <2>1. row' \in [Events -> Rows] BY RowMoves DEF TypeOK, Rows, RowStates
    <2>2. version' \in Nat /\ channel' \in 0 .. version' BY DEF TypeOK
    <2>3. ver' \in [Events -> 0 .. version'] BY DEF TypeOK
    <2> QED BY <2>1, <2>2, <2>3 DEF TypeOK, Rows
<1>2. Synced' BY DEF Synced, TypeOK
<1>3. Announced' BY DEF Announced, TypeOK
<1>4. Tried' BY DEF Tried, Counted, TypeOK
<1> QED BY <1>1, <1>2, <1>3, <1>4

LEMMA RelayStep ==
    ASSUME IInv, NEW e \in Events, Relay(e) \/ RelayFails(e) \/ GoesStale(e) \/ Replay(e)
    PROVE  IInv'
<1> USE DEF IInv, Data, Notes, Fault, NoJob
<1> USE BoundsAssumption
<1>1. CASE RequeueStale(e)
    <2> USE <1>1 DEF RequeueStale
    <2>1. TypeOK'
        <3>1. row[e] \in Rows BY DEF TypeOK, Rows
        <3>2. \A s \in RowStates : [row[e] EXCEPT !.stale = FALSE, !.status = s] \in Rows
            BY <3>1 DEF Rows
        <3>3. row' \in [Events -> Rows] BY <3>2 DEF TypeOK, Rows, RowStates
        <3> QED BY <3>3 DEF TypeOK, Rows
    <2>2. Synced' BY DEF Synced, TypeOK
    <2>3. Announced' BY DEF Announced, TypeOK
    <2>4. Tried' BY DEF Tried, Counted, TypeOK
    <2> QED BY <2>1, <2>2, <2>3, <2>4
<1>2. CASE Claim(e)
    <2> USE <1>2 DEF Claim
    <2>1. TypeOK'
        <3>1. row[e] \in Rows BY DEF TypeOK, Rows
        <3>2. [row[e] EXCEPT !.status = "processing", !.stale = FALSE] \in Rows
            BY <3>1 DEF Rows, RowStates
        <3>3. row' \in [Events -> Rows] BY <3>2 DEF TypeOK, Rows
        <3>4. hands' \in [Events -> 0 .. MaxHands] BY DEF TypeOK
        <3> QED BY <3>3, <3>4 DEF TypeOK, Rows
    <2>2. Synced' BY DEF Synced, TypeOK
    <2>3. Announced' BY DEF Announced, TypeOK
    <2>4. Tried' BY DEF Tried, Counted, TypeOK
    <2> QED BY <2>1, <2>2, <2>3, <2>4
<1>3. CASE Add(e)
    <2> USE <1>3 DEF Add
    <2>1. TypeOK' BY DEF TypeOK, JobStates
    <2>2. Synced' BY DEF Synced, TypeOK
    <2>3. Announced' BY DEF Announced
    <2>4. Tried' BY DEF Tried, Counted, TypeOK, Running
    <2> QED BY <2>1, <2>2, <2>3, <2>4
<1>4. CASE RelayFails(e)
    <2> USE <1>4 DEF RelayFails
    <2>1. TypeOK' BY DEF TypeOK
    <2>2. Synced' BY DEF Synced, TypeOK
    <2>3. Announced' BY DEF Announced
    <2>4. Tried' BY DEF Tried, Counted
    <2> QED BY <2>1, <2>2, <2>3, <2>4
<1>5. CASE GoesStale(e)
    <2> USE <1>5 DEF GoesStale
    <2>1. TypeOK' BY DEF TypeOK, RowStates
    <2>2. Synced' BY DEF Synced, TypeOK
    <2>3. Announced' BY DEF Announced, TypeOK
    <2>4. Tried' BY DEF Tried, Counted, TypeOK
    <2> QED BY <2>1, <2>2, <2>3, <2>4
<1>6. CASE Replay(e)
    <2> USE <1>6 DEF Replay
    <2>1. TypeOK' BY DEF TypeOK, RowStates
    <2>2. Synced' BY DEF Synced, TypeOK
    <2>3. Announced' BY DEF Announced, TypeOK
    <2>4. Tried' BY DEF Tried, Counted, TypeOK
    <2> QED BY <2>1, <2>2, <2>3, <2>4
<1> QED BY <1>1, <1>2, <1>3, <1>4, <1>5, <1>6 DEF Relay

\* A run of the job moves one job along; only MarkSent and MarkRetry write the row, and only
\* a push changes what the channel manager has read.
LEMMA ProcessStep ==
    ASSUME IInv, NEW e \in Events,
           Process(e) \/ PushFails(e) \/ MarkSentFails(e) \/ MarkRetryFails(e)
    PROVE  IInv'
<1> USE DEF IInv, Data, Notes, Fault, At
<1> USE BoundsAssumption
<1>1. CASE Start(e)
    <2> USE <1>1 DEF Start, Less
    <2>1. TypeOK'
        <3>1. job' \in [Events -> Jobs] BY JobMoves DEF TypeOK, Jobs, JobStates
        <3> QED BY <3>1 DEF TypeOK, Jobs
    <2>2. Synced' BY DEF Synced, TypeOK
    <2>3. Announced' BY DEF Announced
    <2>4. Tried' BY DEF Tried, Counted, TypeOK, Running
    <2> QED BY <2>1, <2>2, <2>3, <2>4
<1>2. CASE Push(e)
    <2> USE <1>2 DEF Push
    <2>1. TypeOK'
        <3>1. job' \in [Events -> Jobs] BY JobMoves DEF TypeOK, Jobs, JobStates
        <3> QED BY <3>1 DEF TypeOK, Jobs
    <2>2. Synced' BY DEF Synced, TypeOK
    <2>3. Announced' BY DEF Announced
    <2>4. Tried' BY DEF Tried, Counted, TypeOK, Running
    <2> QED BY <2>1, <2>2, <2>3, <2>4
<1>3. CASE PushFails(e)
    <2> USE <1>3 DEF PushFails
    <2>1. TypeOK'
        <3>1. job' \in [Events -> Jobs] BY JobMoves DEF TypeOK, Jobs, JobStates
        <3> QED BY <3>1 DEF TypeOK, Jobs
    <2>2. Synced' BY DEF Synced, TypeOK
    <2>3. Announced' BY DEF Announced
    <2>4. Tried' BY DEF Tried, Counted, TypeOK, Running
    <2> QED BY <2>1, <2>2, <2>3, <2>4
<1>4. CASE MarkSent(e)
    <2> USE <1>4 DEF MarkSent
    <2>1. TypeOK'
        <3>1. job' \in [Events -> Jobs] BY JobMoves DEF TypeOK, Jobs, JobStates
        <3>2. job[e].made + 1 \in 0 .. MaxAttempts BY DEF TypeOK
        <3>3. row' \in [Events -> Rows] BY <3>2 DEF TypeOK, Rows, RowStates
        <3> QED BY <3>1, <3>3 DEF TypeOK, Rows, Jobs
    <2>2. Synced' BY DEF Synced, TypeOK
    <2>3. Announced' BY DEF Announced, TypeOK, Synced
    <2>4. Tried' BY DEF Tried, Counted, TypeOK, Running
    <2> QED BY <2>1, <2>2, <2>3, <2>4
<1>5. CASE MarkSentFails(e)
    <2> USE <1>5 DEF MarkSentFails
    <2>1. TypeOK'
        <3>1. job' \in [Events -> Jobs] BY JobMoves DEF TypeOK, Jobs, JobStates
        <3> QED BY <3>1 DEF TypeOK, Jobs
    <2>2. Synced' BY DEF Synced, TypeOK
    <2>3. Announced' BY DEF Announced
    <2>4. Tried' BY DEF Tried, Counted, TypeOK, Running
    <2> QED BY <2>1, <2>2, <2>3, <2>4
<1>6. CASE MarkRetry(e)
    <2> USE <1>6 DEF MarkRetry
    <2>1. TypeOK'
        <3>1. job' \in [Events -> Jobs] BY JobMoves DEF TypeOK, Jobs, JobStates
        <3>2. job[e].made + 1 \in 0 .. MaxAttempts /\ row[e] \in Rows BY DEF TypeOK, Rows
        <3>3. [row[e] EXCEPT !.attempts = job[e].made + 1, !.stale = FALSE] \in Rows
            BY <3>2 DEF Rows
        <3>4. row' \in [Events -> Rows] BY <3>3 DEF TypeOK, Rows
        <3> QED BY <3>1, <3>4 DEF TypeOK, Rows, Jobs
    <2>2. Synced' BY DEF Synced, TypeOK
    <2>3. Announced' BY DEF Announced, TypeOK
    <2>4. Tried' BY DEF Tried, Counted, TypeOK, Running
    <2> QED BY <2>1, <2>2, <2>3, <2>4
<1>7. CASE MarkRetryFails(e)
    <2> USE <1>7 DEF MarkRetryFails
    <2>1. TypeOK'
        <3>1. job' \in [Events -> Jobs] BY JobMoves DEF TypeOK, Jobs, JobStates
        <3> QED BY <3>1 DEF TypeOK, Jobs
    <2>2. Synced' BY DEF Synced, TypeOK
    <2>3. Announced' BY DEF Announced
    <2>4. Tried' BY DEF Tried, Counted, TypeOK, Running
    <2> QED BY <2>1, <2>2, <2>3, <2>4
<1> QED BY <1>1, <1>2, <1>3, <1>4, <1>5, <1>6, <1>7 DEF Process

\* The queue only hands a job back, or drops it; the last attempt is dead-lettered.
LEMMA QueueStep ==
    ASSUME IInv, NEW e \in Events, Queue(e) \/ MarkFailedFails(e) PROVE IInv'
<1> USE DEF IInv, Data, Notes, Fault, NoJob
<1> USE BoundsAssumption
<1>1. CASE Complete(e)
    <2> USE <1>1 DEF Complete
    <2>1. TypeOK' BY DEF TypeOK, JobStates
    <2>2. Synced' BY DEF Synced, TypeOK
    <2>3. Announced' BY DEF Announced
    <2>4. Tried' BY DEF Tried, Counted, TypeOK, Running
    <2> QED BY <2>1, <2>2, <2>3, <2>4
<1>2. CASE Fail(e)
    <2> USE <1>2 DEF Fail
    <2>0. job[e] \in Jobs /\ job[e].made \in 0 .. MaxAttempts - 1 BY DEF TypeOK, Jobs
    <2>1. TypeOK'
        <3>1. NoJob \in Jobs BY DEF Jobs, JobStates
        <3>2. ASSUME job[e].made + 1 < MaxAttempts
              PROVE  [job[e] EXCEPT !.at = "waiting", !.made = @ + 1] \in Jobs
            <4>1. job[e].made + 1 \in 0 .. MaxAttempts - 1 BY <2>0, <3>2
            <4>2. "waiting" \in JobStates BY DEF JobStates
            <4> QED BY <2>0, <4>1, <4>2 DEF Jobs
        <3>3. job' \in [Events -> Jobs] BY <3>1, <3>2 DEF TypeOK, Jobs
        <3>4. dying' \in [Events -> BOOLEAN] BY DEF TypeOK
        <3> QED BY <3>3, <3>4 DEF TypeOK, Jobs
    <2>2. Synced' BY DEF Synced, TypeOK
    <2>3. Announced' BY DEF Announced
    <2>4. Tried'
        <3> SUFFICES ASSUME NEW f \in Events, ~replayed[f] PROVE Counted(f)'
            BY DEF Tried
        <3>1. Counted(f) BY DEF Tried
        <3>2. CASE f # e BY <3>1, <3>2 DEF Counted, TypeOK
        <3>3. CASE f = e /\ job[e].made + 1 < MaxAttempts
            <4>1. job'[e].at = "waiting" /\ job'[e].made = job[e].made + 1 /\ dying' = dying
                BY <3>3 DEF TypeOK
            <4> QED BY <2>0, <3>1, <3>3, <4>1 DEF Counted, TypeOK, Running
        <3>4. CASE f = e /\ ~(job[e].made + 1 < MaxAttempts)
            <4>1. job'[e].at = "none" /\ job'[e].made = 0 BY <3>4 DEF TypeOK
            <4>2. tries[e] >= MaxAttempts BY <2>0, <3>1, <3>4 DEF Counted, TypeOK, Running
            <4> QED BY <3>1, <3>4, <4>1, <4>2 DEF Counted, TypeOK, Running
        <3> QED BY <3>2, <3>3, <3>4
    <2> QED BY <2>1, <2>2, <2>3, <2>4
<1>3. CASE Stalled(e)
    <2> USE <1>3 DEF Stalled
    <2>1. TypeOK'
        <3>1. NoJob \in Jobs BY DEF Jobs, JobStates
        <3>2. [job[e] EXCEPT !.at = "waiting", !.stalls = 1] \in Jobs
            <4>1. job[e] \in Jobs BY DEF TypeOK, Jobs
            <4>2. "waiting" \in JobStates /\ 1 \in 0 .. 1 BY DEF JobStates
            <4> QED BY <4>1, <4>2 DEF Jobs
        <3>3. job' \in [Events -> Jobs] BY <3>1, <3>2 DEF TypeOK, Jobs
        <3> QED BY <3>3 DEF TypeOK, Jobs
    <2>2. Synced' BY DEF Synced, TypeOK
    <2>3. Announced' BY DEF Announced
    <2>4. Tried' BY DEF Tried, Counted, TypeOK, Running
    <2> QED BY <2>1, <2>2, <2>3, <2>4
<1>4. CASE MarkFailed(e)
    <2> USE <1>4 DEF MarkFailed
    <2>1. TypeOK' BY DEF TypeOK, RowStates
    <2>2. Synced' BY DEF Synced, TypeOK
    <2>3. Announced' BY DEF Announced, TypeOK, Synced
    <2>4. Tried' BY DEF Tried, Counted, TypeOK
    <2> QED BY <2>1, <2>2, <2>3, <2>4
<1>5. CASE MarkFailedFails(e)
    <2> USE <1>5 DEF MarkFailedFails
    <2>1. TypeOK' BY DEF TypeOK
    <2>2. Synced' BY DEF Synced, TypeOK
    <2>3. Announced' BY DEF Announced
    <2>4. Tried' BY DEF Tried, Counted, TypeOK
    <2> QED BY <2>1, <2>2, <2>3, <2>4
<1> QED BY <1>1, <1>2, <1>3, <1>4, <1>5 DEF Queue

\* A crash forgets what the worker held and leaves its jobs stalled.
LEMMA CrashStep == ASSUME IInv, Crash PROVE IInv'
<1> USE DEF IInv, Crash, Data, Fault
<1> USE BoundsAssumption
<1>1. TypeOK'
    <2>1. \A e \in Events : [job[e] EXCEPT !.at = "stalled"] \in Jobs
        BY DEF TypeOK, Jobs, JobStates
    <2>2. job' \in [Events -> Jobs] BY <2>1 DEF TypeOK, Jobs
    <2> QED BY <2>2 DEF TypeOK, Jobs
<1>2. Synced' BY DEF Synced, TypeOK, Running
<1>3. Announced' BY DEF Announced
<1>4. Tried' BY DEF Tried, Counted, TypeOK, Running
<1> QED BY <1>1, <1>2, <1>3, <1>4

-----------------------------------------------------------------------------

\* The inductive invariant.
LEMMA IInvHolds == Spec => []IInv
<1>1. Init => IInv
    BY BoundsAssumption
    DEF Init, IInv, TypeOK, Synced, Announced, Tried, Counted, NoJob, RowStates, JobStates, Running
<1>2. ASSUME IInv, [Next]_vars PROVE IInv'
    <2>1. CASE UNCHANGED vars
        BY <1>2, <2>1 DEF vars, IInv, TypeOK, Synced, Announced, Tried, Counted
    <2>2. CASE Next
        BY <1>2, <2>2, CommitStep, RelayStep, ProcessStep, QueueStep, CrashStep
        DEF Next, Failure
    <2> QED BY <1>2, <2>1, <2>2
<1> QED BY <1>1, <1>2, PTL DEF Spec

\* The rows, the jobs and what the worker holds of them always have their types: no job
\* makes more than max_attempts attempts.
THEOREM TypeCorrect == Spec => []TypeOK
BY IInvHolds, PTL DEF IInv

\* When everything announced is marked sent the channel manager is up to date, for any
\* number of changes, crashes, lost answers and replays.
THEOREM SentMeansSynced == Spec => []AllSentMeansSynced
<1>1. IInv => AllSentMeansSynced
    BY DEF IInv, TypeOK, Synced, Announced, AllSentMeansSynced
<1> QED BY <1>1, IInvHolds, PTL

\* A dead letter nobody replayed has used all its attempts.
THEOREM DeadLettersTried == Spec => []DeadLetterWasTried
<1>1. IInv => DeadLetterWasTried
    BY DEF IInv, Tried, Counted, DeadLetterWasTried
<1> QED BY <1>1, IInvHolds, PTL
=============================================================================
