------------------------------- MODULE Outbox -------------------------------
(***************************************************************************)
(* The way of a rate or availability change to the channel manager. The    *)
(* change and its outbox row commit together; the worker's relay claims    *)
(* pending rows and adds a job per row to a BullMQ queue; the queue runs   *)
(* the job, again and again with backoff, until the push succeeded or its  *)
(* attempts are used up; rows that stay in 'processing' for 120 s are      *)
(* requeued. A push only asks the channel manager to read the hotel's      *)
(* data again, so what it carries over is the state of the hotel when it   *)
(* arrives.                                                                *)
(***************************************************************************)
EXTENDS Integers, FiniteSets

CONSTANTS
    Events,       \* the outbox rows that may be written
    MaxAttempts,  \* the column max_attempts, and the attempts of a job
    MaxFaults,    \* bound: crashes, lost calls and failed bookkeeping writes
    MaxReplays,   \* bound: dead letters an operator sets back to pending
    MaxHands      \* bound: relay ticks that hold the same row at a time

ASSUME BoundsAssumption ==
    /\ MaxAttempts \in Nat \ {0} /\ MaxHands \in Nat \ {0}
    /\ MaxFaults \in Nat /\ MaxReplays \in Nat

VARIABLES
    row,          \* row[e]: the outbox row
    hands,        \* hands[e]: relay ticks that claimed e and have not added its job yet
    job,          \* job[e]: the job with jobId e in the queue, and its run
    dying,        \* dying[e]: the 'failed' listener still has to dead-letter the row
    version,      \* the hotel's data: how many changes have committed
    channel,      \* the version the channel manager last read
    ver,          \* ver[e]: the version that e announces
    tries,        \* history: runs of e's job since it committed or was last replayed
    replayed,     \* history: e was set back to pending by an operator
    faults, replays

vars == <<row, hands, job, dying, version, channel, ver, tries, replayed, faults, replays>>

RowStates == {"absent", "pending", "processing", "sent", "failed"}
\* "waiting" stands for BullMQ's waiting and delayed; the states of a running job tell how
\* far the processor is; "stalled" is a job whose worker died under it.
JobStates == {"none", "waiting", "pushing", "pushed", "refused", "done", "threw", "stalled"}
Running   == {"pushing", "pushed", "refused", "done", "threw"}
NoJob     == [at |-> "none", made |-> 0, stalls |-> 0]

Less(k, l) == IF k < l THEN k ELSE l

At(e, from, to) == job[e].at = from /\ job' = [job EXCEPT ![e].at = to]
Fault           == faults < MaxFaults /\ faults' = faults + 1       \* the bound of the model
Data            == <<version, channel, ver>>
Notes           == <<tries, replayed, faults, replays>>

-----------------------------------------------------------------------------
(* The API: a change of the hotel's data and its outbox row.               *)

\* enqueueOutbox in the transaction of the change.
Commit(e) ==
    /\ row[e].status = "absent"
    /\ version' = version + 1
    /\ ver' = [ver EXCEPT ![e] = version + 1]
    /\ row' = [row EXCEPT ![e].status = "pending"]
    /\ UNCHANGED <<hands, job, dying, channel, Notes>>

-----------------------------------------------------------------------------
(* The relay, every 1.5 s.                                                 *)

\* Broken: stale rows are dead-lettered at their last attempt instead of after it.
RequeueStaleEarly(e) ==
    /\ row[e].status = "processing" /\ row[e].stale
    /\ row' = [row EXCEPT ![e].stale = FALSE,
                          ![e].status = IF row[e].attempts >= MaxAttempts - 1
                                        THEN "failed" ELSE "pending"]
    /\ UNCHANGED <<hands, job, dying, Data, Notes>>

\* Broken: rows a dead worker left with attempts to spare are not requeued.
RequeueExhaustedOnly(e) ==
    /\ row[e].status = "processing" /\ row[e].stale /\ row[e].attempts >= MaxAttempts
    /\ row' = [row EXCEPT ![e].stale = FALSE, ![e].status = "failed"]
    /\ UNCHANGED <<hands, job, dying, Data, Notes>>

\* requeueStaleOutbox: a stale row whose attempts are used up is dead-lettered.
RequeueStale(e) ==
    /\ row[e].status = "processing" /\ row[e].stale
    /\ row' = [row EXCEPT ![e].stale = FALSE,
                          ![e].status = IF row[e].attempts >= MaxAttempts
                                        THEN "failed" ELSE "pending"]
    /\ UNCHANGED <<hands, job, dying, Data, Notes>>

\* claimPendingOutbox; ticks may overlap, so more than one may come to hold a row.
Claim(e) ==
    /\ row[e].status = "pending"
    /\ hands[e] < MaxHands                     \* the bound of the model
    /\ row' = [row EXCEPT ![e].status = "processing", ![e].stale = FALSE]
    /\ hands' = [hands EXCEPT ![e] = @ + 1]
    /\ UNCHANGED <<job, dying, Data, Notes>>

\* queue.add with the row's id as jobId: ignored while a job with that id exists.
Add(e) ==
    /\ hands[e] > 0
    /\ hands' = [hands EXCEPT ![e] = @ - 1]
    /\ job' = IF job[e].at = "none" THEN [job EXCEPT ![e] = [NoJob EXCEPT !.at = "waiting"]]
                                    ELSE job
    /\ UNCHANGED <<row, dying, Data, Notes>>

\* queue.add throws: the tick ends, and the rows it still held stay in 'processing'.
RelayFails(e) ==
    /\ hands[e] > 0 /\ Fault
    /\ hands' = [hands EXCEPT ![e] = @ - 1]
    /\ UNCHANGED <<row, job, dying, Data, tries, replayed, replays>>

-----------------------------------------------------------------------------
(* The job processor.                                                      *)

Start(e) ==
    /\ At(e, "waiting", "pushing")
    /\ tries' = [tries EXCEPT ![e] = Less(@ + 1, MaxAttempts)]
    /\ UNCHANGED <<row, hands, dying, Data, replayed, faults, replays>>

\* Broken: the push carries the change it was queued for, not the hotel's data.
PushOwnChange(e) ==
    /\ At(e, "pushing", "pushed")
    /\ channel' = ver[e]
    /\ UNCHANGED <<row, hands, dying, version, ver, Notes>>

\* adapter.push: the channel manager reads the data again and answers.
Push(e) ==
    /\ At(e, "pushing", "pushed")
    /\ channel' = version
    /\ UNCHANGED <<row, hands, dying, version, ver, Notes>>

\* It times out, is refused, or the rate capability is missing; the read may have happened.
PushFails(e) ==
    /\ At(e, "pushing", "refused")
    /\ Fault
    /\ channel' \in {channel, version}
    /\ UNCHANGED <<row, hands, dying, version, ver, tries, replayed, replays>>

\* Broken: the row counts its attempts itself, also over a replay.
MarkSentCounting(e) ==
    /\ At(e, "pushed", "done")
    /\ row' = [row EXCEPT ![e].status = "sent", ![e].attempts = @ + 1, ![e].stale = FALSE]
    /\ UNCHANGED <<hands, dying, Data, Notes>>

\* markOutboxSent copies the count of the job's attempts.
MarkSent(e) ==
    /\ At(e, "pushed", "done")
    /\ row' = [row EXCEPT ![e] = [status |-> "sent", attempts |-> job[e].made + 1, stale |-> FALSE]]
    /\ UNCHANGED <<hands, dying, Data, Notes>>

\* The write throws inside the try block, so a push that succeeded counts as a failure.
MarkSentFails(e) ==
    /\ At(e, "pushed", "refused") /\ Fault
    /\ UNCHANGED <<row, hands, dying, Data, tries, replayed, replays>>

MarkRetry(e) ==
    /\ At(e, "refused", "threw")
    /\ row' = [row EXCEPT ![e].attempts = job[e].made + 1, ![e].stale = FALSE]
    /\ UNCHANGED <<hands, dying, Data, Notes>>

MarkRetryFails(e) ==
    /\ At(e, "refused", "threw") /\ Fault
    /\ UNCHANGED <<row, hands, dying, Data, tries, replayed, replays>>

-----------------------------------------------------------------------------
(* The queue (BullMQ), as the worker configures it.                        *)

\* removeOnComplete.
Complete(e) ==
    /\ job[e].at = "done"
    /\ job' = [job EXCEPT ![e] = NoJob]
    /\ UNCHANGED <<row, hands, dying, Data, Notes>>

\* A run that threw is retried until its attempts are used up; then the job goes
\* (removeOnFail) and the 'failed' listener is called.
Fail(e) ==
    /\ job[e].at = "threw"
    /\ IF job[e].made + 1 < MaxAttempts
       THEN /\ job' = [job EXCEPT ![e].at = "waiting", ![e].made = @ + 1]
            /\ UNCHANGED dying
       ELSE /\ job' = [job EXCEPT ![e] = NoJob]
            /\ dying' = [dying EXCEPT ![e] = TRUE]
    /\ UNCHANGED <<row, hands, Data, Notes>>

\* A stalled job runs again, once; the second time it is dropped as failed, with attempts
\* left, so the listener does not dead-letter its row.
Stalled(e) ==
    /\ job[e].at = "stalled"
    /\ job' = [job EXCEPT ![e] = IF @.stalls = 0 THEN [@ EXCEPT !.at = "waiting", !.stalls = 1]
                                                 ELSE NoJob]
    /\ UNCHANGED <<row, hands, dying, Data, Notes>>

\* The 'failed' listener after the last attempt.
MarkFailed(e) ==
    /\ dying[e]
    /\ dying' = [dying EXCEPT ![e] = FALSE]
    /\ row' = [row EXCEPT ![e] = [status |-> "failed", attempts |-> MaxAttempts, stale |-> FALSE]]
    /\ UNCHANGED <<hands, job, Data, Notes>>

\* Its write fails and the error is swallowed.  (No bound: a job fails that often only by faults.)
MarkFailedFails(e) ==
    /\ dying[e]
    /\ dying' = [dying EXCEPT ![e] = FALSE]
    /\ UNCHANGED <<row, hands, job, Data, Notes>>

-----------------------------------------------------------------------------
(* Crashes, time and the operator.                                         *)

\* The worker process dies and is restarted: what it held in memory is gone.
Crash ==
    /\ Fault
    /\ hands' = [e \in Events |-> 0] /\ dying' = [e \in Events |-> FALSE]
    /\ job' = [e \in Events |-> IF job[e].at \in Running THEN [job[e] EXCEPT !.at = "stalled"]
                                                         ELSE job[e]]
    /\ UNCHANGED <<row, Data, tries, replayed, replays>>

\* 120 s pass since the row was last written.
GoesStale(e) ==
    /\ row[e].status = "processing" /\ ~row[e].stale
    /\ row' = [row EXCEPT ![e].stale = TRUE]
    /\ UNCHANGED <<hands, job, dying, Data, Notes>>

\* An operator sets a dead letter back to pending.
Replay(e) ==
    /\ row[e].status = "failed"
    /\ replays < MaxReplays                    \* the bound of the model
    /\ row' = [row EXCEPT ![e].status = "pending"]
    /\ tries' = [tries EXCEPT ![e] = 0]
    /\ replayed' = [replayed EXCEPT ![e] = TRUE]
    /\ replays' = replays + 1
    /\ UNCHANGED <<hands, job, dying, Data, faults>>

-----------------------------------------------------------------------------

Init ==
    /\ row = [e \in Events |-> [status |-> "absent", attempts |-> 0, stale |-> FALSE]]
    /\ hands = [e \in Events |-> 0] /\ job = [e \in Events |-> NoJob]
    /\ dying = [e \in Events |-> FALSE]
    /\ version = 0 /\ channel = 0 /\ ver = [e \in Events |-> 0]
    /\ tries = [e \in Events |-> 0] /\ replayed = [e \in Events |-> FALSE]
    /\ faults = 0 /\ replays = 0

Relay(e)   == RequeueStale(e) \/ Claim(e) \/ Add(e)
Process(e) == Start(e) \/ Push(e) \/ MarkSent(e) \/ MarkRetry(e)
Queue(e)   == Complete(e) \/ Fail(e) \/ Stalled(e) \/ MarkFailed(e)
Failure(e) == RelayFails(e) \/ PushFails(e) \/ MarkSentFails(e) \/ MarkRetryFails(e)
                            \/ MarkFailedFails(e)

Next ==
    \/ \E e \in Events : \/ Commit(e) \/ Relay(e) \/ Process(e) \/ Queue(e) \/ Failure(e)
                         \/ GoesStale(e) \/ Replay(e)
    \/ Crash

Spec == Init /\ [][Next]_vars

(* The relay ticks every 1.5 s, the worker is restarted when it dies, the queue hands out *)
(* waiting jobs, and time passes. Only finitely many calls fail.                          *)
FairSpec ==
    /\ Spec
    /\ \A e \in Events : /\ WF_vars(RequeueStale(e)) /\ WF_vars(Claim(e)) /\ WF_vars(Add(e))
                         /\ WF_vars(Process(e)) /\ WF_vars(Queue(e)) /\ WF_vars(GoesStale(e))

-----------------------------------------------------------------------------
(* Properties.                                                             *)

TypeOK ==
    /\ row \in [Events -> [status : RowStates, attempts : 0 .. MaxAttempts, stale : BOOLEAN]]
    /\ hands \in [Events -> 0 .. MaxHands]
    /\ job \in [Events -> [at : JobStates, made : 0 .. MaxAttempts - 1, stalls : 0 .. 1]]
    /\ dying \in [Events -> BOOLEAN] /\ replayed \in [Events -> BOOLEAN]
    /\ version \in Nat /\ channel \in 0 .. version /\ ver \in [Events -> 0 .. version]
    /\ tries \in [Events -> 0 .. MaxAttempts]
    /\ faults \in 0 .. MaxFaults /\ replays \in 0 .. MaxReplays

\* When every change that was announced is marked sent, the channel manager has seen the
\* hotel as it is: no crash, lost answer, requeue or duplicate job marks a row sent early,
\* and no later push takes the channel manager back.
AllSentMeansSynced == (\A e \in Events : row[e].status \in {"absent", "sent"}) => channel = version

\* A dead letter has used all its attempts, whichever way it got there: the listener after
\* the last attempt, or the requeue of a row whose worker died before its bookkeeping.
DeadLetterWasTried ==
    \A e \in Events : row[e].status = "failed" /\ ~replayed[e] => tries[e] >= MaxAttempts

\* No row stays in progress for ever: every announced change is sent or dead-lettered.
EveryRowSettles ==
    \A e \in Events : row[e].status \in {"pending", "processing"}
                          ~> row[e].status \in {"sent", "failed"}
=============================================================================
