--------------------------- MODULE WriteContexts ----------------------------
(***************************************************************************)
(* missive/storage/storage_queue.cc, WriteContext: how the writes of one   *)
(* StorageQueue, which are compressed and encrypted on other threads, are  *)
(* put back in order and wait for disk space.                              *)
(*                                                                         *)
(* Writes are numbered in the order of the Write() calls; the number also  *)
(* stands for the digest of the record.  Every action is a task of the     *)
(* queue's sequenced task runner.  What happens between two of them on     *)
(* other runners (memory waits, compression, encryption, the search for    *)
(* degradation candidates, shedding in their queues) is in the order in    *)
(* which the tasks come back.  What StorageQueue does with the files is in *)
(* module StorageQueue; here a write succeeds or fails.                    *)
(*                                                                         *)
(* A CHECK that fails, or a call of a method of a deleted context, is the  *)
(* end of what is known about the process: fault says so and nothing       *)
(* happens any more.                                                       *)
(***************************************************************************)
EXTENDS Integers, Sequences

CONSTANT
    MaxWrites   \* bound on the Write() calls

ASSUME WriteContextsAssumption == MaxWrites \in Nat

VARIABLES
    ctx,        \* the contexts: "new", "processing", "ready" (buffer_ is filled), "gone"
    queue,      \* write_contexts_queue_
    prev,       \* last_record_digest of each record, None if it has none
    digest,     \* last_record_digest_ of the queue
    resumes,    \* ResumeWriteRecord() tasks, bound to a weak pointer
    asked,      \* degradation_candidates_cb_ calls that were not answered yet
    shedding,   \* ShedRecords() chains under way
    fault,      \* what has become of the process
    answer,     \* history: what write_callback was called with
    stored      \* history: the writes whose record is in a file, in that order

vars == <<ctx, queue, prev, digest, resumes, asked, shedding, fault, answer, stored>>

Writes == 1..MaxWrites
None == 0

\* How many tasks and calls can be under way for one context: a context that is
\* at the head and waits for space is resumed once more by every write that is
\* refused meanwhile.
Tasks == 0..MaxWrites

TypeOK ==
    /\ ctx \in [Writes -> {"new", "processing", "ready", "gone"}]
    /\ queue \in Seq(Writes)
    /\ prev \in [Writes -> {None} \cup Writes] /\ digest \in {None} \cup Writes
    /\ resumes \in [Writes -> Tasks] /\ asked \in [Writes -> Tasks] /\ shedding \in [Writes -> Tasks]
    /\ fault \in {"none", "check failed", "deleted context called"}
    /\ answer \in [Writes -> {"none", "ok", "error"}]
    /\ stored \in Seq(Writes)

Init ==
    /\ ctx = [w \in Writes |-> "new"]
    /\ queue = <<>>
    /\ prev = [w \in Writes |-> None] /\ digest = None
    /\ resumes = [w \in Writes |-> 0]
    /\ asked = [w \in Writes |-> 0] /\ shedding = [w \in Writes |-> 0]
    /\ fault = "none"
    /\ answer = [w \in Writes |-> "none"]
    /\ stored = <<>>

-----------------------------------------------------------------------------

IsHead(w) == queue # <<>> /\ Head(queue) = w

MutantScheduleHead(q, tasks) == tasks

\* The end of ~WriteContext(): the context at the head of what is now the
\* queue, q, is told to write if its buffer is filled in.
ScheduleHead(q, tasks) ==
    IF q # <<>> /\ ctx[Head(q)] = "ready"
    THEN [tasks EXCEPT ![Head(q)] = @ + 1]
    ELSE tasks

MutantDelete(w, result, q, tasks) ==
    /\ answer' = [answer EXCEPT ![w] = result]
    /\ ctx' = [ctx EXCEPT ![w] = "gone"]
    /\ UNCHANGED queue
    /\ resumes' = [ScheduleHead(queue, tasks) EXCEPT ![w] = 0]

\* Response() of write w, which leaves q in the queue: the caller is answered
\* and the context deleted.  Weak pointers to it are no longer valid.
Delete(w, result, q, tasks) ==
    /\ answer' = [answer EXCEPT ![w] = result]
    /\ ctx' = [ctx EXCEPT ![w] = "gone"]
    /\ queue' = q
    /\ resumes' = [ScheduleHead(q, tasks) EXCEPT ![w] = 0]

\* Response() of a write that is still in the queue: the destructor CHECKs
\* that it is at the head before it removes it.
RespondFromQueue(w) ==
    \/ /\ IsHead(w)
       /\ Delete(w, "error", Tail(queue), resumes)
       /\ UNCHANGED fault
    \/ /\ ~IsHead(w)
       /\ fault' = "check failed"
       /\ UNCHANGED <<ctx, queue, resumes, answer>>

\* A task bound to the bare pointer of a context that has been deleted.
CallDeleted(w) ==
    /\ ctx[w] = "gone"
    /\ fault' = "deleted context called"
    /\ UNCHANGED <<ctx, queue, resumes, answer>>

MutantLastDigest == digest

\* The digest OnStart() attaches: of the last write that is in the queue.
LastDigest == IF queue = <<>> THEN digest ELSE queue[Len(queue)]

\* OnStart(), in the order of the calls.  A record without destination, or
\* that would use reserved space, is refused before it enters the queue.
OnStart(w) ==
    /\ fault = "none"
    /\ ctx[w] = "new" /\ \A v \in 1..(w - 1) : ctx[v] # "new"
    /\ \/ /\ Delete(w, "error", queue, resumes)
          /\ UNCHANGED prev
       \/ /\ ctx' = [ctx EXCEPT ![w] = "processing"]
          /\ prev' = [prev EXCEPT ![w] = LastDigest]
          /\ queue' = Append(queue, w)
          /\ UNCHANGED <<resumes, answer>>
    /\ UNCHANGED <<digest, asked, shedding, fault, stored>>

\* There was no memory, or the record could not be serialized or encrypted.
ProcessingFails(w) ==
    /\ fault = "none" /\ ctx[w] = "processing"
    /\ RespondFromQueue(w)
    /\ UNCHANGED <<prev, digest, asked, shedding, stored>>

\* The head leaves the queue, and AssignLastFile() or WriteMetadata() fails,
\* or WriteHeaderAndBlock() fails after it has kept the digest, or all is well.
Store(w, tasks) ==
    \/ /\ Delete(w, "error", Tail(queue), tasks)
       /\ digest' \in {digest, w}
       /\ UNCHANGED stored
    \/ /\ Delete(w, "ok", Tail(queue), tasks)
       /\ digest' = w
       /\ stored' = Append(stored, w)

MutantResumeWriteRecord(w, tasks) ==
    \/ /\ ctx' = [ctx EXCEPT ![w] = "ready"]
       /\ asked' = [asked EXCEPT ![w] = @ + 1]
       /\ resumes' = tasks
       /\ UNCHANGED <<queue, digest, answer, stored>>
    \/ /\ Store(w, tasks)
       /\ UNCHANGED asked

\* Not at the head the write waits to be resumed.  At the head it asks for
\* degradation candidates if there is no disk space, and else writes.
ResumeWriteRecord(w, tasks) ==
    \/ /\ ctx' = [ctx EXCEPT ![w] = "ready"]
       /\ asked' = IF IsHead(w) THEN [asked EXCEPT ![w] = @ + 1] ELSE asked
       /\ resumes' = tasks
       /\ UNCHANGED <<queue, digest, answer, stored>>
    \/ /\ IsHead(w)
       /\ Store(w, tasks)
       /\ UNCHANGED asked

\* After encryption: the buffer is filled in.
WriteRecord(w) ==
    /\ fault = "none" /\ ctx[w] = "processing"
    /\ ResumeWriteRecord(w, resumes)
    /\ UNCHANGED <<prev, shedding, fault>>

\* The task that a destructor has scheduled.
ScheduledResume(w) ==
    /\ fault = "none" /\ resumes[w] > 0
    /\ ResumeWriteRecord(w, [resumes EXCEPT ![w] = @ - 1])
    /\ UNCHANGED <<prev, shedding, fault>>

MutantRetryWithDegradation(w) ==
    /\ fault = "none" /\ asked[w] > 0
    /\ asked' = [asked EXCEPT ![w] = @ - 1]
    /\ \/ /\ CallDeleted(w)
          /\ UNCHANGED shedding
       \/ /\ ctx[w] # "gone"
          /\ UNCHANGED <<ctx, queue, resumes, answer, fault, shedding>>
       \/ /\ ctx[w] # "gone"
          /\ shedding' = [shedding EXCEPT ![w] = @ + 1]
          /\ UNCHANGED <<ctx, queue, resumes, answer, fault>>
    /\ UNCHANGED <<prev, digest, stored>>

\* There are no queues of lower priority and the write fails, or there are and
\* ShedRecords() goes through them, and the original queue after them.
RetryWithDegradation(w) ==
    /\ fault = "none" /\ asked[w] > 0
    /\ asked' = [asked EXCEPT ![w] = @ - 1]
    /\ \/ /\ CallDeleted(w)
          /\ UNCHANGED shedding
       \/ /\ ctx[w] # "gone"
          /\ RespondFromQueue(w)
          /\ UNCHANGED shedding
       \/ /\ ctx[w] # "gone"
          /\ shedding' = [shedding EXCEPT ![w] = @ + 1]
          /\ UNCHANGED <<ctx, queue, resumes, answer, fault>>
    /\ UNCHANGED <<prev, digest, stored>>

\* Without the return that follows the callback the chain goes on.
MutantSheddingEnds(w) == shedding

\* ShedRecords() returns when it has called either callback: the chain of the
\* queues it goes through has ended.
SheddingEnds(w) == [shedding EXCEPT ![w] = @ - 1]

\* ShedFiles() made space in some queue: resume_writing_cb.
ResumeAfterShedding(w) ==
    /\ fault = "none" /\ shedding[w] > 0
    /\ shedding' = SheddingEnds(w)
    /\ \/ /\ CallDeleted(w)
          /\ UNCHANGED <<asked, digest, stored>>
       \/ /\ ctx[w] # "gone"
          /\ ResumeWriteRecord(w, resumes)
          /\ UNCHANGED fault
    /\ UNCHANGED prev

\* No queue could make space: writing_failure_cb.
DiskSpaceReservationFailure(w) ==
    /\ fault = "none" /\ shedding[w] > 0
    /\ shedding' = SheddingEnds(w)
    /\ \/ CallDeleted(w)
       \/ /\ ctx[w] # "gone"
          /\ Delete(w, "error", Tail(queue), resumes)
          /\ UNCHANGED fault
    /\ UNCHANGED <<prev, digest, asked, stored>>

Next ==
    \E w \in Writes :
        \/ OnStart(w) \/ ProcessingFails(w) \/ WriteRecord(w) \/ ScheduledResume(w)
        \/ RetryWithDegradation(w) \/ ResumeAfterShedding(w) \/ DiskSpaceReservationFailure(w)

Spec == Init /\ [][Next]_vars

\* Every posted task is run, and every call to another sequence is answered.
\* Whether there is space is anybody's guess, each time.
FairSpec ==
    /\ Spec
    /\ \A w \in Writes :
          /\ WF_vars(WriteRecord(w) \/ ProcessingFails(w))
          /\ WF_vars(ScheduledResume(w))
          /\ WF_vars(RetryWithDegradation(w))
          /\ WF_vars(ResumeAfterShedding(w) \/ DiskSpaceReservationFailure(w))

-----------------------------------------------------------------------------

\* Records are stored in the order of the Write() calls, in whatever order
\* their encryption ends, other writes fail, or space is found.
StoredInOrder ==
    \A i, j \in 1..Len(stored) : i < j => stored[i] < stored[j]

\* "Created by client and used by server to verify that the sequence of records
\* has not been tampered with" (record.proto, last_record_digest): a record
\* carries the digest of the one stored before it, unless the write it carries
\* the digest of has failed, and the caller was told.
ChainBreaksOnlyAfterFailure ==
    \A i \in 1..Len(stored) :
        \/ prev[stored[i]] = (IF i = 1 THEN None ELSE stored[i - 1])
        \/ prev[stored[i]] # None /\ answer[prev[stored[i]]] = "error"

\* "Context is always removed from this queue before being destructed"
\* (storage_queue.h, write_contexts_queue_), so that no weak pointer in it is
\* null; and whoever waits for space is at the head, as the comment "We are at
\* the head of the queue, remove ourselves" in DiskSpaceReservationFailure() says.
QueueHoldsLiveContexts ==
    /\ \A i \in 1..Len(queue) : ctx[queue[i]] \in {"processing", "ready"}
    /\ \A w \in Writes : ctx[w] \in {"processing", "ready"} => \E i \in 1..Len(queue) : queue[i] = w
    /\ \A w \in Writes : (asked[w] + shedding[w] > 0 /\ ctx[w] # "gone") => IsHead(w)

\* No wakeup is lost: a head with a filled buffer has a task on its way that
\* will resume it or end it.
ReadyHeadIsResumed ==
    (fault = "none" /\ queue # <<>> /\ ctx[Head(queue)] = "ready") =>
        resumes[Head(queue)] + asked[Head(queue)] + shedding[Head(queue)] > 0

\* The space that was made for w was taken by another queue before w was
\* resumed: w asks for degradation candidates again.
SpaceIsTaken(w) == shedding'[w] < shedding[w] /\ asked'[w] > asked[w]

\* Every write that was started is answered while the process lives, unless the
\* space that is made for it, or for a write before it, is taken by others again
\* and again for ever: the code has no limit on how often it sheds and retries.
EveryWriteIsAnswered ==
    \A w \in Writes :
        \/ ctx[w] = "processing" ~> (answer[w] # "none" \/ fault # "none")
        \/ \E v \in 1..w : []<><<SpaceIsTaken(v)>>_vars

-----------------------------------------------------------------------------
(***************************************************************************)
(* What a comment in the code says and the code does not do.               *)
(***************************************************************************)

\* "if the write fails, it needs to be removed from the queue regardless of
\* whether it is at the head, tail or middle" (storage_queue.h): a failed write
\* never ends the process in the CHECK of ~WriteContext().
FailedWritesAreRemoved == fault # "check failed"

=============================================================================
