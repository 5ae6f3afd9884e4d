------------------------ MODULE WriteContextsProofs -------------------------
(***************************************************************************)
(* Proofs about WriteContexts for any number of writes, however often      *)
(* other queues make space.                                                *)
(***************************************************************************)
EXTENDS WriteContexts, TLAPS

-----------------------------------------------------------------------------
(***************************************************************************)
(* The inductive invariant.                                                *)
(***************************************************************************)

\* The types, with no bound on the tasks: that follows from Counted, below.
Typed ==
    /\ ctx \in [Writes -> {"new", "processing", "ready", "gone"}]
    /\ queue \in Seq(Writes)
    /\ prev \in [Writes -> {None} \cup Writes] /\ digest \in {None} \cup Writes
    /\ resumes \in [Writes -> Nat] /\ asked \in [Writes -> Nat] /\ shedding \in [Writes -> Nat]
    /\ fault \in {"none", "check failed", "deleted context called"}
    /\ answer \in [Writes -> {"none", "ok", "error"}]
    /\ stored \in Seq(Writes)

LastStored == IF stored = <<>> THEN None ELSE stored[Len(stored)]

\* d is the digest of the record that was stored last, or of a failed write.
Follows(d) == d = LastStored \/ (d \in Writes /\ answer[d] = "error")

\* Whoever is in the queue came after everything that is stored, and what has not
\* started comes after both.
CallOrder ==
    /\ \A v, w \in Writes : ctx[v] # "new" /\ ctx[w] = "new" => v < w
    /\ \A i, j \in 1..Len(queue) : i < j => queue[i] < queue[j]
    /\ \A i \in 1..Len(stored), j \in 1..Len(queue) : stored[i] < queue[j]
    /\ StoredInOrder

\* Only deleted contexts have answered, and what is stored has an answer.
Answers ==
    /\ \A w \in Writes : ctx[w] # "gone" => answer[w] = "none"
    /\ \A i \in 1..Len(stored) : ctx[stored[i]] = "gone"

\* The queue is a chain of digests, which starts after the last stored record; so
\* would a write that found the queue empty.
Chain ==
    /\ \A i \in 2..Len(queue) : prev[queue[i]] = queue[i - 1]
    /\ queue # <<>> => Follows(prev[queue[1]])
    /\ Follows(digest)
    /\ ChainBreaksOnlyAfterFailure

\* Tasks refer to contexts with a filled buffer; those bound to bare pointers may
\* outlive their context.
Waits ==
    \A w \in Writes :
        /\ resumes[w] > 0 => ctx[w] = "ready"
        /\ asked[w] > 0 \/ shedding[w] > 0 => ctx[w] \in {"ready", "gone"}

IInv ==
    /\ Typed
    /\ CallOrder
    /\ QueueHoldsLiveContexts
    /\ Answers
    /\ Chain
    /\ Waits
    /\ ReadyHeadIsResumed

\* The invariant holds at the start.
LEMMA InitIInv == Init => IInv
<1> SUFFICES ASSUME Init PROVE IInv
    OBVIOUS
<1> USE WriteContextsAssumption DEF Init
<1>1. Typed
    BY DEF Typed, Writes, None
<1>2. CallOrder /\ Answers
    BY DEF CallOrder, StoredInOrder, Answers
<1>3. QueueHoldsLiveContexts /\ Waits /\ ReadyHeadIsResumed
    BY DEF QueueHoldsLiveContexts, Waits, ReadyHeadIsResumed
<1>4. Chain
    BY DEF Chain, Follows, LastStored, ChainBreaksOnlyAfterFailure
<1> QED BY <1>1, <1>2, <1>3, <1>4 DEF IInv

-----------------------------------------------------------------------------
(***************************************************************************)
(* The queue and what the steps do to it.                                  *)
(***************************************************************************)

\* What is left when the head leaves.
LEMMA TailIs ==
    ASSUME NEW S, NEW q \in Seq(S), q # <<>>
    PROVE  /\ Tail(q) \in Seq(S) /\ Len(q) \in Nat /\ Len(q) > 0
           /\ Len(Tail(q)) = Len(q) - 1
           /\ \A i \in 1..Len(Tail(q)) : Tail(q)[i] = q[i + 1]
           /\ Head(q) = q[1] /\ q[1] \in S
           /\ Tail(q) # <<>> => Len(q) > 1 /\ Head(Tail(q)) = q[2] /\ q[2] \in S
OBVIOUS

\* The queue with another write at its end.
LEMMA AppendIs ==
    ASSUME NEW S, NEW q \in Seq(S), NEW x \in S
    PROVE  /\ Append(q, x) \in Seq(S) /\ Len(q) \in Nat
           /\ Len(Append(q, x)) = Len(q) + 1
           /\ \A i \in 1..Len(q) : Append(q, x)[i] = q[i]
           /\ Append(q, x)[Len(q) + 1] = x
           /\ Append(q, x) # <<>>
           /\ Head(Append(q, x)) = IF q = <<>> THEN x ELSE Head(q)
<1>1. /\ Append(q, x) \in Seq(S) /\ Len(q) \in Nat
      /\ Len(Append(q, x)) = Len(q) + 1
      /\ \A i \in 1..Len(q) : Append(q, x)[i] = q[i]
      /\ Append(q, x)[Len(q) + 1] = x
      /\ Append(q, x) # <<>>
    OBVIOUS
<1>2. Head(Append(q, x)) = Append(q, x)[1]
    BY <1>1
<1>3. CASE q = <<>>
    BY <1>1, <1>2, <1>3
<1>4. CASE q # <<>>
    <2>1. Len(q) > 0 /\ Head(q) = q[1]
        BY <1>4, TailIs
    <2> QED BY <1>1, <1>2, <1>4, <2>1
<1> QED BY <1>3, <1>4

\* The head is a live context and the one after it is another.
LEMMA HeadIs ==
    ASSUME Typed, CallOrder, QueueHoldsLiveContexts, queue # <<>>
    PROVE  /\ Head(queue) = queue[1] /\ queue[1] \in Writes
           /\ ctx[queue[1]] \in {"processing", "ready"}
           /\ Len(queue) > 1 => queue[2] \in Writes /\ queue[1] < queue[2]
<1>1. queue \in Seq(Writes)
    BY DEF Typed
<1> QED BY <1>1, TailIs DEF CallOrder, QueueHoldsLiveContexts

\* What a destructor schedules.
LEMMA ScheduleIs ==
    ASSUME NEW q \in Seq(Writes), NEW tasks \in [Writes -> Nat]
    PROVE  /\ ScheduleHead(q, tasks) \in [Writes -> Nat]
           /\ \A v \in Writes : ScheduleHead(q, tasks)[v] =
                 IF q # <<>> /\ v = Head(q) /\ ctx[v] = "ready" THEN tasks[v] + 1 ELSE tasks[v]
BY DEF ScheduleHead

-----------------------------------------------------------------------------
(***************************************************************************)
(* One lemma for each thing that can happen to a write.                    *)
(***************************************************************************)

\* The head of the queue is stored or fails, and its context is deleted.
LEMMA LeaveStep ==
    ASSUME IInv, NEW w \in Writes, IsHead(w), NEW tasks \in [Writes -> Nat],
           NEW result \in {"ok", "error"}, Delete(w, result, Tail(queue), tasks),
           \/ result = "ok" /\ digest' = w /\ stored' = Append(stored, w)
           \/ result = "error" /\ digest' \in {digest, w} /\ stored' = stored,
           asked' \in [Writes -> Nat], shedding' \in [Writes -> Nat],
           \A v \in Writes \ {w} : /\ tasks[v] = resumes[v]
                                   /\ asked'[v] = asked[v] /\ shedding'[v] = shedding[v],
           prev' = prev, fault' = fault
    PROVE  IInv'
<1>1. /\ queue \in Seq(Writes) /\ queue # <<>> /\ stored \in Seq(Writes)
      /\ w = queue[1] /\ w = Head(queue)
    BY HeadIs DEF IInv, Typed, IsHead
<1>2. /\ queue' = Tail(queue) /\ queue' \in Seq(Writes)
      /\ Len(queue) \in Nat /\ Len(queue) > 0 /\ Len(queue') = Len(queue) - 1
      /\ \A i \in 1..Len(queue') : queue'[i] = queue[i + 1]
      /\ queue' # <<>> => Len(queue) > 1 /\ Head(queue') = queue[2] /\ queue[2] \in Writes
    BY <1>1, TailIs DEF Delete
<1>3. /\ \A v \in Writes : ctx'[v] = IF v = w THEN "gone" ELSE ctx[v]
      /\ \A v \in Writes : answer'[v] = IF v = w THEN result ELSE answer[v]
      /\ ctx' \in [Writes -> {"new", "processing", "ready", "gone"}]
      /\ answer' \in [Writes -> {"none", "ok", "error"}]
    BY DEF Delete, IInv, Typed
<1>4. /\ resumes' \in [Writes -> Nat]
      /\ \A v \in Writes : resumes'[v] =
            IF v = w THEN 0
            ELSE IF queue' # <<>> /\ v = Head(queue') /\ ctx[v] = "ready" THEN resumes[v] + 1
            ELSE resumes[v]
    <2>1. /\ ScheduleHead(queue', tasks) \in [Writes -> Nat]
          /\ \A v \in Writes : ScheduleHead(queue', tasks)[v] =
                IF queue' # <<>> /\ v = Head(queue') /\ ctx[v] = "ready" THEN tasks[v] + 1 ELSE tasks[v]
        BY <1>2, ScheduleIs
    <2>2. resumes' = [ScheduleHead(queue', tasks) EXCEPT ![w] = 0]
        BY <1>2 DEF Delete
    <2> QED BY <2>1, <2>2
<1>5. \A i \in 1..Len(queue') : /\ i + 1 \in 2..Len(queue) /\ queue'[i] = queue[i + 1]
                                /\ queue[i + 1] \in Writes /\ w < queue[i + 1]
    <2>1. \A i \in 2..Len(queue) : queue[1] < queue[i] /\ queue[i] \in Writes
        BY <1>1, <1>2 DEF IInv, CallOrder
    <2> QED BY <1>1, <1>2, <2>1
<1>6. ctx[w] \in {"processing", "ready"} /\ answer[w] = "none"
    BY <1>1, HeadIs DEF IInv, Answers
<1>7. /\ stored' \in Seq(Writes) /\ Len(stored) \in Nat
      /\ \A i \in 1..Len(stored) : stored'[i] = stored[i] /\ stored[i] \in Writes /\ stored[i] < w
      /\ \/ stored' = stored
         \/ result = "ok" /\ Len(stored') = Len(stored) + 1 /\ stored'[Len(stored) + 1] = w
    <2>1. \A i \in 1..Len(stored) : stored[i] \in Writes /\ stored[i] < w
        <3>1. 1 \in 1..Len(queue)
            BY <1>2
        <3>2. \A i \in 1..Len(stored) : stored[i] < queue[1]
            BY <3>1 DEF IInv, CallOrder
        <3>3. \A i \in 1..Len(stored) : stored[i] \in Writes
            BY <1>1
        <3> QED BY <1>1, <3>2, <3>3
    <2>2. CASE stored' = stored
        BY <1>1, <2>1, <2>2
    <2>3. CASE result = "ok" /\ stored' = Append(stored, w)
        BY <1>1, <2>1, <2>3, AppendIs
    <2> QED BY <2>2, <2>3
<1>7a. \A i \in 1..Len(stored') : i \in 1..Len(stored) \/ (i = Len(stored) + 1 /\ stored'[i] = w)
    <2>1. CASE stored' = stored
        BY <2>1
    <2>2. CASE Len(stored') = Len(stored) + 1 /\ stored'[Len(stored) + 1] = w
        BY <1>7, <2>2
    <2> QED BY <1>7, <2>1, <2>2
<1>8. Typed'
    BY <1>2, <1>3, <1>4, <1>7 DEF IInv, Typed
<1>9. CallOrder'
    <2>1. \A v, u \in Writes : ctx'[v] # "new" /\ ctx'[u] = "new" => v < u
        <3>1. \A v \in Writes : (ctx'[v] = "new") <=> (ctx[v] = "new")
            BY <1>3, <1>6
        <3>2. \A v, u \in Writes : ctx[v] # "new" /\ ctx[u] = "new" => v < u
            BY DEF IInv, CallOrder
        <3> QED BY <3>1, <3>2
    <2>2. \A i, j \in 1..Len(queue') : i < j => queue'[i] < queue'[j]
        BY <1>2, <1>5 DEF IInv, CallOrder
    <2>3. \A i \in 1..Len(stored'), j \in 1..Len(queue') : stored'[i] < queue'[j]
        <3> TAKE i \in 1..Len(stored'), j \in 1..Len(queue')
        <3>1. w < queue'[j] /\ w \in Int /\ queue'[j] \in Int
            BY <1>5 DEF Writes
        <3>2. stored'[i] = w \/ (stored'[i] \in Int /\ stored'[i] < w)
            <4>1. Writes \subseteq Int
                BY DEF Writes
            <4>2. CASE i \in 1..Len(stored)
                BY <1>7, <4>1, <4>2
            <4> QED BY <1>7a, <4>2
        <3> QED BY <3>1, <3>2
    <2>4. StoredInOrder'
        <3> SUFFICES ASSUME NEW i \in 1..Len(stored'), NEW j \in 1..Len(stored'), i < j
                     PROVE  stored'[i] < stored'[j]
            BY DEF StoredInOrder
        <3>1. CASE j \in 1..Len(stored)
            <4>1. i \in 1..Len(stored)
                BY <1>7, <3>1
            <4>2. stored[i] < stored[j]
                BY <3>1, <4>1 DEF IInv, CallOrder, StoredInOrder
            <4> QED BY <1>7, <3>1, <4>1, <4>2
        <3>2. CASE j \notin 1..Len(stored)
            <4>1. stored'[j] = w /\ i \in 1..Len(stored)
                BY <1>7, <1>7a, <3>2
            <4> QED BY <1>7, <4>1
        <3> QED BY <3>1, <3>2
    <2> QED BY <2>1, <2>2, <2>3, <2>4 DEF CallOrder
<1>10. QueueHoldsLiveContexts'
    <2>1. \A i \in 1..Len(queue') : ctx'[queue'[i]] \in {"processing", "ready"}
        <3> TAKE i \in 1..Len(queue')
        <3>1. ctx[queue[i + 1]] \in {"processing", "ready"}
            BY <1>5 DEF IInv, QueueHoldsLiveContexts
        <3> QED BY <1>3, <1>5, <3>1 DEF Writes
    <2>2. ASSUME NEW v \in Writes, ctx'[v] \in {"processing", "ready"}
          PROVE  \E i \in 1..Len(queue') : queue'[i] = v
        <3>1. v # w /\ ctx[v] \in {"processing", "ready"}
            BY <1>3, <2>2
        <3>2. PICK i \in 1..Len(queue) : queue[i] = v
            BY <3>1 DEF IInv, QueueHoldsLiveContexts
        <3>3. i # 1
            BY <1>1, <3>1, <3>2
        <3>4. i - 1 \in 1..Len(queue') /\ queue'[i - 1] = v
            BY <1>2, <3>2, <3>3
        <3> QED BY <3>4
    <2>3. ASSUME NEW v \in Writes, asked'[v] + shedding'[v] > 0, ctx'[v] # "gone"
          PROVE  FALSE
        <3>1. v # w /\ asked[v] + shedding[v] > 0 /\ ctx[v] # "gone"
            BY <1>3, <2>3
        <3> QED BY <1>1, <3>1 DEF IInv, QueueHoldsLiveContexts, IsHead
    <2> QED BY <2>1, <2>2, <2>3 DEF QueueHoldsLiveContexts
<1>11. Answers'
    <2>1. \A v \in Writes : ctx'[v] # "gone" => answer'[v] = "none"
        BY <1>3 DEF IInv, Answers
    <2>2. \A i \in 1..Len(stored') : ctx'[stored'[i]] = "gone"
        <3> TAKE i \in 1..Len(stored')
        <3>1. CASE i \in 1..Len(stored)
            <4>1. ctx[stored[i]] = "gone"
                BY <3>1 DEF IInv, Answers
            <4> QED BY <1>3, <1>7, <3>1, <4>1
        <3>2. CASE i \notin 1..Len(stored)
            BY <1>3, <1>7, <3>2
        <3> QED BY <3>1, <3>2
    <2> QED BY <2>1, <2>2 DEF Answers
<1>12. Waits'
    <2> SUFFICES ASSUME NEW v \in Writes
                 PROVE  /\ resumes'[v] > 0 => ctx'[v] = "ready"
                        /\ asked'[v] > 0 \/ shedding'[v] > 0 => ctx'[v] \in {"ready", "gone"}
        BY DEF Waits
    <2>1. CASE v = w
        BY <1>3, <1>4, <2>1
    <2>2. CASE v # w
        <3>1. /\ resumes[v] > 0 => ctx[v] = "ready"
              /\ asked[v] > 0 \/ shedding[v] > 0 => ctx[v] \in {"ready", "gone"}
            BY DEF IInv, Waits
        <3>2. ctx'[v] = ctx[v] /\ (resumes'[v] = resumes[v] \/ ctx[v] = "ready")
            BY <1>3, <1>4, <2>2
        <3> QED BY <2>2, <3>1, <3>2
    <2> QED BY <2>1, <2>2
<1>13. ReadyHeadIsResumed'
    <2> SUFFICES ASSUME queue' # <<>>, ctx'[Head(queue')] = "ready"
                 PROVE  resumes'[Head(queue')] + asked'[Head(queue')] + shedding'[Head(queue')] > 0
        BY DEF ReadyHeadIsResumed
    <2>1. Head(queue') \in Writes
        BY <1>2
    <2>2. ctx[Head(queue')] = "ready" /\ Head(queue') # w
        BY <1>3, <2>1
    <2>3. resumes'[Head(queue')] = resumes[Head(queue')] + 1
        BY <1>4, <2>1, <2>2
    <2>4. /\ resumes[Head(queue')] \in Nat
          /\ asked'[Head(queue')] \in Nat /\ shedding'[Head(queue')] \in Nat
        BY <2>1 DEF IInv, Typed
    <2> QED BY <2>3, <2>4
<1>14. Chain'
    <2>1. \A v \in Writes : answer[v] = "error" => answer'[v] = "error"
        BY <1>3, <1>6
    <2>2. LastStored' = IF result = "ok" THEN w ELSE LastStored
        <3>1. CASE result = "ok" /\ stored' = Append(stored, w)
            <4>1. stored' # <<>> /\ Len(stored') = Len(stored) + 1 /\ stored'[Len(stored) + 1] = w
                BY <1>1, <3>1, AppendIs
            <4> QED BY <3>1, <4>1 DEF LastStored
        <3>2. CASE result = "error" /\ stored' = stored
            BY <3>2 DEF LastStored
        <3> QED BY <3>1, <3>2
    <2>3. Follows(w)'
        BY <1>3, <2>2 DEF Follows
    <2>4. Follows(digest)'
        <3>1. CASE digest' = w
            BY <2>3, <3>1 DEF Follows
        <3>2. CASE digest' = digest /\ stored' = stored /\ result = "error"
            BY <2>1, <2>2, <3>2 DEF IInv, Chain, Follows
        <3> QED BY <3>1, <3>2
    <2>5. \A i \in 2..Len(queue') : prev'[queue'[i]] = queue'[i - 1]
        <3> TAKE i \in 2..Len(queue')
        <3>1. i + 1 \in 2..Len(queue) /\ queue'[i] = queue[i + 1] /\ queue'[i - 1] = queue[i]
            BY <1>2
        <3> QED BY <3>1 DEF IInv, Chain
    <2>6. queue' # <<>> => Follows(prev[queue[1]])'
        <3> SUFFICES ASSUME queue' # <<>> PROVE Follows(prev[queue[1]])'
            OBVIOUS
        <3>1. queue'[1] = queue[2] /\ 2 \in 2..Len(queue)
            BY <1>2
        <3>2. prev'[queue'[1]] = w
            BY <1>1, <3>1 DEF IInv, Chain
        <3> QED BY <2>3, <3>2 DEF Follows
    <2>7. ChainBreaksOnlyAfterFailure'
        <3>1. ASSUME NEW i \in 1..Len(stored)
              PROVE  \/ prev'[stored'[i]] = (IF i = 1 THEN None ELSE stored'[i - 1])
                     \/ prev'[stored'[i]] # None /\ answer'[prev'[stored'[i]]] = "error"
            <4>1. /\ stored'[i] = stored[i] /\ stored[i] \in Writes
                  /\ i # 1 => stored'[i - 1] = stored[i - 1]
                <5>1. i # 1 => i - 1 \in 1..Len(stored)
                    BY <1>7
                <5> QED BY <1>7, <5>1
            <4>2. prev[stored[i]] \in {None} \cup Writes
                BY <4>1 DEF IInv, Typed
            <4> QED BY <2>1, <4>1, <4>2 DEF IInv, Chain, ChainBreaksOnlyAfterFailure
        <3>2. CASE stored' = stored
            BY <3>1, <3>2 DEF ChainBreaksOnlyAfterFailure
        <3>3. CASE Len(stored') = Len(stored) + 1 /\ stored'[Len(stored) + 1] = w
            <4>1. Follows(prev[w])
                BY <1>1 DEF IInv, Chain
            <4> DEFINE n == Len(stored) + 1
            <4>2. CASE prev[w] = LastStored
                <5>1. prev[w] = IF n = 1 THEN None ELSE stored[n - 1]
                    BY <1>1, <1>7, <4>2 DEF LastStored
                <5>2. n # 1 => stored'[n - 1] = stored[n - 1]
                    BY <1>7
                <5>3. prev'[stored'[n]] = (IF n = 1 THEN None ELSE stored'[n - 1])
                    BY <3>3, <5>1, <5>2
                <5>4. \A i \in 1..Len(stored') : i \in 1..Len(stored) \/ i = n
                    BY <1>7a
                <5> HIDE DEF n
                <5> QED BY <3>1, <5>3, <5>4 DEF ChainBreaksOnlyAfterFailure
            <4>3. CASE prev[w] \in Writes /\ answer[prev[w]] = "error"
                BY <1>7, <2>1, <3>1, <3>3, <4>3 DEF ChainBreaksOnlyAfterFailure, Writes, None
            <4> QED BY <4>1, <4>2, <4>3 DEF Follows
        <3> QED BY <1>7, <3>2, <3>3
    <2> QED BY <2>4, <2>5, <2>6, <2>7 DEF Chain
<1> QED BY <1>8, <1>9, <1>10, <1>11, <1>12, <1>13, <1>14 DEF IInv

\* Answers other than "error" may change without breaking the chain.
LEMMA SameChain ==
    ASSUME Typed, Chain, UNCHANGED <<prev, digest, queue, stored>>,
           \A v \in Writes : answer[v] = "error" => answer'[v] = "error"
    PROVE  Chain'
<1>1. \A d : Follows(d) => Follows(d)'
    BY DEF Follows, LastStored
<1>2. ChainBreaksOnlyAfterFailure'
    <2> SUFFICES ASSUME NEW i \in 1..Len(stored)
                 PROVE  \/ prev[stored[i]] = (IF i = 1 THEN None ELSE stored[i - 1])
                        \/ prev[stored[i]] # None /\ answer'[prev[stored[i]]] = "error"
        BY DEF ChainBreaksOnlyAfterFailure
    <2>1. stored[i] \in Writes
        <3>1. stored \in Seq(Writes)
            BY DEF Typed
        <3> QED BY <3>1
    <2>2. prev[stored[i]] \in {None} \cup Writes
        BY <2>1 DEF Typed
    <2> QED BY <2>2 DEF Chain, ChainBreaksOnlyAfterFailure
<1> QED BY <1>1, <1>2 DEF Chain

\* A write that is refused before it enters the queue.
LEMMA RefuseStep ==
    ASSUME IInv, NEW w \in Writes, ctx[w] = "new", \A v \in 1..(w - 1) : ctx[v] # "new",
           Delete(w, "error", queue, resumes),
           UNCHANGED <<prev, digest, asked, shedding, fault, stored>>
    PROVE  IInv'
<1>1. /\ \A v \in Writes : ctx'[v] = IF v = w THEN "gone" ELSE ctx[v]
      /\ \A v \in Writes : answer'[v] = IF v = w THEN "error" ELSE answer[v]
      /\ ctx' \in [Writes -> {"new", "processing", "ready", "gone"}]
      /\ answer' \in [Writes -> {"none", "ok", "error"}]
      /\ queue' = queue /\ queue \in Seq(Writes) /\ stored \in Seq(Writes)
    BY DEF Delete, IInv, Typed
<1>2. /\ resumes' \in [Writes -> Nat]
      /\ \A v \in Writes : resumes'[v] =
            IF v = w THEN 0
            ELSE IF queue # <<>> /\ v = Head(queue) /\ ctx[v] = "ready" THEN resumes[v] + 1
            ELSE resumes[v]
    <2>1. resumes \in [Writes -> Nat]
        BY DEF IInv, Typed
    <2>2. /\ ScheduleHead(queue, resumes) \in [Writes -> Nat]
          /\ \A v \in Writes : ScheduleHead(queue, resumes)[v] =
                IF queue # <<>> /\ v = Head(queue) /\ ctx[v] = "ready"
                THEN resumes[v] + 1 ELSE resumes[v]
        BY <1>1, <2>1, ScheduleIs
    <2>3. resumes' = [ScheduleHead(queue, resumes) EXCEPT ![w] = 0]
        BY DEF Delete
    <2> QED BY <2>2, <2>3
<1>3. answer[w] = "none"
    BY DEF IInv, Answers
<1>4. /\ \A i \in 1..Len(queue) : queue[i] \in Writes /\ queue[i] # w
      /\ \A i \in 1..Len(stored) : stored[i] \in Writes /\ stored[i] # w
    <2>1. \A i \in 1..Len(queue) : queue[i] \in Writes /\ ctx[queue[i]] # "new"
        BY <1>1 DEF IInv, QueueHoldsLiveContexts
    <2>2. \A i \in 1..Len(stored) : stored[i] \in Writes /\ ctx[stored[i]] # "new"
        BY <1>1 DEF IInv, Answers
    <2> QED BY <2>1, <2>2
<1>5. Typed'
    BY <1>1, <1>2 DEF IInv, Typed
<1>6. CallOrder'
    <2>1. \A v, u \in Writes : ctx'[v] # "new" /\ ctx'[u] = "new" => v < u
        <3> TAKE v, u \in Writes
        <3> HAVE ctx'[v] # "new" /\ ctx'[u] = "new"
        <3>1. u # w /\ ctx[u] = "new"
            BY <1>1
        <3>2. CASE v = w
            BY <3>1, <3>2 DEF Writes
        <3>3. CASE v # w
            BY <1>1, <3>1, <3>3 DEF IInv, CallOrder
        <3> QED BY <3>2, <3>3
    <2> QED BY <1>1, <2>1 DEF IInv, CallOrder, StoredInOrder
<1>7. QueueHoldsLiveContexts'
    <2>1. \A i \in 1..Len(queue') : ctx'[queue'[i]] \in {"processing", "ready"}
        BY <1>1, <1>4 DEF IInv, QueueHoldsLiveContexts
    <2>2. \A v \in Writes : ctx'[v] \in {"processing", "ready"} =>
              \E i \in 1..Len(queue') : queue'[i] = v
        BY <1>1 DEF IInv, QueueHoldsLiveContexts
    <2>3. \A v \in Writes : (asked'[v] + shedding'[v] > 0 /\ ctx'[v] # "gone") => IsHead(v)'
        BY <1>1 DEF IInv, QueueHoldsLiveContexts, IsHead
    <2> QED BY <2>1, <2>2, <2>3 DEF QueueHoldsLiveContexts
<1>8. Answers'
    <2>1. \A v \in Writes : ctx'[v] # "gone" => answer'[v] = "none"
        BY <1>1 DEF IInv, Answers
    <2>2. \A i \in 1..Len(stored') : ctx'[stored'[i]] = "gone"
        BY <1>1, <1>4 DEF IInv, Answers
    <2> QED BY <2>1, <2>2 DEF Answers
<1>9. Waits'
    <2> SUFFICES ASSUME NEW v \in Writes
                 PROVE  /\ resumes'[v] > 0 => ctx'[v] = "ready"
                        /\ asked'[v] > 0 \/ shedding'[v] > 0 => ctx'[v] \in {"ready", "gone"}
        BY DEF Waits
    <2>1. /\ resumes[v] > 0 => ctx[v] = "ready"
          /\ asked[v] > 0 \/ shedding[v] > 0 => ctx[v] \in {"ready", "gone"}
        BY DEF IInv, Waits
    <2>2. CASE v = w
        BY <1>1, <1>2, <2>2
    <2>3. CASE v # w
        <3>1. ctx'[v] = ctx[v] /\ (resumes'[v] = resumes[v] \/ ctx[v] = "ready")
            BY <1>1, <1>2, <2>3
        <3> QED BY <2>1, <3>1
    <2> QED BY <2>2, <2>3
<1>10. ReadyHeadIsResumed'
    <2> SUFFICES ASSUME fault = "none", queue # <<>>, ctx'[Head(queue)] = "ready"
                 PROVE  resumes'[Head(queue)] + asked[Head(queue)] + shedding[Head(queue)] > 0
        BY <1>1 DEF ReadyHeadIsResumed
    <2>1. Head(queue) \in Writes /\ Head(queue) # w
        BY <1>1, <1>4, TailIs
    <2>2. resumes'[Head(queue)] = resumes[Head(queue)] + 1
        BY <1>1, <1>2, <2>1
    <2>3. /\ resumes[Head(queue)] \in Nat
          /\ asked[Head(queue)] \in Nat /\ shedding[Head(queue)] \in Nat
        BY <2>1 DEF IInv, Typed
    <2> QED BY <2>2, <2>3
<1>11. Chain'
    BY <1>1, <1>3, SameChain DEF IInv
<1> QED BY <1>5, <1>6, <1>7, <1>8, <1>9, <1>10, <1>11 DEF IInv

\* A write enters the queue.
LEMMA EnqueueStep ==
    ASSUME IInv, NEW w \in Writes, ctx[w] = "new", \A v \in 1..(w - 1) : ctx[v] # "new",
           ctx' = [ctx EXCEPT ![w] = "processing"], prev' = [prev EXCEPT ![w] = LastDigest],
           queue' = Append(queue, w),
           UNCHANGED <<resumes, answer, digest, asked, shedding, fault, stored>>
    PROVE  IInv'
<1> DEFINE n == Len(queue)
<1>1. /\ \A v \in Writes : ctx'[v] = IF v = w THEN "processing" ELSE ctx[v]
      /\ ctx' \in [Writes -> {"new", "processing", "ready", "gone"}]
      /\ queue \in Seq(Writes) /\ stored \in Seq(Writes)
    BY DEF IInv, Typed
<1>2. /\ queue' \in Seq(Writes) /\ n \in Nat /\ Len(queue') = n + 1
      /\ \A i \in 1..n : queue'[i] = queue[i]
      /\ queue'[n + 1] = w
      /\ queue' # <<>> /\ Head(queue') = IF queue = <<>> THEN w ELSE Head(queue)
    BY <1>1, AppendIs
<1>3. \A i \in 1..Len(queue') : i \in 1..n \/ (i = n + 1 /\ queue'[i] = w)
    BY <1>2
<1>4. /\ \A i \in 1..n : queue[i] \in Writes /\ queue[i] < w /\ queue[i] # w
      /\ \A i \in 1..Len(stored) : stored[i] \in Writes /\ stored[i] < w /\ stored[i] # w
    <2>1. \A i \in 1..n : queue[i] \in Writes /\ ctx[queue[i]] # "new"
        BY <1>1 DEF IInv, QueueHoldsLiveContexts
    <2>2. \A i \in 1..Len(stored) : stored[i] \in Writes /\ ctx[stored[i]] # "new"
        BY <1>1 DEF IInv, Answers
    <2>3. \A v \in Writes : ctx[v] # "new" => v < w /\ v # w
        BY DEF IInv, CallOrder
    <2> QED BY <2>1, <2>2, <2>3
<1>5. LastDigest \in {None} \cup Writes
    <2>1. CASE queue = <<>>
        BY <2>1 DEF LastDigest, IInv, Typed
    <2>2. CASE queue # <<>>
        BY <1>1, <2>2 DEF LastDigest
    <2> QED BY <2>1, <2>2
<1>6. \A v \in Writes : prev'[v] = IF v = w THEN LastDigest ELSE prev[v]
    BY DEF IInv, Typed
<1>7. Typed'
    BY <1>1, <1>2, <1>5 DEF IInv, Typed
<1>8. CallOrder'
    <2>1. \A v, u \in Writes : ctx'[v] # "new" /\ ctx'[u] = "new" => v < u
        <3> TAKE v, u \in Writes
        <3> HAVE ctx'[v] # "new" /\ ctx'[u] = "new"
        <3>1. u # w /\ ctx[u] = "new"
            BY <1>1
        <3>2. CASE v = w
            BY <3>1, <3>2 DEF Writes
        <3>3. CASE v # w
            BY <1>1, <3>1, <3>3 DEF IInv, CallOrder
        <3> QED BY <3>2, <3>3
    <2>2. \A i, j \in 1..Len(queue') : i < j => queue'[i] < queue'[j]
        <3> TAKE i, j \in 1..Len(queue')
        <3> HAVE i < j
        <3>1. i \in 1..n
            BY <1>2
        <3>2. CASE j \in 1..n
            BY <1>2, <3>1, <3>2 DEF IInv, CallOrder
        <3>3. CASE j = n + 1 /\ queue'[j] = w
            BY <1>2, <1>4, <3>1, <3>3
        <3> QED BY <1>3, <3>2, <3>3
    <2>3. \A i \in 1..Len(stored'), j \in 1..Len(queue') : stored'[i] < queue'[j]
        <3> TAKE i \in 1..Len(stored'), j \in 1..Len(queue')
        <3>1. CASE j \in 1..n
            BY <1>2, <3>1 DEF IInv, CallOrder
        <3>2. CASE j = n + 1 /\ queue'[j] = w
            BY <1>4, <3>2
        <3> QED BY <1>3, <3>1, <3>2
    <2> QED BY <2>1, <2>2, <2>3 DEF IInv, CallOrder, StoredInOrder
<1>9. QueueHoldsLiveContexts'
    <2>1. \A i \in 1..Len(queue') : ctx'[queue'[i]] \in {"processing", "ready"}
        <3> TAKE i \in 1..Len(queue')
        <3>1. CASE i \in 1..n
            <4>1. ctx[queue[i]] \in {"processing", "ready"}
                BY <3>1 DEF IInv, QueueHoldsLiveContexts
            <4> QED BY <1>1, <1>2, <1>4, <3>1, <4>1
        <3>2. CASE i = n + 1 /\ queue'[i] = w
            BY <1>1, <3>2
        <3> QED BY <1>3, <3>1, <3>2
    <2>2. ASSUME NEW v \in Writes, ctx'[v] \in {"processing", "ready"}
          PROVE  \E i \in 1..Len(queue') : queue'[i] = v
        <3>1. CASE v = w
            BY <1>2, <3>1
        <3>2. CASE v # w
            <4>1. PICK i \in 1..n : queue[i] = v
                BY <1>1, <2>2, <3>2 DEF IInv, QueueHoldsLiveContexts
            <4>2. i \in 1..Len(queue') /\ queue'[i] = v
                BY <1>2, <4>1
            <4> QED BY <4>2
        <3> QED BY <3>1, <3>2
    <2>3. ASSUME NEW v \in Writes, asked[v] + shedding[v] > 0, ctx'[v] # "gone"
          PROVE  IsHead(v)'
        <3>1. asked[v] \in Nat /\ shedding[v] \in Nat
            BY DEF IInv, Typed
        <3>2. ctx[v] # "new"
            BY <2>3, <3>1 DEF IInv, Waits
        <3>3. ctx[v] # "gone"
            BY <1>1, <2>3, <3>2
        <3>4. queue # <<>> /\ Head(queue) = v
            BY <2>3, <3>3 DEF IInv, QueueHoldsLiveContexts, IsHead
        <3> QED BY <1>2, <3>4 DEF IsHead
    <2> QED BY <2>1, <2>2, <2>3 DEF QueueHoldsLiveContexts
<1>10. Answers'
    <2>1. \A v \in Writes : ctx'[v] # "gone" => answer'[v] = "none"
        BY <1>1 DEF IInv, Answers
    <2>2. \A i \in 1..Len(stored') : ctx'[stored'[i]] = "gone"
        BY <1>1, <1>4 DEF IInv, Answers
    <2> QED BY <2>1, <2>2 DEF Answers
<1>11. Waits'
    <2>1. \A v \in Writes : ctx'[v] = ctx[v] \/ ctx[v] = "new"
        BY <1>1
    <2> QED BY <2>1 DEF IInv, Waits
<1>12. ReadyHeadIsResumed'
    <2>1. CASE queue = <<>>
        BY <1>1, <1>2, <2>1 DEF ReadyHeadIsResumed
    <2>2. CASE queue # <<>>
        <3>1. Head(queue) \in Writes /\ Head(queue) # w
            BY <1>1, <1>4, <2>2, TailIs
        <3> QED BY <1>1, <1>2, <2>2, <3>1 DEF IInv, ReadyHeadIsResumed
    <2> QED BY <2>1, <2>2
<1>13. Chain'
    <2>1. \A d : Follows(d)' <=> Follows(d)
        BY DEF Follows, LastStored
    <2>2. \A i \in 2..Len(queue') : prev'[queue'[i]] = queue'[i - 1]
        <3> TAKE i \in 2..Len(queue')
        <3>1. i \in 1..Len(queue') /\ i - 1 \in 1..n
            BY <1>2
        <3>2. CASE i \in 1..n
            <4>1. prev[queue[i]] = queue[i - 1]
                BY <1>2, <3>2 DEF IInv, Chain
            <4> QED BY <1>2, <1>4, <1>6, <3>1, <3>2, <4>1
        <3>3. CASE i = n + 1 /\ queue'[i] = w
            <4>1. LastDigest = queue[n]
                BY <1>1, <3>1, <3>3 DEF LastDigest
            <4> QED BY <1>2, <1>6, <3>1, <3>3, <4>1
        <3> QED BY <1>3, <3>1, <3>2, <3>3
    <2>3. Follows(prev[queue[1]])'
        <3>1. CASE queue = <<>>
            <4>1. queue'[1] = w /\ LastDigest = digest
                BY <1>1, <1>2, <3>1 DEF LastDigest
            <4>2. prev'[queue'[1]] = digest
                BY <1>6, <4>1
            <4> QED BY <4>2, <2>1 DEF IInv, Chain, Follows, LastStored
        <3>2. CASE queue # <<>>
            <4>1. queue'[1] = queue[1] /\ prev'[queue[1]] = prev[queue[1]]
                BY <1>1, <1>2, <1>4, <1>6, <3>2, TailIs
            <4> QED BY <3>2, <4>1 DEF IInv, Chain, Follows, LastStored
        <3> QED BY <3>1, <3>2
    <2>4. Follows(digest)'
        BY DEF IInv, Chain, Follows, LastStored
    <2>5. ChainBreaksOnlyAfterFailure'
        <3>1. \A i \in 1..Len(stored) : prev'[stored[i]] = prev[stored[i]]
            BY <1>4, <1>6
        <3> QED BY <3>1 DEF IInv, Chain, ChainBreaksOnlyAfterFailure
    <2> QED BY <2>2, <2>3, <2>4, <2>5 DEF Chain
<1> QED BY <1>7, <1>8, <1>9, <1>10, <1>11, <1>12, <1>13 DEF IInv

\* A write stays in the queue with its buffer filled in: it is not at the head, or
\* there is no space.
LEMMA StayStep ==
    ASSUME IInv, NEW w \in Writes, ctx[w] \in {"processing", "ready"},
           resumes' \in [Writes -> Nat], shedding' \in [Writes -> Nat],
           \A v \in Writes \ {w} : resumes'[v] = resumes[v] /\ shedding'[v] = shedding[v],
           resumes'[w] <= resumes[w], shedding'[w] <= shedding[w],
           ctx' = [ctx EXCEPT ![w] = "ready"],
           asked' = IF IsHead(w) THEN [asked EXCEPT ![w] = @ + 1] ELSE asked,
           UNCHANGED <<queue, prev, digest, answer, stored, fault>>
    PROVE  IInv'
<1>1. /\ \A v \in Writes : ctx'[v] = IF v = w THEN "ready" ELSE ctx[v]
      /\ ctx' \in [Writes -> {"new", "processing", "ready", "gone"}]
      /\ queue \in Seq(Writes) /\ stored \in Seq(Writes)
    BY DEF IInv, Typed
<1>2. /\ asked' \in [Writes -> Nat] /\ asked \in [Writes -> Nat]
      /\ \A v \in Writes : asked'[v] = IF v = w /\ IsHead(w) THEN asked[v] + 1 ELSE asked[v]
    <2>1. asked \in [Writes -> Nat]
        BY DEF IInv, Typed
    <2>2. CASE IsHead(w)
        BY <2>1, <2>2
    <2>3. CASE ~IsHead(w)
        BY <2>1, <2>3
    <2> QED BY <2>2, <2>3
<1>3. shedding \in [Writes -> Nat] /\ resumes \in [Writes -> Nat]
    BY DEF IInv, Typed
<1>4. Typed'
    BY <1>1, <1>2 DEF IInv, Typed
<1>5. CallOrder'
    <2>1. \A v \in Writes : (ctx'[v] = "new") <=> (ctx[v] = "new")
        BY <1>1
    <2>2. \A v, u \in Writes : ctx'[v] # "new" /\ ctx'[u] = "new" => v < u
        BY <2>1 DEF IInv, CallOrder
    <2> QED BY <2>2 DEF IInv, CallOrder, StoredInOrder
<1>6. QueueHoldsLiveContexts'
    <2>1. \A v \in Writes : ctx'[v] \in {"processing", "ready"} <=> ctx[v] \in {"processing", "ready"}
        BY <1>1
    <2>2. \A i \in 1..Len(queue') : ctx'[queue'[i]] \in {"processing", "ready"}
        BY <1>1, <2>1 DEF IInv, QueueHoldsLiveContexts
    <2>3. \A v \in Writes : ctx'[v] \in {"processing", "ready"} =>
              \E i \in 1..Len(queue') : queue'[i] = v
        BY <2>1 DEF IInv, QueueHoldsLiveContexts
    <2>4. ASSUME NEW v \in Writes, asked'[v] + shedding'[v] > 0, ctx'[v] # "gone"
          PROVE  IsHead(v)
        <3>1. ctx[v] # "gone"
            BY <1>1, <2>4
        <3>2. CASE v = w /\ IsHead(w)
            BY <3>2
        <3>3. CASE ~(v = w /\ IsHead(w))
            <4>1. asked'[v] = asked[v] /\ shedding'[v] <= shedding[v]
                BY <1>2, <1>3, <3>3
            <4>2. asked[v] + shedding[v] > 0
                BY <1>2, <1>3, <2>4, <4>1
            <4> QED BY <3>1, <4>2 DEF IInv, QueueHoldsLiveContexts
        <3> QED BY <3>2, <3>3
    <2> QED BY <2>2, <2>3, <2>4 DEF QueueHoldsLiveContexts, IsHead
<1>7. Answers'
    BY <1>1 DEF IInv, Answers
<1>8. Waits'
    <2> SUFFICES ASSUME NEW v \in Writes
                 PROVE  /\ resumes'[v] > 0 => ctx'[v] = "ready"
                        /\ asked'[v] > 0 \/ shedding'[v] > 0 => ctx'[v] \in {"ready", "gone"}
        BY DEF Waits
    <2>1. CASE v = w
        BY <1>1, <2>1
    <2>2. CASE v # w
        BY <1>1, <1>2, <2>2 DEF IInv, Waits
    <2> QED BY <2>1, <2>2
<1>9. ReadyHeadIsResumed'
    <2> SUFFICES ASSUME fault = "none", queue # <<>>, ctx'[Head(queue)] = "ready"
                 PROVE  resumes'[Head(queue)] + asked'[Head(queue)] + shedding'[Head(queue)] > 0
        BY DEF ReadyHeadIsResumed
    <2>1. Head(queue) \in Writes
        BY <1>1, TailIs
    <2>2. CASE Head(queue) = w
        <3>1. asked'[w] = asked[w] + 1
            BY <1>2, <2>2 DEF IsHead
        <3> QED BY <1>2, <2>2, <3>1
    <2>3. CASE Head(queue) # w
        BY <1>1, <1>2, <2>1, <2>3 DEF IInv, ReadyHeadIsResumed
    <2> QED BY <2>2, <2>3
<1>10. Chain'
    BY SameChain DEF IInv
<1> QED BY <1>4, <1>5, <1>6, <1>7, <1>8, <1>9, <1>10 DEF IInv

\* The head is told the candidates, and the chain of ShedRecords() starts.
LEMMA ShedStep ==
    ASSUME IInv, NEW w \in Writes, asked[w] > 0, ctx[w] # "gone",
           asked' = [asked EXCEPT ![w] = @ - 1], shedding' = [shedding EXCEPT ![w] = @ + 1],
           UNCHANGED <<ctx, queue, resumes, answer, fault, prev, digest, stored>>
    PROVE  IInv'
<1>1. /\ asked \in [Writes -> Nat] /\ shedding \in [Writes -> Nat] /\ resumes \in [Writes -> Nat]
      /\ queue \in Seq(Writes)
    BY DEF IInv, Typed
<1>2. /\ \A v \in Writes : asked'[v] + shedding'[v] = asked[v] + shedding[v]
      /\ \A v \in Writes : v # w => asked'[v] = asked[v] /\ shedding'[v] = shedding[v]
      /\ asked' \in [Writes -> Nat] /\ shedding' \in [Writes -> Nat]
    <2>1. asked[w] - 1 \in Nat /\ shedding[w] + 1 \in Nat
        BY <1>1
    <2>2. asked'[w] = asked[w] - 1 /\ shedding'[w] = shedding[w] + 1
        BY <1>1
    <2>3. \A v \in Writes : v # w => asked'[v] = asked[v] /\ shedding'[v] = shedding[v]
        BY <1>1
    <2>4. asked'[w] + shedding'[w] = asked[w] + shedding[w]
        BY <1>1, <2>2
    <2> QED BY <1>1, <2>1, <2>3, <2>4
<1>3. Typed'
    BY <1>2 DEF IInv, Typed
<1>4. CallOrder' /\ Answers'
    BY DEF IInv, CallOrder, StoredInOrder, Answers
<1>5. QueueHoldsLiveContexts'
    BY <1>2 DEF IInv, QueueHoldsLiveContexts, IsHead
<1>6. Waits'
    BY <1>2 DEF IInv, Waits
<1>7. ReadyHeadIsResumed'
    <2> SUFFICES ASSUME fault = "none", queue # <<>>, ctx[Head(queue)] = "ready"
                 PROVE  resumes[Head(queue)] + asked'[Head(queue)] + shedding'[Head(queue)] > 0
        BY DEF ReadyHeadIsResumed
    <2>1. Head(queue) \in Writes
        BY <1>1, TailIs
    <2>2. resumes[Head(queue)] + asked[Head(queue)] + shedding[Head(queue)] > 0
        BY DEF IInv, ReadyHeadIsResumed
    <2>3. /\ resumes[Head(queue)] \in Nat
          /\ asked[Head(queue)] \in Nat /\ shedding[Head(queue)] \in Nat
          /\ asked'[Head(queue)] \in Nat /\ shedding'[Head(queue)] \in Nat
          /\ asked'[Head(queue)] + shedding'[Head(queue)] = asked[Head(queue)] + shedding[Head(queue)]
        BY <1>1, <1>2, <2>1
    <2> QED BY <2>2, <2>3
<1>8. Chain'
    BY SameChain DEF IInv
<1> QED BY <1>3, <1>4, <1>5, <1>6, <1>7, <1>8 DEF IInv

\* The end of the process.
LEMMA FaultStep ==
    ASSUME IInv, fault' \in {"check failed", "deleted context called"},
           asked' \in [Writes -> Nat], shedding' \in [Writes -> Nat],
           \A v \in Writes : asked'[v] <= asked[v] /\ shedding'[v] <= shedding[v],
           UNCHANGED <<ctx, queue, resumes, answer, prev, digest, stored>>
    PROVE  IInv'
<1>1. asked \in [Writes -> Nat] /\ shedding \in [Writes -> Nat]
    BY DEF IInv, Typed
<1>1a. \A v \in Writes : /\ asked[v] \in Nat /\ asked'[v] \in Nat /\ asked'[v] <= asked[v]
                         /\ shedding[v] \in Nat /\ shedding'[v] \in Nat
                         /\ shedding'[v] <= shedding[v]
    BY <1>1
<1>2. Typed'
    BY DEF IInv, Typed
<1>3. CallOrder' /\ Answers'
    BY DEF IInv, CallOrder, StoredInOrder, Answers
<1>4. QueueHoldsLiveContexts'
    <2>1. \A v \in Writes : asked'[v] + shedding'[v] > 0 => asked[v] + shedding[v] > 0
        <3> TAKE v \in Writes
        <3>1. asked[v] \in Nat /\ asked'[v] \in Nat /\ asked'[v] <= asked[v]
            BY <1>1a
        <3>2. shedding[v] \in Nat /\ shedding'[v] \in Nat /\ shedding'[v] <= shedding[v]
            BY <1>1a
        <3> QED BY ONLY <3>1, <3>2
    <2> QED BY <2>1 DEF IInv, QueueHoldsLiveContexts, IsHead
<1>5. Waits'
    <2>1. \A v \in Writes : asked'[v] > 0 \/ shedding'[v] > 0 => asked[v] > 0 \/ shedding[v] > 0
        <3> TAKE v \in Writes
        <3>1. asked[v] \in Nat /\ asked'[v] \in Nat /\ asked'[v] <= asked[v]
            BY <1>1a
        <3>2. shedding[v] \in Nat /\ shedding'[v] \in Nat /\ shedding'[v] <= shedding[v]
            BY <1>1a
        <3> QED BY ONLY <3>1, <3>2
    <2> QED BY <2>1 DEF IInv, Waits
<1>6. ReadyHeadIsResumed'
    BY DEF ReadyHeadIsResumed
<1>7. Chain'
    BY SameChain DEF IInv
<1> QED BY <1>2, <1>3, <1>4, <1>5, <1>6, <1>7 DEF IInv

-----------------------------------------------------------------------------
(***************************************************************************)
(* The tasks of the sequenced task runner.                                 *)
(***************************************************************************)

\* The counters of w have not grown and the others have not changed.
Less(before, after, w) ==
    /\ after \in [Writes -> Nat]
    /\ \A v \in Writes \ {w} : after[v] = before[v]
    /\ after[w] <= before[w]

\* A count that one task of a context is taken from.
LEMMA LessIs ==
    ASSUME NEW f \in [Writes -> Nat], NEW w \in Writes
    PROVE  Less(f, f, w) /\ (f[w] > 0 => Less(f, [f EXCEPT ![w] = @ - 1], w))
<1>1. f[w] \in Nat
    OBVIOUS
<1>2. Less(f, f, w)
    BY <1>1 DEF Less
<1>3. ASSUME f[w] > 0 PROVE Less(f, [f EXCEPT ![w] = @ - 1], w)
    <2>1. f[w] - 1 \in Nat
        BY <1>1, <1>3
    <2>2. [f EXCEPT ![w] = @ - 1] \in [Writes -> Nat]
        BY <2>1
    <2>3. [f EXCEPT ![w] = @ - 1][w] <= f[w]
        BY <1>1
    <2> QED BY <2>2, <2>3 DEF Less
<1> QED BY <1>2, <1>3

\* Answering from the queue, which deletes the head's context, keeps the invariant.
LEMMA RespondStep ==
    ASSUME IInv, NEW w \in Writes, RespondFromQueue(w), Less(asked, asked', w),
           UNCHANGED <<prev, digest, shedding, stored>>
    PROVE  IInv'
<1>1. /\ resumes \in [Writes -> Nat]
      /\ asked \in [Writes -> Nat] /\ shedding \in [Writes -> Nat]
    BY DEF IInv, Typed
<1>2. CASE IsHead(w) /\ Delete(w, "error", Tail(queue), resumes) /\ UNCHANGED fault
    BY <1>1, <1>2, LeaveStep DEF Less
<1>3. CASE fault' = "check failed" /\ UNCHANGED <<ctx, queue, resumes, answer>>
    <2>1. \A v \in Writes : asked'[v] <= asked[v] /\ shedding'[v] <= shedding[v]
        BY <1>1 DEF Less
    <2> QED BY <1>1, <1>3, <2>1, FaultStep DEF Less
<1> QED BY <1>2, <1>3 DEF RespondFromQueue

\* A call of a deleted context ends the behaviour without disturbing it.
LEMMA DeletedStep ==
    ASSUME IInv, NEW w \in Writes, CallDeleted(w), Less(asked, asked', w), Less(shedding, shedding', w),
           UNCHANGED <<prev, digest, stored>>
    PROVE  IInv'
<1>1. asked \in [Writes -> Nat] /\ shedding \in [Writes -> Nat]
    BY DEF IInv, Typed
<1>2. \A v \in Writes : asked'[v] <= asked[v] /\ shedding'[v] <= shedding[v]
    BY <1>1 DEF Less
<1> QED BY <1>2, FaultStep DEF Less, CallDeleted

\* ResumeWriteRecord() keeps it: the head is stored, waits for space or fails, others wait.
LEMMA ResumeStep ==
    ASSUME IInv, NEW w \in Writes, ctx[w] \in {"processing", "ready"},
           NEW tasks, Less(resumes, tasks, w), ResumeWriteRecord(w, tasks),
           Less(shedding, shedding', w), UNCHANGED <<prev, fault>>
    PROVE  IInv'
<1>1. asked \in [Writes -> Nat]
    BY DEF IInv, Typed
<1>2. CASE /\ ctx' = [ctx EXCEPT ![w] = "ready"]
           /\ asked' = IF IsHead(w) THEN [asked EXCEPT ![w] = @ + 1] ELSE asked
           /\ resumes' = tasks
           /\ UNCHANGED <<queue, digest, answer, stored>>
    BY <1>2, StayStep DEF Less
<1>3. CASE IsHead(w) /\ Store(w, tasks) /\ UNCHANGED asked
    <2>1. CASE Delete(w, "error", Tail(queue), tasks) /\ digest' \in {digest, w} /\ UNCHANGED stored
        BY <1>1, <1>3, <2>1, LeaveStep DEF Less
    <2>2. CASE /\ Delete(w, "ok", Tail(queue), tasks)
               /\ digest' = w /\ stored' = Append(stored, w)
        BY <1>1, <1>3, <2>2, LeaveStep DEF Less
    <2> QED BY <1>3, <2>1, <2>2 DEF Store
<1> QED BY <1>2, <1>3 DEF ResumeWriteRecord

\* A step that changes nothing keeps it.
LEMMA StutterStep == IInv /\ UNCHANGED vars => IInv'
<1> SUFFICES ASSUME IInv, UNCHANGED vars PROVE IInv'
    OBVIOUS
<1>1. Typed' /\ CallOrder' /\ Answers' /\ Waits'
    BY DEF vars, IInv, Typed, CallOrder, StoredInOrder, Answers, Waits
<1>2. QueueHoldsLiveContexts' /\ ReadyHeadIsResumed'
    BY DEF vars, IInv, QueueHoldsLiveContexts, IsHead, ReadyHeadIsResumed
<1>3. Chain'
    BY SameChain DEF vars, IInv
<1> QED BY <1>1, <1>2, <1>3 DEF IInv

\* Every step keeps the invariant.
LEMMA NextIInv == IInv /\ [Next]_vars => IInv'
<1> SUFFICES ASSUME IInv, [Next]_vars PROVE IInv'
    OBVIOUS
<1>0. /\ asked \in [Writes -> Nat] /\ shedding \in [Writes -> Nat] /\ resumes \in [Writes -> Nat]
    BY DEF IInv, Typed
<1>1. ASSUME NEW w \in Writes, OnStart(w) PROVE IInv'
    BY <1>1, RefuseStep, EnqueueStep DEF OnStart
<1>2. ASSUME NEW w \in Writes, ProcessingFails(w) PROVE IInv'
    BY <1>0, <1>2, LessIs, RespondStep DEF ProcessingFails
<1>3. ASSUME NEW w \in Writes, WriteRecord(w) PROVE IInv'
    <2>1. Less(resumes, resumes, w) /\ Less(shedding, shedding', w)
        BY <1>0, <1>3, LessIs DEF WriteRecord
    <2> QED BY <1>3, <2>1, ResumeStep DEF WriteRecord
<1>4. ASSUME NEW w \in Writes, ScheduledResume(w) PROVE IInv'
    <2> DEFINE tasks == [resumes EXCEPT ![w] = @ - 1]
    <2>1. Less(resumes, tasks, w) /\ Less(shedding, shedding', w)
        BY <1>0, <1>4, LessIs DEF ScheduledResume
    <2>2. ctx[w] = "ready"
        BY <1>4 DEF ScheduledResume, IInv, Waits
    <2>3. ResumeWriteRecord(w, tasks) /\ UNCHANGED <<prev, fault>>
        BY <1>4 DEF ScheduledResume
    <2> HIDE DEF tasks
    <2> QED BY <2>1, <2>2, <2>3, ResumeStep
<1>5. ASSUME NEW w \in Writes, RetryWithDegradation(w) PROVE IInv'
    <2>1. Less(asked, asked', w)
        BY <1>0, <1>5, LessIs DEF RetryWithDegradation
    <2>2. CASE CallDeleted(w) /\ UNCHANGED shedding
        BY <1>0, <1>5, <2>1, <2>2, LessIs, DeletedStep DEF RetryWithDegradation
    <2>3. CASE RespondFromQueue(w) /\ UNCHANGED shedding
        BY <1>5, <2>1, <2>3, RespondStep DEF RetryWithDegradation
    <2>4. CASE /\ ctx[w] # "gone"
               /\ shedding' = [shedding EXCEPT ![w] = @ + 1]
               /\ UNCHANGED <<ctx, queue, resumes, answer, fault>>
        BY <1>5, <2>4, ShedStep DEF RetryWithDegradation
    <2> QED BY <1>5, <2>2, <2>3, <2>4 DEF RetryWithDegradation
<1>6. ASSUME NEW w \in Writes, ResumeAfterShedding(w) PROVE IInv'
    <2>1. Less(shedding, shedding', w)
        BY <1>0, <1>6, LessIs DEF ResumeAfterShedding, SheddingEnds
    <2>2. CASE CallDeleted(w) /\ UNCHANGED <<asked, digest, stored>>
        BY <1>0, <1>6, <2>1, <2>2, LessIs, DeletedStep DEF ResumeAfterShedding
    <2>3. CASE ctx[w] # "gone" /\ ResumeWriteRecord(w, resumes) /\ UNCHANGED fault
        <3>1. ctx[w] \in {"processing", "ready"}
            BY <1>6, <2>3 DEF ResumeAfterShedding, IInv, Waits
        <3>2. Less(resumes, resumes, w)
            BY <1>0, LessIs
        <3> QED BY <1>6, <2>1, <2>3, <3>1, <3>2, ResumeStep DEF ResumeAfterShedding
    <2> QED BY <1>6, <2>2, <2>3 DEF ResumeAfterShedding
<1>7. ASSUME NEW w \in Writes, DiskSpaceReservationFailure(w) PROVE IInv'
    <2>1. Less(shedding, shedding', w) /\ Less(asked, asked', w) /\ Less(resumes, resumes, w)
        BY <1>0, <1>7, LessIs DEF DiskSpaceReservationFailure, SheddingEnds
    <2>2. CASE CallDeleted(w)
        BY <1>0, <1>7, <2>1, <2>2, DeletedStep DEF DiskSpaceReservationFailure
    <2>3. CASE ctx[w] # "gone" /\ Delete(w, "error", Tail(queue), resumes) /\ UNCHANGED fault
        <3>1. asked[w] + shedding[w] > 0
            <4>1. asked[w] \in Nat /\ shedding[w] \in Nat /\ shedding[w] > 0
                BY <1>0, <1>7 DEF DiskSpaceReservationFailure
            <4> QED BY <4>1
        <3>2. IsHead(w)
            BY <2>3, <3>1 DEF IInv, QueueHoldsLiveContexts
        <3> QED BY <1>0, <1>7, <2>1, <2>3, <3>2, LeaveStep DEF DiskSpaceReservationFailure, Less
    <2> QED BY <1>7, <2>2, <2>3 DEF DiskSpaceReservationFailure
<1>8. CASE UNCHANGED vars
    BY <1>8, StutterStep
<1> QED BY <1>1, <1>2, <1>3, <1>4, <1>5, <1>6, <1>7, <1>8 DEF Next

-----------------------------------------------------------------------------
(***************************************************************************)
(* How many tasks there can be for one context.                            *)
(***************************************************************************)

Total(w) == resumes[w] + asked[w] + shedding[w]

\* A context has one task once it is at the head with its buffer filled in, and one
\* more for each later write that has started; only the head is resumed.
Counted ==
    \A w \in Writes :
        /\ resumes[w] > 0 => IsHead(w)
        /\ Total(w) <= MaxWrites + 1 - w
        /\ \A u \in Writes : ctx[w] # "new" /\ ctx[u] = "new" => Total(w) <= u - w

\* The tasks of a context are natural numbers, and of no use before it starts.
LEMMA TotalIs ==
    ASSUME IInv, NEW w \in Writes
    PROVE  /\ resumes[w] \in Nat /\ asked[w] \in Nat /\ shedding[w] \in Nat /\ Total(w) \in Nat
           /\ ctx[w] \in {"new", "processing"} => Total(w) = 0
           /\ resumes[w] = 0 /\ ctx[w] # "gone" /\ ~IsHead(w) => Total(w) = 0
<1>1. /\ resumes[w] \in Nat /\ asked[w] \in Nat /\ shedding[w] \in Nat
    BY DEF IInv, Typed
<1>2. Total(w) \in Nat /\ (resumes[w] = 0 /\ asked[w] = 0 /\ shedding[w] = 0 => Total(w) = 0)
    BY <1>1 DEF Total
<1>3. ctx[w] \in {"new", "processing"} => resumes[w] = 0 /\ asked[w] = 0 /\ shedding[w] = 0
    BY <1>1 DEF IInv, Waits
<1>4. ctx[w] # "gone" /\ ~IsHead(w) => ~(asked[w] + shedding[w] > 0)
    BY DEF IInv, QueueHoldsLiveContexts
<1>5. ctx[w] # "gone" /\ ~IsHead(w) => asked[w] = 0 /\ shedding[w] = 0
    BY <1>1, <1>4
<1> QED BY <1>1, <1>2, <1>3, <1>5

\* Where no counter has grown the total has not.
LEMMA TotalShrinks ==
    ASSUME IInv, IInv', NEW w \in Writes, UNCHANGED resumes,
           Less(asked, asked', w), Less(shedding, shedding', w)
    PROVE  \A v \in Writes : Total(v)' <= Total(v)
<1> TAKE v \in Writes
<1>1. /\ resumes[v] \in Nat /\ asked[v] \in Nat /\ shedding[v] \in Nat /\ resumes'[v] = resumes[v]
      /\ asked'[v] \in Nat /\ shedding'[v] \in Nat
    BY DEF IInv, Typed
<1>2. asked'[v] <= asked[v] /\ shedding'[v] <= shedding[v]
    BY <1>1 DEF Less
<1> QED BY <1>1, <1>2 DEF Total

\* A step keeps the bound if each context has no more tasks than before, or only one,
\* or one more because a later write has started.
LEMMA CountedFrom ==
    ASSUME IInv, IInv', Counted,
           \A v \in Writes : ctx'[v] = "new" => ctx[v] = "new",
           \A v \in Writes : resumes'[v] > 0 => IsHead(v)',
           \A v \in Writes :
              \/ Total(v)' <= Total(v)
              \/ Total(v)' = 1 /\ ctx'[v] # "new"
              \/ /\ Total(v)' = Total(v) + 1 /\ ctx[v] # "new"
                 /\ \E x \in Writes : ctx[x] = "new" /\ ctx'[x] # "new"
    PROVE  Counted'
<1> SUFFICES ASSUME NEW v \in Writes
             PROVE  /\ Total(v)' <= MaxWrites + 1 - v
                    /\ \A u \in Writes : ctx'[v] # "new" /\ ctx'[u] = "new" => Total(v)' <= u - v
    BY DEF Counted
<1>1. /\ v \in Int /\ 1 <= v /\ v <= MaxWrites /\ MaxWrites \in Int
      /\ Total(v) \in Nat /\ Total(v)' \in Nat
    <2>1. Total(v) \in Nat
        BY TotalIs
    <2>2. Total(v)' \in Nat
        <3>1. resumes'[v] \in Nat /\ asked'[v] \in Nat /\ shedding'[v] \in Nat
            BY DEF IInv, Typed
        <3> QED BY <3>1 DEF Total
    <2> QED BY <2>1, <2>2, WriteContextsAssumption DEF Writes
<1>2. \A u \in Writes : u \in Int /\ u <= MaxWrites
    BY WriteContextsAssumption DEF Writes
<1>3. /\ Total(v) <= MaxWrites + 1 - v
      /\ \A u \in Writes : ctx[v] # "new" /\ ctx[u] = "new" => Total(v) <= u - v
    BY DEF Counted
<1>4. \A u, x \in Writes : ctx'[x] # "new" /\ ctx'[u] = "new" => x < u
    BY DEF IInv, CallOrder
<1>5. CASE Total(v)' <= Total(v)
    <2>1. Total(v)' <= MaxWrites + 1 - v
        BY <1>1, <1>3, <1>5
    <2>2. ASSUME NEW u \in Writes, ctx'[v] # "new", ctx'[u] = "new"
          PROVE  Total(v)' <= u - v
        <3>1. CASE ctx[v] = "new"
            <4>1. Total(v) = 0 /\ v < u /\ u \in Int
                BY <1>2, <1>4, <2>2, <3>1, TotalIs
            <4> QED BY <1>1, <1>5, <4>1
        <3>2. CASE ctx[v] # "new"
            <4>1. Total(v) <= u - v /\ u \in Int
                BY <1>2, <1>3, <2>2, <3>2
            <4> QED BY <1>1, <1>5, <4>1
        <3> QED BY <3>1, <3>2
    <2> QED BY <2>1, <2>2
<1>6. CASE Total(v)' = 1 /\ ctx'[v] # "new"
    <2>1. \A u \in Writes : ctx'[u] = "new" => v < u /\ u \in Int
        BY <1>2, <1>4, <1>6
    <2> QED BY <1>1, <1>6, <2>1
<1>7. CASE /\ Total(v)' = Total(v) + 1 /\ ctx[v] # "new"
           /\ \E x \in Writes : ctx[x] = "new" /\ ctx'[x] # "new"
    <2>1. PICK x \in Writes : ctx[x] = "new" /\ ctx'[x] # "new"
        BY <1>7
    <2>2. Total(v) <= x - v /\ x \in Int /\ x <= MaxWrites
        BY <1>2, <1>3, <1>7, <2>1
    <2>3. \A u \in Writes : ctx'[u] = "new" => x < u /\ u \in Int
        BY <1>2, <1>4, <2>1
    <2> QED BY <1>1, <1>7, <2>2, <2>3
<1> QED BY <1>5, <1>6, <1>7

\* The deletion of a context that leaves q in the queue: only the head of q is resumed.
LEMMA CountedAfterDelete ==
    ASSUME IInv, IInv', Counted, NEW w \in Writes, NEW result, NEW q \in Seq(Writes),
           NEW tasks \in [Writes -> Nat], Delete(w, result, q, tasks),
           \A v \in Writes \ {w} : /\ tasks[v] = resumes[v]
                                   /\ asked'[v] = asked[v] /\ shedding'[v] = shedding[v],
           asked'[w] <= asked[w], shedding'[w] <= shedding[w],
           \/ q = queue /\ ctx[w] = "new"
           \/ q = Tail(queue) /\ IsHead(w)
    PROVE  Counted'
<1>1. /\ \A v \in Writes : ctx'[v] = IF v = w THEN "gone" ELSE ctx[v]
      /\ queue' = q /\ queue \in Seq(Writes)
    BY DEF Delete, IInv, Typed
<1>2. \A v \in Writes : resumes'[v] =
            IF v = w THEN 0
            ELSE IF q # <<>> /\ v = Head(q) /\ ctx[v] = "ready" THEN resumes[v] + 1
            ELSE resumes[v]
    <2>1. /\ ScheduleHead(q, tasks) \in [Writes -> Nat]
          /\ \A v \in Writes : ScheduleHead(q, tasks)[v] =
                IF q # <<>> /\ v = Head(q) /\ ctx[v] = "ready" THEN tasks[v] + 1 ELSE tasks[v]
        BY ScheduleIs
    <2>2. resumes' = [ScheduleHead(q, tasks) EXCEPT ![w] = 0]
        BY DEF Delete
    <2> QED BY <2>1, <2>2
<1>3. \A v \in Writes : /\ resumes[v] \in Nat /\ asked[v] \in Nat /\ shedding[v] \in Nat
                        /\ resumes'[v] \in Nat /\ asked'[v] \in Nat /\ shedding'[v] \in Nat
    BY DEF IInv, Typed
<1>4. Total(w)' <= Total(w)
    <2>1. /\ resumes'[w] = 0 /\ resumes[w] \in Nat /\ asked[w] \in Nat /\ shedding[w] \in Nat
          /\ asked'[w] \in Nat /\ shedding'[w] \in Nat
        BY <1>2, <1>3
    <2> QED BY <2>1 DEF Total
<1>5. \A v \in Writes \ {w} :
            Total(v)' = IF q # <<>> /\ v = Head(q) /\ ctx[v] = "ready" THEN Total(v) + 1 ELSE Total(v)
    <2> TAKE v \in Writes \ {w}
    <2>1. /\ asked'[v] = asked[v] /\ shedding'[v] = shedding[v]
          /\ resumes[v] \in Nat /\ asked[v] \in Nat /\ shedding[v] \in Nat
        BY <1>3
    <2>2. resumes'[v] = IF q # <<>> /\ v = Head(q) /\ ctx[v] = "ready" THEN resumes[v] + 1 ELSE resumes[v]
        BY <1>2
    <2> QED BY <2>1, <2>2 DEF Total
<1>6. ASSUME NEW v \in Writes
      PROVE  \/ Total(v)' <= Total(v)
             \/ Total(v)' = 1 /\ ctx'[v] # "new"
             \/ /\ Total(v)' = Total(v) + 1 /\ ctx[v] # "new"
                /\ \E x \in Writes : ctx[x] = "new" /\ ctx'[x] # "new"
    <2>1. Total(v) \in Nat
        BY TotalIs
    <2>2. CASE v = w
        BY <1>4, <2>2
    <2>3. CASE v # w /\ ~(q # <<>> /\ v = Head(q) /\ ctx[v] = "ready")
        BY <1>5, <2>1, <2>3
    <2>4. CASE v # w /\ q # <<>> /\ v = Head(q) /\ ctx[v] = "ready" /\ ctx[w] = "new"
        BY <1>1, <1>5, <2>4
    <2>5. CASE v # w /\ q # <<>> /\ v = Head(q) /\ ctx[v] = "ready" /\ IsHead(w)
        <3>1. ~IsHead(v)
            BY <2>5 DEF IsHead
        <3>2. resumes[v] = 0
            BY <1>3, <3>1 DEF Counted
        <3>3. Total(v) = 0
            BY <2>5, <3>1, <3>2, TotalIs
        <3> QED BY <1>1, <1>5, <2>5, <3>3
    <2> QED BY <2>2, <2>3, <2>4, <2>5
<1>7. ASSUME NEW v \in Writes, resumes'[v] > 0
      PROVE  IsHead(v)'
    <2>1. CASE q # <<>> /\ v = Head(q)
        BY <1>1, <2>1 DEF IsHead
    <2>2. CASE ~(q # <<>> /\ v = Head(q))
        <3>1. v # w /\ resumes[v] > 0
            BY <1>2, <1>3, <1>7, <2>2
        <3>2. IsHead(v)
            BY <3>1 DEF Counted
        <3> QED BY <2>2, <3>1, <3>2 DEF IsHead
    <2> QED BY <2>1, <2>2
<1>8. \A v \in Writes : ctx'[v] = "new" => ctx[v] = "new"
    BY <1>1
<1> QED BY <1>6, <1>7, <1>8, CountedFrom

\* A step that deletes no context keeps the bound if no context is resumed more often,
\* and only one whose buffer has just been filled in has more tasks.
LEMMA CountedInQueue ==
    ASSUME IInv, IInv', Counted, queue # <<>> => queue' # <<>> /\ Head(queue') = Head(queue),
           \A v \in Writes : ctx'[v] = "new" => ctx[v] = "new",
           \A v \in Writes : resumes'[v] > 0 => resumes[v] > 0,
           \A v \in Writes : \/ Total(v)' <= Total(v)
                             \/ Total(v)' = 1 /\ ctx'[v] # "new"
    PROVE  Counted'
<1>1. \A v \in Writes : resumes'[v] > 0 => IsHead(v)'
    BY DEF Counted, IsHead
<1> QED BY <1>1, CountedFrom

\* Answering from the queue keeps the bound.
LEMMA CountedRespond ==
    ASSUME IInv, IInv', Counted, NEW w \in Writes, RespondFromQueue(w), Less(asked, asked', w),
           UNCHANGED shedding
    PROVE  Counted'
<1>1. /\ resumes \in [Writes -> Nat] /\ asked \in [Writes -> Nat] /\ shedding \in [Writes -> Nat]
      /\ queue \in Seq(Writes)
    BY DEF IInv, Typed
<1>2. CASE IsHead(w) /\ Delete(w, "error", Tail(queue), resumes)
    <2>1. Tail(queue) \in Seq(Writes)
        BY <1>1, <1>2, TailIs DEF IsHead
    <2>2. shedding'[w] <= shedding[w]
        BY <1>1
    <2> QED BY <1>1, <1>2, <2>1, <2>2, CountedAfterDelete DEF Less
<1>3. CASE UNCHANGED <<ctx, queue, resumes, answer>>
    <2>1. \A v \in Writes : Total(v)' <= Total(v)
        BY <1>1, <1>3, LessIs, TotalShrinks
    <2> QED BY <1>3, <2>1, CountedInQueue
<1> QED BY <1>2, <1>3 DEF RespondFromQueue

\* ResumeWriteRecord() keeps the bound: a task that has asked for candidates was itself
\* one of the tasks of the context, or the context had none.
LEMMA CountedResume ==
    ASSUME IInv, IInv', Counted, NEW w \in Writes, NEW tasks, Less(resumes, tasks, w),
           ResumeWriteRecord(w, tasks), Less(shedding, shedding', w),
           \/ ctx[w] = "processing"
           \/ tasks[w] + shedding'[w] < resumes[w] + shedding[w]
    PROVE  Counted'
<1>1. /\ resumes \in [Writes -> Nat] /\ asked \in [Writes -> Nat] /\ shedding \in [Writes -> Nat]
      /\ queue \in Seq(Writes) /\ tasks \in [Writes -> Nat] /\ shedding' \in [Writes -> Nat]
    BY DEF IInv, Typed, Less
<1>2. CASE /\ ctx' = [ctx EXCEPT ![w] = "ready"]
           /\ asked' = IF IsHead(w) THEN [asked EXCEPT ![w] = @ + 1] ELSE asked
           /\ resumes' = tasks
           /\ UNCHANGED <<queue, digest, answer, stored>>
    <2>1. \A v \in Writes : ctx'[v] = IF v = w THEN "ready" ELSE ctx[v]
        BY <1>2 DEF IInv, Typed
    <2>2. asked'[w] \in {asked[w], asked[w] + 1} /\ \A v \in Writes \ {w} : asked'[v] = asked[v]
        BY <1>1, <1>2
    <2>3. \A v \in Writes \ {w} : Total(v)' <= Total(v)
        BY <1>1, <1>2, <2>2 DEF Total, Less
    <2>4. Total(w)' <= Total(w) \/ Total(w)' = 1
        <3>1. CASE ctx[w] = "processing"
            <4>1. resumes[w] = 0 /\ asked[w] = 0 /\ shedding[w] = 0
                <5>1. /\ resumes[w] \in Nat /\ asked[w] \in Nat /\ shedding[w] \in Nat
                    BY <1>1
                <5>2. ~(resumes[w] > 0) /\ ~(asked[w] > 0) /\ ~(shedding[w] > 0)
                    BY <3>1 DEF IInv, Waits
                <5> QED BY <5>1, <5>2
            <4>2. resumes'[w] = 0 /\ shedding'[w] = 0
                BY <1>1, <1>2, <4>1 DEF Less
            <4> QED BY <2>2, <4>1, <4>2 DEF Total
        <3>2. CASE tasks[w] + shedding'[w] < resumes[w] + shedding[w]
            <4>1. /\ tasks[w] \in Nat /\ shedding'[w] \in Nat /\ resumes[w] \in Nat
                  /\ shedding[w] \in Nat /\ asked[w] \in Nat /\ resumes'[w] = tasks[w]
                BY <1>1, <1>2
            <4> QED BY <2>2, <3>2, <4>1 DEF Total
        <3> QED BY <3>1, <3>2
    <2>5. \A v \in Writes : resumes'[v] > 0 => resumes[v] > 0
        <3> TAKE v \in Writes
        <3>1. resumes[v] \in Nat /\ resumes'[v] \in Nat /\ resumes'[v] <= resumes[v]
            <4>1. resumes' = tasks /\ resumes[v] \in Nat /\ tasks[v] \in Nat
                BY <1>1, <1>2
            <4>2. CASE v = w
                BY <4>1, <4>2 DEF Less
            <4>3. CASE v # w
                <5>1. tasks[v] = resumes[v]
                    BY <4>3 DEF Less
                <5> QED BY <4>1, <5>1
            <4> QED BY <4>2, <4>3
        <3> QED BY <3>1
    <2> QED BY <1>2, <2>1, <2>3, <2>4, <2>5, CountedInQueue
<1>3. CASE IsHead(w) /\ Store(w, tasks) /\ UNCHANGED asked
    <2>1. Tail(queue) \in Seq(Writes)
        BY <1>1, <1>3, TailIs DEF IsHead
    <2>2. PICK result \in {"ok", "error"} : Delete(w, result, Tail(queue), tasks)
        BY <1>3 DEF Store
    <2>3. asked'[w] <= asked[w]
        BY <1>1, <1>3
    <2> QED BY <1>1, <1>3, <2>1, <2>2, <2>3, CountedAfterDelete DEF Less
<1> QED BY <1>2, <1>3 DEF ResumeWriteRecord

\* Every step keeps the bound.
LEMMA NextCounted == IInv /\ Counted /\ [Next]_vars => Counted'
<1> SUFFICES ASSUME IInv, Counted, [Next]_vars PROVE Counted'
    OBVIOUS
<1>0. /\ asked \in [Writes -> Nat] /\ shedding \in [Writes -> Nat] /\ resumes \in [Writes -> Nat]
      /\ queue \in Seq(Writes)
    BY DEF IInv, Typed
<1>0a. IInv'
    BY NextIInv
<1>1. ASSUME NEW w \in Writes, OnStart(w) PROVE Counted'
    <2>1. ctx[w] = "new" /\ asked' = asked /\ shedding' = shedding
        BY <1>1 DEF OnStart
    <2>2. CASE Delete(w, "error", queue, resumes)
        <3>1. asked'[w] <= asked[w] /\ shedding'[w] <= shedding[w]
            BY <1>0, <2>1
        <3> QED BY <1>0, <1>0a, <2>1, <2>2, <3>1, CountedAfterDelete
    <2>3. CASE /\ ctx' = [ctx EXCEPT ![w] = "processing"]
               /\ queue' = Append(queue, w) /\ UNCHANGED <<resumes, answer>>
        <3>1. queue # <<>> => queue' # <<>> /\ Head(queue') = Head(queue)
            <4> SUFFICES ASSUME queue # <<>> PROVE queue' # <<>> /\ Head(queue') = Head(queue)
                OBVIOUS
            <4>1. /\ Append(queue, w) # <<>>
                  /\ Head(Append(queue, w)) = IF queue = <<>> THEN w ELSE Head(queue)
                BY <1>0, AppendIs
            <4> QED BY <2>3, <4>1
        <3>2. \A v \in Writes : Total(v)' <= Total(v)
            BY <1>0, <2>1, <2>3 DEF Total
        <3>3. \A v \in Writes : ctx'[v] = "new" => ctx[v] = "new"
            BY <2>3 DEF IInv, Typed
        <3> QED BY <1>0a, <2>3, <3>1, <3>2, <3>3, CountedInQueue
    <2> QED BY <1>1, <2>2, <2>3 DEF OnStart
<1>2. ASSUME NEW w \in Writes, ProcessingFails(w) PROVE Counted'
    <2>1. Less(asked, asked', w)
        BY <1>0, <1>2, LessIs DEF ProcessingFails
    <2> QED BY <1>0a, <1>2, <2>1, CountedRespond DEF ProcessingFails
<1>3. ASSUME NEW w \in Writes, WriteRecord(w) PROVE Counted'
    <2>1. Less(resumes, resumes, w) /\ Less(shedding, shedding', w)
        BY <1>0, <1>3, LessIs DEF WriteRecord
    <2> QED BY <1>0a, <1>3, <2>1, CountedResume DEF WriteRecord
<1>4. ASSUME NEW w \in Writes, ScheduledResume(w) PROVE Counted'
    <2> DEFINE tasks == [resumes EXCEPT ![w] = @ - 1]
    <2>1. Less(resumes, tasks, w) /\ Less(shedding, shedding', w)
        BY <1>0, <1>4, LessIs DEF ScheduledResume
    <2>2. tasks[w] + shedding'[w] < resumes[w] + shedding[w]
        BY <1>0, <1>4 DEF ScheduledResume
    <2>3. ResumeWriteRecord(w, tasks)
        BY <1>4 DEF ScheduledResume
    <2> HIDE DEF tasks
    <2> QED BY <1>0a, <2>1, <2>2, <2>3, CountedResume
<1>5. ASSUME NEW w \in Writes, RetryWithDegradation(w) PROVE Counted'
    <2>1. Less(asked, asked', w) /\ asked'[w] = asked[w] - 1 /\ asked[w] > 0
        BY <1>0, <1>5, LessIs DEF RetryWithDegradation
    <2>2. CASE RespondFromQueue(w) /\ UNCHANGED shedding
        BY <1>0a, <2>1, <2>2, CountedRespond
    <2>3. CASE /\ UNCHANGED <<ctx, queue, resumes, answer>>
               /\ shedding' \in {shedding, [shedding EXCEPT ![w] = @ + 1]}
        <3>1. \A v \in Writes \ {w} : shedding'[v] = shedding[v] /\ asked'[v] = asked[v]
            BY <1>0, <2>1, <2>3 DEF Less
        <3>2. shedding'[w] \in {shedding[w], shedding[w] + 1}
            BY <1>0, <2>3
        <3>3. Total(w)' <= Total(w)
            <4>1. resumes'[w] = resumes[w] /\ resumes[w] \in Nat /\ asked[w] \in Nat /\ shedding[w] \in Nat
                BY <1>0, <2>3
            <4> QED BY <2>1, <3>2, <4>1 DEF Total
        <3>4. \A v \in Writes : Total(v)' <= Total(v)
            BY <1>0, <2>3, <3>1, <3>3 DEF Total
        <3> QED BY <1>0a, <2>3, <3>4, CountedInQueue
    <2> QED BY <1>5, <2>2, <2>3 DEF RetryWithDegradation, CallDeleted
<1>6. ASSUME NEW w \in Writes, ResumeAfterShedding(w) PROVE Counted'
    <2>1. /\ Less(shedding, shedding', w) /\ shedding'[w] = shedding[w] - 1
          /\ Less(resumes, resumes, w)
        BY <1>0, <1>6, LessIs DEF ResumeAfterShedding, SheddingEnds
    <2>2. CASE UNCHANGED <<ctx, queue, resumes, answer, asked>>
        <3>1. \A v \in Writes : Total(v)' <= Total(v)
            BY <1>0, <1>0a, <2>1, <2>2, LessIs, TotalShrinks
        <3> QED BY <1>0a, <2>2, <3>1, CountedInQueue
    <2>3. CASE ResumeWriteRecord(w, resumes)
        <3>1. resumes[w] + shedding'[w] < resumes[w] + shedding[w]
            BY <1>0, <2>1
        <3> QED BY <1>0a, <2>1, <2>3, <3>1, CountedResume
    <2> QED BY <1>6, <2>2, <2>3 DEF ResumeAfterShedding, CallDeleted
<1>7. ASSUME NEW w \in Writes, DiskSpaceReservationFailure(w) PROVE Counted'
    <2>1. Less(shedding, shedding', w) /\ asked' = asked
        BY <1>0, <1>7, LessIs DEF DiskSpaceReservationFailure, SheddingEnds
    <2>2. CASE UNCHANGED <<ctx, queue, resumes, answer>>
        <3>1. \A v \in Writes : Total(v)' <= Total(v)
            BY <1>0, <1>0a, <2>1, <2>2, LessIs, TotalShrinks
        <3> QED BY <1>0a, <2>2, <3>1, CountedInQueue
    <2>3. CASE ctx[w] # "gone" /\ Delete(w, "error", Tail(queue), resumes)
        <3>1. IsHead(w)
            <4>1. asked[w] \in Nat /\ shedding[w] \in Nat /\ shedding[w] > 0
                BY <1>0, <1>7 DEF DiskSpaceReservationFailure
            <4>2. asked[w] + shedding[w] > 0
                BY <4>1
            <4> QED BY <2>3, <4>2 DEF IInv, QueueHoldsLiveContexts
        <3>2. Tail(queue) \in Seq(Writes) /\ asked'[w] <= asked[w]
            BY <1>0, <2>1, <3>1, TailIs DEF IsHead
        <3> QED BY <1>0, <1>0a, <2>1, <2>3, <3>1, <3>2, CountedAfterDelete DEF Less
    <2> QED BY <1>7, <2>2, <2>3 DEF DiskSpaceReservationFailure, CallDeleted
<1>8. CASE UNCHANGED vars
    <2>1. \A v \in Writes : Total(v)' = Total(v)
        BY <1>8 DEF vars, Total
    <2> QED BY <1>8, <2>1 DEF vars, Counted, IsHead
<1> QED BY <1>1, <1>2, <1>3, <1>4, <1>5, <1>6, <1>7, <1>8 DEF Next

\* The bound holds at the start.
LEMMA InitCounted == Init => Counted
<1> SUFFICES ASSUME Init, NEW w \in Writes
             PROVE  /\ ~(resumes[w] > 0) /\ Total(w) <= MaxWrites + 1 - w
                    /\ ctx[w] = "new"
    BY DEF Counted
<1>1. Total(w) = 0
    BY DEF Init, Total
<1> QED BY <1>1, WriteContextsAssumption DEF Init, Writes

-----------------------------------------------------------------------------
(***************************************************************************)
(* What follows from it.                                                   *)
(***************************************************************************)

\* The invariant holds in every state that the tasks of one queue can reach, for
\* any number of writes.
THEOREM Inductive == Spec => []IInv
BY InitIInv, NextIInv, PTL DEF Spec

\* Every variable keeps its type: no counter of tasks goes below zero, and no context
\* has more tasks under way than there are writes, however often space is made.
THEOREM TypeCorrect == Spec => []TypeOK
<1>1. IInv /\ Counted => TypeOK
    <2> SUFFICES ASSUME IInv, Counted PROVE TypeOK
        OBVIOUS
    <2>1. ASSUME NEW w \in Writes
          PROVE  resumes[w] \in Tasks /\ asked[w] \in Tasks /\ shedding[w] \in Tasks
        <3>1. /\ resumes[w] \in Nat /\ asked[w] \in Nat /\ shedding[w] \in Nat
              /\ Total(w) <= MaxWrites + 1 - w
            BY TotalIs DEF Counted
        <3>2. w \in Nat /\ 1 <= w /\ MaxWrites \in Nat
            BY WriteContextsAssumption DEF Writes
        <3> QED BY <3>1, <3>2 DEF Total, Tasks
    <2> QED BY <2>1 DEF IInv, Typed, TypeOK
<1>2. Init => IInv /\ Counted
    BY InitIInv, InitCounted
<1>3. (IInv /\ Counted) /\ [Next]_vars => (IInv /\ Counted)'
    BY NextIInv, NextCounted
<1> QED BY <1>1, <1>2, <1>3, PTL DEF Spec

\* Records are stored in the order of the Write() calls.
THEOREM StoringKeepsOrder == Spec => []StoredInOrder
<1>1. IInv => StoredInOrder
    BY DEF IInv, CallOrder
<1> QED BY <1>1, Inductive, PTL

\* A record carries the digest of the one stored before it, unless the write it
\* carries the digest of has failed and its caller was told.
THEOREM ChainIsKept == Spec => []ChainBreaksOnlyAfterFailure
<1>1. IInv => ChainBreaksOnlyAfterFailure
    BY DEF IInv, Chain
<1> QED BY <1>1, Inductive, PTL

\* No weak pointer in write_contexts_queue_ is null, every live context is in the
\* queue, and whoever waits for disk space is at its head.
THEOREM QueueStaysLive == Spec => []QueueHoldsLiveContexts
<1>1. IInv => QueueHoldsLiveContexts
    BY DEF IInv
<1> QED BY <1>1, Inductive, PTL

\* No wakeup is lost: a head with a filled buffer has a task on its way.
THEOREM NoLostResume == Spec => []ReadyHeadIsResumed
<1>1. IInv => ReadyHeadIsResumed
    BY DEF IInv
<1> QED BY <1>1, Inductive, PTL

=============================================================================
