------------------------ MODULE AgentPipelineProofs -------------------------
(***************************************************************************)
(* Proofs about AgentPipeline, for every number of batches, devices and    *)
(* requests, every queue bound and every budget of losses and faults:      *)
(* IInv is an inductive invariant, hence the types are right, a guarded    *)
(* batch is recorded at most once and all or nothing, and without faults   *)
(* the Agent never forgets a batch that is not recorded; the loop keeps    *)
(* the contract of DurableQueue and the pipeline the one of Delivery.      *)
(***************************************************************************)
EXTENDS AgentPipeline, TLAPS

-----------------------------------------------------------------------------
(* What the list operations of the Agent do to the batches in the lists.    *)

\* An empty list holds no batch, a one-element list holds that batch.
LEMMA BatchesInShortLists ==
    ASSUME NEW b
    PROVE  BatchesIn(<<>>) = {} /\ BatchesIn(<<b>>) = {b}
BY DEF BatchesIn

\* Concatenating lists joins their batches.
LEMMA BatchesInConcat ==
    ASSUME NEW S, NEW s \in Seq(S), NEW t \in Seq(S)
    PROVE  BatchesIn(s \o t) = BatchesIn(s) \cup BatchesIn(t)
<1>1. \A x \in BatchesIn(s \o t) : x \in BatchesIn(s) \cup BatchesIn(t)
  BY DEF BatchesIn
<1>2. \A x \in BatchesIn(s) : x \in BatchesIn(s \o t)
  <2>1. \A i \in DOMAIN s : i \in DOMAIN (s \o t) /\ (s \o t)[i] = s[i]
    OBVIOUS
  <2>2. QED  BY <2>1 DEF BatchesIn
<1>3. \A x \in BatchesIn(t) : x \in BatchesIn(s \o t)
  <2>1. \A i \in DOMAIN t : Len(s) + i \in DOMAIN (s \o t) /\ (s \o t)[Len(s) + i] = t[i]
    OBVIOUS
  <2>2. QED  BY <2>1 DEF BatchesIn
<1>4. QED  BY <1>1, <1>2, <1>3

\* Appending adds one batch.
LEMMA BatchesInAppend ==
    ASSUME NEW S, NEW s \in Seq(S), NEW b \in S
    PROVE  BatchesIn(Append(s, b)) = BatchesIn(s) \cup {b}
<1>1. <<b>> \in Seq(S) /\ Append(s, b) = s \o <<b>>
  OBVIOUS
<1>2. BatchesIn(s \o <<b>>) = BatchesIn(s) \cup BatchesIn(<<b>>)
  BY <1>1, BatchesInConcat
<1>3. BatchesIn(<<b>>) = {b}
  BY BatchesInShortLists
<1>4. QED  BY <1>1, <1>2, <1>3

\* A non-empty list is its head and its tail.
LEMMA BatchesInHeadTail ==
    ASSUME NEW S, NEW s \in Seq(S), s # <<>>
    PROVE  /\ Head(s) \in S
           /\ Tail(s) \in Seq(S)
           /\ Len(Tail(s)) = Len(s) - 1
           /\ BatchesIn(s) = {Head(s)} \cup BatchesIn(Tail(s))
<1>1. /\ Head(s) \in S /\ Tail(s) \in Seq(S) /\ Len(Tail(s)) = Len(s) - 1
      /\ <<Head(s)>> \in Seq(S) /\ s = <<Head(s)>> \o Tail(s)
  OBVIOUS
<1>2. BatchesIn(<<Head(s)>> \o Tail(s)) = BatchesIn(<<Head(s)>>) \cup BatchesIn(Tail(s))
  BY <1>1, BatchesInConcat
<1>3. BatchesIn(<<Head(s)>>) = {Head(s)}
  BY BatchesInShortLists
<1>4. QED  BY <1>1, <1>2, <1>3

\* The overflow rule keeps a bounded suffix of the list.
LEMMA KeepNewestIsSuffix ==
    ASSUME NEW S, NEW s \in Seq(S), NEW max \in Nat
    PROVE  /\ KeepNewest(s, max) \in Seq(S)
           /\ Len(KeepNewest(s, max)) <= max
           /\ BatchesIn(KeepNewest(s, max)) \subseteq BatchesIn(s)
           /\ \A i \in DOMAIN KeepNewest(s, max) :
                 KeepNewest(s, max)[i] = s[i + (Len(s) - Len(KeepNewest(s, max)))]
<1>1. CASE Len(s) > max
  <2> DEFINE k == Len(s) - max
             t == SubSeq(s, k + 1, Len(s))
  <2>1. k \in 1..Len(s) /\ KeepNewest(s, max) = t
    BY <1>1 DEF KeepNewest
  <2>2. t \in Seq(S) /\ Len(t) = max /\ \A i \in 1..max : t[i] = s[i + k]
    BY <2>1
  <2>3. \A i \in DOMAIN t : i + k \in DOMAIN s /\ t[i] = s[i + k]
    BY <2>1, <2>2
  <2>4. QED  BY <2>1, <2>2, <2>3 DEF BatchesIn
<1>2. CASE ~(Len(s) > max)
  BY <1>2 DEF KeepNewest
<1>3. QED  BY <1>1, <1>2

\* Every batch of one list was collected before every batch of another.
Before(s, t) == \A i \in DOMAIN s, j \in DOMAIN t : s[i] < t[j]

\* Two lists in collection order, one before the other, are one such list.
LEMMA ConcatInOrder ==
    ASSUME NEW S, S \subseteq Int, NEW s \in Seq(S), NEW t \in Seq(S),
           InCollectionOrder(s), InCollectionOrder(t), Before(s, t)
    PROVE  InCollectionOrder(s \o t)
<1> SUFFICES ASSUME NEW i \in 1..(Len(s) + Len(t)), NEW j \in 1..(Len(s) + Len(t)), i < j
             PROVE  (s \o t)[i] < (s \o t)[j]
  BY DEF InCollectionOrder
<1>1. \A k \in 1..(Len(s) + Len(t)) :
          (s \o t)[k] = IF k <= Len(s) THEN s[k] ELSE t[k - Len(s)]
  OBVIOUS
<1>2. CASE j <= Len(s)
  BY <1>1, <1>2 DEF InCollectionOrder
<1>3. CASE i <= Len(s) /\ j > Len(s)
  <2>1. i \in DOMAIN s /\ j - Len(s) \in DOMAIN t
    BY <1>3
  <2>2. QED  BY <1>1, <1>3, <2>1 DEF Before
<1>4. CASE i > Len(s)
  <2>1. i - Len(s) \in DOMAIN t /\ j - Len(s) \in DOMAIN t /\ i - Len(s) < j - Len(s)
    BY <1>4
  <2>2. QED  BY <1>1, <1>4, <2>1 DEF InCollectionOrder
<1>5. QED  BY <1>2, <1>3, <1>4

\* Taking the head off keeps the order, and the head is before the rest.
LEMMA TailInOrder ==
    ASSUME NEW S, S \subseteq Int, NEW s \in Seq(S), s # <<>>, InCollectionOrder(s)
    PROVE  /\ InCollectionOrder(Tail(s))
           /\ Before(<<Head(s)>>, Tail(s))
           /\ \A i \in DOMAIN Tail(s) : i + 1 \in DOMAIN s /\ Tail(s)[i] = s[i + 1]
<1>1. \A i \in DOMAIN Tail(s) : i + 1 \in DOMAIN s /\ i + 1 \in Nat /\ Tail(s)[i] = s[i + 1]
  OBVIOUS
<1>2. InCollectionOrder(Tail(s))
  BY <1>1 DEF InCollectionOrder
<1>3. Head(s) = s[1] /\ 1 \in DOMAIN s
  OBVIOUS
<1>4. \A i \in DOMAIN Tail(s) : s[1] < Tail(s)[i]
  BY <1>1, <1>3 DEF InCollectionOrder
<1>5. Before(<<Head(s)>>, Tail(s))
  BY <1>3, <1>4 DEF Before
<1>6. QED  BY <1>1, <1>2, <1>5

\* A newer batch may be appended.
LEMMA AppendInOrder ==
    ASSUME NEW S, S \subseteq Int, NEW s \in Seq(S), NEW b \in S,
           InCollectionOrder(s), \A i \in DOMAIN s : s[i] < b
    PROVE  InCollectionOrder(Append(s, b))
<1>1. \A i \in DOMAIN Append(s, b) : /\ i \in 1..(Len(s) + 1)
                                     /\ Append(s, b)[i] = IF i = Len(s) + 1 THEN b ELSE s[i]
  OBVIOUS
<1>2. QED  BY <1>1 DEF InCollectionOrder

\* The overflow rule keeps the order.
LEMMA KeepNewestInOrder ==
    ASSUME NEW S, S \subseteq Int, NEW s \in Seq(S), NEW max \in Nat, InCollectionOrder(s)
    PROVE  InCollectionOrder(KeepNewest(s, max))
<1> DEFINE t == KeepNewest(s, max)
           k == Len(s) - Len(t)
<1>1. t \in Seq(S) /\ \A i \in DOMAIN t : t[i] = s[i + k]
  BY KeepNewestIsSuffix
<1>2. Len(t) <= Len(s) /\ k \in Nat
  BY DEF KeepNewest
<1> HIDE DEF t
<1>3. \A i, j \in DOMAIN t : i < j => i + k \in DOMAIN s /\ j + k \in DOMAIN s /\ i + k < j + k
  BY <1>1, <1>2
<1>4. QED  BY <1>1, <1>3 DEF InCollectionOrder, t

-----------------------------------------------------------------------------
(* The invariants, and what the backlog is made of.                         *)

\* The invariants that speak of requests and the database only.
RequestInv ==
    /\ RequestsCarryBatches
    /\ OneOpenTransaction
    /\ OpenIsUncommitted
    /\ RawRowsAreThere
    /\ AnswersAreTrue

\* The batches the Agent knows about, list by list.
Known == BatchesIn(stillPending) \cup BatchesIn(pending) \cup BatchesIn(queue)
            \cup (IF fresh = 0 THEN {} ELSE {fresh})

LEMMA BacklogParts ==
    ASSUME NEW S, NEW s \in Seq(S), NEW t \in Seq(S), NEW u \in Seq(S), NEW f \in S \cup {0}
    PROVE  BatchesIn(s \o t \o u \o (IF f = 0 THEN <<>> ELSE <<f>>))
             = BatchesIn(s) \cup BatchesIn(t) \cup BatchesIn(u) \cup (IF f = 0 THEN {} ELSE {f})
<1>1. s \o t \in Seq(S) /\ (s \o t) \o u \in Seq(S)
  OBVIOUS
<1>2. BatchesIn(s \o t) = BatchesIn(s) \cup BatchesIn(t)
  BY BatchesInConcat
<1>3. BatchesIn((s \o t) \o u) = BatchesIn(s \o t) \cup BatchesIn(u)
  BY <1>1, BatchesInConcat
<1>4. CASE f = 0
  <2>1. ((s \o t) \o u) \o <<>> = (s \o t) \o u
    BY <1>1
  <2>2. QED  BY <1>2, <1>3, <1>4, <2>1
<1>5. CASE f # 0
  <2>1. <<f>> \in Seq(S)
    BY <1>5
  <2>2. BatchesIn(((s \o t) \o u) \o <<f>>) = BatchesIn((s \o t) \o u) \cup BatchesIn(<<f>>)
    BY <1>1, <2>1, BatchesInConcat
  <2>3. BatchesIn(<<f>>) = {f}
    BY BatchesInShortLists
  <2>4. QED  BY <1>2, <1>3, <1>5, <2>2, <2>3
<1>6. QED  BY <1>4, <1>5

LEMMA BacklogIsKnown == TypeOK => BatchesIn(Backlog) = Known
<1> SUFFICES ASSUME TypeOK PROVE BatchesIn(Backlog) = Known
  OBVIOUS
<1>1. /\ stillPending \in Seq(Batch) /\ pending \in Seq(Batch) /\ queue \in Seq(Batch)
      /\ fresh \in Batch \cup {0}
  BY DEF TypeOK
<1>2. BatchesIn(stillPending \o pending \o queue \o (IF fresh = 0 THEN <<>> ELSE <<fresh>>)) = Known
  BY <1>1, BacklogParts DEF Known
<1>3. QED  BY <1>2 DEF Backlog

LEMMA BacklogIsKnownNext == TypeOK' => BatchesIn(Backlog)' = Known'
<1> SUFFICES ASSUME TypeOK' PROVE BatchesIn(Backlog)' = Known'
  OBVIOUS
<1>1. /\ stillPending' \in Seq(Batch) /\ pending' \in Seq(Batch) /\ queue' \in Seq(Batch)
      /\ fresh' \in Batch \cup {0}
  BY DEF TypeOK
<1>2. BatchesIn(stillPending' \o pending' \o queue' \o (IF fresh' = 0 THEN <<>> ELSE <<fresh'>>)) = Known'
  BY <1>1, BacklogParts DEF Known
<1>3. QED  BY <1>2 DEF Backlog

\* NothingLost survives a step that keeps every batch known or accounts for it.
LEMMA KeepsBatches ==
    ASSUME IInv, TypeOK', faults' = faults, next' = next,
           \A b \in Known : b \in Known' \/ FullyRecorded(b)' \/ b \in dropped',
           \A b \in Batch : FullyRecorded(b) => FullyRecorded(b)',
           dropped \subseteq dropped'
    PROVE  NothingLost'
<1>1. BatchesIn(Backlog) = Known /\ BatchesIn(Backlog)' = Known'
  BY BacklogIsKnown, BacklogIsKnownNext DEF IInv
<1>2. \A b \in 1..(next - 1) : b \in Batch
  BY PipelineAssumption DEF IInv, TypeOK, Batch
<1>3. QED  BY <1>1, <1>2 DEF IInv, NothingLost

-----------------------------------------------------------------------------
LEMMA InitIInv == Init => IInv
<1> SUFFICES ASSUME Init PROVE IInv
  OBVIOUS
<1> USE PipelineAssumption
<1>1. TypeOK
  BY DEF Init, TypeOK, Batch, Request, FreeRequest
<1>2. RequestInv
  BY DEF Init, FreeRequest, RequestInv, RequestsCarryBatches, OneOpenTransaction,
         OpenIsUncommitted, RawRowsAreThere, AnswersAreTrue
<1>3. AwaitsItsBatch /\ ListsInUse
  BY DEF Init, AwaitsItsBatch, ListsInUse
<1>4. RecordedOnce
  BY DEF Init, RecordedOnce, Guarded
<1>5. NothingLost
  BY DEF Init, NothingLost
<1>6. QED  BY <1>1, <1>2, <1>3, <1>4, <1>5 DEF IInv, RequestInv

-----------------------------------------------------------------------------
(* The Agent's steps.                                                       *)

LEMMA DrainQueueIInv == IInv /\ DrainQueue => IInv'
<1> SUFFICES ASSUME IInv, DrainQueue PROVE IInv'
  OBVIOUS
<1> USE DEF DrainQueue, dbVars
<1>1. TypeOK'
  BY DEF IInv, TypeOK
<1>2. RequestInv'
  BY DEF IInv, RequestInv, RequestsCarryBatches, OneOpenTransaction, OpenIsUncommitted,
         RawRowsAreThere, AnswersAreTrue, FullyRecorded
<1>3. AwaitsItsBatch' /\ ListsInUse'
  BY DEF IInv, AwaitsItsBatch, ListsInUse
<1>4. RecordedOnce'
  BY DEF IInv, RecordedOnce
<1>5. NothingLost'
  <2>1. Known \subseteq Known'
    BY BatchesInShortLists DEF IInv, ListsInUse, Known
  <2>2. QED  BY <1>1, <2>1, KeepsBatches DEF FullyRecorded
<1>6. QED  BY <1>1, <1>2, <1>3, <1>4, <1>5 DEF IInv, RequestInv

\* Putting a request on the wire disturbs no transaction and no answer.
LEMMA SendRequestInv ==
    ASSUME IInv, NEW r \in Requests, NEW b \in Batch, Send(r, b), UNCHANGED dbVars
    PROVE  /\ req' \in [Requests -> Request]
           /\ awaiting' \in Requests
           /\ awaiting' # NoRequest
           /\ req'[awaiting'].phase = "sent" /\ req'[awaiting'].batch = b
           /\ RequestInv'
<1>1. [batch |-> b, phase |-> "sent", done |-> 0] \in Request
  BY PipelineAssumption DEF Request
<1>2. req' \in [Requests -> Request]
  BY <1>1 DEF IInv, TypeOK, Send
<1>3. /\ \A s \in Requests : s # r => req'[s] = req[s]
      /\ req'[r].phase = "sent" /\ req'[r].batch = b /\ req'[r].done = 0
  BY DEF IInv, TypeOK, Send
<1>4. RequestInv'
  BY <1>3 DEF IInv, RequestInv, RequestsCarryBatches, OneOpenTransaction, OpenIsUncommitted,
              RawRowsAreThere, AnswersAreTrue, FullyRecorded, dbVars
<1>5. QED  BY <1>2, <1>3, <1>4, PipelineAssumption DEF Send

LEMMA SubmitPendingIInv ==
    ASSUME IInv, NEW r \in Requests, SubmitPending(r) PROVE IInv'
<1>1. Head(pending) \in Batch
  BY BatchesInHeadTail DEF IInv, TypeOK, SubmitPending
<1>2. Send(r, Head(pending)) /\ UNCHANGED dbVars
  BY DEF SubmitPending
<1>3. /\ req' \in [Requests -> Request] /\ awaiting' \in Requests
      /\ req'[awaiting'].phase = "sent" /\ req'[awaiting'].batch = Head(pending)
      /\ RequestInv'
  BY <1>1, <1>2, SendRequestInv
<1> USE DEF SubmitPending, dbVars
<1>4. TypeOK'
  BY <1>3 DEF IInv, TypeOK
<1>5. AwaitsItsBatch' /\ ListsInUse'
  BY <1>3 DEF IInv, AwaitsItsBatch, ListsInUse
<1>6. RecordedOnce'
  BY DEF IInv, RecordedOnce
<1>7. NothingLost'
  BY <1>4, KeepsBatches DEF Known, FullyRecorded
<1>8. QED  BY <1>3, <1>4, <1>5, <1>6, <1>7 DEF IInv, RequestInv

LEMMA RequeueFailedIInv == IInv /\ RequeueFailed => IInv'
<1> SUFFICES ASSUME IInv, RequeueFailed PROVE IInv'
  OBVIOUS
<1> USE DEF RequeueFailed, dbVars
<1>1. awaiting = NoRequest
  BY DEF IInv, AwaitsItsBatch
<1>2. TypeOK'
  BY DEF IInv, TypeOK
<1>3. RequestInv'
  BY DEF IInv, RequestInv, RequestsCarryBatches, OneOpenTransaction, OpenIsUncommitted,
         RawRowsAreThere, AnswersAreTrue, FullyRecorded
<1>4. AwaitsItsBatch' /\ ListsInUse'
  BY <1>1 DEF IInv, AwaitsItsBatch, ListsInUse
<1>5. RecordedOnce'
  BY DEF IInv, RecordedOnce
<1>6. NothingLost'
  <2>1. BatchesIn(queue') = BatchesIn(stillPending) \cup BatchesIn(queue)
    BY BatchesInConcat DEF IInv, TypeOK
  <2>2. Known \subseteq Known'
    BY <2>1, BatchesInShortLists DEF Known
  <2>3. QED  BY <1>2, <2>2, KeepsBatches DEF FullyRecorded
<1>7. QED  BY <1>2, <1>3, <1>4, <1>5, <1>6 DEF IInv, RequestInv

LEMMA CollectNothingIInv == IInv /\ CollectNothing => IInv'
<1> SUFFICES ASSUME IInv, CollectNothing PROVE IInv'
  OBVIOUS
<1> USE DEF CollectNothing, dbVars
<1>1. TypeOK'
  BY DEF IInv, TypeOK
<1>2. RequestInv'
  BY DEF IInv, RequestInv, RequestsCarryBatches, OneOpenTransaction, OpenIsUncommitted,
         RawRowsAreThere, AnswersAreTrue, FullyRecorded
<1>3. AwaitsItsBatch' /\ ListsInUse'
  BY DEF IInv, AwaitsItsBatch, ListsInUse
<1>4. RecordedOnce'
  BY DEF IInv, RecordedOnce
<1>5. NothingLost'
  BY <1>1, KeepsBatches DEF Known, FullyRecorded
<1>6. QED  BY <1>1, <1>2, <1>3, <1>4, <1>5 DEF IInv, RequestInv

LEMMA SubmitCollectedIInv ==
    ASSUME IInv, NEW r \in Requests, SubmitCollected(r) PROVE IInv'
<1>1. next \in Batch /\ next \in Nat /\ next # 0
  BY PipelineAssumption DEF IInv, TypeOK, SubmitCollected, Batch
<1>2. Send(r, next) /\ UNCHANGED dbVars
  BY DEF SubmitCollected
<1>3. /\ req' \in [Requests -> Request] /\ awaiting' \in Requests
      /\ req'[awaiting'].phase = "sent" /\ req'[awaiting'].batch = next
      /\ RequestInv'
  BY <1>1, <1>2, SendRequestInv
<1> USE DEF SubmitCollected, dbVars
<1>4. TypeOK'
  BY <1>1, <1>3, PipelineAssumption DEF IInv, TypeOK
<1>5. AwaitsItsBatch' /\ ListsInUse'
  BY <1>1, <1>3 DEF IInv, AwaitsItsBatch, ListsInUse
<1>6. RecordedOnce'
  BY DEF IInv, RecordedOnce
<1>7. NothingLost'
  <2>1. fresh = 0
    BY DEF IInv, ListsInUse
  <2>2. BatchesIn(Backlog) = Known /\ BatchesIn(Backlog)' = Known'
    BY <1>4, BacklogIsKnown, BacklogIsKnownNext DEF IInv
  <2>3. Known' = Known \cup {next}
    BY <1>1, <2>1 DEF Known
  <2>4. \A b \in 1..(next' - 1) : b \in 1..(next - 1) \/ b = next
    BY <1>1
  <2>5. QED  BY <2>2, <2>3, <2>4 DEF IInv, NothingLost, FullyRecorded
<1>8. QED  BY <1>3, <1>4, <1>5, <1>6, <1>7 DEF IInv, RequestInv

\* What the Agent does with the result of SubmitDevicesAsync keeps every batch,
\* provided a success it acts upon is a true one.
LEMMA ReturnsIInv ==
    ASSUME IInv, awaiting # NoRequest, NEW success \in BOOLEAN, Returns(success),
           success => FullyRecorded(req[awaiting].batch),
           req' \in [Requests -> Request], RequestInv',
           losses' \in 0..MaxLosses
    PROVE  IInv'
<1> USE DEF Returns, dbVars
<1>1. CASE pc = "flush"
  <2>1. pending # <<>> /\ req[awaiting].batch = Head(pending) /\ fresh = 0
    BY <1>1 DEF IInv, AwaitsItsBatch, ListsInUse
  <2>2. /\ Head(pending) \in Batch /\ Tail(pending) \in Seq(Batch)
        /\ BatchesIn(pending) = {Head(pending)} \cup BatchesIn(Tail(pending))
    BY <2>1, BatchesInHeadTail DEF IInv, TypeOK
  <2>3. /\ pending' = Tail(pending) /\ pc' = pc /\ fresh' = fresh
        /\ stillPending' = IF success THEN stillPending ELSE Append(stillPending, Head(pending))
    BY <1>1
  <2>4. TypeOK'
    BY <1>1, <2>2, <2>3 DEF IInv, TypeOK
  <2>5. AwaitsItsBatch' /\ ListsInUse'
    BY <1>1, <2>1, <2>3 DEF AwaitsItsBatch, ListsInUse
  <2>6. RecordedOnce'
    BY DEF IInv, RecordedOnce
  <2>7. NothingLost'
    <3>1. BatchesIn(Append(stillPending, Head(pending))) = BatchesIn(stillPending) \cup {Head(pending)}
      BY <2>2, BatchesInAppend DEF IInv, TypeOK
    <3>2. \A b \in Known : b \in Known' \/ FullyRecorded(b)'
      BY <2>1, <2>2, <2>3, <3>1 DEF Known, FullyRecorded
    <3>3. QED  BY <2>4, <3>2, KeepsBatches DEF FullyRecorded
  <2>8. QED  BY <2>4, <2>5, <2>6, <2>7 DEF IInv, RequestInv
<1>2. CASE pc = "fresh"
  <2>1. req[awaiting].batch = fresh /\ fresh # 0 /\ pending = <<>> /\ stillPending = <<>>
    BY <1>2 DEF IInv, AwaitsItsBatch, ListsInUse
  <2>2. /\ pc' = IF success THEN "idle" ELSE "enqueue"
        /\ fresh' = IF success THEN 0 ELSE fresh
        /\ UNCHANGED <<pending, stillPending>>
    BY <1>2
  <2>3. TypeOK'
    BY <2>2 DEF IInv, TypeOK
  <2>4. AwaitsItsBatch' /\ ListsInUse'
    BY <2>1, <2>2 DEF AwaitsItsBatch, ListsInUse
  <2>5. RecordedOnce'
    BY DEF IInv, RecordedOnce
  <2>6. NothingLost'
    <3>1. \A b \in Known : b \in Known' \/ FullyRecorded(b)'
      BY <2>1, <2>2 DEF Known, FullyRecorded
    <3>2. QED  BY <2>3, <3>1, KeepsBatches DEF FullyRecorded
  <2>7. QED  BY <2>3, <2>4, <2>5, <2>6 DEF IInv, RequestInv
<1>3. QED  BY <1>1, <1>2

\* Taking a request off the wire disturbs no transaction and no answer.
LEMMA FreeRequestInv ==
    ASSUME IInv, NEW r \in Requests, req' = [req EXCEPT ![r] = FreeRequest], UNCHANGED dbVars
    PROVE  req' \in [Requests -> Request] /\ RequestInv'
<1>1. FreeRequest \in Request
  BY PipelineAssumption DEF FreeRequest, Request
<1>2. req' \in [Requests -> Request]
  BY <1>1 DEF IInv, TypeOK
<1>3. /\ \A s \in Requests : s # r => req'[s] = req[s]
      /\ req'[r].phase = "free"
  BY DEF IInv, TypeOK, FreeRequest
<1>4. RequestInv'
  BY <1>3 DEF IInv, RequestInv, RequestsCarryBatches, OneOpenTransaction, OpenIsUncommitted,
              RawRowsAreThere, AnswersAreTrue, FullyRecorded, dbVars
<1>5. QED  BY <1>2, <1>4

LEMMA ReceiveAnswerIInv == IInv /\ ReceiveAnswer => IInv'
<1> SUFFICES ASSUME IInv, ReceiveAnswer PROVE IInv'
  OBVIOUS
<1> DEFINE success == req[awaiting].phase = "accepted"
<1>1. awaiting \in Requests /\ awaiting # NoRequest
  BY DEF ReceiveAnswer, IInv, TypeOK
<1>2. success => FullyRecorded(req[awaiting].batch)
  BY <1>1 DEF IInv, AnswersAreTrue
<1>3. Returns(success) /\ req' = [req EXCEPT ![awaiting] = FreeRequest] /\ losses' = losses
  BY DEF ReceiveAnswer
<1>4. UNCHANGED dbVars
  BY <1>3 DEF Returns
<1>5. req' \in [Requests -> Request] /\ RequestInv'
  BY <1>1, <1>3, <1>4, FreeRequestInv
<1>6. success \in BOOLEAN /\ losses' \in 0..MaxLosses
  BY <1>3 DEF IInv, TypeOK
<1> HIDE DEF success
<1>7. QED  BY <1>1, <1>2, <1>3, <1>5, <1>6, ReturnsIInv

\* A step that leaves requests and database alone keeps what is said of them.
LEMMA RequestInvStable ==
    ASSUME IInv, UNCHANGED <<req, dbVars>>
    PROVE  RequestInv' /\ RecordedOnce' /\ \A b \in Batch : FullyRecorded(b) => FullyRecorded(b)'
BY DEF IInv, RequestInv, RequestsCarryBatches, OneOpenTransaction, OpenIsUncommitted,
       RawRowsAreThere, AnswersAreTrue, FullyRecorded, RecordedOnce, dbVars

LEMMA GiveUpIInv == IInv /\ GiveUp => IInv'
<1> SUFFICES ASSUME IInv, GiveUp PROVE IInv'
  OBVIOUS
<1>1. UNCHANGED <<req, dbVars>> /\ Returns(FALSE) /\ awaiting # NoRequest
  BY DEF GiveUp, Returns
<1>2. RequestInv' /\ req' \in [Requests -> Request]
  BY <1>1, RequestInvStable DEF IInv, TypeOK
<1>3. losses' \in 0..MaxLosses
  BY PipelineAssumption DEF GiveUp, IInv, TypeOK
<1>4. QED  BY <1>1, <1>2, <1>3, ReturnsIInv

LEMMA EnqueueFreshIInv == IInv /\ EnqueueFresh => IInv'
<1> SUFFICES ASSUME IInv, EnqueueFresh PROVE IInv'
  OBVIOUS
<1> USE DEF EnqueueFresh
<1>1. fresh \in Batch /\ fresh # 0
  BY PipelineAssumption DEF IInv, TypeOK, ListsInUse, Batch
<1>2. Append(queue, fresh) \in Seq(Batch)
  BY <1>1 DEF IInv, TypeOK
<1>3. /\ queue' \in Seq(Batch)
      /\ BatchesIn(queue') \subseteq BatchesIn(Append(queue, fresh))
  BY <1>2, PipelineAssumption, KeepNewestIsSuffix
<1>4. BatchesIn(Append(queue, fresh)) = BatchesIn(queue) \cup {fresh}
  BY <1>1, BatchesInAppend DEF IInv, TypeOK
<1>5. BatchesIn(queue) \subseteq Batch
  BY DEF IInv, TypeOK, BatchesIn
<1>6. TypeOK'
  BY <1>1, <1>3, <1>4, <1>5 DEF IInv, TypeOK, dbVars
<1>7. RequestInv' /\ RecordedOnce'
  BY RequestInvStable
<1>8. AwaitsItsBatch' /\ ListsInUse'
  BY DEF IInv, AwaitsItsBatch, ListsInUse
<1>9. NothingLost'
  <2>1. \A b \in Known : b \in Known' \/ b \in dropped'
    BY <1>1, <1>3, <1>4 DEF Known
  <2>2. QED  BY <1>6, <2>1, KeepsBatches, RequestInvStable
<1>10. QED  BY <1>6, <1>7, <1>8, <1>9 DEF IInv, RequestInv

LEMMA ForgetIInv == IInv /\ Forget => IInv'
<1> SUFFICES ASSUME IInv, Forget PROVE IInv'
  OBVIOUS
<1> USE DEF Forget
<1>1. faults' \in 0..MaxFaults /\ faults' # 0
  BY PipelineAssumption DEF IInv, TypeOK
<1>2. TypeOK'
  BY <1>1 DEF IInv, TypeOK, dbVars
<1>3. RequestInv' /\ RecordedOnce'
  BY RequestInvStable
<1>4. AwaitsItsBatch' /\ ListsInUse'
  BY DEF AwaitsItsBatch, ListsInUse
<1>5. NothingLost'
  BY <1>1 DEF NothingLost
<1>6. QED  BY <1>2, <1>3, <1>4, <1>5 DEF IInv, RequestInv

\* Reading the queue as empty costs what it held: a fault, which the
\* invariants about lost batches exclude.
LEMMA QueueReadFailsIInv == IInv /\ QueueReadFails => IInv'
<1> SUFFICES ASSUME IInv, QueueReadFails PROVE IInv'
  OBVIOUS
<1> USE DEF QueueReadFails
<1>1. faults' \in 0..MaxFaults /\ faults' # 0
  BY PipelineAssumption DEF IInv, TypeOK
<1>2. fresh \in Batch \cup {0} /\ (pc = "enqueue" => fresh \in Batch)
  BY DEF IInv, TypeOK, ListsInUse
<1>3. queue' \in Seq(Batch) /\ fresh' \in Batch \cup {0} /\ pc' \in {"idle", "collect"}
  <2>1. CASE pc = "idle"
    BY <1>2, <2>1
  <2>2. CASE pc = "enqueue"
    <3>1. <<fresh>> \in Seq(Batch)
      BY <1>2, <2>2
    <3>2. QED  BY <2>2, <3>1
  <2>3. QED  BY <2>1, <2>2
<1>4. TypeOK'
  BY <1>1, <1>3 DEF IInv, TypeOK, dbVars
<1>5. RequestInv' /\ RecordedOnce'
  BY RequestInvStable
<1>6. AwaitsItsBatch' /\ ListsInUse'
  BY DEF IInv, AwaitsItsBatch, ListsInUse
<1>7. NothingLost'
  BY <1>1 DEF NothingLost
<1>8. QED  BY <1>4, <1>5, <1>6, <1>7 DEF IInv, RequestInv

-----------------------------------------------------------------------------
(* The steps of the wire and the API leave the Agent alone: what remains of *)
(* IInv follows once the rows only grow and the awaited request still      *)
(* carries its batch.                                                       *)

LEMMA ApiSideIInv ==
    ASSUME IInv, UNCHANGED <<agentVars, next, dropped, unread, faults>>,
           req' \in [Requests -> Request], losses' \in 0..MaxLosses,
           submissions' \in SUBSET Batch,
           recorded' \in [Batch -> [Device -> Nat]],
           RequestInv', RecordedOnce',
           \A b \in Batch : FullyRecorded(b) => FullyRecorded(b)',
           awaiting # NoRequest =>
              /\ req'[awaiting].phase # "free"
              /\ req'[awaiting].batch = req[awaiting].batch
    PROVE  IInv'
<1> USE DEF agentVars
<1>1. TypeOK'
  BY DEF IInv, TypeOK
<1>2. AwaitsItsBatch' /\ ListsInUse'
  BY DEF IInv, AwaitsItsBatch, ListsInUse
<1>3. NothingLost'
  <2>1. Known' = Known
    BY DEF Known
  <2>2. QED  BY <1>1, <2>1, KeepsBatches
<1>4. QED  BY <1>1, <1>2, <1>3 DEF IInv, RequestInv

LEMMA OrphanedIInv ==
    ASSUME IInv, NEW r \in Requests, Orphaned(r) PROVE IInv'
<1>1. /\ req' = [req EXCEPT ![r] = FreeRequest]
      /\ r # awaiting
      /\ UNCHANGED <<agentVars, dbVars, next, dropped, unread, losses, faults>>
  BY DEF Orphaned, LoseOrphan, LoseAnswer
<1>2. req' \in [Requests -> Request] /\ RequestInv'
  BY <1>1, FreeRequestInv
<1>3. awaiting # NoRequest => awaiting \in Requests /\ req'[awaiting] = req[awaiting]
  BY <1>1 DEF IInv, TypeOK
<1>4. /\ losses' \in 0..MaxLosses /\ submissions' \in SUBSET Batch
      /\ recorded' \in [Batch -> [Device -> Nat]]
      /\ RecordedOnce' /\ \A b \in Batch : FullyRecorded(b) => FullyRecorded(b)'
  BY <1>1 DEF IInv, TypeOK, dbVars, RecordedOnce, FullyRecorded
<1>5. awaiting # NoRequest => req[awaiting].phase # "free"
  BY DEF IInv, AwaitsItsBatch
<1>6. QED  BY <1>1, <1>2, <1>3, <1>4, <1>5, ApiSideIInv

\* Moving one request to another phase keeps the types and the other requests.
LEMMA AdvanceFrame ==
    ASSUME IInv, NEW r \in Requests, NEW from, NEW to \in {"open", "accepted", "rejected"},
           from # "free", Advance(r, from, to)
    PROVE  /\ req' \in [Requests -> Request]
           /\ \A s \in Requests : s # r => req'[s] = req[s]
           /\ req'[r].phase = to
           /\ req'[r].batch = req[r].batch /\ req[r].batch \in Batch
           /\ req'[r].done = req[r].done
           /\ awaiting # NoRequest =>
                 /\ req'[awaiting].phase # "free"
                 /\ req'[awaiting].batch = req[awaiting].batch
<1> USE DEF Advance
<1>1. req[r] \in Request /\ req[r].phase = from
  BY DEF IInv, TypeOK
<1>2. /\ req'[r] = [req[r] EXCEPT !.phase = to]
      /\ \A s \in Requests : s # r => req'[s] = req[s]
  BY DEF IInv, TypeOK
<1>3. req'[r] \in Request
  BY <1>1, <1>2 DEF Request
<1>4. req' \in [Requests -> Request]
  BY <1>2, <1>3 DEF IInv, TypeOK
<1>5. req[r].batch \in Batch
  BY <1>1 DEF IInv, RequestsCarryBatches
<1>6. req'[r].phase = to /\ req'[r].batch = req[r].batch /\ req'[r].done = req[r].done
  BY <1>1, <1>2 DEF Request
<1>7. awaiting # NoRequest => /\ awaiting \in Requests
                              /\ req[awaiting].phase # "free"
  BY DEF IInv, TypeOK, AwaitsItsBatch
<1>8. QED  BY <1>2, <1>4, <1>5, <1>6, <1>7

\* Answers that change no row.
LEMMA AnswerIInv ==
    ASSUME IInv, NEW r \in Requests, NEW from \in {"sent", "open"},
           NEW to \in {"accepted", "rejected"}, Advance(r, from, to),
           to = "accepted" => FullyRecorded(req[r].batch),
           UNCHANGED <<agentVars, dbVars, next, dropped, unread, faults>>,
           losses' \in 0..MaxLosses
    PROVE  IInv'
<1>1. /\ req' \in [Requests -> Request]
      /\ \A s \in Requests : s # r => req'[s] = req[s]
      /\ req'[r].phase = to
      /\ req'[r].batch = req[r].batch /\ req[r].batch \in Batch
      /\ awaiting # NoRequest =>
            /\ req'[awaiting].phase # "free"
            /\ req'[awaiting].batch = req[awaiting].batch
  BY AdvanceFrame
<1>2. RequestInv'
  BY <1>1 DEF IInv, RequestInv, RequestsCarryBatches, OneOpenTransaction, OpenIsUncommitted,
              RawRowsAreThere, AnswersAreTrue, FullyRecorded, dbVars
<1>3. /\ submissions' \in SUBSET Batch /\ recorded' \in [Batch -> [Device -> Nat]]
      /\ RecordedOnce' /\ \A b \in Batch : FullyRecorded(b) => FullyRecorded(b)'
  BY DEF IInv, TypeOK, dbVars, RecordedOnce, FullyRecorded
<1>4. QED  BY <1>1, <1>2, <1>3, ApiSideIInv

LEMMA RefuseIInv ==
    ASSUME IInv, NEW r \in Requests, Refuse(r) PROVE IInv'
<1>1. /\ Advance(r, "sent", "rejected") /\ losses' \in 0..MaxLosses
      /\ UNCHANGED <<agentVars, dbVars, next, dropped, unread, faults>>
  BY DEF Refuse, IInv, TypeOK
<1>2. QED  BY <1>1, AnswerIInv

LEMMA AbortIInv ==
    ASSUME IInv, NEW r \in Requests, Abort(r) PROVE IInv'
<1>1. /\ Advance(r, "open", "rejected") /\ losses' \in 0..MaxLosses
      /\ UNCHANGED <<agentVars, dbVars, next, dropped, unread, faults>>
  BY PipelineAssumption DEF Abort, IInv, TypeOK
<1>2. QED  BY <1>1, AnswerIInv

LEMMA DeduplicateIInv ==
    ASSUME IInv, NEW r \in Requests, Deduplicate(r) PROVE IInv'
<1>1. /\ Advance(r, "sent", "accepted") /\ losses' \in 0..MaxLosses
      /\ UNCHANGED <<agentVars, dbVars, next, dropped, unread, faults>>
  BY DEF Deduplicate, IInv, TypeOK
<1>2. FullyRecorded(req[r].batch)
  BY DEF Deduplicate, IInv, RecordedOnce, FullyRecorded
<1>3. QED  BY <1>1, <1>2, AnswerIInv

LEMMA OpenSubmissionIInv ==
    ASSUME IInv, NEW r \in Requests, OpenSubmission(r) PROVE IInv'
<1> DEFINE b == req[r].batch
<1>1. /\ Advance(r, "sent", "open") /\ req[r].phase = "sent"
      /\ b \in Guarded => b \notin submissions /\ ~IsOpen(b)
      /\ UNCHANGED <<agentVars, dbVars, next, dropped, unread, losses, faults>>
  BY DEF OpenSubmission, Advance
<1>2. /\ req' \in [Requests -> Request]
      /\ \A s \in Requests : s # r => req'[s] = req[s]
      /\ req'[r].phase = "open" /\ req'[r].done = req[r].done
      /\ req'[r].batch = b /\ b \in Batch
      /\ awaiting # NoRequest =>
            /\ req'[awaiting].phase # "free"
            /\ req'[awaiting].batch = req[awaiting].batch
  BY <1>1, AdvanceFrame
<1> HIDE DEF b
<1>3. RequestInv'
  <2>1. RequestsCarryBatches'
    BY <1>2 DEF IInv, RequestsCarryBatches
  <2>2. OneOpenTransaction'
    BY <1>1, <1>2 DEF IInv, OneOpenTransaction, IsOpen
  <2>3. OpenIsUncommitted'
    BY <1>1, <1>2 DEF IInv, OpenIsUncommitted, dbVars
  <2>4. req'[r].done = 0 /\ 1..0 = {}
    BY <1>1, <1>2 DEF IInv, RequestsCarryBatches
  <2>5. RawRowsAreThere'
    BY <1>1, <1>2, <2>4 DEF IInv, RawRowsAreThere, dbVars
  <2>6. AnswersAreTrue'
    BY <1>1, <1>2 DEF IInv, AnswersAreTrue, FullyRecorded, dbVars
  <2>7. QED  BY <2>1, <2>2, <2>3, <2>5, <2>6 DEF RequestInv
<1>4. /\ losses' \in 0..MaxLosses /\ submissions' \in SUBSET Batch
      /\ recorded' \in [Batch -> [Device -> Nat]]
      /\ RecordedOnce' /\ \A c \in Batch : FullyRecorded(c) => FullyRecorded(c)'
  BY <1>1 DEF IInv, TypeOK, dbVars, RecordedOnce, FullyRecorded
<1>5. QED  BY <1>1, <1>2, <1>3, <1>4, ApiSideIInv

\* Rows are only ever added, so a device that has one keeps it.
LEMMA RowsGrow ==
    ASSUME recorded \in [Batch -> [Device -> Nat]],
           \A c \in Batch, e \in Device :
               recorded'[c][e] = recorded[c][e] \/ recorded'[c][e] = recorded[c][e] + 1
    PROVE  \A c \in Batch, e \in Device :
               /\ recorded[c][e] \in Nat
               /\ recorded[c][e] >= 1 => recorded'[c][e] >= 1
<1> TAKE c \in Batch, e \in Device
<1>1. recorded[c] \in [Device -> Nat]
  OBVIOUS
<1>2. recorded[c][e] \in Nat
  BY <1>1
<1>3. recorded'[c][e] = recorded[c][e] \/ recorded'[c][e] = recorded[c][e] + 1
  OBVIOUS
<1>4. QED  BY <1>2, <1>3

LEMMA ProcessDeviceIInv ==
    ASSUME IInv, NEW r \in Requests, ProcessDevice(r) PROVE IInv'
<1> DEFINE b == req[r].batch
           d == req[r].done + 1
<1>1. /\ req[r].phase = "open" /\ req[r].done < Devices
      /\ req' = [req EXCEPT ![r].done = d]
      /\ recorded' = IF b \in Guarded THEN recorded
                                      ELSE [recorded EXCEPT ![b][d] = @ + 1]
      /\ UNCHANGED <<agentVars, submissions, next, dropped, unread, losses, faults>>
  BY DEF ProcessDevice
<1>2. req[r] \in Request /\ b \in Batch /\ d \in Device /\ d \in 0..Devices
  <2>1. req[r] \in Request
    BY DEF IInv, TypeOK
  <2>2. req[r].done \in 0..Devices
    BY <2>1 DEF Request
  <2>3. d \in 1..Devices /\ d \in 0..Devices
    BY <1>1, <2>2, PipelineAssumption
  <2>4. b \in Batch
    BY <1>1 DEF IInv, RequestsCarryBatches
  <2>5. QED  BY <2>1, <2>3, <2>4 DEF Device
<1>3. /\ req'[r] = [req[r] EXCEPT !.done = d]
      /\ \A s \in Requests : s # r => req'[s] = req[s]
  BY <1>1 DEF IInv, TypeOK
<1>4. /\ req'[r] \in Request
      /\ req'[r].batch = b /\ req'[r].phase = "open" /\ req'[r].done = d
  BY <1>1, <1>2, <1>3 DEF Request
<1>5. req' \in [Requests -> Request]
  BY <1>1, <1>3, <1>4 DEF IInv, TypeOK
<1>6. /\ recorded' \in [Batch -> [Device -> Nat]]
      /\ \A c \in Batch, e \in Device :
            recorded'[c][e] = IF c \notin Guarded /\ c = b /\ e = d THEN recorded[c][e] + 1 ELSE recorded[c][e]
  <2>1. CASE b \in Guarded
    BY <1>1, <2>1 DEF IInv, TypeOK
  <2>2. CASE b \notin Guarded
    <3>1. recorded' = [recorded EXCEPT ![b][d] = @ + 1]
      BY <1>1, <2>2
    <3>2. recorded[b] \in [Device -> Nat] /\ recorded[b][d] + 1 \in Nat
      BY <1>2 DEF IInv, TypeOK
    <3>3. QED  BY <1>2, <2>2, <3>1, <3>2 DEF IInv, TypeOK
  <2>3. QED  BY <2>1, <2>2
<1> HIDE DEF d
<1>7. \A c \in Batch, e \in Device :
        recorded[c][e] \in Nat /\ (recorded[c][e] >= 1 => recorded'[c][e] >= 1)
  <2>1. recorded \in [Batch -> [Device -> Nat]]
    BY DEF IInv, TypeOK
  <2>2. QED  BY <1>6, <2>1, RowsGrow
<1>8. \A c \in Batch : FullyRecorded(c) => FullyRecorded(c)'
  BY <1>6, <1>7 DEF FullyRecorded
<1>9. RecordedOnce'
  BY <1>1, <1>6 DEF IInv, RecordedOnce, Guarded
<1>10. RequestInv'
  <2>1. RequestsCarryBatches' /\ OneOpenTransaction' /\ OpenIsUncommitted'
    BY <1>1, <1>2, <1>3, <1>4 DEF IInv, RequestsCarryBatches, OneOpenTransaction, OpenIsUncommitted
  <2>2. AnswersAreTrue'
    BY <1>3, <1>4, <1>8 DEF IInv, AnswersAreTrue, RequestsCarryBatches
  <2>3. RawRowsAreThere'
    <3> SUFFICES ASSUME NEW s \in Requests, req'[s].phase = "open", req'[s].batch \notin Guarded,
                        NEW e \in 1..req'[s].done
                 PROVE  recorded'[req'[s].batch][e] >= 1
      BY DEF RawRowsAreThere
    <3>1. req'[s].batch \in Batch /\ req'[s].done \in 0..Devices /\ e \in Device
      BY <1>5, <2>1, PipelineAssumption DEF RequestsCarryBatches, Request, Device
    <3>2. CASE s # r
      <4>1. recorded[req[s].batch][e] >= 1
        BY <1>3, <3>2 DEF IInv, RawRowsAreThere
      <4>2. QED  BY <1>3, <1>7, <3>1, <3>2, <4>1
    <3>3. CASE s = r /\ e = d
      <4>1. recorded'[b][d] = recorded[b][d] + 1 /\ recorded[b][d] \in Nat
        BY <1>4, <1>6, <1>7, <3>1, <3>3
      <4>2. QED  BY <1>4, <3>3, <4>1
    <3>4. CASE s = r /\ e # d
      <4>1. e \in 1..req[r].done
        BY <1>2, <1>4, <3>4 DEF d, Request
      <4>2. recorded[b][e] >= 1
        BY <1>1, <1>4, <3>4, <4>1 DEF IInv, RawRowsAreThere
      <4>3. QED  BY <1>4, <1>7, <3>1, <3>4, <4>2
    <3>5. QED  BY <3>2, <3>3, <3>4
  <2>4. QED  BY <2>1, <2>2, <2>3 DEF RequestInv
<1>11. /\ losses' \in 0..MaxLosses /\ submissions' \in SUBSET Batch
  BY <1>1 DEF IInv, TypeOK
<1>12. awaiting # NoRequest => /\ req'[awaiting].phase # "free"
                               /\ req'[awaiting].batch = req[awaiting].batch
  BY <1>3, <1>4 DEF IInv, TypeOK, AwaitsItsBatch
<1>13. QED  BY <1>1, <1>5, <1>6, <1>8, <1>9, <1>10, <1>11, <1>12, ApiSideIInv

LEMMA CommitIInv ==
    ASSUME IInv, NEW r \in Requests, Commit(r) PROVE IInv'
<1> DEFINE b == req[r].batch
<1>1. /\ req[r].done = Devices /\ req[r].phase = "open" /\ Advance(r, "open", "accepted")
      /\ UNCHANGED <<agentVars, next, dropped, unread, losses, faults>>
  BY DEF Commit, Advance
<1>2. /\ req' \in [Requests -> Request]
      /\ \A s \in Requests : s # r => req'[s] = req[s]
      /\ req'[r].phase = "accepted" /\ req'[r].batch = b /\ b \in Batch
      /\ awaiting # NoRequest =>
            /\ req'[awaiting].phase # "free"
            /\ req'[awaiting].batch = req[awaiting].batch
  BY <1>1, AdvanceFrame
<1>3. losses' \in 0..MaxLosses
  BY <1>1 DEF IInv, TypeOK
<1>4. CASE b \notin Guarded
  <2>1. FullyRecorded(b)
    BY <1>1, <1>4 DEF IInv, RawRowsAreThere, FullyRecorded, Device
  <2>2. UNCHANGED dbVars
    BY <1>4 DEF Commit
  <2>3. QED  BY <1>1, <1>3, <2>1, <2>2, AnswerIInv
<1>5. CASE b \in Guarded
  <2>1. /\ submissions' = submissions \cup {b}
        /\ recorded' = [recorded EXCEPT ![b] = [d \in Device |-> recorded[b][d] + 1]]
    BY <1>5 DEF Commit
  <2>2. recorded[b] \in [Device -> Nat] /\ [d \in Device |-> recorded[b][d] + 1] \in [Device -> Nat]
    BY <1>2 DEF IInv, TypeOK
  <2>3. /\ recorded' \in [Batch -> [Device -> Nat]]
        /\ \A c \in Batch, d \in Device :
              recorded'[c][d] = IF c = b THEN recorded[c][d] + 1 ELSE recorded[c][d]
    BY <1>2, <2>1, <2>2 DEF IInv, TypeOK
  <2>4. \A c \in Batch, d \in Device :
          recorded[c][d] \in Nat /\ (recorded[c][d] >= 1 => recorded'[c][d] >= 1)
    <3>1. recorded \in [Batch -> [Device -> Nat]]
      BY DEF IInv, TypeOK
    <3>2. QED  BY <2>3, <3>1, RowsGrow
  <2>5. b \notin submissions
    BY <1>1, <1>5 DEF IInv, OpenIsUncommitted
  <2>6. RecordedOnce'
    BY <1>2, <2>1, <2>3, <2>5 DEF IInv, RecordedOnce, Guarded
  <2>7. \A c \in Batch : FullyRecorded(c) => FullyRecorded(c)'
    BY <2>3, <2>4 DEF FullyRecorded
  <2>8. FullyRecorded(b)'
    BY <1>2, <2>3, <2>4 DEF FullyRecorded
  <2>9. RequestInv'
    <3>1. RequestsCarryBatches' /\ OneOpenTransaction'
      BY <1>2 DEF IInv, RequestsCarryBatches, OneOpenTransaction
    <3>2. OpenIsUncommitted'
      BY <1>1, <1>2, <1>5, <2>1 DEF IInv, OpenIsUncommitted, OneOpenTransaction
    <3>3. AnswersAreTrue'
      BY <1>2, <2>7, <2>8 DEF IInv, AnswersAreTrue, RequestsCarryBatches
    <3>4. RawRowsAreThere'
      <4> SUFFICES ASSUME NEW s \in Requests, req'[s].phase = "open", req'[s].batch \notin Guarded,
                          NEW e \in 1..req'[s].done
                   PROVE  recorded'[req'[s].batch][e] >= 1
        BY DEF RawRowsAreThere
      <4>1. s # r /\ req'[s] = req[s]
        BY <1>2
      <4>2. req[s].batch \in Batch /\ req[s] \in Request /\ e \in Device
        BY <4>1, PipelineAssumption DEF IInv, TypeOK, RequestsCarryBatches, Request, Device
      <4>3. recorded[req[s].batch][e] >= 1
        BY <4>1 DEF IInv, RawRowsAreThere
      <4>4. QED  BY <2>4, <4>1, <4>2, <4>3
    <3>5. QED  BY <3>1, <3>2, <3>3, <3>4 DEF RequestInv
  <2>10. submissions' \in SUBSET Batch
    BY <1>2, <2>1 DEF IInv, TypeOK
  <2>11. QED  BY <1>1, <1>2, <1>3, <2>3, <2>6, <2>7, <2>9, <2>10, ApiSideIInv
<1>6. QED  BY <1>4, <1>5

-----------------------------------------------------------------------------
\* IInv holds initially and every step preserves it.
THEOREM Inductive == Spec => []IInv
<1>1. Init => IInv
  BY InitIInv
<1>2. IInv /\ [Next]_vars => IInv'
  <2> SUFFICES ASSUME IInv, [Next]_vars PROVE IInv'
    OBVIOUS
  <2>1. CASE AgentStep
    <3>1. CASE DrainQueue
      BY <3>1, DrainQueueIInv
    <3>2. CASE \E r \in Requests : SubmitPending(r)
      BY <3>2, SubmitPendingIInv
    <3>3. CASE RequeueFailed
      BY <3>3, RequeueFailedIInv
    <3>4. CASE CollectNothing
      BY <3>4, CollectNothingIInv
    <3>5. CASE \E r \in Requests : SubmitCollected(r)
      BY <3>5, SubmitCollectedIInv
    <3>6. CASE ReceiveAnswer
      BY <3>6, ReceiveAnswerIInv
    <3>7. CASE EnqueueFresh
      BY <3>7, EnqueueFreshIInv
    <3>8. QED  BY <2>1, <3>1, <3>2, <3>3, <3>4, <3>5, <3>6, <3>7 DEF AgentStep
  <2>2. CASE GiveUp
    BY <2>2, GiveUpIInv
  <2>3. CASE QueueWriteFails \/ Kill
    BY <2>3, ForgetIInv DEF QueueWriteFails, Kill
  <2>8. CASE QueueReadFails
    BY <2>8, QueueReadFailsIInv
  <2>4. ASSUME NEW r \in Requests, ApiStep(r) PROVE IInv'
    BY <2>4, RefuseIInv, OpenSubmissionIInv, DeduplicateIInv, ProcessDeviceIInv,
       CommitIInv DEF ApiStep
  <2>5. ASSUME NEW r \in Requests, Orphaned(r) \/ Abort(r) PROVE IInv'
    BY <2>5, OrphanedIInv, AbortIInv
  <2>6. CASE UNCHANGED vars
    <3>1. RequestInv' /\ RecordedOnce'
      BY <2>6, RequestInvStable DEF vars, dbVars
    <3>2. TypeOK' /\ AwaitsItsBatch' /\ ListsInUse'
      BY <2>6 DEF vars, IInv, TypeOK, AwaitsItsBatch, ListsInUse
    <3>3. NothingLost'
      BY <2>6 DEF vars, IInv, NothingLost, Backlog, FullyRecorded
    <3>4. QED  BY <3>1, <3>2, <3>3 DEF IInv, RequestInv
  <2>7. QED  BY <2>1, <2>2, <2>3, <2>4, <2>5, <2>6, <2>8 DEF Next
<1>3. QED  BY <1>1, <1>2, PTL DEF Spec

\* The variables always have their types (TypeOK of the runs).
THEOREM TypeCorrect == Spec => []TypeOK
<1>1. IInv => TypeOK
  BY DEF IInv
<1>2. QED  BY <1>1, Inductive, PTL

\* A batch with a collectionId is recorded all or nothing and at most once.
THEOREM AtMostOnce == Spec => []RecordedOnce
<1>1. IInv => RecordedOnce
  BY DEF IInv
<1>2. QED  BY <1>1, Inductive, PTL

\* Without a fault, a collected batch is recorded, known to the Agent, or was
\* pushed out of a full queue.
THEOREM NoBatchForgotten == Spec => []NothingLost
<1>1. IInv => NothingLost
  BY DEF IInv
<1>2. QED  BY <1>1, Inductive, PTL

-----------------------------------------------------------------------------
(* The order of the backlog.  Only the lists of the step the loop is in    *)
(* are in use (ListsInUse): between flushes the queue and the fresh batch, *)
(* during one the two halves of what was drained, the queue being empty.   *)
(* What is in a list was collected before the next batch will be.          *)

InOrder ==
    /\ InCollectionOrder(stillPending) /\ InCollectionOrder(pending) /\ InCollectionOrder(queue)
    /\ Before(stillPending, pending)
    /\ pc = "flush" => queue = <<>>
    /\ fresh # 0 => \A i \in DOMAIN queue : queue[i] < fresh
    /\ \A i \in DOMAIN queue : queue[i] < next
    /\ \A i \in DOMAIN pending : pending[i] < next
    /\ \A i \in DOMAIN stillPending : stillPending[i] < next
    /\ fresh < next
    /\ QueueBounded

\* What the types give, for the lemmas on lists.
LEMMA ListTypes ==
    TypeOK => /\ stillPending \in Seq(Batch) /\ pending \in Seq(Batch) /\ queue \in Seq(Batch)
              /\ Batch \subseteq Int /\ next \in Int /\ fresh \in Int /\ MaxEntries \in Nat
  BY PipelineAssumption DEF TypeOK, Batch

LEMMA InitInOrder == Init => InOrder
  BY PipelineAssumption DEF Init, InOrder, InCollectionOrder, Before, QueueBounded

LEMMA SameListsInOrder ==
    ASSUME InOrder, UNCHANGED <<stillPending, pending, queue, fresh, next>>,
           pc' = "flush" => pc = "flush"
    PROVE  InOrder'
  BY DEF InOrder, InCollectionOrder, Before, QueueBounded

\* The answer to a submission moves the head of the drained list, if failed,
\* to the end of the failed ones.
LEMMA ReturnsInOrder ==
    ASSUME IInv, InOrder, awaiting # NoRequest, NEW ok \in BOOLEAN, Returns(ok)
    PROVE  InOrder'
<1> USE ListTypes DEF IInv
<1>1. CASE pc = "fresh"
  <2>1. UNCHANGED <<stillPending, pending, queue, next>> /\ fresh' \in {0, fresh} /\ pc' # "flush"
    BY <1>1 DEF Returns
  <2>2. fresh' < next'
    BY <2>1, PipelineAssumption DEF InOrder, TypeOK
  <2>3. QED  BY <2>1, <2>2 DEF InOrder, InCollectionOrder, Before, QueueBounded
<1>2. CASE pc = "flush"
  <2>1. pending # <<>> /\ UNCHANGED <<queue, next, fresh, pc>>
    BY <1>2 DEF Returns, AwaitsItsBatch
  <2>2. /\ Head(pending) \in Batch /\ Tail(pending) \in Seq(Batch)
        /\ Head(pending) = pending[1] /\ 1 \in DOMAIN pending
        /\ Len(Tail(pending)) = Len(pending) - 1
    BY <2>1
  <2>3. /\ InCollectionOrder(Tail(pending)) /\ Before(<<Head(pending)>>, Tail(pending))
        /\ \A i \in DOMAIN Tail(pending) : i + 1 \in DOMAIN pending /\ Tail(pending)[i] = pending[i + 1]
    BY <2>1, TailInOrder DEF InOrder
  <2>4. Before(stillPending, Tail(pending))
    BY <2>3 DEF InOrder, Before
  <2>5. pending' = Tail(pending)
    BY <1>2 DEF Returns
  <2>6. \A i \in DOMAIN pending' : pending'[i] < next'
    BY <2>1, <2>3, <2>5 DEF InOrder
  <2>7. CASE ok
    <3>1. stillPending' = stillPending
      BY <1>2, <2>7 DEF Returns
    <3>2. QueueBounded'
      BY <2>1, <2>2, <2>5, <3>1 DEF InOrder, QueueBounded
    <3>3. QED  BY <2>1, <2>3, <2>4, <2>5, <2>6, <3>1, <3>2 DEF InOrder
  <2>8. CASE ~ok
    <3>1. stillPending' = Append(stillPending, Head(pending))
      BY <1>2, <2>8 DEF Returns
    <3>2. \A i \in DOMAIN stillPending : stillPending[i] < Head(pending)
      BY <2>2 DEF InOrder, Before
    <3>3. InCollectionOrder(stillPending')
      BY <2>2, <3>1, <3>2, AppendInOrder DEF InOrder
    <3>4. \A i \in DOMAIN stillPending' :
              stillPending'[i] = Head(pending) \/ (i \in DOMAIN stillPending /\ stillPending'[i] = stillPending[i])
      BY <2>2, <3>1
    <3>5. Before(stillPending', pending')
      <4>1. \A j \in DOMAIN Tail(pending) : Head(pending) < Tail(pending)[j]
        <5>1. \A j \in DOMAIN Tail(pending) : 1 < j + 1
          BY <2>2
        <5>2. \A i, j \in DOMAIN pending : i < j => pending[i] < pending[j]
          BY DEF InOrder, InCollectionOrder
        <5>3. \A j \in DOMAIN Tail(pending) : pending[1] < pending[j + 1]
          BY <2>2, <2>3, <5>1, <5>2
        <5>4. QED  BY <2>2, <2>3, <5>3
      <4>2. \A i \in DOMAIN stillPending, j \in DOMAIN Tail(pending) :
                stillPending[i] < Tail(pending)[j]
        BY <2>4 DEF Before
      <4>3. QED  BY <2>5, <3>4, <4>1, <4>2 DEF Before
    <3>6. \A i \in DOMAIN stillPending' : stillPending'[i] < next'
      BY <2>1, <2>2, <3>4 DEF InOrder
    <3>7. QueueBounded'
      BY <2>1, <2>2, <2>5, <3>1 DEF InOrder, QueueBounded
    <3>8. QED  BY <2>1, <2>3, <2>5, <2>6, <3>3, <3>5, <3>6, <3>7 DEF InOrder
  <2>9. QED  BY <2>7, <2>8
<1>3. QED  BY <1>1, <1>2 DEF Returns

LEMMA EnqueueFreshInOrder ==
    ASSUME IInv, InOrder, EnqueueFresh PROVE InOrder'
<1> USE ListTypes DEF IInv
<1> DEFINE s == Append(queue, fresh)
<1>1. fresh \in Batch /\ fresh # 0
  BY DEF EnqueueFresh, ListsInUse, TypeOK
<1>2. s \in Seq(Batch) /\ InCollectionOrder(s)
  BY <1>1, AppendInOrder DEF InOrder
<1>3. \A i \in DOMAIN s : s[i] < next
  <2>1. \A i \in DOMAIN s : s[i] = fresh \/ (i \in DOMAIN queue /\ s[i] = queue[i])
    BY <1>1
  <2>2. QED  BY <2>1 DEF InOrder
<1>4. queue' = KeepNewest(s, MaxEntries)
  BY DEF EnqueueFresh
<1> HIDE DEF s
<1>5. /\ InCollectionOrder(queue') /\ queue' \in Seq(Batch) /\ Len(queue') <= MaxEntries
      /\ BatchesIn(queue') \subseteq BatchesIn(s)
  BY <1>2, <1>4, KeepNewestInOrder, KeepNewestIsSuffix
<1>6. \A i \in DOMAIN queue' : queue'[i] < next
  BY <1>3, <1>5 DEF BatchesIn
<1>7. UNCHANGED <<stillPending, pending, next>> /\ fresh' = 0 /\ pc' = "idle"
  BY DEF EnqueueFresh
<1>8. 0 < next
  BY PipelineAssumption DEF TypeOK
<1>9. QED  BY <1>5, <1>6, <1>7, <1>8 DEF InOrder, QueueBounded

\* A queue that could not be read starts again with at most one batch.
LEMMA QueueReadFailsInOrder ==
    ASSUME IInv, InOrder, QueueReadFails PROVE InOrder'
<1> USE ListTypes DEF IInv
<1>1. stillPending = <<>> /\ pending = <<>> /\ stillPending' = <<>> /\ pending' = <<>> /\ next' = next
  BY DEF QueueReadFails, ListsInUse
<1>2. /\ pc' \in {"idle", "collect"} /\ fresh' = 0
      /\ queue' = <<>> \/ (queue' = <<fresh>> /\ fresh \in Batch /\ fresh < next)
  BY DEF QueueReadFails, ListsInUse, TypeOK, InOrder
<1>3. /\ InCollectionOrder(queue') /\ Len(queue') <= MaxEntries
      /\ \A i \in DOMAIN queue' : queue'[i] < next
  <2>1. CASE queue' = <<>>
    BY <2>1, PipelineAssumption DEF InCollectionOrder
  <2>2. CASE queue' = <<fresh>> /\ fresh < next
    <3>1. DOMAIN queue' = {1} /\ queue'[1] = fresh /\ Len(queue') = 1
      BY <2>2
    <3>2. QED  BY <2>2, <3>1, PipelineAssumption DEF InCollectionOrder
  <2>3. QED  BY <1>2, <2>1, <2>2
<1>4. InCollectionOrder(<<>>) /\ \A t : Before(<<>>, t) /\ Before(t, <<>>)
  BY DEF InCollectionOrder, Before
<1>5. 0 < next
  BY PipelineAssumption DEF TypeOK
<1>6. QED  BY <1>1, <1>2, <1>3, <1>4, <1>5, PipelineAssumption DEF InOrder, QueueBounded

\* Draining, requeueing and forgetting move whole lists.
LEMMA WholeListsInOrder ==
    ASSUME IInv, InOrder, DrainQueue \/ RequeueFailed \/ Forget PROVE InOrder'
<1> USE ListTypes DEF IInv
<1>1. InCollectionOrder(<<>>) /\ \A t : Before(<<>>, t) /\ Before(t, <<>>)
  BY DEF InCollectionOrder, Before
<1>2. CASE DrainQueue
  <2>1. stillPending = <<>> /\ pending = <<>> /\ fresh = 0
    BY <1>2 DEF DrainQueue, ListsInUse
  <2>2. QED  BY <1>1, <1>2, <2>1 DEF DrainQueue, InOrder, QueueBounded
<1>3. CASE RequeueFailed
  <2>1. queue = <<>> /\ pending = <<>> /\ fresh = 0
    BY <1>3 DEF RequeueFailed, InOrder, ListsInUse
  <2>2. queue' = stillPending /\ stillPending' = <<>>
    BY <1>3, <2>1 DEF RequeueFailed
  <2>3. QED  BY <1>1, <1>3, <2>1, <2>2 DEF RequeueFailed, InOrder, QueueBounded
<1>4. CASE Forget
  <2>1. 0 < next
    BY PipelineAssumption DEF TypeOK
  <2>2. QED  BY <1>1, <1>4, <2>1, PipelineAssumption DEF Forget, InOrder, QueueBounded
<1>5. QED  BY <1>2, <1>3, <1>4

LEMMA NextInOrder == IInv /\ InOrder /\ [Next]_vars => InOrder'
<1> SUFFICES ASSUME IInv, InOrder, [Next]_vars PROVE InOrder'
  OBVIOUS
<1>1. CASE DrainQueue \/ RequeueFailed \/ QueueWriteFails \/ Kill
  BY <1>1, WholeListsInOrder DEF QueueWriteFails, Kill
<1>9. CASE QueueReadFails
  BY <1>9, QueueReadFailsInOrder
<1>2. CASE EnqueueFresh
  BY <1>2, EnqueueFreshInOrder
<1>3. CASE ReceiveAnswer \/ GiveUp
  BY <1>3, ReturnsInOrder DEF ReceiveAnswer, GiveUp
<1>4. ASSUME NEW r \in Requests, SubmitCollected(r) PROVE InOrder'
  <2>1. /\ UNCHANGED <<stillPending, pending, queue>> /\ fresh' = next /\ next' = next + 1
        /\ pc' = "fresh" /\ next \in Int
    BY <1>4, ListTypes DEF SubmitCollected, IInv
  <2>2. /\ \A i \in DOMAIN queue : queue[i] \in Int
        /\ \A i \in DOMAIN pending : pending[i] \in Int
        /\ \A i \in DOMAIN stillPending : stillPending[i] \in Int
    BY ListTypes DEF IInv
  <2>3. QED  BY <2>1, <2>2 DEF InOrder, InCollectionOrder, Before, QueueBounded
<1>5. ASSUME NEW r \in Requests, SubmitPending(r) PROVE InOrder'
  BY <1>5, SameListsInOrder DEF SubmitPending
<1>6. CASE CollectNothing \/ UNCHANGED vars
  BY <1>6, SameListsInOrder DEF CollectNothing, vars
<1>7. ASSUME NEW r \in Requests, ApiStep(r) \/ Orphaned(r) \/ Abort(r) PROVE InOrder'
  <2>1. UNCHANGED <<agentVars, next>>
    BY <1>7 DEF ApiStep, Refuse, OpenSubmission, Deduplicate, ProcessDevice, Commit, Orphaned,
                LoseOrphan, LoseAnswer, Abort
  <2>2. QED  BY <2>1, SameListsInOrder DEF agentVars
<1>8. QED  BY <1>1, <1>2, <1>3, <1>4, <1>5, <1>6, <1>7, <1>9 DEF Next, AgentStep

\* The queue never outgrows its bound, and its oldest entry is the batch
\* collected first: what overflow drops.
THEOREM NeverShuffled == Spec => []QueueInOrder
<1>1. IInv /\ InOrder => QueueInOrder
  <2> SUFFICES ASSUME IInv, InOrder PROVE InCollectionOrder(Backlog)
    BY DEF InOrder, QueueInOrder, OldestFirst
  <2> USE ListTypes DEF IInv
  <2>1. CASE pc = "flush"
    <3>1. queue = <<>> /\ fresh = 0
      BY <2>1 DEF InOrder, ListsInUse
    <3>2. Backlog = stillPending \o pending
      BY <3>1 DEF Backlog
    <3>3. QED  BY <3>2, ConcatInOrder DEF InOrder
  <2>2. CASE pc # "flush" /\ fresh = 0
    <3>1. Backlog = queue
      BY <2>2 DEF Backlog, ListsInUse
    <3>2. QED  BY <3>1 DEF InOrder
  <2>3. CASE pc # "flush" /\ fresh # 0
    <3>1. fresh \in Batch
      BY <2>3 DEF TypeOK
    <3>2. Backlog = Append(queue, fresh)
      BY <2>3, <3>1 DEF Backlog, ListsInUse
    <3>3. QED  BY <2>3, <3>1, <3>2, AppendInOrder DEF InOrder
  <2>4. QED  BY <2>1, <2>2, <2>3
<1>2. Spec => []InOrder
  BY InitInOrder, NextInOrder, Inductive, PTL DEF Spec
<1>3. QED  BY <1>1, <1>2, Inductive, PTL
-----------------------------------------------------------------------------
(* The loop is a well-behaved caller of the queue: what it does with the    *)
(* list is what DurableQueue says a caller does.                            *)

\* What the loop holds of the batches it has drained.
Hand == stillPending \o pending

\* A batch moved from the drained list to the failed ones stays in the hand.
LEMMA FailedStaysInHand ==
    ASSUME NEW S, NEW s \in Seq(S), NEW t \in Seq(S), t # <<>>
    PROVE  Append(s, Head(t)) \o Tail(t) = s \o t
  OBVIOUS

\* A batch struck off is taken out of the hand.
LEMMA SettledLeavesHand ==
    ASSUME NEW S, NEW s \in Seq(S), NEW t \in Seq(S), t # <<>>
    PROVE  /\ Len(s) + 1 \in DOMAIN (s \o t)
           /\ Without(s \o t, Len(s) + 1) = s \o Tail(t)
<1> DEFINE u == s \o t
           front == SubSeq(u, 1, (Len(s) + 1) - 1)
           back == SubSeq(u, (Len(s) + 1) + 1, Len(u))
<1>1. u \in Seq(S) /\ Len(u) = Len(s) + Len(t) /\ Len(t) \in Nat \ {0} /\ Len(s) \in Nat
  OBVIOUS
<1>2. front = s
  OBVIOUS
<1>3. back = Tail(t)
  OBVIOUS
<1>4. Without(u, Len(s) + 1) = front \o back
  BY DEF Without
<1>5. Len(s) + 1 \in DOMAIN u
  BY <1>1
<1> HIDE DEF front, back
<1>6. Without(u, Len(s) + 1) = s \o Tail(t)
  BY <1>2, <1>3, <1>4
<1>7. QED  BY <1>5, <1>6

LEMMA ReturnsIsAbstract ==
    ASSUME IInv, awaiting # NoRequest, NEW ok \in BOOLEAN, Returns(ok)
    PROVE  [AsQueue!Next]_(AsQueue!vars)
<1> USE ListTypes DEF IInv
<1>1. queue' = queue /\ unread' = unread
  BY DEF Returns
<1>2. CASE pc = "fresh"
  <2>1. UNCHANGED <<stillPending, pending>>
    BY <1>2 DEF Returns
  <2>2. QED  BY <1>1, <2>1 DEF AsQueue!vars
<1>3. CASE pc = "flush" /\ ok
  <2>1. pending # <<>> /\ pending' = Tail(pending) /\ stillPending' = stillPending
    BY <1>3 DEF Returns, AwaitsItsBatch
  <2>2. /\ Len(stillPending) + 1 \in DOMAIN Hand
        /\ Without(Hand, Len(stillPending) + 1) = stillPending \o Tail(pending)
    BY <2>1, SettledLeavesHand DEF Hand
  <2>3. AsQueue!Without(Hand, Len(stillPending) + 1) = stillPending' \o pending'
    BY <2>1, <2>2 DEF Without, AsQueue!Without
  <2>4. AsQueue!Settle("agent")
    BY <1>1, <2>2, <2>3 DEF AsQueue!Settle, Hand
  <2>5. QED  BY <2>4 DEF AsQueue!Next
<1>4. CASE pc = "flush" /\ ~ok
  <2>1. /\ pending # <<>> /\ pending' = Tail(pending)
        /\ stillPending' = Append(stillPending, Head(pending))
    BY <1>4 DEF Returns, AwaitsItsBatch
  <2>2. stillPending' \o pending' = stillPending \o pending
    BY <2>1, FailedStaysInHand
  <2>3. QED  BY <1>1, <2>2 DEF AsQueue!vars
<1>5. QED  BY <1>2, <1>3, <1>4 DEF Returns

LEMMA LoopUsesQueue == IInv /\ [Next]_vars => [AsQueue!Next]_(AsQueue!vars)
<1> SUFFICES ASSUME IInv, [Next]_vars PROVE [AsQueue!Next]_(AsQueue!vars)
  OBVIOUS
<1> USE ListTypes DEF IInv
<1>1. ASSUME UNCHANGED <<stillPending, pending, queue, unread>> PROVE UNCHANGED AsQueue!vars
  BY <1>1 DEF AsQueue!vars
<1>2. CASE DrainQueue
  <2>1. /\ stillPending = <<>> /\ pending = <<>> /\ stillPending' = <<>>
        /\ pending' = queue /\ queue' = <<>> /\ unread' = unread
    BY <1>2 DEF DrainQueue, ListsInUse
  <2>2. stillPending \o pending = <<>> /\ stillPending' \o pending' = queue
    BY <2>1
  <2>3. AsQueue!Read(queue) /\ AsQueue!Drain("agent", queue)
    BY <2>1, <2>2 DEF AsQueue!Read, AsQueue!Drain
  <2>4. QED  BY <2>3 DEF AsQueue!Next
<1>3. CASE RequeueFailed
  <2>1. /\ pending = <<>> /\ pending' = <<>> /\ stillPending' = <<>>
        /\ queue' = stillPending \o queue /\ unread' = unread
    BY <1>3 DEF RequeueFailed
  <2>2. stillPending \o pending = stillPending /\ stillPending' \o pending' = <<>>
    BY <2>1
  <2>3. AsQueue!Read(queue) /\ AsQueue!Requeue("agent", queue)
    BY <2>1, <2>2 DEF AsQueue!Read, AsQueue!Requeue
  <2>4. QED  BY <2>3 DEF AsQueue!Next
<1>4. CASE EnqueueFresh
  <2>1. fresh \in Batch
    BY <1>4 DEF EnqueueFresh, ListsInUse, TypeOK
  <2>2. /\ queue' = AsQueue!KeepNewest(Append(queue, fresh), MaxEntries)
        /\ UNCHANGED <<stillPending, pending, unread>>
    BY <1>4 DEF EnqueueFresh, KeepNewest, AsQueue!KeepNewest
  <2>3. AsQueue!Read(queue) /\ AsQueue!Enqueue(fresh, queue)
    BY <2>2 DEF AsQueue!Read, AsQueue!Enqueue
  <2>4. QED  BY <2>1, <2>3 DEF AsQueue!Next
<1>5. CASE QueueWriteFails \/ Kill
  <2>1. stillPending' \o pending' = <<>> /\ queue' = queue /\ unread' = unread
    BY <1>5 DEF QueueWriteFails, Kill, Forget
  <2>2. AsQueue!Crash
    BY <2>1 DEF AsQueue!Crash
  <2>3. QED  BY <2>2 DEF AsQueue!Next
<1>11. CASE QueueReadFails
  <2>1. /\ stillPending = <<>> /\ pending = <<>> /\ stillPending' = <<>> /\ pending' = <<>>
        /\ unread' = unread + 1
    BY <1>11 DEF QueueReadFails, ListsInUse
  <2>2. stillPending \o pending = <<>> /\ stillPending' \o pending' = <<>>
    BY <2>1
  <2>3. AsQueue!Read(<<>>)
    BY <2>1 DEF AsQueue!Read
  <2>4. CASE pc = "idle"
    <3>1. queue' = <<>>
      BY <1>11, <2>4 DEF QueueReadFails
    <3>2. AsQueue!Drain("agent", <<>>)
      BY <2>2, <3>1 DEF AsQueue!Drain
    <3>3. QED  BY <2>3, <3>2 DEF AsQueue!Next
  <2>5. CASE pc = "enqueue"
    <3>1. fresh \in Batch /\ queue' = <<fresh>>
      BY <1>11, <2>5 DEF QueueReadFails, ListsInUse, TypeOK
    <3>2. AsQueue!KeepNewest(Append(<<>>, fresh), MaxEntries) = <<fresh>>
      BY <3>1, PipelineAssumption DEF AsQueue!KeepNewest
    <3>3. AsQueue!Enqueue(fresh, <<>>)
      BY <2>2, <3>1, <3>2 DEF AsQueue!Enqueue
    <3>4. QED  BY <2>3, <3>1, <3>3 DEF AsQueue!Next
  <2>6. QED  BY <1>11, <2>4, <2>5 DEF QueueReadFails
<1>6. CASE ReceiveAnswer \/ GiveUp
  BY <1>6, ReturnsIsAbstract DEF ReceiveAnswer, GiveUp
<1>7. CASE CollectNothing \/ UNCHANGED vars
  BY <1>1, <1>7 DEF CollectNothing, vars
<1>8. ASSUME NEW r \in Requests, SubmitPending(r) \/ SubmitCollected(r)
      PROVE  UNCHANGED AsQueue!vars
  BY <1>1, <1>8 DEF SubmitPending, SubmitCollected
<1>9. ASSUME NEW r \in Requests, ApiStep(r) \/ Orphaned(r) \/ Abort(r)
      PROVE  UNCHANGED AsQueue!vars
  <2>1. UNCHANGED agentVars /\ unread' = unread
    BY <1>9 DEF ApiStep, Refuse, OpenSubmission, Deduplicate, ProcessDevice, Commit, Orphaned,
                LoseOrphan, LoseAnswer, Abort
  <2>2. QED  BY <1>1, <2>1 DEF agentVars
<1>10. QED
  BY <1>2, <1>3, <1>4, <1>5, <1>6, <1>7, <1>8, <1>9, <1>11 DEF Next, AgentStep

\* The Agent's loop keeps the queue's contract: it drains with empty hands,
\* settles or requeues every batch it drained, and only a fault empties its
\* hands otherwise (FlushOfflineQueueAsync); what a failed read costs is the
\* list that was there, no more.
THEOREM LoopKeepsContract == Spec => UsesDurableQueue
<1>1. Init => AsQueue!Init
  <2>1. SUFFICES ASSUME Init PROVE AsQueue!Init
    OBVIOUS
  <2>2. stillPending \o pending = <<>> /\ queue = <<>>
    BY <2>1 DEF Init
  <2>3. QED  BY <2>1, <2>2 DEF Init, AsQueue!Init
<1>2. QED
  BY <1>1, LoopUsesQueue, Inductive, PTL DEF Spec, UsesDurableQueue, AsQueue!Spec

-----------------------------------------------------------------------------
(* The pipeline delivers: seen from the database, a guarded batch goes      *)
(* through Delivery's states.                                               *)

\* Only batches that have been collected travel, and only those are recorded.
OnlyCollected ==
    /\ \A r \in Requests : req[r].phase # "free" => req[r].batch < next
    /\ \A b \in submissions : b < next

LEMMA InitOnlyCollected == Init => OnlyCollected
  BY DEF Init, OnlyCollected, FreeRequest

LEMMA NextOnlyCollected ==
    ASSUME IInv, InOrder, OnlyCollected, [Next]_vars
    PROVE  OnlyCollected'
<1> USE ListTypes DEF IInv
<1>1. ASSUME NEW r \in Requests, NEW b \in Int, b < next', Send(r, b), UNCHANGED dbVars,
             next' \in {next, next + 1}
      PROVE  OnlyCollected'
  <2>1. \A q \in Requests : req'[q] = IF q = r THEN [batch |-> b, phase |-> "sent", done |-> 0] ELSE req[q]
    BY <1>1 DEF Send, TypeOK
  <2>2. \A q \in Requests : req[q].batch \in Int
    BY DEF TypeOK, Request, Batch
  <2>3. \A c \in submissions : c \in Int
    BY DEF TypeOK, Batch
  <2>4. \A x \in Int : x < next => x < next'
    <3>1. next \in Int /\ (next' = next \/ next' = next + 1)
      BY <1>1
    <3>2. QED  BY <3>1
  <2>5. \A q \in Requests : req'[q].phase # "free" => req'[q].batch < next'
    <3>1. req'[r].batch < next'
      BY <1>1, <2>1
    <3>2. \A q \in Requests : q # r /\ req[q].phase # "free" => req[q].batch < next'
      BY <2>2, <2>4 DEF OnlyCollected
    <3>3. QED  BY <2>1, <3>1, <3>2
  <2>6. \A c \in submissions' : c < next'
    BY <1>1, <2>3, <2>4 DEF OnlyCollected, dbVars
  <2>7. QED  BY <2>5, <2>6 DEF OnlyCollected
<1>2. ASSUME NEW r \in Requests, SubmitPending(r) PROVE OnlyCollected'
  <2>1. pending # <<>> /\ Head(pending) = pending[1] /\ 1 \in DOMAIN pending
    BY <1>2 DEF SubmitPending
  <2>2. Head(pending) < next /\ Head(pending) \in Int
    BY <2>1 DEF InOrder
  <2>3. QED  BY <1>1, <1>2, <2>2 DEF SubmitPending
<1>3. ASSUME NEW r \in Requests, SubmitCollected(r) PROVE OnlyCollected'
  <2>1. next < next + 1
    OBVIOUS
  <2>2. QED  BY <1>1, <1>3, <2>1 DEF SubmitCollected
<1>4. ASSUME next' = next, submissions' = submissions,
             \A r \in Requests : req'[r].phase # "free" =>
                 req[r].phase # "free" /\ req'[r].batch = req[r].batch
      PROVE  OnlyCollected'
  BY <1>4 DEF OnlyCollected
<1>5. ASSUME next' = next, submissions' = submissions, req' = req PROVE OnlyCollected'
  BY <1>4, <1>5
<1>6. CASE DrainQueue \/ RequeueFailed \/ CollectNothing \/ GiveUp \/ EnqueueFresh
             \/ QueueWriteFails \/ QueueReadFails \/ Kill \/ UNCHANGED vars
  BY <1>5, <1>6 DEF DrainQueue, RequeueFailed, CollectNothing, GiveUp, Returns, EnqueueFresh,
                    QueueWriteFails, QueueReadFails, Kill, Forget, dbVars, vars
<1>7. ASSUME NEW r \in Requests, next' = next, submissions' = submissions,
             req' = [req EXCEPT ![r] = FreeRequest]
      PROVE  OnlyCollected'
  BY <1>4, <1>7 DEF FreeRequest, TypeOK
<1>8. CASE ReceiveAnswer
  <2>1. awaiting \in Requests
    BY <1>8 DEF ReceiveAnswer, TypeOK
  <2>2. QED  BY <1>7, <1>8, <2>1 DEF ReceiveAnswer, Returns, dbVars
<1>9. ASSUME NEW r \in Requests, Orphaned(r) PROVE OnlyCollected'
  BY <1>7, <1>9 DEF Orphaned, LoseOrphan, LoseAnswer, dbVars
<1>10. ASSUME NEW r \in Requests, NEW from \in {"sent", "open"}, NEW to, Advance(r, from, to), next' = next
       PROVE  \A q \in Requests : req'[q].phase # "free" =>
                  req[q].phase # "free" /\ req'[q].batch = req[q].batch
  BY <1>10 DEF Advance, TypeOK, Request
<1>11. ASSUME NEW r \in Requests, Refuse(r) \/ OpenSubmission(r) \/ Deduplicate(r) \/ Abort(r)
       PROVE  OnlyCollected'
  BY <1>4, <1>10, <1>11 DEF Refuse, OpenSubmission, Deduplicate, Abort, dbVars
<1>12. ASSUME NEW r \in Requests, ProcessDevice(r) PROVE OnlyCollected'
  <2>1. req' = [req EXCEPT ![r].done = req[r].done + 1] /\ next' = next /\ submissions' = submissions
    BY <1>12 DEF ProcessDevice
  <2>2. \A q \in Requests : req'[q].phase = req[q].phase /\ req'[q].batch = req[q].batch
    BY <2>1 DEF TypeOK, Request
  <2>3. QED  BY <1>4, <2>1, <2>2
<1>13. ASSUME NEW r \in Requests, Commit(r) PROVE OnlyCollected'
  <2>1. Advance(r, "open", "accepted") /\ next' = next
    BY <1>13 DEF Commit
  <2>2. submissions' \subseteq submissions \cup {req[r].batch} /\ req[r].batch < next
    BY <1>13, <2>1 DEF Commit, Advance, OnlyCollected, dbVars
  <2>3. QED  BY <1>10, <2>1, <2>2 DEF OnlyCollected
<1>14. QED
  BY <1>2, <1>3, <1>6, <1>8, <1>9, <1>11, <1>12, <1>13 DEF Next, AgentStep, ApiStep

\* Besides IInv: the batches the Agent has in hand are in collection order,
\* and there is no trace of a batch that was not collected.
THEOREM CollectedInvariance == Spec => [](IInv /\ InOrder /\ OnlyCollected)
<1>1. Spec => []InOrder
  BY InitInOrder, NextInOrder, Inductive, PTL DEF Spec
<1>2. IInv /\ InOrder /\ OnlyCollected /\ [Next]_vars => OnlyCollected'
  BY NextOnlyCollected
<1>3. QED  BY <1>1, <1>2, InitOnlyCollected, Inductive, PTL DEF Spec

\* A batch somebody may still deliver.
Alive(b) == b \in Known \/ InFlight(b)
Progress(b) ==
    IF b >= next THEN "uncollected"
    ELSE IF b \in submissions THEN "recorded"
    ELSE IF Alive(b) THEN "underway" ELSE "dropped"

LEMMA StatusIsProgress == IInv => \A b \in Guarded : StatusOf(b) = Progress(b)
<1> SUFFICES ASSUME IInv, NEW b \in Guarded PROVE StatusOf(b) = Progress(b)
  OBVIOUS
<1>1. BatchesIn(Backlog) = Known
  BY BacklogIsKnown DEF IInv
<1>2. 1 \in Device
  BY PipelineAssumption DEF Device
<1>3. \A d \in Device : recorded[b][d] = IF b \in submissions THEN 1 ELSE 0
  BY DEF IInv, RecordedOnce
<1>4. QED  BY <1>1, <1>2, <1>3 DEF StatusOf, Progress, Alive

LEMMA StatusIsProgressNext == IInv' => \A b \in Guarded : StatusOf(b)' = Progress(b)'
<1> SUFFICES ASSUME IInv', NEW b \in Guarded PROVE StatusOf(b)' = Progress(b)'
  OBVIOUS
<1>1. BatchesIn(Backlog)' = Known'
  BY BacklogIsKnownNext DEF IInv
<1>2. 1 \in Device
  BY PipelineAssumption DEF Device
<1>3. \A d \in Device : recorded'[b][d] = IF b \in submissions' THEN 1 ELSE 0
  BY DEF IInv, RecordedOnce
<1>4. QED  BY <1>1, <1>2, <1>3 DEF StatusOf, Progress, Alive

\* A step that brings no batch back to life delivers nothing and may drop some.
LEMMA OnlyDrops ==
    ASSUME IInv, IInv', next' = next, submissions' = submissions,
           \A b \in Guarded : Alive(b)' => Alive(b)
    PROVE  AsDelivery!Next
<1> DEFINE lost == {b \in Guarded : Progress(b) = "underway" /\ ~ Alive(b)'}
<1>1. \A b \in Guarded : /\ StatusOf(b) = Progress(b)
                         /\ StatusOf(b)' = IF b \in lost THEN "dropped" ELSE StatusOf(b)
  BY StatusIsProgress, StatusIsProgressNext DEF Progress
<1>2. AsDelivery!Drop(lost)
  BY <1>1 DEF AsDelivery!Drop
<1>3. QED  BY <1>2 DEF AsDelivery!Next

\* The next batch is collected.
LEMMA CollectDelivers ==
    ASSUME IInv, IInv', OnlyCollected, NEW r \in Requests, SubmitCollected(r)
    PROVE  AsDelivery!Next \/ UNCHANGED [b \in Guarded |-> StatusOf(b)]
<1> USE ListTypes DEF IInv
<1>1. /\ next' = next + 1 /\ submissions' = submissions /\ fresh' = next /\ fresh = 0
      /\ UNCHANGED <<stillPending, pending, queue>> /\ next \in Batch
  <2>1. fresh = 0
    BY DEF SubmitCollected, ListsInUse
  <2>2. next \in Batch
    BY PipelineAssumption DEF SubmitCollected, TypeOK, Batch
  <2>3. QED  BY <2>1, <2>2 DEF SubmitCollected, dbVars
<1>2. \A b : b # next => (b \in Known' <=> b \in Known)
  BY <1>1 DEF Known, BatchesIn
<1>3. next \in Known'
  BY <1>1 DEF Known, Batch
<1>4. \A q \in Requests :
         req'[q] = IF q = r THEN [batch |-> next, phase |-> "sent", done |-> 0] ELSE req[q]
  BY DEF SubmitCollected, Send, TypeOK
<1>5. req[r].phase = "free"
  BY DEF SubmitCollected, Send
<1>6. \A b : b # next => (InFlight(b)' <=> InFlight(b))
  <2>1. \A b, q : b # next /\ q \in Requests =>
            ((req'[q].batch = b /\ req'[q].phase \in {"sent", "open"})
               <=> (req[q].batch = b /\ req[q].phase \in {"sent", "open"}))
    BY <1>4, <1>5
  <2>2. QED  BY <2>1 DEF InFlight
<1>7. \A b \in Guarded : b # next => StatusOf(b)' = StatusOf(b)
  <2>1. \A b \in Guarded : b \in Int
    BY DEF Guarded, Batch
  <2>2. \A b \in Guarded : b # next => Progress(b)' = Progress(b)
    BY <1>1, <1>2, <1>6, <2>1 DEF Progress, Alive
  <2>3. QED  BY <2>2, StatusIsProgress, StatusIsProgressNext
<1>8. CASE next \in Guarded
  <2>1. next \notin submissions
    BY DEF OnlyCollected
  <2>2. Progress(next) = "uncollected"
    BY DEF Progress
  <2>3. ~ (next >= next') /\ next \notin submissions'
    BY <1>1, <2>1
  <2>4. \A n : n = next => Progress(n)' = "underway"
    BY <1>3, <2>3 DEF Progress, Alive
  <2>5. StatusOf(next) = "uncollected" /\ \A n \in Guarded : n = next => StatusOf(n)' = "underway"
    BY <1>8, <2>2, <2>4, StatusIsProgress, StatusIsProgressNext
  <2>6. AsDelivery!Collect(next)
    BY <1>7, <1>8, <2>5 DEF AsDelivery!Collect
  <2>7. QED  BY <1>8, <2>6 DEF AsDelivery!Next
<1>9. CASE next \notin Guarded
  BY <1>7, <1>9
<1>10. QED  BY <1>8, <1>9

\* A transaction commits.
LEMMA CommitDelivers ==
    ASSUME IInv, IInv', OnlyCollected, NEW r \in Requests, Commit(r)
    PROVE  AsDelivery!Next
<1> USE DEF IInv
<1> DEFINE b == req[r].batch
<1>1. /\ req[r].phase = "open" /\ req' = [req EXCEPT ![r].phase = "accepted"]
      /\ UNCHANGED <<stillPending, pending, queue, fresh, next>>
  BY DEF Commit, Advance, agentVars
<1>2. \A q \in Requests : /\ req'[q].batch = req[q].batch
                          /\ req'[q].phase = IF q = r THEN "accepted" ELSE req[q].phase
  BY <1>1 DEF TypeOK, Request
<1>3. Known' = Known
  BY <1>1 DEF Known, BatchesIn
<1>4. \A c : Alive(c)' => Alive(c)
  BY <1>2, <1>3 DEF Alive, InFlight
<1>5. CASE b \notin Guarded
  <2>1. submissions' = submissions
    BY <1>5 DEF Commit, dbVars
  <2>2. QED  BY <1>1, <1>4, <2>1, OnlyDrops
<1>6. CASE b \in Guarded
  <2>1. submissions' = submissions \cup {b} /\ b \notin submissions
    BY <1>1, <1>6 DEF Commit, OpenIsUncommitted
  <2>2. b < next /\ next \in Int /\ b \in Int
    BY <1>1, <1>6, ListTypes DEF OnlyCollected, Guarded, Batch
  <2>3. Alive(b)
    BY <1>1 DEF Alive, InFlight
  <2>4. StatusOf(b) = "underway"
    BY <1>6, <2>1, <2>2, <2>3, StatusIsProgress DEF Progress
  <2>5. \A c \in Guarded : c = b => StatusOf(c)' = "recorded"
    BY <1>1, <1>6, <2>1, <2>2, StatusIsProgressNext DEF Progress
  <2>6. \A c \in Guarded : c # b => (Alive(c)' <=> Alive(c))
    BY <1>2, <1>3 DEF Alive, InFlight
  <2>7. \A c \in Guarded : c # b => StatusOf(c)' = StatusOf(c)
    BY <1>1, <2>1, <2>6, StatusIsProgress, StatusIsProgressNext DEF Progress
  <2> HIDE DEF b
  <2>8. AsDelivery!Record(b)
    BY <1>6, <2>4, <2>5, <2>7 DEF AsDelivery!Record
  <2>9. QED  BY <1>6, <2>8 DEF AsDelivery!Next
<1>7. QED  BY <1>5, <1>6

\* The other steps carry batches between the lists and the wire, and lose some.
LEMMA CarryDelivers ==
    ASSUME IInv, IInv', InOrder, [Next]_vars,
           \A r \in Requests : ~ SubmitCollected(r) /\ ~ Commit(r)
    PROVE  AsDelivery!Next
<1> USE ListTypes DEF IInv
<1>1. ASSUME next' = next, submissions' = submissions, \A b : Alive(b)' => Alive(b)
      PROVE  AsDelivery!Next
  BY <1>1, OnlyDrops
<1>2. ASSUME \A r \in Requests : req'[r].phase \in {"sent", "open"} =>
                 req[r].phase \in {"sent", "open"} /\ req'[r].batch = req[r].batch
      PROVE  \A b : InFlight(b)' => InFlight(b)
  BY <1>2 DEF InFlight
<1>3. ASSUME NEW r \in Requests, req' = [req EXCEPT ![r] = FreeRequest]
      PROVE  \A b : InFlight(b)' => InFlight(b)
  BY <1>2, <1>3 DEF FreeRequest, TypeOK
<1>4. CASE DrainQueue
  <2>1. Known' = Known
    BY <1>4 DEF DrainQueue, Known, BatchesIn, ListsInUse
  <2>2. QED  BY <1>1, <1>4, <2>1 DEF DrainQueue, dbVars, Alive, InFlight
<1>5. CASE RequeueFailed
  <2>1. BatchesIn(queue') = BatchesIn(stillPending) \cup BatchesIn(queue)
    BY <1>5, BatchesInConcat DEF RequeueFailed
  <2>2. BatchesIn(stillPending') = {}
    BY <1>5, BatchesInShortLists DEF RequeueFailed
  <2>3. Known' \subseteq Known
    BY <1>5, <2>1, <2>2 DEF RequeueFailed, Known
  <2>4. QED  BY <1>1, <1>5, <2>3 DEF RequeueFailed, dbVars, Alive, InFlight
<1>6. CASE EnqueueFresh
  <2>1. fresh \in Batch /\ fresh # 0
    BY <1>6 DEF EnqueueFresh, ListsInUse, TypeOK
  <2>2. Append(queue, fresh) \in Seq(Batch)
    BY <2>1
  <2>3. BatchesIn(queue') \subseteq BatchesIn(queue) \cup {fresh}
    <3>1. queue' = KeepNewest(Append(queue, fresh), MaxEntries)
      BY <1>6 DEF EnqueueFresh
    <3>2. BatchesIn(KeepNewest(Append(queue, fresh), MaxEntries)) \subseteq BatchesIn(Append(queue, fresh))
      BY <2>2, KeepNewestIsSuffix
    <3>3. BatchesIn(Append(queue, fresh)) = BatchesIn(queue) \cup {fresh}
      BY <2>1, BatchesInAppend
    <3>4. QED  BY <3>1, <3>2, <3>3
  <2>4. Known' \subseteq Known
    BY <1>6, <2>1, <2>3 DEF EnqueueFresh, Known
  <2>5. QED  BY <1>1, <1>6, <2>4 DEF EnqueueFresh, dbVars, Alive, InFlight
<1>7. CASE QueueWriteFails \/ Kill
  <2>1. Forget
    BY <1>7 DEF QueueWriteFails, Kill
  <2>2. Known' \subseteq Known
    BY <2>1, BatchesInShortLists DEF Forget, Known
  <2>3. QED  BY <1>1, <2>1, <2>2 DEF Forget, dbVars, Alive, InFlight
<1>15. CASE QueueReadFails
  <2>1. BatchesIn(queue') \subseteq {fresh} \ {0} /\ fresh' = 0
    <3>1. fresh \in Batch \cup {0} /\ fresh' = 0
      BY <1>15 DEF QueueReadFails, ListsInUse, TypeOK
    <3>2. queue' = <<>> \/ (queue' = <<fresh>> /\ fresh # 0)
      BY <1>15 DEF QueueReadFails, ListsInUse
    <3>3. QED  BY <3>1, <3>2, BatchesInShortLists
  <2>2. Known' \subseteq Known
    BY <1>15, <2>1 DEF QueueReadFails, Known
  <2>3. QED  BY <1>1, <1>15, <2>2 DEF QueueReadFails, dbVars, Alive, InFlight
<1>8. ASSUME NEW ok \in BOOLEAN, Returns(ok), awaiting # NoRequest PROVE Known' \subseteq Known
  <2>1. CASE pc = "fresh"
    <3>1. UNCHANGED <<pending, stillPending, queue>> /\ fresh' \in {0, fresh}
      BY <1>8, <2>1 DEF Returns
    <3>2. QED  BY <3>1 DEF Known
  <2>2. CASE pc = "flush"
    <3>1. pending # <<>> /\ pending' = Tail(pending) /\ UNCHANGED <<queue, fresh>>
      BY <1>8, <2>2 DEF Returns, AwaitsItsBatch
    <3>2. Head(pending) \in Batch /\ BatchesIn(pending) = {Head(pending)} \cup BatchesIn(pending')
      BY <3>1, BatchesInHeadTail
    <3>3. BatchesIn(Append(stillPending, Head(pending))) = BatchesIn(stillPending) \cup {Head(pending)}
      BY <3>2, BatchesInAppend
    <3>4. BatchesIn(stillPending') \subseteq BatchesIn(stillPending) \cup {Head(pending)}
      BY <1>8, <2>2, <3>3 DEF Returns
    <3>5. QED  BY <3>1, <3>2, <3>4 DEF Known
  <2>3. QED  BY <1>8, <2>1, <2>2 DEF Returns
<1>9. CASE ReceiveAnswer
  <2>1. awaiting \in Requests /\ Known' \subseteq Known
    BY <1>8, <1>9 DEF ReceiveAnswer, TypeOK
  <2>2. \A b : InFlight(b)' => InFlight(b)
    BY <1>3, <1>9, <2>1 DEF ReceiveAnswer
  <2>3. QED  BY <1>1, <1>9, <2>1, <2>2 DEF ReceiveAnswer, Returns, dbVars, Alive
<1>10. CASE GiveUp
  <2>1. Known' \subseteq Known
    BY <1>8, <1>10 DEF GiveUp
  <2>2. QED  BY <1>1, <1>10, <2>1 DEF GiveUp, Returns, dbVars, Alive, InFlight
<1>11. CASE CollectNothing \/ UNCHANGED vars
  <2>1. Known' = Known
    BY <1>11 DEF CollectNothing, vars, Known, BatchesIn
  <2>2. QED  BY <1>1, <1>11, <2>1 DEF CollectNothing, vars, dbVars, Alive, InFlight
<1>12. ASSUME NEW r \in Requests, SubmitPending(r) PROVE AsDelivery!Next
  <2>1. Known' = Known
    BY <1>12 DEF SubmitPending, Known, BatchesIn
  <2>2. pending # <<>> /\ Head(pending) \in BatchesIn(pending)
    BY <1>12, BatchesInHeadTail DEF SubmitPending
  <2>3. \A q \in Requests :
            req'[q] = IF q = r THEN [batch |-> Head(pending), phase |-> "sent", done |-> 0] ELSE req[q]
    BY <1>12 DEF SubmitPending, Send, TypeOK
  <2>4. \A b : InFlight(b)' => InFlight(b) \/ b = Head(pending)
    <3>1. \A b, q : q \in Requests /\ req'[q].batch = b /\ req'[q].phase \in {"sent", "open"} =>
              b = Head(pending) \/ (req[q].batch = b /\ req[q].phase \in {"sent", "open"})
      BY <2>3
    <3>2. QED  BY <3>1 DEF InFlight
  <2>5. \A b : Alive(b)' => Alive(b)
    BY <2>1, <2>2, <2>4 DEF Alive, Known
  <2>6. QED  BY <1>1, <1>12, <2>5 DEF SubmitPending, dbVars
<1>13. ASSUME NEW r \in Requests, Refuse(r) \/ OpenSubmission(r) \/ Deduplicate(r) \/ ProcessDevice(r)
                                   \/ Orphaned(r) \/ Abort(r)
       PROVE  AsDelivery!Next
  <2>1. UNCHANGED agentVars /\ next' = next /\ submissions' = submissions
    BY <1>13 DEF Refuse, OpenSubmission, Deduplicate, ProcessDevice, Orphaned, LoseOrphan,
                 LoseAnswer, Abort, dbVars
  <2>2. Known' = Known
    BY <2>1 DEF agentVars, Known, BatchesIn
  <2>3. CASE Orphaned(r)
    <3>1. \A b : InFlight(b)' => InFlight(b)
      BY <1>3, <2>3 DEF Orphaned, LoseOrphan, LoseAnswer
    <3>2. QED  BY <1>1, <2>1, <2>2, <3>1 DEF Alive
  <2>4. CASE ProcessDevice(r)
    <3>1. req' = [req EXCEPT ![r].done = req[r].done + 1]
      BY <2>4 DEF ProcessDevice
    <3>2. \A q \in Requests : req'[q].phase = req[q].phase /\ req'[q].batch = req[q].batch
      BY <3>1 DEF TypeOK, Request
    <3>3. \A b : InFlight(b)' => InFlight(b)
      BY <1>2, <3>2
    <3>4. QED  BY <1>1, <2>1, <2>2, <3>3 DEF Alive
  <2>5. CASE Refuse(r) \/ OpenSubmission(r) \/ Deduplicate(r) \/ Abort(r)
    <3>1. PICK to : req' = [req EXCEPT ![r].phase = to] /\ req[r].phase \in {"sent", "open"}
      BY <2>5 DEF Refuse, OpenSubmission, Deduplicate, Abort, Advance
    <3>2. \A q \in Requests : req'[q].batch = req[q].batch /\ (q # r => req'[q].phase = req[q].phase)
      BY <3>1 DEF TypeOK, Request
    <3>3. \A b : InFlight(b)' => InFlight(b)
      BY <1>2, <3>1, <3>2
    <3>4. QED  BY <1>1, <2>1, <2>2, <3>3 DEF Alive
  <2>6. QED  BY <1>13, <2>3, <2>4, <2>5
<1>14. QED
  BY <1>4, <1>5, <1>6, <1>7, <1>9, <1>10, <1>11, <1>12, <1>13, <1>15 DEF Next, AgentStep, ApiStep

\* What carries the batches delivers them: a guarded batch is recorded at most
\* once and completely, and neither a recorded nor a dropped one ever comes
\* back, whatever was sent twice or answered late (AgentWorker.cs with
\* submitDevices).
THEOREM PipelineDelivers == Spec => ImplementsDelivery
<1>1. Init => AsDelivery!Init
  <2>1. SUFFICES ASSUME Init PROVE AsDelivery!Init
    OBVIOUS
  <2>2. \A b \in Guarded : b >= 1
    BY DEF Guarded, Batch
  <2>3. \A b \in Guarded : StatusOf(b) = "uncollected"
    BY <2>1, <2>2 DEF Init, StatusOf
  <2>4. QED  BY <2>3 DEF AsDelivery!Init
<1>2. IInv /\ IInv' /\ InOrder /\ OnlyCollected /\ [Next]_vars
        => [AsDelivery!Next]_([b \in Guarded |-> StatusOf(b)])
  <2> SUFFICES ASSUME IInv, IInv', InOrder, OnlyCollected, [Next]_vars
               PROVE  AsDelivery!Next \/ UNCHANGED [b \in Guarded |-> StatusOf(b)]
    OBVIOUS
  <2>1. CASE \E r \in Requests : SubmitCollected(r)
    BY <2>1, CollectDelivers
  <2>2. CASE \E r \in Requests : Commit(r)
    BY <2>2, CommitDelivers
  <2>3. CASE \A r \in Requests : ~ SubmitCollected(r) /\ ~ Commit(r)
    BY <2>3, CarryDelivers
  <2>4. QED  BY <2>1, <2>2, <2>3
<1>3. QED
  BY <1>1, <1>2, CollectedInvariance, PTL DEF Spec, ImplementsDelivery, AsDelivery!Spec
=============================================================================
