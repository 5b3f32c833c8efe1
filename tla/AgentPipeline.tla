--------------------------- MODULE AgentPipeline ----------------------------
(***************************************************************************)
(* How printer readings get from the Agent to the database.                *)
(*                                                                         *)
(*   Agent (AgentWorker.cs)   one loop: flush the offline queue, then      *)
(*                            collect, submit, queue what was not accepted *)
(*   wire (HttpClient, 30 s)  a submission may be lost, or its answer may  *)
(*                            come after the Agent stopped waiting: the    *)
(*                            request then lives on as an orphan           *)
(*   API (submitDevices)      a transaction opened by inserting the        *)
(*                            batch's collectionId, which is unique        *)
(*                                                                         *)
(* A batch is numbered in collection order.  The queue is the list the     *)
(* queue file holds (OfflineQueue.tla shows its operations are atomic).    *)
(***************************************************************************)
EXTENDS BatchSequences

CONSTANTS
    MaxBatches,  \* bound: batches ever collected
    MaxEntries,  \* AgentOptions.OfflineQueueMaxEntries
    Devices,     \* devices in a batch
    Requests,    \* HTTP requests that can be in flight together
    NoRequest,   \* the Agent is not waiting for an answer
    Refused,     \* batches the API never accepts (validation, size)
    Unguarded,   \* batches sent without a collectionId (older Agents)
    MaxLosses,   \* bound: answers not received in time, rolled back requests
    MaxFaults    \* bound: kills of the Agent, errors reading or writing its queue file

Batch == 1..MaxBatches
Device == 1..Devices
Guarded == Batch \ Unguarded

ASSUME PipelineAssumption ==
    /\ MaxBatches \in Nat
    /\ MaxEntries \in Nat \ {0}
    /\ Devices \in Nat \ {0}  \* SubmitDiscoveredDevicesAsync sends no empty batch
    /\ NoRequest \notin Requests
    /\ MaxLosses \in Nat
    /\ MaxFaults \in Nat

VARIABLES
    \* the Agent's process
    pc,           \* where its loop is
    pending,      \* drained batches not attempted yet in this flush
    stillPending, \* drained batches whose attempt failed
    fresh,        \* the batch just collected, 0 if none
    awaiting,     \* the request whose answer it waits for
    \* the Agent's disk
    queue,
    \* the wire and the API
    req,
    \* the database
    submissions,  \* collectionIds with an AgentSubmission row
    recorded,     \* reading rows per batch and device
    \* observation only
    next,         \* the next batch to be collected
    dropped,      \* batches pushed out of a full queue
    unread,       \* queues written over without having been read
    losses, faults

agentVars == <<pc, pending, stillPending, fresh, awaiting, queue>>
dbVars == <<submissions, recorded>>
vars == <<pc, pending, stillPending, fresh, awaiting, queue, req,
          submissions, recorded, next, dropped, unread, losses, faults>>

Request == [batch: Batch \cup {0},
            phase: {"free", "sent", "open", "accepted", "rejected"},
            done: 0..Devices]
FreeRequest == [batch |-> 0, phase |-> "free", done |-> 0]

TypeOK ==
    /\ pc \in {"idle", "flush", "collect", "fresh", "enqueue"}
    /\ pending \in Seq(Batch)
    /\ stillPending \in Seq(Batch)
    /\ fresh \in Batch \cup {0}
    /\ awaiting \in Requests \cup {NoRequest}
    /\ queue \in Seq(Batch)
    /\ req \in [Requests -> Request]
    /\ submissions \in SUBSET Batch
    /\ recorded \in [Batch -> [Device -> Nat]]
    /\ next \in 1..(MaxBatches + 1)
    /\ dropped \in SUBSET Batch
    /\ unread \in Nat
    /\ losses \in 0..MaxLosses
    /\ faults \in 0..MaxFaults

Init ==
    /\ pc = "idle"
    /\ pending = <<>>
    /\ stillPending = <<>>
    /\ fresh = 0
    /\ awaiting = NoRequest
    /\ queue = <<>>
    /\ req = [r \in Requests |-> FreeRequest]
    /\ submissions = {}
    /\ recorded = [b \in Batch |-> [d \in Device |-> 0]]
    /\ next = 1
    /\ dropped = {}
    /\ unread = 0
    /\ losses = 0
    /\ faults = 0

-----------------------------------------------------------------------------
(* The Agent's loop.                                                       *)

\* Mutant: the queue is never flushed.
NeverDrain ==
    /\ pc = "idle"
    /\ pc' = "collect"
    /\ UNCHANGED <<pending, stillPending, fresh, awaiting, queue, req, dbVars, next, dropped, unread, losses, faults>>

\* FlushOfflineQueueAsync starts with DrainAsync: from here on the batches
\* are in memory only.
DrainQueue ==
    /\ pc = "idle"
    /\ pc' = IF queue = <<>> THEN "collect" ELSE "flush"
    /\ pending' = queue
    /\ queue' = <<>>
    /\ UNCHANGED <<stillPending, fresh, awaiting, req, dbVars, next, dropped, unread, losses, faults>>

Send(r, b) ==
    /\ awaiting = NoRequest
    /\ req[r].phase = "free"
    /\ req' = [req EXCEPT ![r] = [batch |-> b, phase |-> "sent", done |-> 0]]
    /\ awaiting' = r

\* foreach (var batch in pending) await SubmitDevicesAsync(batch).
SubmitPending(r) ==
    /\ pc = "flush"
    /\ pending # <<>>
    /\ Send(r, Head(pending))
    /\ UNCHANGED <<pc, pending, stillPending, fresh, queue, dbVars, next, dropped, unread, losses, faults>>

\* RequeueAsync(stillPending), once every batch has been attempted.
RequeueFailed ==
    /\ pc = "flush"
    /\ pending = <<>>
    /\ pc' = "collect"
    /\ queue' = stillPending \o queue
    /\ stillPending' = <<>>
    /\ UNCHANGED <<pending, fresh, awaiting, req, dbVars, next, dropped, unread, losses, faults>>

\* Neither discovery nor collection is due, or nothing answered.
CollectNothing ==
    /\ pc = "collect"
    /\ pc' = "idle"
    /\ UNCHANGED <<pending, stillPending, fresh, awaiting, queue, req, dbVars, next, dropped, unread, losses, faults>>

\* SubmitDiscoveredDevicesAsync: a new batch, with a CollectionId of its own.
SubmitCollected(r) ==
    /\ pc = "collect"
    /\ next <= MaxBatches
    /\ pc' = "fresh"
    /\ fresh' = next
    /\ next' = next + 1
    /\ Send(r, next)
    /\ UNCHANGED <<pending, stillPending, queue, dbVars, dropped, unread, losses, faults>>

\* Mutant: failed batches are put back in reverse order.
ReturnsReversed(success) ==
    /\ awaiting' = NoRequest
    /\ \/ /\ pc = "flush"
          /\ pending' = Tail(pending)
          /\ stillPending' = IF success THEN stillPending ELSE <<Head(pending)>> \o stillPending
          /\ UNCHANGED <<pc, fresh>>
       \/ /\ pc = "fresh"
          /\ pc' = IF success THEN "idle" ELSE "enqueue"
          /\ fresh' = IF success THEN 0 ELSE fresh
          /\ UNCHANGED <<pending, stillPending>>
    /\ UNCHANGED <<queue, dbVars, next, dropped, unread, faults>>

\* SubmitDevicesAsync returns: true only for a success status.
Returns(success) ==
    /\ awaiting' = NoRequest
    /\ \/ /\ pc = "flush"
          /\ pending' = Tail(pending)
          /\ stillPending' = IF success THEN stillPending ELSE Append(stillPending, Head(pending))
          /\ UNCHANGED <<pc, fresh>>
       \/ /\ pc = "fresh"
          /\ pc' = IF success THEN "idle" ELSE "enqueue"
          /\ fresh' = IF success THEN 0 ELSE fresh
          /\ UNCHANGED <<pending, stillPending>>
    /\ UNCHANGED <<queue, dbVars, next, dropped, unread, faults>>

\* Mutant: any answer counts as success.
ReceiveAnyAnswer ==
    /\ awaiting # NoRequest
    /\ req[awaiting].phase \in {"accepted", "rejected"}
    /\ Returns(TRUE)
    /\ req' = [req EXCEPT ![awaiting] = FreeRequest]
    /\ UNCHANGED losses

ReceiveAnswer ==
    /\ awaiting # NoRequest
    /\ req[awaiting].phase \in {"accepted", "rejected"}
    /\ Returns(req[awaiting].phase = "accepted")
    /\ req' = [req EXCEPT ![awaiting] = FreeRequest]
    /\ UNCHANGED losses

\* The HTTP timeout, a broken connection, a stopping service: the catch-all
\* returns false, and whatever the API does with the request goes unseen.
GiveUp ==
    /\ awaiting # NoRequest
    /\ losses < MaxLosses
    /\ losses' = losses + 1
    /\ Returns(FALSE)
    /\ UNCHANGED req

\* EnqueueAsync(batch), dropping the oldest over the bound.
EnqueueFresh ==
    /\ pc = "enqueue"
    /\ pc' = "idle"
    /\ queue' = KeepNewest(Append(queue, fresh), MaxEntries)
    /\ dropped' = dropped \cup (BatchesIn(Append(queue, fresh)) \ BatchesIn(queue'))
    /\ fresh' = 0
    /\ UNCHANGED <<pending, stillPending, awaiting, req, dbVars, next, unread, losses, faults>>

\* Mutant: starting up again clears the queue file.
ForgetQueueToo ==
    /\ faults < MaxFaults
    /\ faults' = faults + 1
    /\ pc' = "idle"
    /\ pending' = <<>>
    /\ stillPending' = <<>>
    /\ fresh' = 0
    /\ awaiting' = NoRequest
    /\ queue' = <<>>
    /\ UNCHANGED <<req, dbVars, next, dropped, unread, losses>>

\* What is in the Agent's memory is gone.
Forget ==
    /\ faults < MaxFaults
    /\ faults' = faults + 1
    /\ pc' = "idle"
    /\ pending' = <<>>
    /\ stillPending' = <<>>
    /\ fresh' = 0
    /\ awaiting' = NoRequest
    /\ UNCHANGED <<queue, req, dbVars, next, dropped, unread, losses>>

\* The queue file cannot be written: the exception ends the cycle.
QueueWriteFails ==
    /\ pc = "enqueue" \/ (pc = "flush" /\ pending = <<>> /\ stillPending # <<>>)
    /\ Forget

\* The queue file cannot be read: DrainAsync or EnqueueAsync takes it for an
\* empty one and writes its own list over it.  (A file that a power loss has
\* torn reads the same way; where nothing is queued nothing changes.)
QueueReadFails ==
    /\ faults < MaxFaults
    /\ faults' = faults + 1
    /\ unread' = unread + 1
    /\ queue # <<>>
    /\ \/ /\ pc = "idle"
          /\ pc' = "collect"
          /\ queue' = <<>>
          /\ UNCHANGED fresh
       \/ /\ pc = "enqueue"
          /\ pc' = "idle"
          /\ queue' = <<fresh>>
          /\ fresh' = 0
    /\ UNCHANGED <<pending, stillPending, awaiting, req, dbVars, next, dropped, losses>>

\* The service is killed (and restarted by the service manager).
Kill == Forget

-----------------------------------------------------------------------------
(* The wire and the API.                                                   *)

IsOpen(b) == \E r \in Requests : req[r].phase = "open" /\ req[r].batch = b

Advance(r, from, to) ==
    /\ req[r].phase = from
    /\ req' = [req EXCEPT ![r].phase = to]

\* A request nobody waits for any more may never arrive ...
LoseOrphan(r) ==
    /\ r # awaiting
    /\ req[r].phase = "sent"
    /\ req' = [req EXCEPT ![r] = FreeRequest]
    /\ UNCHANGED <<agentVars, dbVars, next, dropped, unread, losses, faults>>

\* Mutant: an automatic retry of a request nobody waits for.
ResendOrphan(r) ==
    /\ r # awaiting
    /\ req[r].phase \in {"accepted", "rejected"}
    /\ req' = [req EXCEPT ![r].phase = "sent", ![r].done = 0]
    /\ UNCHANGED <<agentVars, dbVars, next, dropped, unread, losses, faults>>

\* ... and neither may its answer.
LoseAnswer(r) ==
    /\ r # awaiting
    /\ req[r].phase \in {"accepted", "rejected"}
    /\ req' = [req EXCEPT ![r] = FreeRequest]
    /\ UNCHANGED <<agentVars, dbVars, next, dropped, unread, losses, faults>>

\* The DTO validation (or the size limit) answers with an error every time.
Refuse(r) ==
    /\ req[r].batch \in Refused
    /\ Advance(r, "sent", "rejected")
    /\ UNCHANGED <<agentVars, dbVars, next, dropped, unread, losses, faults>>

\* Mutant: no unique collectionId.
OpenAlways(r) ==
    /\ req[r].batch \notin Refused
    /\ Advance(r, "sent", "open")
    /\ UNCHANGED <<agentVars, dbVars, next, dropped, unread, losses, faults>>

\* agentSubmission.create inserts the collectionId; another transaction that
\* has inserted it and not ended yet makes this one wait.
OpenSubmission(r) ==
    LET b == req[r].batch IN
    /\ b \notin Refused
    /\ b \in Guarded => b \notin submissions /\ ~IsOpen(b)
    /\ Advance(r, "sent", "open")
    /\ UNCHANGED <<agentVars, dbVars, next, dropped, unread, losses, faults>>

\* P2002: the row is there, so the batch has been processed.
Deduplicate(r) ==
    /\ req[r].batch \in Guarded \ Refused
    /\ req[r].batch \in submissions
    /\ Advance(r, "sent", "accepted")
    /\ UNCHANGED <<agentVars, dbVars, next, dropped, unread, losses, faults>>

\* One turn of processDevices: inside the transaction nobody sees its rows,
\* without one they are there at once.
ProcessDevice(r) ==
    LET b == req[r].batch
        d == req[r].done + 1
    IN
    /\ req[r].phase = "open"
    /\ req[r].done < Devices
    /\ req' = [req EXCEPT ![r].done = d]
    /\ recorded' = IF b \in Guarded THEN recorded
                                    ELSE [recorded EXCEPT ![b][d] = @ + 1]
    /\ UNCHANGED <<agentVars, submissions, next, dropped, unread, losses, faults>>

\* Every device is done: the transaction commits the row and the readings.
Commit(r) ==
    LET b == req[r].batch IN
    /\ req[r].done = Devices
    /\ Advance(r, "open", "accepted")
    /\ IF b \in Guarded
       THEN /\ submissions' = submissions \cup {b}
            /\ recorded' = [recorded EXCEPT ![b] = [d \in Device |-> @[d] + 1]]
       ELSE UNCHANGED dbVars
    /\ UNCHANGED <<agentVars, next, dropped, unread, losses, faults>>

\* The transaction times out, the database or the API process goes down: a
\* rollback, except for rows written without a transaction.
Abort(r) ==
    /\ losses < MaxLosses
    /\ losses' = losses + 1
    /\ Advance(r, "open", "rejected")
    /\ UNCHANGED <<agentVars, dbVars, next, dropped, unread, faults>>

-----------------------------------------------------------------------------
AgentStep ==
    \/ DrainQueue
    \/ \E r \in Requests : SubmitPending(r)
    \/ RequeueFailed
    \/ CollectNothing
    \/ \E r \in Requests : SubmitCollected(r)
    \/ ReceiveAnswer
    \/ EnqueueFresh

ApiStep(r) ==
    \/ Refuse(r)
    \/ OpenSubmission(r)
    \/ Deduplicate(r)
    \/ ProcessDevice(r)
    \/ Commit(r)

Orphaned(r) == LoseOrphan(r) \/ LoseAnswer(r)

Next ==
    \/ AgentStep
    \/ GiveUp
    \/ QueueWriteFails
    \/ QueueReadFails
    \/ Kill
    \/ \E r \in Requests : ApiStep(r) \/ Orphaned(r) \/ Abort(r)

Spec == Init /\ [][Next]_vars

\* The loop never stops for good (it catches everything and the service
\* manager restarts it), the API serves what reaches it, and connectivity
\* returns: losses are bounded.  Nothing obliges a fault to happen.
FairSpec ==
    /\ Spec
    /\ WF_vars(AgentStep)
    /\ \A r \in Requests : WF_vars(ApiStep(r)) /\ WF_vars(LoseAnswer(r))

-----------------------------------------------------------------------------
(* Properties.                                                             *)

FullyRecorded(b) == \A d \in Device : recorded[b][d] >= 1

\* Every batch the Agent still knows about, in the order of its lists.
Backlog == stillPending \o pending \o queue \o (IF fresh = 0 THEN <<>> ELSE <<fresh>>)

\* A batch with a collectionId is recorded all or nothing and never twice,
\* however often it is resent and whenever a late request is processed.
RecordedOnce ==
    \A b \in Guarded, d \in Device :
        recorded[b][d] = IF b \in submissions THEN 1 ELSE 0

\* The Agent forgets a batch only because it is recorded, or because newer
\* batches pushed it out of a full queue: a lost answer, a refused request,
\* a rolled back transaction never cost a batch.  Only a fault can.
NothingLost ==
    faults = 0 =>
        \A b \in 1..(next - 1) : \/ FullyRecorded(b)
                                 \/ b \in BatchesIn(Backlog)
                                 \/ b \in dropped

\* The inductive invariant behind RecordedOnce and NothingLost.
\* A request on its way carries a batch; only one transaction at a time has
\* a given collectionId inserted, and none whose batch is already committed;
\* an answer of success tells the truth.
RequestsCarryBatches ==
    \A r \in Requests :
        /\ req[r].phase # "free" => req[r].batch \in Batch
        /\ req[r].phase = "sent" => req[r].done = 0
OneOpenTransaction ==
    \A r, s \in Requests :
        /\ req[r].phase = "open" /\ req[s].phase = "open"
        /\ req[r].batch = req[s].batch /\ req[r].batch \in Guarded
        => r = s
OpenIsUncommitted ==
    \A r \in Requests :
        req[r].phase = "open" /\ req[r].batch \in Guarded => req[r].batch \notin submissions
RawRowsAreThere ==
    \A r \in Requests :
        req[r].phase = "open" /\ req[r].batch \notin Guarded =>
            \A d \in 1..req[r].done : recorded[req[r].batch][d] >= 1
AnswersAreTrue == \A r \in Requests : req[r].phase = "accepted" => FullyRecorded(req[r].batch)

\* The Agent waits for the batch it is about to strike off, and only the
\* lists of the step it is in are in use.
AwaitsItsBatch ==
    awaiting # NoRequest =>
        /\ req[awaiting].phase # "free"
        /\ \/ pc = "flush" /\ pending # <<>> /\ req[awaiting].batch = Head(pending)
           \/ pc = "fresh" /\ req[awaiting].batch = fresh
ListsInUse ==
    /\ fresh # 0 <=> pc \in {"fresh", "enqueue"}
    /\ pc # "flush" => pending = <<>> /\ stillPending = <<>>

IInv ==
    /\ TypeOK
    /\ RequestsCarryBatches
    /\ OneOpenTransaction
    /\ OpenIsUncommitted
    /\ RawRowsAreThere
    /\ AnswersAreTrue
    /\ AwaitsItsBatch
    /\ ListsInUse
    /\ RecordedOnce
    /\ NothingLost

\* RequeueAsync applies no bound of its own, and yet neither the queue nor
\* a drained list outgrows OfflineQueueMaxEntries.
QueueBounded ==
    /\ Len(queue) <= MaxEntries
    /\ Len(stillPending) + Len(pending) <= MaxEntries

\* The oldest entry of the queue is the oldest batch: partial flushes that
\* put failed batches back never shuffle them, so overflow drops the batch
\* collected first.
OldestFirst == InCollectionOrder(Backlog)
QueueInOrder == QueueBounded /\ OldestFirst

\* When connectivity returns, everything the API accepts gets recorded (or
\* was pushed out of the queue), even behind batches it always refuses.
EventuallyRecorded ==
    \A b \in Batch \ Refused :
        b < next ~> FullyRecorded(b) \/ b \in dropped \/ faults > 0

\* The queue's contract, with the loop as its only caller.
AsQueue == INSTANCE DurableQueue WITH
    Callers <- {"agent"}, losses <- unread,
    held <- [c \in {"agent"} |-> stillPending \o pending]
UsesDurableQueue == AsQueue!Spec

\* What becomes of a guarded batch, as a reader of the database sees it.
InFlight(b) == \E r \in Requests : req[r].batch = b /\ req[r].phase \in {"sent", "open"}
StatusOf(b) ==
    IF b >= next THEN "uncollected"
    ELSE IF \A d \in Device : recorded[b][d] = 1 THEN "recorded"
    ELSE IF b \in BatchesIn(Backlog) \/ InFlight(b) THEN "underway"
    ELSE IF \A d \in Device : recorded[b][d] = 0 THEN "dropped"
    ELSE "corrupt"

\* The pipeline delivers guarded batches as Delivery says.
AsDelivery == INSTANCE Delivery WITH
    Batch <- Guarded, status <- [b \in Guarded |-> StatusOf(b)]
ImplementsDelivery == AsDelivery!Spec
=============================================================================
