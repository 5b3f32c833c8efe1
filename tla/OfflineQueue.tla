---------------------------- MODULE OfflineQueue ----------------------------
(***************************************************************************)
(* PrinterAgent.Core/Queue/OfflineQueue.cs, step by step: a JSON file that *)
(* is only ever replaced by renaming a fully written temporary file, under *)
(* one SemaphoreSlim, and that reads as empty whenever it cannot be read.  *)
(* Callers are tasks of one process.  The only one today is AgentWorker's  *)
(* sequential loop (AgentPipeline); the class serialises its operations    *)
(* itself, so it is modelled for any number of them.  Crash kills the      *)
(* process (all callers) between any two steps; PowerLoss also loses what  *)
(* the operating system had not written back.                              *)
(* Definitions marked Mutant are the code with a bug: no specification     *)
(* uses them; the properties are checked to notice them.                   *)
(***************************************************************************)
EXTENDS BatchSequences, FiniteSets

CONSTANTS
    Callers,     \* tasks of the process that use the queue
    MaxEntries,  \* AgentOptions.OfflineQueueMaxEntries
    MaxBatches,  \* bound: batches ever enqueued
    MaxFaults,   \* bound: I/O errors, crashes and power losses
    NoCaller     \* the semaphore is free

ASSUME QueueAssumption ==
    /\ MaxEntries \in Nat \ {0}
    /\ MaxBatches \in Nat
    /\ MaxFaults \in Nat
    /\ NoCaller \notin Callers

VARIABLES
    file,     \* content of offline-queue.json
    synced,   \* has the operating system written that content to the disk?
    tmp,      \* content of offline-queue.json.tmp
    lock,     \* holder of the semaphore
    at,       \* next step of each caller
    op,       \* the operation it is in
    arg,      \* its argument (the batch of an Enqueue, the list of a Requeue)
    pending,  \* its local list
    unread,   \* observation only: did it fail to read the list there was?
    held,     \* what it got from its last DrainAsync and has not settled
    next,     \* next batch to be enqueued
    faults,   \* faults so far
    losses    \* observation only: power losses, and lists written over unread

queueVars ==
    <<file, synced, tmp, lock, at, op, arg, pending, unread, held, next, faults, losses>>

Batch == 1..MaxBatches
List == Seq(Batch)
\* A file on disk; a torn one (truncated, half written) is no JSON list.
Missing == [state |-> "missing", list |-> <<>>]
Torn == [state |-> "torn", list |-> <<>>]
WholeFile(s) == [state |-> "complete", list |-> s]
File == [state: {"missing", "torn", "complete"}, list: List]
Operations == {"Enqueue", "Drain", "Requeue"}

QueueTypeOK ==
    /\ file \in File
    /\ synced \in BOOLEAN
    /\ tmp \in File
    /\ lock \in Callers \cup {NoCaller}
    /\ at \in [Callers -> {"idle", "wait", "read", "create", "serialize", "move", "release"}]
    /\ op \in [Callers -> Operations]
    /\ arg \in [Callers -> List]
    /\ pending \in [Callers -> List]
    /\ unread \in [Callers -> BOOLEAN]
    /\ held \in [Callers -> List]
    /\ next \in 1..(MaxBatches + 1)
    /\ faults \in 0..MaxFaults
    /\ losses \in Nat

QueueInit ==
    /\ file = Missing
    /\ synced = TRUE
    /\ tmp = Missing
    /\ lock = NoCaller
    /\ at = [c \in Callers |-> "idle"]
    /\ op = [c \in Callers |-> "Drain"]
    /\ arg = [c \in Callers |-> <<>>]
    /\ pending = [c \in Callers |-> <<>>]
    /\ unread = [c \in Callers |-> FALSE]
    /\ held = [c \in Callers |-> <<>>]
    /\ next = 1
    /\ faults = 0
    /\ losses = 0

\* What the file says: missing or torn, it is an empty queue.
ReadAll == IF file.state = "complete" THEN file.list ELSE <<>>

\* Mutant: a requeue overwrites what was queued meanwhile.
RewrittenOverwrite(c) ==
    CASE op[c] = "Enqueue" -> KeepNewest(pending[c] \o arg[c], MaxEntries)
      [] op[c] = "Drain"   -> <<>>
      [] op[c] = "Requeue" -> arg[c]

\* What each operation makes of the list it has read.
Rewritten(c) ==
    CASE op[c] = "Enqueue" -> KeepNewest(pending[c] \o arg[c], MaxEntries)
      [] op[c] = "Drain"   -> <<>>
      [] op[c] = "Requeue" -> arg[c] \o pending[c]

Goto(c, from, to) ==
    /\ at[c] = from
    /\ at' = [at EXCEPT ![c] = to]

-----------------------------------------------------------------------------
(* The callers.  A caller that holds drained batches settles them one by   *)
(* one and requeues the rest before it enqueues or drains again.           *)

Call(c, o, a) ==
    /\ Goto(c, "idle", "wait")
    /\ op' = [op EXCEPT ![c] = o]
    /\ arg' = [arg EXCEPT ![c] = a]
    /\ UNCHANGED <<file, synced, tmp, lock, pending, unread, faults, losses>>

CallEnqueue(c) ==
    /\ held[c] = <<>>
    /\ next <= MaxBatches
    /\ next' = next + 1
    /\ Call(c, "Enqueue", <<next>>)
    /\ UNCHANGED held

CallDrain(c) ==
    /\ held[c] = <<>>
    /\ Call(c, "Drain", <<>>)
    /\ UNCHANGED <<held, next>>

CallRequeue(c) ==
    /\ held[c] # <<>>
    /\ Call(c, "Requeue", held[c])
    /\ UNCHANGED <<held, next>>

Deliver(c) ==
    /\ at[c] = "idle"
    /\ \E i \in DOMAIN held[c] : held' = [held EXCEPT ![c] = Without(@, i)]
    /\ UNCHANGED <<file, synced, tmp, lock, at, op, arg, pending, unread, next, faults, losses>>

-----------------------------------------------------------------------------
(* The steps of an operation.                                              *)

\* Mutant: no semaphore.
WaitAsyncUnlocked(c) ==
    /\ Goto(c, "wait", "read")
    /\ lock' = c
    /\ UNCHANGED <<file, synced, tmp, op, arg, pending, unread, held, next, faults, losses>>

WaitAsync(c) ==
    /\ lock = NoCaller
    /\ Goto(c, "wait", "read")
    /\ lock' = c
    /\ UNCHANGED <<file, synced, tmp, op, arg, pending, unread, held, next, faults, losses>>

\* ReadAllAsync reads what the file says ...
ReadAllAsync(c) ==
    /\ Goto(c, "read", "create")
    /\ pending' = [pending EXCEPT ![c] = ReadAll]
    /\ UNCHANGED <<file, synced, tmp, lock, op, arg, unread, held, next, faults, losses>>

\* ... or, when looking for, opening or reading an intact file fails, an empty
\* list: the exception is caught, logged as a corrupt file, and the operation
\* goes on to write its list over what it has not read.  (Where nothing is
\* queued a failed read makes no difference.)
ReadFails(c) ==
    /\ faults < MaxFaults
    /\ faults' = faults + 1
    /\ Goto(c, "read", "create")
    /\ ReadAll # <<>>
    /\ pending' = [pending EXCEPT ![c] = <<>>]
    /\ unread' = [unread EXCEPT ![c] = TRUE]
    /\ UNCHANGED <<file, synced, tmp, lock, op, arg, held, next, losses>>

\* Mutant: the old code, which truncates the queue file itself.
CreateInPlace(c) ==
    /\ Goto(c, "create", "serialize")
    /\ file' = Torn
    /\ UNCHANGED <<synced, tmp, lock, op, arg, pending, unread, held, next, faults, losses>>

\* File.Create truncates the temporary file ...
CreateTemp(c) ==
    /\ Goto(c, "create", "serialize")
    /\ tmp' = Torn
    /\ UNCHANGED <<file, synced, lock, op, arg, pending, unread, held, next, faults, losses>>

\* ... SerializeAsync and FlushAsync fill it ...
SerializeTemp(c) ==
    /\ Goto(c, "serialize", "move")
    /\ tmp' = WholeFile(Rewritten(c))
    /\ UNCHANGED <<file, synced, lock, op, arg, pending, unread, held, next, faults, losses>>

\* ... and File.Move(overwrite) swaps it in.  FlushAsync hands the bytes to
\* the operating system; it does not wait for the disk.  From here on the
\* operation has happened: a Drain has its list, a Requeue has given it up.
MoveTemp(c) ==
    /\ Goto(c, "move", "release")
    /\ file' = tmp
    /\ tmp' = Missing
    /\ synced' = FALSE
    /\ held' = CASE op[c] = "Drain"   -> [held EXCEPT ![c] = pending[c]]
                 [] op[c] = "Requeue" -> [held EXCEPT ![c] = <<>>]
                 [] op[c] = "Enqueue" -> held
    /\ losses' = IF unread[c] THEN losses + 1 ELSE losses
    /\ UNCHANGED <<lock, op, arg, pending, unread, next, faults>>

Release(c) ==
    /\ Goto(c, "release", "idle")
    /\ lock' = NoCaller
    /\ arg' = [arg EXCEPT ![c] = <<>>]
    /\ pending' = [pending EXCEPT ![c] = <<>>]
    /\ unread' = [unread EXCEPT ![c] = FALSE]
    /\ UNCHANGED <<file, synced, tmp, op, held, next, faults, losses>>

\* Mutant: the semaphore is not released on the error path.
IOErrorKeepsLock(c) ==
    /\ faults < MaxFaults
    /\ faults' = faults + 1
    /\ at[c] \in {"create", "serialize", "move"}
    /\ at' = [at EXCEPT ![c] = "idle"]
    /\ arg' = [arg EXCEPT ![c] = <<>>]
    /\ pending' = [pending EXCEPT ![c] = <<>>]
    /\ unread' = [unread EXCEPT ![c] = FALSE]
    /\ held' = [held EXCEPT ![c] = <<>>]
    /\ UNCHANGED <<file, synced, tmp, lock, op, next, losses>>

\* Creating, writing or renaming the temporary file throws: the finally
\* block releases the semaphore, the caller's argument is gone.
IOError(c) ==
    /\ faults < MaxFaults
    /\ faults' = faults + 1
    /\ at[c] \in {"create", "serialize", "move"}
    /\ at' = [at EXCEPT ![c] = "idle"]
    /\ lock' = NoCaller
    /\ arg' = [arg EXCEPT ![c] = <<>>]
    /\ pending' = [pending EXCEPT ![c] = <<>>]
    /\ unread' = [unread EXCEPT ![c] = FALSE]
    /\ held' = [held EXCEPT ![c] = <<>>]
    /\ UNCHANGED <<file, synced, tmp, op, next, losses>>

-----------------------------------------------------------------------------
(* The process and the machine.                                            *)

Restart ==
    /\ faults < MaxFaults
    /\ faults' = faults + 1
    /\ lock' = NoCaller
    /\ at' = [c \in Callers |-> "idle"]
    /\ arg' = [c \in Callers |-> <<>>]
    /\ pending' = [c \in Callers |-> <<>>]
    /\ unread' = [c \in Callers |-> FALSE]
    /\ held' = [c \in Callers |-> <<>>]
    /\ UNCHANGED <<op, next>>

\* The service is killed: memory is gone, both files stay as they are.
Crash ==
    /\ Restart
    /\ UNCHANGED <<file, synced, tmp, losses>>

\* The operating system writes its cache back.
WriteBack ==
    /\ ~synced
    /\ synced' = TRUE
    /\ UNCHANGED <<file, tmp, lock, at, op, arg, pending, unread, held, next, faults, losses>>

\* The machine loses power: a rename that reached the disk before the bytes
\* it names leaves an unreadable file.
PowerLoss ==
    /\ Restart
    /\ synced' = TRUE
    /\ file' \in IF synced \/ file = Missing THEN {file} ELSE {file, Torn}
    /\ tmp' \in {tmp, Torn, Missing}
    /\ losses' = losses + 1

-----------------------------------------------------------------------------
Step(c) ==
    \/ WaitAsync(c)
    \/ ReadAllAsync(c)
    \/ CreateTemp(c)
    \/ SerializeTemp(c)
    \/ MoveTemp(c)
    \/ Release(c)

QueueNext ==
    \/ \E c \in Callers :
        \/ CallEnqueue(c)
        \/ CallDrain(c)
        \/ CallRequeue(c)
        \/ Deliver(c)
        \/ Step(c)
        \/ ReadFails(c)
        \/ IOError(c)
    \/ WriteBack
    \/ Crash
    \/ PowerLoss

QueueSpec == QueueInit /\ [][QueueNext]_queueVars

\* An operation in progress keeps running; the semaphore serves whoever keeps
\* waiting (SemaphoreSlim wakes its asynchronous waiters in turn).
QueueFairSpec ==
    /\ QueueSpec
    /\ \A c \in Callers : WF_queueVars(Step(c)) /\ SF_queueVars(WaitAsync(c))

-----------------------------------------------------------------------------
(* Properties.                                                             *)

\* The queue file itself is never half written, whatever instant the process
\* dies at (the reason WriteAllAsync goes through a temporary file): a crash
\* can leave a torn temporary file, which nothing ever reads.  Only a power
\* loss tears it, when the rename is on the disk before the bytes are.
TornOnlyByPowerLoss == [][file' = Torn => file = Torn \/ PowerLoss]_queueVars

\* Two operations never interleave their read and their rename: between its
\* ReadAllAsync and its File.Move, the list an operation works on is still
\* what the file says, or is empty because the read failed, and then the file
\* still holds what the rename will destroy.  Without the semaphore one of
\* them would silently overwrite the other's batches.
WorksOnCurrentFile ==
    \A c \in Callers : at[c] \in {"create", "serialize", "move"} =>
        IF unread[c] THEN pending[c] = <<>> /\ ReadAll # <<>> ELSE pending[c] = ReadAll
QueueConsistent == QueueTypeOK /\ WorksOnCurrentFile

\* The inductive invariant behind QueueConsistent, TornOnlyByPowerLoss and the
\* implementation of DurableQueue: only the holder of the semaphore is
\* between WaitAsync and Release, and only past its read can that have failed;
\* what it is about to rename is a whole file; until its rename, an operation
\* still has what it was called with.
InOperation(c) == at[c] \in {"wait", "read", "create", "serialize", "move"}
HolderWorks ==
    \A c \in Callers :
        /\ at[c] \in {"read", "create", "serialize", "move", "release"} => lock = c
        /\ unread[c] => at[c] \in {"create", "serialize", "move", "release"}
TempIsWhole == \A c \in Callers : at[c] = "move" => tmp = WholeFile(Rewritten(c))
HandsUntouched ==
    \A c \in Callers : InOperation(c) =>
        \/ op[c] = "Enqueue" /\ \E b \in Batch : arg[c] = <<b>>
        \/ op[c] = "Drain" /\ held[c] = <<>>
        \/ op[c] = "Requeue" /\ arg[c] = held[c]
QueueIInv == QueueConsistent /\ HolderWorks /\ TempIsWhole /\ HandsUntouched

\* At file level the queue does what DurableQueue promises: every operation
\* takes effect at one instant, in full or not at all, on the list there was
\* or, only if its own read failed, on an empty one in its place; the list it
\* then destroys is counted as a loss.
Abstract == INSTANCE DurableQueue WITH queue <- ReadAll
ImplementsDurableQueue == Abstract!Spec

\* No operation waits for ever: the semaphore is released on every path,
\* I/O errors included.
EveryCallReturns == \A c \in Callers : at[c] = "wait" ~> at[c] = "idle"
=============================================================================
