---------------------------- MODULE DurableQueue ----------------------------
(***************************************************************************)
(* What OfflineQueue promises its callers: a bounded durable list with     *)
(* three atomic operations.  A caller that drains the list holds its       *)
(* batches in memory until it has settled them (delivered them) or put the *)
(* rest back; a crash of the process empties its hands and nothing else.   *)
(* Two things may empty the list itself, and both are counted: a power     *)
(* loss, and an operation that finds the list unreadable and goes on as if *)
(* there were none.                                                        *)
(* OfflineQueue (the file-level model) and AgentPipeline (the Agent loop   *)
(* that uses the queue) are both shown to implement it.                    *)
(***************************************************************************)
EXTENDS BatchSequences, Naturals

CONSTANTS Batch, Callers, MaxEntries

VARIABLES
    queue,  \* what is durable
    held,   \* what each caller has drained and not settled yet
    losses  \* power losses and failed reads

vars == <<queue, held, losses>>

Init ==
    /\ queue = <<>>
    /\ held = [c \in Callers |-> <<>>]
    /\ losses = 0

\* An operation works on the list there is, or on none.
Read(list) ==
    \/ list = queue /\ losses' = losses
    \/ list = <<>> /\ losses' = losses + 1

\* Append, then drop the oldest entries over the bound.
Enqueue(b, list) ==
    /\ queue' = KeepNewest(Append(list, b), MaxEntries)
    /\ UNCHANGED held

Drain(c, list) ==
    /\ held[c] = <<>>
    /\ held' = [held EXCEPT ![c] = list]
    /\ queue' = <<>>

\* The caller got rid of one of the batches it holds.
Settle(c) ==
    /\ \E i \in DOMAIN held[c] : held' = [held EXCEPT ![c] = Without(@, i)]
    /\ UNCHANGED <<queue, losses>>

\* What is left goes back in front of whatever was queued meanwhile.
Requeue(c, list) ==
    /\ queue' = held[c] \o list
    /\ held' = [held EXCEPT ![c] = <<>>]

\* A requeue that fails (the file cannot be written) loses the caller's hand.
Forget(c) ==
    /\ held' = [held EXCEPT ![c] = <<>>]
    /\ UNCHANGED <<queue, losses>>

Crash ==
    /\ held' = [c \in Callers |-> <<>>]
    /\ UNCHANGED <<queue, losses>>

PowerLoss ==
    /\ losses' = losses + 1
    /\ held' = [c \in Callers |-> <<>>]
    /\ queue' \in {queue, <<>>}

Next ==
    \/ \E list \in {queue, <<>>} :
        /\ Read(list)
        /\ \/ \E b \in Batch : Enqueue(b, list)
           \/ \E c \in Callers : Drain(c, list) \/ Requeue(c, list)
    \/ \E c \in Callers : Settle(c) \/ Forget(c)
    \/ Crash \/ PowerLoss

Spec == Init /\ [][Next]_vars
=============================================================================
