----------------------------- MODULE MCAgentFiles -----------------------------
(* The two sets of files the Agent keeps on its machine.  Neither OfflineQueue *)
(* nor AgentUpdate touches the other's, so they are explored one at a time:   *)
(* the queue under the mix of AgentUpdate in which nothing happens.           *)
(*                                                                            *)
(* The queue: two callers, as many as its semaphore needs to matter, share    *)
(* two entries; three batches, so that one can be dropped while others are in *)
(* a drained list, and two faults, so that a crash can follow an I/O error.   *)
EXTENDS MCAgentUpdate, OfflineQueue

CONSTANTS c1, c2
MCCallers == {c1, c2}

QueueMix ==
    /\ releases = <<>> /\ struck = {} /\ quota = NothingHappens
    /\ QueueNext
    /\ UNCHANGED vars
UpdateMix == Next /\ UNCHANGED queueVars

FilesInit == QueueInit /\ Init
FilesSpec ==
    /\ FilesInit
    /\ [][QueueMix \/ UpdateMix]_<<queueVars, vars>>
    /\ \A c \in Callers : WF_queueVars(Step(c)) /\ SF_queueVars(WaitAsync(c))
    /\ Fairness
=============================================================================
