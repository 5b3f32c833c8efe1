-------------------------- MODULE MCAgentPipeline ---------------------------
(* Three batches over a queue of two entries, two requests (one awaited,    *)
(* one orphan).  The API always refuses batch 1; batch 2 has no collectionId. *)
EXTENDS AgentPipeline, TLC

CONSTANTS r1, r2
MCRequests == {r1, r2}
First == {1}
Second == {2}
=============================================================================
