--------------------------- MODULE BatchSequences ---------------------------
(***************************************************************************)
(* What the Agent does with a List<SubmitDevicesRequest>.  A batch is      *)
(* whatever one discovery or collection cycle found; only its identity     *)
(* (CollectionId) matters to the queue, so batches are plain values here.  *)
(***************************************************************************)
EXTENDS Integers, Sequences

\* The batches of a list, without their order.
BatchesIn(s) == {s[i] : i \in DOMAIN s}

\* EnqueueAsync's overflow rule: pending.Skip(Count - OfflineQueueMaxEntries).
KeepNewest(s, max) ==
    IF Len(s) > max THEN SubSeq(s, Len(s) - max + 1, Len(s)) ELSE s

\* A list with its i-th element taken out.
Without(s, i) == SubSeq(s, 1, i - 1) \o SubSeq(s, i + 1, Len(s))

\* Collection order: batches are numbered in the order they were collected.
InCollectionOrder(s) == \A i, j \in DOMAIN s : i < j => s[i] < s[j]
=============================================================================
