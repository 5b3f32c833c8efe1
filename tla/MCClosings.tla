----------------------------- MODULE MCClosings -----------------------------
(* Two months of a tick each, two brackets that meet at the second page.    *)
EXTENDS Closings, TLC

MCMonthStart == [m \in 1..3 |-> CASE m = 1 -> 0 [] m = 2 -> 1 [] m = 3 -> 2]
MCTiers == {[from |-> 1, to |-> 1, price |-> 333], [from |-> 2, to |-> None, price |-> 250]}
MCQuota(print, read, fault, edit, fee, closing) ==
    [k \in Kinds |-> CASE k = "print" -> print [] k = "read" -> read [] k = "fault" -> fault
                       [] k = "edit" -> edit [] k = "fee" -> fee [] k = "closing" -> closing]
\* Closings and freezes; with a fault; with an edit, with two; the fee alone; with a closing.
MCQuotas == {MCQuota(2, 3, 0, 0, 0, 3), MCQuota(2, 3, 1, 0, 0, 2), MCQuota(2, 2, 0, 1, 0, 2),
             MCQuota(1, 2, 0, 2, 0, 1),
             MCQuota(0, 0, 0, 0, 4, 0), MCQuota(0, 0, 0, 0, 2, 1)}
Symmetry == Permutations(Generators) \cup Permutations(Appliers)
=============================================================================
