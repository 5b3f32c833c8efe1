------------------------------ MODULE MCPresence ------------------------------
(* One Agent with the default threshold of the sweep and two printers, one   *)
(* whose tenant has set a threshold longer than the default, with and        *)
(* without the sweep.                                                        *)
EXTENDS Presence, TLC

CONSTANTS a1, p1, p2
MCAgents == {a1}
MCPrinters == {p1, p2}
Either == BOOLEAN
DefaultOf == [e \in Entities |-> 1]
CustomOf == [e \in Entities |-> IF e = p1 THEN 3 ELSE 0]
MCQuota(report, move, remove, line_, fault) ==
    [k \in Kinds |-> CASE k = "report" -> report [] k = "move" -> move [] k = "remove" -> remove
                       [] k = "line" -> line_ [] k = "fault" -> fault]
\* Two printers monitored of which one is deleted; a contract line; a failed run.
MCQuotas == {MCQuota(2, 2, 1, 0, 0), MCQuota(1, 2, 1, 1, 0), MCQuota(2, 1, 0, 0, 1)}
=============================================================================
