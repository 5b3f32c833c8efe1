--------------------------- MODULE MCServiceOrders ---------------------------
(***************************************************************************)
(* Two creations and two updates at once, SLAs of no or one tick, and a    *)
(* printer with a contract of its own, which promises less time than the   *)
(* customer's other one.                                                   *)
(***************************************************************************)
EXTENDS ServiceOrders, TLC

MCQuota(create, update, alert, fault, tick) ==
    [k \in Kinds |-> CASE k = "create" -> create [] k = "update" -> update [] k = "alert" -> alert
                       [] k = "fault" -> fault [] k = "tick" -> tick]
MCQuotas == {MCQuota(2, 0, 0, 1, 0), MCQuota(1, 2, 0, 0, 0), MCQuota(1, 1, 1, 0, 1),
             MCQuota(1, 0, 2, 1, 2), MCQuota(1, 1, 0, 1, 0)}
TwoContracts == {[own |-> TRUE, hours |-> 0], [own |-> FALSE, hours |-> 1]}
=============================================================================
