---------------------------- MODULE MCAgentUpdate ----------------------------
(* Two files, three versions of which one does not start; releases are       *)
(* published and withdrawn, the user reinstalls, and several things fail.    *)
EXTENDS AgentUpdate, TLC

MCQuota(release, user, times, faults) ==
    [k \in Kinds |-> CASE k = "release" -> release [] k = "user" -> user
                       [] k \in faults -> times [] OTHER -> 0]
NothingHappens == MCQuota(0, 0, 0, {})

MCQuotas == {NothingHappens,
             MCQuota(4, 0, 0, {}), MCQuota(2, 0, 1, {"kill", "clean", "wipe", "restore", "reboot"}),
             MCQuota(1, 0, 2, {"kill", "wipe", "reboot"}), MCQuota(2, 0, 2, {"slow", "reboot"}),
             MCQuota(2, 0, 1, {"stop", "clear", "backup"}),
             MCQuota(1, 3, 0, {}), MCQuota(1, 2, 1, {"copy", "kill"}), MCQuota(1, 2, 1, {"slow"}),
             MCQuota(0, 2, 1, {"stop", "reboot"}), MCQuota(1, 2, 1, {"wipe"})}
=============================================================================
