----------------------------- MODULE MCSessions -----------------------------
(* One session, two calls, two expiries of an access token, and perhaps the  *)
(* user's doings or a failed connection besides.                             *)
EXTENDS Sessions

MCKinds == {"login", "expiry", "ending", "fault"}
Quota(login, expiry, ending, fault) ==
    [k \in MCKinds |-> CASE k = "login" -> login [] k = "expiry" -> expiry
                         [] k = "ending" -> ending [] k = "fault" -> fault]
MCQuotas == {Quota(1, 2, 0, 0), Quota(1, 2, 2, 1)}
=============================================================================
