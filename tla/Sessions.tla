------------------------------- MODULE Sessions -------------------------------
(***************************************************************************)
(* A user's session: one tab of the web application with its calls to the  *)
(* API, the tokens it stores, and the refresh tokens of the API.  Access   *)
(* tokens live for minutes; the first call that is answered 401 renews     *)
(* them for all the others, and refresh tokens are rotated at each use.    *)
(*                                                                         *)
(* A pair of tokens is its number in order of issue: access token i and    *)
(* refresh token i were issued together.  Passwords are left out, and so   *)
(* are other tabs of the same browser and page reloads.                    *)
(***************************************************************************)
EXTENDS Integers, Sequences

CONSTANTS
    Calls,  \* calls the page may have under way
    Kinds,  \* what happens: "login", "expiry", "ending", "fault"
    Quotas, \* bound: how often each kind may happen, one function or another
    None

VARIABLES
    \* the tab
    page,    \* "login" or "app"
    storage, \* the stored tokens; the user's data comes and goes with the refresh token
    promise, \* refreshPromise: the call whose handler made it, or None
    calls,
    \* the API
    rows,    \* RefreshToken rows
    expired, \* access tokens 1..expired are past their time
    active,  \* User.status = ACTIVE
    links,   \* unused PasswordResetToken rows
    \* observation only
    lasts,   \* the user logged in, no refresh token has expired since, nobody ended it
    quota

vars == <<page, storage, promise, calls, rows, expired, active, links, lasts, quota>>
api == <<rows, expired, active, links>>

Token == DOMAIN rows
Row == [revoked: BOOLEAN, expired: BOOLEAN]
\* sent: at the API; denied: answered 401.  The call that renews is posted,
\* found, revoked (where refresh() is), then renewed or refused (answered);
\* the calls that await its promise are waiting.  active: what refresh() read.
Step == {"idle", "sent", "denied", "posted", "found", "revoked", "renewed", "refused", "waiting"}
Call == [step: Step, retried: BOOLEAN, token: Nat \cup {None}, active: BOOLEAN]
Idle == [step |-> "idle", retried |-> FALSE, token |-> None, active |-> FALSE]
SignedOut == [access |-> None, refresh |-> None]

TypeOK ==
    /\ page \in {"login", "app"}
    /\ storage \in [access: Token \cup {None}, refresh: Token \cup {None}]
    /\ promise \in Calls \cup {None}
    /\ calls \in [Calls -> Call]
    /\ rows \in Seq(Row)
    /\ expired \in 0..Len(rows)
    /\ active \in BOOLEAN
    /\ links \in Nat
    /\ lasts \in BOOLEAN
    /\ quota \in [Kinds -> Nat]

Init ==
    /\ page = "login"
    /\ storage = SignedOut
    /\ promise = None
    /\ calls = [c \in Calls |-> Idle]
    /\ rows = <<>>
    /\ expired = 0
    /\ active = TRUE
    /\ links = 0
    /\ lasts = FALSE
    /\ quota \in Quotas

Spend(kind) == quota[kind] > 0 /\ quota' = [quota EXCEPT ![kind] = @ - 1]

IssueTokenPair == rows' = Append(rows, [revoked |-> FALSE, expired |-> FALSE])
Revoked(row) == [row EXCEPT !.revoked = TRUE]

-----------------------------------------------------------------------------
(* The page and the handlers of api-client.                                *)

Login ==
    /\ page = "login"
    /\ active
    /\ Spend("login")
    /\ IssueTokenPair
    /\ storage' = [access |-> Len(rows'), refresh |-> Len(rows')]
    /\ page' = "app"
    /\ lasts' = TRUE
    /\ UNCHANGED <<promise, calls, expired, active, links>>

\* The request handler adds the stored access token.
Send(c) ==
    /\ page = "app"
    /\ calls[c].step = "idle"
    /\ calls' = [calls EXCEPT ![c] = [Idle EXCEPT !.step = "sent", !.token = storage.access]]
    /\ UNCHANGED <<page, storage, promise, api, lasts, quota>>

\* The guard of the API: an access token in its time, of an active user.
Valid(token) == token # None /\ token > expired /\ active

Answer(c) ==
    /\ calls[c].step = "sent"
    /\ calls' = [calls EXCEPT ![c] = IF Valid(@.token) THEN Idle ELSE [@ EXCEPT !.step = "denied"]]
    /\ UNCHANGED <<page, storage, promise, api, lasts, quota>>

\* A call is tried again once.
Reject(c) ==
    /\ calls[c].step = "denied" /\ calls[c].retried
    /\ calls' = [calls EXCEPT ![c] = Idle]
    /\ UNCHANGED <<page, storage, promise, api, lasts, quota>>

\* refreshPromise ??= refreshAccessToken()
StartRenewal(c) ==
    /\ calls[c].step = "denied" /\ ~calls[c].retried
    /\ promise = None
    /\ storage.refresh # None
    /\ promise' = c
    /\ calls' = [calls EXCEPT ![c].step = "posted", ![c].token = storage.refresh]
    /\ UNCHANGED <<page, storage, api, lasts, quota>>

JoinRenewal(c) ==
    /\ calls[c].step = "denied" /\ ~calls[c].retried
    /\ promise # None
    /\ calls' = [calls EXCEPT ![c].step = "waiting"]
    /\ UNCHANGED <<page, storage, promise, api, lasts, quota>>

\* window.location.href = "/login": the page with all its calls is gone.
ToLogin ==
    /\ page' = "login"
    /\ promise' = None
    /\ calls' = [c \in Calls |-> Idle]

NothingToRenew(c) ==
    /\ calls[c].step = "denied" /\ ~calls[c].retried
    /\ promise = None
    /\ storage.refresh = None
    /\ ToLogin
    /\ UNCHANGED <<storage, api, lasts, quota>>

\* The new access token is stored, and every call that awaited it is sent
\* again.  The refresh token of the answer is not taken.
TakeRenewed(c) ==
    /\ calls[c].step = "renewed"
    /\ storage' = [storage EXCEPT !.access = calls[c].token]
    /\ promise' = None
    /\ calls' = [d \in Calls |->
           IF d = c \/ calls[d].step = "waiting"
           THEN [Idle EXCEPT !.step = "sent", !.retried = TRUE, !.token = calls[c].token]
           ELSE calls[d]]
    /\ UNCHANGED <<page, api, lasts, quota>>

TakeRefused(c) ==
    /\ calls[c].step = "refused"
    /\ storage' = SignedOut
    /\ ToLogin
    /\ UNCHANGED <<api, lasts, quota>>

\* The connection fails before or after the API handles a request.  Whatever
\* made it fail, a renewal that fails signs the user out.
ConnectionFails(c) ==
    /\ Spend("fault")
    /\ \/ /\ calls[c].step = "sent"
          /\ calls' = [calls EXCEPT ![c] = Idle]
          /\ UNCHANGED <<page, storage, promise, lasts>>
       \/ /\ calls[c].step \in {"posted", "renewed", "refused"}
          /\ storage' = SignedOut
          /\ lasts' = FALSE
          /\ ToLogin
    /\ UNCHANGED api

\* The storage is cleared whether the API hears of it or not; calls that are
\* under way go on.
Logout ==
    /\ page = "app"
    /\ storage.refresh # None
    /\ \/ rows' = [rows EXCEPT ![storage.refresh] = Revoked(@)] /\ Spend("ending")
       \/ rows' = rows /\ Spend("fault")
    /\ storage' = SignedOut
    /\ page' = "login"
    /\ lasts' = FALSE
    /\ UNCHANGED <<promise, calls, expired, active, links>>

-----------------------------------------------------------------------------
(* The API: refresh() statement by statement.                              *)

Find(c) ==
    /\ calls[c].step = "posted"
    /\ LET row == rows[calls[c].token]
       IN  calls' = [calls EXCEPT ![c].step = IF row.revoked \/ row.expired THEN "refused" ELSE "found",
                                  ![c].active = active]
    /\ UNCHANGED <<page, storage, promise, api, lasts, quota>>

Revoke(c) ==
    /\ calls[c].step = "found"
    /\ rows' = [rows EXCEPT ![calls[c].token] = Revoked(@)]
    /\ calls' = [calls EXCEPT ![c].step = IF calls[c].active THEN "revoked" ELSE "refused"]
    /\ UNCHANGED <<page, storage, promise, expired, active, links, lasts, quota>>

Issue(c) ==
    /\ calls[c].step = "revoked"
    /\ IssueTokenPair
    /\ calls' = [calls EXCEPT ![c].step = "renewed", ![c].token = Len(rows')]
    /\ UNCHANGED <<page, storage, promise, expired, active, links, lasts, quota>>

ForgotPassword ==
    /\ active
    /\ Spend("ending")
    /\ links' = links + 1
    /\ UNCHANGED <<page, storage, promise, calls, rows, expired, active, lasts>>

\* Every refresh token the user has is revoked.
ResetPassword ==
    /\ links > 0
    /\ links' = links - 1
    /\ rows' = [i \in DOMAIN rows |-> Revoked(rows[i])]
    /\ lasts' = FALSE
    /\ UNCHANGED <<page, storage, promise, calls, expired, active, quota>>

\* deactivate and activate; remove also deactivates.
SetActive(on) ==
    /\ active # on
    /\ Spend("ending")
    /\ active' = on
    /\ lasts' = (lasts /\ on)
    /\ UNCHANGED <<page, storage, promise, calls, rows, expired, links>>

\* JWT_ACCESS_EXPIRES_IN, minutes.
AccessExpires ==
    /\ Spend("expiry")
    /\ expired' \in (expired + 1)..Len(rows)
    /\ UNCHANGED <<page, storage, promise, calls, rows, active, links, lasts>>

\* JWT_REFRESH_EXPIRES_IN, days.
SessionExpires(i) ==
    /\ ~rows[i].expired
    /\ Spend("expiry")
    /\ rows' = [rows EXCEPT ![i].expired = TRUE]
    /\ lasts' = FALSE
    /\ UNCHANGED <<page, storage, promise, calls, expired, active, links>>

-----------------------------------------------------------------------------
OfCall(c) ==
    \/ Send(c) \/ Answer(c) \/ Reject(c)
    \/ StartRenewal(c) \/ JoinRenewal(c) \/ NothingToRenew(c)
    \/ TakeRenewed(c) \/ TakeRefused(c) \/ ConnectionFails(c)
    \/ Find(c) \/ Revoke(c) \/ Issue(c)

Next ==
    \/ Login
    \/ \E c \in Calls : OfCall(c)
    \/ Logout
    \/ ForgotPassword
    \/ ResetPassword
    \/ \E on \in BOOLEAN : SetActive(on)
    \/ AccessExpires
    \/ \E i \in DOMAIN rows : SessionExpires(i)

Spec == Init /\ [][Next]_vars

-----------------------------------------------------------------------------
(* Properties.                                                             *)

\* Nobody is sent to the login page during a session: as long as no refresh
\* token is past its time and no one logged out, reset the password, deactivated
\* the user or lost the connection, the renewals keep the user signed in.
SignedInWhileItLasts == lasts => storage.refresh # None
=============================================================================
