------------------------------ MODULE Enrollment ------------------------------
(***************************************************************************)
(* How an installed Agent gets its permanent key.  One slot (a row of the  *)
(* agents table), the machines the operator installs its token on, and the *)
(* enroll requests between them, which take a while (argon2) and outlive   *)
(* the client that gave up on them.                                        *)
(*                                                                         *)
(* Tokens and secrets are numbered in the order they are generated.        *)
(***************************************************************************)
EXTENDS Integers, FiniteSets

CONSTANTS
    Machines,   \* installations of the Agent
    Requests,   \* enroll requests in flight together
    NoRequest,
    MaxTokens,  \* bound: tokens generated for the slot
    MaxFaults   \* bound: answers lost, services stopped or killed

ASSUME EnrollmentAssumption ==
    /\ IsFiniteSet(Requests)
    /\ NoRequest \notin Requests
    /\ MaxTokens \in Nat \ {0}
    /\ MaxFaults \in Nat

VARIABLES
    \* the slot
    token,     \* enrollmentToken, 0 for null
    expired,   \* enrollmentTokenExpiresAt has passed
    keyHash,   \* the secret apiKeyHash is the hash of, 0 for null
    agentStatus,
    \* the machines
    settings,  \* the token in appsettings.json, 0 if none
    stored,    \* the secret in credentials.dat
    awaiting,  \* the request EnsureEnrolledAsync waits for
    \* the wire and the API
    req,
    \* observation only
    tokens,    \* tokens generated so far
    secrets,   \* secrets generated so far
    redeemed,  \* how often each token has been redeemed
    revoked,   \* secrets whose hash has been overwritten
    faults

slotVars == <<token, expired, keyHash, agentStatus>>
enrollVars == <<token, expired, keyHash, agentStatus, settings, stored, awaiting, req,
               tokens, secrets, redeemed, revoked, faults>>

Missing == 0
Unreadable == -1  \* half written, or DPAPI cannot decrypt it

Token == 1..MaxTokens
Secret == Nat \ {0}
FreeRequest == [phase |-> "free", token |-> 0, secret |-> 0]

EnrollTypeOK ==
    /\ token \in Token \cup {0}
    /\ expired \in BOOLEAN
    /\ keyHash \in Secret \cup {0}
    /\ agentStatus \in {"PENDING", "ONLINE"}
    /\ settings \in [Machines -> Token \cup {0}]
    /\ stored \in [Machines -> Secret \cup {Missing, Unreadable}]
    /\ awaiting \in [Machines -> Requests \cup {NoRequest}]
    /\ req \in [Requests -> [phase: {"free", "sent", "found", "issued", "rejected"},
                             token: Token \cup {0}, secret: Secret \cup {0}]]
    /\ tokens \in Token
    /\ secrets \in Secret \cup {0}
    /\ redeemed \in [Token -> Nat]
    /\ revoked \in SUBSET Secret
    /\ faults \in 0..MaxFaults

\* createEnrollment has made the slot and its first token.
EnrollInit ==
    /\ token = 1
    /\ expired = FALSE
    /\ keyHash = 0
    /\ agentStatus = "PENDING"
    /\ settings = [m \in Machines |-> 0]
    /\ stored = [m \in Machines |-> Missing]
    /\ awaiting = [m \in Machines |-> NoRequest]
    /\ req = [r \in Requests |-> FreeRequest]
    /\ tokens = 1
    /\ secrets = 0
    /\ redeemed = [t \in Token |-> 0]
    /\ revoked = {}
    /\ faults = 0

-----------------------------------------------------------------------------
(* The operator.                                                           *)

\* The installer, which stops a running service first (GiveUp, if it awaits
\* an answer), writes the slot's token into appsettings.json and starts the
\* service; credentials of an earlier installation stay where they are.
Install(m) ==
    /\ token # 0
    /\ awaiting[m] = NoRequest
    /\ settings' = [settings EXCEPT ![m] = token]
    /\ UNCHANGED <<slotVars, stored, awaiting, req, tokens, secrets, redeemed, revoked, faults>>

\* An UPDATE by id: whatever is in flight, the key stays as it is.
RegenerateToken ==
    /\ tokens < MaxTokens
    /\ tokens' = tokens + 1
    /\ token' = tokens'
    /\ expired' = FALSE
    /\ agentStatus' = "PENDING"
    /\ UNCHANGED <<keyHash, settings, stored, awaiting, req, secrets, redeemed, revoked, faults>>

Expire ==
    /\ token # 0
    /\ expired' = TRUE
    /\ UNCHANGED <<token, keyHash, agentStatus, settings, stored, awaiting, req,
                   tokens, secrets, redeemed, revoked, faults>>

-----------------------------------------------------------------------------
(* The Agent.                                                              *)

\* Load() returns null for a missing and for an unreadable file.
Load(m) == IF stored[m] \in Secret THEN stored[m] ELSE 0

\* EnsureEnrolledAsync with no credentials: redeem the configured token.
Redeem(m, r) ==
    /\ awaiting[m] = NoRequest
    /\ Load(m) = 0
    /\ settings[m] # 0
    /\ req[r].phase = "free"
    /\ req' = [req EXCEPT ![r] = [phase |-> "sent", token |-> settings[m], secret |-> 0]]
    /\ awaiting' = [awaiting EXCEPT ![m] = r]
    /\ UNCHANGED <<slotVars, settings, stored, tokens, secrets, redeemed, revoked, faults>>

Answered(m, phase) ==
    /\ awaiting[m] # NoRequest
    /\ req[awaiting[m]].phase = phase
    /\ awaiting' = [awaiting EXCEPT ![m] = NoRequest]
    /\ req' = [req EXCEPT ![awaiting[m]] = FreeRequest]
    /\ UNCHANGED <<slotVars, settings, tokens, secrets, redeemed, revoked>>

\* Mutant: the credentials are not saved.
KeepInMemory(m) ==
    /\ Answered(m, "issued")
    /\ UNCHANGED <<stored, faults>>

\* The answer arrives and Save writes the credentials ...
SaveCredentials(m) ==
    /\ Answered(m, "issued")
    /\ stored' = [stored EXCEPT ![m] = req[awaiting[m]].secret]
    /\ UNCHANGED faults

\* ... or is killed while WriteAllBytes has the file truncated.
DieSaving(m) ==
    /\ faults < MaxFaults
    /\ faults' = faults + 1
    /\ Answered(m, "issued")
    /\ stored' = [stored EXCEPT ![m] = Unreadable]

\* EnsureSuccessStatusCode throws, the service stops and is started again.
StopRejected(m) ==
    /\ Answered(m, "rejected")
    /\ UNCHANGED <<stored, faults>>

\* A timeout, a broken connection, a service stopped or killed: the request
\* lives on.
GiveUp(m) ==
    /\ faults < MaxFaults
    /\ faults' = faults + 1
    /\ awaiting[m] # NoRequest
    /\ awaiting' = [awaiting EXCEPT ![m] = NoRequest]
    /\ UNCHANGED <<slotVars, settings, stored, req, tokens, secrets, redeemed, revoked>>

\* AgentAuthGuard verifies the secret against the stored hash.
Works(m) == Load(m) # 0 /\ keyHash = Load(m)

\* A refused heartbeat changes nothing, and the Agent carries on.
Heartbeat(m) ==
    /\ Load(m) # 0
    /\ agentStatus' = IF Works(m) THEN "ONLINE" ELSE agentStatus
    /\ UNCHANGED <<token, expired, keyHash, settings, stored, awaiting, req,
                   tokens, secrets, redeemed, revoked, faults>>

-----------------------------------------------------------------------------
(* The API's enroll.                                                       *)

Valid(t) == token = t /\ ~expired

\* findUnique by token; then the secret is generated and hashed.
FindToken(r) ==
    /\ req[r].phase = "sent"
    /\ Valid(req[r].token)
    /\ secrets' = secrets + 1
    /\ req' = [req EXCEPT ![r].phase = "found", ![r].secret = secrets']
    /\ UNCHANGED <<slotVars, settings, stored, awaiting, tokens, redeemed, revoked, faults>>

RejectToken(r) ==
    /\ req[r].phase = "sent"
    /\ ~Valid(req[r].token)
    /\ req' = [req EXCEPT ![r].phase = "rejected"]
    /\ UNCHANGED <<slotVars, settings, stored, awaiting, tokens, secrets, redeemed, revoked, faults>>

Overwritten == IF keyHash = 0 THEN {} ELSE {keyHash}

\* Mutant: the update may run again (a retry at the database client).
IssueAgain(r) ==
    /\ req[r].phase \in {"found", "issued"}
    /\ keyHash' = req[r].secret
    /\ revoked' = revoked \cup (Overwritten \ {keyHash'})
    /\ token' = 0
    /\ agentStatus' = "ONLINE"
    /\ req' = [req EXCEPT ![r].phase = "issued"]
    /\ redeemed' = [redeemed EXCEPT ![req[r].token] = 1]
    /\ UNCHANGED <<expired, settings, stored, awaiting, tokens, secrets, faults>>

\* Mutant: every request is answered with the same secret.
IssueFirst(r) ==
    /\ req[r].phase = "found"
    /\ keyHash' = 1
    /\ token' = 0
    /\ agentStatus' = "ONLINE"
    /\ req' = [req EXCEPT ![r].phase = "issued", ![r].secret = 1]
    /\ redeemed' = [redeemed EXCEPT ![req[r].token] = @ + 1]
    /\ UNCHANGED <<expired, settings, stored, awaiting, tokens, secrets, revoked, faults>>

\* Mutant: the token is not cleared.
IssueKeepingToken(r) ==
    /\ req[r].phase = "found"
    /\ keyHash' = req[r].secret
    /\ revoked' = revoked \cup Overwritten
    /\ agentStatus' = "ONLINE"
    /\ req' = [req EXCEPT ![r].phase = "issued"]
    /\ redeemed' = [redeemed EXCEPT ![req[r].token] = 1]
    /\ UNCHANGED <<token, expired, settings, stored, awaiting, tokens, secrets, faults>>

\* update({ where: { id } }): whatever the row says by now.
IssueKey(r) ==
    /\ req[r].phase = "found"
    /\ keyHash' = req[r].secret
    /\ revoked' = revoked \cup Overwritten
    /\ token' = 0
    /\ agentStatus' = "ONLINE"
    /\ req' = [req EXCEPT ![r].phase = "issued"]
    /\ redeemed' = [redeemed EXCEPT ![req[r].token] = @ + 1]
    /\ UNCHANGED <<expired, settings, stored, awaiting, tokens, secrets, faults>>

\* The answer to a request nobody waits for any more.
LoseAnswer(r) ==
    /\ \A m \in Machines : awaiting[m] # r
    /\ req[r].phase \in {"issued", "rejected"}
    /\ req' = [req EXCEPT ![r] = FreeRequest]
    /\ UNCHANGED <<slotVars, settings, stored, awaiting, tokens, secrets, redeemed, revoked, faults>>

-----------------------------------------------------------------------------
AgentStep(m) ==
    \/ \E r \in Requests : Redeem(m, r)
    \/ SaveCredentials(m)
    \/ StopRejected(m)

ApiStep(r) == FindToken(r) \/ RejectToken(r) \/ IssueKey(r) \/ LoseAnswer(r)

EnrollNext ==
    \/ \E m \in Machines :
        \/ Install(m)
        \/ AgentStep(m)
        \/ DieSaving(m)
        \/ GiveUp(m)
        \/ Heartbeat(m)
    \/ RegenerateToken
    \/ Expire
    \/ \E r \in Requests : ApiStep(r)

EnrollSpec == EnrollInit /\ [][EnrollNext]_enrollVars

\* The installer starts the service, which asks at once; the API serves its
\* requests.
EnrollFairSpec ==
    /\ EnrollSpec
    /\ \A m \in Machines : WF_enrollVars(AgentStep(m))
    /\ \A r \in Requests : WF_enrollVars(ApiStep(r))

-----------------------------------------------------------------------------
(* Properties.                                                             *)

\* However many machines redeem however many tokens, the slot answers to at
\* most one of them.
OneMachineWorks == \A m, n \in Machines : Works(m) /\ Works(n) => m = n

\* The slot is never dead: it has a key, or a token to get one with.
SlotUsable == token # 0 \/ keyHash # 0

\* "Single-use, cleared after enrollment" (schema.prisma): a token that has
\* been redeemed is not the slot's, whichever of the requests let in with it
\* redeemed it, and whether or not a newer token was cleared with it.
RedeemedIsSpent == token # 0 => redeemed[token] = 0
Consistent == EnrollTypeOK /\ SlotUsable /\ RedeemedIsSpent

\* A key that has been replaced never works again, not even through a late
\* enroll request of the past.
RevokedStaysRevoked == keyHash \notin revoked

\* A machine without readable credentials that is installed with the slot's
\* current token gets a working key, whatever has happened to the slot and to
\* its requests before, unless it is disturbed: a fault, a newer token, the
\* token's expiry, or the token given to another machine as well.
EnrollsUnlessDisturbed ==
    \A m \in Machines, f \in 0..MaxFaults, k \in Token :
        /\ Load(m) = 0
        /\ settings[m] = k /\ Valid(k) /\ tokens = k
        /\ \A r \in Requests : req[r].phase = "free"
        /\ faults = f
        ~> \/ Works(m)
           \/ faults > f \/ tokens > k \/ expired
           \/ \E n \in Machines \ {m} : settings[n] = k
=============================================================================
