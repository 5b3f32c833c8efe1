----------------------------- MODULE AgentsProofs -----------------------------
(***************************************************************************)
(* An Agent's key and its presence.                                        *)
(*                                                                         *)
(* Enrollment: for any machines, any requests and any number of tokens,    *)
(* one machine at most works, a replaced key never works again, the slot   *)
(* is never dead.  The argument: a secret is new when the API generates    *)
(* it, and from then on it is in one place only: in the request that       *)
(* carries it or in the credentials of the machine that got the answer.    *)
(*                                                                         *)
(* Presence: an entity is alerted about at most once per silence, for any  *)
(* number of Agents and printers and any thresholds, with one job running  *)
(* at a time.                                                              *)
(***************************************************************************)
EXTENDS Enrollment, Presence, TLAPS

Phase == {"free", "sent", "found", "issued", "rejected"}

\* Types, without the bounds that only hold of TLC's counters.
Typed ==
    /\ token \in Nat
    /\ keyHash \in Nat
    /\ settings \in [Machines -> Nat]
    /\ stored \in [Machines -> Nat \cup {Unreadable}]
    /\ awaiting \in [Machines -> Requests \cup {NoRequest}]
    /\ req \in [Requests -> [phase: Phase, token: Nat, secret: Nat]]
    /\ tokens \in Nat \ {0}
    /\ secrets \in Nat
    /\ revoked \in SUBSET Nat

\* Every secret there is has been generated.
Generated ==
    /\ keyHash <= secrets
    /\ \A s \in revoked : s <= secrets
    /\ \A m \in Machines : stored[m] <= secrets
    /\ \A r \in Requests : req[r].secret <= secrets

\* Who carries a secret, and where it has been.
Carried ==
    \A r \in Requests :
        /\ req[r].phase \in {"found", "issued"} <=> req[r].secret # 0
        /\ req[r].phase = "found" => /\ req[r].secret # keyHash
                                     /\ req[r].secret \notin revoked

CarriedOnce == \A r, q \in Requests : req[r].secret = req[q].secret /\ r # q => req[r].secret = 0

CarriedOrStored ==
    \A r \in Requests, m \in Machines : stored[m] = req[r].secret => req[r].secret = 0

StoredOnce == \A m, n \in Machines : stored[m] = stored[n] /\ m # n => stored[m] <= 0

EnrollIInv ==
    /\ Typed
    /\ Generated
    /\ Carried
    /\ CarriedOnce
    /\ CarriedOrStored
    /\ StoredOnce
    /\ SlotUsable
    /\ RevokedStaysRevoked

LEMMA InitEnroll == EnrollInit => EnrollIInv
  BY EnrollmentAssumption
  DEF EnrollInit, EnrollIInv, Typed, Generated, Carried, CarriedOnce, CarriedOrStored, StoredOnce,
      SlotUsable, RevokedStaysRevoked, FreeRequest, Missing, Phase, Unreadable

\* Steps that move no secret and take no token away.
LEMMA NoSecretMoves ==
    ASSUME EnrollIInv, Typed', UNCHANGED <<keyHash, stored, secrets, revoked>>,
           token # 0 => token' # 0,
           \A r \in Requests :
               /\ req'[r].secret = req[r].secret
               /\ req'[r].phase \in {"found", "issued"} <=> req[r].phase \in {"found", "issued"}
               /\ req'[r].phase = "found" <=> req[r].phase = "found"
    PROVE  EnrollIInv'
<1>1. Generated' /\ StoredOnce' /\ SlotUsable' /\ RevokedStaysRevoked'
  BY DEF EnrollIInv, Typed, Generated, StoredOnce, SlotUsable, RevokedStaysRevoked
<1>2. Carried' /\ CarriedOnce' /\ CarriedOrStored'
  BY DEF EnrollIInv, Carried, CarriedOnce, CarriedOrStored
<1>3. QED  BY <1>1, <1>2 DEF EnrollIInv

\* The operator, the heartbeat and the client's side of a request.
LEMMA OperatorAndClient ==
    ASSUME EnrollIInv,
           \/ RegenerateToken \/ Expire
           \/ \E m \in Machines :
                \/ Install(m) \/ GiveUp(m) \/ Heartbeat(m)
                \/ \E r \in Requests : Redeem(m, r)
    PROVE  EnrollIInv'
<1>1. CASE RegenerateToken
  <2>1. Typed' /\ token' # 0
    BY <1>1, EnrollmentAssumption DEF RegenerateToken, slotVars, EnrollIInv, Typed
  <2>2. QED  BY <1>1, <2>1, NoSecretMoves DEF RegenerateToken
<1>2. CASE Expire
  BY <1>2, NoSecretMoves DEF Expire, EnrollIInv, Typed
<1>3. ASSUME NEW m \in Machines, Install(m) PROVE EnrollIInv'
  BY <1>3, NoSecretMoves DEF Install, slotVars, EnrollIInv, Typed
<1>4. ASSUME NEW m \in Machines, GiveUp(m) PROVE EnrollIInv'
  BY <1>4, NoSecretMoves DEF GiveUp, slotVars, EnrollIInv, Typed
<1>5. ASSUME NEW m \in Machines, Heartbeat(m) PROVE EnrollIInv'
  BY <1>5, NoSecretMoves DEF Heartbeat, EnrollIInv, Typed
<1>6. ASSUME NEW m \in Machines, NEW r \in Requests, Redeem(m, r) PROVE EnrollIInv'
  <2>1. Typed'
    BY <1>6 DEF Redeem, slotVars, EnrollIInv, Typed, Phase
  <2>2. req[r].phase = "free" /\ req[r].secret = 0
    BY <1>6 DEF Redeem, EnrollIInv, Carried
  <2>3. \A q \in Requests :
            req'[q] = IF q = r THEN [phase |-> "sent", token |-> settings[m], secret |-> 0]
                               ELSE req[q]
    BY <1>6 DEF Redeem, EnrollIInv, Typed
  <2>4. QED  BY <1>6, <2>1, <2>2, <2>3, NoSecretMoves DEF Redeem, slotVars
<1>7. QED  BY <1>1, <1>2, <1>3, <1>4, <1>5, <1>6

\* A request ends; its secret, if any, is lost or goes to one machine.
LEMMA RequestEnds ==
    ASSUME EnrollIInv, NEW r \in Requests, req[r].phase \in {"issued", "rejected"},
           req' = [req EXCEPT ![r] = FreeRequest],
           awaiting' \in [Machines -> Requests \cup {NoRequest}],
           UNCHANGED <<slotVars, settings, tokens, secrets, revoked>>,
           \/ stored' = stored
           \/ \E m \in Machines : /\ req[r].phase = "issued"
                                   /\ stored' = [stored EXCEPT ![m] = req[r].secret]
           \/ \E m \in Machines : stored' = [stored EXCEPT ![m] = Unreadable]
    PROVE  EnrollIInv'
<1>1. Typed'
  BY DEF EnrollIInv, Typed, slotVars, FreeRequest, Phase
<1>2. \A q \in Requests : req'[q] = IF q = r THEN FreeRequest ELSE req[q]
  BY DEF EnrollIInv, Typed
<1>3. SlotUsable' /\ RevokedStaysRevoked'
  BY DEF EnrollIInv, SlotUsable, RevokedStaysRevoked, slotVars
<1>4. Carried' /\ CarriedOnce'
  BY <1>2 DEF EnrollIInv, Carried, CarriedOnce, FreeRequest, slotVars
<1>5. Generated' /\ CarriedOrStored' /\ StoredOnce'
  <2>1. CASE stored' = stored
    BY <1>2, <2>1 DEF EnrollIInv, Typed, Generated, CarriedOrStored, StoredOnce, FreeRequest, slotVars
  <2>2. ASSUME NEW m \in Machines, req[r].phase = "issued",
               stored' = [stored EXCEPT ![m] = req[r].secret]
        PROVE  Generated' /\ CarriedOrStored' /\ StoredOnce'
    <3>1. \A n \in Machines : stored'[n] = IF n = m THEN req[r].secret ELSE stored[n]
      BY <2>2 DEF EnrollIInv, Typed
    <3>2. req[r].secret # 0 /\ req[r].secret <= secrets
      BY <2>2 DEF EnrollIInv, Carried, Generated
    <3>3. Generated'
      BY <1>2, <3>1, <3>2 DEF EnrollIInv, Typed, Generated, FreeRequest, slotVars
    <3>4. CarriedOrStored'
      BY <1>2, <3>1, <3>2 DEF EnrollIInv, CarriedOnce, CarriedOrStored, FreeRequest
    <3>5. StoredOnce'
      BY <3>1, <3>2 DEF EnrollIInv, CarriedOrStored, StoredOnce
    <3>6. QED  BY <3>3, <3>4, <3>5
  <2>3. ASSUME NEW m \in Machines, stored' = [stored EXCEPT ![m] = Unreadable]
        PROVE  Generated' /\ CarriedOrStored' /\ StoredOnce'
    <3>1. \A n \in Machines : stored'[n] = IF n = m THEN Unreadable ELSE stored[n]
      BY <2>3 DEF EnrollIInv, Typed
    <3>2. \A q \in Requests : req[q].secret \in Nat
      BY DEF EnrollIInv, Typed
    <3>3. Generated' /\ CarriedOrStored'
      BY <1>2, <3>1, <3>2 DEF EnrollIInv, Typed, Generated, CarriedOrStored, FreeRequest, slotVars, Unreadable
    <3>4. StoredOnce'
      BY <3>1 DEF EnrollIInv, Typed, StoredOnce, Unreadable
    <3>5. QED  BY <3>3, <3>4
  <2>4. QED  BY <2>1, <2>2, <2>3
<1>6. QED  BY <1>1, <1>3, <1>4, <1>5 DEF EnrollIInv

\* The client takes an answer, or nobody does.
LEMMA AnswerTaken ==
    ASSUME EnrollIInv,
           \/ \E m \in Machines : SaveCredentials(m) \/ DieSaving(m) \/ StopRejected(m)
           \/ \E r \in Requests : LoseAnswer(r)
    PROVE  EnrollIInv'
<1>1. ASSUME NEW m \in Machines, SaveCredentials(m) \/ DieSaving(m) \/ StopRejected(m)
      PROVE  EnrollIInv'
  <2>1. awaiting[m] \in Requests
    BY <1>1 DEF SaveCredentials, DieSaving, StopRejected, Answered, EnrollIInv, Typed
  <2>2. awaiting' \in [Machines -> Requests \cup {NoRequest}]
    BY <1>1 DEF SaveCredentials, DieSaving, StopRejected, Answered, EnrollIInv, Typed
  <2>3. QED  BY <1>1, <2>1, <2>2, RequestEnds DEF SaveCredentials, DieSaving, StopRejected, Answered
<1>2. ASSUME NEW r \in Requests, LoseAnswer(r) PROVE EnrollIInv'
  BY <1>2, RequestEnds DEF LoseAnswer, EnrollIInv, Typed
<1>3. QED  BY <1>1, <1>2

\* A new secret differs from all there are.
LEMMA FindTokenIInv ==
    ASSUME EnrollIInv, NEW r \in Requests, FindToken(r) PROVE EnrollIInv'
<1>1. secrets \in Nat /\ secrets' = secrets + 1
  BY DEF FindToken, EnrollIInv, Typed
<1>2. \A q \in Requests : /\ req'[q].phase = IF q = r THEN "found" ELSE req[q].phase
                          /\ req'[q].secret = IF q = r THEN secrets + 1 ELSE req[q].secret
  BY <1>1 DEF FindToken, EnrollIInv, Typed
<1>0. UNCHANGED <<token, keyHash, stored, settings, awaiting, tokens, revoked>>
  BY DEF FindToken, slotVars
<1>3. Typed'
  <2>1. req \in [Requests -> [phase: Phase, token: Nat, secret: Nat]] /\ secrets' \in Nat
    BY <1>1 DEF EnrollIInv, Typed
  <2>2. req' \in [Requests -> [phase: Phase, token: Nat, secret: Nat]]
    BY <2>1 DEF FindToken, Phase
  <2>3. QED  BY <1>0, <2>1, <2>2 DEF EnrollIInv, Typed
<1>4. /\ \A q \in Requests : req[q].secret \in Nat /\ req[q].secret <= secrets
      /\ \A m \in Machines : stored[m] \in Int /\ stored[m] <= secrets
      /\ \A s \in revoked : s \in Nat /\ s <= secrets
      /\ keyHash \in Nat /\ keyHash <= secrets
  BY DEF EnrollIInv, Typed, Generated, Unreadable
<1>5. Generated'
  <2>1. /\ \A q \in Requests : req'[q].secret <= secrets + 1
        /\ \A m \in Machines : stored[m] <= secrets + 1
        /\ \A s \in revoked : s <= secrets + 1
        /\ keyHash <= secrets + 1
    BY <1>1, <1>2, <1>4
  <2>2. QED  BY <1>1, <1>0, <2>1 DEF Generated
<1>6. Carried'
  <2>1. secrets + 1 # 0 /\ secrets + 1 # keyHash /\ secrets + 1 \notin revoked
    BY <1>1, <1>4
  <2>2. QED  BY <1>2, <1>0, <2>1 DEF EnrollIInv, Carried
<1>7. CarriedOnce'
  BY <1>1, <1>2, <1>4 DEF EnrollIInv, CarriedOnce
<1>8. CarriedOrStored'
  <2>1. \A m \in Machines : stored[m] # secrets + 1
    BY <1>1, <1>4
  <2>2. QED  BY <1>2, <1>0, <2>1 DEF EnrollIInv, CarriedOrStored
<1>9. StoredOnce' /\ SlotUsable' /\ RevokedStaysRevoked'
  BY DEF FindToken, slotVars, EnrollIInv, StoredOnce, SlotUsable, RevokedStaysRevoked
<1>10. QED  BY <1>3, <1>5, <1>6, <1>7, <1>8, <1>9 DEF EnrollIInv

\* A token refused: the secret stays 0.
LEMMA RejectTokenIInv ==
    ASSUME EnrollIInv, NEW r \in Requests, RejectToken(r) PROVE EnrollIInv'
<1>1. Typed'
  BY DEF RejectToken, slotVars, EnrollIInv, Typed, Phase
<1>2. \A q \in Requests : /\ req'[q].phase = IF q = r THEN "rejected" ELSE req[q].phase
                          /\ req'[q].secret = req[q].secret
  BY DEF RejectToken, EnrollIInv, Typed
<1>3. QED  BY <1>1, <1>2, NoSecretMoves DEF RejectToken, slotVars

\* The key that goes is revoked, and the one that comes is nobody else's.
LEMMA IssueKeyIInv ==
    ASSUME EnrollIInv, NEW r \in Requests, IssueKey(r) PROVE EnrollIInv'
<1>1. \A q \in Requests : /\ req'[q].phase = IF q = r THEN "issued" ELSE req[q].phase
                          /\ req'[q].secret = req[q].secret
  BY DEF IssueKey, EnrollIInv, Typed
<1>2. /\ req[r].phase = "found" /\ req[r].secret \in Nat /\ req[r].secret # 0
      /\ req[r].secret \notin revoked /\ req[r].secret # keyHash
      /\ req[r].secret <= secrets
      /\ keyHash' = req[r].secret /\ revoked' = revoked \cup Overwritten
  BY DEF IssueKey, EnrollIInv, Typed, Carried, Generated
<1>3. Typed'
  BY <1>2 DEF IssueKey, Overwritten, EnrollIInv, Typed, Phase
<1>4. Generated'
  BY <1>1, <1>2 DEF IssueKey, Overwritten, EnrollIInv, Generated
<1>5. Carried'
  <2> SUFFICES ASSUME NEW q \in Requests
               PROVE  /\ req'[q].phase \in {"found", "issued"} <=> req'[q].secret # 0
                      /\ req'[q].phase = "found" => /\ req'[q].secret # keyHash'
                                                    /\ req'[q].secret \notin revoked'
    BY DEF Carried
  <2>1. CASE q = r
    BY <1>1, <1>2, <2>1
  <2>2. CASE q # r
    BY <1>1, <1>2, <2>2 DEF EnrollIInv, Carried, CarriedOnce, Overwritten
  <2>3. QED  BY <2>1, <2>2
<1>6. CarriedOnce' /\ CarriedOrStored' /\ StoredOnce'
  BY <1>1 DEF IssueKey, EnrollIInv, CarriedOnce, CarriedOrStored, StoredOnce
<1>7. SlotUsable' /\ RevokedStaysRevoked'
  BY <1>2 DEF Overwritten, SlotUsable, RevokedStaysRevoked
<1>8. QED  BY <1>3, <1>4, <1>5, <1>6, <1>7 DEF EnrollIInv

LEMMA EnrollStep == EnrollIInv /\ [EnrollNext]_enrollVars => EnrollIInv'
<1> SUFFICES ASSUME EnrollIInv, [EnrollNext]_enrollVars PROVE EnrollIInv'
  OBVIOUS
<1>1. CASE UNCHANGED enrollVars
  BY <1>1, NoSecretMoves DEF enrollVars, slotVars, EnrollIInv, Typed
<1>2. CASE RegenerateToken \/ Expire
  BY <1>2, OperatorAndClient
<1>3. ASSUME NEW m \in Machines,
             Install(m) \/ AgentStep(m) \/ DieSaving(m) \/ GiveUp(m) \/ Heartbeat(m)
      PROVE  EnrollIInv'
  BY <1>3, OperatorAndClient, AnswerTaken DEF AgentStep
<1>4. ASSUME NEW r \in Requests, ApiStep(r) PROVE EnrollIInv'
  BY <1>4, FindTokenIInv, RejectTokenIInv, IssueKeyIInv, AnswerTaken DEF ApiStep
<1>5. QED  BY <1>1, <1>2, <1>3, <1>4 DEF EnrollNext

\* The invariant holds in every reachable state.
THEOREM EnrollInductive == EnrollSpec => []EnrollIInv
  BY InitEnroll, EnrollStep, PTL DEF EnrollSpec

\* At most one machine has a key that works, however many tokens were
\* redeemed and in whatever order enroll's updates ran.
THEOREM OnlyOneMachineWorks == EnrollSpec => []OneMachineWorks
<1>1. EnrollIInv => OneMachineWorks
  BY DEF EnrollIInv, Typed, StoredOnce, OneMachineWorks, Works, Load, Unreadable, Secret
<1>2. QED  BY <1>1, EnrollInductive, PTL

\* A key that was overwritten is never the slot's key again.
THEOREM ReplacedForGood == EnrollSpec => []RevokedStaysRevoked
<1>1. EnrollIInv => RevokedStaysRevoked
  BY DEF EnrollIInv
<1>2. QED  BY <1>1, EnrollInductive, PTL

\* The slot always has a key, or a token to get one with.
THEOREM NeverDead == EnrollSpec => []SlotUsable
<1>1. EnrollIInv => SlotUsable
  BY DEF EnrollIInv
<1>2. QED  BY <1>1, EnrollInductive, PTL

-----------------------------------------------------------------------------
(* Tokens.  None in use is newer than the last one generated, and of that  *)
(* nothing is redeemed while it is the slot's.                             *)

Spent ==
    /\ EnrollTypeOK
    /\ token \in {0, tokens}
    /\ \A m \in Machines : settings[m] <= tokens
    /\ \A r \in Requests : req[r].token <= tokens
    /\ \A t \in Token : t > tokens => redeemed[t] = 0
    /\ RedeemedIsSpent

LEMMA InitSpent == EnrollInit => Spent
<1> SUFFICES ASSUME EnrollInit PROVE Spent
  OBVIOUS
<1>1. 1 \in Token
  BY EnrollmentAssumption DEF Token
<1>2. EnrollTypeOK
  <2>1. req \in [Requests -> [phase: {"free", "sent", "found", "issued", "rejected"},
                              token: Token \cup {0}, secret: Secret \cup {0}]]
    BY DEF EnrollInit, FreeRequest
  <2>2. awaiting \in [Machines -> Requests \cup {NoRequest}] /\ redeemed \in [Token -> Nat]
    BY DEF EnrollInit
  <2>3. faults \in 0..MaxFaults
    BY EnrollmentAssumption DEF EnrollInit
  <2>4. /\ settings \in [Machines -> Token \cup {0}]
        /\ stored \in [Machines -> Secret \cup {Missing, Unreadable}]
    BY DEF EnrollInit
  <2>5. QED  BY <1>1, <2>1, <2>2, <2>3, <2>4 DEF EnrollInit, EnrollTypeOK
<1>3. QED  BY <1>1, <1>2 DEF EnrollInit, Spent, RedeemedIsSpent, FreeRequest

\* Steps that generate, redeem and take away no token.
LEMMA NoTokenMoves ==
    ASSUME Spent, EnrollTypeOK', UNCHANGED <<tokens, token, redeemed>>,
           \A m \in Machines : settings'[m] \in {settings[m], token},
           \A r \in Requests :
               \/ req'[r].token \in {0, req[r].token}
               \/ \E m \in Machines : req'[r].token = settings[m]
    PROVE  Spent'
<1>1. tokens \in Nat /\ token <= tokens
  BY DEF Spent, EnrollTypeOK, Token
<1>2. \A m \in Machines : settings'[m] <= tokens'
  BY <1>1 DEF Spent
<1>3. \A r \in Requests : req'[r].token <= tokens'
  BY <1>1 DEF Spent
<1>4. QED  BY <1>2, <1>3 DEF Spent, RedeemedIsSpent

LEMMA NextSpent == EnrollIInv /\ Spent /\ [EnrollNext]_enrollVars => Spent'
<1> SUFFICES ASSUME EnrollIInv, Spent, [EnrollNext]_enrollVars PROVE Spent'
  OBVIOUS
<1> USE EnrollmentAssumption
<1>0. CASE UNCHANGED enrollVars
  BY <1>0 DEF enrollVars, slotVars, Spent, EnrollTypeOK, RedeemedIsSpent
<1>1. CASE RegenerateToken
  <2>2. tokens \in Nat /\ tokens' = tokens + 1 /\ token' = tokens' /\ token' \in Token
    BY <1>1 DEF RegenerateToken, Spent, EnrollTypeOK, Token
  <2>1. EnrollTypeOK'
    BY <1>1, <2>2 DEF RegenerateToken, Spent, EnrollTypeOK
  <2>3. \A m \in Machines : settings[m] \in Nat
    BY DEF Spent, EnrollTypeOK, Token
  <2>4. \A r \in Requests : req[r].token \in Nat
    BY DEF Spent, EnrollTypeOK, Token
  <2>5. redeemed'[token'] = 0
    BY <1>1, <2>2 DEF RegenerateToken, Spent
  <2>6. \A t \in Token : t > tokens' => redeemed'[t] = 0
    BY <1>1, <2>2 DEF RegenerateToken, Spent, Token
  <2>7. QED  BY <1>1, <2>1, <2>2, <2>3, <2>4, <2>5, <2>6 DEF RegenerateToken, Spent, RedeemedIsSpent
<1>2. CASE Expire
  <2>1. EnrollTypeOK'
    BY <1>2 DEF Expire, Spent, EnrollTypeOK
  <2>2. QED  BY <1>2, <2>1, NoTokenMoves DEF Expire
<1>3. ASSUME NEW m \in Machines, Install(m) PROVE Spent'
  <2>1. EnrollTypeOK'
    BY <1>3 DEF Install, slotVars, Spent, EnrollTypeOK
  <2>2. \A n \in Machines : settings'[n] \in {settings[n], token}
    BY <1>3 DEF Install, Spent, EnrollTypeOK
  <2>3. QED  BY <1>3, <2>1, <2>2, NoTokenMoves DEF Install, slotVars
<1>4. ASSUME NEW m \in Machines, GiveUp(m) \/ Heartbeat(m) PROVE Spent'
  <2>1. EnrollTypeOK'
    BY <1>4 DEF GiveUp, Heartbeat, slotVars, Spent, EnrollTypeOK
  <2>2. QED  BY <1>4, <2>1, NoTokenMoves DEF GiveUp, Heartbeat, slotVars
<1>5. ASSUME NEW m \in Machines, NEW r \in Requests, Redeem(m, r) PROVE Spent'
  <2>1. EnrollTypeOK'
    BY <1>5 DEF Redeem, slotVars, Spent, EnrollTypeOK
  <2>2. \A q \in Requests : req'[q].token \in {req[q].token, settings[m]}
    BY <1>5 DEF Redeem, Spent, EnrollTypeOK
  <2>3. QED  BY <1>5, <2>1, <2>2, NoTokenMoves DEF Redeem, slotVars
<1>6. ASSUME NEW m \in Machines, SaveCredentials(m) \/ DieSaving(m) \/ StopRejected(m)
      PROVE  Spent'
  <2>1. awaiting[m] \in Requests /\ UNCHANGED <<tokens, token, redeemed, settings>>
    BY <1>6 DEF SaveCredentials, DieSaving, StopRejected, Answered, slotVars, Spent, EnrollTypeOK
  <2>2. SaveCredentials(m) => req[awaiting[m]].secret \in Secret
    BY <2>1 DEF SaveCredentials, Answered, EnrollIInv, Typed, Carried, Secret
  <2>3. EnrollTypeOK'
    BY <1>6, <2>1, <2>2
    DEF SaveCredentials, DieSaving, StopRejected, Answered, slotVars, FreeRequest, Spent, EnrollTypeOK
  <2>4. \A q \in Requests : req'[q].token \in {0, req[q].token}
    BY <1>6, <2>1 DEF SaveCredentials, DieSaving, StopRejected, Answered, FreeRequest, Spent, EnrollTypeOK
  <2>5. QED  BY <2>1, <2>3, <2>4, NoTokenMoves
<1>7. ASSUME NEW r \in Requests, FindToken(r) \/ RejectToken(r) \/ LoseAnswer(r) PROVE Spent'
  <2>1. EnrollTypeOK'
    BY <1>7 DEF FindToken, RejectToken, LoseAnswer, slotVars, FreeRequest, Spent, EnrollTypeOK, Secret
  <2>2. \A q \in Requests : req'[q].token \in {0, req[q].token}
    BY <1>7 DEF FindToken, RejectToken, LoseAnswer, FreeRequest, Spent, EnrollTypeOK
  <2>3. QED  BY <1>7, <2>1, <2>2, NoTokenMoves DEF FindToken, RejectToken, LoseAnswer, slotVars
<1>8. ASSUME NEW r \in Requests, IssueKey(r) PROVE Spent'
  <2>1. req[r].secret \in Secret
    BY <1>8 DEF IssueKey, EnrollIInv, Typed, Carried, Secret
  <2>2. redeemed' \in [Token -> Nat] /\ \A t \in Token : t > tokens => redeemed'[t] = 0
    <3>1. /\ req[r].token <= tokens /\ tokens \in Token /\ redeemed \in [Token -> Nat]
          /\ redeemed' = [redeemed EXCEPT ![req[r].token] = @ + 1]
      BY <1>8 DEF IssueKey, Spent, EnrollTypeOK
    <3>2. \A t \in Token :
              redeemed'[t] = IF t = req[r].token THEN redeemed[t] + 1 ELSE redeemed[t]
      BY <3>1
    <3>3. redeemed' \in [Token -> Nat]
      <4>1. redeemed' = [t \in Token |-> redeemed'[t]]
        BY <3>1
      <4>2. \A t \in Token : redeemed'[t] \in Nat
        BY <3>1, <3>2
      <4>3. QED  BY <4>1, <4>2
    <3>4. \A t \in Token : t > tokens => t # req[r].token
      <4>1. tokens \in Int /\ req[r].token \in Int /\ \A t \in Token : t \in Int
        BY DEF Spent, EnrollTypeOK, Token
      <4>2. QED  BY <3>1, <4>1
    <3>5. QED  BY <3>2, <3>3, <3>4 DEF Spent
  <2>3. EnrollTypeOK'
    BY <1>8, <2>1, <2>2 DEF IssueKey, Overwritten, Spent, EnrollTypeOK
  <2>4. \A q \in Requests : req'[q].token = req[q].token
    BY <1>8 DEF IssueKey, Spent, EnrollTypeOK
  <2>5. QED  BY <1>8, <2>2, <2>3, <2>4 DEF IssueKey, Spent, RedeemedIsSpent
<1>9. QED
  BY <1>0, <1>1, <1>2, <1>3, <1>4, <1>5, <1>6, <1>7, <1>8 DEF EnrollNext, AgentStep, ApiStep

\* The variables have their types, the slot can be enrolled with or is, and a
\* redeemed token is never the slot's, however many requests it let in.
THEOREM AlwaysConsistent == EnrollSpec => []Consistent
<1>1. EnrollIInv /\ Spent => Consistent
  BY DEF EnrollIInv, Spent, Consistent
<1>2. QED  BY <1>1, InitSpent, NextSpent, InitEnroll, EnrollStep, PTL DEF EnrollSpec

-----------------------------------------------------------------------------
(* Presence.                                                               *)

LEMMA InitIInv == ASSUME Init PROVE IInv
<1>1. TypeOK
  <2>1. quota \in [Kinds -> Nat]
    BY PresenceAssumption DEF Init
  <2>2. QED  BY <2>1, PresenceAssumption DEF Init, TypeOK, Place, Line
<1>2. NothingBetweenRuns
  BY DEF Init, NothingBetweenRuns
<1>3. \A e \in Entities : alerts[e] = 0 /\ reports[e] = 0 /\ Owed(e) = 0 /\ Unspent(e) = 0
  BY PresenceAssumption DEF Init, Owed, Unspent
<1>4. QED  BY <1>1, <1>2, <1>3 DEF IInv, ReportsPayForAlerts

\* Steps that leave the job and the counters alone and make nobody ONLINE.
LEMMA OnlyOffline ==
    ASSUME IInv, status' \in [Entities -> {"PENDING", "UNKNOWN", "ONLINE", "OFFLINE"}],
           \A e \in Entities : status'[e] = "ONLINE" => status[e] = "ONLINE",
           silence' \in [Entities -> 0..MaxSilence], stale' \in SUBSET Entities,
           place' \in [Printers -> Place], line' \in [Printers -> Line],
           removing' \in SUBSET Printers, deleted' \in SUBSET Printers,
           quota' \in [Kinds -> Nat],
           UNCHANGED <<sweeping, pc, todo, marking, reports, alerts>>
    PROVE  IInv'
<1>1. TypeOK'
  BY DEF IInv, TypeOK
<1>2. NothingBetweenRuns'
  BY DEF IInv, NothingBetweenRuns
<1>3. ReportsPayForAlerts'
  <2> SUFFICES ASSUME NEW e \in Entities
               PROVE  (alerts[e] + Owed(e) + Unspent(e) <= reports[e])'
    BY DEF ReportsPayForAlerts
  <2>1. alerts[e] + Owed(e) + Unspent(e) <= reports[e] /\ alerts[e] \in Nat /\ reports[e] \in Nat
    BY PresenceAssumption DEF IInv, ReportsPayForAlerts, TypeOK
  <2>2. Owed(e)' = Owed(e) /\ alerts'[e] = alerts[e] /\ reports'[e] = reports[e] /\ todo' = todo
    BY DEF Owed
  <2>3. status'[e] = "ONLINE" => status[e] = "ONLINE"
    OBVIOUS
  <2>4. QED  BY <2>1, <2>2, <2>3 DEF Unspent, Owed
<1>4. QED  BY <1>1, <1>2, <1>3 DEF IInv

LEMMA SpendTypes == ASSUME IInv, NEW k \in Kinds, Spend(k) PROVE quota' \in [Kinds -> Nat]
  BY DEF IInv, TypeOK, Spend

\* Ticks, sweeps and new tokens.
LEMMA OthersIInv ==
    ASSUME IInv,
           \/ Tick \/ SweepAgents \/ SweepPrinters
           \/ \E a \in Agents : RegenerateTokenOf(a)
    PROVE  IInv'
<1>1. CASE Tick
  <2>1. silence' \in [Entities -> 0..MaxSilence]
    BY <1>1, PresenceAssumption DEF Tick, IInv, TypeOK
  <2>2. QED  BY <1>1, <2>1, OnlyOffline DEF Tick, IInv, TypeOK, jobVars, printerVars
<1>2. ASSUME NEW S, Sweep(S) PROVE IInv'
  <2>1. status' \in [Entities -> {"PENDING", "UNKNOWN", "ONLINE", "OFFLINE"}]
    BY <1>2 DEF Sweep, IInv, TypeOK
  <2>2. \A e \in Entities : status'[e] = "ONLINE" => status[e] = "ONLINE"
    BY <1>2 DEF Sweep
  <2>3. QED  BY <1>2, <2>1, <2>2, OnlyOffline DEF Sweep, IInv, TypeOK, jobVars, printerVars
<1>3. ASSUME NEW a \in Agents, RegenerateTokenOf(a) PROVE IInv'
  <2>1. status' \in [Entities -> {"PENDING", "UNKNOWN", "ONLINE", "OFFLINE"}]
    BY <1>3 DEF RegenerateTokenOf, IInv, TypeOK
  <2>2. \A e \in Entities : status'[e] = "ONLINE" => status[e] = "ONLINE"
    BY <1>3 DEF RegenerateTokenOf, IInv, TypeOK
  <2>3. QED  BY <1>3, <2>1, <2>2, OnlyOffline DEF RegenerateTokenOf, IInv, TypeOK, jobVars, printerVars
<1>4. QED  BY <1>1, <1>2, <1>3 DEF SweepAgents, SweepPrinters

\* Users change the printer's row and its contract lines, and delete it.
LEMMA UsersIInv ==
    ASSUME IInv, NEW p \in Printers,
           \/ Monitor(p) \/ Ignore(p) \/ Restore(p) \/ Decommission(p)
           \/ StartRemove(p) \/ Remove(p) \/ RemoveRefused(p)
           \/ \E l \in Line : SetLine(p, l)
    PROVE  IInv'
<1>1. ASSUME NEW s \in Place, Move(p, s) PROVE IInv'
  <2>1. place' \in [Printers -> Place] /\ quota' \in [Kinds -> Nat]
    BY <1>1, SpendTypes DEF Move, IInv, TypeOK, Kinds
  <2>2. QED  BY <1>1, <2>1, OnlyOffline DEF Move, IInv, TypeOK, jobVars
<1>2. ASSUME NEW l \in Line, SetLine(p, l) PROVE IInv'
  <2>1. line' \in [Printers -> Line] /\ quota' \in [Kinds -> Nat]
    BY <1>2, SpendTypes DEF SetLine, IInv, TypeOK, Kinds
  <2>2. QED  BY <1>2, <2>1, OnlyOffline DEF SetLine, IInv, TypeOK, jobVars
<1>3. CASE StartRemove(p)
  <2>1. removing' \in SUBSET Printers /\ quota' \in [Kinds -> Nat]
    BY <1>3, SpendTypes DEF StartRemove, IInv, TypeOK, Kinds
  <2>2. QED  BY <1>3, <2>1, OnlyOffline DEF StartRemove, IInv, TypeOK, jobVars
<1>4. CASE Remove(p)
  <2>1. /\ removing' \in SUBSET Printers /\ deleted' \in SUBSET Printers
        /\ stale' \in SUBSET Entities /\ place' \in [Printers -> Place]
        /\ quota' \in [Kinds -> Nat]
    BY <1>4 DEF Remove, IInv, TypeOK, Place
  <2>2. /\ status' \in [Entities -> {"PENDING", "UNKNOWN", "ONLINE", "OFFLINE"}]
        /\ silence' \in [Entities -> 0..MaxSilence]
    <3>1. 0 \in 0..MaxSilence
      BY PresenceAssumption
    <3>2. QED  BY <1>4, <3>1 DEF Remove, IInv, TypeOK
  <2>3. \A e \in Entities : status'[e] = "ONLINE" => status[e] = "ONLINE"
    BY <1>4 DEF Remove, IInv, TypeOK
  <2>4. QED  BY <1>4, <2>1, <2>2, <2>3, OnlyOffline DEF Remove, IInv, TypeOK
<1>5. CASE RemoveRefused(p)
  <2>1. removing' \in SUBSET Printers
    BY <1>5 DEF RemoveRefused, IInv, TypeOK
  <2>2. QED  BY <1>5, <2>1, OnlyOffline DEF RemoveRefused, IInv, TypeOK, jobVars
<1>6. QED  BY <1>1, <1>2, <1>3, <1>4, <1>5 DEF Monitor, Ignore, Restore, Decommission, Place

\* The counters of an entity, as numbers.
LEMMA Counters ==
    ASSUME IInv, NEW e \in Entities
    PROVE  /\ alerts[e] \in Nat /\ reports[e] \in Nat
           /\ alerts[e] + Owed(e) + Unspent(e) <= reports[e]
           /\ Owed(e) \in 0..1 /\ Unspent(e) \in 0..1
  BY PresenceAssumption DEF IInv, TypeOK, ReportsPayForAlerts, Owed, Unspent

\* A report brings its own payment.
LEMMA ReportIInv ==
    ASSUME IInv, NEW e \in Entities, Report(e) PROVE IInv'
<1>1. TypeOK'
  <2>1. quota' \in [Kinds -> Nat]
    BY SpendTypes DEF Report, Kinds
  <2>2. place' \in [Printers -> Place]
    BY DEF Report, IInv, TypeOK, Place
  <2>3. /\ silence' \in [Entities -> 0..MaxSilence]
        /\ reports' \in [Entities -> Nat]
        /\ status' \in [Entities -> {"PENDING", "UNKNOWN", "ONLINE", "OFFLINE"}]
    BY PresenceAssumption DEF Report, IInv, TypeOK
  <2>4. QED  BY <2>1, <2>2, <2>3 DEF Report, IInv, TypeOK
<1>2. NothingBetweenRuns'
  BY DEF Report, IInv, NothingBetweenRuns
<1>3. ReportsPayForAlerts'
  <2> SUFFICES ASSUME NEW f \in Entities
               PROVE  (alerts[f] + Owed(f) + Unspent(f) <= reports[f])'
    BY DEF ReportsPayForAlerts
  <2>1. Owed(f)' = Owed(f) /\ alerts'[f] = alerts[f] /\ todo' = todo
    BY DEF Report, Owed
  <2>2. CASE f = e
    <3>1. reports'[f] = reports[f] + 1
      BY <2>2 DEF Report, IInv, TypeOK
    <3>2. Unspent(f)' \in 0..1
      BY DEF Unspent
    <3>3. QED  BY <2>1, <3>1, <3>2, Counters
  <2>3. CASE f # e
    <3>1. reports'[f] = reports[f] /\ status'[f] = status[f]
      BY <2>3 DEF Report, IInv, TypeOK
    <3>2. Unspent(f)' = Unspent(f)
      BY <2>1, <3>1 DEF Unspent
    <3>3. QED  BY <2>1, <3>1, <3>2, Counters
  <2>4. QED  BY <2>2, <2>3
<1>4. QED  BY <1>1, <1>2, <1>3 DEF IInv

\* The job reads candidates: ONLINE ones only, so nothing new is unspent.
LEMMA FindIInv ==
    ASSUME IInv, FindAgents \/ FindPrinters PROVE IInv'
<1>1. TypeOK'
  BY DEF FindAgents, FindPrinters, Watched, printerVars, IInv, TypeOK
<1>2. NothingBetweenRuns'
  BY DEF FindAgents, FindPrinters, IInv, NothingBetweenRuns
<1>3. ReportsPayForAlerts'
  <2> SUFFICES ASSUME NEW e \in Entities
               PROVE  (alerts[e] + Owed(e) + Unspent(e) <= reports[e])'
    BY DEF ReportsPayForAlerts
  <2>1. e \in todo' => status[e] = "ONLINE"
    BY DEF FindAgents, FindPrinters
  <2>2. UNCHANGED <<status, marking, reports, alerts>>
    BY DEF FindAgents, FindPrinters
  <2>3. Unspent(e)' <= Unspent(e)
    BY <2>1, <2>2 DEF Unspent
  <2>4. Owed(e)' = Owed(e) /\ Unspent(e)' \in 0..1
    BY <2>2 DEF Owed, Unspent
  <2>5. QED  BY <2>2, <2>3, <2>4, Counters
<1>4. QED  BY <1>1, <1>2, <1>3 DEF IInv

\* Setting a candidate OFFLINE turns its payment into the alert it is owed.
LEMMA MarkOfflineIInv ==
    ASSUME IInv, NEW e \in Entities, MarkOffline(e) PROVE IInv'
<1>1. TypeOK'
  BY DEF MarkOffline, printerVars, IInv, TypeOK
<1>2. NothingBetweenRuns'
  BY DEF MarkOffline, IInv, NothingBetweenRuns
<1>3. ReportsPayForAlerts'
  <2> SUFFICES ASSUME NEW f \in Entities
               PROVE  (alerts[f] + Owed(f) + Unspent(f) <= reports[f])'
    BY DEF ReportsPayForAlerts
  <2>1. /\ e \in todo /\ marking = Nobody /\ marking' = e /\ todo' = todo \ {e}
        /\ status' = [status EXCEPT ![e] = "OFFLINE"] /\ UNCHANGED <<reports, alerts>>
    BY DEF MarkOffline
  <2>2. CASE f = e
    <3>1. Owed(f)' = 1 /\ Unspent(f)' = 0 /\ Unspent(f) = 1
      BY <2>1, <2>2 DEF Owed, Unspent, IInv, TypeOK
    <3>2. QED  BY <2>1, <3>1, Counters
  <2>3. CASE f # e
    <3>1. Owed(f)' = 0 /\ Unspent(f)' = Unspent(f)
      BY <2>1, <2>3 DEF Owed, Unspent, IInv, TypeOK
    <3>2. QED  BY <2>1, <3>1, Counters
  <2>4. QED  BY <2>2, <2>3
<1>4. QED  BY <1>1, <1>2, <1>3 DEF IInv

LEMMA CreateAlertIInv ==
    ASSUME IInv, CreateAlert PROVE IInv'
<1>1. marking \in Entities /\ alerts[marking] \in Nat /\ marking' = Nobody
  BY DEF CreateAlert, IInv, TypeOK
<1>2. alerts' = [alerts EXCEPT ![marking] = alerts[marking] + 1]
  BY DEF CreateAlert
<1>3. TypeOK'
  BY <1>1, <1>2 DEF CreateAlert, printerVars, IInv, TypeOK
<1>4. NothingBetweenRuns'
  BY DEF CreateAlert, IInv, NothingBetweenRuns
<1>5. ReportsPayForAlerts'
  <2> SUFFICES ASSUME NEW f \in Entities
               PROVE  (alerts[f] + Owed(f) + Unspent(f) <= reports[f])'
    BY DEF ReportsPayForAlerts
  <2>1. UNCHANGED <<status, todo, reports>> /\ Owed(f)' = 0
    BY <1>1, PresenceAssumption DEF CreateAlert, Owed
  <2>2. Unspent(f)' = Unspent(f)
    BY <2>1 DEF Unspent
  <2>3. CASE f = marking
    <3>1. alerts'[f] = alerts[f] + 1 /\ Owed(f) = 1
      BY <1>2, <2>3 DEF IInv, TypeOK, Owed
    <3>2. QED  BY <2>1, <2>2, <3>1, Counters
  <2>4. CASE f # marking
    <3>1. alerts'[f] = alerts[f]
      BY <1>2, <2>4 DEF IInv, TypeOK
    <3>2. QED  BY <2>1, <2>2, <3>1, Counters
  <2>5. QED  BY <2>3, <2>4
<1>6. QED  BY <1>3, <1>4, <1>5 DEF IInv

\* A run starts with empty hands and ends, or fails, with empty hands.
LEMMA RunsIInv ==
    ASSUME IInv, StartCheck \/ FinishCheck \/ RowGone \/ CheckFails PROVE IInv'
<1>1. TypeOK'
  <2>1. CASE StartCheck \/ FinishCheck
    BY <2>1 DEF StartCheck, FinishCheck, printerVars, IInv, TypeOK, Entities
  <2>2. CASE RowGone \/ CheckFails
    <3>1. quota' \in [Kinds -> Nat]
      BY <2>2, SpendTypes DEF RowGone, CheckFails, IInv, TypeOK, Kinds
    <3>2. QED  BY <2>2, <3>1 DEF RowGone, CheckFails, EndRun, printerVars, IInv, TypeOK
  <2>3. QED  BY <2>1, <2>2
<1>2. NothingBetweenRuns'
  BY DEF StartCheck, FinishCheck, RowGone, CheckFails, EndRun, IInv, NothingBetweenRuns
<1>3. ReportsPayForAlerts'
  <2> SUFFICES ASSUME NEW e \in Entities
               PROVE  (alerts[e] + Owed(e) + Unspent(e) <= reports[e])'
    BY DEF ReportsPayForAlerts
  <2>1. UNCHANGED <<status, reports, alerts>> /\ todo' \subseteq todo
        /\ (marking' = marking \/ marking' = Nobody)
    BY DEF StartCheck, FinishCheck, RowGone, CheckFails, EndRun
  <2>2. Owed(e)' <= Owed(e) /\ Unspent(e)' <= Unspent(e)
    BY <2>1, PresenceAssumption DEF Owed, Unspent
  <2>3. Owed(e)' \in 0..1 /\ Unspent(e)' \in 0..1
    BY DEF Owed, Unspent
  <2>4. QED  BY <2>1, <2>2, <2>3, Counters
<1>4. QED  BY <1>1, <1>2, <1>3 DEF IInv

-----------------------------------------------------------------------------
\* IInv holds initially and every step preserves it.
THEOREM PresenceInductive == Spec => []IInv
<1>1. Init => IInv
  BY InitIInv
<1>2. IInv /\ [Next]_vars => IInv'
  <2> SUFFICES ASSUME IInv, [Next]_vars PROVE IInv'
    OBVIOUS
  <2>1. CASE \E e \in Entities : Report(e)
    BY <2>1, ReportIInv
  <2>2. CASE Job
    BY <2>2, FindIInv, MarkOfflineIInv, CreateAlertIInv, RunsIInv DEF Job
  <2>3. CASE CheckFails
    BY <2>3, RunsIInv
  <2>4. CASE \/ Tick \/ SweepAgents \/ SweepPrinters
             \/ \E a \in Agents : RegenerateTokenOf(a)
    BY <2>4, OthersIInv
  <2>5. CASE \E p \in Printers :
                 \/ Monitor(p) \/ Ignore(p) \/ Restore(p) \/ Decommission(p)
                 \/ StartRemove(p) \/ Remove(p) \/ RemoveRefused(p)
                 \/ \E l \in Line : SetLine(p, l)
    BY <2>5, UsersIInv
  <2>6. CASE UNCHANGED vars
    BY <2>6, OnlyOffline DEF vars, IInv, TypeOK
  <2>7. QED  BY <2>1, <2>2, <2>3, <2>4, <2>5, <2>6 DEF Next
<1>3. QED  BY <1>1, <1>2, PTL DEF Spec

\* An entity is reported offline at most once per silence (the run presence).
THEOREM AlertedOncePerSilence == Spec => []OneAlertPerSilence
<1>1. IInv => OneAlertPerSilence
  <2> SUFFICES ASSUME IInv, NEW e \in Entities PROVE alerts[e] <= reports[e]
    BY DEF OneAlertPerSilence
  <2>1. QED  BY Counters
<1>2. QED  BY <1>1, PresenceInductive, PTL
===============================================================================
