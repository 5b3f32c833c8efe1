-------------------------- MODULE ServiceOrdersProofs --------------------------
(***************************************************************************)
(* For any requests, technicians, alerts, SLAs and contracts, and however  *)
(* the statements of the requests and of the job interleave or fail: an    *)
(* order has at most one OPEN alert of a type, whoever is affected by an   *)
(* order is sent a notice, and an alert is answered by one order unless    *)
(* two requests answered it at once or one failed half way.                *)
(*                                                                         *)
(* Notices: an update decides from the order as it read it.  So the        *)
(* invariant speaks of the technicians and statuses requests have read,    *)
(* as well as of those the orders have: for each of them the notice has    *)
(* been queued, was lost with a failed request, or is still to be sent by  *)
(* one under way (Told).                                                   *)
(***************************************************************************)
EXTENDS ServiceOrders, TLAPS

\* What became of the notices: they are queued, or were lost with a request.
Sent == queued \cup lost

\* Technician t of order o is told, or a request under way will tell.  The
\* same for everybody concerned by a closed order.
Told(o, t) ==
    \/ Assigned(o, t) \in Sent
    \/ \E c \in Creators :
        /\ creating[c].step \in {"link", "announce"}
        /\ creating[c].last = o /\ creating[c].technician = t
    \/ \E u \in Updaters :
        updating[u].step = "announce" /\ Assigned(o, t) \in UpdateNotices(updating[u])

ClosingAnnounced(o) ==
    \/ Closed(o) \in Sent
    \/ \E u \in Updaters :
        updating[u].step = "announce" /\ Closed(o) \in UpdateNotices(updating[u])

\* Requests under way are about orders there are.
References ==
    /\ \A c \in Creators :
        /\ creating[c].step \in {"link", "announce"} => creating[c].last \in DOMAIN orders
        /\ creating[c].step = "link" => creating[c].alert \in Alerts
    /\ \A u \in Updaters : updating[u].step # "idle" => updating[u].order \in DOMAIN orders

\* Both for what the orders say and for what requests have read of them.
Telling ==
    /\ \A o \in DOMAIN orders :
        /\ orders[o].technician # None => Told(o, orders[o].technician)
        /\ orders[o].status = "DONE" => ClosingAnnounced(o)
    /\ \A u \in Updaters : updating[u].step # "idle" =>
        /\ updating[u].assigned # None => Told(updating[u].order, updating[u].assigned)
        /\ updating[u].before = "DONE" => ClosingAnnounced(updating[u].order)

\* An alert that is not loose is dealt with by one request; once an order
\* answers it, it is linked or its request is about to link it.
Answering ==
    /\ \A c, d \in Creators :
        creating[c].alert = creating[d].alert /\ creating[c].alert \notin loose \cup {None} => c = d
    /\ \A o \in DOMAIN orders : orders[o].alert \notin loose \cup {None} =>
        \/ links[orders[o].alert] # 0
        \/ \E c \in Creators : creating[c].step = "link" /\ creating[c].alert = orders[o].alert
    /\ \A c \in Creators, o \in DOMAIN orders :
        creating[c].step \in {"number", "insert"} /\ creating[c].alert \notin loose \cup {None}
            => orders[o].alert # creating[c].alert
    /\ AlertAnsweredOnce

IInv == TypeOK /\ References /\ OneOpenSlaAlert /\ Telling /\ Answering

LEMMA InitIInv == Init => IInv
<1> SUFFICES ASSUME Init PROVE IInv
  OBVIOUS
<1>1. TypeOK
  <2>1. creating \in [Creators -> Creation] /\ updating \in [Updaters -> Update]
    BY DEF Init, NoCreation, NoUpdate, Creation, Update, Status
  <2>2. links \in [Alerts -> 0..Len(orders)]
    BY DEF Init
  <2>3. quota \in [Kinds -> Nat]
    BY ServiceOrdersAssumption DEF Init
  <2>4. QED  BY <2>1, <2>2, <2>3 DEF Init, TypeOK
<1>2. References /\ OneOpenSlaAlert /\ Telling /\ Answering
  BY DEF Init, NoCreation, NoUpdate, References, OneOpenSlaAlert, Telling, Answering, AlertAnsweredOnce
<1>3. QED  BY <1>1, <1>2 DEF IInv

-----------------------------------------------------------------------------
(* What is told stays told.                                                *)

LEMMA ToldStays ==
    ASSUME Sent \subseteq Sent',
           \A c \in Creators : creating[c].step \in {"link", "announce"} =>
               \/ /\ creating'[c].step \in {"link", "announce"}
                  /\ creating'[c].last = creating[c].last
                  /\ creating'[c].technician = creating[c].technician
               \/ CreationNotices(creating[c]) \subseteq Sent',
           \A u \in Updaters : updating[u].step = "announce" =>
               updating'[u] = updating[u] \/ UpdateNotices(updating[u]) \subseteq Sent'
    PROVE  /\ \A o, t : t # None /\ Told(o, t) => Told(o, t)'
           /\ \A o : ClosingAnnounced(o) => ClosingAnnounced(o)'
<1>1. ASSUME NEW o, NEW t, t # None, Told(o, t) PROVE Told(o, t)'
  <2>1. CASE Assigned(o, t) \in Sent
    BY <2>1 DEF Told, Assigned
  <2>2. ASSUME NEW c \in Creators, creating[c].step \in {"link", "announce"},
               creating[c].last = o, creating[c].technician = t
        PROVE  Told(o, t)'
    <3>1. Assigned(o, t) \in CreationNotices(creating[c])
      BY <1>1, <2>2 DEF CreationNotices
    <3>2. QED  BY <2>2, <3>1 DEF Told, Assigned
  <2>3. ASSUME NEW u \in Updaters, updating[u].step = "announce",
               Assigned(o, t) \in UpdateNotices(updating[u])
        PROVE  Told(o, t)'
    <3>1. CASE UpdateNotices(updating[u]) \subseteq Sent'
      BY <2>3, <3>1 DEF Told, Assigned
    <3>2. CASE updating'[u] = updating[u]
      BY <2>3, <3>2 DEF Told, Assigned, UpdateNotices, Closed
    <3>3. QED  BY <2>3, <3>1, <3>2
  <2>4. QED  BY <1>1, <2>1, <2>2, <2>3 DEF Told
<1>2. ASSUME NEW o, ClosingAnnounced(o) PROVE ClosingAnnounced(o)'
  <2>1. CASE Closed(o) \in Sent
    BY <2>1 DEF ClosingAnnounced, Closed
  <2>2. ASSUME NEW u \in Updaters, updating[u].step = "announce",
               Closed(o) \in UpdateNotices(updating[u])
        PROVE  ClosingAnnounced(o)'
    <3>1. CASE UpdateNotices(updating[u]) \subseteq Sent'
      BY <2>2, <3>1 DEF ClosingAnnounced, Closed
    <3>2. CASE updating'[u] = updating[u]
      BY <2>2, <3>2 DEF ClosingAnnounced, Assigned, UpdateNotices, Closed
    <3>3. QED  BY <2>2, <3>1, <3>2
  <2>3. QED  BY <1>2, <2>1, <2>2 DEF ClosingAnnounced
<1>3. QED  BY <1>1, <1>2

-----------------------------------------------------------------------------
(* Time, the job and the users who settle its alerts.                      *)

LEMMA Elsewhere ==
    ASSUME IInv, UNCHANGED <<orders, links, queued, creating, updating, lost, loose>>
    PROVE  References' /\ Telling' /\ Answering'
<1>1. References' /\ Answering'
  BY DEF IInv, References, Answering, AlertAnsweredOnce
<1>2. \A o, t : Told(o, t) => Told(o, t)'
  BY DEF Told, Sent, UpdateNotices, Assigned, Closed
<1>3. \A o : ClosingAnnounced(o) => ClosingAnnounced(o)'
  BY DEF ClosingAnnounced, Sent, UpdateNotices, Assigned, Closed
<1>4. Telling'
  BY <1>2, <1>3 DEF IInv, Telling
<1>5. QED  BY <1>1, <1>4

LEMMA SpendTypes == TypeOK => \A k \in Kinds : Spend(k) => quota' \in [Kinds -> Nat]
  BY DEF TypeOK, Spend

LEMMA TimeAndJobIInv ==
    ASSUME IInv, Tick \/ StartCheckSla \/ EndCheckSla \/ CheckSlaFails
    PROVE  IInv'
<1>1. References' /\ Telling' /\ Answering'
  BY Elsewhere DEF Tick, StartCheckSla, EndCheckSla, CheckSlaFails
<1>2. OneOpenSlaAlert'
  BY DEF Tick, StartCheckSla, EndCheckSla, CheckSlaFails, jobVars, IInv, OneOpenSlaAlert
<1>3. TypeOK'
  <2>1. CASE Tick
    <3>1. quota' \in [Kinds -> Nat]
      BY <2>1, SpendTypes DEF Tick, IInv, Kinds
    <3>2. QED  BY <2>1, <3>1 DEF Tick, jobVars, IInv, TypeOK
  <2>2. CASE StartCheckSla
    <3>1. \A i \in DOMAIN orders : i \in Nat /\ orders[i] \in Order
      BY DEF IInv, TypeOK
    <3>2. watched' \subseteq Watched
      BY <2>2, <3>1 DEF StartCheckSla, Watched, Order
    <3>3. QED  BY <2>2, <3>2 DEF StartCheckSla, IInv, TypeOK
  <2>3. CASE EndCheckSla
    BY <2>3 DEF EndCheckSla, IInv, TypeOK
  <2>4. CASE CheckSlaFails
    <3>1. quota' \in [Kinds -> Nat]
      BY <2>4, SpendTypes DEF CheckSlaFails, IInv, Kinds
    <3>2. QED  BY <2>4, <3>1 DEF CheckSlaFails, IInv, TypeOK
  <2>5. QED  BY <2>1, <2>2, <2>3, <2>4
<1>4. QED  BY <1>1, <1>2, <1>3 DEF IInv

\* The job looks for an OPEN alert before it creates one, and is alone.
LEMMA CheckOrderIInv ==
    ASSUME IInv, NEW w \in watched, CheckOrder(w) PROVE IInv'
<1>1. References' /\ Telling' /\ Answering'
  BY Elsewhere DEF CheckOrder
<1>2. CASE slaAlerts' = slaAlerts
  <2>1. TypeOK'
    BY <1>2 DEF CheckOrder, IInv, TypeOK
  <2>2. OneOpenSlaAlert'
    BY <1>2 DEF IInv, OneOpenSlaAlert
  <2>3. QED  BY <1>1, <2>1, <2>2 DEF IInv
<1>3. CASE slaAlerts' # slaAlerts
  <2> DEFINE row == [order |-> w.order, type |-> Breach(w), status |-> "OPEN"]
  <2>1. /\ slaAlerts' = Append(slaAlerts, row)
        /\ Breach(w) # None /\ ~ExistingOpenAlert(w.order, Breach(w))
    BY <1>3 DEF CheckOrder
  <2>2. row \in SlaAlert
    <3>1. w.order \in Nat
      BY DEF IInv, TypeOK, Watched
    <3>2. Breach(w) \in AlertType
      BY <2>1 DEF Breach, AlertType
    <3>3. QED  BY <3>1, <3>2 DEF SlaAlert
  <2>3. slaAlerts \in Seq(SlaAlert)
    BY DEF IInv, TypeOK
  <2> HIDE DEF row
  <2>4. slaAlerts' \in Seq(SlaAlert)
    BY <2>1, <2>2, <2>3
  <2>5. TypeOK'
    BY <2>4 DEF CheckOrder, IInv, TypeOK
  <2>6. \A i \in DOMAIN slaAlerts' :
            (i \in DOMAIN slaAlerts /\ slaAlerts'[i] = slaAlerts[i])
            \/ (i = Len(slaAlerts) + 1 /\ slaAlerts'[i] = row)
    BY <2>1, <2>2, <2>3
  <2>7. \A i \in DOMAIN slaAlerts :
            ~(slaAlerts[i].order = row.order /\ slaAlerts[i].type = row.type /\ slaAlerts[i].status = "OPEN")
    BY <2>1 DEF ExistingOpenAlert, row
  <2>8. OneOpenSlaAlert'
    BY <2>6, <2>7 DEF IInv, OneOpenSlaAlert
  <2>9. QED  BY <1>1, <2>5, <2>8 DEF IInv
<1>4. QED  BY <1>2, <1>3

LEMMA SettleAlertIInv ==
    ASSUME IInv, NEW i \in DOMAIN slaAlerts, NEW s \in {"ACKNOWLEDGED", "RESOLVED"}, SettleAlert(i, s)
    PROVE  IInv'
<1>1. References' /\ Telling' /\ Answering'
  BY Elsewhere DEF SettleAlert
<1>2. slaAlerts \in Seq(SlaAlert) /\ slaAlerts' = [slaAlerts EXCEPT ![i].status = s]
  BY DEF IInv, TypeOK, SettleAlert
<1>3. /\ DOMAIN slaAlerts' = DOMAIN slaAlerts
      /\ \A j \in DOMAIN slaAlerts :
            /\ slaAlerts'[j].order = slaAlerts[j].order /\ slaAlerts'[j].type = slaAlerts[j].type
            /\ slaAlerts'[j].status = IF j = i THEN s ELSE slaAlerts[j].status
  BY <1>2 DEF SlaAlert
<1>4. slaAlerts' \in Seq(SlaAlert)
  <2>0. slaAlerts[i] \in SlaAlert
    BY <1>2
  <2>1. [slaAlerts[i] EXCEPT !.status = s] \in SlaAlert
    BY <2>0 DEF SlaAlert
  <2>2. slaAlerts' = [slaAlerts EXCEPT ![i] = [slaAlerts[i] EXCEPT !.status = s]]
    BY <1>2
  <2>3. QED  BY <1>2, <2>1, <2>2
<1>5. quota' \in [Kinds -> Nat]
  BY SpendTypes DEF SettleAlert, IInv, Kinds
<1>6. TypeOK'
  BY <1>4, <1>5 DEF SettleAlert, IInv, TypeOK
<1>7. OneOpenSlaAlert'
  BY <1>3 DEF IInv, OneOpenSlaAlert
<1>8. QED  BY <1>1, <1>6, <1>7 DEF IInv
-----------------------------------------------------------------------------
(* create.                                                                 *)

\* The first level that gives an SLA gives hours, or None is left.
LEMMA MostSpecificType ==
    ASSUME NEW sla \in Hierarchy, NEW contract \in Nat \cup {None}
    PROVE  MostSpecific(sla, contract) \in Nat \cup {None}
<1>1. Hours \subseteq Nat
  BY ServiceOrdersAssumption
<1> DEFINE levels == <<sla.printer, sla.location, sla.customer, contract>>
           set == {i \in 1..4 : levels[i] # None}
<1>2. MostSpecific(sla, contract) = IF set = {} THEN None
                                    ELSE levels[CHOOSE i \in set : \A j \in set : i <= j]
  BY DEF MostSpecific
<1>3. \A i \in 1..4 : levels[i] \in Nat \cup {None}
  <2>1. /\ levels[1] = sla.printer /\ levels[2] = sla.location
        /\ levels[3] = sla.customer /\ levels[4] = contract
    OBVIOUS
  <2>2. /\ sla.printer \in Nat \cup {None} /\ sla.location \in Nat \cup {None}
        /\ sla.customer \in Nat \cup {None}
    BY <1>1 DEF Hierarchy
  <2> HIDE DEF levels
  <2>3. QED  BY <2>1, <2>2
<1> HIDE DEF levels
<1>4. ASSUME set # {} PROVE \E i \in set : \A j \in set : i <= j
  <2>1. set \subseteq 1..4
    OBVIOUS
  <2> HIDE DEF set
  <2>2. CASE 1 \in set
    BY <2>1, <2>2
  <2>3. CASE 1 \notin set /\ 2 \in set
    BY <2>1, <2>3
  <2>4. CASE 1 \notin set /\ 2 \notin set /\ 3 \in set
    BY <2>1, <2>4
  <2>5. CASE 1 \notin set /\ 2 \notin set /\ 3 \notin set
    <3>1. \A j \in set : j = 4
      BY <2>1, <2>5
    <3>2. QED  BY <1>4, <3>1
  <2>6. QED  BY <2>2, <2>3, <2>4, <2>5
<1>5. CASE set = {}
  BY <1>2, <1>5
<1>6. CASE set # {}
  <2>1. (CHOOSE i \in set : \A j \in set : i <= j) \in set
    BY <1>4, <1>6
  <2>2. QED  BY <1>2, <1>3, <1>6, <2>1
<1>7. QED  BY <1>5, <1>6

\* Whichever contract is taken, its SLA is hours or None.
LEMMA ContractTypes ==
    /\ ContractHours \in Nat \cup {None}
    /\ OwnContractHours \in Nat \cup {None}
    /\ LongestContractHours \in Nat \cup {None}
<1>1. \A k \in Contracts : k.hours \in Nat \cup {None}
  BY ServiceOrdersAssumption
<1>2. \A S : S \subseteq Contracts /\ S # {} => (CHOOSE k \in S : TRUE).hours \in Nat \cup {None}
  <2>1. \A S : S # {} => (CHOOSE k \in S : TRUE) \in S
    OBVIOUS
  <2>2. QED  BY <1>1, <2>1
<1>3. ContractHours \in Nat \cup {None}
  <2> DEFINE first == IF \E k \in Contracts : ~k.own THEN {k \in Contracts : ~k.own} ELSE Contracts
  <2>1. ContractHours = IF Contracts = {} THEN None ELSE (CHOOSE k \in first : TRUE).hours
    BY DEF ContractHours
  <2>2. first \subseteq Contracts /\ (Contracts # {} => first # {})
    OBVIOUS
  <2> HIDE DEF first
  <2>3. QED  BY <1>2, <2>1, <2>2
<1>4. OwnContractHours \in Nat \cup {None}
  <2> DEFINE first == IF \E k \in Contracts : k.own THEN {k \in Contracts : k.own} ELSE Contracts
  <2>1. OwnContractHours = IF Contracts = {} THEN None ELSE (CHOOSE k \in first : TRUE).hours
    BY DEF OwnContractHours
  <2>2. first \subseteq Contracts /\ (Contracts # {} => first # {})
    OBVIOUS
  <2> HIDE DEF first
  <2>3. QED  BY <1>2, <2>1, <2>2
<1>5. LongestContractHours \in Nat \cup {None}
  <2> DEFINE longest == {k \in Contracts : k.hours # None
                           /\ \A j \in Contracts : j.hours # None /\ j.hours <= k.hours}
  <2>1. LongestContractHours = IF longest = {} THEN None ELSE (CHOOSE k \in longest : TRUE).hours
    BY DEF LongestContractHours
  <2>2. longest \subseteq Contracts
    OBVIOUS
  <2> HIDE DEF longest
  <2>3. QED  BY <1>2, <2>1, <2>2
<1>6. QED  BY <1>3, <1>4, <1>5

\* What a creation takes for its SLAs are hours or None.
LEMMA HoursOfSla ==
    ASSUME NEW sla \in Hierarchy
    PROVE  /\ ResolveSlaHours(sla) \in Nat \cup {None}
           /\ MostSpecific(sla, OwnContractHours) \in Nat \cup {None}
           /\ MostSpecific(sla, LongestContractHours) \in Nat \cup {None}
<1>1. Hours \subseteq Nat
  BY ServiceOrdersAssumption
<1>2. ResolveSlaHours(sla) \in Nat \cup {None}
  BY <1>1, ContractTypes DEF ResolveSlaHours, Hierarchy
<1>3. QED  BY <1>2, ContractTypes, MostSpecificType

LEMMA StartCreateIInv ==
    ASSUME IInv, NEW c \in Creators, NEW a \in Alerts \cup {None},
           NEW t \in Technicians \cup {None}, NEW sla \in Hierarchy, StartCreate(c, a, t, sla)
    PROVE  IInv'
<1> DEFINE req == [step |-> "number", alert |-> a, technician |-> t,
                   due |-> ResolveSlaHours(sla), promised |-> MostSpecific(sla, OwnContractHours),
                   latest |-> MostSpecific(sla, LongestContractHours), last |-> 0]
<1>1. req \in Creation
  BY HoursOfSla DEF Creation
<1>2. creating \in [Creators -> Creation] /\ creating' = [creating EXCEPT ![c] = req]
  BY DEF StartCreate, IInv, TypeOK
<1>3. req.step = "number" /\ req.alert = a
  OBVIOUS
<1> HIDE DEF req
<1>4. creating[c].step = "idle" /\ creating'[c] = req
  BY <1>2 DEF StartCreate
<1>5. \A d \in Creators : d # c => creating'[d] = creating[d]
  BY <1>2
<1>6. TypeOK'
  <2>1. creating' \in [Creators -> Creation]
    BY <1>1, <1>2
  <2>2. loose' \subseteq Alerts
    BY DEF StartCreate, IInv, TypeOK
  <2>3. quota' \in [Kinds -> Nat]
    BY SpendTypes DEF StartCreate, IInv, Kinds
  <2>4. QED  BY <2>1, <2>2, <2>3 DEF StartCreate, jobVars, IInv, TypeOK
<1>7. References'
  BY <1>3, <1>4, <1>5 DEF StartCreate, IInv, References
<1>8. OneOpenSlaAlert'
  BY DEF StartCreate, jobVars, IInv, OneOpenSlaAlert
<1>9. Telling'
  <2>1. Sent \subseteq Sent'
    BY DEF StartCreate, Sent
  <2>2. \A d \in Creators : creating[d].step \in {"link", "announce"} => creating'[d] = creating[d]
    BY <1>4, <1>5
  <2>3. \A u \in Updaters : updating'[u] = updating[u]
    BY DEF StartCreate
  <2>4. /\ \A o, tech : tech # None /\ Told(o, tech) => Told(o, tech)'
        /\ \A o : ClosingAnnounced(o) => ClosingAnnounced(o)'
    BY <2>1, <2>2, <2>3, ToldStays
  <2>5. QED  BY <2>4 DEF StartCreate, IInv, Telling
<1>10. Answering'
  <2>1. loose \subseteq loose' /\ orders' = orders /\ links' = links
    BY DEF StartCreate
  <2>2. a \notin loose' \cup {None} => links[a] = 0 /\ \A d \in Creators : creating[d].alert # a
    BY DEF StartCreate, Unlinked
  <2>3. \A d, e \in Creators :
            creating'[d].alert = creating'[e].alert /\ creating'[d].alert \notin loose' \cup {None} => d = e
    BY <1>3, <1>4, <1>5, <2>1, <2>2 DEF IInv, Answering
  <2>4. \A o \in DOMAIN orders' : orders'[o].alert \notin loose' \cup {None} =>
            \/ links'[orders'[o].alert] # 0
            \/ \E d \in Creators : creating'[d].step = "link" /\ creating'[d].alert = orders'[o].alert
    BY <1>4, <1>5, <2>1 DEF IInv, Answering
  <2>5. \A d \in Creators, o \in DOMAIN orders' :
            creating'[d].step \in {"number", "insert"} /\ creating'[d].alert \notin loose' \cup {None}
                => orders'[o].alert # creating'[d].alert
    <3>1. \A o \in DOMAIN orders : a \notin loose' \cup {None} => orders[o].alert # a
      BY <2>1, <2>2 DEF IInv, Answering
    <3>2. QED  BY <1>3, <1>4, <1>5, <2>1, <3>1 DEF IInv, Answering
  <2>6. AlertAnsweredOnce'
    BY <2>1 DEF IInv, Answering, AlertAnsweredOnce
  <2>7. QED  BY <2>3, <2>4, <2>5, <2>6 DEF Answering
<1>11. QED  BY <1>6, <1>7, <1>8, <1>9, <1>10 DEF IInv

LEMMA ReadLastNumberIInv ==
    ASSUME IInv, NEW c \in Creators, ReadLastNumber(c) PROVE IInv'
<1>1. creating \in [Creators -> Creation] /\ creating[c] \in Creation
  BY DEF IInv, TypeOK
<1> DEFINE req == [creating[c] EXCEPT !.step = "insert", !.last = Len(orders),
                                      !.due = DueIn(@), !.promised = DueIn(@), !.latest = DueIn(@)]
<1>2. creating' = [creating EXCEPT ![c] = req]
  BY <1>1 DEF ReadLastNumber, Creation
<1>3. req \in Creation
  <2>1. \A h \in Nat \cup {None} : DueIn(h) \in Nat \cup {None}
    BY DEF DueIn, IInv, TypeOK
  <2>2. Len(orders) \in Nat
    BY DEF IInv, TypeOK
  <2>3. QED  BY <1>1, <2>1, <2>2 DEF Creation
<1>4. req.step = "insert" /\ req.alert = creating[c].alert
  BY <1>1 DEF Creation
<1> HIDE DEF req
<1>5. creating'[c] = req /\ \A d \in Creators : d # c => creating'[d] = creating[d]
  BY <1>1, <1>2
<1>6. creating[c].step = "number"
  BY DEF ReadLastNumber
<1>7. TypeOK'
  <2>1. creating' \in [Creators -> Creation]
    BY <1>1, <1>2, <1>3
  <2>2. QED  BY <2>1 DEF ReadLastNumber, jobVars, IInv, TypeOK
<1>8. References'
  BY <1>4, <1>5 DEF ReadLastNumber, IInv, References
<1>9. OneOpenSlaAlert'
  BY DEF ReadLastNumber, jobVars, IInv, OneOpenSlaAlert
<1>10. Telling'
  <2>1. \A d \in Creators : creating[d].step \in {"link", "announce"} => creating'[d] = creating[d]
    BY <1>5, <1>6
  <2>2. Sent \subseteq Sent' /\ \A u \in Updaters : updating'[u] = updating[u]
    BY DEF ReadLastNumber, Sent
  <2>3. /\ \A o, t : t # None /\ Told(o, t) => Told(o, t)'
        /\ \A o : ClosingAnnounced(o) => ClosingAnnounced(o)'
    BY <2>1, <2>2, ToldStays
  <2>4. QED  BY <2>3 DEF ReadLastNumber, IInv, Telling
<1>11. Answering'
  <2>1. loose' = loose /\ orders' = orders /\ links' = links
    BY DEF ReadLastNumber
  <2>2. /\ \A d \in Creators : creating'[d].alert = creating[d].alert
        /\ \A d \in Creators : creating[d].step = "link" => creating'[d].step = "link"
        /\ \A d \in Creators : creating'[d].step \in {"number", "insert"} => creating[d].step \in {"number", "insert"}
    BY <1>4, <1>5, <1>6
  <2>3. QED  BY <2>1, <2>2 DEF IInv, Answering, AlertAnsweredOnce
<1>12. QED  BY <1>7, <1>8, <1>9, <1>10, <1>11 DEF IInv

\* The new order has the technician and the alert of its request, which has
\* still to link the one and to tell the other.
LEMMA InsertIInv ==
    ASSUME IInv, NEW c \in Creators, Insert(c) PROVE IInv'
<1> DEFINE old == creating[c]
           row == [status |-> "OPEN", technician |-> old.technician,
                   due |-> old.due, alert |-> old.alert,
                   promised |-> old.promised, latest |-> old.latest]
           new == Len(orders) + 1
           req == [old EXCEPT !.step = IF old.alert = None THEN "announce" ELSE "link", !.last = new]
<1>1. /\ creating \in [Creators -> Creation] /\ old \in Creation
      /\ orders \in Seq(Order) /\ new \in Nat \ {0}
  BY DEF IInv, TypeOK
<1>2. creating' = [creating EXCEPT ![c] = req] /\ orders' = Append(orders, row) /\ old.step = "insert"
  BY <1>1 DEF Insert, Creation
<1>3. req \in Creation /\ row \in Order
  BY <1>1 DEF Creation, Order, Status
<1>4. /\ req.alert = old.alert /\ req.technician = old.technician /\ req.last = new
      /\ req.step = IF old.alert = None THEN "announce" ELSE "link"
  BY <1>1 DEF Creation
<1>5. row.alert = old.alert /\ row.technician = old.technician /\ row.status = "OPEN"
  OBVIOUS
<1>6. new = Len(orders) + 1
  OBVIOUS
<1> HIDE DEF req, row, new
<1>7. creating'[c] = req /\ \A d \in Creators : d # c => creating'[d] = creating[d]
  BY <1>1, <1>2
<1>8. /\ \A o \in DOMAIN orders' : (o \in DOMAIN orders /\ orders'[o] = orders[o]) \/ (o = new /\ orders'[o] = row)
      /\ DOMAIN orders \subseteq DOMAIN orders' /\ new \in DOMAIN orders' /\ orders'[new] = row
      /\ new \notin DOMAIN orders
      /\ Len(orders') = new /\ orders' \in Seq(Order)
  BY <1>1, <1>2, <1>3, <1>6
<1>9. TypeOK'
  <2>1. creating' \in [Creators -> Creation]
    BY <1>1, <1>2, <1>3
  <2>2. links' \in [Alerts -> 0..Len(orders')]
    BY <1>1, <1>6, <1>8 DEF Insert, IInv, TypeOK
  <2>3. QED  BY <1>8, <2>1, <2>2 DEF Insert, jobVars, IInv, TypeOK
<1>10. References'
  <2>1. creating'[c].last \in DOMAIN orders' /\ (creating'[c].step = "link" => creating'[c].alert \in Alerts)
    BY <1>1, <1>4, <1>7, <1>8 DEF Creation
  <2>2. QED  BY <1>7, <1>8, <2>1 DEF Insert, IInv, References
<1>11. OneOpenSlaAlert'
  BY DEF Insert, jobVars, IInv, OneOpenSlaAlert
<1>12. Telling'
  <2>1. \A d \in Creators : creating[d].step \in {"link", "announce"} => creating'[d] = creating[d]
    BY <1>2, <1>7
  <2>2. Sent \subseteq Sent' /\ updating' = updating
    BY DEF Insert, Sent
  <2>3. /\ \A o, t : t # None /\ Told(o, t) => Told(o, t)'
        /\ \A o : ClosingAnnounced(o) => ClosingAnnounced(o)'
    BY <2>1, <2>2, ToldStays
  <2>4. \A o, t : o = new /\ t = old.technician => Told(o, t)'
    BY <1>4, <1>7 DEF Told
  <2>5. \A o \in DOMAIN orders' : \A t : t # None /\ orders'[o].technician = t => Told(o, t)'
    <3>1. \A o \in DOMAIN orders : \A t : t # None /\ orders[o].technician = t => Told(o, t)'
      BY <2>3 DEF IInv, Telling
    <3>2. QED  BY <1>5, <1>8, <2>4, <3>1
  <2>6. \A o \in DOMAIN orders' : orders'[o].status = "DONE" => ClosingAnnounced(o)'
    BY <1>5, <1>8, <2>3 DEF IInv, Telling
  <2>7. QED  BY <2>2, <2>3, <2>5, <2>6 DEF IInv, Telling
<1>13. Answering'
  <2>1. loose' = loose /\ links' = links
    BY DEF Insert
  <2>2. \A d \in Creators : creating'[d].alert = creating[d].alert
    BY <1>4, <1>7
  <2>3. \A d, e \in Creators :
            creating'[d].alert = creating'[e].alert /\ creating'[d].alert \notin loose' \cup {None} => d = e
    BY <2>1, <2>2 DEF IInv, Answering
  <2>4. \A o \in DOMAIN orders' : orders'[o].alert \notin loose' \cup {None} =>
            \/ links'[orders'[o].alert] # 0
            \/ \E d \in Creators : creating'[d].step = "link" /\ creating'[d].alert = orders'[o].alert
    <3>1. \A o \in DOMAIN orders : orders[o].alert \notin loose \cup {None} =>
            \/ links[orders[o].alert] # 0
            \/ \E d \in Creators : creating'[d].step = "link" /\ creating'[d].alert = orders[o].alert
      BY <1>2, <1>7 DEF IInv, Answering
    <3>2. row.alert # None => creating'[c].step = "link" /\ creating'[c].alert = row.alert
      BY <1>4, <1>5, <1>7
    <3>3. QED  BY <1>8, <2>1, <3>1, <3>2
  <2>5. \A d \in Creators, o \in DOMAIN orders' :
            creating'[d].step \in {"number", "insert"} /\ creating'[d].alert \notin loose' \cup {None}
                => orders'[o].alert # creating'[d].alert
    <3>1. \A d \in Creators : creating'[d].step \in {"number", "insert"} => d # c /\ creating'[d] = creating[d]
      BY <1>4, <1>7
    <3>2. \A d \in Creators : d # c /\ creating[d].alert \notin loose \cup {None} => creating[d].alert # row.alert
      BY <1>5 DEF IInv, Answering
    <3>3. QED  BY <1>8, <2>1, <3>1, <3>2 DEF IInv, Answering
  <2>6. AlertAnsweredOnce'
    <3>1. \A o \in DOMAIN orders : row.alert \notin loose \cup {None} => orders[o].alert # row.alert
      BY <1>2, <1>5 DEF IInv, Answering
    <3>2. QED  BY <1>8, <2>1, <3>1 DEF IInv, Answering, AlertAnsweredOnce
  <2>7. QED  BY <2>3, <2>4, <2>5, <2>6 DEF Answering
<1>14. QED  BY <1>9, <1>10, <1>11, <1>12, <1>13 DEF IInv

\* A request that ends: what it had to announce is queued or lost, and its
\* alert, if still to be linked, is loose.
LEMMA CreationEnds ==
    ASSUME IInv, NEW c \in Creators, creating' = [creating EXCEPT ![c] = NoCreation],
           UNCHANGED <<now, orders, links, updating, jobVars>>,
           queued' \cup lost' = IF creating[c].step \in {"link", "announce"}
                               THEN queued \cup lost \cup CreationNotices(creating[c])
                               ELSE queued \cup lost,
           loose' = IF creating[c].step = "link" THEN loose \cup {creating[c].alert} ELSE loose,
           quota' \in [Kinds -> Nat]
    PROVE  IInv'
<1>1. creating \in [Creators -> Creation] /\ creating[c] \in Creation
  BY DEF IInv, TypeOK
<1>2. creating'[c] = NoCreation /\ \A d \in Creators : d # c => creating'[d] = creating[d]
  BY <1>1
<1>3. NoCreation \in Creation /\ NoCreation.step = "idle" /\ NoCreation.alert = None
  BY DEF NoCreation, Creation
<1>4. TypeOK'
  <2>1. creating' \in [Creators -> Creation]
    BY <1>1, <1>3
  <2>2. CreationNotices(creating[c]) \subseteq Notice
    BY <1>1 DEF CreationNotices, Assigned, Notice, Creation
  <2>3. queued' \subseteq Notice /\ lost' \subseteq Notice
    <3>1. queued \subseteq Notice /\ lost \subseteq Notice
      BY DEF IInv, TypeOK
    <3>2. queued' \cup lost' \subseteq Notice
      BY <2>2, <3>1
    <3>3. QED  BY <3>2
  <2>4. loose' \subseteq Alerts
    BY DEF IInv, TypeOK, References
  <2>5. QED  BY <2>1, <2>3, <2>4 DEF jobVars, IInv, TypeOK
<1>5. References'
  BY <1>2, <1>3 DEF IInv, References
<1>6. OneOpenSlaAlert'
  BY DEF jobVars, IInv, OneOpenSlaAlert
<1>7. Telling'
  <2>1. \A d \in Creators : creating[d].step \in {"link", "announce"} =>
            creating'[d] = creating[d] \/ CreationNotices(creating[d]) \subseteq Sent'
    BY <1>2 DEF Sent
  <2>2. Sent \subseteq Sent' /\ updating' = updating
    BY DEF Sent
  <2>3. /\ \A o, t : t # None /\ Told(o, t) => Told(o, t)'
        /\ \A o : ClosingAnnounced(o) => ClosingAnnounced(o)'
    BY <2>1, <2>2, ToldStays
  <2>4. QED  BY <2>3 DEF IInv, Telling
<1>8. Answering'
  <2>1. loose \subseteq loose' /\ orders' = orders /\ links' = links
    OBVIOUS
  <2>2. \A d, e \in Creators :
            creating'[d].alert = creating'[e].alert /\ creating'[d].alert \notin loose' \cup {None} => d = e
    BY <1>2, <1>3, <2>1 DEF IInv, Answering
  <2>3. \A o \in DOMAIN orders' : orders'[o].alert \notin loose' \cup {None} =>
            \/ links'[orders'[o].alert] # 0
            \/ \E d \in Creators : creating'[d].step = "link" /\ creating'[d].alert = orders'[o].alert
    <3>1. SUFFICES ASSUME NEW o \in DOMAIN orders, orders[o].alert \notin loose' \cup {None},
                          links[orders[o].alert] = 0
                   PROVE  \E d \in Creators : creating'[d].step = "link" /\ creating'[d].alert = orders[o].alert
      BY <2>1
    <3>2. PICK d \in Creators : creating[d].step = "link" /\ creating[d].alert = orders[o].alert
      BY <2>1, <3>1 DEF IInv, Answering
    <3>3. d # c
      BY <3>1, <3>2
    <3>4. QED  BY <1>2, <3>2, <3>3
  <2>4. \A d \in Creators, o \in DOMAIN orders' :
            creating'[d].step \in {"number", "insert"} /\ creating'[d].alert \notin loose' \cup {None}
                => orders'[o].alert # creating'[d].alert
    BY <1>2, <1>3, <2>1 DEF IInv, Answering
  <2>5. AlertAnsweredOnce'
    BY <2>1 DEF IInv, Answering, AlertAnsweredOnce
  <2>6. QED  BY <2>2, <2>3, <2>4, <2>5 DEF Answering
<1>9. QED  BY <1>4, <1>5, <1>6, <1>7, <1>8 DEF IInv

LEMMA CreationEndsIInv ==
    ASSUME IInv, NEW c \in Creators, NumberTaken(c) \/ AnnounceCreated(c) \/ CreateFails(c)
    PROVE  IInv'
<1>1. CASE NumberTaken(c)
  <2>1. quota' \in [Kinds -> Nat]
    BY <1>1 DEF NumberTaken, IInv, TypeOK
  <2>2. QED  BY <1>1, <2>1, CreationEnds DEF NumberTaken
<1>2. CASE AnnounceCreated(c)
  <2>1. quota' \in [Kinds -> Nat]
    BY <1>2 DEF AnnounceCreated, IInv, TypeOK
  <2>2. queued' \cup lost' = queued \cup lost \cup CreationNotices(creating[c])
    BY <1>2 DEF AnnounceCreated
  <2>3. QED  BY <1>2, <2>1, <2>2, CreationEnds DEF AnnounceCreated
<1>3. CASE CreateFails(c)
  <2>1. quota' \in [Kinds -> Nat]
    BY <1>3, SpendTypes DEF CreateFails, IInv, Kinds
  <2>2. queued' \cup lost' = IF creating[c].step \in {"link", "announce"}
                            THEN queued \cup lost \cup CreationNotices(creating[c])
                            ELSE queued \cup lost
    BY <1>3 DEF CreateFails
  <2>3. QED  BY <1>3, <2>1, <2>2, CreationEnds DEF CreateFails
<1>4. QED  BY <1>1, <1>2, <1>3

LEMMA LinkAlertIInv ==
    ASSUME IInv, NEW c \in Creators, LinkAlert(c) PROVE IInv'
<1> DEFINE alert == creating[c].alert
           req == [creating[c] EXCEPT !.step = "announce"]
<1>1. /\ creating \in [Creators -> Creation] /\ creating[c] \in Creation
      /\ links \in [Alerts -> 0..Len(orders)] /\ orders \in Seq(Order)
  BY DEF IInv, TypeOK
<1>2. creating' = [creating EXCEPT ![c] = req] /\ links' = [links EXCEPT ![alert] = creating[c].last]
  BY <1>1 DEF LinkAlert, Creation
<1>3. creating[c].step = "link" /\ alert \in Alerts /\ creating[c].last \in 1..Len(orders)
  BY <1>1 DEF LinkAlert, IInv, References
<1>4. /\ req \in Creation /\ req.step = "announce" /\ req.alert = alert
      /\ req.last = creating[c].last /\ req.technician = creating[c].technician
  BY <1>1 DEF Creation
<1> HIDE DEF req, alert
<1>5. creating'[c] = req /\ \A d \in Creators : d # c => creating'[d] = creating[d]
  BY <1>1, <1>2
<1>6. TypeOK'
  <2>1. creating' \in [Creators -> Creation]
    BY <1>1, <1>2, <1>4
  <2>2. links' \in [Alerts -> 0..Len(orders)]
    BY <1>1, <1>2, <1>3
  <2>3. QED  BY <2>1, <2>2 DEF LinkAlert, jobVars, IInv, TypeOK
<1>7. References'
  BY <1>3, <1>4, <1>5 DEF LinkAlert, IInv, References
<1>8. OneOpenSlaAlert'
  BY DEF LinkAlert, jobVars, IInv, OneOpenSlaAlert
<1>9. Telling'
  <2>1. \A d \in Creators : creating[d].step \in {"link", "announce"} =>
            /\ creating'[d].step \in {"link", "announce"} /\ creating'[d].last = creating[d].last
            /\ creating'[d].technician = creating[d].technician
    BY <1>4, <1>5
  <2>2. Sent \subseteq Sent' /\ updating' = updating
    BY DEF LinkAlert, Sent
  <2>3. /\ \A o, t : t # None /\ Told(o, t) => Told(o, t)'
        /\ \A o : ClosingAnnounced(o) => ClosingAnnounced(o)'
    BY <2>1, <2>2, ToldStays
  <2>4. QED  BY <2>3 DEF LinkAlert, IInv, Telling
<1>10. Answering'
  <2>1. loose' = loose /\ orders' = orders
    BY DEF LinkAlert
  <2>2. \A d \in Creators : creating'[d].alert = creating[d].alert
    BY <1>4, <1>5 DEF alert
  <2>3. \A d, e \in Creators :
            creating'[d].alert = creating'[e].alert /\ creating'[d].alert \notin loose' \cup {None} => d = e
    BY <2>1, <2>2 DEF IInv, Answering
  <2>4. \A o \in DOMAIN orders' : orders'[o].alert \notin loose' \cup {None} =>
            \/ links'[orders'[o].alert] # 0
            \/ \E d \in Creators : creating'[d].step = "link" /\ creating'[d].alert = orders'[o].alert
    <3>1. links'[alert] # 0
      BY <1>1, <1>2, <1>3
    <3>2. \A a \in Alerts : links[a] # 0 => links'[a] # 0
      BY <1>1, <1>2, <3>1
    <3>3. \A d \in Creators : creating[d].step = "link" =>
              creating[d].alert = alert \/ creating'[d].step = "link"
      BY <1>5 DEF alert
    <3>4. \A o \in DOMAIN orders : orders[o].alert \in Alerts \cup {None}
      <4>1. \A o \in DOMAIN orders : orders[o] \in Order
        BY <1>1
      <4>2. QED  BY <4>1 DEF Order
    <3>5. QED  BY <2>1, <2>2, <3>1, <3>2, <3>3, <3>4 DEF IInv, Answering
  <2>5. \A d \in Creators, o \in DOMAIN orders' :
            creating'[d].step \in {"number", "insert"} /\ creating'[d].alert \notin loose' \cup {None}
                => orders'[o].alert # creating'[d].alert
    BY <1>4, <1>5, <2>1 DEF IInv, Answering
  <2>6. AlertAnsweredOnce'
    BY <2>1 DEF IInv, Answering, AlertAnsweredOnce
  <2>7. QED  BY <2>3, <2>4, <2>5, <2>6 DEF Answering
<1>11. QED  BY <1>6, <1>7, <1>8, <1>9, <1>10 DEF IInv

-----------------------------------------------------------------------------
(* update.                                                                 *)

\* An update leaves creations, links and alerts alone; it may set status and
\* technician of one order.
LEMMA AnswersStay ==
    ASSUME IInv, UNCHANGED <<links, creating, loose>>,
           DOMAIN orders' = DOMAIN orders,
           \A o \in DOMAIN orders : orders'[o].alert = orders[o].alert
    PROVE  Answering'
<1>1. /\ \A c, d \in Creators :
            creating'[c].alert = creating'[d].alert /\ creating'[c].alert \notin loose' \cup {None} => c = d
      /\ \A o \in DOMAIN orders' : orders'[o].alert \notin loose' \cup {None} =>
            \/ links'[orders'[o].alert] # 0
            \/ \E c \in Creators : creating'[c].step = "link" /\ creating'[c].alert = orders'[o].alert
      /\ \A c \in Creators, o \in DOMAIN orders' :
            creating'[c].step \in {"number", "insert"} /\ creating'[c].alert \notin loose' \cup {None}
                => orders'[o].alert # creating'[c].alert
  BY DEF IInv, Answering
<1>2. AlertAnsweredOnce'
  BY DEF IInv, Answering, AlertAnsweredOnce
<1>3. QED  BY <1>1, <1>2 DEF Answering

LEMMA StartUpdateIInv ==
    ASSUME IInv, NEW u \in Updaters, NEW o \in DOMAIN orders, NEW s \in Status \cup {None},
           NEW t \in Technicians \cup {None}, StartUpdate(u, o, s, t)
    PROVE  IInv'
<1> DEFINE req == [step |-> "write", order |-> o, status |-> s, technician |-> t,
                   before |-> orders[o].status, assigned |-> orders[o].technician]
<1>1. /\ updating \in [Updaters -> Update] /\ orders \in Seq(Order)
      /\ updating' = [updating EXCEPT ![u] = req] /\ updating[u].step = "idle"
  BY DEF StartUpdate, IInv, TypeOK
<1>2. orders[o] \in Order /\ o \in Nat
  BY <1>1
<1>3. req \in Update
  BY <1>2 DEF Update, Order
<1>4. /\ req.step = "write" /\ req.order = o /\ req.before = orders[o].status
      /\ req.assigned = orders[o].technician
  OBVIOUS
<1> HIDE DEF req
<1>5. updating'[u] = req /\ \A v \in Updaters : v # u => updating'[v] = updating[v]
  BY <1>1
<1>6. TypeOK'
  <2>1. updating' \in [Updaters -> Update]
    BY <1>1, <1>3
  <2>2. quota' \in [Kinds -> Nat]
    BY SpendTypes DEF StartUpdate, IInv, Kinds
  <2>3. QED  BY <2>1, <2>2 DEF StartUpdate, jobVars, IInv, TypeOK
<1>7. References'
  BY <1>4, <1>5 DEF StartUpdate, IInv, References
<1>8. OneOpenSlaAlert'
  BY DEF StartUpdate, jobVars, IInv, OneOpenSlaAlert
<1>9. Answering'
  BY AnswersStay DEF StartUpdate
<1>10. Telling'
  <2>1. /\ Sent \subseteq Sent' /\ creating' = creating /\ orders' = orders
        /\ \A v \in Updaters : updating[v].step = "announce" => updating'[v] = updating[v]
    BY <1>1, <1>5 DEF StartUpdate, Sent
  <2>2. /\ \A p, x : x # None /\ Told(p, x) => Told(p, x)'
        /\ \A p : ClosingAnnounced(p) => ClosingAnnounced(p)'
    BY <2>1, ToldStays
  <2>3. \A p \in DOMAIN orders' :
            /\ orders'[p].technician # None => Told(p, orders[p].technician)'
            /\ orders'[p].status = "DONE" => ClosingAnnounced(p)'
    BY <2>1, <2>2 DEF IInv, Telling
  <2>4. \A v \in Updaters : \A x : updating'[v].step # "idle" =>
            /\ x # None /\ updating'[v].assigned = x => \A p : p = updating'[v].order => Told(p, x)'
            /\ updating'[v].before = "DONE" => \A p : p = updating'[v].order => ClosingAnnounced(p)'
    BY <1>4, <1>5, <2>1, <2>2 DEF IInv, Telling
  <2>5. QED  BY <2>3, <2>4 DEF Telling
<1>11. QED  BY <1>6, <1>7, <1>8, <1>9, <1>10 DEF IInv

\* The technician set is the one the order was read with, or the update has
\* still to tell.
LEMMA WriteOrderIInv ==
    ASSUME IInv, NEW u \in Updaters, WriteOrder(u) PROVE IInv'
<1> DEFINE old == updating[u]
           req == [old EXCEPT !.step = "announce"]
           n == old.order
           row == [orders[n] EXCEPT !.status = IF old.status = None THEN @ ELSE old.status,
                                    !.technician = IF old.technician = None THEN @ ELSE old.technician]
<1>1. /\ updating \in [Updaters -> Update] /\ orders \in Seq(Order)
      /\ old \in Update /\ old.step = "write" /\ n \in DOMAIN orders
  BY DEF WriteOrder, IInv, TypeOK, References
<1>2. orders[n] \in Order
  BY <1>1
<1>3. updating' = [updating EXCEPT ![u] = req] /\ orders' = [orders EXCEPT ![n] = row]
  BY <1>1, <1>2 DEF WriteOrder, Update, Order
<1>4. /\ req \in Update /\ req.step = "announce" /\ req.order = n /\ req.before = old.before
      /\ req.assigned = old.assigned /\ UpdateNotices(req) = UpdateNotices(old)
  BY <1>1 DEF Update, UpdateNotices
<1>5. /\ row \in Order /\ row.alert = orders[n].alert
      /\ row.status = IF old.status = None THEN orders[n].status ELSE old.status
      /\ row.technician = IF old.technician = None THEN orders[n].technician ELSE old.technician
  BY <1>1, <1>2 DEF Update, Order
<1> HIDE DEF req, row
<1>6. /\ updating'[u] = req /\ \A v \in Updaters : v # u => updating'[v] = updating[v]
      /\ orders' \in Seq(Order) /\ DOMAIN orders' = DOMAIN orders /\ Len(orders') = Len(orders)
      /\ orders'[n] = row /\ \A p \in DOMAIN orders : p # n => orders'[p] = orders[p]
  BY <1>1, <1>3, <1>5
<1>7. TypeOK'
  <2>1. updating' \in [Updaters -> Update]
    BY <1>1, <1>3, <1>4
  <2>2. QED  BY <1>6, <2>1 DEF WriteOrder, jobVars, IInv, TypeOK
<1>8. References'
  BY <1>1, <1>4, <1>6 DEF WriteOrder, IInv, References
<1>9. OneOpenSlaAlert'
  BY DEF WriteOrder, jobVars, IInv, OneOpenSlaAlert
<1>10. Answering'
  BY <1>5, <1>6, AnswersStay DEF WriteOrder
<1>11. Telling'
  <2>1. /\ Sent \subseteq Sent' /\ creating' = creating
        /\ \A v \in Updaters : updating[v].step = "announce" => updating'[v] = updating[v]
    BY <1>1, <1>6 DEF WriteOrder, Sent
  <2>2. /\ \A p, x : x # None /\ Told(p, x) => Told(p, x)'
        /\ \A p : ClosingAnnounced(p) => ClosingAnnounced(p)'
    BY <2>1, ToldStays
  <2>3. \A p, x : Assigned(p, x) \in UpdateNotices(old) => Told(p, x)'
    BY <1>4, <1>6 DEF Told, UpdateNotices, Assigned, Closed
  <2>4. \A p : Closed(p) \in UpdateNotices(old) => ClosingAnnounced(p)'
    BY <1>4, <1>6 DEF ClosingAnnounced, UpdateNotices, Assigned, Closed
  <2>5. \A p, x : p = n /\ x # None /\ row.technician = x => Told(p, x)'
    <3>1. CASE old.technician = None
      BY <1>1, <1>5, <2>2, <3>1 DEF IInv, Telling
    <3>2. CASE old.technician # None /\ old.technician = old.assigned
      BY <1>1, <1>5, <2>2, <3>2 DEF IInv, Telling
    <3>3. CASE old.technician # None /\ old.technician # old.assigned
      BY <1>5, <2>3, <3>3 DEF UpdateNotices
    <3>4. QED  BY <3>1, <3>2, <3>3
  <2>6. \A p : p = n /\ row.status = "DONE" => ClosingAnnounced(p)'
    <3>1. CASE old.status = None
      BY <1>1, <1>5, <2>2, <3>1 DEF IInv, Telling
    <3>2. CASE old.status # None /\ old.before = "DONE"
      BY <1>1, <1>5, <2>2, <3>2 DEF IInv, Telling
    <3>3. CASE old.status # None /\ old.before # "DONE"
      BY <1>5, <2>4, <3>3 DEF UpdateNotices
    <3>4. QED  BY <3>1, <3>2, <3>3
  <2>7. \A p \in DOMAIN orders' : \A x :
            /\ x # None /\ orders'[p].technician = x => Told(p, x)'
            /\ orders'[p].status = "DONE" => ClosingAnnounced(p)'
    BY <1>6, <2>2, <2>5, <2>6 DEF IInv, Telling
  <2>8. \A v \in Updaters : \A x : updating'[v].step # "idle" =>
            /\ x # None /\ updating'[v].assigned = x => \A p : p = updating'[v].order => Told(p, x)'
            /\ updating'[v].before = "DONE" => \A p : p = updating'[v].order => ClosingAnnounced(p)'
    BY <1>1, <1>4, <1>6, <2>2 DEF IInv, Telling
  <2>9. QED  BY <2>7, <2>8 DEF Telling
<1>12. QED  BY <1>7, <1>8, <1>9, <1>10, <1>11 DEF IInv

\* An update that ends: what it had to announce is queued or lost.
LEMMA UpdateEndsIInv ==
    ASSUME IInv, NEW u \in Updaters, AnnounceUpdated(u) \/ UpdateFails(u)
    PROVE  IInv'
<1>1. /\ updating \in [Updaters -> Update] /\ updating[u] \in Update
      /\ updating' = [updating EXCEPT ![u] = NoUpdate]
  BY DEF AnnounceUpdated, UpdateFails, IInv, TypeOK
<1>2. updating'[u] = NoUpdate /\ \A v \in Updaters : v # u => updating'[v] = updating[v]
  BY <1>1
<1>3. NoUpdate \in Update /\ NoUpdate.step = "idle"
  BY DEF NoUpdate, Update, Status
<1>4. /\ UNCHANGED <<now, orders, links, creating, jobVars, loose>>
      /\ Sent' = IF updating[u].step = "announce" THEN Sent \cup UpdateNotices(updating[u]) ELSE Sent
      /\ queued \subseteq queued' /\ queued' \cup lost' = Sent'
  BY DEF AnnounceUpdated, UpdateFails, Sent
<1>5. TypeOK'
  <2>1. updating' \in [Updaters -> Update]
    BY <1>1, <1>3
  <2>2. UpdateNotices(updating[u]) \subseteq Notice
    BY <1>1 DEF UpdateNotices, Assigned, Closed, Notice, Update
  <2>3. queued' \subseteq Notice /\ lost' \subseteq Notice
    <3>1. queued \subseteq Notice /\ lost \subseteq Notice
      BY DEF IInv, TypeOK
    <3>2. Sent' \subseteq Notice
      BY <1>4, <2>2, <3>1 DEF Sent
    <3>3. QED  BY <1>4, <3>2
  <2>4. quota' \in [Kinds -> Nat]
    <3>1. CASE AnnounceUpdated(u)
      BY <3>1 DEF AnnounceUpdated, IInv, TypeOK
    <3>2. CASE UpdateFails(u)
      BY <3>2, SpendTypes DEF UpdateFails, IInv, Kinds
    <3>3. QED  BY <3>1, <3>2
  <2>5. QED  BY <1>4, <2>1, <2>3, <2>4 DEF jobVars, IInv, TypeOK
<1>6. References'
  BY <1>2, <1>3, <1>4 DEF IInv, References
<1>7. OneOpenSlaAlert'
  BY <1>4 DEF jobVars, IInv, OneOpenSlaAlert
<1>8. Answering'
  BY <1>4, AnswersStay
<1>9. Telling'
  <2>1. /\ Sent \subseteq Sent'
        /\ \A v \in Updaters : updating[v].step = "announce" =>
                updating'[v] = updating[v] \/ UpdateNotices(updating[v]) \subseteq Sent'
    BY <1>2, <1>4
  <2>2. /\ \A p, x : x # None /\ Told(p, x) => Told(p, x)'
        /\ \A p : ClosingAnnounced(p) => ClosingAnnounced(p)'
    BY <1>4, <2>1, ToldStays
  <2>3. \A v \in Updaters : updating'[v].step # "idle" => updating'[v] = updating[v]
    BY <1>2, <1>3
  <2>4. QED  BY <1>4, <2>2, <2>3 DEF IInv, Telling
<1>10. QED  BY <1>5, <1>6, <1>7, <1>8, <1>9 DEF IInv

-----------------------------------------------------------------------------
LEMMA NextIInv == IInv /\ [Next]_vars => IInv'
<1>1. ASSUME IInv, Next PROVE IInv'
  <2>1. ASSUME NEW c \in Creators,
               \/ ReadLastNumber(c) \/ Insert(c) \/ NumberTaken(c) \/ LinkAlert(c)
               \/ AnnounceCreated(c) \/ CreateFails(c)
        PROVE  IInv'
    BY <1>1, <2>1, ReadLastNumberIInv, InsertIInv, CreationEndsIInv, LinkAlertIInv
  <2>2. ASSUME NEW u \in Updaters, WriteOrder(u) \/ AnnounceUpdated(u) \/ UpdateFails(u)
        PROVE  IInv'
    BY <1>1, <2>2, WriteOrderIInv, UpdateEndsIInv
  <2>3. ASSUME \E c \in Creators, a \in Alerts \cup {None}, t \in Technicians \cup {None}, sla \in Hierarchy :
                   StartCreate(c, a, t, sla)
        PROVE  IInv'
    BY <1>1, <2>3, StartCreateIInv
  <2>4. ASSUME \E u \in Updaters, o \in DOMAIN orders, s \in Status \cup {None},
                   t \in Technicians \cup {None} : StartUpdate(u, o, s, t)
        PROVE  IInv'
    BY <1>1, <2>4, StartUpdateIInv
  <2>5. ASSUME \/ Tick \/ StartCheckSla \/ EndCheckSla \/ CheckSlaFails
               \/ \E w \in watched : CheckOrder(w)
               \/ \E i \in DOMAIN slaAlerts, s \in {"ACKNOWLEDGED", "RESOLVED"} : SettleAlert(i, s)
        PROVE  IInv'
    BY <1>1, <2>5, TimeAndJobIInv, CheckOrderIInv, SettleAlertIInv
  <2>6. QED  BY <1>1, <2>1, <2>2, <2>3, <2>4, <2>5 DEF Next
<1>2. ASSUME IInv, UNCHANGED vars PROVE IInv'
  <2>1. References' /\ Telling' /\ Answering'
    BY <1>2, Elsewhere DEF vars, jobVars
  <2>2. TypeOK' /\ OneOpenSlaAlert'
    BY <1>2 DEF vars, jobVars, IInv, TypeOK, OneOpenSlaAlert
  <2>3. QED  BY <2>1, <2>2 DEF IInv
<1>3. QED  BY <1>1, <1>2

\* In every state what has to be announced has been or will be, an alert is
\* dealt with by one request, and the tables are well formed.
THEOREM AlwaysIInv == Spec => []IInv
<1>1. QED  BY InitIInv, NextIInv, PTL DEF Spec

\* The tables stay well formed, and an order has at most one OPEN alert of a
\* type, whatever users and failed runs of check-sla do.
THEOREM AlwaysConsistent == Spec => []Consistent
<1>1. IInv => Consistent
  BY DEF IInv, Consistent
<1>2. QED  BY <1>1, AlwaysIInv, PTL

\* Who becomes an order's technician is sent its ticket-assigned job, and a
\* closed order its ticket-closed job, by the request that wrote it or by the
\* one it was read after.
THEOREM AlwaysEverybodyTold == Spec => []EverybodyTold
<1>1. IInv => EverybodyTold
  <2>1. SUFFICES ASSUME IInv, NEW o \in DOMAIN orders, Quiet(o)
                 PROVE  /\ orders[o].technician # None => Assigned(o, orders[o].technician) \in queued \cup lost
                        /\ orders[o].status = "DONE" => Closed(o) \in queued \cup lost
    BY DEF EverybodyTold, TechnicianTold, ClosingTold
  <2>2. \A u \in Updaters : \A n \in UpdateNotices(updating[u]) : n.order = updating[u].order
    BY DEF UpdateNotices, Assigned, Closed
  <2>3. ASSUME NEW t, t # None, Told(o, t) PROVE Assigned(o, t) \in queued \cup lost
    <3>1. Assigned(o, t).order = o
      BY DEF Assigned
    <3>2. QED  BY <2>1, <2>2, <2>3, <3>1 DEF Told, Quiet, Sent
  <2>4. ASSUME ClosingAnnounced(o) PROVE Closed(o) \in queued \cup lost
    <3>1. Closed(o).order = o
      BY DEF Closed
    <3>2. QED  BY <2>1, <2>2, <2>4, <3>1 DEF ClosingAnnounced, Quiet, Sent
  <2>5. QED  BY <2>1, <2>3, <2>4 DEF IInv, Telling
<1>2. QED  BY <1>1, AlwaysIInv, PTL

\* An alert has at most one order, unless two requests answered it at once or
\* one failed between the order and the link.
THEOREM AlwaysAnsweredOnce == Spec => []AlertAnsweredOnce
<1>1. IInv => AlertAnsweredOnce
  BY DEF IInv, Answering
<1>2. QED  BY <1>1, AlwaysIInv, PTL
=============================================================================
