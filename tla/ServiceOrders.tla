--------------------------- MODULE ServiceOrders ---------------------------
(***************************************************************************)
(* Service orders: created and updated by requests of several statements   *)
(* each, linked with the alert they answer, given a due date by the SLA    *)
(* that applies, announced on the notifications queue, and watched by the  *)
(* worker's check-sla job.  An order is named by its number: the database  *)
(* refuses a second order with the number.                                 *)
(*                                                                         *)
(* OPEN stands for the five statuses of OPEN_SERVICE_ORDER_STATUSES, in    *)
(* one of which an order is created.  Time is in ticks, SLAs too, and due  *)
(* dates come from SLAs only.  The rest of an order, its approval and its  *)
(* photos are left out, its parts are Inventory's; mails are sent or       *)
(* dropped by the worker and change no state.                              *)
(***************************************************************************)
EXTENDS Integers, Sequences, FiniteSets

CONSTANTS
    Creators,     \* requests that create an order
    Updaters,     \* requests that update one
    Technicians,
    Alerts,       \* alerts of printers, which an order may answer
    Hours,        \* the SLAs configured at any level
    Contracts,    \* the customer's ACTIVE contracts: [own |-> is it the printer's, hours]
    Warning,      \* SLA_EXPIRING_WARNING_MS
    Quotas,       \* bound: how often each kind of event may happen, one
                  \* function per mix of events that is explored
    None

Kinds == {"create", "update", "alert", "fault", "tick"}
Hierarchy == [printer : Hours \cup {None}, location : Hours \cup {None}, customer : Hours \cup {None}]

ASSUME ServiceOrdersAssumption ==
    /\ Hours \subseteq Nat
    /\ Contracts \subseteq [own : BOOLEAN, hours : Hours \cup {None}]
    /\ Warning \in Nat
    /\ Quotas \subseteq [Kinds -> Nat]
    /\ None \notin Int \cup Technicians \cup Alerts

VARIABLES
    now,
    orders,     \* ServiceOrder rows by number
    links,      \* Alert.serviceOrderId of each alert, 0 if none
    slaAlerts,  \* Alert rows of the check-sla job
    queued,     \* ticket-assigned and ticket-closed jobs ever enqueued
    creating,
    updating,
    \* the job
    pc,
    today,      \* const now = Date.now()
    watched,    \* the orders it read and has still to look at, with what it read
    \* observation only
    lost,       \* what a failed request had still to announce
    loose,      \* alerts two requests answered at once, or one failed to link
    quota

vars == <<now, orders, links, slaAlerts, queued, creating, updating, pc, today, watched, lost, loose, quota>>
jobVars == <<pc, today, watched, slaAlerts>>

Status == {"OPEN", "DONE", "CANCELLED"}
AlertType == {"SLA_EXPIRING", "SERVICE_ORDER_LATE"}
\* alert: the one it was created for.  Observation only: when it is due by the
\* most specific SLA (promised), and whichever contract decides (latest).
Order == [status : Status, technician : Technicians \cup {None}, due : Nat \cup {None},
          alert : Alerts \cup {None}, promised : Nat \cup {None}, latest : Nat \cup {None}]
SlaAlert == [order : Nat, type : AlertType, status : {"OPEN", "ACKNOWLEDGED", "RESOLVED"}]
Notice == [kind : {"ticket-assigned", "ticket-closed"}, order : Nat, technician : Technicians \cup {None}]
Creation == [step : {"idle", "number", "insert", "link", "announce"}, alert : Alerts \cup {None},
             technician : Technicians \cup {None}, due : Nat \cup {None}, promised : Nat \cup {None},
             latest : Nat \cup {None}, last : Nat]
Update == [step : {"idle", "write", "announce"}, order : Nat, status : Status \cup {None},
           technician : Technicians \cup {None}, before : Status, assigned : Technicians \cup {None}]
Watched == [order : Nat, due : Nat]

NoCreation == [step |-> "idle", alert |-> None, technician |-> None,
                due |-> None, promised |-> None, latest |-> None, last |-> 0]
NoUpdate == [step |-> "idle", order |-> 0, status |-> None, technician |-> None, before |-> "OPEN", assigned |-> None]

TypeOK ==
    /\ now \in Nat
    /\ orders \in Seq(Order)
    /\ links \in [Alerts -> 0..Len(orders)]
    /\ slaAlerts \in Seq(SlaAlert)
    /\ queued \subseteq Notice
    /\ creating \in [Creators -> Creation]
    /\ updating \in [Updaters -> Update]
    /\ pc \in {"idle", "watch"}
    /\ today \in 0..now
    /\ watched \subseteq Watched
    /\ lost \subseteq Notice
    /\ loose \subseteq Alerts
    /\ quota \in [Kinds -> Nat]

Init ==
    /\ now = 0
    /\ orders = <<>>
    /\ links = [a \in Alerts |-> 0]
    /\ slaAlerts = <<>>
    /\ queued = {}
    /\ creating = [c \in Creators |-> NoCreation]
    /\ updating = [u \in Updaters |-> NoUpdate]
    /\ pc = "idle"
    /\ today = 0
    /\ watched = {}
    /\ lost = {}
    /\ loose = {}
    /\ quota \in Quotas

Spend(kind) ==
    /\ quota[kind] > 0
    /\ quota' = [quota EXCEPT ![kind] = @ - 1]

Tick ==
    /\ Spend("tick")
    /\ now' = now + 1
    /\ UNCHANGED <<orders, links, queued, creating, updating, jobVars, lost, loose>>

Assigned(o, t) == [kind |-> "ticket-assigned", order |-> o, technician |-> t]
Closed(o) == [kind |-> "ticket-closed", order |-> o, technician |-> None]

-----------------------------------------------------------------------------
(* create.                                                                 *)

\* Mutant: a linked alert may get another order.
AnyAlert(a) == TRUE

Unlinked(a) == a = None \/ links[a] = 0

\* orderBy printerId desc: PostgreSQL sorts NULL first, so a contract without
\* a printer comes before the printer's own.  Among several of a kind the
\* database chooses.
ContractHours ==
    LET first == IF \E k \in Contracts : ~k.own THEN {k \in Contracts : ~k.own} ELSE Contracts
    IN  IF Contracts = {} THEN None ELSE (CHOOSE k \in first : TRUE).hours

\* Mutant: zero hours are taken for no SLA.
FirstPositive(sla) ==
    CASE sla.printer \notin {None, 0} -> sla.printer
      [] sla.printer \in {None, 0} /\ sla.location \notin {None, 0} -> sla.location
      [] sla.printer \in {None, 0} /\ sla.location \in {None, 0} /\ sla.customer \notin {None, 0} -> sla.customer
      [] OTHER -> ContractHours

ResolveSlaHours(sla) ==
    CASE sla.printer # None -> sla.printer
      [] sla.printer = None /\ sla.location # None -> sla.location
      [] sla.printer = None /\ sla.location = None /\ sla.customer # None -> sla.customer
      [] OTHER -> ContractHours

DueIn(hours) == IF hours = None THEN None ELSE now + hours

\* Printer, location, customer, contract: the first that gives an SLA.
MostSpecific(sla, contract) ==
    LET levels == <<sla.printer, sla.location, sla.customer, contract>>
        set == {i \in 1..4 : levels[i] # None}
    IN  IF set = {} THEN None ELSE levels[CHOOSE i \in set : \A j \in set : i <= j]

\* What the configuration promises: the printer's own contract first.
OwnContractHours ==
    LET first == IF \E k \in Contracts : k.own THEN {k \in Contracts : k.own} ELSE Contracts
    IN  IF Contracts = {} THEN None ELSE (CHOOSE k \in first : TRUE).hours

\* The longest any of the contracts gives, None if one gives no SLA.
LongestContractHours ==
    LET longest == {k \in Contracts : k.hours # None /\ \A j \in Contracts : j.hours # None /\ j.hours <= k.hours}
    IN  IF longest = {} THEN None ELSE (CHOOSE k \in longest : TRUE).hours

\* Customer, location and printer are read with their SLAs, and the alert, if there is one.
StartCreate(c, a, t, sla) ==
    /\ Spend("create")
    /\ creating[c].step = "idle"
    /\ a # None => Unlinked(a)
    /\ creating' = [creating EXCEPT ![c] =
            [step |-> "number", alert |-> a, technician |-> t,
             due |-> ResolveSlaHours(sla), promised |-> MostSpecific(sla, OwnContractHours),
             latest |-> MostSpecific(sla, LongestContractHours), last |-> 0]]
    /\ loose' = loose \cup {b \in Alerts : b = a /\ \E d \in Creators : creating[d].alert = a}
    /\ UNCHANGED <<now, orders, links, queued, updating, jobVars, lost>>

\* The number is read, and from then on the SLA counts.
ReadLastNumber(c) ==
    /\ creating[c].step = "number"
    /\ creating' = [creating EXCEPT ![c].step = "insert", ![c].last = Len(orders),
                                    ![c].due = DueIn(@), ![c].promised = DueIn(@), ![c].latest = DueIn(@)]
    /\ UNCHANGED <<now, orders, links, queued, updating, jobVars, lost, loose, quota>>

\* The insertion, refused if the number was taken meanwhile.
Insert(c) ==
    LET req == creating[c]
    IN  /\ req.step = "insert"
        /\ req.last = Len(orders)
        /\ orders' = Append(orders, [status |-> "OPEN", technician |-> req.technician,
                                     due |-> req.due, alert |-> req.alert,
                                     promised |-> req.promised, latest |-> req.latest])
        /\ creating' = [creating EXCEPT ![c].step = IF req.alert = None THEN "announce" ELSE "link",
                                        ![c].last = Len(orders) + 1]
        /\ UNCHANGED <<now, links, queued, updating, jobVars, lost, loose, quota>>

NumberTaken(c) ==
    /\ creating[c].step = "insert"
    /\ creating[c].last # Len(orders)
    /\ creating' = [creating EXCEPT ![c] = NoCreation]
    /\ UNCHANGED <<now, orders, links, queued, updating, jobVars, lost, loose, quota>>

\* The alert is linked whatever it is linked with by now.
LinkAlert(c) ==
    /\ creating[c].step = "link"
    /\ links' = [links EXCEPT ![creating[c].alert] = creating[c].last]
    /\ creating' = [creating EXCEPT ![c].step = "announce"]
    /\ UNCHANGED <<now, orders, queued, updating, jobVars, lost, loose, quota>>

CreationNotices(req) ==
    IF req.technician = None THEN {} ELSE {Assigned(req.last, req.technician)}

AnnounceCreated(c) ==
    /\ creating[c].step = "announce"
    /\ queued' = queued \cup CreationNotices(creating[c])
    /\ creating' = [creating EXCEPT ![c] = NoCreation]
    /\ UNCHANGED <<now, orders, links, updating, jobVars, lost, loose, quota>>

\* A statement throws or the API dies: what is written stays.
CreateFails(c) ==
    LET req == creating[c]
    IN  /\ Spend("fault")
        /\ req.step # "idle"
        /\ lost' = IF req.step \in {"link", "announce"} THEN lost \cup CreationNotices(req) ELSE lost
        /\ loose' = IF req.step = "link" THEN loose \cup {req.alert} ELSE loose
        /\ creating' = [creating EXCEPT ![c] = NoCreation]
        /\ UNCHANGED <<now, orders, links, queued, updating, jobVars>>

-----------------------------------------------------------------------------
(* update.                                                                 *)

\* The order is read; the caller may set its status and its technician.
StartUpdate(u, o, s, t) ==
    /\ Spend("update")
    /\ updating[u].step = "idle"
    /\ <<s, t>> # <<None, None>>
    /\ updating' = [updating EXCEPT ![u] =
            [step |-> "write", order |-> o, status |-> s, technician |-> t,
             before |-> orders[o].status, assigned |-> orders[o].technician]]
    /\ UNCHANGED <<now, orders, links, queued, creating, jobVars, lost, loose>>

WriteOrder(u) ==
    LET req == updating[u]
    IN  /\ req.step = "write"
        /\ orders' = [orders EXCEPT
                ![req.order].status = IF req.status = None THEN @ ELSE req.status,
                ![req.order].technician = IF req.technician = None THEN @ ELSE req.technician]
        /\ updating' = [updating EXCEPT ![u].step = "announce"]
        /\ UNCHANGED <<now, links, queued, creating, jobVars, lost, loose, quota>>

\* Mutant: compared with the order as it is by now.
LateNotices(req) ==
    (IF req.technician \notin {None, orders[req.order].technician} THEN {Assigned(req.order, req.technician)} ELSE {})
    \cup (IF req.status = "DONE" /\ orders[req.order].status # "DONE" THEN {Closed(req.order)} ELSE {})

\* wasAssigned and isClosing, from the order as it was read.
UpdateNotices(req) ==
    (IF req.technician \notin {None, req.assigned} THEN {Assigned(req.order, req.technician)} ELSE {})
    \cup (IF req.status = "DONE" /\ req.before # "DONE" THEN {Closed(req.order)} ELSE {})

AnnounceUpdated(u) ==
    /\ updating[u].step = "announce"
    /\ queued' = queued \cup UpdateNotices(updating[u])
    /\ updating' = [updating EXCEPT ![u] = NoUpdate]
    /\ UNCHANGED <<now, orders, links, creating, jobVars, lost, loose, quota>>

UpdateFails(u) ==
    /\ Spend("fault")
    /\ updating[u].step # "idle"
    /\ lost' = IF updating[u].step = "announce" THEN lost \cup UpdateNotices(updating[u]) ELSE lost
    /\ updating' = [updating EXCEPT ![u] = NoUpdate]
    /\ UNCHANGED <<now, orders, links, queued, creating, jobVars, loose>>

-----------------------------------------------------------------------------
(* check-sla.                                                              *)

\* All open orders with a due date, in one statement.
StartCheckSla ==
    /\ pc = "idle"
    /\ pc' = "watch"
    /\ today' = now
    /\ watched' = {[order |-> i, due |-> orders[i].due] :
                     i \in {j \in DOMAIN orders : orders[j].due # None /\ orders[j].status = "OPEN"}}
    /\ UNCHANGED <<now, orders, links, slaAlerts, queued, creating, updating, lost, loose, quota>>

Breach(w) ==
    CASE w.due < today -> "SERVICE_ORDER_LATE"
      [] w.due >= today /\ w.due - today <= Warning -> "SLA_EXPIRING"
      [] OTHER -> None

\* Mutant: only alerts of the other type count.
OtherOpenAlert(o, type) ==
    \E i \in DOMAIN slaAlerts :
        slaAlerts[i].order = o /\ slaAlerts[i].type # type /\ slaAlerts[i].status = "OPEN"

ExistingOpenAlert(o, type) ==
    \E i \in DOMAIN slaAlerts :
        slaAlerts[i].order = o /\ slaAlerts[i].type = type /\ slaAlerts[i].status = "OPEN"

\* One order after the other: nothing to say, an OPEN alert already, or a new one.
CheckOrder(w) ==
    /\ pc = "watch"
    /\ w \in watched
    /\ watched' = watched \ {w}
    /\ slaAlerts' = IF Breach(w) = None \/ ExistingOpenAlert(w.order, Breach(w)) THEN slaAlerts
                    ELSE Append(slaAlerts, [order |-> w.order, type |-> Breach(w), status |-> "OPEN"])
    /\ UNCHANGED <<now, orders, links, queued, creating, updating, pc, today, lost, loose, quota>>

EndCheckSla ==
    /\ pc = "watch"
    /\ watched = {}
    /\ pc' = "idle"
    /\ UNCHANGED <<now, orders, links, slaAlerts, queued, creating, updating, today, watched, lost, loose, quota>>

\* A query or a mail throws, or the worker dies: the next run starts afresh.
CheckSlaFails ==
    /\ Spend("fault")
    /\ pc = "watch"
    /\ pc' = "idle"
    /\ watched' = {}
    /\ UNCHANGED <<now, orders, links, slaAlerts, queued, creating, updating, today, lost, loose>>

\* A user acknowledges or resolves an alert.
SettleAlert(i, s) ==
    /\ Spend("alert")
    /\ slaAlerts[i].status = "OPEN"
    /\ slaAlerts' = [slaAlerts EXCEPT ![i].status = s]
    /\ UNCHANGED <<now, orders, links, queued, creating, updating, pc, today, watched, lost, loose>>

-----------------------------------------------------------------------------
Next ==
    \/ Tick
    \/ \E c \in Creators, a \in Alerts \cup {None}, t \in Technicians \cup {None}, sla \in Hierarchy :
        StartCreate(c, a, t, sla)
    \/ \E c \in Creators :
        \/ ReadLastNumber(c) \/ Insert(c) \/ NumberTaken(c) \/ LinkAlert(c)
        \/ AnnounceCreated(c) \/ CreateFails(c)
    \/ \E u \in Updaters, o \in DOMAIN orders, s \in Status \cup {None}, t \in Technicians \cup {None} :
        StartUpdate(u, o, s, t)
    \/ \E u \in Updaters : WriteOrder(u) \/ AnnounceUpdated(u) \/ UpdateFails(u)
    \/ StartCheckSla \/ EndCheckSla \/ CheckSlaFails
    \/ \E w \in watched : CheckOrder(w)
    \/ \E i \in DOMAIN slaAlerts, s \in {"ACKNOWLEDGED", "RESOLVED"} : SettleAlert(i, s)

\* BullMQ runs the job every five minutes and the job goes through its orders.
Fairness ==
    /\ WF_vars(StartCheckSla)
    /\ WF_vars(\E w \in watched : CheckOrder(w))
    /\ WF_vars(EndCheckSla)

Spec == Init /\ [][Next]_vars /\ Fairness

-----------------------------------------------------------------------------
(* Properties.                                                             *)

\* "One per order/type while it stays OPEN": runs, failed runs, users who
\* settle alerts and orders that close and open again never leave two.  And
\* the tables are well formed.
OneOpenSlaAlert ==
    \A i, j \in DOMAIN slaAlerts :
        /\ slaAlerts[i].order = slaAlerts[j].order /\ slaAlerts[i].type = slaAlerts[j].type
        /\ slaAlerts[i].status = "OPEN" /\ slaAlerts[j].status = "OPEN"
        => i = j
Consistent == TypeOK /\ OneOpenSlaAlert

\* Whoever is an order's technician was sent a ticket-assigned job for it,
\* however the updates that read the order before interleaved, once no
\* request is under way and if none failed before the announcement.
Quiet(o) ==
    /\ \A c \in Creators : creating[c].last # o \/ creating[c].step \notin {"link", "announce"}
    /\ \A u \in Updaters : updating[u].step # "announce" \/ updating[u].order # o
TechnicianTold ==
    \A o \in DOMAIN orders :
        orders[o].technician # None /\ Quiet(o)
            => Assigned(o, orders[o].technician) \in queued \cup lost

\* The same of an order closed by an update and its ticket-closed job.
ClosingTold ==
    \A o \in DOMAIN orders :
        orders[o].status = "DONE" /\ Quiet(o) => Closed(o) \in queued \cup lost
EverybodyTold == TechnicianTold /\ ClosingTold

\* An alert that "is already linked with another order" gets no second one,
\* unless two requests answered it at once or one failed to link it.
AlertAnsweredOnce ==
    \A o, p \in DOMAIN orders :
        orders[o].alert = orders[p].alert /\ orders[o].alert \notin loose \cup {None} => o = p

\* An order whose SLA has passed surfaces: it gets its alert, or is closed.
\* Passed by "printer > location > customer > contract", zero hours included,
\* and, where only contracts are left, by every one of them.  Which contract
\* decides is DueAsPromised's subject.
IsLate(o) ==
    /\ o \in DOMAIN orders
    /\ orders[o].status = "OPEN"
    /\ orders[o].latest # None /\ orders[o].latest < now
LateSurfaces ==
    \A o \in 1..2 :
        IsLate(o) ~> \/ ~IsLate(o)
                     \/ \E i \in DOMAIN slaAlerts :
                            slaAlerts[i].order = o /\ slaAlerts[i].type = "SERVICE_ORDER_LATE"

\* Every order is due by the most specific SLA, the printer's own contract
\* before the customer's: "printer-specific contracts (non-null) sort first".
\* The code does not keep it (orderBy printerId desc puts them last).
DueAsPromised == \A o \in DOMAIN orders : orders[o].due = orders[o].promised
=============================================================================
