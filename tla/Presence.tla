------------------------------- MODULE Presence -------------------------------
(***************************************************************************)
(* Who is online, and who is told when that ends.  Three writers share the *)
(* status columns of agents and printers, while users move printers        *)
(* through their life, monitored and retired, and delete their rows:       *)
(*                                                                         *)
(*   reports    heartbeats and submitted batches set ONLINE (API)          *)
(*   the sweep  AgentPresenceScheduler sets OFFLINE, two bulk updates (API)*)
(*   the job    check-offline reads candidates, then row by row sets       *)
(*              OFFLINE and creates an alert (worker, one job at a time)   *)
(*                                                                         *)
(* Time is how long ago an entity was last heard of, in ticks.             *)
(***************************************************************************)
EXTENDS Integers

CONSTANTS
    Agents,
    Printers,
    Default,        \* [Agents \cup Printers -> ticks]: the job's default threshold
    Custom,         \* [Agents \cup Printers -> ticks]: the tenant's own threshold, 0 if none
    SweepThreshold, \* AGENT_OFFLINE_THRESHOLD_SECONDS, in ticks
    SweepSettings,  \* is AGENT_OFFLINE_CHECK_INTERVAL_SECONDS > 0? the values considered
    Nobody,
    MaxSilence,     \* bound: silences are told apart up to this length
    Quotas          \* bound: how many reports, changes by users and failed jobs there
                    \* are, one function per mix of them that is explored

Entities == Agents \cup Printers
Kinds == {"report", "move", "remove", "line", "fault"}

\* A custom threshold can only be more tolerant than the default.
ASSUME PresenceAssumption ==
    /\ Agents \cap Printers = {}
    /\ Nobody \notin Entities
    /\ Default \in [Entities -> 1..MaxSilence]
    /\ Custom \in [Entities -> 0..MaxSilence]
    /\ \A e \in Entities : Custom[e] = 0 \/ Custom[e] >= Default[e]
    /\ SweepThreshold \in 1..MaxSilence
    /\ SweepSettings \subseteq BOOLEAN
    /\ MaxSilence \in Nat
    /\ Quotas \subseteq [Kinds -> Nat]

VARIABLES
    sweeping, \* the sweep is on: configuration, set once
    status,   \* Agent.status, Printer.onlineStatus
    silence,  \* ticks since lastHeartbeatAt, lastSeenAt
    place,    \* Printer.status, "none" while there is no row
    line,     \* the ContractPrinter rows of each printer, disabled if one of them is
    removing, \* printers a request has looked at and is about to delete
    pc,       \* where the job is
    stale,    \* not heard of since the cutoff the job computed when it started
    todo,     \* candidates it has read and not reached yet
    marking,  \* the candidate it has set OFFLINE and not alerted about yet
    deleted,  \* those of them whose row was deleted meanwhile
    \* observation only
    reports,  \* reports of each entity
    alerts,   \* alerts created for each entity
    quota

jobVars == <<pc, stale, todo, marking>>
printerVars == <<place, line, removing>>
vars == <<sweeping, status, silence, place, line, removing, pc, stale, todo, marking, deleted, reports, alerts, quota>>

Place == {"none", "DISCOVERED", "MONITORED", "IGNORED", "DECOMMISSIONED"}
Line == {"none", "enabled", "monitoringDisabled"}

TypeOK ==
    /\ sweeping \in BOOLEAN
    /\ status \in [Entities -> {"PENDING", "UNKNOWN", "ONLINE", "OFFLINE"}]
    /\ silence \in [Entities -> 0..MaxSilence]
    /\ place \in [Printers -> Place]
    /\ line \in [Printers -> Line]
    /\ removing \in SUBSET Printers
    /\ pc \in {"idle", "started", "agents", "printers"}
    /\ stale \in SUBSET Entities
    /\ todo \in SUBSET (IF pc = "agents" THEN Agents ELSE Printers)
    /\ marking \in Entities \cup {Nobody}
    /\ deleted \in SUBSET Printers
    /\ reports \in [Entities -> Nat]
    /\ alerts \in [Entities -> Nat]
    /\ quota \in [Kinds -> Nat]

\* Nobody has reported yet: lastHeartbeatAt is null, which is never too old.
Init ==
    /\ sweeping \in SweepSettings
    /\ status = [e \in Entities |-> IF e \in Agents THEN "PENDING" ELSE "UNKNOWN"]
    /\ silence = [e \in Entities |-> 0]
    /\ place = [p \in Printers |-> "none"]
    /\ line = [p \in Printers |-> "none"]
    /\ removing = {}
    /\ pc = "idle"
    /\ stale = {}
    /\ todo = {}
    /\ marking = Nobody
    /\ deleted = {}
    /\ reports = [e \in Entities |-> 0]
    /\ alerts = [e \in Entities |-> 0]
    /\ quota \in Quotas

Spend(kind) ==
    /\ quota[kind] > 0
    /\ quota' = [quota EXCEPT ![kind] = @ - 1]

Threshold(e) == IF Custom[e] = 0 THEN Default[e] ELSE Custom[e]

\* lastHeartbeatAt < the wide cutoff, and not younger than its own threshold.
Overdue(e) == silence[e] > Default[e] /\ silence[e] >= Threshold(e)

\* What the job looks at: MONITORED, and no contract line disables it.
Watched == {p \in Printers : place[p] = "MONITORED" /\ line[p] # "monitoringDisabled"}

-----------------------------------------------------------------------------
(* Time and reports.                                                       *)

Tick ==
    /\ silence' = [e \in Entities |->
            IF status[e] \notin {"PENDING", "UNKNOWN"} /\ silence[e] < MaxSilence
            THEN silence[e] + 1 ELSE silence[e]]
    /\ UNCHANGED <<sweeping, status, printerVars, jobVars, deleted, reports, alerts, quota>>

\* A heartbeat or an enrollment of an Agent, a batch that holds a printer: its
\* row is created DISCOVERED or found by its fingerprint.
Report(e) ==
    /\ Spend("report")
    /\ reports' = [reports EXCEPT ![e] = @ + 1]
    /\ status' = [status EXCEPT ![e] = "ONLINE"]
    /\ silence' = [silence EXCEPT ![e] = 0]
    /\ stale' = stale \ {e}
    /\ place' = [p \in Printers |-> IF p = e /\ place[p] = "none" THEN "DISCOVERED" ELSE place[p]]
    /\ UNCHANGED <<sweeping, line, removing, pc, todo, marking, deleted, alerts>>

-----------------------------------------------------------------------------
(* Users.                                                                  *)

Move(p, s) ==
    /\ Spend("move")
    /\ place[p] \notin {"none", s}
    /\ place' = [place EXCEPT ![p] = s]
    /\ UNCHANGED <<sweeping, status, silence, line, removing, jobVars, deleted, reports, alerts>>

\* Each from whatever status the printer has: claim and monitorPrinters,
\* ignore and deactivatePrinters, restore, decommission.
Monitor(p) == Move(p, "MONITORED")
Ignore(p) == Move(p, "IGNORED")
Restore(p) == Move(p, "DISCOVERED")
Decommission(p) == Move(p, "DECOMMISSIONED")

\* addPrinter, updatePrinter and removePrinter of a contract.
SetLine(p, l) ==
    /\ Spend("line")
    /\ place[p] # "none" /\ line[p] # l
    /\ line' = [line EXCEPT ![p] = l]
    /\ UNCHANGED <<sweeping, status, silence, place, removing, jobVars, deleted, reports, alerts>>

\* removePrinterForAgent refuses a printer in use.
StartRemove(p) ==
    /\ Spend("remove")
    /\ place[p] \in {"DISCOVERED", "IGNORED"}
    /\ removing' = removing \cup {p}
    /\ UNCHANGED <<sweeping, status, silence, place, line, jobVars, deleted, reports, alerts>>

\* It deletes the row by its id, claimed meanwhile or not, unless a contract
\* line refers to it.  The next report makes a new row.
Remove(p) ==
    /\ p \in removing
    /\ line[p] = "none"
    /\ removing' = removing \ {p}
    /\ place' = [place EXCEPT ![p] = "none"]
    /\ status' = [status EXCEPT ![p] = "UNKNOWN"]
    /\ silence' = [silence EXCEPT ![p] = 0]
    /\ stale' = stale \ {p}
    /\ deleted' = deleted \cup ({p} \cap (todo \cup {marking}))
    /\ UNCHANGED <<sweeping, line, pc, todo, marking, reports, alerts, quota>>

RemoveRefused(p) ==
    /\ p \in removing
    /\ line[p] # "none"
    /\ removing' = removing \ {p}
    /\ UNCHANGED <<sweeping, status, silence, place, line, jobVars, deleted, reports, alerts, quota>>

\* regenerateToken puts the Agent back to PENDING.
RegenerateTokenOf(a) ==
    /\ status' = [status EXCEPT ![a] = "PENDING"]
    /\ UNCHANGED <<sweeping, silence, printerVars, jobVars, deleted, reports, alerts, quota>>

-----------------------------------------------------------------------------
(* The sweep: Promise.all of two updateMany.                               *)

Sweep(entities) ==
    /\ sweeping
    /\ status' = [e \in Entities |->
            IF e \in entities /\ status[e] = "ONLINE" /\ silence[e] > SweepThreshold
            THEN "OFFLINE" ELSE status[e]]
    /\ UNCHANGED <<sweeping, silence, printerVars, jobVars, deleted, reports, alerts, quota>>

SweepAgents == Sweep(Agents)

\* Mutant: only what the job looks at.
SweepWatchedPrinters == Sweep(Watched)

SweepPrinters == Sweep(Printers)

-----------------------------------------------------------------------------
(* The job.                                                                *)

\* const now = Date.now().
StartCheck ==
    /\ pc = "idle"
    /\ pc' = "started"
    /\ stale' = {e \in Entities : Overdue(e)}
    /\ UNCHANGED <<sweeping, status, silence, printerVars, todo, marking, deleted, reports, alerts, quota>>

\* Mutant: the candidates are not restricted to ONLINE agents.
FindAllAgents ==
    /\ pc = "started"
    /\ pc' = "agents"
    /\ todo' = stale \cap Agents
    /\ UNCHANGED <<sweeping, status, silence, printerVars, stale, marking, deleted, reports, alerts, quota>>

FindAgents ==
    /\ pc = "started"
    /\ pc' = "agents"
    /\ todo' = {a \in stale \cap Agents : status[a] = "ONLINE"}
    /\ UNCHANGED <<sweeping, status, silence, printerVars, stale, marking, deleted, reports, alerts, quota>>

\* update({ where: { id } }): whatever the row says by now.
MarkOffline(e) ==
    /\ e \in todo \ deleted
    /\ marking = Nobody
    /\ todo' = todo \ {e}
    /\ marking' = e
    /\ status' = [status EXCEPT ![e] = "OFFLINE"]
    /\ UNCHANGED <<sweeping, silence, printerVars, pc, stale, deleted, reports, alerts, quota>>

\* Mutant: printers are set OFFLINE without an alert.
CreateAgentAlert ==
    /\ marking \notin deleted \cup {Nobody}
    /\ alerts' = [alerts EXCEPT ![marking] = IF marking \in Agents THEN @ + 1 ELSE @]
    /\ marking' = Nobody
    /\ UNCHANGED <<sweeping, status, silence, printerVars, pc, stale, todo, deleted, reports, quota>>

CreateAlert ==
    /\ marking \notin deleted \cup {Nobody}
    /\ alerts' = [alerts EXCEPT ![marking] = @ + 1]
    /\ marking' = Nobody
    /\ UNCHANGED <<sweeping, status, silence, printerVars, pc, stale, todo, deleted, reports, quota>>

FindPrinters ==
    /\ pc = "agents" /\ todo = {} /\ marking = Nobody
    /\ pc' = "printers"
    /\ todo' = {p \in stale \cap Watched : status[p] = "ONLINE"}
    /\ UNCHANGED <<sweeping, status, silence, printerVars, stale, marking, deleted, reports, alerts, quota>>

FinishCheck ==
    /\ pc = "printers" /\ todo = {} /\ marking = Nobody
    /\ pc' = "idle"
    /\ stale' = {}
    /\ UNCHANGED <<sweeping, status, silence, printerVars, todo, marking, deleted, reports, alerts, quota>>

\* A run that throws is over: what it had still to do is the next one's.
EndRun ==
    /\ pc' = "idle"
    /\ stale' = {}
    /\ todo' = {}
    /\ marking' = Nobody
    /\ deleted' = {}
    /\ UNCHANGED <<sweeping, status, silence, printerVars, reports, alerts>>

\* The row to be updated, or the alert's printer, is gone: the statement throws.
RowGone ==
    /\ \/ marking = Nobody /\ todo \cap deleted # {}
       \/ marking \in deleted
    /\ EndRun
    /\ UNCHANGED quota

\* Any other query throws, or the worker dies.
CheckFails ==
    /\ Spend("fault")
    /\ pc # "idle"
    /\ EndRun

-----------------------------------------------------------------------------
Job ==
    \/ StartCheck
    \/ FindAgents
    \/ \E e \in Entities : MarkOffline(e)
    \/ CreateAlert
    \/ FindPrinters
    \/ RowGone
    \/ FinishCheck

Next ==
    \/ Tick
    \/ \E e \in Entities : Report(e)
    \/ \E p \in Printers :
        \/ Monitor(p) \/ Ignore(p) \/ Restore(p) \/ Decommission(p)
        \/ StartRemove(p) \/ Remove(p) \/ RemoveRefused(p)
    \/ \E p \in Printers, l \in Line : SetLine(p, l)
    \/ \E a \in Agents : RegenerateTokenOf(a)
    \/ SweepAgents
    \/ SweepPrinters
    \/ Job
    \/ CheckFails

Spec == Init /\ [][Next]_vars

\* Time passes, the job is repeatable every minute and the sweep is an
\* interval timer: both keep running.  Nobody has to report.
FairSpec ==
    /\ Spec
    /\ WF_vars(Tick) /\ WF_vars(Job) /\ WF_vars(SweepAgents) /\ WF_vars(SweepPrinters)

-----------------------------------------------------------------------------
(* Properties.                                                             *)

\* An entity is reported offline at most once per silence, however the job
\* interleaves with reports: a run that finds it OFFLINE leaves it alone, and
\* only a report makes it ONLINE again.
OneAlertPerSilence == \A e \in Entities : alerts[e] <= reports[e]

\* Its inductive form.  Each report pays for one alert: the payment is open
\* while the entity is ONLINE or among the candidates of the running job,
\* and is spent when the job sets it OFFLINE and owes it the alert.
Unspent(e) == IF status[e] = "ONLINE" \/ e \in todo THEN 1 ELSE 0
Owed(e) == IF marking = e THEN 1 ELSE 0
ReportsPayForAlerts == \A e \in Entities : alerts[e] + Owed(e) + Unspent(e) <= reports[e]
NothingBetweenRuns == pc \in {"idle", "started"} => todo = {} /\ marking = Nobody
IInv == TypeOK /\ NothingBetweenRuns /\ ReportsPayForAlerts

\* With the sweep, whatever stops reporting is shown as OFFLINE, watched or
\* not; "onlineStatus could stay ONLINE forever after an agent died" is the
\* bug the sweep was written against.
SilentGoesOffline ==
    \A e \in Entities :
        sweeping /\ status[e] = "ONLINE" /\ silence[e] > SweepThreshold
            ~> status[e] # "ONLINE" \/ silence[e] = 0

\* What the job is to alert about, and what spares it the alert.
Alertable(e, n) ==
    status[e] = "ONLINE" /\ Overdue(e) /\ e \in Agents \cup Watched /\ alerts[e] = n
Settled(e, n) ==
    \/ alerts[e] > n
    \/ silence[e] = 0
    \/ e \notin Agents \cup Watched
    \/ status[e] = "PENDING"

\* The job by itself alerts about every silence during which no run dies: a
\* run that stumbles over a deleted printer leaves the others to the next.
JobAlertsSilent ==
    \A e \in Entities : \A q \in Quotas : \A n \in 0..(q["report"] - 1) :
        ~sweeping /\ quota["fault"] = 0 /\ Alertable(e, n) ~> Settled(e, n)
=============================================================================
