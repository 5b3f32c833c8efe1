---------------------------- MODULE PrinterAlerts ----------------------------
(***************************************************************************)
(* The alerts of one monitored printer.  The Agent submits snapshots of    *)
(* its active conditions (prtAlertTable) and of its toner; two jobs of the *)
(* monitoring queue, check-device-errors and check-toner, turn the newest  *)
(* readings into rows of the alerts table, while users acknowledge and     *)
(* resolve those.  The queue runs one job at a time.                       *)
(*                                                                         *)
(* Only OPEN alerts are kept: no job looks at the others.  Toner is one    *)
(* colour; colours do not interact.                                        *)
(***************************************************************************)
EXTENDS Integers, FiniteSets

CONSTANTS
    Conditions,  \* what can be wrong with the printer: rows of prtAlertTable
    CodeOf,      \* their prtAlertCode; two conditions may share one
    AlertIds,    \* ids of OPEN alerts
    None,
    MaxChanges,  \* bound: changes of the printer's state
    MaxFaults    \* bound: jobs that die half way

Codes == {CodeOf[x] : x \in Conditions}
TonerTypes == {"TONER_LOW", "TONER_CRITICAL"}
Levels == {"ok", "low", "critical"}  \* over 20 %, up to 20 %, up to 10 %

ASSUME PrinterAlertsAssumption ==
    /\ IsFiniteSet(Conditions)
    /\ DOMAIN CodeOf = Conditions
    /\ Codes \cap TonerTypes = {}
    /\ Conditions \cap TonerTypes = {}
    /\ None \notin Codes \cup TonerTypes \cup Levels
    /\ IsFiniteSet(AlertIds)
    /\ Cardinality(AlertIds) > Cardinality(Conditions)
    /\ MaxChanges \in Nat /\ MaxFaults \in Nat

VARIABLES
    \* the printer
    active,    \* its conditions
    toner,     \* its toner
    delayed,   \* a batch in the Agent's offline queue, or None
    \* the database
    rows,      \* the newest PrinterAlertReading rows
    reading,   \* the newest ConsumableReading, or None
    alerts,    \* the type of each OPEN alert, None for an unused id
    \* the job
    pc,
    seenRows,
    seenLevel,
    toResolve, \* alerts to update, by id
    toCreate,  \* rows (or a toner type) to create alerts for
    \* observation only
    changes,
    faults

printerVars == <<active, toner, delayed>>
readingVars == <<rows, reading>>
jobVars == <<pc, seenRows, seenLevel, toResolve, toCreate>>
vars == <<printerVars, readingVars, alerts, jobVars, changes, faults>>

\* A submitted snapshot: the active conditions and the toner.
Batch == [active : SUBSET Conditions, toner : Levels]

TypeOf(x) == IF x \in Conditions THEN CodeOf[x] ELSE x
Open(types) == {i \in AlertIds : alerts[i] \in types}

TypeOK ==
    /\ active \in SUBSET Conditions
    /\ toner \in Levels
    /\ delayed \in Batch \cup {None}
    /\ rows \in SUBSET Conditions
    /\ reading \in Levels \cup {None}
    /\ alerts \in [AlertIds -> Codes \cup TonerTypes \cup {None}]
    /\ pc \in {"idle", "errors", "toner", "update"}
    /\ seenRows \in SUBSET Conditions
    /\ seenLevel \in Levels \cup {None}
    /\ toResolve \in SUBSET AlertIds
    /\ toCreate \in SUBSET (Conditions \cup TonerTypes)
    /\ changes \in 0..MaxChanges
    /\ faults \in 0..MaxFaults

Init ==
    /\ active = {}
    /\ toner = "ok"
    /\ delayed = None
    /\ rows = {}
    /\ reading = None
    /\ alerts = [i \in AlertIds |-> None]
    /\ pc = "idle"
    /\ seenRows = {}
    /\ seenLevel = None
    /\ toResolve = {}
    /\ toCreate = {}
    /\ changes = 0
    /\ faults = 0

-----------------------------------------------------------------------------
(* The printer and the Agent.                                              *)

Change ==
    /\ changes < MaxChanges
    /\ changes' = changes + 1
    /\ UNCHANGED <<delayed, readingVars, alerts, jobVars, faults>>

Raise(x) == Change /\ active' = active \cup {x} /\ UNCHANGED toner
Clear(x) == Change /\ active' = active \ {x} /\ UNCHANGED toner
Wear(level) == Change /\ toner' = level /\ UNCHANGED active

\* Mutant: alerts are recorded for the first batch only.
RecordedOnce(conditions) == IF rows # {} THEN rows ELSE conditions

\* processDevices: `if (device.alerts?.length)`, a createMany with one
\* collectedAt; a batch without alerts leaves the old rows the newest.
Recorded(conditions) == IF conditions = {} THEN rows ELSE conditions

Record(batch) ==
    /\ rows' = Recorded(batch.active)
    /\ reading' = batch.toner
    /\ UNCHANGED <<active, toner, alerts, jobVars, changes, faults>>

Current == [active |-> active, toner |-> toner]

Submit ==
    /\ Record(Current)
    /\ UNCHANGED delayed

\* The API is out of reach: the batch is queued ...
Delay ==
    /\ delayed = None
    /\ delayed' = Current
    /\ UNCHANGED <<active, toner, readingVars, alerts, jobVars, changes, faults>>

\* ... and recorded later, possibly after newer ones, as of then.
SubmitDelayed ==
    /\ delayed # None
    /\ Record(delayed)
    /\ delayed' = None

-----------------------------------------------------------------------------
(* Users.                                                                  *)

\* Acknowledge and resolve: either way the alert is no longer OPEN.
Handle(i) ==
    /\ alerts[i] # None
    /\ alerts' = [alerts EXCEPT ![i] = None]
    /\ UNCHANGED <<printerVars, readingVars, jobVars, changes, faults>>

-----------------------------------------------------------------------------
(* The jobs.                                                               *)

\* check-device-errors reads the newest batch of rows, if there is any ...
ReadRows ==
    /\ pc = "idle"
    /\ rows # {}
    /\ pc' = "errors"
    /\ seenRows' = rows
    /\ UNCHANGED <<printerVars, readingVars, alerts, seenLevel, toResolve, toCreate, changes, faults>>

SeenCodes == {CodeOf[x] : x \in seenRows}

\* Mutant: the open alerts are not looked at before creating.
PlanFromRowsOnly ==
    /\ pc = "errors"
    /\ pc' = "update"
    /\ toResolve' = {i \in Open(Codes) : alerts[i] \notin SeenCodes}
    /\ toCreate' = seenRows
    /\ UNCHANGED <<printerVars, readingVars, alerts, seenRows, seenLevel, changes, faults>>

\* Mutant: resolves what is active and keeps what is not.
PlanInverted ==
    /\ pc = "errors"
    /\ pc' = "update"
    /\ toResolve' = {i \in Open(Codes) : alerts[i] \in SeenCodes}
    /\ toCreate' = {x \in seenRows : CodeOf[x] \notin {alerts[i] : i \in Open(Codes)}}
    /\ UNCHANGED <<printerVars, readingVars, alerts, seenRows, seenLevel, changes, faults>>

\* ... then the open alerts: what is to be resolved, what to be created.
PlanErrors ==
    /\ pc = "errors"
    /\ pc' = "update"
    /\ toResolve' = {i \in Open(Codes) : alerts[i] \notin SeenCodes}
    /\ toCreate' = {x \in seenRows : CodeOf[x] \notin {alerts[i] : i \in Open(Codes)}}
    /\ UNCHANGED <<printerVars, readingVars, alerts, seenRows, seenLevel, changes, faults>>

\* check-toner reads the newest level ...
ReadToner ==
    /\ pc = "idle"
    /\ reading # None
    /\ pc' = "toner"
    /\ seenLevel' = reading
    /\ UNCHANGED <<printerVars, readingVars, alerts, seenRows, toResolve, toCreate, changes, faults>>

\* Mutant: a critical alert does not replace the low one.
PlanTonerKeepingLow ==
    /\ pc = "toner"
    /\ pc' = "update"
    /\ toResolve' = {}
    /\ toCreate' =
        CASE seenLevel = "critical" /\ Open({"TONER_CRITICAL"}) = {} -> {"TONER_CRITICAL"}
          [] seenLevel = "low" /\ Open(TonerTypes) = {} -> {"TONER_LOW"}
          [] OTHER -> {}
    /\ UNCHANGED <<printerVars, readingVars, alerts, seenRows, seenLevel, changes, faults>>

\* ... and an open alert about it (findFirst; there is one at most).  A low
\* one gives way to a critical one; nothing resolves one at a good level.
PlanToner ==
    /\ pc = "toner"
    /\ pc' = "update"
    /\ \/ /\ seenLevel = "critical" /\ Open({"TONER_CRITICAL"}) = {}
          /\ toResolve' = Open({"TONER_LOW"})
          /\ toCreate' = {"TONER_CRITICAL"}
       \/ /\ seenLevel = "low" /\ Open(TonerTypes) = {}
          /\ toResolve' = {}
          /\ toCreate' = {"TONER_LOW"}
       \/ /\ seenLevel = "critical" => Open({"TONER_CRITICAL"}) # {}
          /\ seenLevel = "low" => Open(TonerTypes) # {}
          /\ toResolve' = {}
          /\ toCreate' = {}
    /\ UNCHANGED <<printerVars, readingVars, alerts, seenRows, seenLevel, changes, faults>>

\* One update by id, whatever a user has done to the alert meanwhile.
ResolveOne(i) ==
    /\ pc = "update"
    /\ i \in toResolve
    /\ toResolve' = toResolve \ {i}
    /\ alerts' = [alerts EXCEPT ![i] = None]
    /\ UNCHANGED <<printerVars, readingVars, pc, seenRows, seenLevel, toCreate, changes, faults>>

\* One insert, after the updates.
CreateOne(x) ==
    /\ pc = "update"
    /\ toResolve = {}
    /\ x \in toCreate
    /\ toCreate' = toCreate \ {x}
    /\ LET i == CHOOSE j \in AlertIds : alerts[j] = None
       IN  alerts' = [alerts EXCEPT ![i] = TypeOf(x)]
    /\ UNCHANGED <<printerVars, readingVars, pc, seenRows, seenLevel, toResolve, changes, faults>>

ToIdle ==
    /\ pc' = "idle"
    /\ seenRows' = {}
    /\ seenLevel' = None
    /\ toResolve' = {}
    /\ toCreate' = {}
    /\ UNCHANGED <<printerVars, readingVars, alerts, changes>>

FinishJob ==
    /\ pc = "update"
    /\ toResolve = {} /\ toCreate = {}
    /\ ToIdle
    /\ UNCHANGED faults

\* A statement throws or the worker dies; the next run starts from scratch.
JobFails ==
    /\ faults < MaxFaults
    /\ faults' = faults + 1
    /\ pc # "idle"
    /\ ToIdle

-----------------------------------------------------------------------------
Update ==
    \/ \E i \in AlertIds : ResolveOne(i)
    \/ \E x \in Conditions \cup TonerTypes : CreateOne(x)
    \/ FinishJob

Next ==
    \/ \E x \in Conditions : Raise(x) \/ Clear(x)
    \/ \E l \in Levels : Wear(l)
    \/ Submit
    \/ Delay
    \/ SubmitDelayed
    \/ \E i \in AlertIds : Handle(i)
    \/ ReadRows \/ PlanErrors
    \/ ReadToner \/ PlanToner
    \/ Update
    \/ JobFails

Spec == Init /\ [][Next]_vars

\* The Agent keeps collecting, its queue is flushed, and the two repeatable
\* jobs take turns: each is started again and again and runs to its end.
FairSpec ==
    /\ Spec
    /\ WF_vars(Submit) /\ WF_vars(SubmitDelayed)
    /\ SF_vars(ReadRows) /\ SF_vars(ReadToner)
    /\ WF_vars(PlanErrors) /\ WF_vars(PlanToner) /\ WF_vars(Update)

-----------------------------------------------------------------------------
(* Properties.                                                             *)

\* However collections, users and half-done runs interleave, a code never
\* has more OPEN alerts than the printer has conditions with that code.
NoPilingUp ==
    \A c \in Codes :
        Cardinality(Open({c})) <= Cardinality({x \in Conditions : CodeOf[x] = c})

\* A toner is never reported low and critical at once.
OneTonerAlert == \A i, j \in Open(TonerTypes) : i = j

\* A condition that lasts is shown; so is a toner that stays critical.
ErrorSurfaces ==
    \A x \in Conditions : x \in active ~> Open({CodeOf[x]}) # {} \/ x \notin active
CriticalTonerSurfaces ==
    toner = "critical" ~> Open({"TONER_CRITICAL"}) # {} \/ toner # "critical"
LastingSurfaces == ErrorSurfaces /\ CriticalTonerSurfaces

\* An alert goes when its condition goes, as long as the printer has another
\* condition to report: without one its snapshots record no rows.
Gone(c) == c \notin {CodeOf[x] : x \in active}
ResolvedWhileOthersLast ==
    \A c \in Codes :
        Gone(c) /\ active # {} /\ Open({c}) # {} ~> Open({c}) = {} \/ ~Gone(c) \/ active = {}
=============================================================================
