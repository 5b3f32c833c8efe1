------------------------- MODULE PrinterAlertsProofs -------------------------
(***************************************************************************)
(* For any conditions, codes and ids: the types are right, a toner has one *)
(* OPEN alert at most, and a code has no more of them than the printer has *)
(* conditions with that code.                                              *)
(*                                                                         *)
(* The argument for the toner: a run that is to create a toner alert first *)
(* resolves every one that is open, and no other job creates any while it  *)
(* runs.  For the codes: a run plans to create alerts only for a code that *)
(* has none open, so that what is open and what is planned together stay   *)
(* within the code's conditions; each insert turns a planned alert into an *)
(* open one, and everything else only closes alerts or drops plans.        *)
(***************************************************************************)
EXTENDS PrinterAlerts, FiniteSetTheorems, TLAPS

\* What a job is about to do, by where it is.
PlansToner ==
    /\ pc # "update" => toResolve = {} /\ toCreate = {}
    /\ \A t, u \in toCreate \cap TonerTypes : t = u
    /\ toCreate \cap TonerTypes # {} => Open(TonerTypes) \subseteq toResolve

IInv == TypeOK /\ PlansToner /\ OneTonerAlert

LEMMA InitIInv == Init => IInv
  BY PrinterAlertsAssumption
  DEF Init, IInv, TypeOK, PlansToner, OneTonerAlert, Open, TonerTypes, Levels, Batch

\* Steps of the printer, the Agent and the database's readings.
LEMMA ReadingsIInv ==
    ASSUME IInv, UNCHANGED <<alerts, pc, toResolve, toCreate>>, TypeOK'
    PROVE  IInv'
  BY DEF IInv, PlansToner, OneTonerAlert, Open

\* Alerts that are closed, by a user or by the job.
LEMMA ClosingIInv ==
    ASSUME IInv, NEW i \in AlertIds, alerts' = [alerts EXCEPT ![i] = None],
           UNCHANGED <<printerVars, readingVars, seenRows, seenLevel, changes, faults>>,
           UNCHANGED <<pc, toCreate>>,
           toResolve' = toResolve \/ (pc = "update" /\ toResolve' = toResolve \ {i})
    PROVE  IInv'
<1>1. None \notin TonerTypes
  BY PrinterAlertsAssumption
<1>2. \A j \in AlertIds : alerts'[j] = IF j = i THEN None ELSE alerts[j]
  BY DEF IInv, TypeOK
<1>3. TypeOK'
  BY DEF IInv, TypeOK, printerVars, readingVars
<1>4. Open(TonerTypes)' = Open(TonerTypes) \ {i}
  BY <1>1, <1>2 DEF Open
<1>5. PlansToner' /\ OneTonerAlert'
  BY <1>4 DEF IInv, PlansToner, OneTonerAlert
<1>6. QED  BY <1>3, <1>5 DEF IInv

\* Reading and planning.
LEMMA PlanIInv ==
    ASSUME IInv, ReadRows \/ PlanErrors \/ ReadToner \/ PlanToner
    PROVE  IInv'
<1>1. CASE ReadRows \/ ReadToner
  BY <1>1 DEF ReadRows, ReadToner, IInv, TypeOK, PlansToner, OneTonerAlert, Open,
              printerVars, readingVars
<1>2. CASE PlanErrors
  <2>1. toCreate' \subseteq Conditions /\ toResolve' \subseteq AlertIds
    BY <1>2 DEF PlanErrors, Open, IInv, TypeOK
  <2>2. TypeOK'
    BY <1>2, <2>1 DEF PlanErrors, IInv, TypeOK, printerVars, readingVars
  <2>3. toCreate' \cap TonerTypes = {}
    BY <2>1, PrinterAlertsAssumption
  <2>4. PlansToner' /\ OneTonerAlert'
    BY <1>2, <2>3 DEF PlanErrors, IInv, PlansToner, OneTonerAlert, Open
  <2>5. QED  BY <2>2, <2>4 DEF IInv
<1>3. CASE PlanToner
  <2>1. /\ toResolve' \subseteq AlertIds
        /\ toCreate' \subseteq TonerTypes
        /\ \A t, u \in toCreate' : t = u
        /\ toCreate' # {} => Open(TonerTypes) \subseteq toResolve'
    BY <1>3 DEF PlanToner, Open, TonerTypes
  <2>2. TypeOK'
    BY <1>3, <2>1 DEF PlanToner, IInv, TypeOK, printerVars, readingVars
  <2>3. PlansToner' /\ OneTonerAlert'
    BY <1>3, <2>1 DEF PlanToner, IInv, PlansToner, OneTonerAlert, Open
  <2>4. QED  BY <2>2, <2>3 DEF IInv
<1>4. QED  BY <1>1, <1>2, <1>3

\* An alert that is created.
LEMMA CreateIInv ==
    ASSUME IInv, NEW x \in Conditions \cup TonerTypes, CreateOne(x)
    PROVE  IInv'
<1> DEFINE i == CHOOSE j \in AlertIds : alerts[j] = None
<1>1. /\ x \in toCreate /\ toCreate' = toCreate \ {x}
      /\ toResolve = {} /\ toResolve' = {} /\ pc = "update" /\ pc' = "update"
      /\ alerts' = [alerts EXCEPT ![i] = TypeOf(x)]
  BY DEF CreateOne
<1>2. TypeOf(x) \in Codes \cup TonerTypes
  BY DEF TypeOf, Codes
<1>3. alerts' \in [AlertIds -> Codes \cup TonerTypes \cup {None}]
  BY <1>1, <1>2 DEF IInv, TypeOK
<1>4. TypeOK'
  BY <1>1, <1>3 DEF CreateOne, IInv, TypeOK, printerVars, readingVars
<1>5. \A j \in AlertIds : alerts'[j] = IF j = i THEN TypeOf(x) ELSE alerts[j]
  BY <1>1 DEF IInv, TypeOK
<1>6. CASE x \in TonerTypes
  <2>1. Open(TonerTypes) = {}
    BY <1>1, <1>6 DEF IInv, PlansToner
  <2>2. Open(TonerTypes)' \subseteq {i}
    BY <1>5, <2>1 DEF Open
  <2>3. toCreate' \cap TonerTypes = {}
    BY <1>1, <1>6 DEF IInv, PlansToner
  <2>4. PlansToner' /\ OneTonerAlert'
    BY <1>1, <2>2, <2>3 DEF PlansToner, OneTonerAlert
  <2>5. QED  BY <1>4, <2>4 DEF IInv
<1>7. CASE x \notin TonerTypes
  <2>1. TypeOf(x) \in Codes /\ TypeOf(x) \notin TonerTypes
    BY <1>2, <1>7, PrinterAlertsAssumption DEF TypeOf, Codes
  <2>2. Open(TonerTypes)' \subseteq Open(TonerTypes)
    BY <1>5, <2>1 DEF Open
  <2>3. PlansToner' /\ OneTonerAlert'
    BY <1>1, <2>2 DEF IInv, PlansToner, OneTonerAlert
  <2>4. QED  BY <1>4, <2>3 DEF IInv
<1>8. QED  BY <1>6, <1>7

\* A job that ends.
LEMMA IdleIInv == ASSUME IInv, FinishJob \/ JobFails PROVE IInv'
<1>1. faults' \in 0..MaxFaults
  BY PrinterAlertsAssumption DEF FinishJob, JobFails, IInv, TypeOK
<1>2. TypeOK'
  BY <1>1 DEF FinishJob, JobFails, ToIdle, IInv, TypeOK, printerVars, readingVars
<1>3. PlansToner' /\ OneTonerAlert'
  BY DEF FinishJob, JobFails, ToIdle, IInv, PlansToner, OneTonerAlert, Open
<1>4. QED  BY <1>2, <1>3 DEF IInv

LEMMA NextIInv == IInv /\ [Next]_vars => IInv'
<1> SUFFICES ASSUME IInv, [Next]_vars PROVE IInv'
  OBVIOUS
<1>1. CASE UNCHANGED vars
  BY <1>1, ReadingsIInv DEF vars, printerVars, readingVars, jobVars, IInv, TypeOK
<1>2. ASSUME NEW x \in Conditions, Raise(x) \/ Clear(x) PROVE IInv'
  <2>1. changes' \in 0..MaxChanges
    BY <1>2, PrinterAlertsAssumption DEF Raise, Clear, Change, IInv, TypeOK
  <2>2. TypeOK'
    BY <1>2, <2>1 DEF Raise, Clear, Change, readingVars, jobVars, IInv, TypeOK
  <2>3. QED  BY <1>2, <2>2, ReadingsIInv DEF Raise, Clear, Change, jobVars
<1>3. ASSUME NEW l \in Levels, Wear(l) PROVE IInv'
  <2>1. changes' \in 0..MaxChanges
    BY <1>3, PrinterAlertsAssumption DEF Wear, Change, IInv, TypeOK
  <2>2. TypeOK'
    BY <1>3, <2>1 DEF Wear, Change, readingVars, jobVars, IInv, TypeOK
  <2>3. QED  BY <1>3, <2>2, ReadingsIInv DEF Wear, Change, jobVars
<1>4. CASE Submit \/ Delay \/ SubmitDelayed
  <2>1. Current \in Batch
    BY DEF Current, Batch, IInv, TypeOK
  <2>2. delayed # None => delayed.active \in SUBSET Conditions /\ delayed.toner \in Levels
    BY DEF IInv, TypeOK, Batch
  <2>3. TypeOK'
    BY <1>4, <2>1, <2>2
    DEF Submit, Delay, SubmitDelayed, Record, Recorded, Current, readingVars, jobVars, IInv, TypeOK
  <2>4. QED  BY <1>4, <2>3, ReadingsIInv DEF Submit, Delay, SubmitDelayed, Record, jobVars
<1>5. ASSUME NEW i \in AlertIds, Handle(i) PROVE IInv'
  BY <1>5, ClosingIInv DEF Handle, jobVars
<1>6. CASE ReadRows \/ PlanErrors \/ ReadToner \/ PlanToner
  BY <1>6, PlanIInv
<1>7. ASSUME NEW i \in AlertIds, ResolveOne(i) PROVE IInv'
  BY <1>7, ClosingIInv DEF ResolveOne
<1>8. ASSUME NEW x \in Conditions \cup TonerTypes, CreateOne(x) PROVE IInv'
  BY <1>8, CreateIInv
<1>9. CASE FinishJob \/ JobFails
  BY <1>9, IdleIInv
<1>10. QED  BY <1>1, <1>2, <1>3, <1>4, <1>5, <1>6, <1>7, <1>8, <1>9 DEF Next, Update

\* The invariant holds in every reachable state.
THEOREM Inductive == Spec => []IInv
  BY InitIInv, NextIInv, PTL DEF Spec

\* The variables always have their types.
THEOREM TypesHold == Spec => []TypeOK
<1>1. IInv => TypeOK
  BY DEF IInv
<1>2. QED  BY <1>1, Inductive, PTL

\* A toner is never reported low and critical at once, whatever users do and
\* wherever a run dies.
THEOREM TonerReportedOnce == Spec => []OneTonerAlert
<1>1. IInv => OneTonerAlert
  BY DEF IInv
<1>2. QED  BY <1>1, Inductive, PTL

-----------------------------------------------------------------------------
(* The alerts of each code.                                                *)

\* The conditions of a code, and those for which the job will create an alert.
WithCode(c) == {x \in Conditions : CodeOf[x] = c}
Planned(c) == {x \in WithCode(c) : x \in toCreate}

\* What is open and what the job is about to create fit the conditions.
WithinConditions ==
    \A c \in Codes :
        Cardinality(Open({c})) + Cardinality(Planned(c)) <= Cardinality(WithCode(c))

LEMMA Finite ==
    ASSUME NEW c
    PROVE  /\ IsFiniteSet(WithCode(c)) /\ Cardinality(WithCode(c)) \in Nat
           /\ IsFiniteSet(Planned(c)) /\ Cardinality(Planned(c)) \in Nat
           /\ Cardinality(Planned(c)) <= Cardinality(WithCode(c))
           /\ IsFiniteSet(Open({c})) /\ Cardinality(Open({c})) \in Nat
<1>1. /\ WithCode(c) \subseteq Conditions /\ Planned(c) \subseteq WithCode(c)
      /\ Open({c}) \subseteq AlertIds
  BY DEF WithCode, Planned, Open
<1>2. IsFiniteSet(WithCode(c)) /\ IsFiniteSet(Open({c}))
  BY <1>1, FS_Subset, PrinterAlertsAssumption
<1>3. IsFiniteSet(Planned(c)) /\ Cardinality(Planned(c)) <= Cardinality(WithCode(c))
  BY <1>1, <1>2, FS_Subset
<1>4. QED  BY <1>2, <1>3, FS_CardinalityType

\* Closing alerts and dropping plans keeps within the conditions.
LEMMA Shrinks ==
    ASSUME WithinConditions, NEW c \in Codes,
           Open({c})' \subseteq Open({c}), Planned(c)' \subseteq Planned(c)
    PROVE  Cardinality(Open({c})') + Cardinality(Planned(c)') <= Cardinality(WithCode(c))
<1>1. /\ Cardinality(Open({c})') <= Cardinality(Open({c})) /\ IsFiniteSet(Open({c})')
      /\ Cardinality(Planned(c)') <= Cardinality(Planned(c)) /\ IsFiniteSet(Planned(c)')
  BY Finite, FS_Subset
<1>2. Cardinality(Open({c})') \in Nat /\ Cardinality(Planned(c)') \in Nat
  BY <1>1, FS_CardinalityType
<1>3. QED  BY <1>1, <1>2, Finite DEF WithinConditions

LEMMA ClosingWithin ==
    ASSUME IInv, WithinConditions, NEW i \in AlertIds,
           alerts' = [alerts EXCEPT ![i] = None], UNCHANGED toCreate
    PROVE  WithinConditions'
<1>1. \A j \in AlertIds : alerts'[j] = IF j = i THEN None ELSE alerts[j]
  BY DEF IInv, TypeOK
<1>2. \A c \in Codes : Open({c})' \subseteq Open({c})
  BY <1>1, PrinterAlertsAssumption DEF Open
<1>3. \A c \in Codes : Planned(c)' \subseteq Planned(c)
  BY DEF Planned, WithCode
<1>4. QED  BY <1>2, <1>3, Shrinks DEF WithinConditions, WithCode

\* A plan: alerts are created for codes without an open one, and for all of
\* the conditions with such a code at most.
LEMMA PlanWithin ==
    ASSUME IInv, WithinConditions, UNCHANGED alerts,
           \A x \in toCreate' \cap Conditions : Open({CodeOf[x]}) = {}
    PROVE  WithinConditions'
<1> SUFFICES ASSUME NEW c \in Codes
             PROVE  Cardinality(Open({c})') + Cardinality(Planned(c)')
                        <= Cardinality(WithCode(c))
  BY DEF WithinConditions, WithCode
<1>1. Open({c})' = Open({c})
  BY DEF Open
<1>2. CASE Planned(c)' = {}
  BY <1>1, <1>2, Shrinks
<1>3. CASE Planned(c)' # {}
  <2>1. Open({c}) = {}
    BY <1>3 DEF Planned, WithCode
  <2>2. Planned(c)' \subseteq WithCode(c)
    BY DEF Planned, WithCode
  <2>3. /\ Cardinality(Planned(c)') <= Cardinality(WithCode(c))
        /\ Cardinality(Planned(c)') \in Nat
    BY <2>2, Finite, FS_Subset, FS_CardinalityType
  <2>4. QED  BY <1>1, <2>1, <2>3, FS_EmptySet, Finite
<1>4. QED  BY <1>2, <1>3

\* An insert turns a planned alert into an open one.
LEMMA CreateWithin ==
    ASSUME IInv, WithinConditions, NEW x \in Conditions \cup TonerTypes, CreateOne(x)
    PROVE  WithinConditions'
<1> DEFINE i == CHOOSE j \in AlertIds : alerts[j] = None
<1>1. x \in toCreate /\ toCreate' = toCreate \ {x} /\ alerts' = [alerts EXCEPT ![i] = TypeOf(x)]
  BY DEF CreateOne
<1>2. \A j \in AlertIds : alerts'[j] = IF j = i THEN TypeOf(x) ELSE alerts[j]
  BY <1>1 DEF IInv, TypeOK
<1> HIDE DEF i
<1> SUFFICES ASSUME NEW c \in Codes
             PROVE  Cardinality(Open({c})') + Cardinality(Planned(c)')
                        <= Cardinality(WithCode(c))
  BY DEF WithinConditions, WithCode
<1>3. CASE TypeOf(x) # c
  <2>1. Open({c})' \subseteq Open({c})
    BY <1>2, <1>3 DEF Open
  <2>2. Planned(c)' \subseteq Planned(c)
    BY <1>1 DEF Planned, WithCode
  <2>3. QED  BY <2>1, <2>2, Shrinks
<1>4. CASE TypeOf(x) = c
  <2>1. x \in Conditions /\ CodeOf[x] = c
    BY <1>4, PrinterAlertsAssumption DEF TypeOf, Codes
  <2>2. x \in Planned(c) /\ Planned(c)' = Planned(c) \ {x}
    BY <1>1, <2>1 DEF Planned, WithCode
  <2>3. Cardinality(Planned(c)') = Cardinality(Planned(c)) - 1
    BY <2>2, Finite, FS_RemoveElement
  <2>4. Open({c})' \subseteq Open({c}) \cup {i}
    BY <1>2 DEF Open
  <2>5. /\ IsFiniteSet(Open({c}) \cup {i})
        /\ \/ Cardinality(Open({c}) \cup {i}) = Cardinality(Open({c})) + 1
           \/ Cardinality(Open({c}) \cup {i}) = Cardinality(Open({c}))
    BY Finite, FS_AddElement
  <2>6. /\ Cardinality(Open({c})') <= Cardinality(Open({c}) \cup {i})
        /\ Cardinality(Open({c})') \in Nat
    BY <2>4, <2>5, FS_Subset, FS_CardinalityType
  <2>7. QED  BY <2>3, <2>5, <2>6, Finite DEF WithinConditions
<1>5. QED  BY <1>3, <1>4

LEMMA InitWithin == Init => WithinConditions
<1> SUFFICES ASSUME Init, NEW c \in Codes
             PROVE  Cardinality(Open({c})) + Cardinality(Planned(c)) <= Cardinality(WithCode(c))
  BY DEF WithinConditions
<1>1. Open({c}) = {} /\ Planned(c) = {}
  BY PrinterAlertsAssumption DEF Init, Open, Planned
<1>2. QED  BY <1>1, FS_EmptySet, Finite

LEMMA NextWithin == IInv /\ WithinConditions /\ [Next]_vars => WithinConditions'
<1> SUFFICES ASSUME IInv, WithinConditions, [Next]_vars PROVE WithinConditions'
  OBVIOUS
<1>1. ASSUME UNCHANGED <<alerts, toCreate>> PROVE WithinConditions'
  BY <1>1 DEF WithinConditions, Open, Planned, WithCode
<1>2. CASE UNCHANGED vars
  BY <1>1, <1>2 DEF vars, jobVars
<1>3. ASSUME NEW x \in Conditions, Raise(x) \/ Clear(x) PROVE WithinConditions'
  BY <1>1, <1>3 DEF Raise, Clear, Change, jobVars
<1>4. ASSUME NEW l \in Levels, Wear(l) PROVE WithinConditions'
  BY <1>1, <1>4 DEF Wear, Change, jobVars
<1>5. CASE Submit \/ Delay \/ SubmitDelayed
  BY <1>1, <1>5 DEF Submit, Delay, SubmitDelayed, Record, jobVars
<1>6. ASSUME NEW i \in AlertIds, Handle(i) PROVE WithinConditions'
  BY <1>6, ClosingWithin DEF Handle, jobVars
<1>7. CASE ReadRows \/ ReadToner
  BY <1>1, <1>7 DEF ReadRows, ReadToner
<1>8. CASE PlanErrors
  <2>1. \A x \in toCreate' : x \in Conditions /\ Open({CodeOf[x]}) = {}
    BY <1>8 DEF PlanErrors, Open, IInv, TypeOK, Codes
  <2>2. QED  BY <1>8, <2>1, PlanWithin DEF PlanErrors
<1>9. CASE PlanToner
  <2>1. toCreate' \cap Conditions = {}
    BY <1>9, PrinterAlertsAssumption DEF PlanToner, TonerTypes
  <2>2. QED  BY <1>9, <2>1, PlanWithin DEF PlanToner
<1>10. ASSUME NEW i \in AlertIds, ResolveOne(i) PROVE WithinConditions'
  BY <1>10, ClosingWithin DEF ResolveOne
<1>11. ASSUME NEW x \in Conditions \cup TonerTypes, CreateOne(x) PROVE WithinConditions'
  BY <1>11, CreateWithin
<1>12. CASE FinishJob \/ JobFails
  <2>1. toCreate' = {} /\ UNCHANGED alerts
    BY <1>12 DEF FinishJob, JobFails, ToIdle
  <2>2. QED  BY <2>1, PlanWithin
<1>13. QED
  BY <1>2, <1>3, <1>4, <1>5, <1>6, <1>7, <1>8, <1>9, <1>10, <1>11, <1>12 DEF Next, Update

\* However collections, users and half-done runs interleave, a code never
\* has more OPEN alerts than the printer has conditions with that code.
THEOREM AlertsNeverPileUp == Spec => []NoPilingUp
<1>1. Spec => []WithinConditions
  BY Inductive, InitWithin, NextWithin, PTL DEF Spec
<1>2. WithinConditions => NoPilingUp
  <2>1. ASSUME WithinConditions, NEW c \in Codes
        PROVE  Cardinality(Open({c})) <= Cardinality(WithCode(c))
    BY <2>1, Finite DEF WithinConditions
  <2>2. QED  BY <2>1 DEF NoPilingUp, WithCode
<1>3. QED  BY <1>1, <1>2, PTL
=============================================================================
