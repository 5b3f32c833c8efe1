------------------------------ MODULE Supplies ------------------------------
(***************************************************************************)
(* The replacements of one supply of one printer.  Readings of its level   *)
(* come in from the Agent, and a jump between two of them raises a         *)
(* CANDIDATE that the next one decides; forecast() keeps a PREDICTED row;  *)
(* users log replacements, which may take the supply from stock.           *)
(*                                                                         *)
(* The ingestions of a printer follow one another: the upsert of its row   *)
(* locks it until the transaction ends.                                    *)
(***************************************************************************)
EXTENDS Inventory

CONSTANTS
    Levels,         \* the levels read, in percent
    JumpThreshold,  \* REPLACEMENT_JUMP_THRESHOLD
    PrematureLevel, \* PREMATURE_REPLACEMENT_LEVEL
    Forecasters     \* requests for the forecast

ASSUME SuppliesAssumption ==
    /\ Levels \subseteq 0..100 /\ Levels # {}
    /\ JumpThreshold \in 1..100 /\ PrematureLevel \in 0..100
    /\ {"read", "untrue", "swap", "forecast"} \subseteq Kinds

VARIABLES
    level,        \* what is really left in the supply
    levels,       \* ConsumableReading rows, in the order they are inserted
    replacements, \* ConsumableReplacement rows
    ingesting,    \* the ingestion under way
    forecasting,  \* each forecast
    \* observation only
    swaps,        \* times the supply was really replaced
    untrue,       \* a reading was a misread, or an old one out of the queue
    gap,          \* a reading without a level came while a candidate waited
    overlap       \* a forecast ran beside another or beside an ingestion

supplyVars == <<level, levels, replacements, ingesting, forecasting, swaps, untrue, gap, overlap>>
stockAndSupplyVars == <<stockVars, supplyVars, quota>>

Status == {"CANDIDATE", "CONFIRMED", "PREMATURE", "PREDICTED", "DISMISSED"}
\* predicted: predictedAt is set; user: logged by a user.
Replacement == [status : Status, predicted : BOOLEAN, baseline : Levels \cup {None}, user : BOOLEAN]
\* Rows are named by their place, 0 for none.
Ingestion == [step : {"idle", "write"}, new : Levels \cup {None}, previous : Levels \cup {None},
              candidate : Nat, predicted : Nat]
Forecast == [step : {"idle", "find", "write"}, found : Nat]

NoIngestion == [step |-> "idle", new |-> None, previous |-> None, candidate |-> 0, predicted |-> 0]
NoForecast == [step |-> "idle", found |-> 0]

SupplyTypeOK ==
    /\ StockTypeOK
    /\ level \in Levels
    /\ levels \in Seq(Levels \cup {None})
    /\ replacements \in Seq(Replacement)
    /\ ingesting \in Ingestion
    /\ forecasting \in [Forecasters -> Forecast]
    /\ swaps \in Nat
    /\ {untrue, gap, overlap} \subseteq BOOLEAN

SupplyInit ==
    /\ StockInit
    /\ level = Max(Levels)
    /\ levels = <<>>
    /\ replacements = <<>>
    /\ ingesting = NoIngestion
    /\ forecasting = [f \in Forecasters |-> NoForecast]
    /\ swaps = 0
    /\ untrue = FALSE
    /\ gap = FALSE
    /\ overlap = FALSE

With(status) == {i \in DOMAIN replacements : replacements[i].status = status}

-----------------------------------------------------------------------------
(* The supply.                                                             *)

Wear ==
    /\ \E l \in Levels : l < level /\ level' = l
    /\ UNCHANGED <<stockVars, levels, replacements, ingesting, forecasting, swaps, untrue, gap, overlap, quota>>

Swap ==
    /\ Spend("swap")
    /\ level' = Max(Levels)
    /\ swaps' = swaps + 1
    /\ UNCHANGED <<stockVars, levels, replacements, ingesting, forecasting, untrue, gap, overlap>>

-----------------------------------------------------------------------------
(* Ingestion: detectReplacement and the insertion of the reading.          *)

\* Mutant: the first reading instead of the last.
FirstLevel == IF levels = <<>> THEN None ELSE levels[1]

PreviousLevel == IF levels = <<>> THEN None ELSE Last(levels)

\* The level could not be read: the row is inserted, nothing is detected.
ReadNothing ==
    /\ Spend("read")
    /\ ingesting.step = "idle"
    /\ levels' = Append(levels, None)
    /\ gap' = (gap \/ With("CANDIDATE") # {})
    /\ UNCHANGED <<stockVars, level, replacements, ingesting, forecasting, swaps, untrue, overlap>>

\* The rows are looked up: any CANDIDATE, any PREDICTED row.
Detect(l) ==
    /\ ingesting.step = "idle"
    /\ \E c \in IF With("CANDIDATE") = {} THEN {0} ELSE With("CANDIDATE"),
          p \in IF With("PREDICTED") = {} THEN {0} ELSE With("PREDICTED") :
        ingesting' = [step |-> "write", new |-> l, previous |-> PreviousLevel,
                      candidate |-> c, predicted |-> p]
    /\ overlap' = (overlap \/ \E f \in Forecasters : forecasting[f].step # "idle")
    /\ UNCHANGED <<stockVars, level, levels, replacements, forecasting, swaps, gap>>

ReadLevel == Spend("read") /\ Detect(level) /\ UNCHANGED untrue
ReadUntrue(l) == l # level /\ Spend("untrue") /\ Detect(l) /\ untrue' = TRUE

Persisted(new, baseline) == new - baseline >= JumpThreshold

Decided(row, new) ==
    IF Persisted(new, row.baseline)
    THEN [row EXCEPT !.status = IF row.baseline > PrematureLevel THEN "PREMATURE" ELSE "CONFIRMED"]
    ELSE [row EXCEPT !.status = IF row.predicted THEN "PREDICTED" ELSE "DISMISSED", !.baseline = None]

\* What detectReplacement makes of the rows.  A candidate is decided, and
\* then no other is raised from the same reading.
Detected(ing) ==
    CASE ing.previous = None -> replacements
      [] ing.previous # None /\ ing.candidate # 0 ->
            [replacements EXCEPT ![ing.candidate] = Decided(@, ing.new)]
      [] ing.previous # None /\ ing.candidate = 0 ->
            IF ing.new - ing.previous < JumpThreshold THEN replacements
            ELSE IF ing.predicted # 0
            THEN [replacements EXCEPT ![ing.predicted].status = "CANDIDATE",
                                      ![ing.predicted].baseline = ing.previous]
            ELSE Append(replacements, [status |-> "CANDIDATE", predicted |-> FALSE,
                                       baseline |-> ing.previous, user |-> FALSE])

Ingest ==
    /\ ingesting.step = "write"
    /\ replacements' = Detected(ingesting)
    /\ levels' = Append(levels, ingesting.new)
    /\ ingesting' = NoIngestion
    /\ UNCHANGED <<stockVars, level, forecasting, swaps, untrue, gap, overlap, quota>>

-----------------------------------------------------------------------------
(* The forecast.                                                           *)

Known == {i \in DOMAIN levels : levels[i] # None}

\* Mutant: a level that went up does not end the run.
AnyFall == \E i, k \in Known : i < k /\ levels[i] > levels[k]

\* calculateSupplyForecast is not null: the trailing run of levels that never
\* rises has at least two, and falls.
Falling ==
    \E i \in Known :
        /\ \A j, k \in Known : i <= j /\ j < k => levels[j] >= levels[k]
        /\ \E k \in Known : i < k /\ levels[i] > levels[k]

ReadTrend(f) ==
    /\ Spend("forecast")
    /\ forecasting[f].step = "idle"
    /\ Falling
    /\ forecasting' = [forecasting EXCEPT ![f] = [step |-> "find", found |-> 0]]
    /\ overlap' = (overlap \/ ingesting.step # "idle" \/ \E g \in Forecasters : forecasting[g].step # "idle")
    /\ UNCHANGED <<stockVars, level, levels, replacements, ingesting, swaps, untrue, gap>>

\* The latest PREDICTED row.
FindPredicted(f) ==
    /\ forecasting[f].step = "find"
    /\ forecasting' = [forecasting EXCEPT ![f] =
            [step |-> "write",
             found |-> IF With("PREDICTED") = {} THEN 0
                       ELSE CHOOSE i \in With("PREDICTED") : \A j \in With("PREDICTED") : j <= i]]
    /\ UNCHANGED <<stockVars, level, levels, replacements, ingesting, swaps, untrue, gap, overlap, quota>>

\* It gets the new date whatever its status is now; without one, a row is created.
KeepPrediction(f) ==
    LET i == forecasting[f].found
    IN  /\ forecasting[f].step = "write"
        /\ replacements' =
             IF i # 0 THEN [replacements EXCEPT ![i].predicted = TRUE]
             ELSE Append(replacements, [status |-> "PREDICTED", predicted |-> TRUE,
                                        baseline |-> None, user |-> FALSE])
        /\ forecasting' = [forecasting EXCEPT ![f] = NoForecast]
        /\ UNCHANGED <<stockVars, level, levels, ingesting, swaps, untrue, gap, overlap, quota>>

-----------------------------------------------------------------------------
(* A replacement logged by a user, see TakeSupply for the stock it takes.  *)

ReplaceWithoutStock(r) ==
    /\ Spend("replace")
    /\ moving[r].step = "idle"
    /\ moving' = [moving EXCEPT ![r] = [Idle EXCEPT !.step = "dismiss", !.kind = "replace"]]
    /\ UNCHANGED <<quantity, movements, parts, raced, supplyVars>>

DismissPredicted(r) ==
    /\ moving[r].step = "dismiss"
    /\ replacements' = [i \in DOMAIN replacements |->
            IF i \in With("PREDICTED") THEN [replacements[i] EXCEPT !.status = "DISMISSED"]
            ELSE replacements[i]]
    /\ moving' = [moving EXCEPT ![r].step = "confirm"]
    /\ UNCHANGED <<quantity, movements, parts, raced, level, levels, ingesting, forecasting, swaps, untrue, gap, overlap, quota>>

CreateReplacement(r) ==
    /\ moving[r].step = "confirm"
    /\ replacements' = Append(replacements, [status |-> "CONFIRMED", predicted |-> FALSE,
                                             baseline |-> None, user |-> TRUE])
    /\ moving' = [moving EXCEPT ![r] = Idle]
    /\ UNCHANGED <<quantity, movements, parts, raced, level, levels, ingesting, forecasting, swaps, untrue, gap, overlap, quota>>

-----------------------------------------------------------------------------
SupplyNext ==
    \/ StockNext /\ UNCHANGED supplyVars
    \/ Wear \/ Swap
    \/ ReadNothing \/ ReadLevel \/ Ingest
    \/ \E l \in Levels : ReadUntrue(l)
    \/ \E f \in Forecasters : ReadTrend(f) \/ FindPredicted(f) \/ KeepPrediction(f)
    \/ \E r \in Requests : ReplaceWithoutStock(r) \/ DismissPredicted(r) \/ CreateReplacement(r)

SupplySpec == SupplyInit /\ [][SupplyNext]_stockAndSupplyVars

-----------------------------------------------------------------------------
(* Properties.                                                             *)

Detections == {i \in With("CONFIRMED") \cup With("PREMATURE") : ~replacements[i].user}

\* "Never raises a second candidate": one jump waits at a time.  A forecast
\* reuses the open PREDICTED row: there is one, unless forecasts and
\* ingestions overlapped or a reading without a level left a candidate open.
OneOpen ==
    /\ Cardinality(With("CANDIDATE")) <= 1
    /\ ~overlap /\ ~gap => Cardinality(With("PREDICTED")) <= 1
RowsConsistent == SupplyTypeOK /\ OneOpen

\* "Confirmation only happens once the NEXT reading shows the elevated level
\* actually held": a reading at the baseline, then two that exceed it by the
\* threshold, one after the other unless readings without a level came.
ConfirmedWhenHeld ==
    \A i \in Detections : \E k, n \in DOMAIN levels :
        /\ levels[k] = replacements[i].baseline
        /\ ~gap => n = k + 2
        /\ k + 1 < n
        /\ \A j \in {k + 1, n} :
            levels[j] # None /\ levels[j] - replacements[i].baseline >= JumpThreshold

\* As long as the readings are true and in order, no more replacements are
\* detected than took place, whatever forecasts and users do meanwhile.
SwapCountedOnce == ~untrue => Cardinality(Detections) <= swaps

\* A detection is real: a level that held, and a swap of its own.
DetectionsAreReal == ConfirmedWhenHeld /\ SwapCountedOnce
=============================================================================
