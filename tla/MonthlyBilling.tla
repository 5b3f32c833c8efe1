---------------------------- MODULE MonthlyBilling ----------------------------
(***************************************************************************)
(* generate-monthly-charges for one contract with one printer.  The job    *)
(* may run at any time and any number of times (every day, counted from    *)
(* the worker's start; again after a stall), while the printer prints and  *)
(* is read, its counter is reset, and users edit, pay and cancel entries.   *)
(*                                                                         *)
(* Time is in ticks, Ticks of them to a day.  Money is left out: an entry  *)
(* carries the pages it charges for.                                       *)
(***************************************************************************)
EXTENDS Pricing, Sequences

CONSTANTS
    Months,      \* bound: months 1..Months are lived through
    MonthStart,  \* first tick of each month, of month 0 and of the one after
    Ticks,
    BillingDay,
    StartCounter, \* what the printer's counter says at first
    MaxPages,    \* bound: pages printed
    MaxReadings, \* bound: readings recorded
    MaxResets,   \* bound: counter resets
    MaxEntries,  \* bound: entries of the contract
    MaxEdits,    \* bound: what users do
    MaxFaults    \* bound: runs that die half way and delayed readings

Month == 1..Months
Time == MonthStart[1]..(MonthStart[Months + 1] - 1)

ASSUME BillingAssumption ==
    /\ Months \in Nat \ {0}
    /\ Ticks \in Nat \ {0}
    /\ BillingDay \in Nat \ {0}
    /\ MonthStart \in [0..(Months + 1) -> Int]
    /\ \A m, n \in 0..(Months + 1) : m < n => MonthStart[m] < MonthStart[n]
    /\ {StartCounter, MaxPages, MaxReadings, MaxResets, MaxEntries, MaxEdits, MaxFaults} \subseteq Nat
    /\ None \notin Int

VARIABLES
    now,
    \* the printer
    printed,   \* pages printed in its life
    counter,   \* what its total counter says
    delayed,   \* a reading in the Agent's offline queue, or None
    \* the database
    readings,  \* CounterReading rows
    entries,   \* FinancialEntry rows of the contract
    \* the job
    pc,
    today,     \* const today = new Date()
    \* observation only
    printedBy, \* pages printed by the billing day of each month that has come
    resets,
    edits,
    faults

vars == <<now, printed, counter, delayed, readings, entries, pc, today,
          printedBy, resets, edits, faults>>

Reading == [at: Time, total: Nat, late: BOOLEAN]
\* month: the month it charges for, 0 if a user created it;
\* printed: pages really printed in the period it covers;
\* exact: no late reading took part; moved: a user moved it to an earlier month.
Entry == [month: Month \cup {0}, due: Nat, status: {"PENDING", "PAID", "CANCELLED"},
          pages: Nat \cup {None}, printed: Nat, exact: BOOLEAN, moved: BOOLEAN]

MonthOf(t) == CHOOSE m \in Month : MonthStart[m] <= t /\ t < MonthStart[m + 1]
BillingDayOf(m) == MonthStart[m] + (BillingDay - 1) * Ticks
DayOf(t) == (t - MonthStart[MonthOf(t)]) \div Ticks + 1

TypeOK ==
    /\ now \in Time
    /\ printed \in 0..MaxPages
    /\ counter \in 0..(StartCounter + MaxPages)
    /\ delayed \in 0..(StartCounter + MaxPages) \cup {None}
    /\ readings \in SUBSET Reading
    /\ entries \in Seq(Entry)
    /\ pc \in {"idle", "check", "create"}
    /\ today \in Time
    /\ printedBy \in [0..Months -> 0..MaxPages]
    /\ resets \in 0..MaxResets
    /\ edits \in 0..MaxEdits
    /\ faults \in 0..MaxFaults

Init ==
    /\ now = MonthStart[1]
    /\ printed = 0
    /\ counter = StartCounter
    /\ delayed = None
    /\ readings = {}
    /\ entries = <<>>
    /\ pc = "idle"
    /\ today = MonthStart[1]
    /\ printedBy = [m \in 0..Months |-> 0]
    /\ resets = 0
    /\ edits = 0
    /\ faults = 0

-----------------------------------------------------------------------------
(* Time, the printer and the Agent.                                        *)

Tick ==
    /\ now + 1 \in Time
    /\ now' = now + 1
    /\ printedBy' = [m \in 0..Months |-> IF BillingDayOf(m) = now' THEN printed ELSE printedBy[m]]
    /\ UNCHANGED <<printed, counter, delayed, readings, entries, pc, today, resets, edits, faults>>

PrintPage ==
    /\ printed < MaxPages
    /\ printed' = printed + 1
    /\ counter' = counter + 1
    /\ UNCHANGED <<now, delayed, readings, entries, pc, today, printedBy, resets, edits, faults>>

\* A factory reset or a new board: the counter starts again.
ResetCounter ==
    /\ resets < MaxResets
    /\ resets' = resets + 1
    /\ counter' = 0
    /\ UNCHANGED <<now, printed, delayed, readings, entries, pc, today, printedBy, edits, faults>>

\* collectedAt is the time of the insertion, so after `today` while a run is
\* on; one reading per tick.
Record(total, late) ==
    /\ pc # "idle" => now > today
    /\ \A r \in readings : r.at < now
    /\ Cardinality(readings) < MaxReadings
    /\ readings' = readings \cup {[at |-> now, total |-> total, late |-> late]}
    /\ UNCHANGED <<now, printed, counter, entries, pc, today, printedBy, resets, edits, faults>>

Collect == Record(counter, FALSE) /\ UNCHANGED delayed

Delay ==
    /\ delayed = None
    /\ delayed' = counter
    /\ faults < MaxFaults
    /\ faults' = faults + 1
    /\ UNCHANGED <<now, printed, counter, readings, entries, pc, today, printedBy, resets, edits>>

\* A batch from the offline queue, dated when it arrives.
CollectDelayed ==
    /\ delayed # None
    /\ Record(delayed, TRUE)
    /\ delayed' = None

-----------------------------------------------------------------------------
(* Users.                                                                  *)

Edit ==
    /\ edits < MaxEdits
    /\ edits' = edits + 1
    /\ UNCHANGED <<now, printed, counter, delayed, readings, pc, today, printedBy, resets, faults>>

AddEntry(e) ==
    /\ Len(entries) < MaxEntries
    /\ entries' = Append(entries, e)

\* POST /financial with the contract's id.
CreateEntry(due) ==
    /\ Edit
    /\ AddEntry([month |-> 0, due |-> due, status |-> "PENDING",
                 pages |-> None, printed |-> 0, exact |-> TRUE, moved |-> FALSE])

Rescheduled(e, due) == [e EXCEPT !.due = due, !.moved = e.moved \/ due < e.due]

\* Only a pending entry gets another due date.
MoveEntry(i, due) ==
    /\ Edit
    /\ entries[i].status = "PENDING"
    /\ entries' = [entries EXCEPT ![i] = Rescheduled(entries[i], due)]

Settled(e, status) == [e EXCEPT !.status = status]

\* markPaid and cancel look at no status.
MarkPaid(i) ==
    /\ Edit
    /\ entries' = [entries EXCEPT ![i] = Settled(entries[i], "PAID")]

Cancel(i) ==
    /\ Edit
    /\ entries' = [entries EXCEPT ![i] = Settled(entries[i], "CANCELLED")]

-----------------------------------------------------------------------------
(* The job.                                                                *)

\* dueContracts.  Whether the contract is ACTIVE and has not ended is up to
\* its users: the day alone decides here.
StartJob ==
    /\ pc = "idle"
    /\ DayOf(now) = BillingDay
    /\ pc' = "check"
    /\ today' = now
    /\ UNCHANGED <<now, printed, counter, delayed, readings, entries, printedBy, resets, edits, faults>>

\* Mutant: only entries that are still to be paid count.
BilledAndPending ==
    \E i \in DOMAIN entries : entries[i].due >= MonthOf(today) /\ entries[i].status = "PENDING"

\* alreadyBilled: any entry of the contract due in this month or later, paid
\* and cancelled ones too.
AlreadyBilled == \E i \in DOMAIN entries : entries[i].due >= MonthOf(today)

SkipBilled ==
    /\ pc = "check"
    /\ AlreadyBilled
    /\ pc' = "idle"
    /\ UNCHANGED <<now, printed, counter, delayed, readings, entries, today, printedBy, resets, edits, faults>>

NotBilled ==
    /\ pc = "check"
    /\ ~AlreadyBilled
    /\ pc' = "create"
    /\ UNCHANGED <<now, printed, counter, delayed, readings, entries, today, printedBy, resets, edits, faults>>

\* new Date(year, month - 1, dayOfMonth): midnight of that day of the month
\* before, or of a day after its end if it has no such day.
PeriodFrom == BillingDayOf(MonthOf(today) - 1)

PagesUsed == UsageBetween(readings, PeriodFrom, today)
InTime == \A r \in Within(readings, PeriodFrom, today) : ~r.late

CreateCharge ==
    /\ pc = "create"
    /\ pc' = "idle"
    /\ AddEntry([month |-> MonthOf(today), due |-> MonthOf(today), status |-> "PENDING",
                 pages |-> PagesUsed, printed |-> printed - printedBy[MonthOf(today) - 1], exact |-> InTime, moved |-> FALSE])
    /\ UNCHANGED <<now, printed, counter, delayed, readings, today, printedBy, resets, edits, faults>>

\* A query throws or the worker dies; BullMQ runs a stalled job again.
JobFails ==
    /\ faults < MaxFaults
    /\ faults' = faults + 1
    /\ pc # "idle"
    /\ pc' = "idle"
    /\ UNCHANGED <<now, printed, counter, delayed, readings, entries, today, printedBy, resets, edits>>

-----------------------------------------------------------------------------
Next ==
    \/ Tick
    \/ PrintPage
    \/ ResetCounter
    \/ Collect
    \/ Delay
    \/ CollectDelayed
    \/ \E due \in Month : CreateEntry(due)
    \/ \E i \in DOMAIN entries, due \in Month : MoveEntry(i, due)
    \/ \E i \in DOMAIN entries : MarkPaid(i)
    \/ \E i \in DOMAIN entries : Cancel(i)
    \/ StartJob
    \/ SkipBilled
    \/ NotBilled
    \/ CreateCharge
    \/ JobFails

Spec == Init /\ [][Next]_vars

-----------------------------------------------------------------------------
(* Properties.                                                             *)

\* The job's comment: "idempotent per (contract, month) so a retry or an
\* extra trigger never double-bills".  True unless a user moves the month's
\* charge to an earlier month.
OneChargePerMonth ==
    \A i, j \in DOMAIN entries :
        /\ entries[i].month = entries[j].month /\ entries[i].month # 0
        /\ ~entries[i].moved /\ ~entries[j].moved
        => i = j

\* A charge is never for more pages than were printed in its period, resets
\* and missing readings included, if its readings arrived in time.
ChargesWhatWasPrinted ==
    \A i \in DOMAIN entries :
        entries[i].exact /\ entries[i].pages # None => entries[i].pages <= entries[i].printed
Consistent == TypeOK /\ ChargesWhatWasPrinted
=============================================================================
