------------------------- MODULE MonthlyBillingProofs -------------------------
(***************************************************************************)
(* For any months, billing day and number of runs, crashes and edits: no   *)
(* month is charged twice, as long as no user moves the charge to an       *)
(* earlier month, and no charge is for more pages than were printed in its *)
(* period, as long as its readings arrived in time.                        *)
(*                                                                         *)
(* Charged once: a charge is due in the month it is for or later, so a run *)
(* that found nothing due from its month on has found no charge for it,    *)
(* and nobody but the run creates one.                                     *)
(*                                                                         *)
(* Charged for what was printed: from any reading that was not late, the   *)
(* counter shows at most the pages printed since, whether it was reset or  *)
(* not, and so does every later reading when it is taken.  A charge is the *)
(* difference of two readings of its period, whose first page was printed  *)
(* after the billing day it begins with.                                   *)
(***************************************************************************)
EXTENDS MonthlyBilling, FiniteSetTheorems, SequenceTheorems, WellFoundedInduction, TLAPS

IsEntry(e) ==
    /\ e = [month |-> e.month, due |-> e.due, status |-> e.status, pages |-> e.pages,
            printed |-> e.printed, exact |-> e.exact, moved |-> e.moved]
    /\ e.month \in Int
    /\ e.due \in Int
    /\ e.moved \in BOOLEAN

Typed ==
    /\ now \in Time
    /\ today \in Time
    /\ Len(entries) \in Nat
    /\ entries = [i \in 1..Len(entries) |-> entries[i]]
    /\ \A i \in 1..Len(entries) : IsEntry(entries[i])

\* The charge for a month that no user has moved back.
Charges(e) == e.month # 0 /\ ~e.moved

DueInItsMonth ==
    \A i \in 1..Len(entries) : Charges(entries[i]) => entries[i].month <= entries[i].due

NotChargedYet ==
    pc = "create" =>
        \A i \in 1..Len(entries) : Charges(entries[i]) => entries[i].month # MonthOf(today)

IInv == Typed /\ DueInItsMonth /\ NotChargedYet /\ OneChargePerMonth

-----------------------------------------------------------------------------
\* Every tick lies in a month.
LEMMA MonthOfTime == \A t \in Time : MonthOf(t) \in Month
<1>. SUFFICES ASSUME NEW t \in Time PROVE MonthOf(t) \in Month
  OBVIOUS
<1>. USE BillingAssumption DEF Month, Time
<1>. DEFINE Later == {m \in Nat : m \in Month /\ t < MonthStart[m + 1]}
<1>1. Months \in Later
  OBVIOUS
<1>2. PICK m \in Later : \A k \in Later : ~ (<<k, m>> \in OpToRel(<, Nat))
  <2>1. Later \subseteq Nat /\ Later # {}
    BY <1>1
  <2>. QED  BY <2>1, NatLessThanWellFounded, WFMin
<1>3. \A k \in Later : ~ (k < m)
  BY <1>2 DEF OpToRel
<1>4. MonthStart[m] <= t
  <2>1. CASE m = 1
    BY <2>1
  <2>2. CASE m # 1
    <3>1. m - 1 \in Month /\ m - 1 \in Nat /\ (m - 1) + 1 = m /\ m - 1 < m
      BY <2>2
    <3>2. m - 1 \notin Later
      BY <3>1, <1>3
    <3>3. MonthStart[m] \in Int /\ t \in Int
      OBVIOUS
    <3>. QED  BY <3>1, <3>2, <3>3
  <2>. QED  BY <2>1, <2>2
<1>. QED  BY <1>4 DEF MonthOf

LEMMA InitIInv == Init => IInv
<1>. SUFFICES ASSUME Init PROVE IInv
  OBVIOUS
<1>1. MonthStart[1] \in Time
  BY BillingAssumption DEF Time
<1>2. entries = <<>> /\ Len(entries) = 0 /\ DOMAIN entries = {} /\ 1..0 = {}
  BY DEF Init
<1>3. Typed
  BY <1>1, <1>2 DEF Init, Typed
<1>. QED  BY <1>2, <1>3 DEF Init, IInv, DueInItsMonth, NotChargedYet, OneChargePerMonth

\* Steps that leave the entries alone and begin no charge.
LEMMA OthersIInv ==
    ASSUME IInv, UNCHANGED entries, now' \in Time,
           (UNCHANGED <<pc, today>>) \/ (pc' # "create" /\ today' \in Time)
    PROVE  IInv'
  BY DEF IInv, Typed, DueInItsMonth, NotChargedYet, OneChargePerMonth

\* A new entry that is no second charge for its month.
LEMMA AddIInv ==
    ASSUME IInv, NEW e, IsEntry(e), AddEntry(e), UNCHANGED <<now, today>>,
           Charges(e) =>
               /\ e.month <= e.due
               /\ pc' # "create"
               /\ \A i \in 1..Len(entries) : Charges(entries[i]) => entries[i].month # e.month,
           pc' # "create" \/ pc' = pc
    PROVE  IInv'
<1>. DEFINE n == Len(entries)
<1>. DEFINE T == {entries[i] : i \in 1..n} \cup {e}
<1>1. entries \in Seq(T) /\ e \in T
  BY DEF IInv, Typed
<1>2. /\ Len(entries') = n + 1
      /\ entries' = [i \in 1..(n + 1) |-> IF i = n + 1 THEN e ELSE entries[i]]
  <2>. HIDE DEF T
  <2>1. /\ entries' \in Seq(T)
        /\ Len(entries') = n + 1
        /\ \A i \in 1..n : entries'[i] = entries[i]
        /\ entries'[n + 1] = e
    BY <1>1, AppendProperties DEF AddEntry
  <2>2. entries' = [i \in 1..(n + 1) |-> entries'[i]]
    BY <2>1
  <2>. QED  BY <1>1, <2>1, <2>2
<1>3. n \in Nat
  BY DEF IInv, Typed
<1>4. Typed'
  BY <1>2, <1>3 DEF IInv, Typed
<1>5. DueInItsMonth' /\ NotChargedYet'
  BY <1>2, <1>3 DEF IInv, DueInItsMonth, NotChargedYet
<1>6. OneChargePerMonth'
  <2>. SUFFICES ASSUME NEW i \in 1..(n + 1), NEW j \in 1..(n + 1),
                       entries'[i].month = entries'[j].month,
                       Charges(entries'[i]), Charges(entries'[j])
                PROVE  i = j
    BY <1>2 DEF OneChargePerMonth, Charges
  <2>1. CASE i \in 1..n /\ j \in 1..n
    BY <2>1, <1>2, <1>3 DEF IInv, Typed, OneChargePerMonth, Charges
  <2>2. CASE i = n + 1 \/ j = n + 1
    BY <2>2, <1>2, <1>3
  <2>. QED  BY <2>1, <2>2, <1>3
<1>. QED  BY <1>4, <1>5, <1>6 DEF IInv

LEMMA RescheduledEntry ==
    ASSUME NEW e, IsEntry(e), NEW due \in Int
    PROVE  /\ IsEntry(Rescheduled(e, due))
           /\ Rescheduled(e, due).month = e.month
           /\ ~Rescheduled(e, due).moved => ~e.moved /\ e.due <= Rescheduled(e, due).due
<1>. DEFINE moved == e.moved \/ due < e.due
<1>1. e.month \in Int /\ e.due \in Int /\ moved \in BOOLEAN
  BY DEF IsEntry
<1>2. ~moved => ~e.moved /\ e.due <= due
  BY <1>1
<1>. DEFINE new == [month |-> e.month, due |-> due, status |-> e.status, pages |-> e.pages,
                    printed |-> e.printed, exact |-> e.exact, moved |-> moved]
<1>3. Rescheduled(e, due) = new
  <2>1. Rescheduled(e, due) = [e EXCEPT !.due = due, !.moved = moved]
    BY DEF Rescheduled
  <2>. HIDE DEF moved
  <2>. QED  BY <2>1 DEF IsEntry
<1>. HIDE DEF moved
<1>4. IsEntry(new) /\ new.month = e.month /\ new.due = due /\ new.moved = moved
  BY <1>1 DEF IsEntry
<1>. HIDE DEF new
<1>. QED  BY <1>2, <1>3, <1>4

LEMMA SettledEntry ==
    ASSUME NEW e, IsEntry(e), NEW status
    PROVE  /\ IsEntry(Settled(e, status))
           /\ Settled(e, status).month = e.month
           /\ Settled(e, status).moved = e.moved
           /\ Settled(e, status).due = e.due
<1>. DEFINE new == [month |-> e.month, due |-> e.due, status |-> status, pages |-> e.pages,
                    printed |-> e.printed, exact |-> e.exact, moved |-> e.moved]
<1>1. Settled(e, status) = new
  BY DEF IsEntry, Settled
<1>2. IsEntry(new) /\ new.month = e.month /\ new.due = e.due /\ new.moved = e.moved
  BY DEF IsEntry
<1>. HIDE DEF new
<1>. QED  BY <1>1, <1>2

\* A user changes an entry, without making a charge of it or moving one on.
LEMMA ChangeIInv ==
    ASSUME IInv, NEW i \in DOMAIN entries, NEW new, IsEntry(new),
           new.month = entries[i].month,
           ~new.moved => ~entries[i].moved /\ entries[i].due <= new.due,
           entries' = [entries EXCEPT ![i] = new],
           UNCHANGED <<now, pc, today>>
    PROVE  IInv'
<1>1. /\ i \in 1..Len(entries)
      /\ Len(entries) \in Nat
      /\ \A j \in 1..Len(entries) : IsEntry(entries[j])
  BY DEF IInv, Typed
<1>2. entries' = [j \in 1..Len(entries) |-> IF j = i THEN new ELSE entries[j]]
  BY <1>1 DEF IInv, Typed
<1>3. Len(entries') = Len(entries)
  BY <1>1, <1>2
<1>4. Typed'
  BY <1>1, <1>2, <1>3 DEF IInv, Typed
<1>5. \A j \in 1..Len(entries) :
        /\ entries'[j].month = entries[j].month
        /\ ~entries'[j].moved => ~entries[j].moved /\ entries[j].due <= entries'[j].due
  <2>. TAKE j \in 1..Len(entries)
  <2>1. entries[j].due \in Int
    BY <1>1 DEF IsEntry
  <2>2. CASE j = i
    BY <2>2, <1>1, <1>2
  <2>3. CASE j # i
    <3>1. entries'[j] = entries[j]
      BY <2>3, <1>2
    <3>. QED  BY <3>1, <2>1
  <2>. QED  BY <2>2, <2>3
<1>6. DueInItsMonth'
  BY <1>1, <1>3, <1>4, <1>5 DEF IInv, Typed, DueInItsMonth, Charges, IsEntry
<1>7. NotChargedYet'
  BY <1>3, <1>5 DEF IInv, NotChargedYet, Charges
<1>8. OneChargePerMonth'
  BY <1>1, <1>2, <1>3, <1>5 DEF IInv, OneChargePerMonth, Typed
<1>. QED  BY <1>4, <1>6, <1>7, <1>8 DEF IInv

\* Another due date, a payment, a cancellation.
LEMMA EditIInv ==
    ASSUME IInv, NEW i \in DOMAIN entries,
           (\E due \in Month : MoveEntry(i, due)) \/ MarkPaid(i) \/ Cancel(i)
    PROVE  IInv'
<1>1. IsEntry(entries[i]) /\ entries[i].due \in Int
  BY DEF IInv, Typed, IsEntry
<1>2. ASSUME NEW due \in Month, MoveEntry(i, due) PROVE IInv'
  <2>1. due \in Int
    BY BillingAssumption DEF Month
  <2>. DEFINE new == Rescheduled(entries[i], due)
  <2>2. /\ IsEntry(new) /\ new.month = entries[i].month
        /\ ~new.moved => ~entries[i].moved /\ entries[i].due <= new.due
    BY <1>1, <2>1, RescheduledEntry
  <2>3. entries' = [entries EXCEPT ![i] = new] /\ UNCHANGED <<now, pc, today>>
    BY <1>2 DEF MoveEntry, Edit
  <2>. HIDE DEF new
  <2>. QED  BY <2>2, <2>3, ChangeIInv
<1>3. ASSUME NEW status, entries' = [entries EXCEPT ![i] = Settled(entries[i], status)],
             UNCHANGED <<now, pc, today>>
      PROVE  IInv'
  <2>. DEFINE new == Settled(entries[i], status)
  <2>1. /\ IsEntry(new) /\ new.month = entries[i].month
        /\ ~new.moved => ~entries[i].moved /\ entries[i].due <= new.due
    BY <1>1, SettledEntry
  <2>2. entries' = [entries EXCEPT ![i] = new]
    BY <1>3
  <2>. HIDE DEF new
  <2>. QED  BY <1>3, <2>1, <2>2, ChangeIInv
<1>. QED  BY <1>2, <1>3 DEF MarkPaid, Cancel, Edit

LEMMA NextIInv == IInv /\ [Next]_vars => IInv'
<1>. SUFFICES ASSUME IInv, [Next]_vars PROVE IInv'
  OBVIOUS
<1>0. now \in Time /\ today \in Time
  BY DEF IInv, Typed
<1>1. CASE Tick \/ PrintPage \/ ResetCounter \/ Collect \/ Delay \/ CollectDelayed
  BY <1>0, <1>1, OthersIInv DEF Tick, PrintPage, ResetCounter, Collect, Delay, CollectDelayed, Record
<1>2. CASE \E due \in Month : CreateEntry(due)
  <2>1. PICK due \in Month : CreateEntry(due)
    BY <1>2
  <2>. DEFINE e == [month |-> 0, due |-> due, status |-> "PENDING", pages |-> None,
                    printed |-> 0, exact |-> TRUE, moved |-> FALSE]
  <2>2. IsEntry(e) /\ ~Charges(e)
    BY BillingAssumption DEF IsEntry, Charges, Month
  <2>3. AddEntry(e) /\ UNCHANGED <<now, today, pc>>
    BY <2>1 DEF CreateEntry, Edit
  <2>. HIDE DEF e
  <2>. QED  BY <2>2, <2>3, AddIInv
<1>3. CASE \E i \in DOMAIN entries : (\E due \in Month : MoveEntry(i, due)) \/ MarkPaid(i) \/ Cancel(i)
  BY <1>3, EditIInv
<1>4. CASE StartJob \/ SkipBilled \/ JobFails
  BY <1>0, <1>4, OthersIInv DEF StartJob, SkipBilled, JobFails
<1>5. CASE NotBilled
  <2>1. MonthOf(today) \in Int
    BY <1>0, MonthOfTime, BillingAssumption DEF Month
  <2>2. \A i \in 1..Len(entries) : Charges(entries[i]) => entries[i].month # MonthOf(today)
    <3>. TAKE i \in 1..Len(entries)
    <3>1. ~(entries[i].due >= MonthOf(today)) /\ IsEntry(entries[i])
      BY <1>5 DEF NotBilled, AlreadyBilled, IInv, Typed
    <3>. QED  BY <3>1, <2>1 DEF IsEntry, IInv, DueInItsMonth
  <2>. QED  BY <1>5, <2>2 DEF NotBilled, IInv, Typed, DueInItsMonth, NotChargedYet, OneChargePerMonth
<1>6. CASE CreateCharge
  <2>. DEFINE e == [month |-> MonthOf(today), due |-> MonthOf(today), status |-> "PENDING",
                    pages |-> PagesUsed, printed |-> printed - printedBy[MonthOf(today) - 1], exact |-> InTime, moved |-> FALSE]
  <2>1. MonthOf(today) \in Int
    BY <1>0, MonthOfTime, BillingAssumption DEF Month
  <2>2. IsEntry(e) /\ e.month = MonthOf(today) /\ e.month <= e.due
    BY <2>1 DEF IsEntry
  <2>3. AddEntry(e) /\ UNCHANGED <<now, today>> /\ pc = "create" /\ pc' = "idle"
    BY <1>6 DEF CreateCharge
  <2>. HIDE DEF e
  <2>. QED  BY <2>2, <2>3, AddIInv DEF IInv, NotChargedYet
<1>7. CASE UNCHANGED vars
  BY <1>0, <1>7, OthersIInv DEF vars
<1>. QED  BY <1>1, <1>2, <1>3, <1>4, <1>5, <1>6, <1>7 DEF Next

-----------------------------------------------------------------------------
\* Whatever the runs, their crashes and the edits, no charge of a run is for
\* a month that another run has charged, unless a user moved that one back.
THEOREM ChargedOnce == Spec => []OneChargePerMonth
<1>1. IInv => OneChargePerMonth
  BY DEF IInv
<1>. QED  BY InitIInv, NextIInv, <1>1, PTL DEF Spec

-----------------------------------------------------------------------------
(* What is charged.                                                        *)

\* calculatePeriodUsage of two totals.
Usage(first, last) == IF last < first THEN last ELSE last - first

\* Between two readings, and from a reading to now, the counter shows no more
\* pages than were printed since any billing day before.
ReadingsBounded ==
    \A m \in 0..Months : \A r \in readings :
        ~r.late /\ BillingDayOf(m) <= r.at =>
            /\ Usage(r.total, counter) <= printed - printedBy[m]
            /\ \A s \in readings : ~s.late /\ r.at <= s.at =>
                    Usage(r.total, s.total) <= printed - printedBy[m]

CountersBounded ==
    /\ counter <= StartCounter + printed
    /\ \A m \in 0..Months : printedBy[m] <= printed
    /\ \A r \in readings : r.at <= now

UsageIInv == TypeOK /\ CountersBounded /\ ReadingsBounded /\ ChargesWhatWasPrinted

\* A set of integers with a lower bound has a least element.
LEMMA LeastElement ==
    ASSUME NEW S, S \subseteq Int, S # {}, NEW b \in Int, \A s \in S : b <= s
    PROVE  \E s \in S : \A t \in S : s <= t
<1>. DEFINE D == {n \in Nat : n + b \in S}
<1>1. D # {} /\ D \subseteq Nat
  <2>1. PICK s \in S : TRUE
    OBVIOUS
  <2>2. s - b \in Nat /\ (s - b) + b = s
    BY <2>1
  <2>. QED  BY <2>1, <2>2
<1>2. PICK d \in D : \A k \in D : ~ (<<k, d>> \in OpToRel(<, Nat))
  BY <1>1, NatLessThanWellFounded, WFMin
<1>3. \A k \in D : ~(k < d)
  BY <1>1, <1>2 DEF OpToRel
<1>4. ASSUME NEW t \in S PROVE d + b <= t
  <2>1. t - b \in Nat /\ (t - b) + b = t
    BY <1>4
  <2>2. t - b \in D
    BY <2>1
  <2>. QED  BY <2>2, <1>3, <2>1
<1>5. d + b \in S
  BY <1>2
<1>. QED  BY <1>4, <1>5

LEMMA GreatestElement ==
    ASSUME NEW S, S \subseteq Int, S # {}, NEW b \in Int, \A s \in S : s <= b
    PROVE  \E s \in S : \A t \in S : t <= s
<1>. DEFINE N == {-s : s \in S}
<1>1. N \subseteq Int /\ N # {} /\ -b \in Int /\ \A n \in N : -b <= n
  OBVIOUS
<1>. HIDE DEF N
<1>2. PICK n \in N : \A k \in N : n <= k
  BY <1>1, LeastElement
<1>. USE DEF N
<1>3. PICK s \in S : n = -s
  OBVIOUS
<1>4. ASSUME NEW t \in S PROVE t <= s
  <2>1. -t \in N
    OBVIOUS
  <2>2. n <= -t
    BY <2>1, <1>2
  <2>. QED  BY <2>2, <1>3
<1>. QED  BY <1>4

\* What the usage of a period is, if it is known: that of two of its readings.
LEMMA UsageIsOfTwoReadings ==
    ASSUME NEW rs, rs \subseteq Reading, NEW from \in Int, NEW to \in Int,
           UsageBetween(rs, from, to) # None
    PROVE  \E r, s \in Within(rs, from, to) :
               r.at <= s.at /\ UsageBetween(rs, from, to) = Usage(r.total, s.total)
<1>. DEFINE W == Within(rs, from, to)
<1>1. W # {}
  BY FS_EmptySet DEF UsageBetween
<1>2. /\ W \subseteq Reading
      /\ \A r \in W : from <= r.at /\ r.at <= to
      /\ \A r \in W : r.at \in Int
  BY BillingAssumption DEF Within, Reading, Time
<1>. DEFINE A == {r.at : r \in W}
<1>. HIDE DEF W
<1>3. A \subseteq Int /\ A # {} /\ (\A a \in A : from <= a) /\ (\A a \in A : a <= to)
  BY <1>1, <1>2
<1>4. (\E a \in A : \A c \in A : a <= c) /\ (\E a \in A : \A c \in A : c <= a)
  <2>. HIDE DEF A
  <2>. QED  BY <1>3, LeastElement, GreatestElement
<1>5. (\E r \in W : \A q \in W : r.at <= q.at) /\ (\E r \in W : \A q \in W : q.at <= r.at)
  BY <1>4
<1>6. /\ Earliest(W) \in W /\ \A q \in W : Earliest(W).at <= q.at
      /\ Latest(W) \in W /\ \A q \in W : q.at <= Latest(W).at
  BY <1>5 DEF Earliest, Latest
<1>7. UsageBetween(rs, from, to) = Usage(Earliest(W).total, Latest(W).total)
  BY DEF UsageBetween, Usage, W
<1>8. Earliest(W).at <= Latest(W).at
  BY <1>6
<1>. QED  BY <1>6, <1>7, <1>8 DEF W

\* Charges are changed by users in their due date and their status only.
LEMMA InitUsage == Init => UsageIInv
<1>. SUFFICES ASSUME Init PROVE UsageIInv
  OBVIOUS
<1>. USE BillingAssumption
<1>1. MonthStart[1] \in Time
  BY DEF Time
<1>2. entries = <<>> /\ entries \in Seq(Entry) /\ DOMAIN entries = {}
  BY DEF Init
<1>3. TypeOK
  BY <1>1, <1>2 DEF Init, TypeOK
<1>4. CountersBounded /\ ReadingsBounded
  BY DEF Init, CountersBounded, ReadingsBounded
<1>. QED  BY <1>2, <1>3, <1>4 DEF UsageIInv, ChargesWhatWasPrinted

\* The entries stay, or another with no more pages than printed joins them.
LEMMA EntryAdded ==
    ASSUME entries \in Seq(Entry), ChargesWhatWasPrinted,
           NEW e \in Entry, e.exact /\ e.pages # None => e.pages <= e.printed, AddEntry(e)
    PROVE  entries' \in Seq(Entry) /\ ChargesWhatWasPrinted'
<1>1. /\ entries' \in Seq(Entry)
      /\ Len(entries') = Len(entries) + 1
      /\ \A i \in 1..Len(entries) : entries'[i] = entries[i]
      /\ entries'[Len(entries) + 1] = e
  BY AppendProperties DEF AddEntry
<1>2. Len(entries) \in Nat
  OBVIOUS
<1>3. DOMAIN entries' = 1..(Len(entries) + 1) /\ DOMAIN entries = 1..Len(entries)
  BY <1>1
<1>. QED  BY <1>1, <1>2, <1>3 DEF ChargesWhatWasPrinted

LEMMA EntryChanged ==
    ASSUME entries \in Seq(Entry), ChargesWhatWasPrinted,
           NEW i \in DOMAIN entries, NEW e \in Entry, entries' = [entries EXCEPT ![i] = e],
           e.exact = entries[i].exact, e.pages = entries[i].pages, e.printed = entries[i].printed
    PROVE  entries' \in Seq(Entry) /\ ChargesWhatWasPrinted'
<1>1. entries' \in Seq(Entry)
  OBVIOUS
<1>2. DOMAIN entries' = DOMAIN entries /\ \A j \in DOMAIN entries : entries'[j] = IF j = i THEN e ELSE entries[j]
  OBVIOUS
<1>. QED  BY <1>1, <1>2 DEF ChargesWhatWasPrinted

LEMMA EditKeepsCharges ==
    ASSUME entries \in Seq(Entry), ChargesWhatWasPrinted,
           \/ \E due \in Month : CreateEntry(due)
           \/ \E i \in DOMAIN entries : (\E due \in Month : MoveEntry(i, due)) \/ MarkPaid(i) \/ Cancel(i)
    PROVE  entries' \in Seq(Entry) /\ ChargesWhatWasPrinted'
<1>. Month \subseteq Nat
  BY BillingAssumption DEF Month
<1>1. ASSUME NEW due \in Month, CreateEntry(due)
      PROVE  entries' \in Seq(Entry) /\ ChargesWhatWasPrinted'
  <2>. DEFINE e == [month |-> 0, due |-> due, status |-> "PENDING", pages |-> None,
                    printed |-> 0, exact |-> TRUE, moved |-> FALSE]
  <2>1. e \in Entry /\ e.pages = None /\ AddEntry(e)
    BY <1>1 DEF Entry, CreateEntry
  <2>. HIDE DEF e
  <2>. QED  BY <2>1, EntryAdded
<1>2. ASSUME NEW i \in DOMAIN entries, NEW due \in Month, MoveEntry(i, due)
      PROVE  entries' \in Seq(Entry) /\ ChargesWhatWasPrinted'
  <2>. DEFINE e == Rescheduled(entries[i], due)
  <2>1. entries[i] \in Entry
    OBVIOUS
  <2>2. /\ e \in Entry /\ e.exact = entries[i].exact
        /\ e.pages = entries[i].pages /\ e.printed = entries[i].printed
    BY <2>1 DEF Entry, Rescheduled
  <2>3. entries' = [entries EXCEPT ![i] = e]
    BY <1>2 DEF MoveEntry
  <2>. HIDE DEF e
  <2>. QED  BY <2>2, <2>3, EntryChanged
<1>3. ASSUME NEW i \in DOMAIN entries, NEW status \in {"PAID", "CANCELLED"},
             entries' = [entries EXCEPT ![i] = Settled(entries[i], status)]
      PROVE  entries' \in Seq(Entry) /\ ChargesWhatWasPrinted'
  <2>. DEFINE e == Settled(entries[i], status)
  <2>1. entries[i] \in Entry
    OBVIOUS
  <2>2. /\ e \in Entry /\ e.exact = entries[i].exact
        /\ e.pages = entries[i].pages /\ e.printed = entries[i].printed
    BY <2>1 DEF Entry, Settled
  <2>3. entries' = [entries EXCEPT ![i] = e]
    BY <1>3
  <2>. HIDE DEF e
  <2>. QED  BY <2>2, <2>3, EntryChanged
<1>. QED  BY <1>1, <1>2, <1>3 DEF MarkPaid, Cancel

\* Facts about the variables' values that the arithmetic needs.
LEMMA Values ==
    ASSUME TypeOK
    PROVE  /\ now \in Int /\ printed \in Nat /\ counter \in Nat
           /\ StartCounter \in Nat /\ MaxPages \in Nat /\ None \notin Int
           /\ \A m \in 0..Months : printedBy[m] \in Nat /\ BillingDayOf(m) \in Int
           /\ \A r \in readings : r.at \in Int /\ r.total \in Nat /\ r.late \in BOOLEAN
<1>1. \A m \in 0..Months : BillingDayOf(m) \in Int
  <2>. TAKE m \in 0..Months
  <2>1. MonthStart[m] \in Int /\ BillingDay \in Int /\ Ticks \in Int
    BY BillingAssumption
  <2>2. (BillingDay - 1) * Ticks \in Int
    BY <2>1
  <2>. QED  BY <2>1, <2>2 DEF BillingDayOf
<1>2. Time \subseteq Int
  BY DEF Time
<1>3. \A r \in readings : r.at \in Int /\ r.total \in Nat /\ r.late \in BOOLEAN
  <2>1. readings \subseteq Reading
    BY DEF TypeOK
  <2>. QED  BY <1>2, <2>1 DEF Reading
<1>4. now \in Time /\ printed \in 0..MaxPages /\ counter \in 0..(StartCounter + MaxPages)
      /\ \A m \in 0..Months : printedBy[m] \in 0..MaxPages
  BY DEF TypeOK
<1>5. StartCounter \in Nat /\ MaxPages \in Nat /\ None \notin Int
  BY BillingAssumption
<1>. QED  BY <1>1, <1>2, <1>3, <1>4, <1>5

\* The charge of a run is for what two of the period's readings differ by.
LEMMA ChargeIsBounded ==
    ASSUME UsageIInv, CreateCharge
    PROVE  entries' \in Seq(Entry) /\ ChargesWhatWasPrinted'
<1>. DEFINE m == MonthOf(today) - 1
            e == [month |-> MonthOf(today), due |-> MonthOf(today), status |-> "PENDING",
                  pages |-> PagesUsed, printed |-> printed - printedBy[m], exact |-> InTime,
                  moved |-> FALSE]
<1>. USE BillingAssumption
<1>0. MonthOf(today) \in Month /\ today \in Time
  BY MonthOfTime DEF UsageIInv, TypeOK
<1>1. MonthOf(today) \in Month /\ MonthOf(today) \in Nat /\ m \in 0..Months
  BY <1>0 DEF Month
<1>2. /\ PeriodFrom \in Int /\ PeriodFrom = BillingDayOf(m) /\ today \in Int
      /\ readings \subseteq Reading
      /\ printed \in Nat /\ printedBy[m] \in Nat /\ printedBy[m] <= printed
  <2>. HIDE DEF m
  <2>1. MonthStart[m] \in Int /\ (BillingDay - 1) * Ticks \in Int
    BY <1>1
  <2>2. PeriodFrom = BillingDayOf(m)
    BY DEF PeriodFrom, m
  <2>3. PeriodFrom \in Int
    BY <2>1, <2>2 DEF BillingDayOf
  <2>4. today \in Int
    BY <1>0 DEF Time
  <2>5. /\ readings \subseteq Reading
        /\ printed \in Nat /\ printedBy[m] \in Nat /\ printedBy[m] <= printed
    BY <1>1, Values DEF UsageIInv, TypeOK, CountersBounded
  <2>. QED  BY <2>2, <2>3, <2>4, <2>5
<1>3. InTime \in BOOLEAN
  BY DEF InTime
<1>4. ASSUME PagesUsed # None
      PROVE  PagesUsed \in Nat /\ (InTime => PagesUsed <= printed - printedBy[m])
  <2>1. PICK r \in Within(readings, PeriodFrom, today), s \in Within(readings, PeriodFrom, today) :
            r.at <= s.at /\ PagesUsed = Usage(r.total, s.total)
    BY <1>2, <1>4, UsageIsOfTwoReadings DEF PagesUsed
  <2>2. /\ r \in readings /\ s \in readings /\ BillingDayOf(m) <= r.at
        /\ InTime => ~r.late /\ ~s.late
    BY <1>2 DEF Within, InTime
  <2>3. Usage(r.total, s.total) \in Nat
    BY <1>2, <2>2 DEF Reading, Usage
  <2>4. InTime => Usage(r.total, s.total) <= printed - printedBy[m]
    BY <1>1, <2>1, <2>2 DEF UsageIInv, ReadingsBounded
  <2>. QED  BY <2>1, <2>3, <2>4
<1>5. e \in Entry /\ (e.exact /\ e.pages # None => e.pages <= e.printed)
  <2>. HIDE DEF m
  <2>1. PagesUsed \in Nat \cup {None} /\ printed - printedBy[m] \in Nat
    BY <1>2, <1>4
  <2>. QED  BY <1>1, <1>3, <1>4, <2>1 DEF Entry
<1>6. AddEntry(e)
  BY DEF CreateCharge
<1>. HIDE DEF e
<1>. QED  BY <1>5, <1>6, EntryAdded DEF UsageIInv, TypeOK

LEMMA TickUsage == ASSUME UsageIInv, Tick PROVE UsageIInv'
<1>. USE DEF UsageIInv
<1>1. /\ now' = now + 1 /\ now' \in Time
      /\ printedBy' = [m \in 0..Months |-> IF BillingDayOf(m) = now' THEN printed ELSE printedBy[m]]
      /\ UNCHANGED <<printed, counter, delayed, readings, entries, pc, today, resets, edits, faults>>
  BY DEF Tick
<1>2. TypeOK'
  BY <1>1 DEF TypeOK
<1>3. \A m \in 0..Months : printedBy'[m] = IF BillingDayOf(m) = now' THEN printed ELSE printedBy[m]
  BY <1>1
<1>4. CountersBounded'
  BY <1>1, <1>3, Values DEF CountersBounded
<1>5. \A m \in 0..Months, r \in readings : BillingDayOf(m) <= r.at => printedBy'[m] = printedBy[m]
  BY <1>1, <1>3, Values DEF CountersBounded
<1>6. ReadingsBounded'
  BY <1>1, <1>5 DEF ReadingsBounded
<1>7. ChargesWhatWasPrinted'
  BY <1>1 DEF ChargesWhatWasPrinted
<1>. QED  BY <1>2, <1>4, <1>6, <1>7

LEMMA PrintUsage == ASSUME UsageIInv, PrintPage PROVE UsageIInv'
<1>. USE DEF UsageIInv
<1>1. /\ printed' = printed + 1 /\ printed < MaxPages /\ counter' = counter + 1
      /\ UNCHANGED <<now, delayed, readings, entries, pc, today, printedBy, resets, edits, faults>>
  BY DEF PrintPage
<1>2. printed' \in 0..MaxPages /\ counter' \in 0..(StartCounter + MaxPages)
  BY <1>1, Values DEF TypeOK, CountersBounded
<1>3. TypeOK'
  BY <1>1, <1>2 DEF TypeOK
<1>4. CountersBounded'
  BY <1>1, Values DEF CountersBounded
<1>5. ASSUME NEW m \in 0..Months, NEW r \in readings, ~r.late, BillingDayOf(m) <= r.at
      PROVE  /\ Usage(r.total, counter') <= printed' - printedBy[m]
             /\ \A s \in readings : ~s.late /\ r.at <= s.at =>
                     Usage(r.total, s.total) <= printed' - printedBy[m]
  <2>1. /\ Usage(r.total, counter) <= printed - printedBy[m]
        /\ \A s \in readings : ~s.late /\ r.at <= s.at =>
                Usage(r.total, s.total) <= printed - printedBy[m]
    BY <1>5 DEF ReadingsBounded
  <2>2. r.total \in Nat /\ counter \in Nat /\ printed \in Nat /\ printedBy[m] \in Nat
        /\ \A s \in readings : s.total \in Nat
    BY Values
  <2>. QED  BY <1>1, <2>1, <2>2 DEF Usage
<1>6. ReadingsBounded'
  BY <1>1, <1>5 DEF ReadingsBounded
<1>7. ChargesWhatWasPrinted'
  BY <1>1 DEF ChargesWhatWasPrinted
<1>. QED  BY <1>3, <1>4, <1>6, <1>7

LEMMA ResetUsage == ASSUME UsageIInv, ResetCounter PROVE UsageIInv'
<1>. USE DEF UsageIInv
<1>1. /\ resets < MaxResets /\ resets' = resets + 1 /\ counter' = 0
      /\ UNCHANGED <<now, printed, delayed, readings, entries, pc, today, printedBy, edits, faults>>
  BY DEF ResetCounter
<1>2. resets' \in 0..MaxResets /\ counter' \in 0..(StartCounter + MaxPages)
  <2>1. resets \in 0..MaxResets /\ MaxResets \in Nat
    BY BillingAssumption DEF TypeOK
  <2>. QED  BY <1>1, <2>1, Values
<1>3. TypeOK'
  BY <1>1, <1>2 DEF TypeOK
<1>4. CountersBounded'
  BY <1>1, Values DEF CountersBounded
<1>5. ASSUME NEW m \in 0..Months, NEW r \in readings PROVE Usage(r.total, 0) <= printed - printedBy[m]
  BY Values DEF CountersBounded, Usage
<1>6. ReadingsBounded'
  BY <1>1, <1>5 DEF ReadingsBounded
<1>7. ChargesWhatWasPrinted'
  BY <1>1 DEF ChargesWhatWasPrinted
<1>. QED  BY <1>3, <1>4, <1>6, <1>7

\* A reading that is recorded: the latest, with the counter's total if it is
\* not late.
LEMMA RecordUsage ==
    ASSUME UsageIInv, NEW total \in Nat, NEW late \in BOOLEAN, Record(total, late),
           ~late => total = counter, delayed' \in {delayed, None}
    PROVE  UsageIInv'
<1>. USE DEF UsageIInv
<1>. DEFINE new == [at |-> now, total |-> total, late |-> late]
<1>1. /\ readings' = readings \cup {new}
      /\ \A r \in readings : r.at < now
      /\ UNCHANGED <<now, printed, counter, entries, pc, today, printedBy, resets, edits, faults>>
  BY DEF Record
<1>2. new \in Reading
  BY DEF Reading, TypeOK
<1>3. TypeOK'
  BY <1>1, <1>2 DEF TypeOK
<1>4. new.at = now /\ new.total = total /\ new.late = late
  OBVIOUS
<1>. HIDE DEF new
<1>5. CountersBounded'
  BY <1>1, <1>4, Values DEF CountersBounded
<1>6. ASSUME NEW m \in 0..Months, NEW r \in readings', ~r.late, BillingDayOf(m) <= r.at
      PROVE  /\ Usage(r.total, counter) <= printed - printedBy[m]
             /\ \A s \in readings' : ~s.late /\ r.at <= s.at =>
                     Usage(r.total, s.total) <= printed - printedBy[m]
  <2>1. CASE r = new
    <3>1. Usage(r.total, counter) <= printed - printedBy[m]
      BY <2>1, <1>4, <1>6, Values DEF Usage, CountersBounded
    <3>2. ASSUME NEW s \in readings', ~s.late, r.at <= s.at PROVE s = new
      BY <1>1, <1>4, <2>1, <3>2, Values
    <3>3. ~new.late => new.total = counter
      BY <1>4
    <3>. QED  BY <2>1, <3>1, <3>2, <3>3
  <2>2. CASE r \in readings
    <3>1. /\ Usage(r.total, counter) <= printed - printedBy[m]
          /\ \A s \in readings : ~s.late /\ r.at <= s.at =>
                  Usage(r.total, s.total) <= printed - printedBy[m]
      BY <1>6, <2>2 DEF ReadingsBounded
    <3>2. ~new.late => new.total = counter
      BY <1>4
    <3>. QED  BY <1>1, <3>1, <3>2
  <2>. QED  BY <1>1, <2>1, <2>2
<1>7. ReadingsBounded'
  BY <1>1, <1>6 DEF ReadingsBounded
<1>8. ChargesWhatWasPrinted'
  BY <1>1 DEF ChargesWhatWasPrinted
<1>. QED  BY <1>3, <1>5, <1>7, <1>8

\* Steps that touch neither the printer nor the readings nor the clock.
LEMMA OtherUsage ==
    ASSUME UsageIInv, UNCHANGED <<now, printed, counter, readings, printedBy, resets>>,
           delayed' \in {delayed, counter}, today' \in {today, now}, pc' \in {"idle", "check", "create"},
           edits' \in 0..MaxEdits, faults' \in 0..MaxFaults,
           entries' \in Seq(Entry) /\ ChargesWhatWasPrinted'
    PROVE  UsageIInv'
<1>1. TypeOK'
  BY DEF UsageIInv, TypeOK
<1>2. CountersBounded' /\ ReadingsBounded'
  BY DEF UsageIInv, CountersBounded, ReadingsBounded
<1>. QED  BY <1>1, <1>2 DEF UsageIInv

LEMMA NextUsage == UsageIInv /\ [Next]_vars => UsageIInv'
<1>. SUFFICES ASSUME UsageIInv, [Next]_vars PROVE UsageIInv'
  OBVIOUS
<1>1. CASE Tick
  BY <1>1, TickUsage
<1>2. CASE PrintPage
  BY <1>2, PrintUsage
<1>3. CASE ResetCounter
  BY <1>3, ResetUsage
<1>4. CASE Collect \/ CollectDelayed
  <2>1. counter \in Nat /\ (delayed # None => delayed \in Nat)
    BY DEF UsageIInv, TypeOK
  <2>. QED  BY <1>4, <2>1, RecordUsage DEF Collect, CollectDelayed
<1>5. entries \in Seq(Entry) /\ ChargesWhatWasPrinted /\ pc \in {"idle", "check", "create"}
      /\ edits \in 0..MaxEdits /\ faults \in 0..MaxFaults
      /\ (edits < MaxEdits => edits + 1 \in 0..MaxEdits) /\ (faults < MaxFaults => faults + 1 \in 0..MaxFaults)
  <2>1. /\ entries \in Seq(Entry) /\ ChargesWhatWasPrinted /\ pc \in {"idle", "check", "create"}
        /\ edits \in 0..MaxEdits /\ faults \in 0..MaxFaults
    BY DEF UsageIInv, TypeOK
  <2>2. MaxEdits \in Nat /\ MaxFaults \in Nat
    BY BillingAssumption
  <2>. QED  BY <2>1, <2>2
<1>6. (UNCHANGED entries) => entries' \in Seq(Entry) /\ ChargesWhatWasPrinted'
  BY <1>5 DEF ChargesWhatWasPrinted
<1>7. CASE Delay \/ StartJob \/ SkipBilled \/ NotBilled \/ JobFails
  BY <1>5, <1>6, <1>7, OtherUsage DEF Delay, StartJob, SkipBilled, NotBilled, JobFails
<1>8. CASE (\E due \in Month : CreateEntry(due)) \/
           \E i \in DOMAIN entries : (\E due \in Month : MoveEntry(i, due)) \/ MarkPaid(i) \/ Cancel(i)
  <2>1. entries' \in Seq(Entry) /\ ChargesWhatWasPrinted'
    BY <1>5, <1>8, EditKeepsCharges
  <2>2. Edit
    BY <1>8 DEF CreateEntry, MoveEntry, MarkPaid, Cancel
  <2>. QED  BY <1>5, <2>1, <2>2, OtherUsage DEF Edit
<1>9. CASE CreateCharge
  <2>1. entries' \in Seq(Entry) /\ ChargesWhatWasPrinted'
    BY <1>9, ChargeIsBounded
  <2>. QED  BY <1>5, <1>9, <2>1, OtherUsage DEF CreateCharge
<1>10. CASE UNCHANGED vars
  BY <1>5, <1>6, <1>10, OtherUsage DEF vars
<1>. QED  BY <1>1, <1>2, <1>3, <1>4, <1>7, <1>8, <1>9, <1>10 DEF Next

\* Whatever the readings that are missing, the resets and the edits, a charge
\* whose readings came in time is for no more pages than were printed.
THEOREM NeverChargedForMore == Spec => []Consistent
<1>1. UsageIInv => Consistent
  BY DEF UsageIInv, Consistent
<1>. QED  BY InitUsage, NextUsage, <1>1, PTL DEF Spec
=============================================================================
