------------------------------ MODULE Closings ------------------------------
(***************************************************************************)
(* The monthly closings of one customer with one contract.  A closing is   *)
(* generated in several statements (look for a FROZEN one, read the        *)
(* contract, read each printer's counters, write) while users freeze,      *)
(* unfreeze and generate it again, edit the contract and readjust its fee, *)
(* and the printers go on printing.                                        *)
(*                                                                         *)
(* Each printer has one counter of billed pages.  The fee is written as    *)
(* the readjustments it was raised by since a user last set it.  Fixed     *)
(* costs, which are only added up, and the document's number are left out. *)
(***************************************************************************)
EXTENDS Pricing, Sequences

CONSTANTS
    Printers,
    Generators,     \* requests to generate a closing
    Appliers,       \* requests to apply a readjustment
    Readjustments,
    Tiers,          \* the price brackets a user may enter
    Franchises,     \* the franchises a user may enter, in pages
    Price,          \* price of a page: contract printer's, else contract's
    OveragePrice,
    Months,         \* bound: months 1..Months
    MonthStart,     \* first tick of each month and of the one after
    Quotas          \* bound: how often each kind of event may happen, one
                    \* function per mix of events that is explored

Kinds == {"print", "read", "fault", "edit", "fee", "closing"}
Month == 1..Months
Time == MonthStart[1]..MonthStart[Months + 1]

ASSUME ClosingsAssumption ==
    /\ IsFiniteSet(Printers) /\ IsFiniteSet(Tiers)
    /\ Months \in Nat \ {0}
    /\ MonthStart \in [1..(Months + 1) -> Int]
    /\ \A m \in Month : MonthStart[m] < MonthStart[m + 1]
    /\ {Price, OveragePrice} \subseteq Nat
    /\ Quotas \subseteq [Kinds -> Nat]
    /\ Franchises \subseteq Nat
    /\ \A t \in Tiers : t.from \in Nat /\ t.to \in Nat \cup {None} /\ t.price \in Nat
    /\ None \notin Int \cup Month \cup Readjustments

VARIABLES
    now,
    \* the printers and the Agent
    printed,       \* pages each has printed in its life
    counter,       \* what its counter says
    delayed,       \* its reading in the offline queue, or None
    \* the database
    readings,      \* CounterReading rows of each printer
    contract,
    closings,      \* the MonthlyClosing of each month, or None
    adjustments,   \* the status of each ContractReadjustment
    \* requests under way
    generating,
    applying,
    \* observation only
    freezes,       \* how many times each month was frozen
    applied,       \* readjustments marked APPLIED since the fee was set
    torn,          \* two writers of the fee overlapped, or one failed half way
    quota          \* what may still happen

printerVars == <<now, printed, counter, delayed, readings>>
feeVars == <<adjustments, applying, applied, torn>>
closingVars == <<closings, generating, freezes>>
vars == <<printerVars, contract, feeVars, closingVars, quota>>

Reading == [at : Time, total : Nat, late : BOOLEAN]
Pages == [Printers -> Nat \cup {None}]
Contract == [active : BOOLEAN, printers : SUBSET Printers, tiers : SUBSET Tiers,
             franchise : Franchises, fee : Seq(Readjustments)]
\* terms: the contract as read, None if it was not ACTIVE; exact: no late
\* reading took part.
Closing == [status : {"PENDING", "FROZEN"}, terms : Contract \cup {None},
            pages : Pages, amount : Int, exact : BOOLEAN]
\* freezes: what it was when the request looked for a FROZEN closing.
Generate == [step : {"idle", "contract", "readings", "write"}, month : Month \cup {None},
             freezes : Nat, terms : Contract \cup {None}, left : SUBSET Printers,
             pages : Pages, exact : BOOLEAN]
Apply == [step : {"idle", "fee", "mark"}, id : Readjustments \cup {None},
          fee : Seq(Readjustments), now : BOOLEAN]

NoPages == [p \in Printers |-> None]
NoGenerate == [step |-> "idle", month |-> None, freezes |-> 0, terms |-> None, left |-> {},
               pages |-> NoPages, exact |-> TRUE]
NoApply == [step |-> "idle", id |-> None, fee |-> <<>>, now |-> FALSE]

TypeOK ==
    /\ now \in Time
    /\ printed \in [Printers -> Nat]
    /\ counter \in [Printers -> Nat]
    /\ delayed \in [Printers -> Nat \cup {None}]
    /\ readings \in [Printers -> SUBSET Reading]
    /\ contract \in Contract
    /\ closings \in [Month -> Closing \cup {None}]
    /\ adjustments \in [Readjustments -> {"none", "SCHEDULED", "APPLIED"}]
    /\ generating \in [Generators -> Generate]
    /\ applying \in [Appliers -> Apply]
    /\ freezes \in [Month -> Nat]
    /\ applied \in Seq(Readjustments)
    /\ torn \in BOOLEAN
    /\ quota \in [Kinds -> Nat]

Init ==
    /\ now = MonthStart[1]
    /\ printed = [p \in Printers |-> 0]
    /\ counter = [p \in Printers |-> 0]
    /\ delayed = [p \in Printers |-> None]
    /\ readings = [p \in Printers |-> {}]
    /\ contract \in [active : {TRUE}, printers : {Printers}, tiers : {{}, Tiers},
                     franchise : Franchises, fee : {<<>>}]
    /\ closings = [m \in Month |-> None]
    /\ adjustments = [a \in Readjustments |-> "none"]
    /\ generating = [g \in Generators |-> NoGenerate]
    /\ applying = [a \in Appliers |-> NoApply]
    /\ freezes = [m \in Month |-> 0]
    /\ applied = <<>>
    /\ torn = FALSE
    /\ quota \in Quotas

-----------------------------------------------------------------------------
(* Time, the printers and the Agent.                                       *)

Spend(kind) ==
    /\ quota[kind] > 0
    /\ quota' = [quota EXCEPT ![kind] = @ - 1]

Tick ==
    /\ now + 1 \in Time
    /\ now' = now + 1
    /\ UNCHANGED <<printed, counter, delayed, readings, contract, feeVars, closingVars, quota>>

PrintPage(p) ==
    /\ Spend("print")
    /\ printed' = [printed EXCEPT ![p] = @ + 1]
    /\ counter' = [counter EXCEPT ![p] = @ + 1]
    /\ UNCHANGED <<now, delayed, readings, contract, feeVars, closingVars>>

ResetCounter(p) ==
    /\ Spend("fault")
    /\ counter' = [counter EXCEPT ![p] = 0]
    /\ UNCHANGED <<now, printed, delayed, readings, contract, feeVars, closingVars>>

\* A reading is dated by its insertion; one per printer and tick.
Record(p, total, late) ==
    /\ Spend("read")
    /\ \A r \in readings[p] : r.at < now
    /\ readings' = [readings EXCEPT ![p] = @ \cup {[at |-> now, total |-> total, late |-> late]}]
    /\ UNCHANGED <<now, printed, counter, contract, feeVars, closingVars>>

Collect(p) == Record(p, counter[p], FALSE) /\ UNCHANGED delayed

Delay(p) ==
    /\ Spend("fault")
    /\ delayed[p] = None
    /\ delayed' = [delayed EXCEPT ![p] = counter[p]]
    /\ UNCHANGED <<now, printed, counter, readings, contract, feeVars, closingVars>>

CollectDelayed(p) ==
    /\ delayed[p] # None
    /\ Record(p, delayed[p], TRUE)
    /\ delayed' = [delayed EXCEPT ![p] = None]

-----------------------------------------------------------------------------
(* Users edit the contract.                                                *)

Edit(c) ==
    /\ Spend("edit")
    /\ c # contract
    /\ contract' = c
    /\ UNCHANGED <<printerVars, feeVars, closingVars>>

SetStatus == Edit([contract EXCEPT !.active = ~@])
SetFranchise(n) == Edit([contract EXCEPT !.franchise = n])

\* A contract printer, unique per contract; its customer was checked.
AddPrinter(p) == Edit([contract EXCEPT !.printers = @ \cup {p}])
RemovePrinter(p) == Edit([contract EXCEPT !.printers = @ \ {p}])
AddPricingTier(t) == Edit([contract EXCEPT !.tiers = @ \cup {t}])
RemovePricingTier(t) == Edit([contract EXCEPT !.tiers = @ \ {t}])

\* PATCH with a monthlyFee: a new base for the readjustments to come.
SetFee ==
    /\ Spend("fee")
    /\ contract' = [contract EXCEPT !.fee = <<>>]
    /\ applied' = <<>>
    /\ torn' = (torn \/ \E a \in Appliers : applying[a].step # "idle")
    /\ UNCHANGED <<printerVars, adjustments, applying, closingVars>>

-----------------------------------------------------------------------------
(* Readjustments of the fee.                                               *)

CreateReadjustment(id) ==
    /\ Spend("fee")
    /\ adjustments[id] = "none"
    /\ adjustments' = [adjustments EXCEPT ![id] = "SCHEDULED"]
    /\ UNCHANGED <<printerVars, contract, applying, applied, torn, closingVars>>

\* Mutant: an applied readjustment can be applied again.
MayApplyAgain(id, now_) == (adjustments[id] = "none") = now_

\* applyReadjustment needs a SCHEDULED row; with applyNow there is none yet.
MayApply(id, now_) == adjustments[id] = IF now_ THEN "none" ELSE "SCHEDULED"

\* The contract, its fee with it, and the readjustment are read.
StartApply(a, id, now_) ==
    /\ Spend("fee")
    /\ applying[a].step = "idle"
    /\ MayApply(id, now_)
    /\ applying' = [applying EXCEPT ![a] = [step |-> "fee", id |-> id, fee |-> contract.fee, now |-> now_]]
    /\ torn' = (torn \/ \E b \in Appliers : applying[b].step # "idle")
    /\ UNCHANGED <<printerVars, contract, adjustments, applied, closingVars>>

\* The fee read, raised, is written whatever the fee is now.
WriteFee(a) ==
    /\ applying[a].step = "fee"
    /\ contract' = [contract EXCEPT !.fee = Append(applying[a].fee, applying[a].id)]
    /\ applying' = [applying EXCEPT ![a].step = "mark"]
    /\ UNCHANGED <<printerVars, adjustments, applied, torn, closingVars, quota>>

\* The row is updated, or created, as APPLIED.
MarkApplied(a) ==
    /\ applying[a].step = "mark"
    /\ adjustments' = [adjustments EXCEPT ![applying[a].id] = "APPLIED"]
    /\ applied' = Append(applied, applying[a].id)
    /\ applying' = [applying EXCEPT ![a] = NoApply]
    /\ UNCHANGED <<printerVars, contract, torn, closingVars, quota>>

\* A statement fails; no transaction takes the fee back.
ApplyFails(a) ==
    /\ applying[a].step # "idle"
    /\ torn' = (torn \/ applying[a].step = "mark")
    /\ applying' = [applying EXCEPT ![a] = NoApply]
    /\ UNCHANGED <<printerVars, contract, adjustments, applied, closingVars, quota>>

-----------------------------------------------------------------------------
(* Closings.                                                               *)

Frozen(m) == closings[m] # None /\ closings[m].status = "FROZEN"

\* Mutant: a frozen closing is generated again.
MayAlwaysGenerate(m) == TRUE

MayGenerate(m) == ~Frozen(m)

StartGenerate(g, m) ==
    /\ Spend("closing")
    /\ generating[g].step = "idle"
    /\ MayGenerate(m)
    /\ generating' = [generating EXCEPT ![g] =
                        [NoGenerate EXCEPT !.step = "contract", !.month = m, !.freezes = freezes[m]]]
    /\ UNCHANGED <<printerVars, contract, feeVars, closings, freezes>>

\* The ACTIVE contract with its tiers and printers, in one statement.
ReadContract(g) ==
    /\ generating[g].step = "contract"
    /\ generating' =
         IF contract.active
         THEN [generating EXCEPT ![g].step = "readings", ![g].terms = contract, ![g].left = contract.printers]
         ELSE [generating EXCEPT ![g].step = "write"]
    /\ UNCHANGED <<printerVars, contract, feeVars, closings, freezes, quota>>

From(m) == MonthStart[m]
To(m) == MonthStart[m + 1]

\* The readings of one printer after the other, both ends of the month included.
ReadReadings(g, p) ==
    LET gen == generating[g]
        rs == Within(readings[p], From(gen.month), To(gen.month))
    IN  /\ gen.step = "readings"
        /\ p \in gen.left
        /\ generating' = [generating EXCEPT
                            ![g].left = @ \ {p},
                            ![g].pages[p] = UsageBetween(readings[p], From(gen.month), To(gen.month)),
                            ![g].exact = @ /\ \A r \in rs : ~r.late]
        /\ UNCHANGED <<printerVars, contract, feeVars, closings, freezes, quota>>

ReadingsDone(g) ==
    /\ generating[g].step = "readings"
    /\ generating[g].left = {}
    /\ generating' = [generating EXCEPT ![g].step = "write"]
    /\ UNCHANGED <<printerVars, contract, feeVars, closings, freezes, quota>>

TotalPages(pages) == SumFunction([p \in Printers |-> Known(pages[p])])

\* computeContractPageCost: tiers before franchise before a price per page,
\* which is rounded per printer.  Without any data the first two charge 0.
ComputeContractPageCost(terms, pages) ==
    CASE terms = None -> 0
      [] terms # None /\ terms.tiers # {} -> CalculateTieredBilling(TotalPages(pages), terms.tiers)
      [] terms # None /\ terms.tiers = {} /\ terms.franchise > 0 ->
            FranchiseOverage(TotalPages(pages), terms.franchise, OveragePrice)
      [] OTHER -> SumFunction([p \in Printers |-> Cents(Known(pages[p]), Price)])

\* The upsert: PENDING again, frozenAt cleared, whatever the row is now.
WriteClosing(g) ==
    LET gen == generating[g]
    IN  /\ gen.step = "write"
        /\ closings' = [closings EXCEPT ![gen.month] =
                [status |-> "PENDING", terms |-> gen.terms, pages |-> gen.pages,
                 amount |-> ComputeContractPageCost(gen.terms, gen.pages), exact |-> gen.exact]]
        /\ generating' = [generating EXCEPT ![g] = NoGenerate]
        /\ UNCHANGED <<printerVars, contract, feeVars, freezes, quota>>

Freeze(m) ==
    /\ Spend("closing")
    /\ closings[m] # None
    /\ ~Frozen(m)
    /\ closings' = [closings EXCEPT ![m].status = "FROZEN"]
    /\ freezes' = [freezes EXCEPT ![m] = @ + 1]
    /\ UNCHANGED <<printerVars, contract, feeVars, generating>>

Unfreeze(m) ==
    /\ Spend("closing")
    /\ closings[m] # None
    /\ closings' = [closings EXCEPT ![m].status = "PENDING"]
    /\ UNCHANGED <<printerVars, contract, feeVars, generating, freezes>>

-----------------------------------------------------------------------------
Next ==
    \/ Tick
    \/ \E p \in Printers :
        \/ PrintPage(p) \/ ResetCounter(p) \/ Collect(p) \/ Delay(p) \/ CollectDelayed(p)
        \/ AddPrinter(p) \/ RemovePrinter(p)
    \/ SetStatus \/ SetFee
    \/ \E n \in Franchises : SetFranchise(n)
    \/ \E t \in Tiers : AddPricingTier(t) \/ RemovePricingTier(t)
    \/ \E id \in Readjustments : CreateReadjustment(id)
    \/ \E a \in Appliers, id \in Readjustments, now_ \in BOOLEAN : StartApply(a, id, now_)
    \/ \E a \in Appliers : WriteFee(a) \/ MarkApplied(a) \/ ApplyFails(a)
    \/ \E g \in Generators, m \in Month : StartGenerate(g, m)
    \/ \E g \in Generators : ReadContract(g) \/ ReadingsDone(g) \/ WriteClosing(g)
    \/ \E g \in Generators, p \in Printers : ReadReadings(g, p)
    \/ \E m \in Month : Freeze(m) \/ Unfreeze(m)

Spec == Init /\ [][Next]_vars

-----------------------------------------------------------------------------
(* Properties.                                                             *)

ExactPages(m, p) ==
    IF closings[m] # None /\ closings[m].exact THEN Known(closings[m].pages[p]) ELSE 0

\* Whatever is generated and when, before or after the month's end, with or
\* without resets, the closings of all the months together are for no more
\* pages than the printer printed: two months share one reading at most.
NeverOvercharged ==
    \A p \in Printers :
        SumFunction([m \in Month |-> ExactPages(m, p)]) <= printed[p]

\* What page number i of the month costs by the terms read.
PriceOf(terms, i) ==
    IF terms.tiers # {}
    THEN SumFunction([t \in terms.tiers |->
                        IF t.from <= i /\ (t.to = None \/ i <= t.to) THEN t.price ELSE 0])
    ELSE IF terms.franchise > 0 THEN IF i > terms.franchise THEN OveragePrice ELSE 0
    ELSE Price

\* The schema: pages within [fromPage, toPage] are billed at that bracket's
\* price.  The amount is the sum of the prices of the pages used, but for
\* half a cent of rounding per tier or printer.  (A bracket that starts at
\* page 0, which the DTO lets through, is charged for a page more.)
FromPageOne(terms) == \A t \in terms.tiers : t.from >= 1
PagesChargedAsPriced ==
    \A m \in Month : closings[m] # None /\ closings[m].terms # None /\ FromPageOne(closings[m].terms) =>
        LET c == closings[m]
            priced == SumFunction([i \in 1..TotalPages(c.pages) |-> PriceOf(c.terms, i)])
            slack == 50 * (Cardinality(c.terms.tiers) + Cardinality(Printers))
        IN  c.amount * 100 - priced \in (-slack)..slack
Consistent == TypeOK /\ PagesChargedAsPriced

\* generate "refuses to overwrite a FROZEN closing": the figures of a frozen
\* closing change only if the request looked before it was frozen.
Overtaken(g, m) ==
    /\ generating[g].step = "write"
    /\ generating[g].month = m
    /\ generating[g].freezes < freezes[m]
FrozenKept(m) ==
    Frozen(m) =>
        \/ closings'[m] = closings[m]
        \/ closings'[m] = [closings[m] EXCEPT !.status = "PENDING"]
        \/ \E g \in Generators : Overtaken(g, m)
FrozenIsKept == [][\A m \in Month : FrozenKept(m)]_vars

\* A readjustment "already applied" is refused: unless two writers of the fee
\* overlapped or one failed half way, the fee was raised once by each
\* readjustment marked APPLIED, and by no other.
RaisedOnce ==
    ~torn =>
        /\ \A i, j \in DOMAIN contract.fee : contract.fee[i] = contract.fee[j] => i = j
        /\ (\A a \in Appliers : applying[a].step # "mark") => contract.fee = applied
=============================================================================
