------------------------------- MODULE Pricing -------------------------------
(***************************************************************************)
(* The pure functions billing is computed with (packages/shared).  A       *)
(* reading is a record with the fields at and total; a tier one with from, *)
(* to (None: no upper bound) and price.  Prices are in hundredths of a     *)
(* cent (the columns keep four decimals of a real), amounts in cents.      *)
(***************************************************************************)
EXTENDS Integers, FiniteSets, FiniteSetsExt

CONSTANT None

Within(readings, from, to) == {r \in readings : from <= r.at /\ r.at <= to}
Earliest(rs) == CHOOSE r \in rs : \A q \in rs : r.at <= q.at
Latest(rs) == CHOOSE r \in rs : \A q \in rs : q.at <= r.at

\* Mutant: the last reading, whatever the first.
LastTotal(readings, from, to) ==
    LET rs == Within(readings, from, to)
    IN  IF Cardinality(rs) < 2 THEN None ELSE Latest(rs).total

\* calculatePeriodUsage: last minus first; after a decrease, the last.
UsageBetween(readings, from, to) ==
    LET rs == Within(readings, from, to)
        first == Earliest(rs).total
        last == Latest(rs).total
    IN  IF Cardinality(rs) < 2 THEN None
        ELSE IF last < first THEN last ELSE last - first

Known(pages) == IF pages = None THEN 0 ELSE pages
LeastOf(a, b) == IF a <= b THEN a ELSE b

\* Math.round(pages * price * 100) / 100
Cents(pages, price) == (pages * price + 50) \div 100

\* Mutant: a page short in every tier.
PagesBelowTop(pages, tier) ==
    LET top == IF tier.to = None THEN pages ELSE LeastOf(pages, tier.to)
    IN  IF top < tier.from THEN 0 ELSE top - tier.from

PagesInTier(pages, tier) ==
    LET top == IF tier.to = None THEN pages ELSE LeastOf(pages, tier.to)
    IN  IF top < tier.from THEN 0 ELSE top - tier.from + 1

CalculateTieredBilling(pages, tiers) ==
    SumFunction([tier \in tiers |-> Cents(PagesInTier(pages, tier), tier.price)])

FranchiseOverage(pages, franchise, price) ==
    IF pages <= franchise THEN 0 ELSE Cents(pages - franchise, price)
=============================================================================
