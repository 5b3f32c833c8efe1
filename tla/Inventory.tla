------------------------------ MODULE Inventory ------------------------------
(***************************************************************************)
(* The stock of one item: movements recorded by a user, and those a        *)
(* service order's part or a manual supply replacement takes it with.      *)
(* createMovement reads the quantity, and only then opens the transaction  *)
(* that inserts the movement and writes the quantity computed before.      *)
(***************************************************************************)
EXTENDS Integers, SequencesExt

CONSTANTS
    Requests,   \* HTTP requests under way at once
    Amounts,    \* quantities a user enters, at least 1
    Start,      \* the quantity the item was created with
    Quotas,     \* bound: how often each kind of event may happen, one function
                \* per mix of events that is explored
    Kinds,      \* the kinds of events
    None

ASSUME InventoryAssumption ==
    /\ Amounts \subseteq Nat \ {0}
    /\ Start \in Nat
    /\ {"stock", "part", "replace"} \subseteq Kinds
    /\ Quotas \subseteq [Kinds -> Nat]
    /\ None \notin Int

VARIABLES
    quantity,   \* InventoryItem.quantity, None once the item is deleted
    movements,  \* InventoryMovement rows in the order they are committed
    parts,      \* ServiceOrderPart rows taken from stock
    moving,     \* each request
    \* observation only
    raced,      \* another movement was committed between the last one's read and its commit
    quota       \* what may still happen

stockVars == <<quantity, movements, parts, moving, raced>>

MovementType == {"IN", "OUT", "ADJUSTMENT"}
Movement == [type : MovementType, amount : Amounts \cup {1}]
\* new: the quantity to write; seen: the movements there were at the read;
\* row: the request's own movement, by its place, once committed.
Moving == [step : {"idle", "commit", "part", "dismiss", "confirm"},
           kind : {"stock", "part", "replace"}, movement : Movement, new : Nat, seen : Nat, row : Nat]
Part == [movement : Nat, amount : Amounts]

StockTypeOK ==
    /\ quantity \in Nat \cup {None}
    /\ movements \in Seq(Movement)
    /\ parts \in Seq(Part)
    /\ moving \in [Requests -> Moving]
    /\ raced \in BOOLEAN
    /\ quota \in [Kinds -> Nat]

Idle == [step |-> "idle", kind |-> "stock", movement |-> [type |-> "IN", amount |-> 1],
         new |-> 0, seen |-> 0, row |-> 0]

StockInit ==
    /\ quantity = Start
    /\ movements = <<>>
    /\ parts = <<>>
    /\ moving = [r \in Requests |-> Idle]
    /\ raced = FALSE
    /\ quota \in Quotas

Spend(kind) ==
    /\ quota[kind] > 0
    /\ quota' = [quota EXCEPT ![kind] = @ - 1]

-----------------------------------------------------------------------------
\* Mutant: an adjustment is a delta as well.
AlwaysDelta(q, m) == IF m.type = "OUT" THEN q - m.amount ELSE q + m.amount

\* IN and OUT move by the amount, ADJUSTMENT sets it.
Moved(q, m) ==
    CASE m.type = "IN" -> q + m.amount
      [] m.type = "OUT" -> q - m.amount
      [] m.type = "ADJUSTMENT" -> m.amount

Enough(q, m) == Moved(q, m) >= 0

\* The item is read and the new quantity computed; too little stock is refused.
ReadItem(r, kind, m) ==
    /\ Spend(kind)
    /\ moving[r].step = "idle"
    /\ quantity # None
    /\ Enough(quantity, m)
    /\ moving' = [moving EXCEPT ![r] = [step |-> "commit", kind |-> kind, movement |-> m,
                                        new |-> Moved(quantity, m), seen |-> Len(movements), row |-> 0]]
    /\ UNCHANGED <<quantity, movements, parts, raced>>

CreateMovement(r) == \E m \in [type : MovementType, amount : Amounts] : ReadItem(r, "stock", m)
AddPart(r) == \E n \in Amounts : ReadItem(r, "part", [type |-> "OUT", amount |-> n])
TakeSupply(r) == ReadItem(r, "replace", [type |-> "OUT", amount |-> 1])

AfterMovement(kind) ==
    CASE kind = "stock" -> "idle" [] kind = "part" -> "part" [] kind = "replace" -> "dismiss"

\* The transaction: the row and the quantity as computed.  It fails without
\* the item, see RequestFails.  After an adjustment nothing earlier counts.
CommitMovement(r) ==
    LET m == moving[r].movement
    IN  /\ moving[r].step = "commit"
        /\ quantity # None
        /\ movements' = Append(movements, m)
        /\ quantity' = moving[r].new
        /\ moving' = [moving EXCEPT ![r].step = AfterMovement(moving[r].kind), ![r].row = Len(movements) + 1]
        /\ raced' = (m.type # "ADJUSTMENT" /\ (raced \/ moving[r].seen # Len(movements)))
        /\ UNCHANGED <<parts, quota>>

OwnMovement(r) == moving[r].row

CreatePart(r) ==
    /\ moving[r].step = "part"
    /\ parts' = Append(parts, [movement |-> OwnMovement(r), amount |-> moving[r].movement.amount])
    /\ moving' = [moving EXCEPT ![r] = Idle]
    /\ UNCHANGED <<quantity, movements, raced, quota>>

\* The part's row goes; its stock stays taken.
RemovePart(i) ==
    /\ Spend("part")
    /\ i \in DOMAIN parts
    /\ parts' = RemoveAt(parts, i)
    /\ UNCHANGED <<quantity, movements, moving, raced>>

\* Its movements go with the item.
RemoveItem ==
    /\ Spend("stock")
    /\ quantity # None
    /\ quantity' = None
    /\ movements' = <<>>
    /\ UNCHANGED <<parts, moving, raced>>

\* A statement throws; what was committed before stays.
RequestFails(r) ==
    /\ moving[r].step # "idle"
    /\ moving' = [moving EXCEPT ![r] = Idle]
    /\ UNCHANGED <<quantity, movements, parts, raced, quota>>

StockNext ==
    \/ \E r \in Requests :
        \/ CreateMovement(r) \/ AddPart(r) \/ TakeSupply(r) \/ CommitMovement(r)
        \/ CreatePart(r) \/ RequestFails(r)
    \/ \E i \in DOMAIN parts : RemovePart(i)
    \/ RemoveItem

-----------------------------------------------------------------------------
(* Properties.                                                             *)

\* The quantity the movements add up to, in the order of their commits.
Balance[i \in 0..Len(movements)] ==
    IF i = 0 THEN Start
    ELSE IF movements[i].type = "ADJUSTMENT" THEN movements[i].amount
    ELSE Balance[i - 1] + (IF movements[i].type = "IN" THEN 1 ELSE -1) * movements[i].amount

\* createMovement "records a stock movement and updates the running quantity
\* atomically": the quantity is what the movements add up to, unless one was
\* committed between another's read and commit; an adjustment mends that.
LedgerExact == quantity # None /\ ~raced => quantity = Balance[Len(movements)]

\* Every part of a service order was taken by a movement of its own, of as
\* much, whatever other requests took at the same time.
PartsTaken ==
    quantity # None =>
        /\ \A i \in DOMAIN parts :
            /\ parts[i].movement \in DOMAIN movements
            /\ movements[parts[i].movement] = [type |-> "OUT", amount |-> parts[i].amount]
        /\ \A i, j \in DOMAIN parts : parts[i].movement = parts[j].movement => i = j

\* The stock's books balance, and its tables are well formed.
StockConsistent == StockTypeOK /\ LedgerExact /\ PartsTaken
=============================================================================
