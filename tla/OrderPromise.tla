---------------------------- MODULE OrderPromise ----------------------------
(***************************************************************************)
(* What the settlement of orders promises, as if every handler were one    *)
(* atomic step: an order is billed as often as it is paid for, and it fails *)
(* at most once, from pending, giving back the places it names.            *)
(***************************************************************************)
EXTENDS Integers, Sequences

CONSTANTS
    Orders,         \* orders that have a checkout session
    Categories,     \* ticket categories
    LinesOf,        \* Orders -> the products in the metadata of the session
    InitialStock    \* Categories -> places left at the start

VARIABLES
    status,         \* status of each order
    stock,          \* places left in each category
    tickets         \* sets of tickets made for each order

vars == <<status, stock, tickets>>

\* Positions at which an order names a category.
Named(o, c) == {i \in DOMAIN LinesOf[o] : LinesOf[o][i].category = c}

\* A category that the order names once gets back what the line says.  One that
\* it names several times gets back at least one of the lines.
GivesBack(o, c, n) ==
    IF Named(o, c) = {} THEN n = 0
    ELSE \E i \in Named(o, c) :
            /\ n >= LinesOf[o][i].quantity
            /\ (\A j \in Named(o, c) : j = i) => n = LinesOf[o][i].quantity

Init ==
    /\ status = [o \in Orders |-> "pending"]
    /\ stock = InitialStock
    /\ tickets = [o \in Orders |-> 0]

Bill(o) ==
    /\ status' = [status EXCEPT ![o] = "completed"]
    /\ tickets' = [tickets EXCEPT ![o] = @ + 1]
    /\ UNCHANGED stock

Fail(o) ==
    /\ status[o] = "pending"
    /\ status' = [status EXCEPT ![o] = "failed"]
    /\ DOMAIN stock' = Categories
    /\ \A c \in Categories : GivesBack(o, c, stock'[c] - stock[c])
    /\ UNCHANGED tickets

Sell(c) ==
    /\ stock[c] > 0
    /\ stock' = [stock EXCEPT ![c] = @ - 1]
    /\ UNCHANGED <<status, tickets>>

Next ==
    \/ \E o \in Orders : Bill(o) \/ Fail(o)
    \/ \E c \in Categories : Sell(c)

Spec == Init /\ [][Next]_vars
=============================================================================
