--------------------------- MODULE MCReservation ---------------------------
(* Small instances of Reservation for TLC. *)
EXTENDS Reservation, TLC

CONSTANTS a, b, p1, p2, r1

Want(c, n) == [category |-> c, quantity |-> n]
Make(kind, tickets) == [kind |-> kind, tickets |-> tickets, register |-> NoRegister]
Row(n, price) == [quantity |-> n, price |-> price, hide |-> FALSE, version |-> 1]
TwoRows == a :> Row(2, 1) @@ b :> Row(2, 3)

\* Two customers buy two categories in opposite orders: stale reads, deadlocks,
\* and more wanted than there is.
Cross == p1 :> Make("order", <<Want(a, 1), Want(b, 1)>>)
      @@ p2 :> Make("order", <<Want(b, 1), Want(a, 2)>>)

\* The same category twice in one order, against a ticket.
Twice == p1 :> Make("order", <<Want(a, 1), Want(a, 1)>>)
      @@ p2 :> Make("ticket", <<Want(a, 1)>>)

\* A customer and an administrator's order.
Mixed == p1 :> Make("order", <<Want(a, 2)>>)
      @@ p2 :> Make("adminOrder", <<Want(b, 1), Want(a, 1)>>)

\* Orders without tickets, which the body allows.
Empty == p1 :> Make("order", <<>>) @@ p2 :> Make("adminOrder", <<>>)

\* Two requests with one registration.
Registered == p1 :> [Make("order", <<Want(a, 1)>>) EXCEPT !.register = r1]
           @@ p2 :> [Make("order", <<Want(b, 2)>>) EXCEPT !.register = r1]

\* Two customers want more of one category than there is.
Rivals == p1 :> Make("order", <<Want(a, 1)>>) @@ p2 :> Make("order", <<Want(a, 2)>>)

AllJobs == {Cross, Twice, Mixed, Empty, Registered, Rivals}
OrderJobs == {Cross, Rivals}

\* Reprice and restock a category, and hide it.
HideAndReprice == {"hide" :> TRUE @@ "price" :> 2 @@ "quantity" :> 1}
=============================================================================
