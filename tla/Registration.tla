---------------------------- MODULE Registration ----------------------------
(***************************************************************************)
(* Registrations, the orders made with them, and tickets after their sale:  *)
(* OrdersService and TicketService on the tables of Catalogue.  How an      *)
(* order takes its tickets from stock is Reservation; here createOrder      *)
(* succeeds or fails.                                                       *)
(***************************************************************************)
EXTENDS Catalogue

VARIABLES
    ordered,    \* concert and address of each order made with a registration
    mailed      \* tickets mailed: identifier and code, with a signature

registrationVars == <<ordered, mailed>>

\* register(): the address registers once for a concert.
Register(p) == Creates(p, "createRegister", "register") /\ UNCHANGED registrationVars

DeleteRegister(p) == Deletes(p, "deleteRegister", "register") /\ UNCHANGED registrationVars

Registration(p) == rows["register"][req[p].id]

\* The tests of createOrderByRegister, on one read of the registration and its
\* rule: open stands for is_active and valid_until.  The code is refused when
\* compare() finds it right.
MayOrder(p) ==
    /\ Registration(p) # Gone
    /\ Registration(p).rule # Null
    /\ rows["rule"][Registration(p).rule].open
    /\ ~req[p].right
    /\ Registration(p).concert = req[p].concert
    /\ ~Registration(p).used

\* Mutant: the registration is marked before there is an order.
CheckAndMark(p) ==
    /\ pc[p] = "createOrder"
    /\ IF MayOrder(p)
          THEN /\ rows' = [rows EXCEPT !["register"][req[p].id].used = TRUE]
               /\ GoTo(p, "order") /\ UNCHANGED requestVars
          ELSE Answer(p) /\ UNCHANGED rows
    /\ UNCHANGED <<lineup, born, made, mailVars, offered, used, registrationVars>>

CheckRegistration(p) ==
    /\ pc[p] = "createOrder"
    /\ IF MayOrder(p) THEN GoTo(p, "order") /\ UNCHANGED requestVars ELSE Answer(p)
    /\ UNCHANGED <<tableVars, mailVars, offered, used, registrationVars>>

\* createOrder: the order and its line, in a transaction.
PlaceOrder(p) ==
    LET o == NextId("order")
        l == NextId("orderLine")
        order == [register |-> req[p].id]
        line  == [order |-> o, category |-> req[p].category]
    IN  /\ pc[p] = "order"
        /\ ~(Ids \subseteq born["order"]) /\ ~(Ids \subseteq born["orderLine"])
        /\ Allowed("order", o, order)
        /\ Found("category", line.category)
        /\ rows' = [rows EXCEPT !["order"][o] = order, !["orderLine"][l] = line]
        /\ born' = [born EXCEPT !["order"] = @ \cup {o}, !["orderLine"] = @ \cup {l}]
        /\ ordered' = ordered \cup {<<Registration(p).concert, Registration(p).name>>}
        /\ GoTo(p, "markUsed")
        /\ UNCHANGED <<lineup, made, mailVars, requestVars, offered, used, mailed>>

\* No ticket left, no such category, or a constraint.
OrderFails(p) ==
    /\ pc[p] = "order"
    /\ Answer(p)
    /\ UNCHANGED <<tableVars, mailVars, offered, used, registrationVars>>

\* Nobody awaits this update.
MarkUsed(p) ==
    /\ pc[p] = "markUsed"
    /\ rows' = IF Registration(p) # Gone
                  THEN [rows EXCEPT !["register"][req[p].id].used = TRUE] ELSE rows
    /\ Answer(p)
    /\ UNCHANGED <<lineup, born, made, mailVars, offered, used, registrationVars>>

-----------------------------------------------------------------------------
(* Tickets                                                                   *)

\* createTicket on a category with tickets left.
CreateTicket(p) ==
    /\ pc[p] = "createTicket"
    /\ ~(Codes \subseteq made)
    /\ Inserts(p, "ticket", [req[p].body EXCEPT !.code = NextCode])
    /\ made' = made \cup {NextCode}
    /\ UNCHANGED registrationVars

\* Mutant: an updated ticket gets a new code.
UpdateTicketCode(p) ==
    LET i == req[p].id
    IN  /\ pc[p] = "updateTicket"
        /\ rows' = IF rows["ticket"][i] # Gone
                      THEN [rows EXCEPT !["ticket"][i].code = NextCode] ELSE rows
        /\ made' = made \cup {NextCode}
        /\ Answer(p)
        /\ UNCHANGED <<lineup, born, mailVars, offered, used, registrationVars>>

\* The body goes to update() as it came: also a code, which UpdateTicketDto has
\* not and the pipe lets through.
UpdateTicket(p) == Updates(p, "updateTicket", "ticket") /\ UNCHANGED registrationVars

DeleteTicket(p) == Deletes(p, "deleteTicket", "ticket") /\ UNCHANGED registrationVars

CreateCategory(p) ==
    Creates(p, "createTicketCategory", "category") /\ UNCHANGED registrationVars
DeleteCategory(p) ==
    Deletes(p, "deleteTicketCategory", "category") /\ UNCHANGED registrationVars

\* sendOrderTickets mails every ticket of the order, its code signed.
SendTickets(p) ==
    LET lines == {l \in Ids : /\ rows["orderTicket"][l] # Gone
                              /\ rows["orderTicket"][l].order = req[p].id}
        tickets == {rows["orderTicket"][l].ticket : l \in lines}
    IN  /\ pc[p] = "sendOrderTicketsEmail"
        /\ mailed' = mailed \cup {[id |-> t, code |-> rows["ticket"][t].code] : t \in tickets}
        /\ Answer(p)
        /\ UNCHANGED <<tableVars, mailVars, offered, used, ordered>>

\* scanTicket on a mailed ticket: the signature is right.  Neither is_used nor
\* the dates are looked at, and nothing is written.
AcceptsTicket(m) == rows["ticket"][m.id] # Gone /\ rows["ticket"][m.id].code = m.code

-----------------------------------------------------------------------------
RegistrationInit == ordered = {} /\ mailed = {}

RegistrationStep(p) ==
    \/ Register(p) \/ DeleteRegister(p) \/ CheckRegistration(p) \/ PlaceOrder(p)
    \/ OrderFails(p) \/ MarkUsed(p) \/ CreateTicket(p) \/ UpdateTicket(p)
    \/ DeleteTicket(p) \/ CreateCategory(p) \/ DeleteCategory(p) \/ SendTickets(p)

-----------------------------------------------------------------------------
(* Properties                                                                *)

Orders == {o \in Ids : rows["order"][o] # Gone /\ rows["order"][o].register # Null}

\* An address gets one order for a concert, whatever requests overlap: also
\* when it deletes its registration, which everybody may, and registers again,
\* and when the update that marks the registration is lost.
OneOrderPerAddress == Cardinality(ordered) = Cardinality(Orders)

\* A registration is marked used only when its order exists.
UsedMeansOrdered ==
    \A i \in Ids :
        rows["register"][i] # Gone /\ rows["register"][i].used =>
            \E o \in Orders : rows["order"][o].register = i
=============================================================================
