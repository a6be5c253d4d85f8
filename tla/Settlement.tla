----------------------------- MODULE Settlement -----------------------------
(***************************************************************************)
(* What becomes of an order after its checkout session was made: the       *)
(* customer pays, fails to pay or cancels at Stripe; StripeService          *)
(* .webhookStripe saves payments and emits payment-billed and               *)
(* payment-failed; OrdersService.handleOrderBilled and handleOrderFailed    *)
(* make tickets or give the places back, one action per statement the       *)
(* database sees; sendTicketOrderToMailer looks for the tickets.            *)
(*                                                                         *)
(* Webhooks arrive at least once and in any order.  Messages are consumed   *)
(* without acknowledgement by any number of concurrent handlers: at most    *)
(* once, and in any order.                                                  *)
(*                                                                         *)
(* createCheckoutSession writes the order and its products to the metadata  *)
(* of the session.  The events of a failure carry the payment intent, whose *)
(* metadata it leaves empty: Annotated is {} in what the code does, and an  *)
(* order is in Annotated only if somebody fills the intent's metadata at    *)
(* Stripe.  Everything handleOrderFailed does to the database needs it.     *)
(***************************************************************************)
EXTENDS TicketRows, Sequences, FiniteSets, Functions

CONSTANTS
    Orders,         \* orders that have a checkout session
    Categories,     \* ticket categories
    LinesOf,        \* Orders -> the products in the metadata of the session
    ByRegister,     \* the orders made with a registration: they have no user
    InitialRow,     \* Categories -> the row at the start
    Handlers,       \* bound: event handlers running at a time
    MaxAttempts,    \* bound: failed attempts to pay
    MaxSales,       \* bound: tickets sold by others meanwhile
    Faults,         \* faults that may happen, each once: a subset of FaultKinds
    MaxFaults,      \* bound: faults in one behaviour
    Annotated,      \* orders whose payment intent has the session's metadata
    Free,           \* no holder of a row lock
    NoOrder,        \* the order of a message made from empty metadata
    NoMessage       \* what an idle handler handles

FaultKinds ==
    {"duplicate",   \* Stripe delivers an event once more
     "gateway",     \* the gateway dies
     "lost",        \* a message is lost
     "api",         \* the API process dies
     "db",          \* a statement fails
     "early"}       \* the mail reads the tickets before they are committed

\* A line of the metadata; Stripe refuses a session without one.
Lines == [category: Categories, quantity: Nat \ {0}]

\* The webhook events that are handled, and the messages they become.
Event   == [kind: {"completed", "failed", "canceled"}, order: Orders, n: Nat]
Message == [kind: {"billed", "failed", "canceled"}, order: Orders, id: Nat \ {0}]

\* Messages without order and products, and all that may be sent.
Unreadable == [kind: {"failed", "canceled"}, order: {NoOrder}, id: Nat \ {0}]
Sent == Message \cup Unreadable

ASSUME ConstantsAssumption ==
    /\ LinesOf \in [Orders -> Seq(Lines) \ {<<>>}]
    /\ ByRegister \subseteq Orders
    /\ Annotated \subseteq Orders
    /\ NoOrder \notin Orders
    /\ InitialRow \in [Categories -> TicketCategory]
    /\ \A c \in Categories : InitialRow[c].quantity >= 0
    /\ MaxAttempts \in Nat
    /\ MaxSales \in Nat
    /\ Faults \subseteq FaultKinds
    /\ MaxFaults \in Nat
    /\ Free \notin Handlers
    /\ NoMessage \notin Sent

VARIABLES
    session,    \* checkout session of each order at Stripe
    attempts,   \* failed attempts to pay so far
    events,     \* events for which Stripe has no successful answer yet
    payments,   \* payment rows of the gateway: the order of each
    webhooks,   \* payments that a webhook has saved and not emitted yet
    notices,    \* payment-failed messages so far
    queue,      \* messages on their way to the API
    status,     \* committed status of each order
    statusDirty,\* its latest version, committed or not
    orderLock,  \* who holds the lock of the order row
    row,        \* committed ticket_category rows
    dirty,      \* their latest version
    lock,       \* who holds their locks
    pc,         \* next step of each handler
    msg,        \* the message it handles
    entities,   \* ticketCategories: what it read of each line
    changed,    \* the columns the save of each line will set
    line,       \* the line it saves next
    ticketSets, \* committed tickets: the payment each set was made for
    releases,   \* committed releases: the order and the notice
    invoices,   \* payments for which an invoice was sent
    mails,      \* runs of sendTicketOrderToMailer under way
    sales,      \* tickets sold by others
    happened    \* faults that happened

stripeVars  == <<session, attempts, events>>
gatewayVars == <<payments, webhooks, notices>>
orderVars   == <<status, statusDirty, orderLock>>
rowVars     == <<row, dirty, lock>>
handlerVars == <<pc, msg, entities, changed, line>>
doneVars    == <<ticketSets, releases>>
mailVars    == <<invoices, mails>>
vars == <<stripeVars, gatewayVars, queue, orderVars, rowVars, handlerVars, doneVars,
          mailVars, sales, happened>>

-----------------------------------------------------------------------------
Status == {"pending", "completed", "failed"}
InTransaction ==
    {"complete", "invoice", "order", "status", "read", "diff", "save", "commit"}

StripeType ==
    /\ session \in [Orders -> {"open", "paid", "canceled"}]
    /\ attempts \in 0..MaxAttempts
    /\ events \subseteq Event

GatewayType ==
    /\ payments \in Seq(Orders)
    /\ webhooks \subseteq DOMAIN payments
    /\ notices \in Nat
    /\ queue \subseteq Sent

RowsType ==
    /\ status \in [Orders -> Status]
    /\ statusDirty \in [Orders -> Status]
    /\ orderLock \in [Orders -> Handlers \cup {Free}]
    /\ row \in [Categories -> TicketCategory]
    /\ dirty \in [Categories -> TicketCategory]
    /\ lock \in [Categories -> Handlers \cup {Free}]

HandlersType ==
    /\ pc \in [Handlers -> InTransaction \cup {"idle"}]
    /\ msg \in [Handlers -> Message \cup {NoMessage}]
    /\ entities \in [Handlers -> Seq(TicketCategory)]
    /\ changed \in [Handlers -> Seq(SUBSET Columns)]
    /\ line \in [Handlers -> Nat \ {0}]

EffectsType ==
    /\ ticketSets \in Seq(Nat \ {0})
    /\ releases \in Seq([order: Orders, id: Nat \ {0}])
    /\ invoices \subseteq Nat \ {0}
    /\ mails \in [Orders -> Nat]
    /\ sales \in 0..MaxSales
    /\ happened \subseteq Faults

TypeOK == StripeType /\ GatewayType /\ RowsType /\ HandlersType /\ EffectsType

Init ==
    /\ session = [o \in Orders |-> "open"]
    /\ attempts = 0
    /\ events = {}
    /\ payments = <<>>
    /\ webhooks = {}
    /\ notices = 0
    /\ queue = {}
    /\ status = [o \in Orders |-> "pending"]
    /\ statusDirty = status
    /\ orderLock = [o \in Orders |-> Free]
    /\ row = InitialRow
    /\ dirty = InitialRow
    /\ lock = [c \in Categories |-> Free]
    /\ pc = [h \in Handlers |-> "idle"]
    /\ msg = [h \in Handlers |-> NoMessage]
    /\ entities = [h \in Handlers |-> <<>>]
    /\ changed = [h \in Handlers |-> <<>>]
    /\ line = [h \in Handlers |-> 1]
    /\ ticketSets = <<>>
    /\ releases = <<>>
    /\ invoices = {}
    /\ mails = [o \in Orders |-> 0]
    /\ sales = 0
    /\ happened = {}

\* Each fault happens at most once.
Happens(fault) ==
    /\ fault \in Faults \ happened
    /\ Cardinality(happened) < MaxFaults
    /\ happened' = happened \cup {fault}

-----------------------------------------------------------------------------
(* The customer and Stripe *)

Raise(kind, o, n) == events' = events \cup {[kind |-> kind, order |-> o, n |-> n]}

Pay(o) ==
    /\ session[o] = "open"
    /\ session' = [session EXCEPT ![o] = "paid"]
    /\ Raise("completed", o, 0)
    /\ UNCHANGED <<attempts, gatewayVars, queue, orderVars, rowVars, handlerVars, doneVars,
                   mailVars, sales, happened>>

\* The session stays open: the customer may try again.
AttemptFails(o) ==
    /\ session[o] = "open"
    /\ attempts < MaxAttempts
    /\ attempts' = attempts + 1
    /\ Raise("failed", o, attempts + 1)
    /\ UNCHANGED <<session, gatewayVars, queue, orderVars, rowVars, handlerVars, doneVars,
                   mailVars, sales, happened>>

Cancel(o) ==
    /\ session[o] = "open"
    /\ session' = [session EXCEPT ![o] = "canceled"]
    /\ Raise("canceled", o, 0)
    /\ UNCHANGED <<attempts, gatewayVars, queue, orderVars, rowVars, handlerVars, doneVars,
                   mailVars, sales, happened>>

\* The webhook answers 200.  Stripe may deliver the event once more all the same.
Acknowledge(e) ==
    \/ events' = events \ {e} /\ UNCHANGED happened
    \/ Happens("duplicate") /\ UNCHANGED events

-----------------------------------------------------------------------------
(* The webhook: StripeService.webhookStripe *)

Send(kind, o, id) == queue' = queue \cup {[kind |-> kind, order |-> o, id |-> id]}

\* Mutant: the webhook answers before it emits.
SavePaymentAnswers(e) ==
    /\ e \in events
    /\ e.kind = "completed"
    /\ e.order \notin ByRegister
    /\ events' = events \ {e}
    /\ payments' = Append(payments, e.order)
    /\ webhooks' = webhooks \cup {Len(payments) + 1}
    /\ UNCHANGED <<session, attempts, notices, queue, orderVars, rowVars, handlerVars,
                   doneVars, mailVars, sales, happened>>

\* checkout.session.completed: save the payment.  user_id is NOT NULL: the save
\* fails for an order made with a registration, and Stripe tries again.
SavePayment(e) ==
    /\ e \in events
    /\ e.kind = "completed"
    /\ e.order \notin ByRegister
    /\ IF \E p \in webhooks : payments[p] = e.order
          THEN Happens("duplicate")
          ELSE UNCHANGED happened
    /\ payments' = Append(payments, e.order)
    /\ webhooks' = webhooks \cup {Len(payments) + 1}
    /\ UNCHANGED <<stripeVars, notices, queue, orderVars, rowVars, handlerVars, doneVars,
                   mailVars, sales>>

\* Mutant: the webhook run is not over after the emission.
EmitBilledAgain(p) ==
    /\ p \in webhooks
    /\ Send("billed", payments[p], p)
    /\ Acknowledge([kind |-> "completed", order |-> payments[p], n |-> 0])
    /\ UNCHANGED <<session, attempts, payments, webhooks, notices, orderVars, rowVars,
                   handlerVars, doneVars, mailVars, sales>>

\* ... and emit payment-billed.
EmitBilled(p) ==
    /\ p \in webhooks
    /\ webhooks' = webhooks \ {p}
    /\ Send("billed", payments[p], p)
    /\ Acknowledge([kind |-> "completed", order |-> payments[p], n |-> 0])
    /\ UNCHANGED <<session, attempts, payments, notices, orderVars, rowVars, handlerVars,
                   doneVars, mailVars, sales>>

\* The order that the metadata of its payment intent names.
IntentOrder(o) == IF o \in Annotated THEN o ELSE NoOrder

\* payment_intent.payment_failed and .canceled: emit payment-failed.
EmitFailed(e) ==
    /\ e \in events
    /\ e.kind # "completed"
    /\ notices' = notices + 1
    /\ Send(e.kind, IntentOrder(e.order), notices + 1)
    /\ Acknowledge(e)
    /\ UNCHANGED <<session, attempts, payments, webhooks, orderVars, rowVars, handlerVars,
                   doneVars, mailVars, sales>>

GatewayDies ==
    /\ Happens("gateway")
    /\ webhooks' = {}
    /\ UNCHANGED <<stripeVars, payments, notices, queue, orderVars, rowVars, handlerVars,
                   doneVars, mailVars, sales>>

LoseMessage(m) ==
    /\ m \in queue
    /\ Happens("lost")
    /\ queue' = queue \ {m}
    /\ UNCHANGED <<stripeVars, gatewayVars, orderVars, rowVars, handlerVars, doneVars,
                   mailVars, sales>>

-----------------------------------------------------------------------------
(* Transactions of the handlers *)

Order(h) == msg[h].order
LinesFor(h) == LinesOf[Order(h)]

Visible(h, c) == IF lock[c] = h THEN dirty[c] ELSE row[c]
VisibleStatus(h, o) == IF orderLock[o] = h THEN statusDirty[o] ELSE status[o]

ReleaseLocks(h) ==
    /\ lock' = [c \in Categories |-> IF lock[c] = h THEN Free ELSE lock[c]]
    /\ orderLock' = [o \in Orders |-> IF orderLock[o] = h THEN Free ELSE orderLock[o]]

Publish(h) ==
    /\ row' = [c \in Categories |-> Visible(h, c)]
    /\ status' = [o \in Orders |-> VisibleStatus(h, o)]
    /\ ReleaseLocks(h)
    /\ UNCHANGED <<dirty, statusDirty>>

\* Mutant: the rows are saved outside the transaction.
RollbackKeepsRows(h) ==
    /\ row' = [c \in Categories |-> Visible(h, c)]
    /\ statusDirty' = [o \in Orders |-> IF orderLock[o] = h THEN status[o] ELSE statusDirty[o]]
    /\ ReleaseLocks(h)
    /\ UNCHANGED <<dirty, status>>

Rollback(h) ==
    /\ dirty' = [c \in Categories |-> IF lock[c] = h THEN row[c] ELSE dirty[c]]
    /\ statusDirty' = [o \in Orders |-> IF orderLock[o] = h THEN status[o] ELSE statusDirty[o]]
    /\ ReleaseLocks(h)
    /\ UNCHANGED <<row, status>>

\* The handler ends, and nobody remembers its message.
Finish(h) ==
    /\ pc' = [pc EXCEPT ![h] = "idle"]
    /\ msg' = [msg EXCEPT ![h] = NoMessage]
    /\ entities' = [entities EXCEPT ![h] = <<>>]
    /\ changed' = [changed EXCEPT ![h] = <<>>]
    /\ line' = [line EXCEPT ![h] = 1]

GoTo(h, next) == pc' = [pc EXCEPT ![h] = next]

\* An error rolls back; the message is not delivered again.
HandlerError(h) ==
    /\ Rollback(h)
    /\ Finish(h)
    /\ UNCHANGED <<stripeVars, gatewayVars, queue, doneVars, mailVars, sales>>

\* JSON.parse of the products that are not there throws before anything is read.
ParseFails(m) ==
    /\ m \in queue
    /\ m.order = NoOrder
    /\ queue' = queue \ {m}
    /\ UNCHANGED <<stripeVars, gatewayVars, orderVars, rowVars, handlerVars, doneVars,
                   mailVars, sales, happened>>

TakeMessage(h, m) ==
    /\ pc[h] = "idle"
    /\ m \in queue
    /\ m.order # NoOrder
    /\ queue' = queue \ {m}
    /\ msg' = [msg EXCEPT ![h] = m]
    /\ GoTo(h, IF m.kind = "billed" THEN "complete" ELSE "order")
    /\ UNCHANGED <<stripeVars, gatewayVars, orderVars, rowVars, entities, changed, line,
                   doneVars, mailVars, sales, happened>>

-----------------------------------------------------------------------------
(* handleOrderBilled *)

\* Mutant: no invoice is sent.
CompleteWithoutInvoice(h) ==
    /\ pc[h] = "complete"
    /\ orderLock[Order(h)] = Free
    /\ orderLock' = [orderLock EXCEPT ![Order(h)] = h]
    /\ statusDirty' = [statusDirty EXCEPT ![Order(h)] = "completed"]
    /\ GoTo(h, "commit")
    /\ UNCHANGED <<stripeVars, gatewayVars, queue, status, rowVars, msg, entities, changed,
                   line, doneVars, mailVars, sales, happened>>

\* Mutant: the status is updated outside the transaction.
CompleteAtOnce(h) ==
    /\ pc[h] = "complete"
    /\ orderLock[Order(h)] = Free
    /\ statusDirty' = [statusDirty EXCEPT ![Order(h)] = "completed"]
    /\ status' = [status EXCEPT ![Order(h)] = "completed"]
    /\ GoTo(h, "invoice")
    /\ UNCHANGED <<stripeVars, gatewayVars, queue, orderLock, rowVars, msg, entities,
                   changed, line, doneVars, mailVars, sales, happened>>

\* Insert the tickets and update the order, whatever its status is.
CompleteOrder(h) ==
    /\ pc[h] = "complete"
    /\ orderLock[Order(h)] = Free
    /\ orderLock' = [orderLock EXCEPT ![Order(h)] = h]
    /\ statusDirty' = [statusDirty EXCEPT ![Order(h)] = "completed"]
    /\ GoTo(h, "invoice")
    /\ UNCHANGED <<stripeVars, gatewayVars, queue, status, rowVars, msg, entities, changed,
                   line, doneVars, mailVars, sales, happened>>

\* Emit the invoice and start the mail, before COMMIT and without await.
SendInvoice(h) ==
    /\ pc[h] = "invoice"
    /\ invoices' = invoices \cup {msg[h].id}
    /\ mails' = [mails EXCEPT ![Order(h)] = @ + 1]
    /\ GoTo(h, "commit")
    /\ UNCHANGED <<stripeVars, gatewayVars, queue, orderVars, rowVars, msg, entities,
                   changed, line, doneVars, sales, happened>>

CommitBilled(h) ==
    /\ pc[h] = "commit"
    /\ msg[h].kind = "billed"
    /\ Publish(h)
    /\ ticketSets' = Append(ticketSets, msg[h].id)
    /\ Finish(h)
    /\ UNCHANGED <<stripeVars, gatewayVars, queue, releases, mailVars, sales, happened>>

-----------------------------------------------------------------------------
(* handleOrderFailed *)

\* Mutant: the status is not tested.
ReadOrderUnchecked(h) ==
    /\ pc[h] = "order"
    /\ GoTo(h, "status")
    /\ UNCHANGED <<stripeVars, gatewayVars, queue, orderVars, rowVars, msg, entities,
                   changed, line, doneVars, mailVars, sales, happened>>

\* findOne of the order: an order that is not pending was processed already.
ReadOrder(h) ==
    /\ pc[h] = "order"
    /\ IF VisibleStatus(h, Order(h)) # "pending"
          THEN HandlerError(h) /\ UNCHANGED happened
          ELSE /\ GoTo(h, "status")
               /\ UNCHANGED <<stripeVars, gatewayVars, queue, orderVars, rowVars, msg,
                              entities, changed, line, doneVars, mailVars, sales, happened>>

\* "canceled" is no status of an order: the database refuses the update.
RejectCanceled(h) ==
    /\ pc[h] = "status"
    /\ msg[h].kind = "canceled"
    /\ HandlerError(h)
    /\ UNCHANGED happened

\* Mutant: the status of a canceled payment is written as it is.
UpdateAnyStatus(h) ==
    /\ pc[h] = "status"
    /\ orderLock[Order(h)] = Free
    /\ orderLock' = [orderLock EXCEPT ![Order(h)] = h]
    /\ statusDirty' = [statusDirty EXCEPT ![Order(h)] = msg[h].kind]
    /\ GoTo(h, "read")
    /\ UNCHANGED <<stripeVars, gatewayVars, queue, status, rowVars, msg, entities, changed,
                   line, doneVars, mailVars, sales, happened>>

\* The update waits for the row, and does not look at the status again.
UpdateStatus(h) ==
    /\ pc[h] = "status"
    /\ msg[h].kind = "failed"
    /\ orderLock[Order(h)] = Free
    /\ orderLock' = [orderLock EXCEPT ![Order(h)] = h]
    /\ statusDirty' = [statusDirty EXCEPT ![Order(h)] = "failed"]
    /\ GoTo(h, "read")
    /\ UNCHANGED <<stripeVars, gatewayVars, queue, status, rowVars, msg, entities, changed,
                   line, doneVars, mailVars, sales, happened>>

\* findOne of the category of the next line, and the addition in memory.  Two
\* lines of one category make two entities.
ReadCategory(h) ==
    LET i == Len(entities[h]) + 1
        l == LinesFor(h)[i]
    IN  /\ pc[h] = "read"
        /\ entities' = [entities EXCEPT ![h] =
              Append(@, [Visible(h, l.category) EXCEPT !.quantity = @ + l.quantity])]
        /\ GoTo(h, IF i = Len(LinesFor(h)) THEN "diff" ELSE "read")
        /\ UNCHANGED <<stripeVars, gatewayVars, queue, orderVars, rowVars, msg, changed,
                       line, doneVars, mailVars, sales, happened>>

\* save(ticketCategories): SELECT the rows again and compare.
SelectForSave(h) ==
    /\ pc[h] = "diff"
    /\ changed' = [changed EXCEPT ![h] =
          [i \in DOMAIN entities[h] |->
             ChangedColumns(entities[h][i], Visible(h, LinesFor(h)[i].category))]]
    /\ GoTo(h, "save")
    /\ UNCHANGED <<stripeVars, gatewayVars, queue, orderVars, rowVars, msg, entities, line,
                   doneVars, mailVars, sales, happened>>

NextLine(h) ==
    /\ line' = [line EXCEPT ![h] = @ + 1]
    /\ GoTo(h, IF line[h] = Len(entities[h]) THEN "commit" ELSE "save")
    /\ UNCHANGED <<stripeVars, gatewayVars, queue, orderVars, row, msg, entities, changed,
                   doneVars, mailVars, sales, happened>>

\* ... then UPDATE one after the other.
SaveLine(h) ==
    LET i == line[h]
        c == LinesFor(h)[i].category
    IN  /\ pc[h] = "save"
        /\ changed[h][i] # {}
        /\ lock[c] \in {h, Free}
        /\ \E v \in NextVersions(entities[h][i], dirty[c], changed[h][i]) :
              dirty' = [dirty EXCEPT ![c] = SavedRow(entities[h][i], @, changed[h][i], v)]
        /\ lock' = [lock EXCEPT ![c] = h]
        /\ NextLine(h)

SkipLine(h) ==
    /\ pc[h] = "save"
    /\ MaySkipUpdate(changed[h][line[h]])
    /\ NextLine(h)
    /\ UNCHANGED <<dirty, lock>>

CommitFailed(h) ==
    /\ pc[h] = "commit"
    /\ msg[h].kind = "failed"
    /\ Publish(h)
    /\ releases' = Append(releases, [order |-> Order(h), id |-> msg[h].id])
    /\ Finish(h)
    /\ UNCHANGED <<stripeVars, gatewayVars, queue, ticketSets, mailVars, sales, happened>>

-----------------------------------------------------------------------------
(* Failures, the mail and other sales *)

DbFailure(h) ==
    /\ pc[h] # "idle"
    /\ Happens("db")
    /\ HandlerError(h)

\* Whom a handler waits for.
Awaits(h) ==
    IF pc[h] = "complete" \/ (pc[h] = "status" /\ msg[h].kind = "failed")
       THEN {orderLock[Order(h)]} \ {Free}
       ELSE IF pc[h] = "save" /\ changed[h][line[h]] # {}
               THEN {lock[LinesFor(h)[line[h]].category]} \ {h, Free}
               ELSE {}

DeadlockAbort(h) ==
    /\ \E S \in SUBSET Handlers :
          /\ h \in S
          /\ \A g \in S : Awaits(g) # {}
          /\ UNION {Awaits(g) : g \in S} = S
    /\ HandlerError(h)
    /\ UNCHANGED happened

\* The API process ends: every handler and mail under way is gone.
ApiStops ==
    /\ pc' = [h \in Handlers |-> "idle"]
    /\ msg' = [h \in Handlers |-> NoMessage]
    /\ entities' = [h \in Handlers |-> <<>>]
    /\ changed' = [h \in Handlers |-> <<>>]
    /\ line' = [h \in Handlers |-> 1]
    /\ statusDirty' = status
    /\ orderLock' = [o \in Orders |-> Free]
    /\ dirty' = row
    /\ lock' = [c \in Categories |-> Free]
    /\ mails' = [o \in Orders |-> 0]
    /\ UNCHANGED <<stripeVars, gatewayVars, queue, status, row, doneVars, invoices, sales>>

ApiDies == Happens("api") /\ ApiStops

HasTickets(o) == \E i \in DOMAIN ticketSets : payments[ticketSets[i]] = o

\* sendTicketOrderToMailer, through a connection of its own.
MailTickets(o) ==
    /\ mails[o] > 0
    /\ HasTickets(o)
    /\ mails' = [mails EXCEPT ![o] = @ - 1]
    /\ UNCHANGED <<stripeVars, gatewayVars, queue, orderVars, rowVars, handlerVars, doneVars,
                   invoices, sales, happened>>

\* It finds no ticket, before COMMIT or after a rollback, and throws; nobody
\* awaits it, and Node ends a process with an unhandled rejection.
MailFindsNothing(o) ==
    /\ mails[o] > 0
    /\ ~HasTickets(o)
    /\ IF \E h \in Handlers : pc[h] = "commit" /\ msg[h].kind = "billed" /\ Order(h) = o
          THEN Happens("early")
          ELSE UNCHANGED happened
    /\ ApiStops

\* createTicket, committed at once: somebody else changes the row.
SellTicket(c) ==
    /\ sales < MaxSales
    /\ lock[c] = Free
    /\ row[c].quantity > 0
    /\ row' = [row EXCEPT ![c] = [row[c] EXCEPT !.quantity = @ - 1, !.version = @ + 1]]
    /\ dirty' = [dirty EXCEPT ![c] = row'[c]]
    /\ sales' = sales + 1
    /\ UNCHANGED <<stripeVars, gatewayVars, queue, orderVars, lock, handlerVars, doneVars,
                   mailVars, happened>>

-----------------------------------------------------------------------------
Webhook ==
    \/ \E e \in events : SavePayment(e) \/ EmitFailed(e)
    \/ \E p \in webhooks : EmitBilled(p)

Handle(h) ==
    \/ CompleteOrder(h) \/ SendInvoice(h) \/ CommitBilled(h)
    \/ ReadOrder(h) \/ RejectCanceled(h) \/ UpdateStatus(h) \/ ReadCategory(h)
    \/ SelectForSave(h) \/ SaveLine(h) \/ SkipLine(h) \/ CommitFailed(h)

Settled ==
    /\ \A o \in Orders : session[o] # "open" /\ mails[o] = 0
    /\ \A e \in events : e.kind = "completed" /\ e.order \in ByRegister
    /\ webhooks = {} /\ queue = {}
    /\ \A h \in Handlers : pc[h] = "idle"
    /\ UNCHANGED vars

Next ==
    \/ \E o \in Orders : \/ Pay(o) \/ AttemptFails(o) \/ Cancel(o)
                         \/ MailTickets(o) \/ MailFindsNothing(o)
    \/ Webhook \/ GatewayDies
    \/ \E m \in queue : \/ LoseMessage(m) \/ ParseFails(m)
                        \/ \E h \in Handlers : TakeMessage(h, m)
    \/ \E h \in Handlers : Handle(h) \/ DbFailure(h) \/ DeadlockAbort(h)
    \/ ApiDies
    \/ \E c \in Categories : SellTicket(c)
    \/ Settled

Spec == Init /\ [][Next]_vars

\* Stripe delivers until it is answered, Node runs what is ready, PostgreSQL
\* answers and resolves deadlocks.  Nothing is assumed of customers and faults.
Fairness ==
    /\ \A o \in Orders :
          /\ WF_vars(SavePayment([kind |-> "completed", order |-> o, n |-> 0]))
          /\ WF_vars(\E p \in webhooks : payments[p] = o /\ EmitBilled(p))
          /\ WF_vars(\E h \in Handlers, m \in queue :
                       m.kind = "billed" /\ m.order = o /\ TakeMessage(h, m))
    /\ \A h \in Handlers : WF_vars(Handle(h)) /\ WF_vars(DeadlockAbort(h))

FairSpec == Spec /\ Fairness

\* The same of what follows a failed attempt.
NoticeFairness ==
    \A o \in Orders :
        /\ WF_vars(\E e \in events : e.kind # "completed" /\ e.order = o /\ EmitFailed(e))
        /\ WF_vars(\E m \in queue : ParseFails(m))
        /\ WF_vars(\E h \in Handlers, m \in queue :
                     m.kind # "billed" /\ m.order = o /\ TakeMessage(h, m))

NoticedSpec == FairSpec /\ NoticeFairness

\* One handler at a time is inside a transaction, and nobody sells meanwhile.
Open(h) == pc[h] \notin {"idle", "complete", "order"}
NoOverlap ==
    /\ \A g, h \in Handlers : (Open(g)' /\ Open(h)') => g = h
    /\ sales' # sales => \A h \in Handlers : ~Open(h)
SerialSpec == Init /\ [][Next /\ NoOverlap]_vars

-----------------------------------------------------------------------------
(* Safety *)

IsReleased(o) == \E i \in DOMAIN releases : releases[i].order = o

\* Whatever is delivered, repeated, lost or interrupted, a payment the gateway
\* recorded makes at most one set of tickets, no tickets exist without one, and
\* a notice of failure releases at most once (stripe.service.ts:116-181,
\* orders.service.ts:552-738).
OneEffectPerMessage ==
    /\ \A i \in DOMAIN ticketSets : ticketSets[i] \in DOMAIN payments
    /\ \A i, j \in DOMAIN ticketSets : ticketSets[i] = ticketSets[j] => i = j
    /\ \A i \in DOMAIN releases : releases[i].id <= notices
    /\ \A i, j \in DOMAIN releases : releases[i].id = releases[j].id => i = j

\* The status, the tickets and the release of an order are committed together,
\* also when two handlers of one order interleave: a completed order has
\* tickets, a failed one was released, a pending one has neither
\* (orders.service.ts:604-623,698-727).
StatusMatchesEffects ==
    \A o \in Orders :
        /\ status[o] = "completed" => HasTickets(o)
        /\ status[o] = "failed" => IsReleased(o)
        /\ status[o] = "pending" => ~HasTickets(o) /\ ~IsReleased(o)

\* Tickets that are committed were invoiced: the invoice leaves before the
\* commit, never after it (orders.service.ts:637-664).
TicketsWereInvoiced == \A i \in DOMAIN ticketSets : ticketSets[i] \in invoices

\* Places that an order names in a category, and all committed releases.
Places(o, c) ==
    FoldFunction(LAMBDA l, sum : sum + IF l.category = c THEN l.quantity ELSE 0, 0, LinesOf[o])
Released(c) == FoldFunction(LAMBDA r, sum : sum + Places(r.order, c), 0, releases)

\* Interleaved releases and sales lose each other's updates, but they neither
\* conjure up places that no committed release gave back nor drive a stock
\* below zero (orders.service.ts:708-727).
StockWithinBounds ==
    \A c \in Categories : row[c].quantity \in 0..(InitialRow[c].quantity + Released(c))

-----------------------------------------------------------------------------
(* Refinement, liveness, and what the code says of itself and does not keep *)

Promise == INSTANCE OrderPromise WITH
    InitialStock <- [c \in Categories |-> InitialRow[c].quantity],
    stock        <- [c \in Categories |-> row[c].quantity],
    tickets      <- [o \in Orders |-> Cardinality({i \in DOMAIN ticketSets :
                                                    payments[ticketSets[i]] = o})]

\* Handlers whose transactions do not overlap are atomic: each is one step of
\* OrderPromise when it commits, and none at all when it fails.
PromiseKept == Promise!Spec

\* A customer who paid gets tickets, unless a message is lost, the API dies with
\* one, or its transaction fails: nothing is delivered to it twice.  The gateway
\* may die at any point.
PaidOrderGetsTickets ==
    \A o \in Orders \ ByRegister :
        session[o] = "paid" ~>
            (HasTickets(o) \/ happened \cap {"lost", "api", "db", "early"} # {})

\* "Emit an event indicating the payment failed" (stripe.service.ts:154), so that
\* the order is marked and its places are given back: an attempt that fails does
\* not leave the order pending.
FailedAttemptIsSettled ==
    \A o \in Orders :
        (\E e \in events : e.kind = "failed" /\ e.order = o) ~> (status[o] # "pending")
=============================================================================
