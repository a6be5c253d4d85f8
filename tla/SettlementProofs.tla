-------------------------- MODULE SettlementProofs --------------------------
(***************************************************************************)
(* Proofs about Settlement, for any number of orders, categories, handlers,*)
(* payments and faults: its types; messages take effect at most once; the  *)
(* status, the tickets, the releases, the invoices and the mails of an     *)
(* order agree; the stock stays within what there is; and, where handlers  *)
(* do not overlap, Settlement implements OrderPromise.                     *)
(***************************************************************************)
EXTENDS Settlement, SumProofs, SequenceTheorems

-----------------------------------------------------------------------------
(* The inductive invariant of the handlers *)

\* What the next step of a handler says of its message, and of the entities it
\* read and the changes it computed.
HandlerInv ==
    \A h \in Handlers :
        /\ pc[h] # "idle" => msg[h] \in Message
        /\ pc[h] \in {"complete", "invoice"} => msg[h].kind = "billed"
        /\ pc[h] \in {"order", "status"} => msg[h].kind \in {"failed", "canceled"}
        /\ pc[h] \in {"read", "diff", "save"} => msg[h].kind = "failed"
        /\ pc[h] = "commit" => msg[h].kind \in {"billed", "failed"}

\* Where it is in the lines of its order.
LoopInv ==
    \A h \in Handlers :
        /\ pc[h] \in {"idle", "order", "status", "complete"} => entities[h] = <<>>
        /\ pc[h] \in {"idle", "read", "diff", "order", "status"} => line[h] = 1
        /\ pc[h] = "read" => Len(entities[h]) < Len(LinesFor(h))
        /\ pc[h] \in {"diff", "save"} => Len(entities[h]) = Len(LinesFor(h))
        /\ pc[h] = "save" => /\ Len(changed[h]) = Len(entities[h])
                             /\ line[h] \in 1..Len(entities[h])

HInv == HandlersType /\ HandlerInv /\ LoopInv
IInv == TypeOK /\ HandlerInv /\ LoopInv

-----------------------------------------------------------------------------
(* Rows and transactions *)

LEMMA VisibleOK ==
    ASSUME RowsType, NEW h \in Handlers
    PROVE  /\ \A c \in Categories : Visible(h, c) \in TicketCategory
           /\ \A o \in Orders : VisibleStatus(h, o) \in Status
  BY DEF RowsType, Visible, VisibleStatus

LEMMA ReleaseOK ==
    ASSUME RowsType, NEW h \in Handlers, ReleaseLocks(h)
    PROVE  /\ lock' \in [Categories -> Handlers \cup {Free}]
           /\ orderLock' \in [Orders -> Handlers \cup {Free}]
  BY DEF RowsType, ReleaseLocks

LEMMA RollbackOK ==
    ASSUME RowsType, NEW h \in Handlers, Rollback(h)
    PROVE  RowsType'
  BY ReleaseOK DEF Rollback, RowsType

LEMMA PublishOK ==
    ASSUME RowsType, NEW h \in Handlers, Publish(h)
    PROVE  RowsType'
  BY ReleaseOK, VisibleOK DEF Publish, RowsType

LEMMA SavedRowOK ==
    ASSUME NEW e \in TicketCategory, NEW r \in TicketCategory,
           NEW ch \in SUBSET Columns, NEW v \in NextVersions(e, r, ch)
    PROVE  SavedRow(e, r, ch, v) \in TicketCategory
  BY DEF TicketCategory, NextVersions, SavedRow

LEMMA LinesOK ==
    ASSUME NEW o \in Orders
    PROVE  /\ LinesOf[o] \in Seq(Lines)
           /\ Len(LinesOf[o]) \in Nat \ {0}
           /\ \A i \in 1..Len(LinesOf[o]) :
                 /\ LinesOf[o][i].category \in Categories
                 /\ LinesOf[o][i].quantity \in Nat
  <1>1. LinesOf[o] \in Seq(Lines) /\ LinesOf[o] # <<>>
    BY ConstantsAssumption
  <1>2. Len(LinesOf[o]) \in Nat \ {0}
    BY <1>1, EmptySeq
  <1>3. \A i \in 1..Len(LinesOf[o]) : LinesOf[o][i] \in Lines
    BY <1>1
  <1>4. \A l \in Lines : l.category \in Categories /\ l.quantity \in Nat
    BY DEF Lines
  <1>5. QED BY <1>1, <1>2, <1>3, <1>4

LEMMA FinishOK ==
    ASSUME HInv, NEW h \in Handlers, Finish(h)
    PROVE  HInv'
  <1>1. HandlersType'
    BY DEF Finish, HInv, HandlersType
  <1>2. /\ pc'[h] = "idle" /\ entities'[h] = <<>> /\ line'[h] = 1
        /\ \A g \in Handlers \ {h} :
              /\ pc'[g] = pc[g] /\ msg'[g] = msg[g] /\ entities'[g] = entities[g]
              /\ changed'[g] = changed[g] /\ line'[g] = line[g]
    BY DEF Finish, HInv, HandlersType
  <1>3. HandlerInv'
    BY <1>2 DEF HInv, HandlerInv
  <1>4. LoopInv'
    BY <1>2 DEF HInv, LoopInv, LinesFor, Order
  <1>5. QED BY <1>1, <1>3, <1>4 DEF HInv

\* One handler moves; the invariant is to be shown of that handler only.
LEMMA MoveOK ==
    ASSUME HInv, NEW h \in Handlers, HandlersType',
           NEW next \in InTransaction, GoTo(h, next),
           \A g \in Handlers \ {h} :
              /\ msg'[g] = msg[g] /\ entities'[g] = entities[g]
              /\ changed'[g] = changed[g] /\ line'[g] = line[g],
           msg'[h] \in Message,
           next \in {"complete", "invoice"} => msg'[h].kind = "billed",
           next \in {"order", "status"} => msg'[h].kind \in {"failed", "canceled"},
           next \in {"read", "diff", "save"} => msg'[h].kind = "failed",
           next = "commit" => msg'[h].kind \in {"billed", "failed"},
           next \in {"order", "status", "complete"} => entities'[h] = <<>>,
           next \in {"read", "diff", "order", "status"} => line'[h] = 1,
           next = "read" => Len(entities'[h]) < Len(LinesFor(h)'),
           next \in {"diff", "save"} => Len(entities'[h]) = Len(LinesFor(h)'),
           next = "save" => /\ Len(changed'[h]) = Len(entities'[h])
                            /\ line'[h] \in 1..Len(entities'[h])
    PROVE  HInv'
  <1>1. /\ pc'[h] = next
        /\ \A g \in Handlers \ {h} : pc'[g] = pc[g]
    BY DEF HInv, HandlersType, GoTo
  <1>2. HandlerInv'
    BY <1>1 DEF HInv, HandlerInv, InTransaction
  <1>3. \A g \in Handlers \ {h} : LinesFor(g)' = LinesFor(g)
    BY DEF LinesFor, Order
  <1>4. ASSUME NEW g \in Handlers
        PROVE /\ pc'[g] \in {"idle", "order", "status", "complete"} => entities'[g] = <<>>
              /\ pc'[g] \in {"idle", "read", "diff", "order", "status"} => line'[g] = 1
              /\ pc'[g] = "read" => Len(entities'[g]) < Len(LinesFor(g)')
              /\ pc'[g] \in {"diff", "save"} => Len(entities'[g]) = Len(LinesFor(g)')
              /\ pc'[g] = "save" => /\ Len(changed'[g]) = Len(entities'[g])
                                    /\ line'[g] \in 1..Len(entities'[g])
    <2>1. CASE g = h
      BY <2>1, <1>1 DEF InTransaction
    <2>2. CASE g # h
      BY <2>2, <1>1, <1>3 DEF HInv, LoopInv
    <2>3. QED BY <2>1, <2>2
  <1>5. LoopInv'
    BY <1>4 DEF LoopInv
  <1>6. QED BY <1>2, <1>5 DEF HInv

-----------------------------------------------------------------------------
(* Initial state *)

LEMMA InitOK == Init => IInv
  <1> SUFFICES ASSUME Init PROVE IInv
    OBVIOUS
  <1>1. StripeType /\ GatewayType /\ EffectsType
    BY ConstantsAssumption, EmptySeq DEF Init, StripeType, GatewayType, EffectsType
  <1>2. RowsType
    BY ConstantsAssumption DEF Init, RowsType, Status
  <1>3. HInv
    BY EmptySeq DEF Init, HInv, HandlersType, HandlerInv, LoopInv
  <1>4. QED BY <1>1, <1>2, <1>3 DEF IInv, TypeOK, HInv

-----------------------------------------------------------------------------
(* Steps outside of the handlers *)

LEMMA HappensOK ==
    ASSUME happened \subseteq Faults,
           happened' = happened \/ \E fault \in FaultKinds : Happens(fault)
    PROVE  happened' \subseteq Faults
  BY DEF Happens

LEMMA QuietHandlersOK ==
    ASSUME HInv, UNCHANGED handlerVars
    PROVE  HInv'
  BY DEF handlerVars, HInv, HandlersType, HandlerInv, LoopInv, LinesFor, Order

LEMMA QuietRowsOK ==
    ASSUME RowsType, UNCHANGED <<orderVars, rowVars>>
    PROVE  RowsType'
  BY DEF orderVars, rowVars, RowsType

LEMMA StripeOK ==
    ASSUME IInv, NEW o \in Orders, Pay(o) \/ AttemptFails(o) \/ Cancel(o)
    PROVE  IInv'
  <1>1. StripeType'
    <2>1. CASE Pay(o)
      BY <2>1 DEF IInv, TypeOK, StripeType, Pay, Raise, Event
    <2>2. CASE AttemptFails(o)
      BY <2>2, ConstantsAssumption
         DEF IInv, TypeOK, StripeType, AttemptFails, Raise, Event
    <2>3. CASE Cancel(o)
      BY <2>3 DEF IInv, TypeOK, StripeType, Cancel, Raise, Event
    <2>4. QED BY <2>1, <2>2, <2>3
  <1>2. /\ UNCHANGED <<gatewayVars, queue, orderVars, rowVars>>
        /\ UNCHANGED <<handlerVars, doneVars, mailVars, sales, happened>>
    BY DEF Pay, AttemptFails, Cancel
  <1>3. GatewayType' /\ EffectsType'
    BY <1>2 DEF IInv, TypeOK, GatewayType, EffectsType, gatewayVars, doneVars, mailVars
  <1>4. QED
    BY <1>1, <1>2, <1>3, QuietHandlersOK, QuietRowsOK DEF IInv, TypeOK, HInv

LEMMA AcknowledgeOK ==
    ASSUME IInv, NEW e, Acknowledge(e)
    PROVE  events' \subseteq Event /\ happened' \subseteq Faults
  BY DEF IInv, TypeOK, StripeType, EffectsType, Acknowledge, Happens

LEMMA SendOK ==
    ASSUME IInv, NEW kind, NEW o, NEW id \in Nat \ {0}, Send(kind, o, id),
           \/ kind \in {"billed", "failed", "canceled"} /\ o \in Orders
           \/ kind \in {"failed", "canceled"} /\ o = NoOrder
    PROVE  queue' \subseteq Sent
  BY DEF IInv, TypeOK, GatewayType, Send, Sent, Message, Unreadable

LEMMA WebhookOK == ASSUME IInv, Webhook PROVE IInv'
  <1> USE DEF IInv, TypeOK
  <1>1. /\ UNCHANGED <<session, attempts, orderVars, rowVars>>
        /\ UNCHANGED <<handlerVars, doneVars, mailVars, sales>>
    BY DEF Webhook, SavePayment, EmitBilled, EmitFailed, stripeVars
  <1>2. ASSUME NEW e \in events, SavePayment(e)
        PROVE  GatewayType' /\ events' \subseteq Event /\ happened' \subseteq Faults
    <2>1. e.order \in Orders
      BY DEF StripeType, Event
    <2>2. /\ payments' = Append(payments, e.order)
          /\ webhooks' = webhooks \cup {Len(payments) + 1}
          /\ UNCHANGED <<events, notices, queue>>
      BY <1>2 DEF SavePayment, stripeVars
    <2>3. payments' \in Seq(Orders) /\ DOMAIN payments' = 1..(Len(payments) + 1)
      BY <2>1, <2>2 DEF GatewayType
    <2>4. webhooks' \subseteq DOMAIN payments'
      BY <2>2, <2>3 DEF GatewayType
    <2>5. happened' \subseteq Faults
      BY <1>2 DEF SavePayment, Happens, EffectsType
    <2>6. QED BY <2>2, <2>3, <2>4, <2>5 DEF GatewayType, StripeType
  <1>3. ASSUME NEW p \in webhooks, EmitBilled(p)
        PROVE  GatewayType' /\ events' \subseteq Event /\ happened' \subseteq Faults
    <2>1. payments[p] \in Orders /\ p \in Nat \ {0}
      BY DEF GatewayType
    <2>2. queue' \subseteq Sent
      BY <1>3, <2>1, SendOK DEF EmitBilled
    <2>3. QED BY <1>3, <2>2, AcknowledgeOK DEF EmitBilled, GatewayType
  <1>4. ASSUME NEW e \in events, EmitFailed(e)
        PROVE  GatewayType' /\ events' \subseteq Event /\ happened' \subseteq Faults
    <2>1. /\ IntentOrder(e.order) \in Orders \cup {NoOrder}
          /\ e.kind \in {"failed", "canceled"}
      BY <1>4 DEF StripeType, Event, EmitFailed, IntentOrder
    <2>2. notices' = notices + 1 /\ notices + 1 \in Nat \ {0}
      BY <1>4 DEF EmitFailed, GatewayType
    <2>3. queue' \subseteq Sent
      BY <1>4, <2>1, <2>2, SendOK DEF EmitFailed
    <2>4. QED BY <1>4, <2>2, <2>3, AcknowledgeOK DEF EmitFailed, GatewayType
  <1>5. GatewayType' /\ events' \subseteq Event /\ happened' \subseteq Faults
    BY <1>2, <1>3, <1>4 DEF Webhook
  <1>6. StripeType' /\ EffectsType'
    BY <1>1, <1>5 DEF StripeType, EffectsType, doneVars, mailVars
  <1>7. QED BY <1>1, <1>5, <1>6, QuietHandlersOK, QuietRowsOK DEF HInv

LEMMA GatewayDiesOK == ASSUME IInv, GatewayDies PROVE IInv'
  <1>1. GatewayType'
    BY DEF IInv, TypeOK, GatewayType, GatewayDies
  <1>2. StripeType' /\ EffectsType'
    BY DEF IInv, TypeOK, StripeType, EffectsType, GatewayDies, Happens, stripeVars,
           doneVars, mailVars
  <1>3. UNCHANGED <<handlerVars, orderVars, rowVars>>
    BY DEF GatewayDies
  <1>4. QED
    BY <1>1, <1>2, <1>3, QuietHandlersOK, QuietRowsOK DEF IInv, TypeOK, HInv

LEMMA LoseMessageOK ==
    ASSUME IInv, NEW m, LoseMessage(m) \/ ParseFails(m)
    PROVE  IInv'
  <1>1. GatewayType'
    BY DEF IInv, TypeOK, GatewayType, LoseMessage, ParseFails, gatewayVars
  <1>2. StripeType' /\ EffectsType'
    BY DEF IInv, TypeOK, StripeType, EffectsType, LoseMessage, ParseFails, Happens, stripeVars,
           doneVars, mailVars
  <1>3. UNCHANGED <<handlerVars, orderVars, rowVars>>
    BY DEF LoseMessage, ParseFails
  <1>4. QED
    BY <1>1, <1>2, <1>3, QuietHandlersOK, QuietRowsOK DEF IInv, TypeOK, HInv

LEMMA ApiStopsOK ==
    ASSUME IInv, ApiStops, happened' \subseteq Faults
    PROVE  IInv'
  <1>1. HInv'
    BY EmptySeq DEF ApiStops, HInv, HandlersType, HandlerInv, LoopInv
  <1>2. RowsType'
    BY DEF ApiStops, IInv, TypeOK, RowsType
  <1>3. StripeType' /\ GatewayType' /\ EffectsType'
    BY DEF ApiStops, IInv, TypeOK, StripeType, GatewayType, EffectsType, stripeVars,
           gatewayVars, doneVars
  <1>4. QED BY <1>1, <1>2, <1>3 DEF IInv, TypeOK, HInv

LEMMA MailOK ==
    ASSUME IInv, NEW o \in Orders,
           MailTickets(o) \/ MailFindsNothing(o)
    PROVE  IInv'
  <1>1. CASE MailFindsNothing(o)
    <2>1. happened' \subseteq Faults
      BY <1>1 DEF MailFindsNothing, Happens, IInv, TypeOK, EffectsType
    <2>2. QED BY <1>1, <2>1, ApiStopsOK DEF MailFindsNothing
  <1>2. CASE MailTickets(o)
    <2>1. /\ mails' \in [Orders -> Nat]
          /\ UNCHANGED <<doneVars, invoices, sales, happened>>
      BY <1>2 DEF MailTickets, IInv, TypeOK, EffectsType
    <2>2. /\ UNCHANGED <<stripeVars, gatewayVars, queue>>
          /\ UNCHANGED <<handlerVars, orderVars, rowVars>>
      BY <1>2 DEF MailTickets
    <2>3. StripeType' /\ GatewayType'
      BY <2>2 DEF IInv, TypeOK, StripeType, GatewayType, stripeVars, gatewayVars
    <2>4. EffectsType'
      BY <2>1 DEF IInv, TypeOK, EffectsType, doneVars
    <2>5. QED
      BY <2>2, <2>3, <2>4, QuietHandlersOK, QuietRowsOK DEF IInv, TypeOK, HInv
  <1>3. QED BY <1>1, <1>2

LEMMA SellTicketOK == ASSUME IInv, NEW c \in Categories, SellTicket(c) PROVE IInv'
  <1>1. row' \in [Categories -> TicketCategory]
    <2>1. row[c] \in TicketCategory
      BY DEF IInv, TypeOK, RowsType
    <2> DEFINE sold == [row[c] EXCEPT !.quantity = row[c].quantity - 1]
               r == [sold EXCEPT !.version = row[c].version + 1]
    <2>2. sold \in TicketCategory
      BY <2>1 DEF TicketCategory
    <2>3. r \in TicketCategory
      <3> HIDE DEF sold
      <3>1. QED BY <2>1, <2>2 DEF TicketCategory
    <2>4. row' = [row EXCEPT ![c] = r]
      BY DEF SellTicket
    <2>5. QED
      <3> HIDE DEF r
      <3>1. QED BY <2>3, <2>4 DEF IInv, TypeOK, RowsType
  <1>2. RowsType'
    BY <1>1 DEF SellTicket, IInv, TypeOK, RowsType, orderVars
  <1>3. /\ UNCHANGED <<stripeVars, gatewayVars, queue>>
        /\ UNCHANGED <<handlerVars, doneVars, mailVars, happened>>
        /\ sales < MaxSales /\ sales' = sales + 1
    BY DEF SellTicket
  <1>4. StripeType' /\ GatewayType' /\ EffectsType'
    BY <1>3, ConstantsAssumption DEF IInv, TypeOK, StripeType, GatewayType, EffectsType,
           stripeVars, gatewayVars, doneVars, mailVars
  <1>5. QED BY <1>2, <1>3, <1>4, QuietHandlersOK DEF IInv, TypeOK, HInv

-----------------------------------------------------------------------------
(* Steps of the handlers *)

\* What a handler leaves alone in almost every step.
LEMMA AloneOK ==
    ASSUME IInv, UNCHANGED <<stripeVars, gatewayVars>>, queue' \subseteq Sent,
           UNCHANGED <<doneVars, mailVars, sales, happened>>
    PROVE  StripeType' /\ GatewayType' /\ EffectsType'
  BY DEF IInv, TypeOK, StripeType, GatewayType, EffectsType, stripeVars, gatewayVars,
         doneVars, mailVars

LEMMA HandlerErrorOK ==
    ASSUME IInv, NEW h \in Handlers, HandlerError(h), happened' \subseteq Faults
    PROVE  IInv'
  <1>1. Rollback(h) /\ Finish(h) /\ UNCHANGED <<stripeVars, gatewayVars, queue>>
        /\ UNCHANGED <<doneVars, mailVars, sales>>
    BY DEF HandlerError
  <1>2. RowsType' /\ HInv'
    BY <1>1, RollbackOK, FinishOK DEF IInv, TypeOK, HInv
  <1>3. StripeType' /\ GatewayType' /\ EffectsType'
    BY <1>1 DEF IInv, TypeOK, StripeType, GatewayType, EffectsType, stripeVars, gatewayVars,
           doneVars, mailVars
  <1>4. QED BY <1>2, <1>3 DEF IInv, TypeOK, HInv

LEMMA TakeMessageOK ==
    ASSUME IInv, NEW h \in Handlers, NEW m \in queue, TakeMessage(h, m)
    PROVE  IInv'
  <1> DEFINE next == IF m.kind = "billed" THEN "complete" ELSE "order"
  <1>1. m \in Message
    BY DEF TakeMessage, IInv, TypeOK, GatewayType, Sent, Unreadable
  <1>2. /\ pc[h] = "idle"
        /\ msg' = [msg EXCEPT ![h] = m]
        /\ GoTo(h, next)
        /\ queue' = queue \ {m}
        /\ UNCHANGED <<stripeVars, gatewayVars, orderVars, rowVars>>
        /\ UNCHANGED <<entities, changed, line, doneVars, mailVars, sales, happened>>
    BY DEF TakeMessage
  <1>3. next \in InTransaction
    BY DEF InTransaction
  <1>4. HandlersType'
    BY <1>1, <1>2, <1>3 DEF GoTo, IInv, TypeOK, HandlersType
  <1>5. /\ msg'[h] = m
        /\ \A g \in Handlers \ {h} : msg'[g] = msg[g]
        /\ entities'[h] = <<>>
    BY <1>2 DEF IInv, TypeOK, HandlersType, LoopInv
  <1>6. m.kind \in {"billed", "failed", "canceled"}
    BY <1>1 DEF Message
  <1>7. line'[h] = 1
    BY <1>2 DEF IInv, LoopInv
  <1>8. HInv'
    BY <1>1, <1>2, <1>3, <1>4, <1>5, <1>6, <1>7, MoveOK DEF IInv, TypeOK, HInv
  <1>9. QED
    BY <1>2, <1>8, AloneOK, QuietRowsOK DEF IInv, TypeOK, HInv, GatewayType

LEMMA CompleteOrderOK ==
    ASSUME IInv, NEW h \in Handlers, CompleteOrder(h)
    PROVE  IInv'
  <1>1. /\ pc[h] = "complete"
        /\ GoTo(h, "invoice")
        /\ orderLock' = [orderLock EXCEPT ![Order(h)] = h]
        /\ statusDirty' = [statusDirty EXCEPT ![Order(h)] = "completed"]
        /\ UNCHANGED <<stripeVars, gatewayVars, queue, status, rowVars>>
        /\ UNCHANGED <<msg, entities, changed, line, doneVars, mailVars, sales, happened>>
    BY DEF CompleteOrder
  <1>2. HandlersType'
    BY <1>1 DEF GoTo, InTransaction, IInv, TypeOK, HandlersType
  <1>3. msg[h] \in Message /\ msg[h].kind = "billed"
    BY <1>1 DEF IInv, HandlerInv
  <1>4. HInv'
    BY <1>1, <1>2, <1>3, MoveOK DEF InTransaction, IInv, TypeOK, HInv
  <1>5. RowsType'
    BY <1>1 DEF IInv, TypeOK, RowsType, rowVars, Status
  <1>6. QED
    BY <1>1, <1>4, <1>5, AloneOK DEF IInv, TypeOK, HInv, GatewayType

LEMMA SendInvoiceOK ==
    ASSUME IInv, NEW h \in Handlers, SendInvoice(h)
    PROVE  IInv'
  <1>1. /\ pc[h] = "invoice"
        /\ GoTo(h, "commit")
        /\ invoices' = invoices \cup {msg[h].id}
        /\ mails' = [mails EXCEPT ![Order(h)] = mails[Order(h)] + 1]
        /\ UNCHANGED <<stripeVars, gatewayVars, queue, orderVars, rowVars>>
        /\ UNCHANGED <<msg, entities, changed, line, doneVars, sales, happened>>
    BY DEF SendInvoice
  <1>2. HandlersType'
    BY <1>1 DEF GoTo, InTransaction, IInv, TypeOK, HandlersType
  <1>3. msg[h] \in Message /\ msg[h].kind = "billed"
    BY <1>1 DEF IInv, HandlerInv
  <1>4. HInv'
    BY <1>1, <1>2, <1>3, MoveOK DEF InTransaction, IInv, TypeOK, HInv
  <1>5. msg[h].id \in Nat \ {0} /\ Order(h) \in Orders
    BY <1>3 DEF Message, Order
  <1>6. mails' \in [Orders -> Nat]
    BY <1>1, <1>5 DEF IInv, TypeOK, EffectsType
  <1>7. StripeType' /\ GatewayType' /\ EffectsType'
    BY <1>1, <1>5, <1>6 DEF IInv, TypeOK, StripeType, GatewayType, EffectsType,
       stripeVars, gatewayVars, doneVars
  <1>8. QED
    BY <1>1, <1>4, <1>7, QuietRowsOK DEF IInv, TypeOK, HInv

LEMMA CommitBilledOK ==
    ASSUME IInv, NEW h \in Handlers, CommitBilled(h)
    PROVE  IInv'
  <1>1. /\ pc[h] = "commit" /\ Publish(h) /\ Finish(h)
        /\ ticketSets' = Append(ticketSets, msg[h].id)
        /\ UNCHANGED <<stripeVars, gatewayVars, queue, releases, mailVars, sales, happened>>
    BY DEF CommitBilled
  <1>2. msg[h].id \in Nat \ {0}
    BY <1>1 DEF IInv, HandlerInv, Message
  <1>3. StripeType' /\ GatewayType' /\ EffectsType'
    BY <1>1, <1>2 DEF IInv, TypeOK, StripeType, GatewayType, EffectsType, stripeVars,
       gatewayVars, mailVars
  <1>4. QED
    BY <1>1, <1>3, PublishOK, FinishOK DEF IInv, TypeOK, HInv

LEMMA CommitFailedOK ==
    ASSUME IInv, NEW h \in Handlers, CommitFailed(h)
    PROVE  IInv'
  <1> DEFINE r == [order |-> Order(h), id |-> msg[h].id]
  <1>1. /\ pc[h] = "commit" /\ Publish(h) /\ Finish(h)
        /\ releases' = Append(releases, r)
        /\ UNCHANGED <<stripeVars, gatewayVars, queue, ticketSets, mailVars, sales, happened>>
    BY DEF CommitFailed
  <1>2. r \in [order: Orders, id: Nat \ {0}]
    BY <1>1 DEF IInv, HandlerInv, Message, Order
  <1> HIDE DEF r
  <1>3. StripeType' /\ GatewayType' /\ EffectsType'
    BY <1>1, <1>2 DEF IInv, TypeOK, StripeType, GatewayType, EffectsType, stripeVars,
       gatewayVars, mailVars
  <1>4. QED
    BY <1>1, <1>3, PublishOK, FinishOK DEF IInv, TypeOK, HInv

LEMMA UpdateStatusOK ==
    ASSUME IInv, NEW h \in Handlers, UpdateStatus(h)
    PROVE  IInv'
  <1>1. /\ pc[h] = "status" /\ msg[h].kind = "failed"
        /\ GoTo(h, "read")
        /\ orderLock' = [orderLock EXCEPT ![Order(h)] = h]
        /\ statusDirty' = [statusDirty EXCEPT ![Order(h)] = "failed"]
        /\ UNCHANGED <<stripeVars, gatewayVars, queue, status, rowVars>>
        /\ UNCHANGED <<msg, entities, changed, line, doneVars, mailVars, sales, happened>>
    BY DEF UpdateStatus
  <1>2. HandlersType'
    BY <1>1 DEF GoTo, InTransaction, IInv, TypeOK, HandlersType
  <1>3. msg[h] \in Message /\ entities[h] = <<>> /\ line[h] = 1
    BY <1>1 DEF IInv, HandlerInv, LoopInv
  <1>4. Len(LinesFor(h)) \in Nat \ {0} /\ LinesFor(h)' = LinesFor(h)
    BY <1>1, <1>3, LinesOK DEF LinesFor, Order, Message
  <1>5. Len(entities'[h]) < Len(LinesFor(h)')
    BY <1>1, <1>3, <1>4
  <1>6. HInv'
    BY <1>1, <1>2, <1>3, <1>5, MoveOK DEF InTransaction, IInv, TypeOK, HInv
  <1>7. RowsType'
    BY <1>1 DEF IInv, TypeOK, RowsType, rowVars, Status
  <1>8. QED
    BY <1>1, <1>6, <1>7, AloneOK DEF IInv, TypeOK, HInv, GatewayType

LEMMA ReadOrderOK ==
    ASSUME IInv, NEW h \in Handlers, ReadOrder(h)
    PROVE  IInv'
  <1>1. CASE HandlerError(h) /\ UNCHANGED happened
    BY <1>1, HandlerErrorOK DEF IInv, TypeOK, EffectsType
  <1>2. CASE ~(HandlerError(h) /\ UNCHANGED happened)
    <2>1. /\ pc[h] = "order"
          /\ GoTo(h, "status")
          /\ UNCHANGED <<stripeVars, gatewayVars, queue, orderVars, rowVars>>
          /\ UNCHANGED <<msg, entities, changed, line, doneVars, mailVars, sales, happened>>
      BY <1>2 DEF ReadOrder
    <2>2. HandlersType'
      BY <2>1 DEF GoTo, InTransaction, IInv, TypeOK, HandlersType
    <2>3. /\ msg[h] \in Message /\ msg[h].kind \in {"failed", "canceled"}
          /\ entities[h] = <<>> /\ line[h] = 1
      BY <2>1 DEF IInv, HandlerInv, LoopInv
    <2>4. HInv'
      BY <2>1, <2>2, <2>3, MoveOK DEF InTransaction, IInv, TypeOK, HInv
    <2>5. QED
      BY <2>1, <2>4, AloneOK, QuietRowsOK DEF IInv, TypeOK, HInv, GatewayType
  <1>3. QED BY <1>1, <1>2

\* What a handler that processes the lines of its order knows of them.
LEMMA FailedOK ==
    ASSUME IInv, NEW h \in Handlers, pc[h] \in {"read", "diff", "save"}
    PROVE  /\ msg[h] \in Message /\ msg[h].kind = "failed"
           /\ Len(LinesFor(h)) \in Nat \ {0}
           /\ \A i \in 1..Len(LinesFor(h)) :
                 LinesFor(h)[i].category \in Categories /\ LinesFor(h)[i].quantity \in Nat
           /\ entities[h] \in Seq(TicketCategory) /\ Len(entities[h]) \in Nat
  <1>1. msg[h] \in Message /\ msg[h].kind = "failed"
    BY DEF IInv, HandlerInv
  <1>2. Order(h) \in Orders
    BY <1>1 DEF Order, Message
  <1>3. entities[h] \in Seq(TicketCategory)
    BY DEF IInv, TypeOK, HandlersType
  <1>4. QED BY <1>1, <1>2, <1>3, LinesOK DEF LinesFor

LEMMA ReadCategoryOK ==
    ASSUME IInv, NEW h \in Handlers, ReadCategory(h)
    PROVE  IInv'
  <1> DEFINE i == Len(entities[h]) + 1
             l == LinesFor(h)[i]
             e == [Visible(h, l.category) EXCEPT !.quantity = @ + l.quantity]
             next == IF i = Len(LinesFor(h)) THEN "diff" ELSE "read"
  <1>1. /\ pc[h] = "read"
        /\ GoTo(h, next)
        /\ entities' = [entities EXCEPT ![h] = Append(entities[h], e)]
        /\ UNCHANGED <<stripeVars, gatewayVars, queue, orderVars, rowVars>>
        /\ UNCHANGED <<msg, changed, line, doneVars, mailVars, sales, happened>>
    BY DEF ReadCategory
  <1>2. /\ Len(entities[h]) < Len(LinesFor(h)) /\ line[h] = 1
        /\ msg[h] \in Message /\ msg[h].kind = "failed"
        /\ Len(LinesFor(h)) \in Nat /\ Len(entities[h]) \in Nat
        /\ entities[h] \in Seq(TicketCategory)
    BY <1>1, FailedOK DEF IInv, LoopInv
  <1>3. i \in 1..Len(LinesFor(h))
    BY <1>2
  <1>4. l.category \in Categories /\ l.quantity \in Nat
    BY <1>1, <1>3, FailedOK
  <1>5. Visible(h, l.category) \in TicketCategory
    BY <1>4, VisibleOK DEF IInv, TypeOK
  <1>6. e \in TicketCategory
    <2> DEFINE v == Visible(h, l.category)
               n == l.quantity
    <2> HIDE DEF v, n
    <2>1. v \in TicketCategory /\ n \in Nat
      BY <1>4, <1>5 DEF v, n
    <2>2. [v EXCEPT !.quantity = @ + n] \in TicketCategory
      BY <2>1 DEF TicketCategory
    <2>3. QED BY <2>2 DEF v, n
  <1> HIDE DEF e
  <1>7. /\ Append(entities[h], e) \in Seq(TicketCategory)
        /\ Len(Append(entities[h], e)) = i
    BY <1>2, <1>6
  <1>8. /\ entities'[h] = Append(entities[h], e)
        /\ \A g \in Handlers \ {h} : entities'[g] = entities[g]
        /\ LinesFor(h)' = LinesFor(h)
    BY <1>1 DEF IInv, TypeOK, HandlersType, LinesFor, Order
  <1>9. next \in InTransaction /\ next \in {"diff", "read"}
    BY DEF InTransaction
  <1>10. HandlersType'
    BY <1>1, <1>7, <1>9 DEF GoTo, IInv, TypeOK, HandlersType
  <1>11. /\ next = "read" => Len(entities'[h]) < Len(LinesFor(h)')
         /\ next = "diff" => Len(entities'[h]) = Len(LinesFor(h)')
    BY <1>2, <1>7, <1>8
  <1> HIDE DEF next
  <1>12. HInv'
    BY <1>1, <1>2, <1>8, <1>9, <1>10, <1>11, MoveOK DEF IInv, TypeOK, HInv
  <1>13. QED
    BY <1>1, <1>12, AloneOK, QuietRowsOK DEF IInv, TypeOK, HInv, GatewayType

LEMMA SelectForSaveOK ==
    ASSUME IInv, NEW h \in Handlers, SelectForSave(h)
    PROVE  IInv'
  <1> DEFINE ch == [i \in DOMAIN entities[h] |->
                      ChangedColumns(entities[h][i], Visible(h, LinesFor(h)[i].category))]
  <1>1. /\ pc[h] = "diff"
        /\ GoTo(h, "save")
        /\ changed' = [changed EXCEPT ![h] = ch]
        /\ UNCHANGED <<stripeVars, gatewayVars, queue, orderVars, rowVars>>
        /\ UNCHANGED <<msg, entities, line, doneVars, mailVars, sales, happened>>
    BY DEF SelectForSave
  <1>2. /\ Len(entities[h]) = Len(LinesFor(h)) /\ line[h] = 1
        /\ msg[h] \in Message /\ msg[h].kind = "failed"
        /\ Len(LinesFor(h)) \in Nat \ {0}
        /\ entities[h] \in Seq(TicketCategory)
    BY <1>1, FailedOK DEF IInv, LoopInv
  <1>3. DOMAIN entities[h] = 1..Len(entities[h]) /\ Len(entities[h]) \in Nat
    BY <1>2
  <1>4. ch \in [1..Len(entities[h]) -> SUBSET Columns]
    BY <1>3 DEF ChangedColumns
  <1> HIDE DEF ch
  <1>5. ch \in Seq(SUBSET Columns) /\ Len(ch) = Len(entities[h])
    BY <1>3, <1>4
  <1>6. HandlersType'
    BY <1>1, <1>5 DEF GoTo, InTransaction, IInv, TypeOK, HandlersType
  <1>7. /\ changed'[h] = ch
        /\ \A g \in Handlers \ {h} : changed'[g] = changed[g]
        /\ LinesFor(h)' = LinesFor(h)
    BY <1>1 DEF IInv, TypeOK, HandlersType, LinesFor, Order
  <1>8. /\ Len(changed'[h]) = Len(entities'[h])
        /\ line'[h] \in 1..Len(entities'[h])
        /\ Len(entities'[h]) = Len(LinesFor(h)')
    BY <1>1, <1>2, <1>5, <1>7
  <1>9. HInv'
    BY <1>1, <1>2, <1>6, <1>7, <1>8, MoveOK DEF InTransaction, IInv, TypeOK, HInv
  <1>10. QED
    BY <1>1, <1>9, AloneOK, QuietRowsOK DEF IInv, TypeOK, HInv, GatewayType

LEMMA NextLineOK ==
    ASSUME IInv, NEW h \in Handlers, pc[h] = "save", NextLine(h)
    PROVE  StripeType' /\ GatewayType' /\ HInv' /\ EffectsType' /\ UNCHANGED <<orderVars, row>>
  <1> DEFINE next == IF line[h] = Len(entities[h]) THEN "commit" ELSE "save"
  <1>1. /\ line' = [line EXCEPT ![h] = line[h] + 1]
        /\ GoTo(h, next)
        /\ UNCHANGED <<stripeVars, gatewayVars, queue, orderVars, row>>
        /\ UNCHANGED <<msg, entities, changed, doneVars, mailVars, sales, happened>>
    BY DEF NextLine
  <1>2. /\ Len(entities[h]) = Len(LinesFor(h))
        /\ Len(changed[h]) = Len(entities[h])
        /\ line[h] \in 1..Len(entities[h])
        /\ msg[h] \in Message /\ msg[h].kind = "failed"
        /\ Len(entities[h]) \in Nat
    BY FailedOK DEF IInv, LoopInv
  <1>3. next \in InTransaction /\ next \in {"commit", "save"}
    BY DEF InTransaction
  <1>4. HandlersType'
    BY <1>1, <1>2, <1>3 DEF GoTo, IInv, TypeOK, HandlersType
  <1>5. /\ line'[h] = line[h] + 1
        /\ \A g \in Handlers \ {h} : line'[g] = line[g]
        /\ LinesFor(h)' = LinesFor(h)
    BY <1>1 DEF IInv, TypeOK, HandlersType, LinesFor, Order
  <1>6. next = "save" => line'[h] \in 1..Len(entities[h])
    BY <1>2, <1>5
  <1> HIDE DEF next
  <1>7. HInv'
    BY <1>1, <1>2, <1>3, <1>4, <1>5, <1>6, MoveOK DEF IInv, TypeOK, HInv
  <1>8. QED
    BY <1>1, <1>7, AloneOK DEF IInv, TypeOK, GatewayType

LEMMA SaveLineOK ==
    ASSUME IInv, NEW h \in Handlers, SaveLine(h)
    PROVE  IInv'
  <1> DEFINE i == line[h]
             c == LinesFor(h)[i].category
  <1>1. PICK v \in NextVersions(entities[h][i], dirty[c], changed[h][i]) :
            dirty' = [dirty EXCEPT ![c] = SavedRow(entities[h][i], dirty[c], changed[h][i], v)]
    BY DEF SaveLine
  <1>2. pc[h] = "save" /\ lock' = [lock EXCEPT ![c] = h] /\ NextLine(h)
    BY DEF SaveLine
  <1>3. /\ i \in 1..Len(LinesFor(h)) /\ Len(entities[h]) = Len(LinesFor(h))
        /\ Len(changed[h]) = Len(entities[h])
        /\ entities[h] \in Seq(TicketCategory) /\ changed[h] \in Seq(SUBSET Columns)
    BY <1>2 DEF IInv, TypeOK, HandlersType, LoopInv
  <1>4. /\ entities[h][i] \in TicketCategory /\ changed[h][i] \in SUBSET Columns
        /\ c \in Categories
    BY <1>2, <1>3, FailedOK
  <1>5. dirty[c] \in TicketCategory
    BY <1>4 DEF IInv, TypeOK, RowsType
  <1> HIDE DEF c, i
  <1>6. SavedRow(entities[h][i], dirty[c], changed[h][i], v) \in TicketCategory
    BY <1>1, <1>4, <1>5, SavedRowOK
  <1>7. UNCHANGED <<orderVars, row>>
    BY <1>2, NextLineOK
  <1>8. RowsType'
    BY <1>1, <1>2, <1>6, <1>7 DEF IInv, TypeOK, RowsType, orderVars
  <1>9. QED BY <1>2, <1>8, NextLineOK DEF IInv, TypeOK, HInv

LEMMA SkipLineOK ==
    ASSUME IInv, NEW h \in Handlers, SkipLine(h)
    PROVE  IInv'
  <1>1. pc[h] = "save" /\ NextLine(h) /\ UNCHANGED <<dirty, lock>>
    BY DEF SkipLine
  <1>2. UNCHANGED <<orderVars, rowVars>>
    BY <1>1, NextLineOK DEF rowVars
  <1>3. QED BY <1>1, <1>2, NextLineOK, QuietRowsOK DEF IInv, TypeOK, HInv

LEMMA HandleOK ==
    ASSUME IInv, NEW h \in Handlers, Handle(h)
    PROVE  IInv'
  <1>1. CASE CompleteOrder(h) BY <1>1, CompleteOrderOK
  <1>2. CASE SendInvoice(h) BY <1>2, SendInvoiceOK
  <1>3. CASE CommitBilled(h) BY <1>3, CommitBilledOK
  <1>4. CASE ReadOrder(h) BY <1>4, ReadOrderOK
  <1>5. CASE RejectCanceled(h)
    BY <1>5, HandlerErrorOK DEF RejectCanceled, IInv, TypeOK, EffectsType
  <1>6. CASE UpdateStatus(h) BY <1>6, UpdateStatusOK
  <1>7. CASE ReadCategory(h) BY <1>7, ReadCategoryOK
  <1>8. CASE SelectForSave(h) BY <1>8, SelectForSaveOK
  <1>9. CASE SaveLine(h) BY <1>9, SaveLineOK
  <1>10. CASE SkipLine(h) BY <1>10, SkipLineOK
  <1>11. CASE CommitFailed(h) BY <1>11, CommitFailedOK
  <1>12. QED
    BY <1>1, <1>2, <1>3, <1>4, <1>5, <1>6, <1>7, <1>8, <1>9, <1>10, <1>11 DEF Handle

-----------------------------------------------------------------------------
(* The theorems *)

LEMMA NextOK ==
    ASSUME IInv, [Next]_vars
    PROVE  IInv'
  <1>1. ASSUME NEW o \in Orders,
               \/ Pay(o) \/ AttemptFails(o) \/ Cancel(o)
               \/ MailTickets(o) \/ MailFindsNothing(o)
        PROVE  IInv'
    BY <1>1, StripeOK, MailOK
  <1>2. CASE Webhook \/ GatewayDies
    BY <1>2, WebhookOK, GatewayDiesOK
  <1>3. ASSUME NEW m \in queue, LoseMessage(m) \/ ParseFails(m) \/ \E h \in Handlers : TakeMessage(h, m)
        PROVE  IInv'
    BY <1>3, LoseMessageOK, TakeMessageOK
  <1>4. ASSUME NEW h \in Handlers, Handle(h) \/ DbFailure(h) \/ DeadlockAbort(h)
        PROVE  IInv'
    <2>1. CASE Handle(h) BY <2>1, HandleOK
    <2>2. CASE DbFailure(h)
      BY <2>2, HandlerErrorOK DEF DbFailure, Happens, IInv, TypeOK, EffectsType
    <2>3. CASE DeadlockAbort(h)
      BY <2>3, HandlerErrorOK DEF DeadlockAbort, IInv, TypeOK, EffectsType
    <2>4. QED BY <1>4, <2>1, <2>2, <2>3
  <1>5. CASE ApiDies
    BY <1>5, ApiStopsOK DEF ApiDies, Happens, IInv, TypeOK, EffectsType
  <1>6. ASSUME NEW c \in Categories, SellTicket(c) PROVE IInv'
    BY <1>6, SellTicketOK
  <1>7. CASE UNCHANGED vars
    <2>1. /\ UNCHANGED <<stripeVars, gatewayVars, queue, orderVars, rowVars>>
          /\ UNCHANGED <<handlerVars, doneVars, mailVars, sales, happened>>
      BY <1>7 DEF vars
    <2>2. QED
      BY <2>1, AloneOK, QuietHandlersOK, QuietRowsOK DEF IInv, TypeOK, HInv, GatewayType
  <1>8. QED
    BY <1>1, <1>2, <1>3, <1>4, <1>5, <1>6, <1>7 DEF Next, Settled

\* Every reachable state is well formed: payments, messages, rows, locks and the
\* places of the handlers in their lines keep their types in every interleaving
\* (stripe.service.ts, orders.service.ts).
THEOREM TypeCorrect == Spec => []TypeOK
  <1>1. Init => IInv
    BY InitOK
  <1>2. IInv /\ [Next]_vars => IInv'
    BY NextOK
  <1>3. IInv => TypeOK
    BY DEF IInv
  <1>4. QED BY <1>1, <1>2, <1>3, PTL DEF Spec

-----------------------------------------------------------------------------
(* The inductive invariant of messages, locks and effects                    *)

Busy(h) == pc[h] # "idle"

\* The messages nobody is done with.
Live == queue \cup {msg[h] : h \in {g \in Handlers : Busy(g)}}

\* A message is queued or handled, never both, and by one handler only.
QueueInv ==
    /\ \A h \in Handlers : Busy(h) => msg[h] \notin queue
    /\ \A g, h \in Handlers : Busy(g) /\ Busy(h) /\ msg[g] = msg[h] => g = h

\* A payment is with its webhook, or its message is live, or it made tickets.
PaymentInv ==
    /\ \A m \in Live : m.kind = "billed" =>
          /\ m.id \in DOMAIN payments \ webhooks
          /\ payments[m.id] = m.order
          /\ \A i \in DOMAIN ticketSets : ticketSets[i] # m.id
    /\ \A i \in DOMAIN ticketSets : ticketSets[i] \in DOMAIN payments \ webhooks
    /\ \A i, j \in DOMAIN ticketSets : ticketSets[i] = ticketSets[j] => i = j

\* The message of a notice is live, or it made a release.
NoticeInv ==
    /\ \A m \in Live : m.kind # "billed" =>
          /\ m.id <= notices
          /\ \A i \in DOMAIN releases : releases[i].id # m.id
    /\ \A m, n \in Live : m.kind # "billed" /\ n.kind # "billed" /\ m.id = n.id => m = n
    /\ \A i \in DOMAIN releases : releases[i].id <= notices
    /\ \A i, j \in DOMAIN releases : releases[i].id = releases[j].id => i = j

\* The lock of an order is held from the update of its status to the end of the
\* transaction, and the uncommitted status is the one the holder will commit.
Locks(h) == pc[h] \in {"invoice", "read", "diff", "save", "commit"}
Outcome(h) == IF msg[h].kind = "billed" THEN "completed" ELSE "failed"

LockInv ==
    /\ \A h \in Handlers : Locks(h) => orderLock[Order(h)] = h
    /\ \A o \in Orders :
          IF orderLock[o] = Free
             THEN statusDirty[o] = status[o]
             ELSE \E h \in Handlers : /\ orderLock[o] = h /\ Locks(h) /\ Order(h) = o
                                      /\ statusDirty[o] = Outcome(h)

\* The invoice is sent before the commit.
InvoiceInv ==
    /\ TicketsWereInvoiced
    /\ \A h \in Handlers :
          pc[h] = "commit" /\ msg[h].kind = "billed" => msg[h].id \in invoices

MessagesInv == IInv /\ QueueInv /\ PaymentInv /\ NoticeInv
SafetyInv == MessagesInv /\ LockInv /\ InvoiceInv /\ StatusMatchesEffects

-----------------------------------------------------------------------------
(* Messages *)

\* No payment, notice or effect is new, and no message becomes live.
Quiet ==
    /\ UNCHANGED <<payments, notices, ticketSets, releases>>
    /\ webhooks' \subseteq webhooks
    /\ queue' \subseteq queue
    /\ \A h \in Handlers : Busy(h)' => Busy(h) /\ msg'[h] = msg[h]

LEMMA LiveOK ==
    ASSUME IInv
    PROVE  /\ Live \subseteq Sent
           /\ \A h \in Handlers : Busy(h) => msg[h] \in Live
           /\ queue \subseteq Live
           /\ \A m \in Live : m \in queue \/ \E h \in Handlers : Busy(h) /\ m = msg[h]
  BY DEF Live, Busy, IInv, TypeOK, GatewayType, HandlerInv, Sent

LEMMA QuietMessages ==
    ASSUME QueueInv, PaymentInv, NoticeInv, Quiet
    PROVE  QueueInv' /\ PaymentInv' /\ NoticeInv'
  <1>1. Live' \subseteq Live
    BY DEF Live, Quiet
  <1>2. QueueInv'
    BY DEF QueueInv, Quiet
  <1>3. PaymentInv'
    BY <1>1 DEF PaymentInv, Quiet
  <1>4. NoticeInv'
    BY <1>1 DEF NoticeInv, Quiet
  <1>5. QED BY <1>2, <1>3, <1>4

LEMMA SavePaymentMessages ==
    ASSUME MessagesInv, NEW e \in events, SavePayment(e)
    PROVE  QueueInv' /\ PaymentInv' /\ NoticeInv'
  <1>1. /\ payments' = Append(payments, e.order)
        /\ webhooks' = webhooks \cup {Len(payments) + 1}
        /\ UNCHANGED <<notices, queue, pc, msg, ticketSets, releases>>
    BY DEF SavePayment, handlerVars, doneVars
  <1>2. payments \in Seq(Orders)
    BY DEF MessagesInv, IInv, TypeOK, GatewayType
  <1>3. /\ DOMAIN payments \subseteq DOMAIN payments'
        /\ Len(payments) + 1 \notin DOMAIN payments
        /\ \A p \in DOMAIN payments : payments'[p] = payments[p]
    BY <1>1, <1>2
  <1>4. Live' = Live
    BY <1>1 DEF Live, Busy
  <1>5. PaymentInv'
    BY <1>1, <1>3, <1>4 DEF MessagesInv, PaymentInv
  <1>6. QueueInv' /\ NoticeInv'
    BY <1>1, <1>4 DEF MessagesInv, QueueInv, NoticeInv, Busy
  <1>7. QED BY <1>5, <1>6

\* A message is new: it is not live yet.
LEMMA SendMessages ==
    ASSUME MessagesInv, NEW m, m \notin Live, queue' = queue \cup {m},
           UNCHANGED <<pc, msg>>
    PROVE  QueueInv' /\ Live' = Live \cup {m}
  <1>1. Live' = Live \cup {m}
    BY DEF Live, Busy
  <1>2. \A h \in Handlers : Busy(h) => msg[h] # m
    BY DEF Live
  <1>3. QueueInv'
    BY <1>2 DEF QueueInv, Busy, MessagesInv
  <1>4. QED BY <1>1, <1>3

LEMMA EmitBilledMessages ==
    ASSUME MessagesInv, NEW p \in webhooks, EmitBilled(p)
    PROVE  QueueInv' /\ PaymentInv' /\ NoticeInv'
  <1> DEFINE m == [kind |-> "billed", order |-> payments[p], id |-> p]
  <1>1. /\ webhooks' = webhooks \ {p}
        /\ queue' = queue \cup {m}
        /\ UNCHANGED <<payments, notices, pc, msg, ticketSets, releases>>
    BY DEF EmitBilled, Send, handlerVars, doneVars
  <1>2. p \in DOMAIN payments /\ payments[p] \in Orders /\ p \in Nat \ {0}
    BY DEF MessagesInv, IInv, TypeOK, GatewayType
  <1>3. m \in Message /\ m.kind = "billed" /\ m.id = p /\ m.order = payments[p]
    BY <1>2 DEF Message
  <1> HIDE DEF m
  <1>4. m \notin Live
    BY <1>3 DEF MessagesInv, PaymentInv
  <1>5. QueueInv' /\ Live' = Live \cup {m}
    BY <1>1, <1>3, <1>4, SendMessages
  <1>6. PaymentInv'
    BY <1>1, <1>2, <1>3, <1>5 DEF MessagesInv, PaymentInv
  <1>7. NoticeInv'
    BY <1>1, <1>3, <1>5 DEF MessagesInv, NoticeInv
  <1>8. QED BY <1>5, <1>6, <1>7

LEMMA EmitFailedMessages ==
    ASSUME MessagesInv, NEW e \in events, EmitFailed(e)
    PROVE  QueueInv' /\ PaymentInv' /\ NoticeInv'
  <1> DEFINE m == [kind |-> e.kind, order |-> IntentOrder(e.order), id |-> notices + 1]
  <1>1. /\ notices' = notices + 1
        /\ queue' = queue \cup {m}
        /\ UNCHANGED <<payments, webhooks, pc, msg, ticketSets, releases>>
    BY DEF EmitFailed, Send, handlerVars, doneVars
  <1>2. e.kind \in {"failed", "canceled"} /\ notices \in Nat
    BY DEF MessagesInv, IInv, TypeOK, StripeType, GatewayType, Event, EmitFailed
  <1>3. m.kind # "billed" /\ m.id = notices + 1
    BY <1>2 DEF Message
  <1> HIDE DEF m
  <1>4. \A n \in Live : n.id \in Nat
    BY LiveOK DEF MessagesInv, Sent, Message, Unreadable
  <1>5. \A n \in Live : n.kind # "billed" => n.id # m.id /\ n.id <= notices'
    BY <1>1, <1>2, <1>3, <1>4 DEF MessagesInv, NoticeInv
  <1>6. m \notin Live
    BY <1>3, <1>5
  <1>7. QueueInv' /\ Live' = Live \cup {m}
    BY <1>1, <1>3, <1>6, SendMessages
  <1>8. PaymentInv'
    BY <1>1, <1>3, <1>7 DEF MessagesInv, PaymentInv
  <1>9. \A i \in DOMAIN releases : releases[i].id \in Nat
    <2> DEFINE R == [order: Orders, id: Nat \ {0}]
    <2>1. \A r \in R : r.id \in Nat
      OBVIOUS
    <2>2. releases \in Seq(R)
      BY DEF MessagesInv, IInv, TypeOK, EffectsType
    <2> HIDE DEF R
    <2>3. \A i \in DOMAIN releases : releases[i] \in R
      BY <2>2
    <2>4. QED BY <2>1, <2>3
  <1>10. \A i \in DOMAIN releases : releases[i].id <= notices' /\ releases[i].id # m.id
    BY <1>1, <1>2, <1>3, <1>9 DEF MessagesInv, NoticeInv
  <1>11. NoticeInv'
    BY <1>1, <1>2, <1>3, <1>5, <1>7, <1>10 DEF MessagesInv, NoticeInv
  <1>12. QED BY <1>7, <1>8, <1>11

LEMMA TakeMessageMessages ==
    ASSUME MessagesInv, NEW h \in Handlers, NEW m \in queue, TakeMessage(h, m)
    PROVE  QueueInv' /\ PaymentInv' /\ NoticeInv'
  <1>1. /\ pc[h] = "idle" /\ queue' = queue \ {m}
        /\ msg'[h] = m /\ pc'[h] # "idle"
        /\ \A g \in Handlers \ {h} : msg'[g] = msg[g] /\ pc'[g] = pc[g]
        /\ UNCHANGED <<payments, webhooks, notices, ticketSets, releases>>
    BY DEF TakeMessage, GoTo, MessagesInv, IInv, TypeOK, HandlersType, gatewayVars, doneVars
  <1>2. Live' \subseteq Live
    BY <1>1 DEF Live, Busy
  <1>3. QueueInv'
    BY <1>1 DEF QueueInv, Busy, MessagesInv
  <1>4. PaymentInv' /\ NoticeInv'
    BY <1>1, <1>2 DEF MessagesInv, PaymentInv, NoticeInv
  <1>5. QED BY <1>3, <1>4

\* The message of a handler that ends is live no more.
LEMMA FinishMessages ==
    ASSUME MessagesInv, NEW h \in Handlers, Busy(h), Finish(h), UNCHANGED queue
    PROVE  /\ QueueInv' /\ Live' = Live \ {msg[h]}
           /\ \A g \in Handlers : Busy(g)' => g # h /\ Busy(g) /\ msg'[g] = msg[g]
  <1>1. /\ ~Busy(h)'
        /\ \A g \in Handlers \ {h} : msg'[g] = msg[g] /\ Busy(g)' = Busy(g)
    BY DEF Finish, Busy, MessagesInv, IInv, TypeOK, HandlersType
  <1>2. Live' = Live \ {msg[h]}
    BY <1>1 DEF Live, MessagesInv, QueueInv
  <1>3. QueueInv'
    BY <1>1 DEF QueueInv, MessagesInv
  <1>4. QED BY <1>1, <1>2, <1>3

LEMMA CommitBilledMessages ==
    ASSUME MessagesInv, NEW h \in Handlers, CommitBilled(h)
    PROVE  QueueInv' /\ PaymentInv' /\ NoticeInv'
  <1>1. /\ Busy(h) /\ msg[h].kind = "billed" /\ Finish(h)
        /\ ticketSets' = Append(ticketSets, msg[h].id)
        /\ UNCHANGED <<payments, webhooks, notices, queue, releases>>
    BY DEF CommitBilled, Busy, gatewayVars
  <1>2. msg[h] \in Live /\ msg[h] \in Message /\ Live \subseteq Sent
    BY <1>1, LiveOK DEF MessagesInv, Busy, IInv, HandlerInv
  <1>3. QueueInv' /\ Live' = Live \ {msg[h]}
    BY <1>1, FinishMessages
  <1>4. ticketSets \in Seq(Nat \ {0})
    BY DEF MessagesInv, IInv, TypeOK, EffectsType
  <1>5. /\ DOMAIN ticketSets' = DOMAIN ticketSets \cup {Len(ticketSets) + 1}
        /\ \A i \in DOMAIN ticketSets : ticketSets'[i] = ticketSets[i]
        /\ ticketSets'[Len(ticketSets) + 1] = msg[h].id
    BY <1>1, <1>2, <1>4 DEF Message
  <1>6. ASSUME NEW m \in Live', m.kind = "billed" PROVE m.id # msg[h].id
    <2>1. m \in Live /\ m # msg[h] /\ m \in Message /\ msg[h] \in Message
      BY <1>2, <1>3, <1>6 DEF Sent, Unreadable
    <2>2. m.order = payments[m.id] /\ msg[h].order = payments[msg[h].id]
      BY <1>1, <1>2, <1>6, <2>1 DEF MessagesInv, PaymentInv
    <2>3. SUFFICES ASSUME m.id = msg[h].id PROVE m = msg[h]
      BY <2>1
    <2>4. QED BY <1>1, <1>6, <2>1, <2>2, <2>3 DEF Message
  <1>7. PaymentInv'
    BY <1>1, <1>2, <1>3, <1>5, <1>6 DEF MessagesInv, PaymentInv
  <1>8. NoticeInv'
    BY <1>1, <1>3 DEF MessagesInv, NoticeInv
  <1>9. QED BY <1>3, <1>7, <1>8

LEMMA CommitFailedMessages ==
    ASSUME MessagesInv, NEW h \in Handlers, CommitFailed(h)
    PROVE  QueueInv' /\ PaymentInv' /\ NoticeInv'
  <1> DEFINE r == [order |-> Order(h), id |-> msg[h].id]
  <1>1. /\ Busy(h) /\ msg[h].kind = "failed" /\ Finish(h)
        /\ releases' = Append(releases, r)
        /\ UNCHANGED <<payments, webhooks, notices, queue, ticketSets>>
    BY DEF CommitFailed, Busy, gatewayVars
  <1>2. msg[h] \in Live /\ msg[h] \in Message
    BY <1>1, LiveOK DEF MessagesInv, Busy, IInv, HandlerInv
  <1>3. QueueInv' /\ Live' = Live \ {msg[h]}
    BY <1>1, FinishMessages
  <1>4. releases \in Seq([order: Orders, id: Nat \ {0}])
    BY DEF MessagesInv, IInv, TypeOK, EffectsType
  <1>5. r \in [order: Orders, id: Nat \ {0}] /\ r.id = msg[h].id
    BY <1>2 DEF Message, Order
  <1> HIDE DEF r
  <1>6. /\ DOMAIN releases' = DOMAIN releases \cup {Len(releases) + 1}
        /\ \A i \in DOMAIN releases : releases'[i] = releases[i]
        /\ releases'[Len(releases) + 1] = r
    BY <1>1, <1>4, <1>5
  <1>7. \A m \in Live' : m.kind # "billed" => m.id # msg[h].id
    BY <1>1, <1>2, <1>3 DEF MessagesInv, NoticeInv
  <1>8. NoticeInv'
    BY <1>1, <1>2, <1>3, <1>5, <1>6, <1>7 DEF MessagesInv, NoticeInv
  <1>9. PaymentInv'
    BY <1>1, <1>3 DEF MessagesInv, PaymentInv
  <1>10. QED BY <1>3, <1>8, <1>9

\* Every other step is quiet.
LEMMA FinishQuiet ==
    ASSUME IInv, NEW h \in Handlers, Finish(h),
           UNCHANGED <<gatewayVars, queue, doneVars>>
    PROVE  Quiet
  <1>1. \A g \in Handlers : Busy(g)' => Busy(g) /\ msg'[g] = msg[g]
    BY DEF Finish, Busy, IInv, TypeOK, HandlersType
  <1>2. QED BY <1>1 DEF Quiet, gatewayVars, doneVars

LEMMA MoveQuiet ==
    ASSUME IInv, NEW h \in Handlers, Busy(h), NEW next, GoTo(h, next), UNCHANGED msg,
           UNCHANGED <<gatewayVars, queue, doneVars>>
    PROVE  Quiet
  <1>1. \A g \in Handlers : Busy(g)' => Busy(g) /\ msg'[g] = msg[g]
    BY DEF GoTo, Busy, IInv, TypeOK, HandlersType
  <1>2. QED BY <1>1 DEF Quiet, gatewayVars, doneVars

LEMMA HandleMessages ==
    ASSUME MessagesInv, NEW h \in Handlers, Handle(h)
    PROVE  QueueInv' /\ PaymentInv' /\ NoticeInv'
  <1>1. CASE CommitBilled(h) BY <1>1, CommitBilledMessages
  <1>2. CASE CommitFailed(h) BY <1>2, CommitFailedMessages
  <1>3. CASE HandlerError(h)
    BY <1>3, FinishQuiet, QuietMessages DEF HandlerError, MessagesInv
  <1>4. CASE ReadOrder(h) /\ ~HandlerError(h)
    BY <1>4, MoveQuiet, QuietMessages DEF ReadOrder, Busy, MessagesInv
  <1>5. CASE CompleteOrder(h) \/ SendInvoice(h) \/ UpdateStatus(h)
    BY <1>5, MoveQuiet, QuietMessages
       DEF CompleteOrder, SendInvoice, UpdateStatus, Busy, MessagesInv
  <1>6. CASE ReadCategory(h) \/ SelectForSave(h)
    BY <1>6, MoveQuiet, QuietMessages DEF ReadCategory, SelectForSave, Busy, MessagesInv
  <1>7. CASE SaveLine(h) \/ SkipLine(h)
    <2>1. NextLine(h) /\ Busy(h)
      BY <1>7 DEF SaveLine, SkipLine, Busy
    <2>2. QED BY <2>1, MoveQuiet, QuietMessages DEF NextLine, MessagesInv
  <1>8. CASE RejectCanceled(h)
    BY <1>8, <1>3 DEF RejectCanceled
  <1>9. QED
    BY <1>1, <1>2, <1>3, <1>4, <1>5, <1>6, <1>7, <1>8 DEF Handle

LEMMA NextMessages ==
    ASSUME MessagesInv, [Next]_vars
    PROVE  MessagesInv'
  <1>1. IInv'
    BY NextOK DEF MessagesInv
  <1>2. ASSUME NEW o \in Orders,
               \/ Pay(o) \/ AttemptFails(o) \/ Cancel(o)
               \/ MailTickets(o) \/ MailFindsNothing(o)
        PROVE  Quiet
    <2>1. CASE Pay(o) \/ AttemptFails(o) \/ Cancel(o)
      BY <2>1 DEF Pay, AttemptFails, Cancel, Quiet, Busy, gatewayVars, doneVars, handlerVars
    <2>2. CASE MailTickets(o)
      BY <2>2 DEF MailTickets, Quiet, Busy, gatewayVars, doneVars, handlerVars
    <2>3. CASE MailFindsNothing(o)
      BY <2>3 DEF MailFindsNothing, ApiStops, Quiet, Busy, gatewayVars, doneVars
    <2>4. QED BY <1>2, <2>1, <2>2, <2>3
  <1>3. ASSUME Webhook PROVE QueueInv' /\ PaymentInv' /\ NoticeInv'
    <2>1. ASSUME NEW e \in events, SavePayment(e) \/ EmitFailed(e)
          PROVE  QueueInv' /\ PaymentInv' /\ NoticeInv'
      BY <2>1, SavePaymentMessages, EmitFailedMessages
    <2>2. ASSUME NEW p \in webhooks, EmitBilled(p)
          PROVE  QueueInv' /\ PaymentInv' /\ NoticeInv'
      BY <2>2, EmitBilledMessages
    <2>3. QED BY <1>3, <2>1, <2>2 DEF Webhook
  <1>4. ASSUME GatewayDies PROVE Quiet
    BY <1>4 DEF GatewayDies, Quiet, Busy, doneVars, handlerVars
  <1>5. ASSUME NEW m \in queue, LoseMessage(m) \/ ParseFails(m) PROVE Quiet
    BY <1>5 DEF LoseMessage, ParseFails, Quiet, Busy, gatewayVars, doneVars, handlerVars
  <1>6. ASSUME NEW h \in Handlers, DbFailure(h) \/ DeadlockAbort(h) PROVE Quiet
    BY <1>6, FinishQuiet DEF DbFailure, DeadlockAbort, HandlerError, MessagesInv
  <1>7. ASSUME ApiDies PROVE Quiet
    BY <1>7 DEF ApiDies, ApiStops, Quiet, Busy, gatewayVars, doneVars
  <1>8. ASSUME NEW c \in Categories, SellTicket(c) PROVE Quiet
    BY <1>8 DEF SellTicket, Quiet, Busy, gatewayVars, doneVars, handlerVars
  <1>9. ASSUME UNCHANGED vars PROVE Quiet
    BY <1>9 DEF vars, Quiet, Busy, gatewayVars, doneVars, handlerVars
  <1>10. QueueInv' /\ PaymentInv' /\ NoticeInv'
    <2>1. CASE Quiet
      BY <2>1, QuietMessages DEF MessagesInv
    <2>2. CASE \E m \in queue, h \in Handlers : TakeMessage(h, m)
      BY <2>2, TakeMessageMessages
    <2>3. CASE \E h \in Handlers : Handle(h)
      BY <2>3, HandleMessages
    <2>4. QED
      BY <1>2, <1>3, <1>4, <1>5, <1>6, <1>7, <1>8, <1>9, <2>1, <2>2, <2>3
         DEF Next, Settled
  <1>11. QED BY <1>1, <1>10 DEF MessagesInv

LEMMA InitMessages == Init => MessagesInv
  <1> SUFFICES ASSUME Init PROVE MessagesInv
    OBVIOUS
  <1>1. IInv
    BY InitOK
  <1>2. Live = {} /\ \A h \in Handlers : ~Busy(h)
    BY DEF Init, Live, Busy
  <1>3. DOMAIN ticketSets = {} /\ DOMAIN releases = {}
    BY DEF Init
  <1>4. QED
    BY <1>1, <1>2, <1>3 DEF MessagesInv, QueueInv, PaymentInv, NoticeInv

\* Whatever Stripe repeats and whatever is lost or interrupted, a payment makes
\* at most one set of tickets and a notice releases at most once
\* (stripe.service.ts:116-181, orders.service.ts:552-738).
THEOREM MessageSafety == Spec => []OneEffectPerMessage
  <1>1. Init => MessagesInv
    BY InitMessages
  <1>2. MessagesInv /\ [Next]_vars => MessagesInv'
    BY NextMessages
  <1>3. MessagesInv => OneEffectPerMessage
    BY DEF MessagesInv, PaymentInv, NoticeInv, OneEffectPerMessage
  <1>4. QED BY <1>1, <1>2, <1>3, PTL DEF Spec

-----------------------------------------------------------------------------
(* The locks of the orders *)

LEMMA QuietLocks ==
    ASSUME LockInv, UNCHANGED orderVars,
           \A h \in Handlers : Locks(h)' = Locks(h) /\ (Locks(h) => msg'[h] = msg[h])
    PROVE  LockInv'
  BY DEF LockInv, orderVars, Order, Outcome

LEMMA MoveLocks ==
    ASSUME IInv, LockInv, NEW h \in Handlers, NEW next, GoTo(h, next),
           Locks(h) = (next \in {"invoice", "read", "diff", "save", "commit"}),
           UNCHANGED orderVars, UNCHANGED msg
    PROVE  LockInv'
  <1>1. \A g \in Handlers : Locks(g)' = Locks(g)
    BY DEF GoTo, Locks, IInv, TypeOK, HandlersType
  <1>2. QED BY <1>1, QuietLocks

LEMMA LockOrder ==
    ASSUME IInv, LockInv, NEW h \in Handlers, Order(h) \in Orders,
           orderLock[Order(h)] = Free,
           orderLock' = [orderLock EXCEPT ![Order(h)] = h],
           statusDirty' = [statusDirty EXCEPT ![Order(h)] = Outcome(h)],
           NEW next \in {"invoice", "read"}, GoTo(h, next),
           UNCHANGED <<status, msg>>
    PROVE  LockInv'
  <1>1. /\ Locks(h)'
        /\ \A g \in Handlers \ {h} : Locks(g)' = Locks(g)
        /\ \A g \in Handlers : Order(g)' = Order(g) /\ Outcome(g)' = Outcome(g)
    BY DEF GoTo, Locks, Order, Outcome, IInv, TypeOK, HandlersType
  <1>2. /\ orderLock'[Order(h)] = h /\ statusDirty'[Order(h)] = Outcome(h)
        /\ \A o \in Orders \ {Order(h)} :
              orderLock'[o] = orderLock[o] /\ statusDirty'[o] = statusDirty[o]
    BY DEF IInv, TypeOK, RowsType
  <1>3. \A g \in Handlers \ {h} : Locks(g) => Order(g) # Order(h)
    BY ConstantsAssumption DEF LockInv
  <1>4. \A g \in Handlers : Locks(g) => Order(g) \in Orders
    BY DEF IInv, HandlerInv, Locks, Order, Message
  <1>5. ASSUME NEW g \in Handlers, Locks(g)' PROVE orderLock'[Order(g)'] = g
    BY <1>1, <1>2, <1>3, <1>4, <1>5 DEF LockInv
  <1>6. ASSUME NEW o \in Orders
        PROVE  IF orderLock'[o] = Free
                  THEN statusDirty'[o] = status'[o]
                  ELSE \E g \in Handlers : /\ orderLock'[o] = g /\ Locks(g)' /\ Order(g)' = o
                                           /\ statusDirty'[o] = Outcome(g)'
    <2>1. CASE o = Order(h)
      BY <2>1, <1>1, <1>2, ConstantsAssumption
    <2>2. CASE o # Order(h)
      BY <2>2, <1>1, <1>2, ConstantsAssumption DEF LockInv
    <2>3. QED BY <2>1, <2>2
  <1>7. QED BY <1>5, <1>6 DEF LockInv

\* The end of a transaction unlocks its order and leaves the others alone.
LEMMA UnlockOrder ==
    ASSUME IInv, LockInv, NEW h \in Handlers, Finish(h), ReleaseLocks(h),
           \A o \in Orders : IF orderLock[o] = h
                                THEN statusDirty'[o] = status'[o]
                                ELSE UNCHANGED <<statusDirty[o], status[o]>>
    PROVE  LockInv'
  <1>1. /\ ~Locks(h)'
        /\ \A g \in Handlers \ {h} : /\ Locks(g)' = Locks(g) /\ Order(g)' = Order(g)
                                     /\ Outcome(g)' = Outcome(g)
    BY DEF Finish, Locks, Order, Outcome, IInv, TypeOK, HandlersType
  <1>2. \A o \in Orders : orderLock'[o] = IF orderLock[o] = h THEN Free ELSE orderLock[o]
    BY DEF ReleaseLocks
  <1>3. \A g \in Handlers : Locks(g) => Order(g) \in Orders
    BY DEF IInv, HandlerInv, Locks, Order, Message
  <1>4. ASSUME NEW g \in Handlers, Locks(g)' PROVE orderLock'[Order(g)'] = g
    BY <1>1, <1>2, <1>3, <1>4 DEF LockInv
  <1>5. ASSUME NEW o \in Orders
        PROVE  IF orderLock'[o] = Free
                  THEN statusDirty'[o] = status'[o]
                  ELSE \E g \in Handlers : /\ orderLock'[o] = g /\ Locks(g)' /\ Order(g)' = o
                                           /\ statusDirty'[o] = Outcome(g)'
    <2>1. CASE orderLock[o] = h
      BY <2>1, <1>2
    <2>2. CASE orderLock[o] # h
      BY <2>2, <1>1, <1>2 DEF LockInv
    <2>3. QED BY <2>1, <2>2
  <1>6. QED BY <1>4, <1>5 DEF LockInv

LEMMA HandlerErrorLocks ==
    ASSUME IInv, LockInv, NEW h \in Handlers, HandlerError(h)
    PROVE  LockInv' /\ UNCHANGED status
  <1>1. /\ Finish(h) /\ ReleaseLocks(h) /\ UNCHANGED status
        /\ \A o \in Orders :
              statusDirty'[o] = IF orderLock[o] = h THEN status[o] ELSE statusDirty[o]
    BY DEF HandlerError, Rollback
  <1>2. QED BY <1>1, UnlockOrder

LEMMA PublishLocks ==
    ASSUME IInv, LockInv, NEW h \in Handlers, Locks(h), Publish(h), Finish(h)
    PROVE  /\ LockInv'
           /\ status'[Order(h)] = Outcome(h)
           /\ \A o \in Orders \ {Order(h)} : status'[o] = status[o]
  <1>1. /\ ReleaseLocks(h) /\ UNCHANGED statusDirty
        /\ \A o \in Orders :
              status'[o] = IF orderLock[o] = h THEN statusDirty[o] ELSE status[o]
    BY DEF Publish, VisibleStatus
  <1>2. Order(h) \in Orders
    BY DEF IInv, HandlerInv, Locks, Order, Message
  <1>3. \A o \in Orders : orderLock[o] = h <=> o = Order(h)
    BY <1>2, ConstantsAssumption DEF LockInv
  <1>4. statusDirty[Order(h)] = Outcome(h)
    BY <1>2, <1>3, ConstantsAssumption DEF LockInv
  <1>5. QED BY <1>1, <1>2, <1>3, <1>4, UnlockOrder

LEMMA HandleLocks ==
    ASSUME IInv, LockInv, NEW h \in Handlers, Handle(h)
    PROVE  LockInv'
  <1>1. CASE CompleteOrder(h)
    <2>1. Outcome(h) = "completed" /\ Order(h) \in Orders
      BY <1>1 DEF CompleteOrder, Outcome, IInv, HandlerInv, Order, Message
    <2>2. QED BY <1>1, <2>1, LockOrder DEF CompleteOrder
  <1>2. CASE UpdateStatus(h)
    <2>1. Outcome(h) = "failed" /\ Order(h) \in Orders
      BY <1>2 DEF UpdateStatus, Outcome, IInv, HandlerInv, Order, Message
    <2>2. QED BY <1>2, <2>1, LockOrder DEF UpdateStatus
  <1>3. CASE CommitBilled(h)
    BY <1>3, PublishLocks DEF CommitBilled, Locks
  <1>4. CASE CommitFailed(h)
    BY <1>4, PublishLocks DEF CommitFailed, Locks
  <1>5. CASE HandlerError(h)
    BY <1>5, HandlerErrorLocks
  <1>6. CASE ReadOrder(h) /\ ~HandlerError(h)
    BY <1>6, MoveLocks DEF ReadOrder, Locks
  <1>7. CASE SendInvoice(h)
    BY <1>7, MoveLocks DEF SendInvoice, Locks
  <1>8. CASE ReadCategory(h) \/ SelectForSave(h)
    BY <1>8, MoveLocks DEF ReadCategory, SelectForSave, Locks
  <1>9. CASE SaveLine(h) \/ SkipLine(h)
    <2>1. pc[h] = "save" /\ NextLine(h)
      BY <1>9 DEF SaveLine, SkipLine
    <2> DEFINE next == IF line[h] = Len(entities[h]) THEN "commit" ELSE "save"
    <2>2. GoTo(h, next) /\ UNCHANGED orderVars /\ UNCHANGED msg /\ Locks(h)
      BY <2>1 DEF NextLine, Locks
    <2>3. next \in {"commit", "save"}
      OBVIOUS
    <2> HIDE DEF next
    <2>4. QED BY <2>2, <2>3, MoveLocks
  <1>10. CASE RejectCanceled(h)
    BY <1>10, <1>5 DEF RejectCanceled
  <1>11. QED
    BY <1>1, <1>2, <1>3, <1>4, <1>5, <1>6, <1>7, <1>8, <1>9, <1>10 DEF Handle

LEMMA TakeMessageLocks ==
    ASSUME IInv, LockInv, NEW h \in Handlers, NEW m \in queue, TakeMessage(h, m)
    PROVE  LockInv'
  <1>1. /\ ~Locks(h) /\ ~Locks(h)' /\ UNCHANGED orderVars
        /\ \A g \in Handlers \ {h} : Locks(g)' = Locks(g) /\ msg'[g] = msg[g]
    BY DEF TakeMessage, GoTo, Locks, IInv, TypeOK, HandlersType
  <1>2. \A g \in Handlers : Locks(g)' = Locks(g) /\ (Locks(g) => msg'[g] = msg[g])
    <2>1. Locks(h) \in BOOLEAN /\ Locks(h)' \in BOOLEAN
      BY DEF Locks
    <2>2. QED BY <1>1, <2>1
  <1>3. QED BY <1>1, <1>2, QuietLocks

LEMMA ApiStopsLocks ==
    ASSUME ApiStops
    PROVE  LockInv'
  BY DEF ApiStops, LockInv, Locks

LEMMA NextLocks ==
    ASSUME IInv, LockInv, [Next]_vars
    PROVE  LockInv'
  <1>1. CASE UNCHANGED <<orderVars, handlerVars>>
    BY <1>1, QuietLocks DEF handlerVars, Locks
  <1>2. ASSUME NEW o \in Orders,
               \/ Pay(o) \/ AttemptFails(o) \/ Cancel(o)
               \/ MailTickets(o) \/ MailFindsNothing(o)
        PROVE  LockInv'
    <2>1. CASE Pay(o) \/ AttemptFails(o) \/ Cancel(o)
      BY <2>1, <1>1 DEF Pay, AttemptFails, Cancel
    <2>2. CASE MailTickets(o)
      BY <2>2, <1>1 DEF MailTickets
    <2>3. CASE MailFindsNothing(o)
      BY <2>3, ApiStopsLocks DEF MailFindsNothing
    <2>4. QED BY <1>2, <2>1, <2>2, <2>3
  <1>3. CASE Webhook \/ GatewayDies
    BY <1>3, <1>1 DEF Webhook, SavePayment, EmitBilled, EmitFailed, GatewayDies
  <1>4. ASSUME NEW m \in queue, LoseMessage(m) \/ ParseFails(m) \/ \E h \in Handlers : TakeMessage(h, m)
        PROVE  LockInv'
    BY <1>4, <1>1, TakeMessageLocks DEF LoseMessage, ParseFails
  <1>5. ASSUME NEW h \in Handlers, Handle(h) \/ DbFailure(h) \/ DeadlockAbort(h)
        PROVE  LockInv'
    BY <1>5, HandleLocks, HandlerErrorLocks DEF DbFailure, DeadlockAbort
  <1>6. CASE ApiDies
    BY <1>6, ApiStopsLocks DEF ApiDies
  <1>7. ASSUME NEW c \in Categories, SellTicket(c) PROVE LockInv'
    BY <1>7, <1>1 DEF SellTicket
  <1>8. CASE UNCHANGED vars
    BY <1>8, <1>1 DEF vars
  <1>9. QED
    BY <1>2, <1>3, <1>4, <1>5, <1>6, <1>7, <1>8 DEF Next, Settled

-----------------------------------------------------------------------------
(* The effects on an order *)

EffectsInv == InvoiceInv /\ StatusMatchesEffects

\* No transaction commits: what is committed stays.
Calm ==
    /\ UNCHANGED <<status, ticketSets, releases>>
    /\ \A p \in DOMAIN payments : payments'[p] = payments[p]
    /\ invoices \subseteq invoices'
    /\ \A h \in Handlers : pc'[h] = "commit" /\ msg'[h].kind = "billed" =>
          (pc[h] = "commit" /\ msg'[h] = msg[h]) \/ msg'[h].id \in invoices'

LEMMA CalmEffects ==
    ASSUME PaymentInv, EffectsInv, Calm
    PROVE  EffectsInv'
  <1>1. InvoiceInv'
    BY DEF EffectsInv, InvoiceInv, TicketsWereInvoiced, Calm
  <1>2. \A i \in DOMAIN ticketSets : payments'[ticketSets[i]] = payments[ticketSets[i]]
    BY DEF PaymentInv, Calm
  <1>3. \A o : HasTickets(o)' <=> HasTickets(o)
    BY <1>2 DEF HasTickets, Calm
  <1>4. \A o : IsReleased(o)' <=> IsReleased(o)
    BY DEF IsReleased, Calm
  <1>5. StatusMatchesEffects'
    BY <1>3, <1>4 DEF EffectsInv, StatusMatchesEffects, Calm
  <1>6. QED BY <1>1, <1>5 DEF EffectsInv

LEMMA CommitBilledEffects ==
    ASSUME MessagesInv, LockInv, EffectsInv, NEW h \in Handlers, CommitBilled(h)
    PROVE  EffectsInv'
  <1>1. /\ pc[h] = "commit" /\ msg[h].kind = "billed" /\ Publish(h) /\ Finish(h)
        /\ ticketSets' = Append(ticketSets, msg[h].id)
        /\ UNCHANGED <<payments, releases, invoices, queue>>
    BY DEF CommitBilled, gatewayVars, mailVars
  <1>2. msg[h] \in Live /\ msg[h] \in Message /\ Order(h) = msg[h].order
    BY <1>1, LiveOK DEF MessagesInv, Busy, Order, IInv, HandlerInv
  <1>3. payments[msg[h].id] = Order(h) /\ msg[h].id \in invoices
    BY <1>1, <1>2 DEF MessagesInv, PaymentInv, EffectsInv, InvoiceInv
  <1>4. ticketSets \in Seq(Nat \ {0})
    BY DEF MessagesInv, IInv, TypeOK, EffectsType
  <1>5. /\ DOMAIN ticketSets' = DOMAIN ticketSets \cup {Len(ticketSets) + 1}
        /\ \A i \in DOMAIN ticketSets : ticketSets'[i] = ticketSets[i]
        /\ ticketSets'[Len(ticketSets) + 1] = msg[h].id
    BY <1>1, <1>2, <1>4 DEF Message
  <1>6. \A o : HasTickets(o)' <=> HasTickets(o) \/ o = Order(h)
    BY <1>1, <1>3, <1>5 DEF HasTickets
  <1>7. /\ status'[Order(h)] = "completed"
        /\ \A o \in Orders \ {Order(h)} : status'[o] = status[o]
    BY <1>1, PublishLocks DEF Locks, Outcome, MessagesInv
  <1>8. \A o : IsReleased(o)' <=> IsReleased(o)
    BY <1>1 DEF IsReleased
  <1>9. StatusMatchesEffects'
    BY <1>6, <1>7, <1>8 DEF EffectsInv, StatusMatchesEffects
  <1>11. TicketsWereInvoiced'
    BY <1>1, <1>3, <1>5 DEF EffectsInv, InvoiceInv, TicketsWereInvoiced
  <1>12. \A g \in Handlers : pc'[g] = "commit" => pc[g] = "commit" /\ msg'[g] = msg[g]
    BY <1>1, FinishMessages DEF Finish, Busy, MessagesInv, IInv, TypeOK, HandlersType
  <1>13. InvoiceInv'
    BY <1>1, <1>11, <1>12 DEF EffectsInv, InvoiceInv
  <1>14. QED BY <1>9, <1>13 DEF EffectsInv

LEMMA CommitFailedEffects ==
    ASSUME MessagesInv, LockInv, EffectsInv, NEW h \in Handlers, CommitFailed(h)
    PROVE  EffectsInv'
  <1> DEFINE r == [order |-> Order(h), id |-> msg[h].id]
             R == [order: Orders, id: Nat \ {0}]
  <1>1. /\ pc[h] = "commit" /\ msg[h].kind = "failed" /\ Publish(h) /\ Finish(h)
        /\ releases' = Append(releases, r)
        /\ UNCHANGED <<payments, ticketSets, invoices>>
    BY DEF CommitFailed, gatewayVars, mailVars
  <1>2. r \in R /\ r.order = Order(h)
    BY <1>1 DEF MessagesInv, IInv, HandlerInv, Message, Order
  <1>3. releases \in Seq(R)
    BY DEF MessagesInv, IInv, TypeOK, EffectsType
  <1> HIDE DEF r, R
  <1>4. /\ DOMAIN releases' = DOMAIN releases \cup {Len(releases) + 1}
        /\ \A i \in DOMAIN releases : releases'[i] = releases[i]
        /\ releases'[Len(releases) + 1] = r
    BY <1>1, <1>2, <1>3
  <1>5. \A o : IsReleased(o)' <=> IsReleased(o) \/ o = Order(h)
    BY <1>2, <1>4 DEF IsReleased
  <1>6. /\ status'[Order(h)] = "failed"
        /\ \A o \in Orders \ {Order(h)} : status'[o] = status[o]
    BY <1>1, PublishLocks DEF Locks, Outcome, MessagesInv
  <1>7. \A o : HasTickets(o)' <=> HasTickets(o)
    BY <1>1 DEF HasTickets
  <1>8. StatusMatchesEffects'
    BY <1>5, <1>6, <1>7 DEF EffectsInv, StatusMatchesEffects
  <1>10. \A g \in Handlers : pc'[g] = "commit" => pc[g] = "commit" /\ msg'[g] = msg[g]
    BY <1>1 DEF Finish, MessagesInv, IInv, TypeOK, HandlersType
  <1>11. InvoiceInv'
    BY <1>1, <1>10 DEF EffectsInv, InvoiceInv, TicketsWereInvoiced
  <1>12. QED BY <1>8, <1>11 DEF EffectsInv

\* Every step but a commit is calm.
LEMMA HandlerErrorCalm ==
    ASSUME IInv, NEW h \in Handlers, HandlerError(h)
    PROVE  Calm
  <1>1. \A g \in Handlers : pc'[g] = "commit" => pc[g] = "commit" /\ msg'[g] = msg[g]
    BY DEF HandlerError, Finish, IInv, TypeOK, HandlersType
  <1>2. QED BY <1>1 DEF HandlerError, Rollback, Calm, gatewayVars, doneVars, mailVars

LEMMA MoveCalm ==
    ASSUME IInv, NEW h \in Handlers, NEW next, GoTo(h, next),
           UNCHANGED <<status, msg, doneVars, gatewayVars>>,
           invoices \subseteq invoices',
           next = "commit" /\ msg[h].kind = "billed" => msg[h].id \in invoices'
    PROVE  Calm
  <1>1. pc'[h] = next /\ \A g \in Handlers \ {h} : pc'[g] = pc[g]
    BY DEF GoTo, IInv, TypeOK, HandlersType
  <1>2. QED BY <1>1 DEF Calm, gatewayVars, doneVars

LEMMA HandleCalm ==
    ASSUME IInv, NEW h \in Handlers, Handle(h), ~CommitBilled(h), ~CommitFailed(h)
    PROVE  Calm
  <1>1. CASE HandlerError(h) BY <1>1, HandlerErrorCalm
  <1>2. CASE ReadOrder(h) /\ ~HandlerError(h)
    BY <1>2, MoveCalm DEF ReadOrder, orderVars, mailVars
  <1>3. CASE CompleteOrder(h) \/ UpdateStatus(h)
    BY <1>3, MoveCalm DEF CompleteOrder, UpdateStatus, mailVars
  <1>4. CASE SendInvoice(h)
    BY <1>4, MoveCalm DEF SendInvoice, orderVars
  <1>5. CASE ReadCategory(h) \/ SelectForSave(h)
    BY <1>5, MoveCalm DEF ReadCategory, SelectForSave, orderVars, mailVars
  <1>6. CASE SaveLine(h) \/ SkipLine(h)
    <2>1. pc[h] = "save" /\ NextLine(h) /\ msg[h].kind = "failed"
      BY <1>6 DEF SaveLine, SkipLine, IInv, HandlerInv
    <2>2. QED BY <2>1, MoveCalm DEF NextLine, orderVars, mailVars
  <1>7. CASE RejectCanceled(h)
    BY <1>7, <1>1 DEF RejectCanceled
  <1>8. QED
    BY <1>1, <1>2, <1>3, <1>4, <1>5, <1>6, <1>7 DEF Handle

LEMMA TakeMessageCalm ==
    ASSUME IInv, NEW h \in Handlers, NEW m \in queue, TakeMessage(h, m)
    PROVE  Calm
  <1>1. \A g \in Handlers : pc'[g] = "commit" => pc[g] = "commit" /\ msg'[g] = msg[g]
    BY DEF TakeMessage, GoTo, IInv, TypeOK, HandlersType
  <1>2. QED BY <1>1 DEF TakeMessage, Calm, gatewayVars, orderVars, doneVars, mailVars

LEMMA ApiStopsCalm ==
    ASSUME ApiStops
    PROVE  Calm
  BY DEF ApiStops, Calm, gatewayVars, doneVars

LEMMA WebhookCalm ==
    ASSUME IInv, Webhook
    PROVE  Calm
  <1>1. /\ UNCHANGED <<orderVars, handlerVars>> /\ UNCHANGED <<doneVars, mailVars>>
    BY DEF Webhook, SavePayment, EmitBilled, EmitFailed
  <1>2. \A p \in DOMAIN payments : payments'[p] = payments[p]
    <2>1. UNCHANGED payments \/ \E e \in events : payments' = Append(payments, e.order)
      BY DEF Webhook, SavePayment, EmitBilled, EmitFailed
    <2>2. payments \in Seq(Orders)
      BY DEF IInv, TypeOK, GatewayType
    <2>3. QED BY <2>1, <2>2
  <1>3. QED BY <1>1, <1>2 DEF Calm, orderVars, handlerVars, doneVars, mailVars

LEMMA NextEffects ==
    ASSUME MessagesInv, LockInv, EffectsInv, [Next]_vars
    PROVE  EffectsInv'
  <1>1. CASE Calm
    BY <1>1, CalmEffects DEF MessagesInv
  <1>2. CASE \E h \in Handlers : CommitBilled(h) \/ CommitFailed(h)
    BY <1>2, CommitBilledEffects, CommitFailedEffects
  <1>3. IInv
    BY DEF MessagesInv
  <1>4. ASSUME NEW h \in Handlers, Handle(h) \/ DbFailure(h) \/ DeadlockAbort(h),
               ~CommitBilled(h), ~CommitFailed(h)
        PROVE  Calm
    BY <1>3, <1>4, HandleCalm, HandlerErrorCalm DEF DbFailure, DeadlockAbort
  <1>5. ASSUME NEW o \in Orders,
               \/ Pay(o) \/ AttemptFails(o) \/ Cancel(o)
               \/ MailTickets(o) \/ MailFindsNothing(o)
        PROVE  Calm
    <2>1. CASE Pay(o) \/ AttemptFails(o) \/ Cancel(o)
      BY <2>1 DEF Pay, AttemptFails, Cancel, Calm, gatewayVars, orderVars, doneVars,
             mailVars, handlerVars
    <2>2. CASE MailTickets(o)
      BY <2>2 DEF MailTickets, Calm, gatewayVars, orderVars, doneVars,
             handlerVars
    <2>3. CASE MailFindsNothing(o)
      BY <2>3, ApiStopsCalm DEF MailFindsNothing
    <2>4. QED BY <1>5, <2>1, <2>2, <2>3
  <1>6. ASSUME NEW m \in queue, LoseMessage(m) \/ ParseFails(m) \/ \E h \in Handlers : TakeMessage(h, m)
        PROVE  Calm
    <2>1. CASE LoseMessage(m) \/ ParseFails(m)
      BY <2>1 DEF LoseMessage, ParseFails, Calm, gatewayVars, orderVars, doneVars, mailVars, handlerVars
    <2>2. QED BY <1>3, <1>6, <2>1, TakeMessageCalm
  <1>7. ASSUME GatewayDies PROVE Calm
    BY <1>7 DEF GatewayDies, Calm, orderVars, doneVars, mailVars, handlerVars
  <1>8. ASSUME ApiDies PROVE Calm
    BY <1>8, ApiStopsCalm DEF ApiDies
  <1>9. ASSUME NEW c \in Categories, SellTicket(c) PROVE Calm
    BY <1>9 DEF SellTicket, Calm, gatewayVars, orderVars, doneVars, mailVars, handlerVars
  <1>10. ASSUME UNCHANGED vars PROVE Calm
    BY <1>10 DEF vars, Calm, gatewayVars, orderVars, doneVars, mailVars, handlerVars
  <1>11. ASSUME Webhook PROVE Calm
    BY <1>3, <1>11, WebhookCalm
  <1>12. QED
    BY <1>1, <1>2, <1>4, <1>5, <1>6, <1>7, <1>8, <1>9, <1>10, <1>11 DEF Next, Settled

-----------------------------------------------------------------------------
(* The theorems about orders *)

LEMMA SafetyOK == Spec => []SafetyInv
  <1>1. Init => SafetyInv
    <2> SUFFICES ASSUME Init PROVE SafetyInv
      OBVIOUS
    <2>1. MessagesInv
      BY InitMessages
    <2>2. LockInv
      BY DEF Init, LockInv, Locks
    <2>3. InvoiceInv
      BY DEF Init, InvoiceInv, TicketsWereInvoiced
    <2>4. StatusMatchesEffects
      BY DEF Init, StatusMatchesEffects, HasTickets, IsReleased
    <2>5. QED BY <2>1, <2>2, <2>3, <2>4 DEF SafetyInv
  <1>2. SafetyInv /\ [Next]_vars => SafetyInv'
    BY NextMessages, NextLocks, NextEffects DEF SafetyInv, EffectsInv, MessagesInv
  <1>3. QED BY <1>1, <1>2, PTL DEF Spec

\* However the handlers of one order interleave, its status, its tickets and its
\* release are committed together (orders.service.ts:604-623,698-727).
THEOREM StatusSafety == Spec => []StatusMatchesEffects
  BY SafetyOK, PTL DEF SafetyInv

\* A customer is never given tickets without an invoice: the invoice is sent
\* before the commit, and a handler that dies in between makes no tickets
\* (orders.service.ts:637-664).
THEOREM InvoiceSafety == Spec => []TicketsWereInvoiced
  BY SafetyOK, PTL DEF SafetyInv, InvoiceInv

-----------------------------------------------------------------------------
(* The stock                                                                 *)

\* What is left in a category and what committed releases have given back.
Room(c) == InitialRow[c].quantity + Released(c)

\* The quantity of a line, of an uncommitted row and of a committed one: what
\* an open transaction may add is what its own order names.
StockInv ==
    /\ \A c \in Categories : row[c].quantity \in 0..Room(c)
    /\ \A c \in Categories :
          IF lock[c] = Free
             THEN dirty[c] = row[c]
             ELSE \E h \in Handlers :
                     /\ lock[c] = h /\ pc[h] \in {"save", "commit"} /\ msg[h].kind = "failed"
                     /\ dirty[c].quantity \in 0..(Room(c) + Places(Order(h), c))
    /\ \A h \in Handlers : pc[h] \in {"read", "diff", "save"} =>
          \A i \in DOMAIN entities[h] :
             LET c == LinesFor(h)[i].category
             IN  entities[h][i].quantity \in 0..(Room(c) + Places(Order(h), c))

\* The folds are sums, whatever order they choose.
LEMMA PlacesAre ==
    ASSUME NEW o \in Orders, NEW c
    PROVE  Places(o, c) = Sum([i \in DOMAIN LinesOf[o] |->
                                 IF LinesOf[o][i].category = c THEN LinesOf[o][i].quantity ELSE 0],
                              DOMAIN LinesOf[o])
  <1>1. PICK g : g = [i \in DOMAIN LinesOf[o] |->
                        IF LinesOf[o][i].category = c THEN LinesOf[o][i].quantity ELSE 0]
    OBVIOUS
  <1>2. PICK f : f = CHOOSE h :
                       h = [s \in SUBSET DOMAIN LinesOf[o] |->
                              IF s = {} THEN 0
                              ELSE h[s \ {CHOOSE x \in s : TRUE}]
                                     + IF LinesOf[o][CHOOSE x \in s : TRUE].category = c
                                          THEN LinesOf[o][CHOOSE x \in s : TRUE].quantity ELSE 0]
    OBVIOUS
  <1>3. Places(o, c) = f[DOMAIN LinesOf[o]]
    BY <1>2 DEF Places, FoldFunction, FoldFunctionOnSet, MapThenFoldSet
  <1>4. IsFiniteSet(DOMAIN LinesOf[o])
    <2>1. LinesOf[o] \in Seq(Lines)
      BY ConstantsAssumption
    <2>2. DOMAIN LinesOf[o] = 1..Len(LinesOf[o]) /\ Len(LinesOf[o]) \in Nat
      BY <2>1
    <2>3. QED  BY <2>2, FS_Interval
  <1> DEFINE Folds(h) ==
        h = [s \in SUBSET DOMAIN LinesOf[o] |->
               IF s = {} THEN 0
               ELSE h[s \ {Pick(s)}]
                      + IF LinesOf[o][Pick(s)].category = c
                           THEN LinesOf[o][Pick(s)].quantity ELSE 0]
  <1>5. f = CHOOSE h : Folds(h)
    BY <1>2, Zenon DEF Pick
  <1>6. ASSUME NEW h
        PROVE  Folds(h) <=> Adds(h, g, DOMAIN LinesOf[o])
    <2>1. ASSUME NEW s \in SUBSET DOMAIN LinesOf[o], s # {}
          PROVE  g[Pick(s)] = IF LinesOf[o][Pick(s)].category = c
                                 THEN LinesOf[o][Pick(s)].quantity ELSE 0
      BY <1>1, <2>1, PickIsIn
    <2>2. QED  BY <2>1 DEF Adds
  <1>7. PICK h : Adds(h, g, DOMAIN LinesOf[o])
    BY <1>4, FoldExists
  <1>8. Folds(h)
    BY <1>6, <1>7
  <1>9. Folds(f)
    <2> HIDE DEF Folds
    <2>1. QED  BY <1>5, <1>8, Zenon
  <1>10. Adds(f, g, DOMAIN LinesOf[o])
    BY <1>6, <1>9
  <1>11. f[DOMAIN LinesOf[o]] = Sum(g, DOMAIN LinesOf[o])
    BY <1>4, <1>10, FoldIsSum
  <1>12. QED  BY <1>1, <1>3, <1>11

LEMMA PlacesBound ==
    ASSUME NEW o \in Orders, NEW c
    PROVE  /\ Places(o, c) \in Nat
           /\ \A i \in 1..Len(LinesOf[o]) :
                 LinesOf[o][i].category = c => LinesOf[o][i].quantity <= Places(o, c)
  <1>1. PICK g : g = [i \in DOMAIN LinesOf[o] |->
                        IF LinesOf[o][i].category = c THEN LinesOf[o][i].quantity ELSE 0]
    OBVIOUS
  <1>2. PICK S : S = 1..Len(LinesOf[o])
    OBVIOUS
  <1>3. DOMAIN LinesOf[o] = S /\ IsFiniteSet(S)
    BY <1>2, LinesOK, FS_Interval
  <1>4. Places(o, c) = Sum(g, S)
    BY <1>1, <1>3, PlacesAre
  <1>5. \A i \in S : g[i] \in Nat
    BY <1>1, <1>2, <1>3, LinesOK
  <1>6. Sum(g, S) \in Nat
    BY <1>3, <1>5, SumIsNat
  <1>7. ASSUME NEW i \in S, LinesOf[o][i].category = c
        PROVE  LinesOf[o][i].quantity <= Sum(g, S)
    <2>1. \A x \in S : g[x] \in Int
      BY <1>5
    <2>2. Sum(g, S) = Sum(g, S \ {i}) + g[i]
      BY <1>3, <2>1, SumWithout
    <2>3. IsFiniteSet(S \ {i})
      BY <1>3, FS_RemoveElement
    <2>4. Sum(g, S \ {i}) \in Nat
      BY <1>5, <2>3, SumIsNat
    <2>5. g[i] = LinesOf[o][i].quantity /\ g[i] \in Nat
      BY <1>1, <1>3, <1>5, <1>7
    <2>6. QED  BY <2>2, <2>4, <2>5
  <1>8. QED  BY <1>2, <1>4, <1>6, <1>7

\* What a sequence of releases gives back to a category.
Back(rs, c) == FoldFunction(LAMBDA r, sum : sum + Places(r.order, c), 0, rs)
Release == [order: Orders, id: Nat \ {0}]

LEMMA BackIs ==
    ASSUME NEW rs \in Seq(Release), NEW c
    PROVE  Back(rs, c) = Sum([i \in DOMAIN rs |-> Places(rs[i].order, c)], DOMAIN rs)
  <1>1. PICK g : g = [i \in DOMAIN rs |-> Places(rs[i].order, c)]
    OBVIOUS
  <1>2. PICK f : f = CHOOSE h :
                       h = [s \in SUBSET DOMAIN rs |->
                              IF s = {} THEN 0
                              ELSE h[s \ {CHOOSE x \in s : TRUE}]
                                     + Places(rs[CHOOSE x \in s : TRUE].order, c)]
    OBVIOUS
  <1>3. Back(rs, c) = f[DOMAIN rs]
    BY <1>2 DEF Back, FoldFunction, FoldFunctionOnSet, MapThenFoldSet
  <1>4. IsFiniteSet(DOMAIN rs)
    <2>1. DOMAIN rs = 1..Len(rs) /\ Len(rs) \in Nat
      OBVIOUS
    <2>2. QED  BY <2>1, FS_Interval
  <1> DEFINE Folds(h) ==
        h = [s \in SUBSET DOMAIN rs |->
               IF s = {} THEN 0
               ELSE h[s \ {Pick(s)}] + Places(rs[Pick(s)].order, c)]
  <1>5. f = CHOOSE h : Folds(h)
    BY <1>2, Zenon DEF Pick
  <1>6. ASSUME NEW h
        PROVE  Folds(h) <=> Adds(h, g, DOMAIN rs)
    <2>1. ASSUME NEW s \in SUBSET DOMAIN rs, s # {}
          PROVE  g[Pick(s)] = Places(rs[Pick(s)].order, c)
      BY <1>1, <2>1, PickIsIn
    <2>2. QED  BY <2>1 DEF Adds
  <1>7. PICK h : Adds(h, g, DOMAIN rs)
    BY <1>4, FoldExists
  <1>8. Folds(h)
    BY <1>6, <1>7
  <1>9. Folds(f)
    <2> HIDE DEF Folds
    <2>1. QED  BY <1>5, <1>8, Zenon
  <1>10. Adds(f, g, DOMAIN rs)
    BY <1>6, <1>9
  <1>11. f[DOMAIN rs] = Sum(g, DOMAIN rs)
    BY <1>4, <1>10, FoldIsSum
  <1>12. QED  BY <1>1, <1>3, <1>11

LEMMA BackGrows ==
    ASSUME NEW rs \in Seq(Release), NEW c
    PROVE  /\ Back(rs, c) \in Nat
           /\ \A r \in Release : Back(Append(rs, r), c) = Back(rs, c) + Places(r.order, c)
  <1>1. PICK S : S = 1..Len(rs)
    OBVIOUS
  <1>2. DOMAIN rs = S /\ IsFiniteSet(S) /\ Len(rs) \in Nat
    BY <1>1, FS_Interval
  <1>3. PICK g : g = [i \in S |-> Places(rs[i].order, c)]
    OBVIOUS
  <1>4. \A i \in S : rs[i] \in Release
    BY <1>1
  <1>5. \A r \in Release : r.order \in Orders
    BY DEF Release
  <1>6. \A i \in S : g[i] \in Nat
    BY <1>3, <1>4, <1>5, PlacesBound
  <1>7. Back(rs, c) = Sum(g, S)
    BY <1>2, <1>3, BackIs
  <1>8. Sum(g, S) \in Nat
    BY <1>2, <1>6, SumIsNat
  <1>9. ASSUME NEW r \in Release
        PROVE  Back(Append(rs, r), c) = Sum(g, S) + Places(r.order, c)
    <2>1. PICK n : n = Len(rs) + 1
      OBVIOUS
    <2>2. PICK as : as = Append(rs, r)
      OBVIOUS
    <2>3. /\ as \in Seq(Release) /\ DOMAIN as = S \cup {n} /\ n \notin S
          /\ as[n] = r /\ \A i \in S : as[i] = rs[i]
      BY <1>1, <1>2, <2>1, <2>2
    <2>4. PICK g1 : g1 = [i \in DOMAIN as |-> Places(as[i].order, c)]
      OBVIOUS
    <2>5. Back(as, c) = Sum(g1, S \cup {n})
      BY <2>3, <2>4, BackIs
    <2>6. /\ \A i \in S : g1[i] = g[i]
          /\ g1[n] = Places(r.order, c)
      BY <1>3, <2>3, <2>4
    <2>7. \A x \in S \cup {n} : g1[x] \in Int
      BY <1>5, <1>6, <2>6, PlacesBound
    <2>8. Sum(g1, S \cup {n}) = Sum(g1, S) + g1[n]
      <3>1. n \notin S
        BY <2>3
      <3>2. IsFiniteSet(S)
        BY <1>2
      <3>3. QED  BY <2>7, <3>1, <3>2, SumWith
    <2>9. Sum(g1, S) = Sum(g, S)
      BY <1>2, <2>6, SumSame
    <2>10. QED  BY <2>2, <2>5, <2>6, <2>8, <2>9
  <1>10. QED  BY <1>7, <1>8, <1>9

LEMMA ReleasedIsBack == \A c : Released(c) = Back(releases, c)
  BY DEF Released, Back, FoldFunction, FoldFunctionOnSet, MapThenFoldSet

LEMMA ReleasedMoves ==
    ASSUME IInv, NEW c
    PROVE  /\ Released(c) \in Nat
           /\ releases' = releases => Released(c)' = Released(c)
           /\ \A r \in Release :
                 releases' = Append(releases, r) => Released(c)' = Released(c) + Places(r.order, c)
  <1>1. releases \in Seq(Release)
    BY DEF IInv, TypeOK, EffectsType, Release
  <1>2. Released(c) = Back(releases, c)
    BY ReleasedIsBack
  <1>3. Released(c)' = Back(releases', c)
    BY DEF Released, Back, FoldFunction, FoldFunctionOnSet, MapThenFoldSet
  <1>4. QED  BY <1>1, <1>2, <1>3, BackGrows

LEMMA RoomIsNat == ASSUME IInv, NEW c \in Categories PROVE Room(c) \in Nat
  BY ReleasedMoves, ConstantsAssumption DEF Room, TicketCategory

InLoop(h) == pc[h] \in {"read", "diff", "save"}
Holds(h) == pc[h] \in {"save", "commit"} /\ msg[h].kind = "failed"

\* A step that may end transactions and publish what they wrote; it saves no row,
\* and it reads none.
LEMMA StockMoves ==
    ASSUME IInv, StockInv,
           \A c \in Categories : Room(c)' \in Nat /\ Room(c)' >= Room(c),
           \A c \in Categories : row'[c].quantity \in 0..Room(c)',
           \A c \in Categories :
              \/ lock'[c] = Free /\ dirty'[c] = row'[c]
              \/ lock'[c] = lock[c] /\ dirty'[c] = dirty[c],
           \A c \in Categories, g \in Handlers :
              lock[c] = g /\ Holds(g) /\ lock'[c] # Free => Holds(g)' /\ msg'[g] = msg[g],
           \A c \in Categories : lock[c] = Free => lock'[c] = Free /\ dirty'[c] = row'[c],
           \A g \in Handlers : InLoop(g)' =>
               \/ entities'[g] = <<>>
               \/ InLoop(g) /\ entities'[g] = entities[g] /\ msg'[g] = msg[g]
    PROVE  StockInv'
  <1>1. ASSUME NEW h \in Handlers, NEW c
        PROVE  Holds(h) \/ InLoop(h) => Places(Order(h), c) \in Nat
    BY PlacesBound DEF IInv, HandlerInv, Holds, InLoop, Order, Message
  <1>2. \A c \in Categories : Room(c) \in Nat
    BY RoomIsNat
  <1>3. ASSUME NEW c \in Categories, lock'[c] # Free
        PROVE  \E h \in Handlers : /\ lock'[c] = h /\ Holds(h)'
                                   /\ dirty'[c].quantity \in 0..(Room(c)' + Places(Order(h)', c))
    <2>1. lock'[c] = lock[c] /\ dirty'[c] = dirty[c] /\ lock[c] # Free
      BY <1>3
    <2>2. PICK h \in Handlers : /\ lock[c] = h /\ Holds(h)
                                /\ dirty[c].quantity \in 0..(Room(c) + Places(Order(h), c))
      BY <2>1 DEF StockInv, Holds
    <2>3. Holds(h)' /\ Order(h)' = Order(h)
      BY <1>3, <2>2 DEF Order
    <2>4. Places(Order(h), c) \in Nat /\ Room(c) \in Nat /\ Room(c)' \in Nat
      BY <1>1, <1>2, <2>2
    <2>5. dirty[c].quantity \in 0..(Room(c)' + Places(Order(h), c))
      BY <2>2, <2>4
    <2>6. QED  BY <2>1, <2>2, <2>3, <2>5
  <1>4. ASSUME NEW h \in Handlers, InLoop(h)', NEW i \in DOMAIN entities'[h],
               NEW c, c = LinesFor(h)'[i].category
        PROVE  entities'[h][i].quantity \in 0..(Room(c)' + Places(Order(h)', c))
    <2>1. entities'[h] # <<>>
      BY <1>4
    <2>2. InLoop(h) /\ entities'[h] = entities[h] /\ msg'[h] = msg[h]
      BY <1>4, <2>1
    <2>3. Order(h)' = Order(h) /\ LinesFor(h)' = LinesFor(h)
      BY <2>2 DEF Order, LinesFor
    <2>4. i \in 1..Len(LinesFor(h))
      BY <1>4, <2>2 DEF IInv, TypeOK, HandlersType, LoopInv, InLoop
    <2>5. c = LinesFor(h)[i].category /\ c \in Categories
      BY <1>4, <2>2, <2>3, <2>4, LinesOK DEF IInv, HandlerInv, InLoop, LinesFor, Order, Message
    <2>6. entities[h][i].quantity \in 0..(Room(c) + Places(Order(h), c))
      BY <1>4, <2>2, <2>5 DEF StockInv, InLoop
    <2>7. Places(Order(h), c) \in Nat /\ Room(c) \in Nat /\ Room(c)' \in Nat
      BY <1>1, <1>2, <2>2, <2>5
    <2>8. entities[h][i].quantity \in 0..(Room(c)' + Places(Order(h), c))
      BY <2>5, <2>6, <2>7
    <2>9. QED  BY <2>2, <2>3, <2>8
  <1>5. \A c \in Categories : lock'[c] = Free => dirty'[c] = row'[c]
    OBVIOUS
  <1>6. QED  BY <1>3, <1>4, <1>5 DEF StockInv, Holds, InLoop

\* A step that touches no row, and no handler that holds one.
LEMMA QuietStock ==
    ASSUME IInv, StockInv, UNCHANGED <<rowVars, releases>>,
           \A g \in Handlers : Holds(g) => Holds(g)' /\ msg'[g] = msg[g],
           \A g \in Handlers : InLoop(g)' =>
               \/ entities'[g] = <<>>
               \/ InLoop(g) /\ entities'[g] = entities[g] /\ msg'[g] = msg[g]
    PROVE  StockInv'
  <1>1. row' = row /\ dirty' = dirty /\ lock' = lock /\ releases' = releases
    BY DEF rowVars
  <1>2. \A c \in Categories : Room(c)' = Room(c) /\ Room(c) \in Nat
    BY <1>1, ReleasedMoves, RoomIsNat DEF Room
  <1>3. \A c \in Categories : Room(c)' \in Nat /\ Room(c)' >= Room(c)
    BY <1>2
  <1>4. \A c \in Categories : row'[c].quantity \in 0..Room(c)'
    BY <1>1, <1>2 DEF StockInv
  <1>5. \A c \in Categories : lock[c] = Free => lock'[c] = Free /\ dirty'[c] = row'[c]
    BY <1>1 DEF StockInv
  <1>6. QED  BY <1>1, <1>3, <1>4, <1>5, StockMoves

LEMMA RollbackStock ==
    ASSUME IInv, StockInv, NEW h \in Handlers, HandlerError(h)
    PROVE  StockInv'
  <1>1. row' = row /\ releases' = releases
    BY DEF HandlerError, Rollback, doneVars
  <1>2. \A c \in Categories : Room(c)' = Room(c) /\ Room(c) \in Nat
    BY <1>1, ReleasedMoves, RoomIsNat DEF Room
  <1>3. \A c \in Categories : Room(c)' \in Nat /\ Room(c)' >= Room(c)
    BY <1>2
  <1>4. \A c \in Categories : row'[c].quantity \in 0..Room(c)'
    BY <1>1, <1>2 DEF StockInv
  <1>5. \A c \in Categories :
           IF lock[c] = h THEN lock'[c] = Free /\ dirty'[c] = row'[c]
                          ELSE lock'[c] = lock[c] /\ dirty'[c] = dirty[c]
    BY <1>1 DEF HandlerError, Rollback, ReleaseLocks
  <1>6. \A c \in Categories : lock[c] = Free => lock'[c] = Free /\ dirty'[c] = row'[c]
    BY <1>1, <1>5 DEF StockInv
  <1>7. \A g \in Handlers \ {h} :
           pc'[g] = pc[g] /\ msg'[g] = msg[g] /\ entities'[g] = entities[g]
    BY DEF HandlerError, Finish, IInv, TypeOK, HandlersType
  <1>8. pc'[h] = "idle"
    BY DEF HandlerError, Finish, IInv, TypeOK, HandlersType
  <1>9. \A c \in Categories, g \in Handlers :
           lock[c] = g /\ Holds(g) /\ lock'[c] # Free => Holds(g)' /\ msg'[g] = msg[g]
    BY <1>5, <1>7 DEF Holds
  <1>10. \A g \in Handlers : InLoop(g)' =>
            InLoop(g) /\ entities'[g] = entities[g] /\ msg'[g] = msg[g]
    BY <1>7, <1>8 DEF InLoop
  <1>11. QED  BY <1>3, <1>4, <1>5, <1>6, <1>9, <1>10, StockMoves

LEMMA ApiStopsStock ==
    ASSUME IInv, StockInv, ApiStops
    PROVE  StockInv'
  <1>1. row' = row /\ releases' = releases
    BY DEF ApiStops, doneVars
  <1>2. \A c \in Categories : Room(c)' = Room(c) /\ Room(c) \in Nat
    BY <1>1, ReleasedMoves, RoomIsNat DEF Room
  <1>3. \A c \in Categories : Room(c)' \in Nat /\ Room(c)' >= Room(c)
    BY <1>2
  <1>4. \A c \in Categories : row'[c].quantity \in 0..Room(c)'
    BY <1>1, <1>2 DEF StockInv
  <1>5. \A c \in Categories : lock'[c] = Free /\ dirty'[c] = row'[c]
    BY <1>1 DEF ApiStops
  <1>6. \A g \in Handlers : ~InLoop(g)'
    BY DEF ApiStops, InLoop
  <1>7. QED  BY <1>3, <1>4, <1>5, <1>6, StockMoves

LEMMA SellTicketStock ==
    ASSUME IInv, StockInv, NEW c \in Categories, SellTicket(c)
    PROVE  StockInv'
  <1>1. /\ row \in [Categories -> TicketCategory] /\ dirty \in [Categories -> TicketCategory]
        /\ releases' = releases /\ lock' = lock /\ lock[c] = Free
        /\ row[c].quantity > 0
    BY DEF SellTicket, doneVars, IInv, TypeOK, RowsType
  <1>2. /\ row'[c].quantity = row[c].quantity - 1 /\ dirty'[c] = row'[c]
        /\ \A k \in Categories \ {c} : row'[k] = row[k] /\ dirty'[k] = dirty[k]
    BY <1>1 DEF SellTicket, TicketCategory
  <1>3. \A k \in Categories : Room(k)' = Room(k) /\ Room(k) \in Nat
    BY <1>1, ReleasedMoves, RoomIsNat DEF Room
  <1>4. \A k \in Categories : Room(k)' \in Nat /\ Room(k)' >= Room(k)
    BY <1>3
  <1>5. \A k \in Categories : row[k].quantity \in 0..Room(k)
    BY DEF StockInv
  <1>6. \A k \in Categories : row'[k].quantity \in 0..Room(k)'
    BY <1>1, <1>2, <1>3, <1>5
  <1>7. \A k \in Categories : lock[k] = Free => lock'[k] = Free /\ dirty'[k] = row'[k]
    BY <1>1, <1>2 DEF StockInv
  <1>8. \A k \in Categories :
           \/ lock'[k] = Free /\ dirty'[k] = row'[k]
           \/ lock'[k] = lock[k] /\ dirty'[k] = dirty[k]
    BY <1>1, <1>2
  <1>9. pc' = pc /\ msg' = msg /\ entities' = entities
    BY DEF SellTicket, handlerVars
  <1>10. QED  BY <1>4, <1>6, <1>7, <1>8, <1>9, StockMoves DEF Holds, InLoop

LEMMA CommitBilledStock ==
    ASSUME IInv, StockInv, NEW h \in Handlers, CommitBilled(h)
    PROVE  StockInv'
  <1>1. pc[h] = "commit" /\ msg[h].kind = "billed" /\ Publish(h) /\ Finish(h)
        /\ releases' = releases
    BY DEF CommitBilled
  <1>2. \A c \in Categories : lock[c] # h
    BY <1>1, ConstantsAssumption DEF StockInv
  <1>3. row' = row /\ dirty' = dirty /\ lock' = lock
    <2>1. /\ row \in [Categories -> TicketCategory]
          /\ lock \in [Categories -> Handlers \cup {Free}]
      BY DEF IInv, TypeOK, RowsType
    <2>2. QED  BY <1>1, <1>2, <2>1 DEF Publish, ReleaseLocks, Visible
  <1>4. \A g \in Handlers \ {h} :
           pc'[g] = pc[g] /\ msg'[g] = msg[g] /\ entities'[g] = entities[g]
    BY <1>1 DEF Finish, IInv, TypeOK, HandlersType
  <1>5. pc'[h] = "idle"
    BY <1>1 DEF Finish, IInv, TypeOK, HandlersType
  <1>6. \A g \in Handlers : Holds(g) => Holds(g)' /\ msg'[g] = msg[g]
    BY <1>1, <1>4 DEF Holds
  <1>7. \A g \in Handlers : InLoop(g)' =>
           InLoop(g) /\ entities'[g] = entities[g] /\ msg'[g] = msg[g]
    BY <1>4, <1>5 DEF InLoop
  <1>8. QED  BY <1>1, <1>3, <1>6, <1>7, QuietStock DEF rowVars

LEMMA CommitFailedStock ==
    ASSUME IInv, StockInv, NEW h \in Handlers, CommitFailed(h)
    PROVE  StockInv'
  <1> DEFINE r == [order |-> Order(h), id |-> msg[h].id]
  <1>1. pc[h] = "commit" /\ msg[h].kind = "failed" /\ Publish(h) /\ Finish(h)
        /\ releases' = Append(releases, r)
    BY DEF CommitFailed
  <1>2. msg[h] \in Message
    BY <1>1 DEF IInv, HandlerInv
  <1>3. r \in Release /\ r.order = Order(h) /\ Order(h) \in Orders
    BY <1>2 DEF Release, Order, Message
  <1> HIDE DEF r
  <1>4. ASSUME NEW c \in Categories
        PROVE  /\ Room(c)' = Room(c) + Places(Order(h), c)
               /\ Room(c) \in Nat /\ Places(Order(h), c) \in Nat
    <2>1. Released(c)' = Released(c) + Places(Order(h), c)
      BY <1>1, <1>3, ReleasedMoves
    <2>2. Released(c) \in Nat /\ Room(c) \in Nat /\ Places(Order(h), c) \in Nat
      BY <1>3, ReleasedMoves, RoomIsNat, PlacesBound
    <2>3. InitialRow[c].quantity \in Int
      BY ConstantsAssumption DEF TicketCategory
    <2>4. QED  BY <2>1, <2>2, <2>3 DEF Room
  <1>5. \A c \in Categories : Room(c)' \in Nat /\ Room(c)' >= Room(c)
    BY <1>4
  <1>6. \A c \in Categories :
           IF lock[c] = h THEN lock'[c] = Free /\ dirty'[c] = dirty[c] /\ row'[c] = dirty[c]
                          ELSE lock'[c] = lock[c] /\ dirty'[c] = dirty[c] /\ row'[c] = row[c]
    BY <1>1 DEF Publish, ReleaseLocks, Visible
  <1>7. ASSUME NEW c \in Categories
        PROVE  row'[c].quantity \in 0..Room(c)'
    <2>1. CASE lock[c] = h
      <3>1. dirty[c].quantity \in 0..(Room(c) + Places(Order(h), c))
        BY <2>1, ConstantsAssumption DEF StockInv
      <3>2. QED  BY <1>4, <1>6, <2>1, <3>1
    <2>2. CASE lock[c] # h
      <3>1. row[c].quantity \in 0..Room(c)
        BY DEF StockInv
      <3>2. QED  BY <1>4, <1>6, <2>2, <3>1
    <2>3. QED  BY <2>1, <2>2
  <1>8. \A c \in Categories : lock[c] = Free => lock'[c] = Free /\ dirty'[c] = row'[c]
    BY <1>6, ConstantsAssumption DEF StockInv
  <1>9. \A g \in Handlers \ {h} :
           pc'[g] = pc[g] /\ msg'[g] = msg[g] /\ entities'[g] = entities[g]
    BY <1>1 DEF Finish, IInv, TypeOK, HandlersType
  <1>10. pc'[h] = "idle"
    BY <1>1 DEF Finish, IInv, TypeOK, HandlersType
  <1>11. \A c \in Categories, g \in Handlers :
            lock[c] = g /\ Holds(g) /\ lock'[c] # Free => Holds(g)' /\ msg'[g] = msg[g]
    BY <1>6, <1>9 DEF Holds
  <1>12. \A g \in Handlers : InLoop(g)' =>
            InLoop(g) /\ entities'[g] = entities[g] /\ msg'[g] = msg[g]
    BY <1>9, <1>10 DEF InLoop
  <1>13. \A c \in Categories :
            \/ lock'[c] = Free /\ dirty'[c] = row'[c]
            \/ lock'[c] = lock[c] /\ dirty'[c] = dirty[c]
    BY <1>6
  <1>14. QED  BY <1>5, <1>7, <1>8, <1>11, <1>12, <1>13, StockMoves

LEMMA ReadCategoryStock ==
    ASSUME IInv, StockInv, NEW h \in Handlers, ReadCategory(h)
    PROVE  StockInv'
  <1> DEFINE i == Len(entities[h]) + 1
             l == LinesFor(h)[i]
             e == [Visible(h, l.category) EXCEPT !.quantity = @ + l.quantity]
  <1>1. /\ pc[h] = "read" /\ entities' = [entities EXCEPT ![h] = Append(@, e)]
        /\ GoTo(h, IF i = Len(LinesFor(h)) THEN "diff" ELSE "read")
        /\ row' = row /\ dirty' = dirty /\ lock' = lock /\ releases' = releases /\ msg' = msg
    BY DEF ReadCategory, rowVars, doneVars
  <1>2. /\ msg[h] \in Message /\ Order(h) \in Orders
        /\ i \in 1..Len(LinesFor(h)) /\ entities \in [Handlers -> Seq(TicketCategory)]
    BY <1>1, LinesOK
       DEF IInv, TypeOK, HandlersType, HandlerInv, LoopInv, Order, LinesFor, Message
  <1>3. l.category \in Categories /\ l.quantity \in Nat
    BY <1>2, LinesOK DEF LinesFor
  <1>4. /\ \A g \in Handlers \ {h} : pc'[g] = pc[g] /\ entities'[g] = entities[g]
        /\ pc'[h] \in {"read", "diff"}
        /\ entities'[h] = Append(entities[h], e)
    BY <1>1, <1>2 DEF GoTo, IInv, TypeOK, HandlersType
  <1>5. ASSUME NEW c, c = l.category
        PROVE  e.quantity \in 0..(Room(c) + Places(Order(h), c))
    <2>1. lock[c] # h
      BY <1>1, <1>3, <1>5, ConstantsAssumption DEF StockInv
    <2>2. row[c] \in TicketCategory
      BY <1>3, <1>5 DEF IInv, TypeOK, RowsType
    <2>3. e.quantity = row[c].quantity + l.quantity
      BY <1>5, <2>1, <2>2 DEF Visible, TicketCategory
    <2>4. row[c].quantity \in 0..Room(c)
      BY <1>3, <1>5 DEF StockInv
    <2>5. Room(c) \in Nat /\ Places(Order(h), c) \in Nat
      BY <1>2, <1>3, <1>5, RoomIsNat, PlacesBound
    <2>6. l.quantity <= Places(Order(h), c)
      BY <1>2, <1>5, PlacesBound DEF LinesFor
    <2>7. QED  BY <1>3, <2>3, <2>4, <2>5, <2>6
  <1>6. PICK n : n = i
    OBVIOUS
  <1>7. PICK x : x = e
    OBVIOUS
  <1>8. entities[h] \in Seq(TicketCategory) /\ n = Len(entities[h]) + 1
    BY <1>2, <1>6
  <1>9. /\ entities'[h] = Append(entities[h], x)
        /\ \A c : c = LinesFor(h)[n].category => x.quantity \in 0..(Room(c) + Places(Order(h), c))
    BY <1>4, <1>5, <1>6, <1>7
  <1> HIDE DEF i, l, e
  <1>10. \A c \in Categories : Room(c)' = Room(c)
    BY <1>1, ReleasedMoves DEF Room
  <1>11. ASSUME NEW g \in Handlers
         PROVE  Order(g)' = Order(g) /\ LinesFor(g)' = LinesFor(g)
    BY <1>1 DEF Order, LinesFor
  <1>12. ASSUME NEW g \in Handlers, InLoop(g)', NEW k \in DOMAIN entities'[g],
                NEW c, c = LinesFor(g)[k].category
         PROVE  entities'[g][k].quantity \in 0..(Room(c) + Places(Order(g), c))
    <2>1. CASE g # h
      BY <1>4, <1>12, <2>1 DEF StockInv, InLoop
    <2>2. CASE g = h /\ k # n
      <3>1. k \in DOMAIN entities[h] /\ entities'[h][k] = entities[h][k]
        BY <1>8, <1>9, <1>12, <2>2
      <3>2. QED  BY <1>1, <1>12, <2>2, <3>1 DEF StockInv
    <2>3. CASE g = h /\ k = n
      <3>1. entities'[h][n] = x
        BY <1>8, <1>9
      <3>2. QED  BY <1>9, <1>12, <2>3, <3>1
    <2>4. QED  BY <2>1, <2>2, <2>3
  <1>13. ASSUME NEW g \in Handlers, InLoop(g)', NEW k \in DOMAIN entities'[g]
         PROVE  LinesFor(g)[k].category \in Categories
    <2>1. k \in 1..Len(LinesFor(g)) /\ Order(g) \in Orders
      <3>1. CASE g # h
        <4>1. InLoop(g) /\ k \in DOMAIN entities[g]
          BY <1>4, <1>13, <3>1 DEF InLoop
        <4>2. msg[g] \in Message /\ Len(entities[g]) <= Len(LinesFor(g))
          BY <4>1, LinesOK DEF IInv, HandlerInv, LoopInv, InLoop, LinesFor, Order, Message,
                    TypeOK, HandlersType
        <4>3. entities[g] \in Seq(TicketCategory)
          BY <1>2
        <4>4. Order(g) \in Orders /\ Len(LinesFor(g)) \in Nat
          BY <4>2, LinesOK DEF Order, Message, LinesFor
        <4>5. QED  BY <4>1, <4>2, <4>3, <4>4
      <3>2. CASE g = h
        <4>1. k \in 1..n
          BY <1>8, <1>9, <1>13, <3>2
        <4>2. n \in 1..Len(LinesFor(h)) /\ Len(LinesFor(h)) \in Nat
          BY <1>2, <1>6, LinesOK DEF LinesFor
        <4>3. QED  BY <1>2, <3>2, <4>1, <4>2
      <3>3. QED  BY <3>1, <3>2
    <2>2. QED  BY <2>1, LinesOK DEF LinesFor
  <1>14. ASSUME NEW c \in Categories
         PROVE  /\ row'[c].quantity \in 0..Room(c)'
                /\ IF lock'[c] = Free
                      THEN dirty'[c] = row'[c]
                      ELSE \E g \in Handlers :
                              /\ lock'[c] = g /\ Holds(g)'
                              /\ dirty'[c].quantity \in 0..(Room(c)' + Places(Order(g)', c))
    <2>1. Holds(h) = FALSE
      BY <1>1 DEF Holds
    <2>2. \A g \in Handlers : Holds(g) => Holds(g)'
      BY <1>1, <1>4, <2>1 DEF Holds
    <2>3. QED  BY <1>1, <1>10, <1>11, <2>2 DEF StockInv, Holds
  <1>15. QED
    BY <1>10, <1>11, <1>12, <1>13, <1>14 DEF StockInv, Holds, InLoop

LEMMA SaveLineStock ==
    ASSUME IInv, StockInv, NEW h \in Handlers, SaveLine(h)
    PROVE  StockInv'
  <1>1. PICK i : i = line[h]
    OBVIOUS
  <1>2. PICK c : c = LinesFor(h)[i].category
    OBVIOUS
  <1>3. PICK ch : ch = changed[h][i]
    OBVIOUS
  <1>4. PICK v : dirty' = [dirty EXCEPT ![c] = SavedRow(entities[h][i], @, ch, v)]
    BY <1>1, <1>2, <1>3 DEF SaveLine
  <1>5. /\ pc[h] = "save" /\ lock[c] \in {h, Free} /\ lock' = [lock EXCEPT ![c] = h]
        /\ NextLine(h) /\ row' = row /\ releases' = releases
        /\ msg' = msg /\ entities' = entities
    BY <1>1, <1>2 DEF SaveLine, NextLine, doneVars
  <1>6. /\ msg[h] \in Message /\ msg[h].kind = "failed" /\ Order(h) \in Orders
        /\ i \in DOMAIN entities[h] /\ i \in 1..Len(LinesFor(h))
    BY <1>1, <1>5, LinesOK
       DEF IInv, TypeOK, HandlersType, HandlerInv, LoopInv, Order, LinesFor, Message
  <1>7. c \in Categories
    BY <1>2, <1>6, LinesOK DEF LinesFor
  <1>8. /\ \A g \in Handlers \ {h} : pc'[g] = pc[g]
        /\ pc'[h] \in {"save", "commit"}
    BY <1>5 DEF NextLine, GoTo, IInv, TypeOK, HandlersType
  <1>9. \A g \in Handlers : (Holds(g) => Holds(g)') /\ (InLoop(g)' => InLoop(g))
    BY <1>5, <1>8 DEF Holds, InLoop
  <1>10. Holds(h)'
    BY <1>5, <1>6, <1>8 DEF Holds
  <1>11. \A k \in Categories : Room(k)' = Room(k)
    BY <1>5, ReleasedMoves DEF Room
  <1>12. \A g \in Handlers : Order(g)' = Order(g) /\ LinesFor(g)' = LinesFor(g)
    BY <1>5 DEF Order, LinesFor
  <1>13. /\ dirty'[c] = SavedRow(entities[h][i], dirty[c], ch, v)
         /\ \A k \in Categories \ {c} : dirty'[k] = dirty[k] /\ lock'[k] = lock[k]
         /\ lock'[c] = h
    BY <1>4, <1>5, <1>7 DEF IInv, TypeOK, RowsType
  <1>14. dirty'[c].quantity \in 0..(Room(c) + Places(Order(h), c))
    <2>1. entities[h][i].quantity \in 0..(Room(c) + Places(Order(h), c))
      BY <1>2, <1>5, <1>6 DEF StockInv
    <2>2. dirty[c].quantity \in 0..(Room(c) + Places(Order(h), c))
      <3>1. CASE lock[c] = Free
        <4>1. dirty[c].quantity \in 0..Room(c)
          BY <1>7, <3>1 DEF StockInv
        <4>2. Room(c) \in Nat /\ Places(Order(h), c) \in Nat
          BY <1>6, <1>7, RoomIsNat, PlacesBound
        <4>3. QED  BY <4>1, <4>2
      <3>2. CASE lock[c] = h
        BY <1>7, <3>2, ConstantsAssumption DEF StockInv
      <3>3. QED  BY <1>5, <3>1, <3>2
    <2>3. QED  BY <1>13, <2>1, <2>2 DEF SavedRow
  <1>15. ASSUME NEW k \in Categories
         PROVE  IF lock'[k] = Free
                   THEN dirty'[k] = row'[k]
                   ELSE \E g \in Handlers :
                           /\ lock'[k] = g /\ Holds(g)'
                           /\ dirty'[k].quantity \in 0..(Room(k)' + Places(Order(g)', k))
    <2>1. CASE k = c
      BY <1>7, <1>10, <1>11, <1>12, <1>13, <1>14, <2>1, ConstantsAssumption
    <2>2. CASE k # c
      BY <1>5, <1>9, <1>11, <1>12, <1>13, <2>2 DEF StockInv, Holds
    <2>3. QED  BY <2>1, <2>2
  <1>16. \A k \in Categories : row'[k].quantity \in 0..Room(k)'
    BY <1>5, <1>11 DEF StockInv
  <1>17. ASSUME NEW g \in Handlers, InLoop(g)', NEW k \in DOMAIN entities'[g]
         PROVE  LinesFor(g)[k].category \in Categories
    <2>1. msg[g] \in Message /\ Len(entities[g]) <= Len(LinesFor(g))
      BY <1>9, <1>17, LinesOK DEF IInv, HandlerInv, LoopInv, InLoop, LinesFor, Order, Message,
             TypeOK, HandlersType
    <2>2. entities[g] \in Seq(TicketCategory)
      BY DEF IInv, TypeOK, HandlersType
    <2>3. Order(g) \in Orders /\ Len(LinesFor(g)) \in Nat
      BY <2>1, LinesOK DEF Order, Message, LinesFor
    <2>4. QED  BY <1>5, <1>17, <2>1, <2>2, <2>3, LinesOK DEF LinesFor
  <1>18. ASSUME NEW g \in Handlers, InLoop(g)', NEW k \in DOMAIN entities'[g],
                NEW d, d = LinesFor(g)[k].category
         PROVE  entities'[g][k].quantity \in 0..(Room(d) + Places(Order(g), d))
    BY <1>5, <1>9, <1>18 DEF StockInv, InLoop
  <1>19. QED
    BY <1>11, <1>12, <1>15, <1>16, <1>17, <1>18 DEF StockInv, Holds, InLoop

\* A handler that goes on, with what it has read of the rows.
LEMMA MoveStock ==
    ASSUME IInv, StockInv, NEW h \in Handlers, NEW next, GoTo(h, next),
           UNCHANGED <<rowVars, releases, msg, entities>>,
           Holds(h) => next \in {"save", "commit"},
           next \in {"read", "diff", "save"} => entities[h] = <<>> \/ InLoop(h)
    PROVE  StockInv'
  <1>1. pc'[h] = next /\ \A g \in Handlers \ {h} : pc'[g] = pc[g]
    BY DEF GoTo, IInv, TypeOK, HandlersType
  <1>2. \A g \in Handlers : Holds(g) => Holds(g)' /\ msg'[g] = msg[g]
    BY <1>1 DEF Holds
  <1>3. \A g \in Handlers : InLoop(g)' =>
           \/ entities'[g] = <<>>
           \/ InLoop(g) /\ entities'[g] = entities[g] /\ msg'[g] = msg[g]
    BY <1>1 DEF InLoop
  <1>4. QED  BY <1>2, <1>3, QuietStock

LEMMA HandleStock ==
    ASSUME IInv, StockInv, NEW h \in Handlers, Handle(h)
    PROVE  StockInv'
  <1>1. CASE CompleteOrder(h)
    BY <1>1, MoveStock DEF CompleteOrder, doneVars, Holds
  <1>2. CASE SendInvoice(h)
    <2>1. msg[h].kind = "billed"
      BY <1>2 DEF SendInvoice, IInv, HandlerInv
    <2>2. QED  BY <1>2, <2>1, MoveStock DEF SendInvoice, doneVars, Holds
  <1>3. CASE ReadOrder(h)
    <2>1. CASE HandlerError(h)
      BY <2>1, RollbackStock
    <2>2. CASE ~HandlerError(h)
      <3>1. pc[h] = "order" /\ GoTo(h, "status") /\ UNCHANGED <<rowVars, releases, msg, entities>>
        BY <1>3, <2>2 DEF ReadOrder, doneVars
      <3>2. QED  BY <3>1, MoveStock DEF Holds
    <2>3. QED  BY <2>1, <2>2
  <1>4. CASE UpdateStatus(h)
    <2>1. entities[h] = <<>>
      BY <1>4 DEF UpdateStatus, IInv, LoopInv
    <2>2. QED  BY <1>4, <2>1, MoveStock DEF UpdateStatus, doneVars, Holds
  <1>5. CASE SelectForSave(h)
    <2>1. /\ pc[h] = "diff" /\ GoTo(h, "save")
          /\ UNCHANGED <<rowVars, releases, msg, entities>>
      BY <1>5 DEF SelectForSave, doneVars
    <2>2. QED  BY <2>1, MoveStock DEF Holds, InLoop
  <1>6. CASE SkipLine(h)
    <2>1. /\ pc[h] = "save" /\ UNCHANGED <<rowVars, releases, msg, entities>>
          /\ GoTo(h, IF line[h] = Len(entities[h]) THEN "commit" ELSE "save")
      BY <1>6 DEF SkipLine, NextLine, doneVars, rowVars
    <2>2. QED  BY <2>1, MoveStock DEF Holds, InLoop
  <1>7. CASE RejectCanceled(h)
    BY <1>7, RollbackStock DEF RejectCanceled
  <1>8. QED
    BY <1>1, <1>2, <1>3, <1>4, <1>5, <1>6, <1>7, CommitBilledStock, ReadCategoryStock,
       SaveLineStock, CommitFailedStock
       DEF Handle

LEMMA TakeMessageStock ==
    ASSUME IInv, StockInv, NEW h \in Handlers, NEW m, TakeMessage(h, m)
    PROVE  StockInv'
  <1>1. /\ pc[h] = "idle" /\ pc'[h] \in {"complete", "order"}
        /\ \A g \in Handlers \ {h} : pc'[g] = pc[g] /\ msg'[g] = msg[g]
        /\ entities' = entities
        /\ UNCHANGED <<rowVars, releases>>
    BY DEF TakeMessage, GoTo, doneVars, IInv, TypeOK, HandlersType
  <1>2. \A g \in Handlers : Holds(g) => Holds(g)' /\ msg'[g] = msg[g]
    BY <1>1 DEF Holds
  <1>3. \A g \in Handlers : InLoop(g)' =>
           \/ entities'[g] = <<>>
           \/ InLoop(g) /\ entities'[g] = entities[g] /\ msg'[g] = msg[g]
    BY <1>1 DEF InLoop
  <1>4. QED  BY <1>1, <1>2, <1>3, QuietStock

LEMMA NextStock ==
    ASSUME IInv, StockInv, [Next]_vars
    PROVE  StockInv'
  <1>1. ASSUME UNCHANGED <<rowVars, handlerVars, doneVars>>
        PROVE  StockInv'
    <2>1. UNCHANGED <<rowVars, releases, pc, msg, entities>>
      BY <1>1 DEF handlerVars, doneVars
    <2>2. \A g \in Handlers : Holds(g) => Holds(g)' /\ msg'[g] = msg[g]
      BY <2>1 DEF Holds
    <2>3. \A g \in Handlers : InLoop(g)' =>
             InLoop(g) /\ entities'[g] = entities[g] /\ msg'[g] = msg[g]
      BY <2>1 DEF InLoop
    <2>4. QED  BY <2>1, <2>2, <2>3, QuietStock
  <1>2. ASSUME NEW o \in Orders,
               \/ Pay(o) \/ AttemptFails(o) \/ Cancel(o)
               \/ MailTickets(o) \/ MailFindsNothing(o)
        PROVE  StockInv'
    <2>1. CASE MailFindsNothing(o)
      BY <2>1, ApiStopsStock DEF MailFindsNothing
    <2>2. CASE ~MailFindsNothing(o)
      BY <1>1, <1>2, <2>2 DEF Pay, AttemptFails, Cancel, MailTickets
    <2>3. QED  BY <2>1, <2>2
  <1>3. CASE Webhook \/ GatewayDies
    BY <1>1, <1>3 DEF Webhook, SavePayment, EmitBilled, EmitFailed, GatewayDies
  <1>4. ASSUME NEW m \in queue, LoseMessage(m) \/ ParseFails(m) \/ \E h \in Handlers : TakeMessage(h, m)
        PROVE  StockInv'
    BY <1>1, <1>4, TakeMessageStock DEF LoseMessage, ParseFails
  <1>5. ASSUME NEW h \in Handlers, Handle(h) \/ DbFailure(h) \/ DeadlockAbort(h)
        PROVE  StockInv'
    BY <1>5, HandleStock, RollbackStock DEF DbFailure, DeadlockAbort
  <1>6. CASE ApiDies
    BY <1>6, ApiStopsStock DEF ApiDies
  <1>7. CASE UNCHANGED vars
    BY <1>1, <1>7 DEF vars
  <1>8. QED
    BY <1>2, <1>3, <1>4, <1>5, <1>6, <1>7, SellTicketStock DEF Next, Settled

LEMMA StockInvariance == Spec => []StockInv
  <1>1. Init => StockInv
    <2> SUFFICES ASSUME Init PROVE StockInv
      OBVIOUS
    <2>1. IInv /\ releases = <<>>
      BY InitOK DEF Init
    <2>2. \A c \in Categories : Released(c) \in Nat
      BY <2>1, ReleasedMoves
    <2>3. \A c \in Categories : InitialRow[c].quantity \in 0..Room(c)
      BY <2>2, ConstantsAssumption DEF Room, TicketCategory
    <2>4. QED  BY <2>3 DEF Init, StockInv
  <1>2. IInv /\ StockInv /\ [Next]_vars => StockInv'
    BY NextStock
  <1>3. IInv /\ [Next]_vars => IInv'
    BY NextOK
  <1>4. QED  BY <1>1, <1>2, <1>3, InitOK, PTL DEF Spec

\* Handlers and sales lose each other's updates, but a stock never exceeds what
\* there was at the start and what committed releases gave back, and it is never
\* negative (orders.service.ts:708-727).
THEOREM StockStaysWithinBounds == Spec => []StockWithinBounds
  <1>1. StockInv => StockWithinBounds
    BY DEF StockInv, StockWithinBounds, Room
  <1>2. QED  BY <1>1, StockInvariance, PTL

-----------------------------------------------------------------------------
(* Transactions that do not overlap                                          *)

\* The lines whose category the handler has saved.
Saved(h, c) == {i \in 1..(line[h] - 1) : LinesFor(h)[i].category = c}

\* Nothing the only open transaction has read changes before it ends: the order
\* is pending until then, and every category it saved got one of its lines.
FailedStep(h) == pc[h] \in {"status", "read", "diff", "save", "commit"} /\ msg[h].kind = "failed"
SavedLines(h) ==
    /\ pc[h] = "commit" => line[h] = Len(LinesFor(h)) + 1
    /\ \A c \in Categories :
          IF Saved(h, c) = {}
             THEN lock[c] # h
             ELSE /\ lock[c] = h
                  /\ \E i \in Saved(h, c) :
                        dirty[c].quantity = row[c].quantity + LinesFor(h)[i].quantity
ReadLines(h) ==
    \A i \in DOMAIN entities[h] :
       entities[h][i].quantity
          = row[LinesFor(h)[i].category].quantity + LinesFor(h)[i].quantity

Serially(h) ==
    /\ FailedStep(h) => status[Order(h)] = "pending"
    /\ InLoop(h) => ReadLines(h)
    /\ pc[h] = "save" => \A i \in DOMAIN changed[h] : "quantity" \in changed[h][i]
    /\ Holds(h) => SavedLines(h)

OneOpen == \A g, h \in Handlers : Open(g) /\ Open(h) => g = h
SerialInv == OneOpen /\ \A h \in Handlers : Serially(h)

Same(g) ==
    /\ pc'[g] = pc[g] /\ msg'[g] = msg[g] /\ entities'[g] = entities[g]
    /\ changed'[g] = changed[g] /\ line'[g] = line[g]

\* Only a handler that saves or commits holds a row.
LEMMA HolderHolds ==
    ASSUME StockInv, NEW c \in Categories, NEW h \in Handlers, lock[c] = h
    PROVE  Holds(h)
  BY ConstantsAssumption DEF StockInv, Holds

\* Lines are of categories.
LEMMA LoopLines ==
    ASSUME IInv, NEW h \in Handlers, InLoop(h) \/ Holds(h)
    PROVE  /\ msg[h] \in Message /\ Order(h) \in Orders
           /\ Len(LinesFor(h)) \in Nat
           /\ \A i \in 1..Len(LinesFor(h)) :
                 LinesFor(h)[i].category \in Categories /\ LinesFor(h)[i].quantity \in Nat \ {0}
           /\ InLoop(h) => \A i \in DOMAIN entities[h] : i \in 1..Len(LinesFor(h))
  <1>1. msg[h] \in Message /\ Order(h) \in Orders
    BY DEF IInv, HandlerInv, InLoop, Holds, Order, Message
  <1>2. Len(LinesFor(h)) \in Nat
    BY <1>1, LinesOK DEF LinesFor
  <1>3. \A i \in 1..Len(LinesFor(h)) :
           LinesFor(h)[i].category \in Categories /\ LinesFor(h)[i].quantity \in Nat \ {0}
    <2>1. LinesFor(h) \in Seq(Lines)
      BY <1>1, LinesOK DEF LinesFor
    <2>2. \A i \in 1..Len(LinesFor(h)) : LinesFor(h)[i] \in Lines
      BY <2>1
    <2>3. \A l \in Lines : l.category \in Categories /\ l.quantity \in Nat \ {0}
      BY DEF Lines
    <2>4. QED  BY <2>2, <2>3
  <1>4. ASSUME InLoop(h), NEW i \in DOMAIN entities[h]
        PROVE  i \in 1..Len(LinesFor(h))
    <2>1. entities[h] \in Seq(TicketCategory) /\ Len(entities[h]) <= Len(LinesFor(h))
      BY <1>2, <1>4 DEF IInv, TypeOK, HandlersType, LoopInv, InLoop
    <2>2. QED  BY <1>2, <1>4, <2>1
  <1>5. QED  BY <1>1, <1>2, <1>3, <1>4

\* A handler that rests, while others leave alone what it relies on.
LEMMA RestSerial ==
    ASSUME IInv, StockInv, NEW g \in Handlers, Serially(g), Same(g),
           Open(g) => row' = row /\ status' = status,
           \A c \in Categories :
              /\ lock'[c] = g <=> lock[c] = g
              /\ lock[c] = g => dirty'[c] = dirty[c]
    PROVE  Serially(g)'
  <1>1. Order(g)' = Order(g) /\ LinesFor(g)' = LinesFor(g)
    BY DEF Same, Order, LinesFor
  <1>2. FailedStep(g)' => status'[Order(g)'] = "pending"
    BY <1>1 DEF Same, Serially, FailedStep, Open
  <1>3. ASSUME InLoop(g)'
        PROVE  ReadLines(g)'
    BY <1>1, <1>3 DEF Same, Serially, InLoop, Open, ReadLines
  <1>4. pc'[g] = "save" => \A i \in DOMAIN changed'[g] : "quantity" \in changed'[g][i]
    BY DEF Same, Serially
  <1>5. ASSUME Holds(g)'
        PROVE  SavedLines(g)'
    <2>1. Holds(g) /\ row' = row
      BY <1>5 DEF Same, Holds, Open
    <2>2. \A c : Saved(g, c)' = Saved(g, c)
      BY <1>1 DEF Same, Saved
    <2>3. QED  BY <1>1, <2>1, <2>2 DEF Same, Serially, SavedLines
  <1>6. QED  BY <1>1, <1>2, <1>3, <1>4, <1>5 DEF Serially

LEMMA IdleSerial ==
    ASSUME NEW h \in Handlers,
           \/ pc'[h] \in {"idle", "complete", "order", "invoice"}
           \/ pc'[h] = "commit" /\ msg'[h].kind = "billed"
    PROVE  Serially(h)'
  BY DEF Serially, FailedStep, InLoop, Holds

\* One handler moves.
LEMMA MoverSerial ==
    ASSUME IInv, StockInv, SerialInv, OneOpen', NEW h \in Handlers,
           \A g \in Handlers \ {h} : Same(g),
           Open(h) \/ (row' = row /\ status' = status),
           \A c \in Categories :
              \/ lock'[c] = lock[c] /\ dirty'[c] = dirty[c]
              \/ lock[c] \in {h, Free} /\ lock'[c] \in {h, Free},
           Serially(h)'
    PROVE  SerialInv'
  <1>1. ASSUME NEW g \in Handlers \ {h}
        PROVE  Serially(g)'
    <2>1. Open(g) => row' = row /\ status' = status
      BY DEF SerialInv, OneOpen
    <2>2. \A c \in Categories :
             /\ lock'[c] = g <=> lock[c] = g
             /\ lock[c] = g => dirty'[c] = dirty[c]
      BY ConstantsAssumption
    <2>3. QED  BY <2>1, <2>2, RestSerial DEF SerialInv
  <1>2. QED  BY <1>1 DEF SerialInv

\* A handler that goes on without touching a row.
LEMMA GoOnSerial ==
    ASSUME IInv, StockInv, SerialInv, OneOpen', NEW h \in Handlers, NEW next, GoTo(h, next),
           UNCHANGED <<row, status, lock, dirty, msg, line>>,
           \A g \in Handlers \ {h} : entities'[g] = entities[g] /\ changed'[g] = changed[g],
           Serially(h)'
    PROVE  SerialInv'
  <1>1. \A g \in Handlers \ {h} : Same(g)
    BY DEF GoTo, Same, IInv, TypeOK, HandlersType
  <1>2. QED  BY <1>1, MoverSerial

LEMMA HandlerErrorSerial ==
    ASSUME IInv, StockInv, SerialInv, OneOpen', NEW h \in Handlers, HandlerError(h)
    PROVE  SerialInv'
  <1>1. \A g \in Handlers \ {h} : Same(g)
    BY DEF HandlerError, Finish, Same, IInv, TypeOK, HandlersType
  <1>2. pc'[h] = "idle"
    BY DEF HandlerError, Finish, IInv, TypeOK, HandlersType
  <1>3. row' = row /\ status' = status
    BY DEF HandlerError, Rollback
  <1>4. \A c \in Categories :
           \/ lock'[c] = lock[c] /\ dirty'[c] = dirty[c]
           \/ lock[c] \in {h, Free} /\ lock'[c] \in {h, Free}
    BY DEF HandlerError, Rollback, ReleaseLocks
  <1>5. QED  BY <1>1, <1>2, <1>3, <1>4, IdleSerial, MoverSerial

LEMMA CommitSerial ==
    ASSUME IInv, StockInv, SerialInv, OneOpen', NEW h \in Handlers,
           CommitBilled(h) \/ CommitFailed(h)
    PROVE  SerialInv'
  <1>1. \A g \in Handlers \ {h} : Same(g)
    BY DEF CommitBilled, CommitFailed, Finish, Same, IInv, TypeOK, HandlersType
  <1>2. pc'[h] = "idle" /\ Open(h)
    BY DEF CommitBilled, CommitFailed, Finish, IInv, TypeOK, HandlersType, Open
  <1>3. \A c \in Categories :
           \/ lock'[c] = lock[c] /\ dirty'[c] = dirty[c]
           \/ lock[c] \in {h, Free} /\ lock'[c] \in {h, Free}
    BY DEF CommitBilled, CommitFailed, Publish, ReleaseLocks
  <1>4. QED  BY <1>1, <1>2, <1>3, IdleSerial, MoverSerial

LEMMA ReadOrderSerial ==
    ASSUME IInv, LockInv, StockInv, SerialInv, OneOpen', NEW h \in Handlers, ReadOrder(h)
    PROVE  SerialInv'
  <1>1. CASE HandlerError(h)
    BY <1>1, HandlerErrorSerial
  <1>2. CASE ~HandlerError(h)
    <2>1. /\ pc[h] = "order" /\ GoTo(h, "status") /\ VisibleStatus(h, Order(h)) = "pending"
          /\ UNCHANGED <<row, status, lock, dirty, msg, line, entities, changed>>
      BY <1>2 DEF ReadOrder, orderVars, rowVars
    <2>2. msg[h] \in Message /\ Order(h) \in Orders
      BY <2>1 DEF IInv, HandlerInv, Order, Message
    <2>3. orderLock[Order(h)] # h
      BY <2>1, <2>2, ConstantsAssumption DEF LockInv, Locks
    <2>4. status'[Order(h)'] = "pending"
      BY <2>1, <2>3 DEF VisibleStatus, Order
    <2>5. pc'[h] = "status"
      BY <2>1 DEF GoTo, IInv, TypeOK, HandlersType
    <2>6. Serially(h)'
      BY <2>4, <2>5 DEF Serially, InLoop, Holds
    <2>7. QED  BY <2>1, <2>6, GoOnSerial
  <1>3. QED  BY <1>1, <1>2

LEMMA UpdateStatusSerial ==
    ASSUME IInv, StockInv, SerialInv, OneOpen', NEW h \in Handlers, UpdateStatus(h)
    PROVE  SerialInv'
  <1>1. /\ pc[h] = "status" /\ GoTo(h, "read") /\ msg[h].kind = "failed"
        /\ UNCHANGED <<row, status, lock, dirty, msg, line, entities, changed>>
    BY DEF UpdateStatus, rowVars
  <1>2. pc'[h] = "read" /\ entities'[h] = <<>>
    BY <1>1 DEF GoTo, IInv, TypeOK, HandlersType, LoopInv
  <1>3. FailedStep(h)' => status'[Order(h)'] = "pending"
    BY <1>1 DEF SerialInv, Serially, FailedStep, Order
  <1>4. ReadLines(h)'
    BY <1>2 DEF ReadLines
  <1>5. Serially(h)'
    BY <1>2, <1>3, <1>4 DEF Serially, Holds
  <1>6. QED  BY <1>1, <1>5, GoOnSerial

LEMMA ReadCategorySerial ==
    ASSUME IInv, StockInv, SerialInv, OneOpen', NEW h \in Handlers, ReadCategory(h)
    PROVE  SerialInv'
  <1>1. PICK i : i = Len(entities[h]) + 1
    OBVIOUS
  <1>2. PICK c : c = LinesFor(h)[i].category
    OBVIOUS
  <1>3. PICK e : e = [Visible(h, c) EXCEPT !.quantity = @ + LinesFor(h)[i].quantity]
    OBVIOUS
  <1>4. /\ pc[h] = "read" /\ entities' = [entities EXCEPT ![h] = Append(@, e)]
        /\ GoTo(h, IF i = Len(LinesFor(h)) THEN "diff" ELSE "read")
        /\ UNCHANGED <<row, status, lock, dirty, msg, line, changed>>
    BY <1>1, <1>2, <1>3 DEF ReadCategory, orderVars, rowVars
  <1>5. /\ i \in 1..Len(LinesFor(h)) /\ entities \in [Handlers -> Seq(TicketCategory)]
        /\ msg[h].kind = "failed"
    BY <1>1, <1>4, LinesOK
       DEF IInv, TypeOK, HandlersType, HandlerInv, LoopInv, LinesFor, Order, Message
  <1>6. c \in Categories /\ LinesFor(h)[i].quantity \in Nat
    BY <1>2, <1>4, <1>5, LoopLines DEF InLoop
  <1>7. e.quantity = row[c].quantity + LinesFor(h)[i].quantity
    <2>1. lock[c] # h
      BY <1>4, <1>6, HolderHolds DEF Holds
    <2>2. row[c] \in TicketCategory
      BY <1>6 DEF IInv, TypeOK, RowsType
    <2>3. QED  BY <1>3, <2>1, <2>2 DEF Visible, TicketCategory
  <1>8. /\ pc'[h] \in {"read", "diff"} /\ entities'[h] = Append(entities[h], e)
        /\ \A g \in Handlers \ {h} : entities'[g] = entities[g]
    BY <1>4, <1>5 DEF GoTo, IInv, TypeOK, HandlersType
  <1>9. LinesFor(h)' = LinesFor(h)
    BY <1>4 DEF LinesFor, Order
  <1>10. ReadLines(h)
    BY <1>4 DEF SerialInv, Serially, InLoop
  <1>11. ASSUME NEW k \in DOMAIN entities'[h]
         PROVE  entities'[h][k].quantity
                  = row[LinesFor(h)[k].category].quantity + LinesFor(h)[k].quantity
    <2>1. entities[h] \in Seq(TicketCategory)
      BY <1>5
    <2>2. CASE k = i
      <3>1. entities'[h][k] = e
        BY <1>1, <1>8, <2>1, <2>2
      <3>2. QED  BY <1>2, <1>7, <2>2, <3>1
    <2>3. CASE k # i
      <3>1. k \in DOMAIN entities[h] /\ entities'[h][k] = entities[h][k]
        BY <1>1, <1>8, <1>11, <2>1, <2>3
      <3>2. QED  BY <1>10, <3>1 DEF ReadLines
    <2>4. QED  BY <2>2, <2>3
  <1>12. ReadLines(h)'
    BY <1>4, <1>9, <1>11 DEF ReadLines
  <1>13. FailedStep(h)' => status'[Order(h)'] = "pending"
    BY <1>4, <1>5 DEF SerialInv, Serially, FailedStep, Order
  <1>14. Serially(h)'
    BY <1>8, <1>12, <1>13 DEF Serially, Holds
  <1>15. QED  BY <1>4, <1>8, <1>14, GoOnSerial

LEMMA SelectForSaveSerial ==
    ASSUME IInv, StockInv, SerialInv, OneOpen', NEW h \in Handlers, SelectForSave(h)
    PROVE  SerialInv'
  <1>1. PICK ch : ch = [i \in DOMAIN entities[h] |->
                 ChangedColumns(entities[h][i], Visible(h, LinesFor(h)[i].category))]
    OBVIOUS
  <1>2. /\ pc[h] = "diff" /\ changed' = [changed EXCEPT ![h] = ch] /\ GoTo(h, "save")
        /\ UNCHANGED <<row, status, lock, dirty, msg, line, entities>>
    BY <1>1 DEF SelectForSave, orderVars, rowVars
  <1>3. msg[h].kind = "failed" /\ line[h] = 1
    BY <1>2 DEF IInv, HandlerInv, LoopInv
  <1>4. /\ pc'[h] = "save" /\ changed'[h] = ch
        /\ \A g \in Handlers \ {h} : changed'[g] = changed[g]
    BY <1>2 DEF GoTo, IInv, TypeOK, HandlersType
  <1>5. LinesFor(h)' = LinesFor(h) /\ Order(h)' = Order(h)
    BY <1>2 DEF LinesFor, Order
  <1>6. \A c \in Categories : lock[c] # h
    BY <1>2, HolderHolds DEF Holds
  <1>7. ReadLines(h)
    BY <1>2 DEF SerialInv, Serially, InLoop
  <1>8. ASSUME NEW i \in DOMAIN ch
        PROVE  "quantity" \in ch[i]
    <2>1. PICK c : c = LinesFor(h)[i].category
      OBVIOUS
    <2>2. i \in DOMAIN entities[h] /\ i \in 1..Len(LinesFor(h))
      BY <1>1, <1>2, <1>8, LoopLines DEF InLoop
    <2>3. c \in Categories /\ LinesFor(h)[i].quantity \in Nat \ {0}
      BY <1>2, <2>1, <2>2, LoopLines DEF InLoop
    <2>4. entities[h][i].quantity = row[c].quantity + LinesFor(h)[i].quantity
      BY <1>7, <2>1, <2>2 DEF ReadLines
    <2>5. row[c].quantity \in Int
      BY <2>3 DEF IInv, TypeOK, RowsType, TicketCategory
    <2>6. ch[i] = ChangedColumns(entities[h][i], row[c])
      BY <1>1, <1>6, <2>1, <2>2, <2>3 DEF Visible
    <2>7. entities[h][i].quantity # row[c].quantity
      BY <2>3, <2>4, <2>5
    <2>8. QED  BY <2>6, <2>7 DEF ChangedColumns, Columns
  <1>9. ReadLines(h)'
    BY <1>2, <1>5, <1>7 DEF ReadLines
  <1>10. SavedLines(h)'
    <2>1. \A c : Saved(h, c)' = {}
      BY <1>2, <1>3 DEF Saved
    <2>2. QED  BY <1>2, <1>4, <1>6, <2>1 DEF SavedLines
  <1>11. FailedStep(h)' => status'[Order(h)'] = "pending"
    BY <1>2, <1>3 DEF SerialInv, Serially, FailedStep, Order
  <1>12. Serially(h)'
    BY <1>4, <1>8, <1>9, <1>10, <1>11 DEF Serially
  <1>13. QED  BY <1>2, <1>4, <1>12, GoOnSerial

LEMMA SaveLineSerial ==
    ASSUME IInv, StockInv, SerialInv, OneOpen', NEW h \in Handlers, SaveLine(h)
    PROVE  SerialInv'
  <1>1. PICK i : i = line[h]
    OBVIOUS
  <1>2. PICK c : c = LinesFor(h)[i].category
    OBVIOUS
  <1>3. PICK ch : ch = changed[h][i]
    OBVIOUS
  <1>4. PICK v : dirty' = [dirty EXCEPT ![c] = SavedRow(entities[h][i], @, ch, v)]
    BY <1>1, <1>2, <1>3 DEF SaveLine
  <1>5. /\ pc[h] = "save" /\ lock[c] \in {h, Free} /\ lock' = [lock EXCEPT ![c] = h]
        /\ line' = [line EXCEPT ![h] = @ + 1]
        /\ GoTo(h, IF i = Len(entities[h]) THEN "commit" ELSE "save")
        /\ UNCHANGED <<row, status, msg, entities, changed>>
    BY <1>1, <1>2 DEF SaveLine, NextLine, orderVars
  <1>6. /\ msg[h].kind = "failed" /\ i \in DOMAIN entities[h] /\ i \in DOMAIN changed[h]
        /\ i \in 1..Len(LinesFor(h)) /\ Len(entities[h]) = Len(LinesFor(h))
        /\ Len(LinesFor(h)) \in Nat
    BY <1>1, <1>5, LinesOK
       DEF IInv, TypeOK, HandlersType, HandlerInv, LoopInv, Order, LinesFor, Message
  <1>7. c \in Categories
    BY <1>2, <1>5, <1>6, LoopLines DEF InLoop
  <1>8. /\ pc'[h] = (IF i = Len(LinesFor(h)) THEN "commit" ELSE "save")
        /\ line'[h] = i + 1
        /\ \A g \in Handlers \ {h} : Same(g)
    BY <1>1, <1>5, <1>6 DEF GoTo, Same, IInv, TypeOK, HandlersType
  <1>9. /\ dirty'[c] = SavedRow(entities[h][i], dirty[c], ch, v)
        /\ \A k \in Categories \ {c} : dirty'[k] = dirty[k] /\ lock'[k] = lock[k]
        /\ lock'[c] = h
    BY <1>4, <1>5, <1>7 DEF IInv, TypeOK, RowsType
  <1>10. LinesFor(h)' = LinesFor(h) /\ Order(h)' = Order(h)
    BY <1>5 DEF LinesFor, Order
  <1>11. dirty'[c].quantity = row[c].quantity + LinesFor(h)[i].quantity
    <2>1. "quantity" \in ch
      BY <1>3, <1>5, <1>6 DEF SerialInv, Serially
    <2>2. entities[h][i].quantity = row[c].quantity + LinesFor(h)[i].quantity
      BY <1>2, <1>5, <1>6 DEF SerialInv, Serially, InLoop, ReadLines
    <2>3. QED  BY <1>9, <2>1, <2>2 DEF SavedRow
  <1>12. ASSUME NEW k \in Categories
         PROVE  Saved(h, k)' = IF k = c THEN Saved(h, k) \cup {i} ELSE Saved(h, k)
    <2>1. 1..(line'[h] - 1) = (1..(line[h] - 1)) \cup {i}
      BY <1>1, <1>6, <1>8
    <2>2. QED  BY <1>2, <1>10, <2>1 DEF Saved
  <1>13. ASSUME NEW k \in Categories
         PROVE  IF Saved(h, k)' = {}
                   THEN lock'[k] # h
                   ELSE /\ lock'[k] = h
                        /\ \E j \in Saved(h, k)' :
                              dirty'[k].quantity = row[k].quantity + LinesFor(h)[j].quantity
    <2>1. CASE k = c
      <3>1. i \in Saved(h, c)'
        BY <1>7, <1>12
      <3>2. QED  BY <1>9, <1>11, <2>1, <3>1
    <2>2. CASE k # c
      <3>1. SavedLines(h)
        BY <1>5, <1>6 DEF SerialInv, Serially, Holds
      <3>2. QED  BY <1>9, <1>12, <2>2, <3>1 DEF SavedLines
    <2>3. QED  BY <2>1, <2>2
  <1>14. SavedLines(h)'
    <2>1. pc'[h] = "commit" => line'[h] = Len(LinesFor(h)) + 1
      BY <1>8
    <2>2. QED  BY <1>5, <1>10, <1>13, <2>1 DEF SavedLines
  <1>15. ReadLines(h)'
    BY <1>5, <1>10 DEF SerialInv, Serially, InLoop, ReadLines
  <1>16. FailedStep(h)' => status'[Order(h)'] = "pending"
    BY <1>5, <1>6 DEF SerialInv, Serially, FailedStep, Order
  <1>17. \A k \in DOMAIN changed'[h] : "quantity" \in changed'[h][k]
    BY <1>5 DEF SerialInv, Serially
  <1>18. Serially(h)'
    BY <1>14, <1>15, <1>16, <1>17 DEF Serially
  <1>19. \A k \in Categories :
            \/ lock'[k] = lock[k] /\ dirty'[k] = dirty[k]
            \/ lock[k] \in {h, Free} /\ lock'[k] \in {h, Free}
    BY <1>5, <1>9
  <1>20. QED  BY <1>5, <1>8, <1>18, <1>19, MoverSerial

LEMMA NoLineSkipped ==
    ASSUME IInv, SerialInv, NEW h \in Handlers
    PROVE  ~SkipLine(h)
  <1>1. ASSUME pc[h] = "save"
        PROVE  "quantity" \in changed[h][line[h]]
    <2>1. line[h] \in DOMAIN changed[h]
      BY <1>1 DEF IInv, TypeOK, HandlersType, LoopInv
    <2>2. QED  BY <1>1, <2>1 DEF SerialInv, Serially
  <1>2. QED  BY <1>1 DEF SkipLine, MaySkipUpdate

LEMMA HandleSerial ==
    ASSUME IInv, LockInv, StockInv, SerialInv, OneOpen', NEW h \in Handlers, Handle(h)
    PROVE  SerialInv'
  <1>1. CASE CompleteOrder(h) \/ SendInvoice(h)
    <2>1. PICK next \in {"invoice", "commit"} : GoTo(h, next)
      BY <1>1 DEF CompleteOrder, SendInvoice
    <2>2. /\ UNCHANGED <<row, status, lock, dirty, msg, line, entities, changed>>
          /\ msg[h].kind = "billed"
      BY <1>1 DEF CompleteOrder, SendInvoice, rowVars, orderVars, IInv, HandlerInv
    <2>3. pc'[h] = next
      BY <2>1 DEF GoTo, IInv, TypeOK, HandlersType
    <2>4. Serially(h)'
      BY <2>2, <2>3, IdleSerial
    <2>5. QED  BY <2>1, <2>2, <2>4, GoOnSerial
  <1>2. CASE RejectCanceled(h)
    BY <1>2, HandlerErrorSerial DEF RejectCanceled
  <1>3. QED
    BY <1>1, <1>2, CommitSerial, ReadOrderSerial, UpdateStatusSerial, ReadCategorySerial,
       SelectForSaveSerial, SaveLineSerial, NoLineSkipped
       DEF Handle

\* Where no handler moves.
LEMMA StillSerial ==
    ASSUME IInv, StockInv, SerialInv, OneOpen', UNCHANGED handlerVars,
           \/ UNCHANGED <<row, dirty, lock, status>>
           \/ \A h \in Handlers : ~Open(h)
    PROVE  SerialInv'
  <1>1. \A g \in Handlers : Same(g)
    BY DEF handlerVars, Same
  <1>2. CASE UNCHANGED <<row, dirty, lock, status>>
    BY <1>1, <1>2, RestSerial DEF SerialInv
  <1>3. CASE \A h \in Handlers : ~Open(h)
    BY <1>1, <1>3 DEF SerialInv, Serially, Same, Open, FailedStep, InLoop, Holds
  <1>4. QED  BY <1>2, <1>3

LEMMA NextSerial ==
    ASSUME IInv, LockInv, StockInv, SerialInv, [Next /\ NoOverlap]_vars
    PROVE  SerialInv'
  <1>1. CASE UNCHANGED vars
    <2>1. UNCHANGED handlerVars /\ UNCHANGED <<row, dirty, lock, status>>
      BY <1>1 DEF vars, rowVars, orderVars
    <2>2. OneOpen'
      BY <2>1 DEF SerialInv, OneOpen, Open, handlerVars
    <2>3. QED  BY <2>1, <2>2, StillSerial
  <1>2. CASE Next /\ NoOverlap
    <2>1. OneOpen'
      BY <1>2 DEF NoOverlap, OneOpen
    <2>2. ASSUME NEW h \in Handlers, Handle(h) \/ DbFailure(h) \/ DeadlockAbort(h)
          PROVE  SerialInv'
      BY <2>1, <2>2, HandleSerial, HandlerErrorSerial DEF DbFailure, DeadlockAbort
    <2>3. ASSUME NEW m \in queue, NEW h \in Handlers, TakeMessage(h, m)
          PROVE  SerialInv'
      <3>1. pc'[h] \in {"complete", "order"}
        BY <2>3 DEF TakeMessage, GoTo, IInv, TypeOK, HandlersType
      <3>2. \A g \in Handlers \ {h} : Same(g)
        BY <2>3 DEF TakeMessage, GoTo, Same, IInv, TypeOK, HandlersType
      <3>3. UNCHANGED <<row, dirty, lock, status>>
        BY <2>3 DEF TakeMessage, rowVars, orderVars
      <3>4. QED  BY <2>1, <3>1, <3>2, <3>3, IdleSerial, MoverSerial
    <2>4. ASSUME ApiStops
          PROVE  SerialInv'
      <3>1. \A h \in Handlers : pc'[h] = "idle"
        BY <2>4 DEF ApiStops
      <3>2. QED  BY <2>1, <3>1, IdleSerial DEF SerialInv
    <2>5. ASSUME NEW c \in Categories, SellTicket(c)
          PROVE  SerialInv'
      <3>1. sales' # sales /\ UNCHANGED handlerVars
        BY <2>5 DEF SellTicket, IInv, TypeOK, EffectsType
      <3>2. \A h \in Handlers : ~Open(h)
        BY <1>2, <3>1 DEF NoOverlap
      <3>3. QED  BY <2>1, <3>1, <3>2, StillSerial
    <2>6. ASSUME UNCHANGED <<handlerVars, rowVars, orderVars>>
          PROVE  SerialInv'
      BY <2>1, <2>6, StillSerial DEF rowVars, orderVars
    <2>7. ASSUME NEW o \in Orders,
                 \/ Pay(o) \/ AttemptFails(o) \/ Cancel(o)
                 \/ MailTickets(o) \/ MailFindsNothing(o)
          PROVE  SerialInv'
      <3>1. CASE MailFindsNothing(o)
        BY <2>4, <3>1 DEF MailFindsNothing
      <3>2. CASE ~MailFindsNothing(o)
        BY <2>6, <2>7, <3>2 DEF Pay, AttemptFails, Cancel, MailTickets
      <3>3. QED  BY <3>1, <3>2
    <2>8. CASE Webhook \/ GatewayDies \/ \E m \in queue : LoseMessage(m) \/ ParseFails(m)
      BY <2>6, <2>8 DEF Webhook, SavePayment, EmitBilled, EmitFailed, GatewayDies, LoseMessage, ParseFails
    <2>9. CASE ApiDies
      BY <2>4, <2>9 DEF ApiDies
    <2>10. CASE Settled
      BY <2>6, <2>10 DEF Settled, vars
    <2>11. QED
      BY <1>2, <2>2, <2>3, <2>5, <2>7, <2>8, <2>9, <2>10 DEF Next
  <1>3. QED  BY <1>1, <1>2

-----------------------------------------------------------------------------
(* Every step is a step of OrderPromise, or none                             *)

TicketSetsOf(o) == {i \in DOMAIN ticketSets : payments[ticketSets[i]] = o}
StockMap == [c \in Categories |-> row[c].quantity]
TicketsMap == [o \in Orders |-> Cardinality(TicketSetsOf(o))]

LEMMA TicketSetsFinite ==
    ASSUME IInv, NEW o
    PROVE  IsFiniteSet(TicketSetsOf(o)) /\ Cardinality(TicketSetsOf(o)) \in Nat
  <1>1. ticketSets \in Seq(Nat \ {0})
    BY DEF IInv, TypeOK, EffectsType
  <1>2. Len(ticketSets) \in Nat /\ DOMAIN ticketSets = 1..Len(ticketSets)
    BY <1>1
  <1>3. IsFiniteSet(DOMAIN ticketSets)
    BY <1>2, FS_Interval
  <1>4. TicketSetsOf(o) \subseteq DOMAIN ticketSets
    BY DEF TicketSetsOf
  <1>5. QED  BY <1>3, <1>4, FS_Subset, FS_CardinalityType

\* The payments that are appended made no tickets yet.
LEMMA SameTickets ==
    ASSUME MessagesInv, ticketSets' = ticketSets,
           payments' = payments \/ \E o \in Orders : payments' = Append(payments, o)
    PROVE  TicketsMap' = TicketsMap
  <1>1. payments \in Seq(Orders)
    BY DEF MessagesInv, IInv, TypeOK, GatewayType
  <1>2. \A i \in DOMAIN ticketSets : ticketSets[i] \in DOMAIN payments
    BY DEF MessagesInv, PaymentInv
  <1>3. \A p \in DOMAIN payments : payments'[p] = payments[p]
    BY <1>1
  <1>4. \A o \in Orders : TicketSetsOf(o)' = TicketSetsOf(o)
    BY <1>2, <1>3 DEF TicketSetsOf
  <1>5. QED  BY <1>4 DEF TicketsMap

LEMMA MapsStutter ==
    ASSUME MessagesInv, UNCHANGED <<status, row, ticketSets>>,
           payments' = payments \/ \E o \in Orders : payments' = Append(payments, o)
    PROVE  UNCHANGED Promise!vars
  <1>1. TicketsMap' = TicketsMap
    BY SameTickets
  <1>2. QED  BY <1>1 DEF Promise!vars, TicketsMap, TicketSetsOf

LEMMA MapsSell ==
    ASSUME MessagesInv, NEW c \in Categories, SellTicket(c)
    PROVE  Promise!Sell(c)
  <1>1. /\ row \in [Categories -> TicketCategory] /\ row[c].quantity > 0
        /\ row' = [row EXCEPT ![c] = [row[c] EXCEPT !.quantity = @ - 1, !.version = @ + 1]]
        /\ UNCHANGED <<status, ticketSets, payments>>
    BY DEF SellTicket, MessagesInv, IInv, TypeOK, RowsType, orderVars, gatewayVars, doneVars
  <1>2. /\ row'[c].quantity = row[c].quantity - 1
        /\ \A k \in Categories \ {c} : row'[k] = row[k]
    BY <1>1 DEF TicketCategory
  <1>3. StockMap' = [StockMap EXCEPT ![c] = @ - 1] /\ StockMap[c] > 0
    BY <1>1, <1>2 DEF StockMap
  <1>4. TicketsMap' = TicketsMap
    BY <1>1, SameTickets
  <1>5. QED  BY <1>1, <1>3, <1>4 DEF Promise!Sell, StockMap, TicketsMap, TicketSetsOf

LEMMA CommitsStatus ==
    ASSUME IInv, LockInv, NEW h \in Handlers, pc[h] = "commit", Publish(h)
    PROVE  /\ Order(h) \in Orders
           /\ status' = [status EXCEPT ![Order(h)] = Outcome(h)]
  <1>1. msg[h] \in Message /\ Order(h) \in Orders
    BY DEF IInv, HandlerInv, Order, Message
  <1>2. orderLock[Order(h)] = h /\ statusDirty[Order(h)] = Outcome(h)
    BY <1>1, ConstantsAssumption DEF LockInv, Locks
  <1>3. \A o \in Orders \ {Order(h)} : orderLock[o] # h
    BY ConstantsAssumption DEF LockInv
  <1>4. status \in [Orders -> Status] /\ status' = [o \in Orders |-> VisibleStatus(h, o)]
    BY DEF IInv, TypeOK, RowsType, Publish
  <1>5. QED  BY <1>1, <1>2, <1>3, <1>4 DEF VisibleStatus

LEMMA MapsBill ==
    ASSUME MessagesInv, LockInv, StockInv, NEW h \in Handlers, CommitBilled(h)
    PROVE  Promise!Bill(Order(h))
  <1>1. /\ pc[h] = "commit" /\ msg[h].kind = "billed" /\ Publish(h)
        /\ ticketSets' = Append(ticketSets, msg[h].id) /\ payments' = payments
    BY DEF CommitBilled, gatewayVars
  <1>2. IInv
    BY DEF MessagesInv
  <1>3. Order(h) \in Orders /\ status' = [status EXCEPT ![Order(h)] = "completed"]
    BY <1>1, <1>2, CommitsStatus DEF Outcome
  <1>4. StockMap' = StockMap
    <2>1. \A c \in Categories : lock[c] # h
      BY <1>1, HolderHolds DEF Holds
    <2>2. \A c \in Categories : row'[c] = row[c]
      BY <1>1, <2>1 DEF Publish, Visible
    <2>3. QED  BY <2>2 DEF StockMap
  <1>5. payments[msg[h].id] = Order(h)
    BY <1>1 DEF MessagesInv, PaymentInv, Live, Busy, Order
  <1>6. PICK n : n = Len(ticketSets) + 1
    OBVIOUS
  <1>7. /\ ticketSets \in Seq(Nat \ {0}) /\ msg[h].id \in Nat \ {0}
    BY <1>1, <1>2 DEF IInv, TypeOK, EffectsType, HandlerInv, Message
  <1>8. /\ DOMAIN ticketSets' = DOMAIN ticketSets \cup {n} /\ n \notin DOMAIN ticketSets
        /\ ticketSets'[n] = msg[h].id
        /\ \A i \in DOMAIN ticketSets : ticketSets'[i] = ticketSets[i]
    BY <1>1, <1>6, <1>7
  <1>9. ASSUME NEW o \in Orders
        PROVE  TicketSetsOf(o)' = IF o = Order(h) THEN TicketSetsOf(o) \cup {n} ELSE TicketSetsOf(o)
    BY <1>1, <1>5, <1>8 DEF TicketSetsOf
  <1>10. n \notin TicketSetsOf(Order(h))
    BY <1>8 DEF TicketSetsOf
  <1>11. Cardinality(TicketSetsOf(Order(h)) \cup {n}) = Cardinality(TicketSetsOf(Order(h))) + 1
    BY <1>2, <1>10, TicketSetsFinite, FS_AddElement
  <1>12. TicketsMap' = [TicketsMap EXCEPT ![Order(h)] = @ + 1]
    BY <1>3, <1>9, <1>11 DEF TicketsMap
  <1>13. QED
    BY <1>3, <1>4, <1>12 DEF Promise!Bill, StockMap, TicketsMap, TicketSetsOf

LEMMA MapsFail ==
    ASSUME MessagesInv, LockInv, StockInv, SerialInv, NEW h \in Handlers, CommitFailed(h),
           NEW o \in Orders, o = Order(h)
    PROVE  Promise!Fail(o)
  <1>1. /\ pc[h] = "commit" /\ msg[h].kind = "failed" /\ Publish(h)
        /\ UNCHANGED <<ticketSets, payments>>
    BY DEF CommitFailed, gatewayVars
  <1>2. IInv
    BY DEF MessagesInv
  <1>3. status' = [status EXCEPT ![o] = "failed"]
    BY <1>1, <1>2, CommitsStatus DEF Outcome
  <1>4. status[o] = "pending"
    BY <1>1 DEF SerialInv, Serially, FailedStep
  <1>5. SavedLines(h) /\ line[h] = Len(LinesFor(h)) + 1
    BY <1>1 DEF SerialInv, Serially, Holds, SavedLines
  <1>6. /\ Len(LinesFor(h)) \in Nat /\ LinesFor(h) \in Seq(Lines)
        /\ \A i \in 1..Len(LinesFor(h)) : LinesFor(h)[i].quantity \in Nat \ {0}
    BY <1>1, <1>2, <1>3, LoopLines, LinesOK DEF Holds, LinesFor
  <1>7. ASSUME NEW c \in Categories
        PROVE  Promise!GivesBack(o, c, StockMap'[c] - StockMap[c])
    <2>1. Saved(h, c) = Promise!Named(o, c)
      BY <1>5, <1>6 DEF Saved, LinesFor, Promise!Named
    <2>2. row[c].quantity \in Int
      BY <1>2 DEF IInv, TypeOK, RowsType, TicketCategory
    <2>3. StockMap'[c] = row'[c].quantity /\ StockMap[c] = row[c].quantity
      BY DEF StockMap
    <2>4. CASE Saved(h, c) = {}
      <3>1. row'[c] = row[c]
        BY <1>1, <1>5, <2>4 DEF SavedLines, Publish, Visible
      <3>2. QED  BY <2>1, <2>2, <2>3, <2>4, <3>1 DEF Promise!GivesBack
    <2>5. CASE Saved(h, c) # {}
      <3>1. PICK i \in Saved(h, c) : /\ lock[c] = h
                                     /\ dirty[c].quantity = row[c].quantity + LinesFor(h)[i].quantity
        BY <1>5, <2>5 DEF SavedLines
      <3>2. row'[c] = dirty[c]
        BY <1>1, <3>1 DEF Publish, Visible
      <3>3. i \in 1..Len(LinesFor(h))
        BY <1>5, <1>6, <3>1 DEF Saved
      <3>4. LinesFor(h)[i].quantity \in Nat
        BY <1>6, <3>3
      <3>5. StockMap'[c] - StockMap[c] = LinesFor(h)[i].quantity
        BY <2>2, <2>3, <3>1, <3>2, <3>4
      <3>6. i \in Promise!Named(o, c) /\ Promise!Named(o, c) # {}
        BY <2>1, <3>1
      <3>7. LinesFor(h)[i].quantity >= LinesFor(h)[i].quantity
        BY <3>4
      <3>8. LinesFor(h) = LinesOf[o]
        BY DEF LinesFor
      <3>9. QED  BY <3>5, <3>6, <3>7, <3>8 DEF Promise!GivesBack
    <2>6. QED  BY <2>4, <2>5
  <1>8. DOMAIN StockMap' = Categories
    BY DEF StockMap
  <1>9. TicketsMap' = TicketsMap
    BY <1>1, SameTickets
  <1>10. QED
    BY <1>3, <1>4, <1>7, <1>8, <1>9
       DEF Promise!Fail, StockMap, TicketsMap, TicketSetsOf

LEMMA MapsNext ==
    ASSUME MessagesInv, LockInv, StockInv, SerialInv, [Next /\ NoOverlap]_vars
    PROVE  [Promise!Next]_(Promise!vars)
  <1>1. ASSUME UNCHANGED <<orderVars, rowVars, doneVars>>,
               payments' = payments \/ \E o \in Orders : payments' = Append(payments, o)
        PROVE  UNCHANGED Promise!vars
    BY <1>1, MapsStutter DEF orderVars, rowVars, doneVars
  <1>2. ASSUME NEW h \in Handlers, Handle(h)
        PROVE  [Promise!Next]_(Promise!vars)
    <2>1. Order(h) \in Orders \/ pc[h] = "idle"
      BY DEF MessagesInv, IInv, HandlerInv, Order, Message
    <2>2. CASE CommitBilled(h)
      <3>1. PICK o \in Orders : o = Order(h)
        BY <2>1, <2>2 DEF CommitBilled
      <3>2. Promise!Bill(o)
        BY <2>2, <3>1, MapsBill
      <3>3. Promise!Next
        BY <3>2, Zenon DEF Promise!Next
      <3>4. QED  BY <3>3
    <2>3. CASE CommitFailed(h)
      <3>1. PICK o \in Orders : o = Order(h)
        BY <2>1, <2>3 DEF CommitFailed
      <3>2. Promise!Fail(o)
        BY <2>3, <3>1, MapsFail
      <3>3. Promise!Next
        BY <3>2, Zenon DEF Promise!Next
      <3>4. QED  BY <3>3
    <2>4. CASE ~CommitBilled(h) /\ ~CommitFailed(h)
      <3>1. UNCHANGED <<status, row, ticketSets, payments>>
        BY <1>2, <2>4
           DEF Handle, CompleteOrder, SendInvoice, ReadOrder, RejectCanceled, UpdateStatus,
               ReadCategory, SelectForSave, SaveLine, SkipLine, NextLine, HandlerError, Rollback,
               gatewayVars, orderVars, rowVars, doneVars
      <3>2. UNCHANGED Promise!vars
        BY <3>1, MapsStutter
      <3>3. QED  BY <3>2
    <2>5. QED  BY <2>2, <2>3, <2>4
  <1>3. ASSUME NEW h \in Handlers, HandlerError(h)
        PROVE  UNCHANGED Promise!vars
    BY <1>3, MapsStutter DEF HandlerError, Rollback, gatewayVars, doneVars
  <1>4. ASSUME ApiStops
        PROVE  UNCHANGED Promise!vars
    BY <1>4, MapsStutter DEF ApiStops, gatewayVars, doneVars
  <1>5. ASSUME NEW c \in Categories, SellTicket(c)
        PROVE  Promise!Next
    BY <1>5, MapsSell DEF Promise!Next
  <1>6. ASSUME NEW o \in Orders,
               \/ Pay(o) \/ AttemptFails(o) \/ Cancel(o)
               \/ MailTickets(o) \/ MailFindsNothing(o)
        PROVE  UNCHANGED Promise!vars
    <2>1. CASE MailFindsNothing(o)
      BY <1>4, <2>1 DEF MailFindsNothing
    <2>2. CASE ~MailFindsNothing(o)
      BY <1>1, <1>6, <2>2 DEF Pay, AttemptFails, Cancel, MailTickets, gatewayVars
    <2>3. QED  BY <2>1, <2>2
  <1>7. ASSUME Webhook
        PROVE  UNCHANGED Promise!vars
    <2>1. \A e \in events : e.order \in Orders
      BY DEF MessagesInv, IInv, TypeOK, StripeType, Event
    <2>2. UNCHANGED <<orderVars, rowVars, doneVars>>
      BY <1>7 DEF Webhook, SavePayment, EmitBilled, EmitFailed
    <2>3. payments' = payments \/ \E o \in Orders : payments' = Append(payments, o)
      BY <1>7, <2>1 DEF Webhook, SavePayment, EmitBilled, EmitFailed
    <2>4. QED  BY <1>1, <2>2, <2>3
  <1>8. CASE GatewayDies \/ \E m \in queue : LoseMessage(m) \/ ParseFails(m) \/ \E h \in Handlers : TakeMessage(h, m)
    BY <1>1, <1>8 DEF GatewayDies, LoseMessage, ParseFails, TakeMessage, gatewayVars
  <1>9. CASE UNCHANGED vars
    BY <1>1, <1>9 DEF vars, gatewayVars
  <1>10. QED
    BY <1>2, <1>3, <1>4, <1>5, <1>6, <1>7, <1>8, <1>9
       DEF Next, Settled, ApiDies, DbFailure, DeadlockAbort

LEMMA MapsInit == Init => Promise!Init
  <1> SUFFICES ASSUME Init PROVE Promise!Init
    OBVIOUS
  <1>1. \A o \in Orders : TicketSetsOf(o) = {}
    BY DEF Init, TicketSetsOf
  <1>2. TicketsMap = [o \in Orders |-> 0]
    BY <1>1, FS_EmptySet DEF TicketsMap
  <1>3. QED  BY <1>2 DEF Init, Promise!Init, TicketsMap, TicketSetsOf

LEMMA SerialInvariance == SerialSpec => [](MessagesInv /\ LockInv /\ StockInv /\ SerialInv)
  <1>1. SerialSpec => Spec
    <2>1. [Next /\ NoOverlap]_vars => [Next]_vars
      OBVIOUS
    <2>2. QED  BY <2>1, PTL DEF SerialSpec, Spec
  <1>2. SafetyInv => MessagesInv /\ LockInv
    BY DEF SafetyInv
  <1>3. Init => SerialInv
    BY DEF Init, SerialInv, OneOpen, Serially, Open, FailedStep, InLoop, Holds
  <1>4. MessagesInv => IInv
    BY DEF MessagesInv
  <1>5. IInv /\ LockInv /\ StockInv /\ SerialInv /\ [Next /\ NoOverlap]_vars => SerialInv'
    BY NextSerial
  <1>6. QED
    BY <1>1, <1>2, <1>3, <1>4, <1>5, SafetyOK, StockInvariance, PTL DEF SerialSpec

\* Transactions that do not overlap are atomic, whatever fails between them: an
\* order is billed or fails in one step, from pending, and its places return with
\* its status (orders.service.ts:552-738).
THEOREM Atomic == SerialSpec => PromiseKept
  <1>1. MessagesInv /\ LockInv /\ StockInv /\ SerialInv /\ [Next /\ NoOverlap]_vars
           => [Promise!Next]_(Promise!vars)
    BY MapsNext
  <1>2. QED
    BY <1>1, MapsInit, SerialInvariance, PTL DEF SerialSpec, PromiseKept, Promise!Spec
=============================================================================
