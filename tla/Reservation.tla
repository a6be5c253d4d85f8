---------------------------- MODULE Reservation ----------------------------
(***************************************************************************)
(* How tickets are taken from stock: OrdersService.createOrder and         *)
(* createOrderByAdmin, TicketService.createTicket and                      *)
(* updateTicketCategory, as concurrent requests over the ticket_category   *)
(* rows, one action per statement the database sees, with the retry loops  *)
(* and the order_created call to the payment gateway.                      *)
(*                                                                         *)
(* Amounts are before tax: the order and the gateway apply the same TAX.   *)
(***************************************************************************)
EXTENDS TicketRows, Sequences, FiniteSets, Functions

CONSTANTS
    Categories,     \* ticket categories
    Procs,          \* HTTP requests in flight
    Jobs,           \* what they may ask for: a set of functions Procs -> Job
    Registers,      \* register_ids
    NoRegister,     \* an order made by a user
    InitialRow,     \* Categories -> the row at the start
    Patches,        \* the rows an administrator may write, as functions from
                    \* the columns of the body to their values
    MaxPatches,     \* bound: administrator updates
    MaxRetries,     \* MAX_RETRIES, 5 in both services
    Faults,         \* subset of {"db", "gateway", "lost", "crash"}
    Free            \* no holder of a row lock

\* The body of a request and the handler it reaches; quantities are at least 1
\* (CreateOrderDto).  A job of createTicket asks for one ticket.
Lines == [category: Categories, quantity: Nat \ {0}]
Job == [kind: {"order", "adminOrder", "ticket"}, tickets: Seq(Lines),
        register: Registers \cup {NoRegister}]

\* Stock levels and prices are not negative to begin with.  UpdateTicketCategoryDto
\* accepts any integer: that administrators enter no negative one is assumed.
ASSUME ConstantsAssumption ==
    /\ Jobs \subseteq [Procs -> Job]
    /\ InitialRow \in [Categories -> TicketCategory]
    /\ \A c \in Categories : InitialRow[c].quantity >= 0
    /\ \A patch \in Patches :
          /\ DOMAIN patch \subseteq {"quantity", "price", "hide"}
          /\ "quantity" \in DOMAIN patch => patch["quantity"] \in Nat
          /\ "price" \in DOMAIN patch => patch["price"] \in Nat
          /\ "hide" \in DOMAIN patch => patch["hide"] \in BOOLEAN
    /\ MaxPatches \in Nat
    /\ MaxRetries \in Nat \ {0}
    /\ Faults \subseteq {"db", "gateway", "lost", "crash"}
    /\ Free \notin Procs

VARIABLES
    job,        \* the request each process serves
    row,        \* committed ticket_category rows
    dirty,      \* the latest version of each row, committed or not
    lock,       \* who holds the row's lock (it wrote the row and is open)
    orders,     \* committed orders with their order_ticket_category rows
    sessions,   \* checkout sessions that exist at Stripe
    patches,    \* administrator updates so far
    pc,         \* next step of each request
    line,       \* position in the loop over the tickets
    entity,     \* ticketCategory, the entity in memory
    changed,    \* columns its save() will set
    details,    \* ticketDetails: declared outside the retry loop
    total,      \* totalAmount: declared outside the retry loop
    current,    \* order, as an index of orders (0: undefined)
    retryCount,
    rpc,        \* the order_created call of each request
    reply       \* what the client was answered

dbVars   == <<row, dirty, lock>>
bookVars == <<orders, sessions>>
loopVars == <<details, total>>
vars == <<job, dbVars, bookVars, patches, pc, line, entity, changed, loopVars,
          current, retryCount, rpc, reply>>

-----------------------------------------------------------------------------
DetailLines == [category: Categories, quantity: Nat \ {0}, price: Nat]
Order   == [by: Procs, lines: Seq(DetailLines), total: Nat]
Session == [order: Nat \ {0}, lines: Seq(DetailLines)]
NullEntity == [quantity |-> 0, price |-> 0, hide |-> FALSE, version |-> 0]

InTransaction == {"read", "check", "diff", "write", "commit"}

RowsType ==
    /\ row \in [Categories -> TicketCategory]
    /\ dirty \in [Categories -> TicketCategory]
    /\ lock \in [Categories -> Procs \cup {Free}]

BooksType ==
    /\ orders \in Seq(Order)
    /\ sessions \subseteq Session

RequestsType ==
    /\ job \in [Procs -> Job]
    /\ pc \in [Procs -> InTransaction \cup {"awaiting", "done"}]
    /\ line \in [Procs -> Nat \ {0}]
    /\ entity \in [Procs -> TicketCategory]
    /\ changed \in [Procs -> SUBSET Columns]
    /\ details \in [Procs -> Seq(DetailLines)]
    /\ total \in [Procs -> Nat]
    /\ current \in [Procs -> Nat]
    /\ retryCount \in [Procs -> 0..MaxRetries]
    /\ rpc \in [Procs -> {"none", "sent", "ok", "error", "lost"}]
    /\ reply \in [Procs -> {"none", "ok", "rejected", "failed", "crashed"}]

TypeOK == RowsType /\ BooksType /\ RequestsType /\ patches \in 0..MaxPatches

Kind(p) == job[p].kind
Tickets(p) == job[p].tickets
RegisterOf(p) == job[p].register

\* The statement the loop over the tickets reaches at position i.
LoopPc(p, i) == IF i <= Len(Tickets(p)) THEN "read" ELSE "commit"

Init ==
    /\ job \in Jobs
    /\ row = InitialRow
    /\ dirty = InitialRow
    /\ lock = [c \in Categories |-> Free]
    /\ orders = <<>>
    /\ sessions = {}
    /\ patches = 0
    /\ pc = [p \in Procs |-> LoopPc(p, 1)]
    /\ line = [p \in Procs |-> 1]
    /\ entity = [p \in Procs |-> NullEntity]
    /\ changed = [p \in Procs |-> {}]
    /\ details = [p \in Procs |-> <<>>]
    /\ total = [p \in Procs |-> 0]
    /\ current = [p \in Procs |-> 0]
    /\ retryCount = [p \in Procs |-> 0]
    /\ rpc = [p \in Procs |-> "none"]
    /\ reply = [p \in Procs |-> "none"]

-----------------------------------------------------------------------------
(* Transactions *)

Ticket(p) == Tickets(p)[line[p]]
Target(p) == Ticket(p).category

\* READ COMMITTED: committed rows, and one's own writes.
Visible(p, c) == IF lock[c] = p THEN dirty[c] ELSE row[c]

\* COMMIT and ROLLBACK of p: its row locks are released.
ReleaseLocks(p) == lock' = [c \in Categories |-> IF lock[c] = p THEN Free ELSE lock[c]]

Publish(p) ==
    /\ row' = [c \in Categories |-> Visible(p, c)]
    /\ ReleaseLocks(p)
    /\ UNCHANGED dirty

\* Mutant: the rows are saved outside the transaction.
RollbackKeepsRows(p) ==
    /\ row' = [c \in Categories |-> Visible(p, c)]
    /\ ReleaseLocks(p)
    /\ UNCHANGED dirty

\* Mutant: an error leaves the transaction open, with its locks.
RollbackNotSent(p) == UNCHANGED dbVars

Rollback(p) ==
    /\ dirty' = [c \in Categories |-> IF lock[c] = p THEN row[c] ELSE dirty[c]]
    /\ ReleaseLocks(p)
    /\ UNCHANGED row

Answer(p, r) ==
    /\ pc' = [pc EXCEPT ![p] = "done"]
    /\ reply' = [reply EXCEPT ![p] = r]

\* Mutant: the limit is tested before the increment.
RetryOnceMore(p) ==
    /\ retryCount' = [retryCount EXCEPT ![p] = @ + 1]
    /\ IF retryCount[p] = MaxRetries
          THEN Answer(p, "failed") /\ UNCHANGED line
          ELSE /\ pc' = [pc EXCEPT ![p] = LoopPc(p, 1)]
               /\ line' = [line EXCEPT ![p] = 1]
               /\ UNCHANGED reply
    /\ UNCHANGED <<job, bookVars, patches, entity, changed, loopVars, current>>

\* The catch block on an error that is retried.  Neither ticketDetails nor
\* totalAmount is reset.
RetryOrFail(p) ==
    /\ retryCount' = [retryCount EXCEPT ![p] = @ + 1]
    /\ IF retryCount[p] + 1 = MaxRetries
          THEN Answer(p, "failed") /\ UNCHANGED line
          ELSE /\ pc' = [pc EXCEPT ![p] = LoopPc(p, 1)]
               /\ line' = [line EXCEPT ![p] = 1]
               /\ UNCHANGED reply
    /\ UNCHANGED <<job, bookVars, patches, entity, changed, loopVars, current>>

\* An error that is thrown to the client at once.
Throw(p, r) ==
    /\ Answer(p, r)
    /\ UNCHANGED <<job, bookVars, patches, line, entity, changed, loopVars, current,
                   retryCount, rpc>>

\* A statement fails inside the transaction: createTicket retries a version
\* mismatch only, the orders retry everything but their own two errors.
StatementError(p) ==
    /\ Rollback(p)
    /\ IF Kind(p) = "ticket"
          THEN Throw(p, "failed")
          ELSE RetryOrFail(p) /\ UNCHANGED rpc

\* findOne: customers do not see a hidden category.
ReadCategory(p) ==
    LET found == Visible(p, Target(p)) IN
    /\ pc[p] = "read"
    /\ IF Kind(p) = "order" /\ found.hide
          THEN Rollback(p) /\ Throw(p, "rejected")
          ELSE /\ entity' = [entity EXCEPT ![p] = found]
               /\ pc' = [pc EXCEPT ![p] = "check"]
               /\ UNCHANGED <<job, dbVars, bookVars, patches, line, changed, loopVars,
                              current, retryCount, rpc, reply>>

\* Mutant: the quantity is not tested.
DecrementUnchecked(p) ==
    /\ pc[p] = "check"
    /\ IF Visible(p, Target(p)).version # entity[p].version
          THEN Rollback(p) /\ RetryOrFail(p) /\ UNCHANGED rpc
          ELSE /\ entity' = [entity EXCEPT ![p].quantity = @ - Ticket(p).quantity]
               /\ pc' = [pc EXCEPT ![p] = "diff"]
               /\ UNCHANGED <<job, dbVars, bookVars, patches, line, changed, loopVars,
                              current, retryCount, rpc, reply>>

\* findOne with the optimistic lock, the test of the quantity, and the
\* decrement in memory.
CheckAndDecrement(p) ==
    /\ pc[p] = "check"
    /\ IF Visible(p, Target(p)).version # entity[p].version
          THEN Rollback(p) /\ RetryOrFail(p) /\ UNCHANGED rpc
          ELSE IF entity[p].quantity < Ticket(p).quantity
          THEN Rollback(p) /\ Throw(p, "rejected")
          ELSE /\ entity' = [entity EXCEPT ![p].quantity = @ - Ticket(p).quantity]
               /\ pc' = [pc EXCEPT ![p] = "diff"]
               /\ UNCHANGED <<job, dbVars, bookVars, patches, line, changed, loopVars,
                              current, retryCount, rpc, reply>>

\* save(), first half: SELECT the row again and compare.
SelectForSave(p) ==
    /\ pc[p] = "diff"
    /\ changed' = [changed EXCEPT ![p] = ChangedColumns(entity[p], Visible(p, Target(p)))]
    /\ pc' = [pc EXCEPT ![p] = "write"]
    /\ UNCHANGED <<job, dbVars, bookVars, patches, line, entity, loopVars, current,
                   retryCount, rpc, reply>>

\* Mutant: a category that is already in ticketDetails is not pushed again.
NextTicketOnce(p) ==
    /\ total' = [total EXCEPT ![p] = @ + entity[p].price * Ticket(p).quantity]
    /\ details' = [details EXCEPT ![p] =
          IF \E k \in DOMAIN @ : @[k].category = Target(p)
             THEN @
             ELSE Append(@, [category |-> Target(p),
                             quantity |-> Ticket(p).quantity,
                             price    |-> entity[p].price])]
    /\ line' = [line EXCEPT ![p] = @ + 1]
    /\ pc' = [pc EXCEPT ![p] = LoopPc(p, line[p] + 1)]
    /\ UNCHANGED <<job, row, bookVars, patches, entity, changed, current, retryCount,
                   rpc, reply>>

\* After the save: totalAmount += ..., ticketDetails.push(...), next ticket.
NextTicket(p) ==
    /\ IF Kind(p) = "ticket"
          THEN UNCHANGED loopVars
          ELSE /\ total' = [total EXCEPT ![p] = @ + entity[p].price * Ticket(p).quantity]
               /\ details' = [details EXCEPT ![p] =
                     Append(@, [category |-> Target(p),
                                quantity |-> Ticket(p).quantity,
                                price    |-> entity[p].price])]
    /\ line' = [line EXCEPT ![p] = @ + 1]
    /\ pc' = [pc EXCEPT ![p] = LoopPc(p, line[p] + 1)]
    /\ UNCHANGED <<job, row, bookVars, patches, entity, changed, current, retryCount,
                   rpc, reply>>

\* save(), second half: UPDATE by primary key, which waits for the row lock.
WriteRow(p) ==
    LET c == Target(p) IN
    /\ pc[p] = "write"
    /\ changed[p] # {}
    /\ lock[c] \in {p, Free}
    /\ \E v \in NextVersions(entity[p], dirty[c], changed[p]) :
          dirty' = [dirty EXCEPT ![c] = SavedRow(entity[p], @, changed[p], v)]
    /\ lock' = [lock EXCEPT ![c] = p]
    /\ NextTicket(p)

SkipWrite(p) ==
    /\ pc[p] = "write"
    /\ MaySkipUpdate(changed[p])
    /\ NextTicket(p)
    /\ UNCHANGED <<dirty, lock>>

-----------------------------------------------------------------------------
(* The ends of the three transactions *)

NewOrder(p) == [by |-> p, lines |-> details[p], total |-> total[p]]

\* register_id is unique among the orders: a OneToOne relation.
RegisterTaken(p) ==
    /\ RegisterOf(p) # NoRegister
    /\ \E i \in DOMAIN orders : RegisterOf(orders[i].by) = RegisterOf(p)

\* Mutant: the order of the first attempt is kept.
CommitOrderKeepsFirst(p) ==
    /\ pc[p] = "commit"
    /\ Kind(p) = "order"
    /\ IF RegisterTaken(p)
          THEN StatementError(p)
          ELSE /\ orders' = Append(orders, NewOrder(p))
               /\ Publish(p)
               /\ current' = [current EXCEPT ![p] = IF @ = 0 THEN Len(orders) + 1 ELSE @]
               /\ rpc' = [rpc EXCEPT ![p] = "sent"]
               /\ pc' = [pc EXCEPT ![p] = "awaiting"]
               /\ UNCHANGED <<job, sessions, patches, line, entity, changed, loopVars,
                              retryCount, reply>>

\* createOrder: insert the order and its lines, COMMIT, send order_created.
CommitOrder(p) ==
    /\ pc[p] = "commit"
    /\ Kind(p) = "order"
    /\ IF RegisterTaken(p)
          THEN StatementError(p)
          ELSE /\ orders' = Append(orders, NewOrder(p))
               /\ Publish(p)
               /\ current' = [current EXCEPT ![p] = Len(orders) + 1]
               /\ rpc' = [rpc EXCEPT ![p] = "sent"]
               /\ pc' = [pc EXCEPT ![p] = "awaiting"]
               /\ UNCHANGED <<job, sessions, patches, line, entity, changed, loopVars,
                              retryCount, reply>>

\* createOrderByAdmin builds its order_ticket rows before the tickets have
\* identifiers: the last save fails as soon as there is one.  A body without
\* tickets fails too when its payment_status ("paid", "refunded") is no status
\* of an order.
AdminOrderFails(p) ==
    /\ pc[p] = "commit"
    /\ Kind(p) = "adminOrder"
    /\ StatementError(p)

CommitAdminOrder(p) ==
    /\ pc[p] = "commit"
    /\ Kind(p) = "adminOrder"
    /\ Tickets(p) = <<>>
    /\ ~RegisterTaken(p)
    /\ orders' = Append(orders, NewOrder(p))
    /\ Publish(p)
    /\ current' = [current EXCEPT ![p] = Len(orders) + 1]
    /\ Answer(p, "ok")
    /\ UNCHANGED <<job, sessions, patches, line, entity, changed, loopVars,
                   retryCount, rpc>>

\* createTicket: save the ticket, COMMIT, return it.
CommitTicket(p) ==
    /\ pc[p] = "commit"
    /\ Kind(p) = "ticket"
    /\ Publish(p)
    /\ Throw(p, "ok")

-----------------------------------------------------------------------------
(* The order_created call *)

\* Mutant: the gateway is sent the tickets of the last attempt only.
NewSessionOfAttempt(p) ==
    [order |-> current[p],
     lines |-> SubSeq(details[p], Len(details[p]) - Len(Tickets(p)) + 1, Len(details[p]))]

NewSession(p) == [order |-> current[p], lines |-> details[p]]

AnswerRpc(p, r) ==
    /\ rpc[p] = "sent"
    /\ rpc' = [rpc EXCEPT ![p] = r]
    /\ UNCHANGED <<job, dbVars, orders, patches, pc, line, entity, changed, loopVars,
                   current, retryCount, reply>>

\* createCheckoutSession.  Stripe refuses a session without line items.
GatewayCreatesSession(p) ==
    /\ AnswerRpc(p, "ok")
    /\ details[p] # <<>>
    /\ sessions' = sessions \cup {NewSession(p)}

\* The gateway answers with an error: Stripe refused the session, or made it
\* and the answer did not arrive.
GatewayFails(p) ==
    /\ AnswerRpc(p, "error")
    /\ "gateway" \in Faults \/ details[p] = <<>>
    /\ \/ UNCHANGED sessions
       \/ details[p] # <<>> /\ sessions' = sessions \cup {NewSession(p)}

\* Messages are not acknowledged: one is lost with the gateway that holds it,
\* and send() has no timeout.
CallLost(p) ==
    /\ "lost" \in Faults
    /\ AnswerRpc(p, "lost")
    /\ UNCHANGED sessions

ReceiveUrl(p) ==
    /\ pc[p] = "awaiting"
    /\ rpc[p] = "ok"
    /\ rpc' = [rpc EXCEPT ![p] = "none"]
    /\ Answer(p, "ok")
    /\ UNCHANGED <<job, dbVars, bookVars, patches, line, entity, changed, loopVars,
                   current, retryCount>>

\* Mutant: an error of the gateway is retried without being counted.
ReceiveErrorUncounted(p) ==
    /\ pc[p] = "awaiting"
    /\ rpc[p] = "error"
    /\ rpc' = [rpc EXCEPT ![p] = "none"]
    /\ pc' = [pc EXCEPT ![p] = LoopPc(p, 1)]
    /\ line' = [line EXCEPT ![p] = 1]
    /\ UNCHANGED <<job, dbVars, bookVars, patches, entity, changed, loopVars, current,
                   retryCount, reply>>

\* The error reaches the same catch block as one of the transaction, after
\* the transaction has committed.
ReceiveError(p) ==
    /\ pc[p] = "awaiting"
    /\ rpc[p] = "error"
    /\ rpc' = [rpc EXCEPT ![p] = "none"]
    /\ RetryOrFail(p)
    /\ UNCHANGED dbVars

-----------------------------------------------------------------------------
(* Failures and the administrator *)

DbFailure(p) ==
    /\ "db" \in Faults
    /\ pc[p] \in InTransaction
    /\ StatementError(p)

Blocked(p) == pc[p] = "write" /\ changed[p] # {} /\ lock[Target(p)] \notin {p, Free}

\* PostgreSQL ends one transaction of a cycle of lock waits.
DeadlockAbort(p) ==
    /\ Blocked(p)
    /\ \E S \in SUBSET Procs :
          /\ p \in S
          /\ \A q \in S : Blocked(q)
          /\ {lock[Target(q)] : q \in S} = S
    /\ StatementError(p)

\* The API process dies: open transactions are rolled back, calls already
\* sent go on, nobody is answered.
Crash ==
    /\ "crash" \in Faults
    /\ \E p \in Procs : pc[p] # "done"
    /\ pc' = [p \in Procs |-> "done"]
    /\ reply' = [p \in Procs |-> IF pc[p] = "done" THEN reply[p] ELSE "crashed"]
    /\ dirty' = row
    /\ lock' = [c \in Categories |-> Free]
    /\ UNCHANGED <<job, row, bookVars, patches, line, entity, changed, loopVars, current,
                   retryCount, rpc>>

\* updateTicketCategory: one UPDATE of the columns of the body.
UpdateTicketCategory(c, patch) ==
    /\ patches < MaxPatches
    /\ lock[c] = Free
    /\ row' = [row EXCEPT ![c] = UpdatedRow(patch, @)]
    /\ dirty' = [dirty EXCEPT ![c] = UpdatedRow(patch, @)]
    /\ patches' = patches + 1
    /\ UNCHANGED <<job, lock, bookVars, pc, line, entity, changed, loopVars, current,
                   retryCount, rpc, reply>>

Step(p) ==
    \/ ReadCategory(p) \/ CheckAndDecrement(p) \/ SelectForSave(p)
    \/ WriteRow(p) \/ SkipWrite(p)
    \/ CommitOrder(p) \/ CommitAdminOrder(p) \/ AdminOrderFails(p)
    \/ CommitTicket(p) \/ ReceiveUrl(p) \/ ReceiveError(p)

Gateway(p) == GatewayCreatesSession(p) \/ GatewayFails(p)

\* Every request was answered, or waits for an answer that was lost.
Terminating ==
    /\ \A p \in Procs : pc[p] = "done" \/ rpc[p] = "lost"
    /\ UNCHANGED vars

Next ==
    \/ \E p \in Procs :
          \/ Step(p) \/ Gateway(p) \/ CallLost(p)
          \/ DbFailure(p) \/ DeadlockAbort(p)
    \/ \E c \in Categories, patch \in Patches : UpdateTicketCategory(c, patch)
    \/ Crash
    \/ Terminating

Spec == Init /\ [][Next]_vars

\* Node runs every callback that is ready, PostgreSQL answers and resolves
\* deadlocks, and a call that is not lost is answered.  Nothing is assumed of
\* faults and administrators.
Fairness ==
    \A p \in Procs : /\ WF_vars(Step(p))
                     /\ WF_vars(Gateway(p))
                     /\ WF_vars(DeadlockAbort(p))

FairSpec == Spec /\ Fairness

\* One transaction at a time: what the code does when requests do not overlap.
Open(p) == pc[p] \in InTransaction /\ ~(line[p] = 1 /\ pc[p] = LoopPc(p, 1))
NoOverlap == Cardinality({p \in Procs : Open(p)}) <= 1
SerialSpec == Init /\ [][Next /\ NoOverlap']_vars

-----------------------------------------------------------------------------
(* What the orders say *)

Amount(lines) == FoldFunction(LAMBDA l, sum : sum + l.quantity * l.price, 0, lines)

Taken(lines, c) ==
    FoldFunction(LAMBDA l, sum : sum + IF l.category = c THEN l.quantity ELSE 0, 0, lines)

OrdersOf(p) == {i \in DOMAIN orders : orders[i].by = p}

\* Tickets of category c that left the stock: every order took what its
\* request asks for, every ticket one.
SoldOf(p, c) ==
    Taken(Tickets(p), c) *
        IF Kind(p) = "ticket"
           THEN IF reply[p] = "ok" THEN 1 ELSE 0
           ELSE Cardinality(OrdersOf(p))
Sold(c) == FoldFunction(LAMBDA n, sum : sum + n, 0, [p \in Procs |-> SoldOf(p, c)])

-----------------------------------------------------------------------------
(* Safety *)

\* No interleaving of reservations drives the stock of a category below zero,
\* neither in the committed rows nor in what an open transaction has written:
\* the test of the quantity guards the very value that save() writes, however
\* stale it is (orders.service.ts:253-260, ticket.service.ts:56-64).
StockNeverNegative ==
    \A c \in Categories : row[c].quantity >= 0 /\ dirty[c].quantity >= 0

\* Without overlapping transactions the ledger is exact: what is left and
\* what was sold add up to the initial stock, across failed statements,
\* retries, gateway errors and crashes (no administrator changes the stock).
\* An attempt that fails takes nothing, one that commits takes it all.
StockLedgerExact ==
    (\A p \in Procs : ~Open(p)) =>
        \A c \in Categories : row[c].quantity + Sold(c) = InitialRow[c].quantity

\* An order contains the whole of its request as its last lines, whatever the
\* attempts before it left in ticketDetails (orders.service.ts:222,264-274).
OrderEndsWithRequest ==
    \A i \in DOMAIN orders :
        LET req == Tickets(orders[i].by)
            extra == Len(orders[i].lines) - Len(req)
        IN  /\ extra >= 0
            /\ \A k \in DOMAIN req :
                  /\ orders[i].lines[extra + k].category = req[k].category
                  /\ orders[i].lines[extra + k].quantity = req[k].quantity

\* What Stripe asks the customer to pay for is what the order says, line for
\* line, although retries inflate both and a call may outlive the process that
\* sent it (orders.service.ts:276-352).
ChargeMatchesOrder ==
    \A s \in sessions :
        /\ s.order \in DOMAIN orders
        /\ s.lines = orders[s.order].lines

\* The two accumulators that survive a failed attempt never part: the total of
\* an order is the sum of its lines (orders.service.ts:220-222,262-276).
OrderTotalAddsUp ==
    \A i \in DOMAIN orders : orders[i].total = Amount(orders[i].lines)

\* A client is sent to pay for an order that exists, is its own, is the last
\* one made for it, and has a session (orders.service.ts:356-359).
UrlIsForOwnLastOrder ==
    \A p \in Procs :
        (Kind(p) = "order" /\ reply[p] = "ok") =>
            /\ current[p] \in OrdersOf(p)
            /\ \A i \in OrdersOf(p) : i <= current[p]
            /\ \E s \in sessions : s.order = current[p]

\* Each attempt leaves at most one order, an attempt that was not counted as
\* failed leaves one only when the request is over or waits for the gateway,
\* and no request leaves more than MAX_RETRIES (orders.service.ts:224,368-373).
OrdersBoundedByAttempts ==
    \A p \in Procs :
        /\ Cardinality(OrdersOf(p)) <=
              retryCount[p] + IF pc[p] = "awaiting" \/ reply[p] \in {"ok", "crashed"} THEN 1 ELSE 0
        /\ Cardinality(OrdersOf(p)) <= MaxRetries

-----------------------------------------------------------------------------
(* Liveness *)

\* Every request is answered: the retries end, every row lock is released and
\* no group of requests waits for itself for ever.
EveryRequestAnswered == \A p \in Procs : <>(pc[p] = "done")

-----------------------------------------------------------------------------
(* What the code says of itself, and does not keep *)

\* "Apply optimistic locking with the version from the fetched ticketCategory"
\* (ticket.service.ts:50), "Use optimistic locking" (orders.service.ts:247): of
\* requests that read the same version only one takes its tickets, so no
\* category sells more than it had.
NeverOversold == \A c \in Categories : Sold(c) <= InitialRow[c].quantity

\* "If transaction is successful, exit the retry loop"
\* (orders.service.ts:354): a request makes one order.
OneOrderPerRequest == \A p \in Procs : Cardinality(OrdersOf(p)) <= 1

\* "Duplicate products are not allowed in the array."
\* (CreateCheckoutSessionDto.ts:34): the customer of a request that names each
\* category once is not made to pay for one of them twice.
SessionProductsUnique ==
    \A s \in sessions : \A i, j \in DOMAIN s.lines :
        s.lines[i].category = s.lines[j].category => i = j
=============================================================================
