------------------------- MODULE ReservationProofs -------------------------
(***************************************************************************)
(* Proofs about Reservation, for any number of requests, categories,       *)
(* retries and faults: its types, its stock, what an order contains, is    *)
(* charged and adds up to, how many orders a request makes; and, for the   *)
(* behaviours named in the theorems, the ledger and a single order.        *)
(***************************************************************************)
EXTENDS Reservation, SumProofs, SequenceTheorems

-----------------------------------------------------------------------------
(* The inductive invariant *)

\* Every request that is at a ticket is at one of its tickets, and no request
\* that goes on has used up its retries.
LoopInv ==
    \A p \in Procs :
        /\ pc[p] \in {"read", "check", "diff", "write"} => line[p] \in DOMAIN Tickets(p)
        /\ pc[p] # "done" => retryCount[p] < MaxRetries

\* No entity in memory has a negative quantity: what save() may write.
EntityNeverNegative == \A p \in Procs : entity[p].quantity >= 0

RowsInv == RowsType /\ StockNeverNegative
RequestsInv == RequestsType /\ LoopInv /\ EntityNeverNegative
IInv == RowsInv /\ BooksType /\ RequestsInv /\ patches \in 0..MaxPatches

-----------------------------------------------------------------------------
(* Rows *)

LEMMA VisibleOK ==
    ASSUME RowsInv, NEW p \in Procs, NEW c \in Categories
    PROVE  Visible(p, c) \in TicketCategory /\ Visible(p, c).quantity >= 0
  BY DEF RowsInv, RowsType, StockNeverNegative, Visible

LEMMA ReleaseOK ==
    ASSUME RowsInv, NEW p \in Procs, ReleaseLocks(p)
    PROVE  lock' \in [Categories -> Procs \cup {Free}]
  BY DEF RowsInv, RowsType, ReleaseLocks

LEMMA RollbackOK ==
    ASSUME RowsInv, NEW p \in Procs, Rollback(p)
    PROVE  RowsInv'
  BY ReleaseOK DEF Rollback, RowsInv, RowsType, StockNeverNegative

LEMMA PublishOK ==
    ASSUME RowsInv, NEW p \in Procs, Publish(p)
    PROVE  RowsInv'
  BY ReleaseOK, VisibleOK DEF Publish, RowsInv, RowsType, StockNeverNegative

LEMMA UnchangedRowsOK ==
    ASSUME RowsInv, UNCHANGED dbVars
    PROVE  RowsInv'
  BY DEF dbVars, RowsInv, RowsType, StockNeverNegative

\* An UPDATE by save() writes a column of the entity or keeps the stored one.
LEMMA SavedRowOK ==
    ASSUME NEW e \in TicketCategory, NEW r \in TicketCategory,
           e.quantity >= 0, r.quantity >= 0,
           NEW ch \in SUBSET Columns, NEW v \in NextVersions(e, r, ch)
    PROVE  /\ SavedRow(e, r, ch, v) \in TicketCategory
           /\ SavedRow(e, r, ch, v).quantity >= 0
  BY DEF TicketCategory, NextVersions, SavedRow

LEMMA UpdatedRowOK ==
    ASSUME NEW patch \in Patches, NEW r \in TicketCategory, r.quantity >= 0
    PROVE  UpdatedRow(patch, r) \in TicketCategory /\ UpdatedRow(patch, r).quantity >= 0
  BY ConstantsAssumption DEF TicketCategory, UpdatedRow, Updated

-----------------------------------------------------------------------------
(* The ways a step of a request ends *)

LEMMA ProductNat == ASSUME NEW m \in Nat, NEW n \in Nat PROVE m * n \in Nat
  OBVIOUS

LEMMA LoopPcOK ==
    ASSUME RequestsInv, NEW p \in Procs, NEW i \in Nat \ {0}
    PROVE  /\ LoopPc(p, i) \in {"read", "commit"}
           /\ LoopPc(p, i) = "read" => i \in DOMAIN Tickets(p)
  BY DEF RequestsInv, RequestsType, LoopPc, Tickets, Job

LEMMA RetryOrFailOK ==
    ASSUME RequestsInv, BooksType, NEW p \in Procs, pc[p] # "done", RetryOrFail(p),
           rpc' \in [Procs -> {"none", "sent", "ok", "error", "lost"}]
    PROVE  RequestsInv' /\ BooksType'
  <1>1. /\ LoopPc(p, 1) \in {"read", "commit"}
        /\ LoopPc(p, 1) = "read" => 1 \in DOMAIN Tickets(p)
    BY LoopPcOK
  <1>2. BooksType'
    BY DEF RetryOrFail, BooksType, bookVars
  <1>3. retryCount[p] < MaxRetries /\ retryCount[p] \in Nat /\ MaxRetries \in Nat
    BY ConstantsAssumption DEF RequestsInv, RequestsType, LoopInv
  <1>4. retryCount[p] + 1 \in 0..MaxRetries
    BY <1>3
  <1>5. retryCount' \in [Procs -> 0..MaxRetries]
    BY <1>4 DEF RetryOrFail, RequestsInv, RequestsType
  <1>6. /\ pc' \in [Procs -> InTransaction \cup {"awaiting", "done"}]
        /\ line' \in [Procs -> Nat \ {0}]
        /\ reply' \in [Procs -> {"none", "ok", "rejected", "failed", "crashed"}]
        /\ LoopInv'
    <2>1. CASE retryCount[p] + 1 = MaxRetries
      <3>1. /\ pc' = [pc EXCEPT ![p] = "done"]
            /\ reply' = [reply EXCEPT ![p] = "failed"]
            /\ UNCHANGED <<job, line>>
            /\ retryCount' = [retryCount EXCEPT ![p] = @ + 1]
        BY <2>1 DEF RetryOrFail, Answer
      <3>2. /\ pc' \in [Procs -> InTransaction \cup {"awaiting", "done"}]
            /\ line' \in [Procs -> Nat \ {0}]
            /\ reply' \in [Procs -> {"none", "ok", "rejected", "failed", "crashed"}]
        BY <3>1 DEF RequestsInv, RequestsType
      <3>3. ASSUME NEW q \in Procs, q # p
            PROVE  pc'[q] = pc[q] /\ retryCount'[q] = retryCount[q]
        BY <3>1, <3>3 DEF RequestsInv, RequestsType
      <3>4. pc'[p] = "done"
        BY <3>1 DEF RequestsInv, RequestsType
      <3>5. LoopInv'
        BY <3>1, <3>3, <3>4 DEF RequestsInv, LoopInv, Tickets
      <3>6. QED BY <3>2, <3>5
    <2>2. CASE retryCount[p] + 1 # MaxRetries
      <3>1. /\ pc' = [pc EXCEPT ![p] = LoopPc(p, 1)]
            /\ line' = [line EXCEPT ![p] = 1]
            /\ UNCHANGED <<job, reply>>
            /\ retryCount' = [retryCount EXCEPT ![p] = @ + 1]
        BY <2>2 DEF RetryOrFail
      <3>2. /\ pc' \in [Procs -> InTransaction \cup {"awaiting", "done"}]
            /\ line' \in [Procs -> Nat \ {0}]
            /\ reply' \in [Procs -> {"none", "ok", "rejected", "failed", "crashed"}]
        <4>1. /\ pc \in [Procs -> InTransaction \cup {"awaiting", "done"}]
              /\ line \in [Procs -> Nat \ {0}]
              /\ reply \in [Procs -> {"none", "ok", "rejected", "failed", "crashed"}]
          BY DEF RequestsInv, RequestsType
        <4>2. LoopPc(p, 1) \in InTransaction
          BY <1>1 DEF InTransaction
        <4>3. QED BY <4>1, <4>2, <3>1
      <3>3. ASSUME NEW q \in Procs, pc'[q] \in {"read", "check", "diff", "write"}
            PROVE  line'[q] \in DOMAIN Tickets(q)'
        <4>1. pc \in [Procs -> InTransaction \cup {"awaiting", "done"}]
              /\ line \in [Procs -> Nat \ {0}]
          BY DEF RequestsInv, RequestsType
        <4>2. CASE q = p
          <5>1. pc'[p] = LoopPc(p, 1) /\ line'[p] = 1
            BY <4>1, <3>1
          <5>2. QED BY <5>1, <4>2, <3>1, <3>3, <1>1 DEF Tickets
        <4>3. CASE q # p
          <5>1. pc'[q] = pc[q] /\ line'[q] = line[q]
            BY <4>1, <4>3, <3>1
          <5>2. QED BY <5>1, <3>1, <3>3 DEF RequestsInv, LoopInv, Tickets
        <4>4. QED BY <4>2, <4>3
      <3>4. ASSUME NEW q \in Procs, pc'[q] # "done"
            PROVE  retryCount'[q] < MaxRetries
        BY <3>1, <3>4, <1>3, <2>2 DEF RequestsInv, RequestsType, LoopInv
      <3>5. QED BY <3>2, <3>3, <3>4 DEF LoopInv
    <2>3. QED BY <2>1, <2>2
  <1>7. RequestsType'
    BY <1>5, <1>6 DEF RetryOrFail, RequestsInv, RequestsType, loopVars
  <1>8. EntityNeverNegative'
    BY DEF RetryOrFail, RequestsInv, EntityNeverNegative
  <1>9. QED BY <1>2, <1>6, <1>7, <1>8 DEF RequestsInv

LEMMA ThrowOK ==
    ASSUME RequestsInv, BooksType, NEW p \in Procs, NEW r \in {"ok", "rejected", "failed"},
           Throw(p, r)
    PROVE  RequestsInv' /\ BooksType'
  BY DEF Throw, Answer, RequestsInv, RequestsType, LoopInv, EntityNeverNegative,
     BooksType, bookVars, loopVars, Tickets

LEMMA StatementErrorOK ==
    ASSUME IInv, NEW p \in Procs, pc[p] # "done", StatementError(p)
    PROVE  IInv'
  <1>1. RowsInv'
    BY RollbackOK DEF StatementError, IInv
  <1>2. RequestsInv' /\ BooksType'
    <2>1. CASE Kind(p) = "ticket"
      BY <2>1, ThrowOK DEF StatementError, IInv
    <2>2. CASE Kind(p) # "ticket"
      <3>1. rpc' \in [Procs -> {"none", "sent", "ok", "error", "lost"}]
        BY <2>2 DEF StatementError, IInv, RequestsInv, RequestsType
      <3>2. QED BY <2>2, <3>1, RetryOrFailOK DEF StatementError, IInv
    <2>3. QED BY <2>1, <2>2
  <1>3. patches' = patches
    BY DEF StatementError, Throw, RetryOrFail
  <1>4. QED BY <1>1, <1>2, <1>3 DEF IInv

-----------------------------------------------------------------------------
(* One lemma per action *)

LEMMA InitOK == Init => IInv
  <1>1. ASSUME Init PROVE RowsInv
    BY <1>1, ConstantsAssumption DEF Init, RowsInv, RowsType, StockNeverNegative
  <1>2. ASSUME Init PROVE BooksType
    BY <1>2 DEF Init, BooksType
  <1>3. ASSUME Init PROVE RequestsInv
    <2>1. job \in [Procs -> Job] /\ MaxRetries \in Nat \ {0}
      BY <1>3, ConstantsAssumption DEF Init
    <2>2. NullEntity \in TicketCategory /\ NullEntity.quantity >= 0
      BY DEF NullEntity, TicketCategory
    <2>3. \A p \in Procs : /\ LoopPc(p, 1) \in {"read", "commit"}
                           /\ LoopPc(p, 1) = "read" => 1 \in DOMAIN Tickets(p)
      BY <2>1 DEF LoopPc, Tickets, Job
    <2>4. RequestsType
      BY <1>3, <2>1, <2>2, <2>3 DEF Init, RequestsType, InTransaction
    <2>5. LoopInv /\ EntityNeverNegative
      BY <1>3, <2>1, <2>2, <2>3 DEF Init, LoopInv, EntityNeverNegative
    <2>6. QED BY <2>4, <2>5 DEF RequestsInv
  <1>4. ASSUME Init PROVE patches \in 0..MaxPatches
    BY <1>4, ConstantsAssumption DEF Init
  <1>5. QED BY <1>1, <1>2, <1>3, <1>4 DEF IInv

LEMMA TicketOK ==
    ASSUME RequestsInv, NEW p \in Procs, pc[p] \in {"read", "check", "diff", "write"}
    PROVE  /\ Ticket(p) \in Lines
           /\ Target(p) \in Categories
           /\ Ticket(p).quantity \in Nat \ {0}
  <1>1. Tickets(p) \in Seq(Lines) /\ line[p] \in DOMAIN Tickets(p)
    BY DEF RequestsInv, RequestsType, LoopInv, Tickets, Job
  <1>2. Tickets(p)[line[p]] \in Lines
    BY <1>1
  <1>3. QED BY <1>2 DEF Ticket, Target, Lines

LEMMA ReadCategoryOK ==
    ASSUME IInv, NEW p \in Procs, ReadCategory(p)
    PROVE  IInv'
  <1> DEFINE found == Visible(p, Target(p))
  <1>1. Target(p) \in Categories
    BY TicketOK DEF ReadCategory, IInv
  <1>2. found \in TicketCategory /\ found.quantity >= 0
    BY <1>1, VisibleOK DEF IInv
  <1>3. CASE Kind(p) = "order" /\ found.hide
    BY <1>3, RollbackOK, ThrowOK DEF ReadCategory, IInv, Throw
  <1>4. CASE ~(Kind(p) = "order" /\ found.hide)
    <2>1. /\ entity' = [entity EXCEPT ![p] = found]
          /\ pc' = [pc EXCEPT ![p] = "check"]
          /\ pc[p] = "read"
          /\ UNCHANGED <<job, dbVars, bookVars, patches, line, changed, loopVars,
                         current, retryCount, rpc, reply>>
      BY <1>4 DEF ReadCategory
    <2>2. RowsInv'
      BY <2>1, UnchangedRowsOK DEF IInv
    <2>3. RequestsType' /\ EntityNeverNegative'
      BY <2>1, <1>2 DEF IInv, RequestsInv, RequestsType, EntityNeverNegative,
         InTransaction, loopVars
    <2>4. LoopInv'
      BY <2>1 DEF IInv, RequestsInv, RequestsType, LoopInv, Tickets
    <2>5. QED BY <2>1, <2>2, <2>3, <2>4 DEF IInv, RequestsInv, BooksType, bookVars
  <1>5. QED BY <1>3, <1>4

LEMMA CheckAndDecrementOK ==
    ASSUME IInv, NEW p \in Procs, CheckAndDecrement(p)
    PROVE  IInv'
  <1>1. pc[p] = "check"
    BY DEF CheckAndDecrement
  <1>2. Ticket(p).quantity \in Nat \ {0}
    BY <1>1, TicketOK DEF IInv
  <1>3. entity[p] \in TicketCategory /\ entity[p].quantity \in Int
    BY DEF IInv, RequestsInv, RequestsType, TicketCategory
  <1>4. CASE Visible(p, Target(p)).version # entity[p].version
    <2>1. Rollback(p) /\ RetryOrFail(p) /\ UNCHANGED rpc
      BY <1>4 DEF CheckAndDecrement
    <2>2. rpc' \in [Procs -> {"none", "sent", "ok", "error", "lost"}]
      BY <2>1 DEF IInv, RequestsInv, RequestsType
    <2>3. RequestsInv' /\ BooksType'
      BY <1>1, <2>1, <2>2, RetryOrFailOK DEF IInv
    <2>4. QED BY <2>1, <2>3, RollbackOK DEF IInv, RetryOrFail
  <1>5. CASE /\ Visible(p, Target(p)).version = entity[p].version
             /\ entity[p].quantity < Ticket(p).quantity
    BY <1>5, RollbackOK, ThrowOK DEF CheckAndDecrement, IInv, Throw
  <1>6. CASE /\ Visible(p, Target(p)).version = entity[p].version
             /\ ~(entity[p].quantity < Ticket(p).quantity)
    <2>1. /\ entity' = [entity EXCEPT ![p].quantity = @ - Ticket(p).quantity]
          /\ pc' = [pc EXCEPT ![p] = "diff"]
          /\ UNCHANGED <<job, dbVars, bookVars, patches, line, changed, loopVars,
                         current, retryCount, rpc, reply>>
      BY <1>6 DEF CheckAndDecrement
    <2>2. entity[p].quantity - Ticket(p).quantity \in Nat
      BY <1>2, <1>3, <1>6
    <2> DEFINE e == [entity[p] EXCEPT !.quantity = @ - Ticket(p).quantity]
    <2>8. e \in TicketCategory /\ e.quantity >= 0
      BY <1>3, <2>2 DEF TicketCategory
    <2>9. entity' = [entity EXCEPT ![p] = e]
      BY <2>1
    <2>10. entity \in [Procs -> TicketCategory] /\ EntityNeverNegative
      BY DEF IInv, RequestsInv, RequestsType
    <2>3. entity' \in [Procs -> TicketCategory] /\ EntityNeverNegative'
      <3> HIDE DEF e
      <3>1. QED BY <2>8, <2>9, <2>10 DEF EntityNeverNegative
    <2>4. RequestsType'
      BY <2>1, <2>3 DEF IInv, RequestsInv, RequestsType, InTransaction, loopVars
    <2>5. LoopInv'
      BY <1>1, <2>1 DEF IInv, RequestsInv, RequestsType, LoopInv, Tickets
    <2>6. RowsInv'
      BY <2>1, UnchangedRowsOK DEF IInv
    <2>7. QED BY <2>1, <2>3, <2>4, <2>5, <2>6 DEF IInv, RequestsInv, BooksType, bookVars
  <1>7. QED BY <1>4, <1>5, <1>6

LEMMA SelectForSaveOK ==
    ASSUME IInv, NEW p \in Procs, SelectForSave(p)
    PROVE  IInv'
  <1>1. RowsInv'
    BY UnchangedRowsOK DEF SelectForSave, IInv
  <1>2. RequestsType' /\ LoopInv' /\ EntityNeverNegative'
    BY DEF SelectForSave, IInv, RequestsInv, RequestsType, LoopInv, EntityNeverNegative,
       Tickets, ChangedColumns, InTransaction, loopVars
  <1>3. QED BY <1>1, <1>2 DEF SelectForSave, IInv, RequestsInv, BooksType, bookVars

LEMMA NextTicketOK ==
    ASSUME RequestsInv, BooksType, NEW p \in Procs, pc[p] = "write", NextTicket(p)
    PROVE  RequestsInv' /\ BooksType'
  <1>1. line[p] \in Nat /\ line[p] + 1 \in Nat \ {0}
    BY DEF RequestsInv, RequestsType
  <1>2. /\ LoopPc(p, line[p] + 1) \in {"read", "commit"}
        /\ LoopPc(p, line[p] + 1) = "read" => line[p] + 1 \in DOMAIN Tickets(p)
    BY <1>1, LoopPcOK
  <1>3. total' \in [Procs -> Nat] /\ details' \in [Procs -> Seq(DetailLines)]
    <2>1. CASE Kind(p) = "ticket"
      BY <2>1 DEF NextTicket, loopVars, RequestsInv, RequestsType
    <2>2. CASE Kind(p) # "ticket"
      <3>1. entity[p].price \in Nat /\ Ticket(p).quantity \in Nat \ {0}
            /\ Target(p) \in Categories
        BY TicketOK DEF RequestsInv, RequestsType, TicketCategory
      <3>2. entity[p].price * Ticket(p).quantity \in Nat
        BY <3>1, ProductNat
      <3>3. total[p] + entity[p].price * Ticket(p).quantity \in Nat
        BY <3>2 DEF RequestsInv, RequestsType
      <3> DEFINE d == [category |-> Target(p), quantity |-> Ticket(p).quantity,
                       price |-> entity[p].price]
      <3>4. d \in DetailLines
        BY <3>1 DEF DetailLines
      <3>5. Append(details[p], d) \in Seq(DetailLines)
        BY <3>4 DEF RequestsInv, RequestsType
      <3>6. /\ total' = [total EXCEPT ![p] = @ + entity[p].price * Ticket(p).quantity]
            /\ details' = [details EXCEPT ![p] = Append(@, d)]
        BY <2>2 DEF NextTicket
      <3> HIDE DEF d
      <3>7. QED BY <3>3, <3>5, <3>6 DEF RequestsInv, RequestsType
    <2>3. QED BY <2>1, <2>2
  <1>4. /\ line' = [line EXCEPT ![p] = @ + 1]
        /\ pc' = [pc EXCEPT ![p] = LoopPc(p, line[p] + 1)]
        /\ UNCHANGED <<job, row, bookVars, patches, entity, changed, current, retryCount,
                       rpc, reply>>
    BY DEF NextTicket
  <1>5. RequestsType'
    BY <1>1, <1>2, <1>3, <1>4 DEF RequestsInv, RequestsType, InTransaction
  <1>6. LoopInv'
    BY <1>2, <1>4 DEF RequestsInv, RequestsType, LoopInv, Tickets
  <1>7. EntityNeverNegative' /\ BooksType'
    BY <1>4 DEF RequestsInv, EntityNeverNegative, BooksType, bookVars
  <1>8. QED BY <1>5, <1>6, <1>7 DEF RequestsInv

LEMMA WriteRowOK ==
    ASSUME IInv, NEW p \in Procs, WriteRow(p)
    PROVE  IInv'
  <1> DEFINE c == Target(p)
  <1>1. c \in Categories
    BY TicketOK DEF WriteRow, IInv
  <1>2. PICK v \in NextVersions(entity[p], dirty[c], changed[p]) :
          dirty' = [dirty EXCEPT ![c] = SavedRow(entity[p], dirty[c], changed[p], v)]
    BY DEF WriteRow
  <1>3. /\ SavedRow(entity[p], dirty[c], changed[p], v) \in TicketCategory
        /\ SavedRow(entity[p], dirty[c], changed[p], v).quantity >= 0
    BY <1>1, SavedRowOK DEF IInv, RowsInv, RowsType, StockNeverNegative, RequestsInv,
       RequestsType, EntityNeverNegative
  <1>4. lock' = [lock EXCEPT ![c] = p] /\ UNCHANGED row
    BY DEF WriteRow, NextTicket
  <1>5. RowsInv'
    BY <1>1, <1>2, <1>3, <1>4 DEF IInv, RowsInv, RowsType, StockNeverNegative
  <1>6. RequestsInv' /\ BooksType'
    BY NextTicketOK DEF WriteRow, IInv
  <1>7. QED BY <1>5, <1>6 DEF WriteRow, NextTicket, IInv

LEMMA SkipWriteOK ==
    ASSUME IInv, NEW p \in Procs, SkipWrite(p)
    PROVE  IInv'
  <1>1. RequestsInv' /\ BooksType'
    BY NextTicketOK DEF SkipWrite, IInv
  <1>2. RowsInv'
    BY UnchangedRowsOK DEF SkipWrite, NextTicket, dbVars, IInv
  <1>3. QED BY <1>1, <1>2 DEF SkipWrite, NextTicket, IInv

LEMMA NewOrderOK ==
    ASSUME RequestsInv, BooksType, NEW p \in Procs
    PROVE  Append(orders, NewOrder(p)) \in Seq(Order)
  <1>1. NewOrder(p) \in Order
    BY DEF RequestsInv, RequestsType, NewOrder, Order
  <1>2. QED BY <1>1 DEF BooksType

LEMMA CommitOrderOK ==
    ASSUME IInv, NEW p \in Procs, CommitOrder(p)
    PROVE  IInv'
  <1>1. CASE RegisterTaken(p)
    BY <1>1, StatementErrorOK DEF CommitOrder
  <1>2. CASE ~RegisterTaken(p)
    <2>1. /\ pc[p] = "commit"
          /\ orders' = Append(orders, NewOrder(p))
          /\ Publish(p)
          /\ current' = [current EXCEPT ![p] = Len(orders) + 1]
          /\ rpc' = [rpc EXCEPT ![p] = "sent"]
          /\ pc' = [pc EXCEPT ![p] = "awaiting"]
          /\ UNCHANGED <<job, sessions, patches, line, entity, changed, loopVars,
                         retryCount, reply>>
      BY <1>2 DEF CommitOrder
    <2>2. BooksType'
      BY <2>1, NewOrderOK DEF IInv, BooksType
    <2>3. Len(orders) + 1 \in Nat
      BY DEF IInv, BooksType
    <2>4. RequestsType'
      BY <2>1, <2>3 DEF IInv, RequestsInv, RequestsType, loopVars
    <2>5. LoopInv' /\ EntityNeverNegative'
      BY <2>1 DEF IInv, RequestsInv, RequestsType, LoopInv, EntityNeverNegative, Tickets
    <2>6. QED BY <2>1, <2>2, <2>4, <2>5, PublishOK DEF IInv, RequestsInv
  <1>3. QED BY <1>1, <1>2

LEMMA CommitAdminOrderOK ==
    ASSUME IInv, NEW p \in Procs, CommitAdminOrder(p)
    PROVE  IInv'
  <1>1. BooksType'
    BY NewOrderOK DEF CommitAdminOrder, IInv, BooksType
  <1>2. Len(orders) + 1 \in Nat
    BY DEF IInv, BooksType
  <1>3. RequestsType'
    BY <1>2 DEF CommitAdminOrder, Answer, IInv, RequestsInv, RequestsType, loopVars
  <1>4. LoopInv' /\ EntityNeverNegative'
    BY DEF CommitAdminOrder, Answer, IInv, RequestsInv, RequestsType, LoopInv,
       EntityNeverNegative, Tickets
  <1>5. RowsInv' /\ patches' = patches
    BY PublishOK DEF CommitAdminOrder, IInv
  <1>6. QED BY <1>1, <1>3, <1>4, <1>5 DEF IInv, RequestsInv

LEMMA CommitTicketOK ==
    ASSUME IInv, NEW p \in Procs, CommitTicket(p)
    PROVE  IInv'
  BY PublishOK, ThrowOK DEF CommitTicket, Throw, IInv

\* The three answers of the gateway to a call.
LEMMA AnswerRpcOK ==
    ASSUME IInv, NEW p \in Procs, NEW r \in {"ok", "error", "lost"}, AnswerRpc(p, r)
    PROVE  RowsInv' /\ RequestsInv' /\ patches' \in 0..MaxPatches
  <1>1. RowsInv' /\ patches' \in 0..MaxPatches
    BY UnchangedRowsOK DEF AnswerRpc, IInv
  <1>2. rpc' \in [Procs -> {"none", "sent", "ok", "error", "lost"}]
    BY DEF AnswerRpc, IInv, RequestsInv, RequestsType
  <1>3. RequestsType' /\ LoopInv' /\ EntityNeverNegative'
    BY <1>2 DEF AnswerRpc, IInv, RequestsInv, RequestsType, LoopInv, EntityNeverNegative,
       Tickets, loopVars
  <1>4. QED BY <1>1, <1>3 DEF RequestsInv

\* A call in flight was sent for an order that was committed.
SentInv ==
    \A p \in Procs :
        rpc[p] = "sent" =>
            /\ pc[p] \in {"awaiting", "done"}
            /\ current[p] \in DOMAIN orders
            /\ orders[current[p]].lines = details[p]

LEMMA NewSessionOK ==
    ASSUME IInv, SentInv, NEW p \in Procs, rpc[p] = "sent"
    PROVE  sessions \cup {NewSession(p)} \subseteq Session
  <1>1. current[p] \in Nat \ {0}
    BY DEF SentInv, IInv, BooksType
  <1>2. NewSession(p) \in Session
    BY <1>1 DEF NewSession, Session, IInv, RequestsInv, RequestsType
  <1>3. QED BY <1>2 DEF IInv, BooksType

LEMMA GatewayOK ==
    ASSUME IInv, SentInv, NEW p \in Procs, Gateway(p) \/ CallLost(p)
    PROVE  IInv'
  <1>1. RowsInv' /\ RequestsInv' /\ patches' \in 0..MaxPatches
    BY AnswerRpcOK DEF Gateway, GatewayCreatesSession, GatewayFails, CallLost
  <1>2. /\ rpc[p] = "sent"
        /\ orders' = orders
        /\ sessions' = sessions \/ sessions' = sessions \cup {NewSession(p)}
    BY DEF Gateway, GatewayCreatesSession, GatewayFails, CallLost, AnswerRpc
  <1>3. BooksType'
    BY <1>2, NewSessionOK DEF IInv, BooksType
  <1>4. QED BY <1>1, <1>3 DEF IInv

LEMMA ReceiveUrlOK ==
    ASSUME IInv, NEW p \in Procs, ReceiveUrl(p)
    PROVE  IInv'
  <1>1. RowsInv' /\ BooksType' /\ patches' = patches
    BY UnchangedRowsOK DEF ReceiveUrl, IInv, BooksType, bookVars
  <1>2. RequestsType'
    BY DEF ReceiveUrl, Answer, IInv, RequestsInv, RequestsType, loopVars
  <1>3. LoopInv' /\ EntityNeverNegative'
    BY DEF ReceiveUrl, Answer, IInv, RequestsInv, RequestsType, LoopInv,
       EntityNeverNegative, Tickets
  <1>4. QED BY <1>1, <1>2, <1>3 DEF IInv, RequestsInv

LEMMA ReceiveErrorOK ==
    ASSUME IInv, NEW p \in Procs, ReceiveError(p)
    PROVE  IInv'
  <1>1. rpc' \in [Procs -> {"none", "sent", "ok", "error", "lost"}]
    BY DEF ReceiveError, IInv, RequestsInv, RequestsType
  <1>2. RequestsInv' /\ BooksType'
    BY <1>1, RetryOrFailOK DEF ReceiveError, IInv
  <1>3. RowsInv' /\ patches' = patches
    BY UnchangedRowsOK DEF ReceiveError, RetryOrFail, IInv
  <1>4. QED BY <1>2, <1>3 DEF IInv

LEMMA CrashOK ==
    ASSUME IInv, Crash
    PROVE  IInv'
  <1>1. RowsInv' /\ BooksType' /\ patches' = patches
    BY DEF Crash, IInv, RowsInv, RowsType, StockNeverNegative, BooksType, bookVars
  <1>2. RequestsType'
    BY DEF Crash, IInv, RequestsInv, RequestsType, loopVars
  <1>3. LoopInv' /\ EntityNeverNegative'
    BY DEF Crash, IInv, RequestsInv, RequestsType, LoopInv, EntityNeverNegative
  <1>4. QED BY <1>1, <1>2, <1>3 DEF IInv, RequestsInv

LEMMA UpdateTicketCategoryOK ==
    ASSUME IInv, NEW c \in Categories, NEW patch \in Patches, UpdateTicketCategory(c, patch)
    PROVE  IInv'
  <1>1. /\ UpdatedRow(patch, row[c]) \in TicketCategory
        /\ UpdatedRow(patch, row[c]).quantity >= 0
        /\ UpdatedRow(patch, dirty[c]) \in TicketCategory
        /\ UpdatedRow(patch, dirty[c]).quantity >= 0
    BY UpdatedRowOK DEF IInv, RowsInv, RowsType, StockNeverNegative
  <1>2. /\ row' = [row EXCEPT ![c] = UpdatedRow(patch, row[c])]
        /\ dirty' = [dirty EXCEPT ![c] = UpdatedRow(patch, dirty[c])]
        /\ patches < MaxPatches /\ patches' = patches + 1
        /\ UNCHANGED <<job, lock, bookVars, pc, line, entity, changed, loopVars, current,
                       retryCount, rpc, reply>>
    BY DEF UpdateTicketCategory
  <1>3. RowsInv'
    BY <1>1, <1>2 DEF IInv, RowsInv, RowsType, StockNeverNegative
  <1>4. patches' \in 0..MaxPatches
    BY <1>2, ConstantsAssumption DEF IInv
  <1>5. BooksType' /\ RequestsType' /\ LoopInv' /\ EntityNeverNegative'
    BY <1>2 DEF IInv, BooksType, bookVars, RequestsInv, RequestsType, LoopInv,
       EntityNeverNegative, Tickets, loopVars
  <1>6. QED BY <1>3, <1>4, <1>5 DEF IInv, RequestsInv

LEMMA StutterOK == ASSUME IInv, UNCHANGED vars PROVE IInv'
  BY UnchangedRowsOK DEF vars, IInv, BooksType, bookVars, RequestsInv, RequestsType, LoopInv,
     EntityNeverNegative, Tickets, loopVars

-----------------------------------------------------------------------------
(* The orders, the sessions and what the clients are answered *)

HasSession(p) == \E s \in sessions : s.order = current[p]

\* The order variable holds the request's own last order.
CurrentInv ==
    /\ \A p \in Procs : current[p] # 0 => /\ current[p] \in DOMAIN orders
                                          /\ orders[current[p]].by = p
    /\ \A i \in DOMAIN orders : i <= current[orders[i].by]

\* A URL was given out for an order with a session.
UrlInv ==
    \A p \in Procs :
        /\ rpc[p] = "ok" => pc[p] \in {"awaiting", "done"} /\ HasSession(p)
        /\ reply[p] = "ok" => pc[p] = "done" /\ (Kind(p) = "order" => HasSession(p))

BooksInv == ChargeMatchesOrder /\ SentInv /\ CurrentInv /\ UrlInv

\* A step of one request that commits no order and takes no answer but an error.
LEMMA QuietStep ==
    ASSUME IInv, BooksInv, NEW p \in Procs, pc[p] # "done",
           UNCHANGED <<job, orders, sessions, current>>,
           \A q \in Procs \ {p} : /\ pc'[q] = pc[q]
                                  /\ details'[q] = details[q]
                                  /\ rpc'[q] = rpc[q]
                                  /\ reply'[q] = reply[q],
           rpc'[p] \notin {"sent", "ok"},
           \/ reply'[p] \in {reply[p], "rejected", "failed"}
           \/ Kind(p) # "order" /\ pc'[p] = "done"
    PROVE  BooksInv'
  <1>1. reply[p] # "ok"
    BY DEF BooksInv, UrlInv
  <1>2. ChargeMatchesOrder' /\ CurrentInv'
    BY DEF BooksInv, ChargeMatchesOrder, CurrentInv
  <1>3. SentInv'
    <2>1. ASSUME NEW q \in Procs, rpc'[q] = "sent"
          PROVE  /\ pc'[q] \in {"awaiting", "done"}
                 /\ current'[q] \in DOMAIN orders'
                 /\ orders'[current'[q]].lines = details'[q]
      <3>1. q # p
        BY <2>1
      <3>2. QED BY <2>1, <3>1 DEF BooksInv, SentInv
    <2>2. QED BY <2>1 DEF SentInv
  <1>4. UrlInv'
    BY <1>1 DEF BooksInv, UrlInv, HasSession, Kind
  <1>5. QED BY <1>2, <1>3, <1>4 DEF BooksInv

\* A request inside a transaction has no call in flight.
LEMMA NoCallInTransaction ==
    ASSUME BooksInv, NEW p \in Procs, pc[p] \in InTransaction
    PROVE  rpc[p] \notin {"sent", "ok"} /\ pc[p] # "done"
  BY DEF BooksInv, SentInv, UrlInv, InTransaction

LEMMA StatementErrorBooks ==
    ASSUME IInv, BooksInv, NEW p \in Procs, pc[p] \in InTransaction,
           Throw(p, "failed") \/ Throw(p, "rejected") \/ (RetryOrFail(p) /\ UNCHANGED rpc)
    PROVE  BooksInv'
  <1>1. /\ UNCHANGED <<job, orders, sessions, current, details, rpc>>
        /\ \A q \in Procs \ {p} : pc'[q] = pc[q] /\ reply'[q] = reply[q]
        /\ reply'[p] \in {reply[p], "rejected", "failed"}
    BY DEF Throw, RetryOrFail, Answer, bookVars, loopVars, IInv, RequestsInv, RequestsType
  <1>2. QED BY <1>1, NoCallInTransaction, QuietStep

LEMMA LoopBooks ==
    ASSUME IInv, BooksInv, NEW p \in Procs,
           \/ ReadCategory(p) \/ CheckAndDecrement(p) \/ SelectForSave(p)
           \/ WriteRow(p) \/ SkipWrite(p) \/ CommitTicket(p)
    PROVE  BooksInv'
  <1>1. pc[p] \in InTransaction
    BY DEF ReadCategory, CheckAndDecrement, SelectForSave, WriteRow, SkipWrite,
       CommitTicket, InTransaction
  <1>2. CASE Throw(p, "rejected") \/ (RetryOrFail(p) /\ UNCHANGED rpc)
    BY <1>1, <1>2, StatementErrorBooks
  <1>3. CASE CommitTicket(p)
    <2>1. /\ UNCHANGED <<job, orders, sessions, current, details, rpc>>
          /\ \A q \in Procs \ {p} : pc'[q] = pc[q] /\ reply'[q] = reply[q]
          /\ Kind(p) # "order" /\ pc'[p] = "done"
      BY <1>3 DEF CommitTicket, Throw, Answer, bookVars, loopVars, IInv, RequestsInv,
         RequestsType
    <2>2. QED BY <1>1, <2>1, NoCallInTransaction, QuietStep
  <1>4. CASE ~(Throw(p, "rejected") \/ (RetryOrFail(p) /\ UNCHANGED rpc)) /\ ~CommitTicket(p)
    <2>1. /\ UNCHANGED <<job, orders, sessions, current, rpc, reply>>
          /\ \A q \in Procs \ {p} : pc'[q] = pc[q] /\ details'[q] = details[q]
      BY <1>4 DEF ReadCategory, CheckAndDecrement, SelectForSave, WriteRow, SkipWrite,
         NextTicket, bookVars, loopVars, IInv, RequestsInv, RequestsType
    <2>2. QED BY <1>1, <2>1, NoCallInTransaction, QuietStep
  <1>5. QED BY <1>2, <1>3, <1>4

\* A committed order becomes the last one of its request.
LEMMA AppendBooks ==
    ASSUME IInv, BooksInv, NEW p \in Procs, pc[p] \in InTransaction,
           orders' = Append(orders, NewOrder(p)),
           current' = [current EXCEPT ![p] = Len(orders) + 1],
           UNCHANGED <<job, sessions, details>>,
           \A q \in Procs \ {p} : /\ pc'[q] = pc[q]
                                  /\ rpc'[q] = rpc[q]
                                  /\ reply'[q] = reply[q],
           rpc'[p] # "ok",
           rpc'[p] = "sent" => pc'[p] \in {"awaiting", "done"},
           reply'[p] = "ok" => Kind(p) # "order" /\ pc'[p] = "done"
    PROVE  BooksInv'
  <1>1. /\ orders \in Seq(Order) /\ current \in [Procs -> Nat]
        /\ NewOrder(p).by = p /\ NewOrder(p).lines = details[p]
    BY DEF IInv, BooksType, RequestsInv, RequestsType, NewOrder
  <1> DEFINE n == Len(orders) + 1
  <1>2. /\ n \in Nat \ {0}
        /\ DOMAIN orders = 1..Len(orders)
        /\ DOMAIN orders' = DOMAIN orders \cup {n}
        /\ n \notin DOMAIN orders
        /\ orders'[n] = NewOrder(p)
        /\ \A i \in DOMAIN orders : orders'[i] = orders[i]
    BY <1>1
  <1>3. current'[p] = n /\ \A q \in Procs \ {p} : current'[q] = current[q]
    BY <1>1
  <1>4. \A i \in DOMAIN orders : orders[i].by \in Procs
    <2>1. \A i \in DOMAIN orders : orders[i] \in Order
      BY <1>1
    <2>2. QED BY <2>1 DEF Order
  <1> HIDE DEF n
  <1>5. ChargeMatchesOrder'
    BY <1>2 DEF BooksInv, ChargeMatchesOrder
  <1>6. SentInv'
    BY <1>1, <1>2, <1>3 DEF BooksInv, SentInv
  <1>7. CurrentInv'
    <2>1. ASSUME NEW q \in Procs, current'[q] # 0
          PROVE  current'[q] \in DOMAIN orders' /\ orders'[current'[q]].by = q
      BY <1>1, <1>2, <1>3, <2>1 DEF BooksInv, CurrentInv
    <2>2. ASSUME NEW i \in DOMAIN orders'
          PROVE  i <= current'[orders'[i].by]
      <3>1. CASE i = n
        BY <3>1, <1>1, <1>2, <1>3
      <3>2. CASE i # n /\ orders[i].by = p
        BY <3>2, <1>1, <1>2, <1>3
      <3>3. CASE i # n /\ orders[i].by # p
        BY <3>3, <1>2, <1>3, <1>4 DEF BooksInv, CurrentInv
      <3>4. QED BY <3>1, <3>2, <3>3
    <2>3. QED BY <2>1, <2>2 DEF CurrentInv
  <1>8. UrlInv'
    BY <1>3 DEF BooksInv, UrlInv, HasSession, Kind
  <1>9. QED BY <1>5, <1>6, <1>7, <1>8 DEF BooksInv

LEMMA CommitBooks ==
    ASSUME IInv, BooksInv, NEW p \in Procs, CommitOrder(p) \/ CommitAdminOrder(p)
    PROVE  BooksInv'
  <1>1. pc[p] \in InTransaction /\ pc[p] = "commit"
    BY DEF CommitOrder, CommitAdminOrder, InTransaction
  <1>2. reply[p] # "ok" /\ rpc[p] \notin {"sent", "ok"}
    BY <1>1, NoCallInTransaction DEF BooksInv, UrlInv
  <1>3. CASE CommitOrder(p) /\ RegisterTaken(p)
    <2>1. Throw(p, "failed") \/ (RetryOrFail(p) /\ UNCHANGED rpc)
      BY <1>3 DEF CommitOrder, StatementError
    <2>2. QED BY <1>1, <2>1, StatementErrorBooks
  <1>4. CASE CommitOrder(p) /\ ~RegisterTaken(p)
    <2>1. /\ orders' = Append(orders, NewOrder(p))
          /\ current' = [current EXCEPT ![p] = Len(orders) + 1]
          /\ rpc' = [rpc EXCEPT ![p] = "sent"]
          /\ pc' = [pc EXCEPT ![p] = "awaiting"]
          /\ UNCHANGED <<job, sessions, details, reply>>
      BY <1>4 DEF CommitOrder, loopVars
    <2>2. rpc'[p] = "sent" /\ pc'[p] = "awaiting" /\ reply'[p] # "ok"
      BY <1>2, <2>1 DEF IInv, RequestsInv, RequestsType
    <2>3. \A q \in Procs \ {p} : /\ pc'[q] = pc[q]
                                 /\ rpc'[q] = rpc[q]
                                 /\ reply'[q] = reply[q]
      BY <2>1 DEF IInv, RequestsInv, RequestsType
    <2>4. QED BY <1>1, <1>4, <2>1, <2>2, <2>3, AppendBooks
  <1>5. CASE CommitAdminOrder(p)
    <2>1. /\ orders' = Append(orders, NewOrder(p))
          /\ current' = [current EXCEPT ![p] = Len(orders) + 1]
          /\ pc' = [pc EXCEPT ![p] = "done"]
          /\ reply' = [reply EXCEPT ![p] = "ok"]
          /\ UNCHANGED <<job, sessions, details, rpc>>
          /\ Kind(p) # "order"
      BY <1>5 DEF CommitAdminOrder, Answer, loopVars
    <2>2. rpc'[p] \notin {"sent", "ok"} /\ pc'[p] = "done"
      BY <1>2, <2>1 DEF IInv, RequestsInv, RequestsType
    <2>3. \A q \in Procs \ {p} : /\ pc'[q] = pc[q]
                                 /\ rpc'[q] = rpc[q]
                                 /\ reply'[q] = reply[q]
      BY <2>1 DEF IInv, RequestsInv, RequestsType
    <2>4. QED BY <1>1, <2>1, <2>2, <2>3, AppendBooks
  <1>6. QED BY <1>3, <1>4, <1>5

LEMMA GatewayBooks ==
    ASSUME IInv, BooksInv, NEW p \in Procs, Gateway(p) \/ CallLost(p)
    PROVE  BooksInv'
  <1>1. PICK r \in {"ok", "error", "lost"} :
          /\ AnswerRpc(p, r)
          /\ \/ r # "ok" /\ sessions' = sessions
             \/ sessions' = sessions \cup {NewSession(p)}
    BY DEF Gateway, GatewayCreatesSession, GatewayFails, CallLost
  <1>2. /\ rpc[p] = "sent" /\ rpc' = [rpc EXCEPT ![p] = r]
        /\ UNCHANGED <<job, orders, pc, details, current, reply>>
    BY <1>1 DEF AnswerRpc, loopVars
  <1>3. /\ pc[p] \in {"awaiting", "done"}
        /\ current[p] \in DOMAIN orders
        /\ orders[current[p]].lines = details[p]
    BY <1>2 DEF BooksInv, SentInv
  <1>4. NewSession(p).order = current[p] /\ NewSession(p).lines = details[p]
    BY DEF NewSession
  <1>5. ChargeMatchesOrder'
    BY <1>1, <1>2, <1>3, <1>4 DEF BooksInv, ChargeMatchesOrder
  <1>6. rpc'[p] = r /\ \A q \in Procs \ {p} : rpc'[q] = rpc[q]
    BY <1>2 DEF IInv, RequestsInv, RequestsType
  <1>7. SentInv' /\ CurrentInv'
    BY <1>2, <1>6 DEF BooksInv, SentInv, CurrentInv
  <1>8. \A q \in Procs : HasSession(q) => HasSession(q)'
    BY <1>1, <1>2 DEF HasSession
  <1>9. r = "ok" => HasSession(p)'
    BY <1>1, <1>2, <1>4 DEF HasSession
  <1>10. UrlInv'
    BY <1>2, <1>3, <1>6, <1>8, <1>9 DEF BooksInv, UrlInv, Kind
  <1>11. QED BY <1>5, <1>7, <1>10 DEF BooksInv

LEMMA ReceiveBooks ==
    ASSUME IInv, BooksInv, NEW p \in Procs, ReceiveUrl(p) \/ ReceiveError(p)
    PROVE  BooksInv'
  <1>1. CASE ReceiveUrl(p)
    <2>1. /\ rpc[p] = "ok" /\ rpc' = [rpc EXCEPT ![p] = "none"]
          /\ pc' = [pc EXCEPT ![p] = "done"]
          /\ reply' = [reply EXCEPT ![p] = "ok"]
          /\ UNCHANGED <<job, orders, sessions, details, current>>
      BY <1>1 DEF ReceiveUrl, Answer, bookVars, loopVars
    <2>2. /\ rpc'[p] = "none" /\ pc'[p] = "done" /\ reply'[p] = "ok"
          /\ \A q \in Procs \ {p} : /\ rpc'[q] = rpc[q]
                                    /\ pc'[q] = pc[q]
                                    /\ reply'[q] = reply[q]
      BY <2>1 DEF IInv, RequestsInv, RequestsType
    <2>3. HasSession(p) /\ \A q \in Procs : HasSession(q)' = HasSession(q)
      BY <2>1 DEF BooksInv, UrlInv, HasSession
    <2>4. UrlInv'
      BY <2>1, <2>2, <2>3 DEF BooksInv, UrlInv, Kind
    <2>5. ChargeMatchesOrder' /\ SentInv' /\ CurrentInv'
      BY <2>1, <2>2 DEF BooksInv, ChargeMatchesOrder, SentInv, CurrentInv
    <2>6. QED BY <2>4, <2>5 DEF BooksInv
  <1>2. CASE ReceiveError(p)
    <2>1. /\ UNCHANGED <<job, orders, sessions, current, details>>
          /\ rpc'[p] = "none" /\ pc[p] # "done"
          /\ reply'[p] \in {reply[p], "failed"}
          /\ \A q \in Procs \ {p} : /\ rpc'[q] = rpc[q]
                                    /\ pc'[q] = pc[q]
                                    /\ reply'[q] = reply[q]
      BY <1>2 DEF ReceiveError, RetryOrFail, Answer, bookVars, loopVars, IInv,
         RequestsInv, RequestsType
    <2>2. QED BY <2>1, QuietStep
  <1>3. QED BY <1>1, <1>2

\* The steps that touch none of the books.
LEMMA OtherBooks ==
    ASSUME IInv, BooksInv,
           \/ Crash
           \/ \E c \in Categories, patch \in Patches : UpdateTicketCategory(c, patch)
           \/ UNCHANGED vars
    PROVE  BooksInv'
  <1>1. /\ UNCHANGED <<job, orders, sessions, current, details, rpc>>
        /\ \A p \in Procs : /\ pc'[p] \in {pc[p], "done"}
                            /\ reply'[p] \in {reply[p], "crashed"}
    BY DEF Crash, UpdateTicketCategory, vars, dbVars, bookVars, loopVars, IInv,
       RequestsInv, RequestsType
  <1>2. ChargeMatchesOrder' /\ SentInv' /\ CurrentInv'
    BY <1>1 DEF BooksInv, ChargeMatchesOrder, SentInv, CurrentInv
  <1>3. UrlInv'
    BY <1>1 DEF BooksInv, UrlInv, HasSession, Kind
  <1>4. QED BY <1>2, <1>3 DEF BooksInv

-----------------------------------------------------------------------------
(* The theorems *)

LEMMA InitBooks == Init => BooksInv
  BY DEF Init, BooksInv, ChargeMatchesOrder, SentInv, CurrentInv, UrlInv

LEMMA NextPreserves ==
    ASSUME IInv, BooksInv, [Next]_vars
    PROVE  IInv' /\ BooksInv'
  <1>1. CASE UNCHANGED vars
    BY <1>1, StutterOK, OtherBooks
  <1>2. CASE Terminating
    BY <1>2, StutterOK, OtherBooks DEF Terminating
  <1>3. CASE Crash
    BY <1>3, CrashOK, OtherBooks
  <1>4. ASSUME NEW c \in Categories, NEW patch \in Patches, UpdateTicketCategory(c, patch)
        PROVE  IInv' /\ BooksInv'
    BY <1>4, UpdateTicketCategoryOK, OtherBooks
  <1>5. ASSUME NEW p \in Procs, Step(p)
        PROVE  IInv' /\ BooksInv'
    <2>1. CASE ReadCategory(p)
      BY <2>1, ReadCategoryOK, LoopBooks
    <2>2. CASE CheckAndDecrement(p)
      BY <2>2, CheckAndDecrementOK, LoopBooks
    <2>3. CASE SelectForSave(p)
      BY <2>3, SelectForSaveOK, LoopBooks
    <2>4. CASE WriteRow(p)
      BY <2>4, WriteRowOK, LoopBooks
    <2>5. CASE SkipWrite(p)
      BY <2>5, SkipWriteOK, LoopBooks
    <2>6. CASE CommitTicket(p)
      BY <2>6, CommitTicketOK, LoopBooks
    <2>7. CASE CommitOrder(p)
      BY <2>7, CommitOrderOK, CommitBooks
    <2>8. CASE CommitAdminOrder(p)
      BY <2>8, CommitAdminOrderOK, CommitBooks
    <2>9. CASE AdminOrderFails(p)
      <3>1. pc[p] \in InTransaction /\ StatementError(p)
        BY <2>9 DEF AdminOrderFails, InTransaction
      <3>2. QED BY <3>1, NoCallInTransaction, StatementErrorOK, StatementErrorBooks
               DEF StatementError
    <2>10. CASE ReceiveUrl(p)
      BY <2>10, ReceiveUrlOK, ReceiveBooks
    <2>11. CASE ReceiveError(p)
      BY <2>11, ReceiveErrorOK, ReceiveBooks
    <2>12. QED BY <1>5, <2>1, <2>2, <2>3, <2>4, <2>5, <2>6, <2>7, <2>8, <2>9, <2>10, <2>11
                 DEF Step
  <1>6. ASSUME NEW p \in Procs, Gateway(p) \/ CallLost(p)
        PROVE  IInv' /\ BooksInv'
    BY <1>6, GatewayOK, GatewayBooks DEF BooksInv
  <1>7. ASSUME NEW p \in Procs, DbFailure(p) \/ DeadlockAbort(p)
        PROVE  IInv' /\ BooksInv'
    <2>1. pc[p] \in InTransaction /\ StatementError(p)
      BY <1>7 DEF DbFailure, DeadlockAbort, Blocked, InTransaction
    <2>2. QED BY <2>1, NoCallInTransaction, StatementErrorOK, StatementErrorBooks
             DEF StatementError
  <1>8. QED BY <1>1, <1>2, <1>3, <1>4, <1>5, <1>6, <1>7 DEF Next

\* The invariants hold together in every state of every behaviour.
LEMMA Invariance == Spec => [](IInv /\ BooksInv)
  <1>1. Init => IInv /\ BooksInv
    BY InitOK, InitBooks
  <1>2. IInv /\ BooksInv /\ [Next]_vars => (IInv /\ BooksInv)'
    BY NextPreserves
  <1>3. QED BY <1>1, <1>2, PTL DEF Spec

\* Every variable keeps its type: no request retries more than MAX_RETRIES
\* times (orders.service.ts:224,368-373; ticket.service.ts:41,83-88).
THEOREM TypeCorrect == Spec => []TypeOK
  <1>1. IInv => TypeOK
    BY DEF IInv, RowsInv, RequestsInv, TypeOK
  <1>2. QED BY <1>1, Invariance, PTL

\* Whatever the interleaving of the reservations, the stale versions and the
\* lost updates, no stock goes below zero, committed or not
\* (orders.service.ts:253-260; ticket.service.ts:56-64).
THEOREM StockSafety == Spec => []StockNeverNegative
  <1>1. IInv => StockNeverNegative
    BY DEF IInv, RowsInv
  <1>2. QED BY <1>1, Invariance, PTL

\* Every checkout session charges for the lines of the order it names
\* (orders.service.ts:276-352).
THEOREM ChargeSafety == Spec => []ChargeMatchesOrder
  <1>1. BooksInv => ChargeMatchesOrder
    BY DEF BooksInv
  <1>2. QED BY <1>1, Invariance, PTL

\* A customer is only sent to pay for the last order of the own request, and
\* it has a session (orders.service.ts:356-359).
THEOREM UrlSafety == Spec => []UrlIsForOwnLastOrder
  <1>1. ASSUME IInv, BooksInv PROVE UrlIsForOwnLastOrder
    <2>1. SUFFICES ASSUME NEW p \in Procs, Kind(p) = "order", reply[p] = "ok"
                   PROVE  /\ current[p] \in OrdersOf(p)
                          /\ \A i \in OrdersOf(p) : i <= current[p]
                          /\ \E s \in sessions : s.order = current[p]
      BY DEF UrlIsForOwnLastOrder
    <2>2. PICK s \in sessions : s.order = current[p]
      BY <2>1, <1>1 DEF BooksInv, UrlInv, HasSession
    <2>3. s.order # 0
      BY <1>1 DEF IInv, BooksType, Session
    <2>4. current[p] \in OrdersOf(p)
      BY <1>1, <2>2, <2>3 DEF BooksInv, CurrentInv, OrdersOf
    <2>5. \A i \in OrdersOf(p) : i <= current[p]
      BY <1>1 DEF BooksInv, CurrentInv, OrdersOf
    <2>6. QED BY <2>2, <2>4, <2>5
  <1>2. QED BY <1>1, Invariance, PTL

-----------------------------------------------------------------------------
(* How many orders a request leaves and what they contain.  The inductive     *)
(* invariant adds to BooksInv what an attempt has collected so far, behind what *)
(* the attempts before it left, and how many orders it can count on.         *)

\* The last n lines are the first n of the request.
EndsWith(lines, req, n) ==
    /\ Len(lines) - n >= 0
    /\ \A k \in 1..n : /\ lines[Len(lines) - n + k].category = req[k].category
                       /\ lines[Len(lines) - n + k].quantity = req[k].quantity

Collected(p) ==
    (pc[p] \in InTransaction /\ Kind(p) # "ticket") =>
        /\ pc[p] = "commit" => line[p] = Len(Tickets(p)) + 1
        /\ EndsWith(details[p], Tickets(p), line[p] - 1)

Extra(p) == IF pc[p] = "awaiting" \/ reply[p] \in {"ok", "crashed"} THEN 1 ELSE 0

Counted(p) ==
    /\ pc[p] # "done" => reply[p] = "none"
    /\ Cardinality(OrdersOf(p)) <= retryCount[p] + Extra(p)
    /\ Cardinality(OrdersOf(p)) <= MaxRetries

OrdersInv == OrderEndsWithRequest /\ \A p \in Procs : Collected(p) /\ Counted(p)

-----------------------------------------------------------------------------
LEMMA OrdersOfFinite ==
    ASSUME IInv, NEW p \in Procs
    PROVE  /\ OrdersOf(p) \in SUBSET (1..Len(orders)) /\ Len(orders) \in Nat
           /\ IsFiniteSet(OrdersOf(p)) /\ Cardinality(OrdersOf(p)) \in Nat
  <1>1. /\ OrdersOf(p) \in SUBSET (1..Len(orders)) /\ Len(orders) \in Nat
    BY DEF IInv, BooksType, OrdersOf
  <1>2. IsFiniteSet(1..Len(orders))
    BY <1>1, FS_Interval
  <1>3. IsFiniteSet(OrdersOf(p))
    BY <1>1, <1>2, FS_Subset
  <1>4. QED  BY <1>1, <1>3, FS_CardinalityType

LEMMA RetriesType ==
    ASSUME IInv, NEW p \in Procs
    PROVE  /\ retryCount[p] \in Nat /\ MaxRetries \in Nat
           /\ pc[p] # "done" => retryCount[p] < MaxRetries
  BY ConstantsAssumption DEF IInv, RequestsInv, RequestsType, LoopInv

\* A request no step touches.
LEMMA Untouched ==
    ASSUME OrdersInv, NEW q \in Procs, job' = job, pc'[q] = pc[q], line'[q] = line[q],
           details'[q] = details[q], reply'[q] = reply[q], retryCount'[q] = retryCount[q],
           OrdersOf(q)' = OrdersOf(q)
    PROVE  Collected(q)' /\ Counted(q)'
  BY DEF OrdersInv, Collected, Counted, Extra, Kind, Tickets

\* A step of one request that commits no order.
LEMMA NoOrder ==
    ASSUME OrdersInv, NEW p \in Procs, UNCHANGED <<job, orders>>,
           \A q \in Procs \ {p} : /\ pc'[q] = pc[q] /\ line'[q] = line[q]
                                  /\ details'[q] = details[q] /\ reply'[q] = reply[q]
                                  /\ retryCount'[q] = retryCount[q],
           Collected(p)', Counted(p)'
    PROVE  OrdersInv'
  <1>1. OrderEndsWithRequest'
    BY DEF OrdersInv, OrderEndsWithRequest, Tickets
  <1>2. \A q \in Procs : OrdersOf(q)' = OrdersOf(q)
    BY DEF OrdersOf
  <1>3. \A q \in Procs \ {p} : Collected(q)' /\ Counted(q)'
    BY <1>2, Untouched
  <1>4. QED  BY <1>1, <1>3 DEF OrdersInv

\* An attempt that fails for good, or is over.
LEMMA AnswerOrders ==
    ASSUME IInv, OrdersInv, NEW p \in Procs, pc[p] # "done",
           NEW r \in {"ok", "rejected", "failed"}, Answer(p, r),
           UNCHANGED <<job, orders, line, details, retryCount>>,
           r = "ok" \/ pc[p] # "awaiting"
    PROVE  OrdersInv'
  <1>1. /\ pc'[p] = "done" /\ reply'[p] = r /\ reply[p] = "none"
        /\ \A q \in Procs \ {p} : pc'[q] = pc[q] /\ reply'[q] = reply[q]
    BY DEF Answer, IInv, RequestsInv, RequestsType, OrdersInv, Counted
  <1>2. Collected(p)'
    BY <1>1 DEF Collected, InTransaction
  <1>3. Counted(p)'
    <2>1. Extra(p) <= Extra(p)' /\ Extra(p) \in Nat /\ Extra(p)' \in Nat
      BY <1>1 DEF Extra
    <2>2. Cardinality(OrdersOf(p)) \in Nat /\ OrdersOf(p)' = OrdersOf(p) /\ retryCount[p] \in Nat
      BY OrdersOfFinite, RetriesType DEF OrdersOf
    <2>3. /\ Cardinality(OrdersOf(p)) <= retryCount[p] + Extra(p)
          /\ Cardinality(OrdersOf(p)) <= MaxRetries
      BY DEF OrdersInv, Counted
    <2>4. Cardinality(OrdersOf(p)) <= retryCount[p] + Extra(p)'
      BY <2>1, <2>2, <2>3
    <2>5. QED  BY <1>1, <2>2, <2>3, <2>4 DEF Counted
  <1>4. QED  BY <1>1, <1>2, <1>3, NoOrder

\* An attempt that fails and is counted: the next one starts at the first line,
\* behind what is in details.
LEMMA RetryOrders ==
    ASSUME IInv, OrdersInv, NEW p \in Procs, pc[p] # "done", RetryOrFail(p)
    PROVE  OrdersInv'
  <1>1. /\ UNCHANGED <<job, orders, details>>
        /\ retryCount'[p] = retryCount[p] + 1
        /\ reply'[p] \in {"none", "failed"}
        /\ \/ pc'[p] = "done"
           \/ pc'[p] = LoopPc(p, 1) /\ line'[p] = 1 /\ reply'[p] = reply[p]
        /\ \A q \in Procs \ {p} : /\ pc'[q] = pc[q] /\ line'[q] = line[q]
                                  /\ reply'[q] = reply[q] /\ retryCount'[q] = retryCount[q]
    BY DEF RetryOrFail, Answer, bookVars, loopVars, IInv, RequestsInv, RequestsType, OrdersInv,
       Counted
  <1>2. Len(Tickets(p)) \in Nat /\ Len(details[p]) \in Nat /\ Tickets(p)' = Tickets(p)
    BY <1>1 DEF IInv, RequestsInv, RequestsType, Tickets, Job
  <1>3. Collected(p)'
    <2>1. CASE pc'[p] = "done"
      BY <2>1 DEF Collected, InTransaction
    <2>2. CASE pc'[p] = LoopPc(p, 1) /\ line'[p] = 1
      <3>1. pc'[p] = "commit" => line'[p] = Len(Tickets(p)) + 1
        BY <1>2, <2>2 DEF LoopPc
      <3>2. EndsWith(details[p], Tickets(p), 0)
        BY <1>2 DEF EndsWith
      <3>3. QED  BY <1>1, <1>2, <2>2, <3>1, <3>2 DEF Collected
    <2>3. QED  BY <1>1, <2>1, <2>2
  <1>4. Counted(p)'
    <2>1. reply[p] = "none"
      BY DEF OrdersInv, Counted
    <2>2. Cardinality(OrdersOf(p)) \in Nat /\ OrdersOf(p)' = OrdersOf(p) /\ retryCount[p] \in Nat
      BY <1>1, OrdersOfFinite, RetriesType DEF OrdersOf
    <2>3. /\ Cardinality(OrdersOf(p)) <= retryCount[p] + Extra(p)
          /\ Cardinality(OrdersOf(p)) <= MaxRetries
      BY DEF OrdersInv, Counted
    <2>4. Extra(p) \in {0, 1} /\ Extra(p)' \in {0, 1}
      BY DEF Extra
    <2>5. Cardinality(OrdersOf(p)) <= retryCount'[p] + Extra(p)'
      BY <1>1, <2>2, <2>3, <2>4
    <2>6. pc'[p] # "done" => reply'[p] = "none"
      BY <1>1, <2>1
    <2>7. QED  BY <2>2, <2>3, <2>5, <2>6 DEF Counted
  <1>5. QED  BY <1>1, <1>3, <1>4, NoOrder

\* A statement of the transaction fails, or its result is refused.
LEMMA FailureOrders ==
    ASSUME IInv, OrdersInv, NEW p \in Procs, pc[p] \in InTransaction,
           Throw(p, "failed") \/ Throw(p, "rejected") \/ Throw(p, "ok") \/ RetryOrFail(p)
    PROVE  OrdersInv'
  <1>1. pc[p] # "done" /\ pc[p] # "awaiting"
    BY DEF InTransaction
  <1>2. CASE RetryOrFail(p)
    BY <1>1, <1>2, RetryOrders
  <1>3. CASE Throw(p, "failed") \/ Throw(p, "rejected") \/ Throw(p, "ok")
    <2>1. PICK r \in {"ok", "rejected", "failed"} : Throw(p, r)
      BY <1>3
    <2>2. Answer(p, r) /\ UNCHANGED <<job, orders, line, details, retryCount>>
      BY <2>1 DEF Throw, bookVars, loopVars
    <2>3. QED  BY <1>1, <2>2, AnswerOrders
  <1>4. QED  BY <1>2, <1>3

\* A statement that goes on with the same ticket.
LEMMA SameTicketOrders ==
    ASSUME IInv, OrdersInv, NEW p \in Procs, pc[p] \in {"read", "check", "diff"},
           NEW next \in {"check", "diff", "write"}, pc' = [pc EXCEPT ![p] = next],
           UNCHANGED <<job, orders, line, details, reply, retryCount>>
    PROVE  OrdersInv'
  <1>1. pc'[p] = next /\ \A q \in Procs \ {p} : pc'[q] = pc[q]
    BY DEF IInv, RequestsInv, RequestsType
  <1>2. Collected(p)'
    BY <1>1 DEF OrdersInv, Collected, InTransaction, Kind, Tickets
  <1>3. Counted(p)'
    BY <1>1 DEF OrdersInv, Counted, Extra, OrdersOf
  <1>4. QED  BY <1>1, <1>2, <1>3, NoOrder

\* The ticket is saved: it becomes the last line.
LEMMA NextTicketOrders ==
    ASSUME IInv, OrdersInv, NEW p \in Procs, pc[p] = "write", NextTicket(p)
    PROVE  OrdersInv'
  <1> DEFINE n == line[p]
             req == Tickets(p)
             old == details[p]
             new == [category |-> Target(p), quantity |-> Ticket(p).quantity,
                     price |-> entity[p].price]
  <1>1. /\ n \in 1..Len(req) /\ Len(req) \in Nat /\ old \in Seq(DetailLines) /\ Len(old) \in Nat
        /\ new.category = req[n].category /\ new.quantity = req[n].quantity
    BY DEF IInv, RequestsInv, RequestsType, LoopInv, Tickets, Job, Target, Ticket
  <1>2. /\ UNCHANGED <<job, orders, reply, retryCount>>
        /\ pc'[p] = LoopPc(p, n + 1) /\ line'[p] = n + 1
        /\ Kind(p) # "ticket" => details'[p] = Append(old, new)
        /\ \A q \in Procs \ {p} : /\ pc'[q] = pc[q] /\ line'[q] = line[q]
                                  /\ details'[q] = details[q]
    BY DEF NextTicket, bookVars, loopVars, IInv, RequestsInv, RequestsType
  <1>3. Kind(p)' = Kind(p) /\ Tickets(p)' = req
    BY <1>2 DEF Kind, Tickets
  <1>4. pc'[p] \in {"read", "commit"} /\ (pc'[p] = "commit" => n + 1 = Len(req) + 1)
    BY <1>1, <1>2 DEF LoopPc
  <1>5. ASSUME Kind(p) # "ticket"
        PROVE  EndsWith(details'[p], req, n)
    <2> DEFINE lines == details'[p]
    <2>1. EndsWith(old, req, n - 1)
      BY <1>5 DEF OrdersInv, Collected, InTransaction
    <2>2. lines = Append(old, new)
      BY <1>2, <1>5
    <2> HIDE DEF lines, new, old, req, n
    <2>3. /\ Len(lines) = Len(old) + 1 /\ lines[Len(old) + 1] = new
          /\ \A i \in 1..Len(old) : lines[i] = old[i]
      BY <1>1, <2>2
    <2>4. Len(lines) - n >= 0
      BY <1>1, <2>1, <2>3 DEF EndsWith
    <2>5. ASSUME NEW k \in 1..n
          PROVE  /\ lines[Len(lines) - n + k].category = req[k].category
                 /\ lines[Len(lines) - n + k].quantity = req[k].quantity
      <3>1. CASE k = n
        <4>1. Len(lines) - n + k = Len(old) + 1
          BY <1>1, <2>3, <3>1
        <4>2. QED  BY <1>1, <2>3, <3>1, <4>1
      <3>2. CASE k # n
        <4>1. k \in 1..(n - 1) /\ Len(lines) - n + k = Len(old) - (n - 1) + k
          BY <1>1, <2>3, <3>2
        <4>2. Len(old) - (n - 1) + k \in 1..Len(old)
          BY <1>1, <2>1, <4>1 DEF EndsWith
        <4>3. QED  BY <2>1, <2>3, <4>1, <4>2 DEF EndsWith
      <3>3. QED  BY <3>1, <3>2
    <2>6. QED  BY <2>4, <2>5 DEF EndsWith, lines
  <1>6. Collected(p)'
    <2>1. line'[p] - 1 = n
      BY <1>1, <1>2
    <2>2. QED  BY <1>2, <1>3, <1>4, <1>5, <2>1 DEF Collected
  <1>7. Counted(p)'
    BY <1>2, <1>4 DEF OrdersInv, Counted, Extra, OrdersOf
  <1>8. QED  BY <1>2, <1>6, <1>7, NoOrder

\* The order is committed: it is made of the lines collected, and the attempt
\* waits for the gateway or is over.
LEMMA CommitOrders ==
    ASSUME IInv, OrdersInv, NEW p \in Procs, pc[p] = "commit", Kind(p) # "ticket",
           orders' = Append(orders, NewOrder(p)),
           \/ pc' = [pc EXCEPT ![p] = "awaiting"] /\ reply' = reply
           \/ Answer(p, "ok"),
           UNCHANGED <<job, line, details, retryCount>>
    PROVE  OrdersInv'
  <1> DEFINE n == Len(orders) + 1
  <1>1. /\ Len(orders) \in Nat /\ n \in Nat /\ DOMAIN orders = 1..Len(orders)
        /\ DOMAIN orders' = DOMAIN orders \cup {n} /\ n \notin DOMAIN orders
        /\ orders'[n] = NewOrder(p) /\ \A i \in DOMAIN orders : orders'[i] = orders[i]
    BY DEF IInv, BooksType
  <1>2. NewOrder(p).by = p /\ NewOrder(p).lines = details[p]
    BY DEF NewOrder
  <1>3. /\ pc'[p] # "commit" /\ pc'[p] \notin InTransaction
        /\ pc'[p] # "done" => reply'[p] = "none"
        /\ pc'[p] = "awaiting" \/ reply'[p] = "ok"
        /\ \A q \in Procs \ {p} : pc'[q] = pc[q] /\ reply'[q] = reply[q]
    BY DEF Answer, IInv, RequestsInv, RequestsType, OrdersInv, Counted, InTransaction
  <1>4. Extra(p) = 0 /\ Extra(p)' = 1
    BY <1>3 DEF Extra, OrdersInv, Counted
  <1> HIDE DEF n
  <1>5. \A q \in Procs : OrdersOf(q)' = IF q = p THEN OrdersOf(q) \cup {n} ELSE OrdersOf(q)
    BY <1>1, <1>2 DEF OrdersOf
  <1>6. OrderEndsWithRequest'
    <2>1. line[p] = Len(Tickets(p)) + 1 /\ EndsWith(details[p], Tickets(p), line[p] - 1)
      BY DEF OrdersInv, Collected, InTransaction
    <2>2. Len(Tickets(p)) \in Nat /\ DOMAIN Tickets(p) = 1..Len(Tickets(p))
      BY DEF IInv, RequestsInv, RequestsType, Tickets, Job
    <2>3. EndsWith(details[p], Tickets(p), Len(Tickets(p)))
      BY <2>1, <2>2
    <2> DEFINE Whole(o) == /\ EndsWith(o.lines, Tickets(o.by), Len(Tickets(o.by)))
                           /\ DOMAIN Tickets(o.by) = 1..Len(Tickets(o.by))
    <2>4. ASSUME NEW i \in DOMAIN orders
          PROVE  Whole(orders[i])
      <3>1. orders[i] \in Order
        BY DEF IInv, BooksType
      <3>2. orders[i].by \in Procs
        BY <3>1 DEF Order
      <3>3. DOMAIN Tickets(orders[i].by) = 1..Len(Tickets(orders[i].by))
        BY <3>2 DEF IInv, RequestsInv, RequestsType, Tickets, Job
      <3>4. QED  BY <3>3 DEF OrdersInv, OrderEndsWithRequest, EndsWith
    <2>5. ASSUME NEW i \in DOMAIN orders'
          PROVE  Whole(orders'[i])
      <3>1. CASE i = n
        <4>1. orders'[i].by = p /\ orders'[i].lines = details[p]
          BY <1>1, <1>2, <3>1
        <4>2. QED  BY <2>2, <2>3, <4>1
      <3>2. CASE i # n
        <4>1. i \in DOMAIN orders /\ orders'[i] = orders[i]
          BY <1>1, <3>2
        <4> HIDE DEF Whole
        <4>2. QED  BY <2>4, <4>1
      <3>3. QED  BY <3>1, <3>2
    <2> DEFINE req(i) == job'[orders'[i].by].tickets
               at(i, k) == orders'[i].lines[Len(orders'[i].lines) - Len(req(i)) + k]
    <2>6. ASSUME NEW i \in DOMAIN orders'
          PROVE  /\ Len(orders'[i].lines) - Len(req(i)) >= 0
                 /\ \A k \in DOMAIN req(i) : /\ at(i, k).category = req(i)[k].category
                                             /\ at(i, k).quantity = req(i)[k].quantity
      <3>1. PICK r : r = req(i)
        OBVIOUS
      <3>2. PICK lines : lines = orders'[i].lines
        OBVIOUS
      <3>3. r = Tickets(orders'[i].by)
        BY <3>1 DEF Tickets
      <3>4. EndsWith(lines, r, Len(r)) /\ DOMAIN r = 1..Len(r)
        BY <2>5, <3>2, <3>3
      <3>5. /\ Len(lines) - Len(r) >= 0
            /\ \A k \in DOMAIN r : /\ lines[Len(lines) - Len(r) + k].category = r[k].category
                                   /\ lines[Len(lines) - Len(r) + k].quantity = r[k].quantity
        BY <3>4 DEF EndsWith
      <3>6. QED  BY <3>1, <3>2, <3>5
    <2>7. QED  BY <2>6 DEF OrderEndsWithRequest, Tickets
  <1>7. Collected(p)'
    BY <1>3 DEF Collected
  <1>8. Counted(p)'
    <2>1. /\ IsFiniteSet(OrdersOf(p)) /\ Cardinality(OrdersOf(p)) \in Nat
          /\ retryCount[p] \in Nat /\ MaxRetries \in Nat /\ retryCount[p] < MaxRetries
      BY OrdersOfFinite, RetriesType
    <2>2. n \notin OrdersOf(p)
      BY <1>1 DEF OrdersOf
    <2>3. Cardinality(OrdersOf(p) \cup {n}) = Cardinality(OrdersOf(p)) + 1
      BY <2>1, <2>2, FS_AddElement
    <2>4. Cardinality(OrdersOf(p)) <= retryCount[p]
      BY <1>4, <2>1 DEF OrdersInv, Counted
    <2>5. Cardinality(OrdersOf(p)') = Cardinality(OrdersOf(p)) + 1
      BY <1>5, <2>3
    <2>6. QED  BY <1>3, <1>4, <2>1, <2>4, <2>5 DEF Counted
  <1>9. \A q \in Procs \ {p} : Collected(q)' /\ Counted(q)'
    BY <1>3, <1>5, Untouched
  <1>10. QED  BY <1>6, <1>7, <1>8, <1>9 DEF OrdersInv

LEMMA StepOrders ==
    ASSUME IInv, OrdersInv, NEW p \in Procs, Step(p)
    PROVE  OrdersInv'
  <1>1. CASE ReadCategory(p)
    <2>1. CASE Throw(p, "rejected")
      BY <1>1, <2>1, FailureOrders DEF ReadCategory, InTransaction
    <2>2. CASE ~Throw(p, "rejected")
      BY <1>1, <2>2, SameTicketOrders DEF ReadCategory, bookVars, loopVars
    <2>3. QED  BY <2>1, <2>2
  <1>2. CASE CheckAndDecrement(p)
    <2>1. CASE Throw(p, "rejected") \/ RetryOrFail(p)
      BY <1>2, <2>1, FailureOrders DEF CheckAndDecrement, InTransaction
    <2>2. CASE ~(Throw(p, "rejected") \/ RetryOrFail(p))
      BY <1>2, <2>2, SameTicketOrders DEF CheckAndDecrement, bookVars, loopVars
    <2>3. QED  BY <2>1, <2>2
  <1>3. CASE SelectForSave(p)
    BY <1>3, SameTicketOrders DEF SelectForSave, bookVars, loopVars
  <1>4. CASE WriteRow(p) \/ SkipWrite(p)
    BY <1>4, NextTicketOrders DEF WriteRow, SkipWrite
  <1>5. CASE CommitOrder(p)
    <2>1. CASE RegisterTaken(p)
      BY <1>5, <2>1, FailureOrders DEF CommitOrder, StatementError, InTransaction
    <2>2. CASE ~RegisterTaken(p)
      BY <1>5, <2>2, CommitOrders DEF CommitOrder, loopVars
    <2>3. QED  BY <2>1, <2>2
  <1>6. CASE CommitAdminOrder(p)
    BY <1>6, CommitOrders DEF CommitAdminOrder, loopVars
  <1>7. CASE AdminOrderFails(p)
    BY <1>7, FailureOrders DEF AdminOrderFails, StatementError, InTransaction
  <1>8. CASE CommitTicket(p)
    BY <1>8, FailureOrders DEF CommitTicket, InTransaction
  <1>9. CASE ReceiveUrl(p)
    BY <1>9, AnswerOrders DEF ReceiveUrl, bookVars, loopVars
  <1>10. CASE ReceiveError(p)
    BY <1>10, RetryOrders DEF ReceiveError
  <1>11. QED
    BY <1>1, <1>2, <1>3, <1>4, <1>5, <1>6, <1>7, <1>8, <1>9, <1>10 DEF Step

\* What neither commits an order nor moves a request.
LEMMA AsideOrders ==
    ASSUME OrdersInv, UNCHANGED <<job, orders, pc, line, details, reply, retryCount>>
    PROVE  OrdersInv'
  <1>1. OrderEndsWithRequest'
    BY DEF OrdersInv, OrderEndsWithRequest, Tickets
  <1>2. \A q \in Procs : Collected(q)' /\ Counted(q)'
    BY Untouched DEF OrdersOf
  <1>3. QED  BY <1>1, <1>2 DEF OrdersInv

LEMMA CrashOrders ==
    ASSUME IInv, OrdersInv, Crash
    PROVE  OrdersInv'
  <1>1. OrderEndsWithRequest'
    BY DEF Crash, bookVars, OrdersInv, OrderEndsWithRequest, Tickets
  <1>2. ASSUME NEW q \in Procs
        PROVE  Collected(q)' /\ Counted(q)'
    <2>1. pc'[q] = "done" /\ reply'[q] = IF pc[q] = "done" THEN reply[q] ELSE "crashed"
      BY DEF Crash
    <2>2. OrdersOf(q)' = OrdersOf(q) /\ retryCount'[q] = retryCount[q]
      BY DEF Crash, bookVars, OrdersOf
    <2>3. Extra(q) <= Extra(q)' /\ Extra(q) \in {0, 1} /\ Extra(q)' \in {0, 1}
      BY <2>1 DEF Extra
    <2>4. /\ Cardinality(OrdersOf(q)) <= retryCount[q] + Extra(q)
          /\ Cardinality(OrdersOf(q)) <= MaxRetries
          /\ Cardinality(OrdersOf(q)) \in Nat /\ retryCount[q] \in Nat
      BY OrdersOfFinite, RetriesType DEF OrdersInv, Counted
    <2>5. Cardinality(OrdersOf(q)) <= retryCount[q] + Extra(q)'
      BY <2>3, <2>4
    <2>6. Collected(q)'
      BY <2>1 DEF Collected, InTransaction
    <2>7. Counted(q)'
      BY <2>1, <2>2, <2>4, <2>5 DEF Counted
    <2>8. QED  BY <2>6, <2>7
  <1>3. QED  BY <1>1, <1>2 DEF OrdersInv

LEMMA NextOrders ==
    ASSUME IInv, OrdersInv, [Next]_vars
    PROVE  OrdersInv'
  <1>1. CASE \E p \in Procs : Step(p)
    BY <1>1, StepOrders
  <1>2. CASE \/ \E p \in Procs : Gateway(p) \/ CallLost(p)
             \/ \E c \in Categories, patch \in Patches : UpdateTicketCategory(c, patch)
             \/ Terminating \/ UNCHANGED vars
    BY <1>2, AsideOrders DEF Gateway, GatewayCreatesSession, GatewayFails, CallLost, AnswerRpc,
       UpdateTicketCategory, Terminating, vars, bookVars, loopVars
  <1>3. CASE \E p \in Procs : DbFailure(p) \/ DeadlockAbort(p)
    BY <1>3, FailureOrders DEF DbFailure, DeadlockAbort, Blocked, StatementError, InTransaction
  <1>4. CASE Crash
    BY <1>4, CrashOrders
  <1>5. QED  BY <1>1, <1>2, <1>3, <1>4 DEF Next

LEMMA InitOrders == Init => OrdersInv
  <1> SUFFICES ASSUME Init  PROVE OrdersInv
    OBVIOUS
  <1>1. OrderEndsWithRequest
    BY DEF Init, OrderEndsWithRequest
  <1>2. ASSUME NEW p \in Procs
        PROVE  Collected(p) /\ Counted(p)
    <2>1. Tickets(p) \in Seq(Lines) /\ Len(Tickets(p)) \in Nat
      BY ConstantsAssumption DEF Init, Tickets, Job
    <2>2. /\ line[p] = 1 /\ details[p] = <<>> /\ reply[p] = "none" /\ retryCount[p] = 0
          /\ pc[p] = LoopPc(p, 1)
      BY DEF Init
    <2>3. pc[p] = "commit" => line[p] = Len(Tickets(p)) + 1
      BY <2>1, <2>2 DEF LoopPc
    <2>4. EndsWith(details[p], Tickets(p), line[p] - 1)
      BY <2>2 DEF EndsWith
    <2>5. OrdersOf(p) = {}
      BY DEF Init, OrdersOf
    <2>6. Cardinality(OrdersOf(p)) = 0
      BY <2>5, FS_EmptySet
    <2>7. Extra(p) = 0 /\ MaxRetries \in Nat
      BY <2>2, ConstantsAssumption DEF Extra, LoopPc
    <2>8. QED  BY <2>2, <2>3, <2>4, <2>6, <2>7 DEF Collected, Counted
  <1>3. QED  BY <1>1, <1>2 DEF OrdersInv

LEMMA OrdersInvariance == Spec => []OrdersInv
  <1>1. IInv /\ OrdersInv /\ [Next]_vars => OrdersInv'
    BY NextOrders
  <1>2. QED  BY <1>1, InitOrders, Invariance, PTL DEF Spec

-----------------------------------------------------------------------------
\* Whatever the attempts before it left in ticketDetails, an order contains the
\* whole of its request (orders.service.ts:222,264-274).
THEOREM OrdersAreWhole == Spec => []OrderEndsWithRequest
  <1>1. OrdersInv => OrderEndsWithRequest
    BY DEF OrdersInv
  <1>2. QED  BY <1>1, OrdersInvariance, PTL

\* No request leaves more orders than it made attempts, nor more than
\* MAX_RETRIES (orders.service.ts:224,368-373).
THEOREM OrdersAreCounted == Spec => []OrdersBoundedByAttempts
  <1>1. OrdersInv => OrdersBoundedByAttempts
    BY DEF OrdersInv, Counted, Extra, OrdersBoundedByAttempts
  <1>2. QED  BY <1>1, OrdersInvariance, PTL

-----------------------------------------------------------------------------
(* What the orders cost                                                      *)

\* The fold is a sum, whatever order it chooses.
LEMMA AmountIs ==
    ASSUME NEW ls \in Seq(DetailLines)
    PROVE  Amount(ls) = Sum([i \in DOMAIN ls |-> ls[i].quantity * ls[i].price], DOMAIN ls)
  <1>1. PICK g : g = [i \in DOMAIN ls |-> ls[i].quantity * ls[i].price]
    OBVIOUS
  <1>2. PICK f : f = CHOOSE h :
                       h = [s \in SUBSET DOMAIN ls |->
                              IF s = {} THEN 0
                              ELSE h[s \ {CHOOSE x \in s : TRUE}]
                                     + ls[CHOOSE x \in s : TRUE].quantity
                                       * ls[CHOOSE x \in s : TRUE].price]
    OBVIOUS
  <1>3. Amount(ls) = f[DOMAIN ls]
    BY <1>2 DEF Amount, FoldFunction, FoldFunctionOnSet, MapThenFoldSet
  <1>4. IsFiniteSet(DOMAIN ls)
    <2>1. DOMAIN ls = 1..Len(ls) /\ Len(ls) \in Nat
      OBVIOUS
    <2>2. QED  BY <2>1, FS_Interval
  <1> DEFINE Folds(h) ==
        h = [s \in SUBSET DOMAIN ls |->
               IF s = {} THEN 0
               ELSE h[s \ {Pick(s)}] + ls[Pick(s)].quantity * ls[Pick(s)].price]
  <1>5. f = CHOOSE h : Folds(h)
    BY <1>2, Zenon DEF Pick
  <1>6. ASSUME NEW h
        PROVE  Folds(h) <=> Adds(h, g, DOMAIN ls)
    <2>1. ASSUME NEW s \in SUBSET DOMAIN ls, s # {}
          PROVE  g[Pick(s)] = ls[Pick(s)].quantity * ls[Pick(s)].price
      BY <1>1, <2>1, PickIsIn
    <2>2. QED  BY <2>1 DEF Adds
  <1>7. PICK h : Adds(h, g, DOMAIN ls)
    BY <1>4, FoldExists
  <1>8. Folds(h)
    BY <1>6, <1>7
  <1>9. Folds(f)
    <2> HIDE DEF Folds
    <2>1. QED  BY <1>5, <1>8, Zenon
  <1>10. Adds(f, g, DOMAIN ls)
    BY <1>6, <1>9
  <1>11. f[DOMAIN ls] = Sum(g, DOMAIN ls)
    BY <1>4, <1>10, FoldIsSum
  <1>12. QED  BY <1>1, <1>3, <1>11

\* Pushing a line adds its price.
LEMMA AmountGrows ==
    ASSUME NEW ls \in Seq(DetailLines), NEW l \in DetailLines
    PROVE  Amount(Append(ls, l)) = Amount(ls) + l.quantity * l.price
  <1>1. PICK S : S = 1..Len(ls)
    OBVIOUS
  <1>2. DOMAIN ls = S /\ IsFiniteSet(S) /\ Len(ls) \in Nat
    BY <1>1, FS_Interval
  <1>3. PICK g : g = [i \in DOMAIN ls |-> ls[i].quantity * ls[i].price]
    OBVIOUS
  <1>4. \A k \in DetailLines : k.quantity * k.price \in Nat
    BY ProductNat DEF DetailLines
  <1>5. \A i \in S : ls[i] \in DetailLines
    BY <1>1
  <1>6. \A i \in S : g[i] \in Int
    BY <1>2, <1>3, <1>4, <1>5
  <1>7. Amount(ls) = Sum(g, S)
    BY <1>2, <1>3, AmountIs
  <1>8. PICK n : n = Len(ls) + 1
    OBVIOUS
  <1>9. PICK as : as = Append(ls, l)
    OBVIOUS
  <1>10. /\ as \in Seq(DetailLines) /\ DOMAIN as = S \cup {n} /\ n \notin S
         /\ as[n] = l /\ \A i \in S : as[i] = ls[i]
    BY <1>1, <1>2, <1>8, <1>9
  <1>11. PICK g1 : g1 = [i \in DOMAIN as |-> as[i].quantity * as[i].price]
    OBVIOUS
  <1>12. Amount(as) = Sum(g1, S \cup {n})
    BY <1>10, <1>11, AmountIs
  <1>13. (\A i \in S : g1[i] = g[i]) /\ g1[n] = l.quantity * l.price
    BY <1>2, <1>3, <1>10, <1>11
  <1>14. \A x \in S \cup {n} : g1[x] \in Int
    BY <1>4, <1>6, <1>13
  <1>15. Sum(g1, S \cup {n}) = Sum(g1, S) + g1[n]
    <2>1. n \notin S /\ IsFiniteSet(S)
      BY <1>2, <1>10
    <2>2. QED  BY <1>14, <2>1, SumWith
  <1>16. Sum(g1, S) = Sum(g, S)
    BY <1>2, <1>13, SumSame
  <1>17. QED  BY <1>7, <1>9, <1>12, <1>13, <1>15, <1>16

LEMMA AmountOfNothing == Amount(<<>>) = 0
  <1>1. <<>> \in Seq(DetailLines) /\ DOMAIN <<>> = {}
    OBVIOUS
  <1>2. QED  BY <1>1, AmountIs, SumEmpty

\* The accumulators of every request agree, and so do the orders made of them.
TotalsInv == OrderTotalAddsUp /\ \A p \in Procs : total[p] = Amount(details[p])

LEMMA SameTotals ==
    ASSUME IInv, TotalsInv, UNCHANGED loopVars,
           orders' = orders \/ \E p \in Procs : orders' = Append(orders, NewOrder(p))
    PROVE  TotalsInv'
  <1>1. total' = total /\ details' = details
    BY DEF loopVars
  <1>2. \A p \in Procs : total'[p] = Amount(details'[p])
    BY <1>1 DEF TotalsInv
  <1>3. ASSUME NEW i \in DOMAIN orders'
        PROVE  orders'[i].total = Amount(orders'[i].lines)
    <2>1. CASE i \in DOMAIN orders
      <3>1. orders'[i] = orders[i]
        BY <2>1 DEF IInv, BooksType
      <3>2. QED  BY <2>1, <3>1 DEF TotalsInv, OrderTotalAddsUp
    <2>2. CASE i \notin DOMAIN orders
      <3>1. PICK p \in Procs : orders' = Append(orders, NewOrder(p))
        BY <1>3, <2>2
      <3>2. orders'[i] = NewOrder(p)
        BY <1>3, <2>2, <3>1 DEF IInv, BooksType
      <3>3. QED  BY <3>2 DEF NewOrder, TotalsInv
    <2>3. QED  BY <2>1, <2>2
  <1>4. QED  BY <1>2, <1>3 DEF TotalsInv, OrderTotalAddsUp

LEMMA NextTicketTotals ==
    ASSUME IInv, TotalsInv, NEW p \in Procs, pc[p] = "write", NextTicket(p)
    PROVE  TotalsInv'
  <1>1. orders' = orders
    BY DEF NextTicket, bookVars
  <1>2. CASE Kind(p) = "ticket"
    BY <1>1, <1>2, SameTotals DEF NextTicket
  <1>3. CASE Kind(p) # "ticket"
    <2>1. PICK l : l = [category |-> Target(p), quantity |-> Ticket(p).quantity,
                        price |-> entity[p].price]
      OBVIOUS
    <2>2. l \in DetailLines
      <3>1. Ticket(p) \in Lines
        BY TicketOK DEF IInv
      <3>2. entity[p].price \in Nat
        BY DEF IInv, RequestsInv, RequestsType, TicketCategory
      <3>3. QED  BY <2>1, <3>1, <3>2 DEF DetailLines, Lines, Target
    <2>3. /\ total' = [total EXCEPT ![p] = @ + entity[p].price * Ticket(p).quantity]
          /\ details' = [details EXCEPT ![p] = Append(@, l)]
      BY <1>3, <2>1 DEF NextTicket
    <2>4. details \in [Procs -> Seq(DetailLines)] /\ total \in [Procs -> Nat]
      BY DEF IInv, RequestsInv, RequestsType
    <2>5. Amount(Append(details[p], l)) = Amount(details[p]) + l.quantity * l.price
      BY <2>2, <2>4, AmountGrows
    <2>6. l.quantity * l.price = entity[p].price * Ticket(p).quantity
      <3>1. \A m, n \in Nat : m * n = n * m
        OBVIOUS
      <3>2. l.quantity \in Nat /\ l.price \in Nat
        BY <2>2 DEF DetailLines
      <3>3. l.quantity = Ticket(p).quantity /\ l.price = entity[p].price
        BY <2>1
      <3>4. QED  BY <3>1, <3>2, <3>3
    <2>7. ASSUME NEW q \in Procs
          PROVE  total'[q] = Amount(details'[q])
      BY <2>3, <2>4, <2>5, <2>6 DEF TotalsInv
    <2>8. QED  BY <1>1, <2>7 DEF TotalsInv, OrderTotalAddsUp
  <1>4. QED  BY <1>2, <1>3

LEMMA NextTotals ==
    ASSUME IInv, TotalsInv, [Next]_vars
    PROVE  TotalsInv'
  <1>1. ASSUME NEW p \in Procs, StatementError(p)
        PROVE  TotalsInv'
    BY <1>1, SameTotals DEF StatementError, Throw, RetryOrFail, bookVars
  <1>2. ASSUME NEW p \in Procs, Step(p)
        PROVE  TotalsInv'
    <2>1. CASE ReadCategory(p)
      BY <2>1, SameTotals DEF ReadCategory, Throw, bookVars
    <2>2. CASE CheckAndDecrement(p)
      BY <2>2, SameTotals DEF CheckAndDecrement, Throw, RetryOrFail, bookVars
    <2>3. CASE SelectForSave(p)
      BY <2>3, SameTotals DEF SelectForSave, bookVars
    <2>4. CASE WriteRow(p) \/ SkipWrite(p)
      BY <2>4, NextTicketTotals DEF WriteRow, SkipWrite
    <2>5. CASE CommitOrder(p)
      BY <1>1, <2>5, SameTotals DEF CommitOrder
    <2>6. CASE CommitAdminOrder(p)
      BY <2>6, SameTotals DEF CommitAdminOrder
    <2>7. CASE AdminOrderFails(p)
      BY <1>1, <2>7 DEF AdminOrderFails
    <2>8. CASE CommitTicket(p)
      BY <2>8, SameTotals DEF CommitTicket, Throw, bookVars
    <2>9. CASE ReceiveUrl(p)
      BY <2>9, SameTotals DEF ReceiveUrl, bookVars
    <2>10. CASE ReceiveError(p)
      BY <2>10, SameTotals DEF ReceiveError, RetryOrFail, bookVars
    <2>11. QED
      BY <1>2, <2>1, <2>2, <2>3, <2>4, <2>5, <2>6, <2>7, <2>8, <2>9, <2>10 DEF Step
  <1>3. CASE \E p \in Procs : Gateway(p) \/ CallLost(p)
    BY <1>3, SameTotals DEF Gateway, GatewayCreatesSession, GatewayFails, CallLost, AnswerRpc
  <1>4. CASE \E p \in Procs : DbFailure(p) \/ DeadlockAbort(p)
    BY <1>1, <1>4 DEF DbFailure, DeadlockAbort
  <1>5. CASE \E c \in Categories, patch \in Patches : UpdateTicketCategory(c, patch)
    BY <1>5, SameTotals DEF UpdateTicketCategory, bookVars
  <1>6. CASE Crash \/ Terminating \/ UNCHANGED vars
    BY <1>6, SameTotals DEF Crash, Terminating, vars, bookVars
  <1>7. QED  BY <1>2, <1>3, <1>4, <1>5, <1>6 DEF Next

\* However many attempts fed the two accumulators, the total of an order is the
\* sum of its lines (orders.service.ts:220-222,262-276).
THEOREM OrdersAddUp == Spec => []OrderTotalAddsUp
  <1>1. Init => TotalsInv
    BY AmountOfNothing DEF Init, TotalsInv, OrderTotalAddsUp
  <1>2. IInv /\ TotalsInv /\ [Next]_vars => TotalsInv'
    BY NextTotals
  <1>3. TotalsInv => OrderTotalAddsUp
    BY DEF TotalsInv
  <1>4. QED  BY <1>1, <1>2, <1>3, Invariance, PTL DEF Spec

-----------------------------------------------------------------------------
(* What was sold                                                             *)

\* What the lines of a request ask of a category.
Share(ls, c) == [i \in DOMAIN ls |-> IF ls[i].category = c THEN ls[i].quantity ELSE 0]

LEMMA TakenIs ==
    ASSUME NEW ls \in Seq(Lines), NEW c
    PROVE  Taken(ls, c) = Sum(Share(ls, c), DOMAIN ls)
  <1>1. PICK g : g = Share(ls, c)
    OBVIOUS
  <1>2. PICK f : f = CHOOSE h :
                       h = [s \in SUBSET DOMAIN ls |->
                              IF s = {} THEN 0
                              ELSE h[s \ {CHOOSE x \in s : TRUE}]
                                     + IF ls[CHOOSE x \in s : TRUE].category = c
                                          THEN ls[CHOOSE x \in s : TRUE].quantity ELSE 0]
    OBVIOUS
  <1>3. Taken(ls, c) = f[DOMAIN ls]
    BY <1>2 DEF Taken, FoldFunction, FoldFunctionOnSet, MapThenFoldSet
  <1>4. IsFiniteSet(DOMAIN ls)
    <2>1. DOMAIN ls = 1..Len(ls) /\ Len(ls) \in Nat
      OBVIOUS
    <2>2. QED  BY <2>1, FS_Interval
  <1> DEFINE Folds(h) ==
        h = [s \in SUBSET DOMAIN ls |->
               IF s = {} THEN 0
               ELSE h[s \ {Pick(s)}]
                      + IF ls[Pick(s)].category = c THEN ls[Pick(s)].quantity ELSE 0]
  <1>5. f = CHOOSE h : Folds(h)
    BY <1>2, Zenon DEF Pick
  <1>6. ASSUME NEW h
        PROVE  Folds(h) <=> Adds(h, g, DOMAIN ls)
    <2>1. ASSUME NEW s \in SUBSET DOMAIN ls, s # {}
          PROVE  g[Pick(s)] = IF ls[Pick(s)].category = c THEN ls[Pick(s)].quantity ELSE 0
      BY <1>1, <2>1, PickIsIn DEF Share
    <2>2. QED  BY <2>1 DEF Adds
  <1>7. PICK h : Adds(h, g, DOMAIN ls)
    BY <1>4, FoldExists
  <1>8. Folds(h)
    BY <1>6, <1>7
  <1>9. Folds(f)
    <2> HIDE DEF Folds
    <2>1. QED  BY <1>5, <1>8, Zenon
  <1>10. Adds(f, g, DOMAIN ls)
    BY <1>6, <1>9
  <1>11. f[DOMAIN ls] = Sum(g, DOMAIN ls)
    BY <1>4, <1>10, FoldIsSum
  <1>12. QED  BY <1>1, <1>3, <1>11

\* What the first n lines take, line by line.
TakenBefore(p, n, c) == Sum(Share(Tickets(p), c), 1..n)

LEMMA ShareIsNat ==
    ASSUME RequestsType, NEW p \in Procs, NEW c
    PROVE  /\ Tickets(p) \in Seq(Lines) /\ Len(Tickets(p)) \in Nat
           /\ DOMAIN Tickets(p) = 1..Len(Tickets(p))
           /\ \A i \in 1..Len(Tickets(p)) : Share(Tickets(p), c)[i] \in Nat
  <1>1. Tickets(p) \in Seq(Lines)
    BY DEF RequestsType, Tickets, Job
  <1>2. Len(Tickets(p)) \in Nat /\ DOMAIN Tickets(p) = 1..Len(Tickets(p))
    BY <1>1
  <1>3. \A i \in 1..Len(Tickets(p)) : Tickets(p)[i] \in Lines
    BY <1>1
  <1>4. \A l \in Lines : l.quantity \in Nat
    BY DEF Lines
  <1>5. QED  BY <1>1, <1>2, <1>3, <1>4 DEF Share

LEMMA TakenBeforeNothing ==
    ASSUME NEW p, NEW c
    PROVE  TakenBefore(p, 0, c) = 0
  <1>1. 1..0 = {}
    OBVIOUS
  <1>2. QED  BY <1>1, SumEmpty DEF TakenBefore

LEMMA TakenBeforeAll ==
    ASSUME RequestsType, NEW p \in Procs, NEW c
    PROVE  /\ TakenBefore(p, Len(Tickets(p)), c) = Taken(Tickets(p), c)
           /\ Taken(Tickets(p), c) \in Nat
  <1>1. PICK n : n = Len(Tickets(p))
    OBVIOUS
  <1>2. PICK g : g = Share(Tickets(p), c)
    OBVIOUS
  <1>3. n \in Nat /\ IsFiniteSet(1..n) /\ \A i \in 1..n : g[i] \in Nat
    <2>1. n \in Nat /\ \A i \in 1..n : g[i] \in Nat
      BY <1>1, <1>2, ShareIsNat
    <2>2. IsFiniteSet(1..n)
      BY <2>1, FS_Interval
    <2>3. QED  BY <2>1, <2>2
  <1>4. Sum(g, 1..n) \in Nat
    BY <1>3, SumIsNat
  <1>5. Taken(Tickets(p), c) = Sum(g, 1..n)
    BY <1>1, <1>2, ShareIsNat, TakenIs
  <1>6. QED  BY <1>1, <1>2, <1>4, <1>5 DEF TakenBefore

LEMMA TakenBeforeNext ==
    ASSUME RequestsType, NEW p \in Procs, NEW n \in DOMAIN Tickets(p), NEW c
    PROVE  /\ TakenBefore(p, n - 1, c) \in Nat
           /\ TakenBefore(p, n, c)
                = TakenBefore(p, n - 1, c)
                    + IF Tickets(p)[n].category = c THEN Tickets(p)[n].quantity ELSE 0
  <1>1. PICK g : g = Share(Tickets(p), c)
    OBVIOUS
  <1>2. PICK S : S = 1..(n - 1)
    OBVIOUS
  <1>3. n \in 1..Len(Tickets(p)) /\ Len(Tickets(p)) \in Nat
    BY ShareIsNat
  <1>4. S \cup {n} = 1..n /\ n \notin S /\ S \subseteq 1..Len(Tickets(p))
    BY <1>2, <1>3
  <1>5. IsFiniteSet(S)
    BY <1>2, <1>3, FS_Interval
  <1>6. \A i \in 1..Len(Tickets(p)) : g[i] \in Nat
    BY <1>1, ShareIsNat
  <1>7. (\A x \in S \cup {n} : g[x] \in Int) /\ (\A x \in S : g[x] \in Nat)
    BY <1>3, <1>4, <1>6
  <1>8. Sum(g, S \cup {n}) = Sum(g, S) + g[n]
    BY <1>4, <1>5, <1>7, SumWith
  <1>9. Sum(g, S) \in Nat
    BY <1>5, <1>7, SumIsNat
  <1>10. g[n] = IF Tickets(p)[n].category = c THEN Tickets(p)[n].quantity ELSE 0
    BY <1>1 DEF Share
  <1>11. QED  BY <1>1, <1>2, <1>4, <1>8, <1>9, <1>10 DEF TakenBefore

\* The fold over the requests is a sum.
Total(f) == FoldFunction(LAMBDA n, sum : sum + n, 0, f)

LEMMA TotalIs ==
    ASSUME NEW f, IsFiniteSet(DOMAIN f)
    PROVE  Total(f) = Sum(f, DOMAIN f)
  <1>1. PICK t : t = CHOOSE h :
                       h = [s \in SUBSET DOMAIN f |->
                              IF s = {} THEN 0
                              ELSE h[s \ {CHOOSE x \in s : TRUE}] + f[CHOOSE x \in s : TRUE]]
    OBVIOUS
  <1>2. Total(f) = t[DOMAIN f]
    BY <1>1 DEF Total, FoldFunction, FoldFunctionOnSet, MapThenFoldSet
  <1>3. t = CHOOSE h : Adds(h, f, DOMAIN f)
    BY <1>1, Zenon DEF Adds, Pick
  <1>4. Adds(t, f, DOMAIN f)
    BY <1>3, FoldExists, Zenon
  <1>5. t[DOMAIN f] = Sum(f, DOMAIN f)
    BY <1>4, FoldIsSum
  <1>6. QED  BY <1>2, <1>5

LEMMA SoldOfIsNat ==
    ASSUME IInv, NEW p \in Procs, NEW c
    PROVE  SoldOf(p, c) \in Nat
  <1>1. Taken(Tickets(p), c) \in Nat
    BY TakenBeforeAll DEF IInv, RequestsInv
  <1>2. Cardinality(OrdersOf(p)) \in Nat
    BY OrdersOfFinite
  <1>3. QED  BY <1>1, <1>2, ProductNat DEF SoldOf

LEMMA SoldMoves ==
    ASSUME IsFiniteSet(Procs), IInv, IInv', NEW c
    PROVE  /\ Sold(c) \in Nat
           /\ (\A q \in Procs : SoldOf(q, c)' = SoldOf(q, c)) => Sold(c)' = Sold(c)
           /\ \A p \in Procs, n \in Nat :
                 /\ \A q \in Procs \ {p} : SoldOf(q, c)' = SoldOf(q, c)
                 /\ SoldOf(p, c)' = SoldOf(p, c) + n
                 => Sold(c)' = Sold(c) + n
  <1>1. PICK f : f = [p \in Procs |-> SoldOf(p, c)]
    OBVIOUS
  <1>2. PICK f1 : f1 = [p \in Procs |-> SoldOf(p, c)']
    OBVIOUS
  <1>3. Sold(c) = Sum(f, Procs)
    <2>1. Sold(c) = Total(f)
      BY <1>1 DEF Sold, Total, FoldFunction, FoldFunctionOnSet, MapThenFoldSet
    <2>2. DOMAIN f = Procs
      BY <1>1
    <2>3. QED  BY <2>1, <2>2, TotalIs
  <1>4. Sold(c)' = Sum(f1, Procs)
    <2>1. Sold(c)' = Total(f1)
      BY <1>2 DEF Sold, Total, FoldFunction, FoldFunctionOnSet, MapThenFoldSet
    <2>2. DOMAIN f1 = Procs
      BY <1>2
    <2>3. QED  BY <2>1, <2>2, TotalIs
  <1>5. \A p \in Procs : f[p] \in Nat
    BY <1>1, SoldOfIsNat
  <1>6. Sum(f, Procs) \in Nat
    BY <1>5, SumIsNat
  <1>7. ASSUME \A q \in Procs : SoldOf(q, c)' = SoldOf(q, c)
        PROVE  Sold(c)' = Sold(c)
    <2>1. f = f1
      BY <1>1, <1>2, <1>7
    <2>2. QED  BY <1>3, <1>4, <2>1
  <1>8. ASSUME NEW p \in Procs, NEW n \in Nat,
               \A q \in Procs \ {p} : SoldOf(q, c)' = SoldOf(q, c),
               SoldOf(p, c)' = SoldOf(p, c) + n
        PROVE  Sold(c)' = Sold(c) + n
    <2>1. \A x \in Procs \ {p} : f[x] = f1[x]
      BY <1>1, <1>2, <1>8
    <2>2. f1[p] = f[p] + n
      BY <1>1, <1>2, <1>8
    <2>3. \A x \in Procs : f[x] \in Int /\ f1[x] \in Int
      BY <1>5, <2>1, <2>2
    <2> DEFINE S == Procs
    <2>4. Sum(f1, S) = Sum(f, S) + (f1[p] - f[p])
      <3>1. /\ IsFiniteSet(S) /\ p \in S
            /\ \A x \in S : f[x] \in Int /\ f1[x] \in Int
            /\ \A x \in S \ {p} : f[x] = f1[x]
        BY <2>1, <2>3
      <3> HIDE DEF S
      <3>2. QED  BY <3>1, SumChanges
    <2>5. f[p] \in Nat
      BY <1>5
    <2>6. QED  BY <1>3, <1>4, <1>6, <2>2, <2>4, <2>5
  <1>9. QED  BY <1>3, <1>6, <1>7, <1>8

-----------------------------------------------------------------------------
(* The ledger, when transactions do not overlap                              *)

\* What the only open transaction sees of a category is what the others left of
\* it, less the tickets it has taken so far; and what it remembers is what it
\* sees.
LedgerStep(p) ==
    /\ pc[p] \in InTransaction => \A c \in Categories :
          Visible(p, c).quantity = row[c].quantity - TakenBefore(p, line[p] - 1, c)
    /\ pc[p] = "check" => entity[p].quantity = Visible(p, Target(p)).quantity
    /\ pc[p] \in {"diff", "write"} =>
          entity[p].quantity = Visible(p, Target(p)).quantity - Ticket(p).quantity
    /\ pc[p] = "write" => "quantity" \in changed[p]
    /\ pc[p] = "commit" => line[p] = Len(Tickets(p)) + 1
    /\ pc[p] # "done" => reply[p] = "none"
    /\ pc[p] = "awaiting" => Kind(p) = "order"
    /\ \A c \in Categories : lock[c] = p => Open(p)

OneOpen == \A p, q \in Procs : Open(p) /\ Open(q) => p = q
Ledger == \A c \in Categories : row[c].quantity + Sold(c) = InitialRow[c].quantity
LedgerInv == OneOpen /\ Ledger /\ \A p \in Procs : LedgerStep(p)

\* A request that no step moves, among others that change no quantity it sees.
Resting(q) ==
    /\ pc'[q] = pc[q] /\ line'[q] = line[q] /\ entity'[q] = entity[q]
    /\ changed'[q] = changed[q] /\ reply'[q] = reply[q]

LEMMA RestingLedger ==
    ASSUME LedgerInv, NEW q \in Procs, Resting(q), job' = job, IInv, IInv',
           \A c \in Categories : lock'[c] = q <=> lock[c] = q,
           \A c \in Categories : lock[c] = q => dirty'[c] = dirty[c],
           Open(q) => \A c \in Categories : row'[c].quantity = row[c].quantity
    PROVE  LedgerStep(q)'
  <1>1. /\ Tickets(q)' = Tickets(q) /\ Ticket(q)' = Ticket(q) /\ Target(q)' = Target(q)
        /\ Kind(q)' = Kind(q)
    BY DEF Resting, Tickets, Ticket, Target, Kind
  <1>2. Open(q)' = Open(q)
    BY <1>1 DEF Resting, Open, LoopPc
  <1>3. \A n, c : TakenBefore(q, n, c)' = TakenBefore(q, n, c)
    BY <1>1 DEF TakenBefore
  <1>4. LedgerStep(q)
    BY DEF LedgerInv
  <1>5. CASE Open(q)
    <2>1. \A c \in Categories : Visible(q, c)'.quantity = Visible(q, c).quantity
      BY <1>5 DEF Visible
    <2>2. pc[q] \in {"check", "diff", "write"} => Target(q) \in Categories
      BY TicketOK DEF IInv
    <2>3. QED  BY <1>1, <1>2, <1>3, <1>4, <1>5, <2>1, <2>2 DEF LedgerStep, Resting
  <1>6. CASE ~Open(q)
    <2>1. \A c \in Categories : lock[c] # q /\ lock'[c] # q
      BY <1>4, <1>6 DEF LedgerStep
    <2>2. pc[q] \in InTransaction => line[q] = 1 /\ pc[q] \in {"read", "commit"}
      BY <1>6 DEF Open, LoopPc
    <2>3. \A c : TakenBefore(q, 0, c)' = 0
      BY <1>3, TakenBeforeNothing
    <2>4. \A c \in Categories : row'[c].quantity \in Int
      BY DEF IInv, RowsInv, RowsType, TicketCategory
    <2>5. ASSUME pc'[q] \in InTransaction, NEW c \in Categories
          PROVE  Visible(q, c)'.quantity = row'[c].quantity - TakenBefore(q, line[q] - 1, c)'
      <3>1. line'[q] - 1 = 0
        BY <2>2, <2>5 DEF Resting
      <3>2. TakenBefore(q, line[q] - 1, c)' = 0
        BY <2>3, <3>1
      <3>3. Visible(q, c)' = row'[c]
        BY <2>1 DEF Visible
      <3>4. QED  BY <2>4, <3>2, <3>3
    <2>6. pc'[q] \notin {"check", "diff", "write"}
      BY <2>2 DEF Resting, InTransaction
    <2>7. /\ pc'[q] = "commit" => line'[q] = Len(Tickets(q)') + 1
          /\ pc'[q] # "done" => reply'[q] = "none"
          /\ pc'[q] = "awaiting" => Kind(q)' = "order"
      BY <1>1, <1>4 DEF LedgerStep, Resting
    <2>8. QED  BY <2>1, <2>5, <2>6, <2>7 DEF LedgerStep
  <1>7. QED  BY <1>5, <1>6

\* One request moves.
LEMMA MoverLedger ==
    ASSUME IInv, IInv', LedgerInv, OneOpen', Ledger', job' = job, NEW p \in Procs,
           \A q \in Procs \ {p} : Resting(q),
           \A c \in Categories :
              \/ lock'[c] = lock[c] /\ dirty'[c] = dirty[c]
              \/ lock[c] \in {p, Free} /\ lock'[c] \in {p, Free},
           Open(p) \/ \A c \in Categories : row'[c].quantity = row[c].quantity,
           LedgerStep(p)'
    PROVE  LedgerInv'
  <1>1. ASSUME NEW q \in Procs \ {p}
        PROVE  LedgerStep(q)'
    <2>1. Open(q) => \A c \in Categories : row'[c].quantity = row[c].quantity
      BY DEF LedgerInv, OneOpen
    <2>2. \A c \in Categories :
             /\ lock'[c] = q <=> lock[c] = q
             /\ lock[c] = q => dirty'[c] = dirty[c]
      BY ConstantsAssumption
    <2>3. QED  BY <2>1, <2>2, RestingLedger
  <1>2. QED  BY <1>1 DEF LedgerInv

\* A request whose transaction is over: it is answered, it waits for the gateway,
\* or it starts again.
Over(p) ==
    \/ pc'[p] = "done"
    \/ pc'[p] = "awaiting" /\ Kind(p) = "order" /\ reply'[p] = "none"
    \/ pc'[p] = LoopPc(p, 1) /\ line'[p] = 1 /\ reply'[p] = "none"

LEMMA OverLedger ==
    ASSUME IInv', NEW p \in Procs, job' = job, Over(p), \A c \in Categories : lock'[c] # p
    PROVE  LedgerStep(p)'
  <1>1. /\ Tickets(p)' = Tickets(p) /\ Kind(p)' = Kind(p)
        /\ LoopPc(p, 1)' = LoopPc(p, 1)
    BY DEF Tickets, Kind, LoopPc
  <1>2. CASE pc'[p] \in {"done", "awaiting"}
    BY <1>1, <1>2 DEF Over, LedgerStep, InTransaction, LoopPc
  <1>3. CASE pc'[p] \notin {"done", "awaiting"}
    <2>1. pc'[p] = LoopPc(p, 1) /\ line'[p] = 1 /\ reply'[p] = "none"
      BY <1>3 DEF Over
    <2>2. ASSUME NEW c \in Categories
          PROVE  Visible(p, c)'.quantity = row'[c].quantity - TakenBefore(p, line[p] - 1, c)'
      <3>1. line'[p] - 1 = 0
        BY <2>1
      <3>2. TakenBefore(p, 0, c)' = 0
        <4>1. TakenBefore(p, 0, c)' = TakenBefore(p, 0, c)
          BY <1>1 DEF TakenBefore
        <4>2. QED  BY <4>1, TakenBeforeNothing
      <3>3. TakenBefore(p, line[p] - 1, c)' = 0
        BY <3>1, <3>2
      <3>4. Visible(p, c)' = row'[c] /\ row'[c].quantity \in Int
        BY DEF Visible, IInv, RowsInv, RowsType, TicketCategory
      <3>5. QED  BY <3>3, <3>4
    <2>3. pc'[p] = "commit" => line'[p] = Len(Tickets(p)') + 1
      <3>1. Tickets(p)' \in Seq(Lines)
        BY DEF IInv, RequestsInv, RequestsType, Tickets, Job
      <3>2. Len(Tickets(p)') \in Nat
        BY <3>1
      <3>3. QED  BY <1>1, <2>1, <3>2 DEF LoopPc
    <2>4. pc'[p] \in {"read", "commit"}
      BY <2>1 DEF LoopPc
    <2>5. QED  BY <2>1, <2>2, <2>3, <2>4 DEF LedgerStep
  <1>4. QED  BY <1>2, <1>3

\* A step that sells nothing.
LEMMA SameLedger ==
    ASSUME IsFiniteSet(Procs), IInv, IInv', LedgerInv, job' = job, orders' = orders,
           \A q \in Procs : Kind(q) = "ticket" => (reply'[q] = "ok" <=> reply[q] = "ok"),
           \A c \in Categories : row'[c].quantity = row[c].quantity
    PROVE  Ledger'
  <1>1. ASSUME NEW c \in Categories, NEW q \in Procs
        PROVE  SoldOf(q, c)' = SoldOf(q, c)
    <2>1. Tickets(q)' = Tickets(q) /\ Kind(q)' = Kind(q) /\ OrdersOf(q)' = OrdersOf(q)
      BY DEF Tickets, Kind, OrdersOf
    <2>2. QED  BY <2>1 DEF SoldOf
  <1>2. \A c \in Categories : Sold(c)' = Sold(c)
    BY <1>1, SoldMoves
  <1>3. QED  BY <1>2 DEF LedgerInv, Ledger

\* A transaction that fails, or a call that the gateway refused: nothing is taken.
LEMMA FailLedger ==
    ASSUME IsFiniteSet(Procs), IInv, IInv', LedgerInv, OneOpen', NEW p \in Procs,
           pc[p] # "done",
           Rollback(p) \/ (UNCHANGED dbVars /\ pc[p] = "awaiting"),
           RetryOrFail(p) \/ Throw(p, "failed") \/ Throw(p, "rejected")
    PROVE  LedgerInv'
  <1> DEFINE Again == pc' = [pc EXCEPT ![p] = LoopPc(p, 1)] /\ line' = [line EXCEPT ![p] = 1]
                        /\ reply' = reply
             Stop(r) == pc' = [pc EXCEPT ![p] = "done"] /\ line' = line
                        /\ reply' = [reply EXCEPT ![p] = r]
  <1>0. Again \/ Stop("failed") \/ Stop("rejected")
    <2>1. CASE RetryOrFail(p)
      BY <2>1 DEF RetryOrFail, Answer
    <2>2. CASE Throw(p, "failed") \/ Throw(p, "rejected")
      BY <2>2 DEF Throw, Answer
    <2>3. QED  BY <2>1, <2>2
  <1>1. /\ job' = job /\ orders' = orders
        /\ \A q \in Procs \ {p} : Resting(q)
    <2>1. /\ job' = job /\ orders' = orders /\ entity' = entity /\ changed' = changed
      BY DEF RetryOrFail, Throw, bookVars
    <2>2. \A q \in Procs \ {p} : pc'[q] = pc[q] /\ line'[q] = line[q] /\ reply'[q] = reply[q]
      <3>1. CASE Again
        BY <3>1 DEF IInv, RequestsInv, RequestsType
      <3>2. CASE Stop("failed")
        BY <3>2 DEF IInv, RequestsInv, RequestsType
      <3>3. CASE Stop("rejected")
        BY <3>3 DEF IInv, RequestsInv, RequestsType
      <3>4. QED  BY <1>0, <3>1, <3>2, <3>3
    <2>3. QED  BY <2>1, <2>2 DEF Resting
  <1>2. reply[p] = "none" /\ (pc[p] = "awaiting" => \A c \in Categories : lock[c] # p)
    BY DEF LedgerInv, LedgerStep, Open, InTransaction
  <1>3. row' = row /\ \A c \in Categories : lock'[c] # p
    BY <1>2, ConstantsAssumption DEF Rollback, ReleaseLocks, dbVars
  <1>4. \A c \in Categories :
           \/ lock'[c] = lock[c] /\ dirty'[c] = dirty[c]
           \/ lock[c] \in {p, Free} /\ lock'[c] \in {p, Free}
    BY DEF Rollback, ReleaseLocks, dbVars
  <1>5. Over(p) /\ reply'[p] # "ok"
    <2>1. CASE Again
      <3>1. pc'[p] = LoopPc(p, 1) /\ line'[p] = 1 /\ reply'[p] = "none"
        BY <1>2, <2>1 DEF IInv, RequestsInv, RequestsType
      <3>2. QED  BY <3>1 DEF Over
    <2>2. CASE Stop("failed") \/ Stop("rejected")
      <3>1. pc'[p] = "done" /\ reply'[p] \in {"failed", "rejected"}
        BY <2>2 DEF IInv, RequestsInv, RequestsType
      <3>2. QED  BY <3>1 DEF Over
    <2>3. QED  BY <1>0, <2>1, <2>2
  <1>6. \A q \in Procs : reply'[q] = "ok" <=> reply[q] = "ok"
    BY <1>1, <1>2, <1>5 DEF Resting
  <1>7. Ledger'
    BY <1>1, <1>3, <1>6, SameLedger
  <1>8. LedgerStep(p)'
    BY <1>1, <1>3, <1>5, OverLedger
  <1>9. QED  BY <1>1, <1>3, <1>4, <1>7, <1>8, MoverLedger

LEMMA CommitLedger ==
    ASSUME IsFiniteSet(Procs), IInv, IInv', LedgerInv, OneOpen', NEW p \in Procs,
           pc[p] = "commit", Publish(p), job' = job,
           \A q \in Procs \ {p} : Resting(q), Over(p),
           \/ Kind(p) = "ticket" /\ reply'[p] = "ok" /\ orders' = orders
           \/ Kind(p) # "ticket" /\ orders' = Append(orders, NewOrder(p))
    PROVE  LedgerInv'
  <1>1. LedgerStep(p) /\ line[p] = Len(Tickets(p)) + 1 /\ reply[p] = "none"
    BY DEF LedgerInv, LedgerStep
  <1>2. RequestsType
    BY DEF IInv, RequestsInv
  <1>3. ASSUME NEW c \in Categories
        PROVE  /\ row'[c].quantity = row[c].quantity - Taken(Tickets(p), c)
               /\ Taken(Tickets(p), c) \in Nat
    <2>1. line[p] - 1 = Len(Tickets(p))
      BY <1>1, <1>2, ShareIsNat
    <2>2. Visible(p, c).quantity = row[c].quantity - TakenBefore(p, Len(Tickets(p)), c)
      BY <1>1, <2>1 DEF LedgerStep, InTransaction
    <2>3. row'[c] = Visible(p, c)
      BY DEF Publish
    <2>4. QED  BY <1>2, <2>2, <2>3, TakenBeforeAll
  <1>4. \A q \in Procs : Tickets(q)' = Tickets(q) /\ Kind(q)' = Kind(q)
    BY DEF Tickets, Kind
  <1>5. orders \in Seq(Order)
    BY DEF IInv, BooksType
  <1>6. ASSUME NEW q \in Procs \ {p}, NEW c \in Categories
        PROVE  SoldOf(q, c)' = SoldOf(q, c)
    <2>1. OrdersOf(q)' = OrdersOf(q)
      <3>1. CASE orders' = orders
        BY <3>1 DEF OrdersOf
      <3>2. CASE orders' = Append(orders, NewOrder(p))
        <4>1. NewOrder(p).by = p
          BY DEF NewOrder
        <4>2. QED  BY <1>5, <3>2, <4>1 DEF OrdersOf
      <3>3. QED  BY <3>1, <3>2
    <2>2. QED  BY <1>4, <2>1 DEF SoldOf, Resting
  <1>7. ASSUME NEW c \in Categories
        PROVE  SoldOf(p, c)' = SoldOf(p, c) + Taken(Tickets(p), c)
    <2>1. PICK t : t = Taken(Tickets(p), c)
      OBVIOUS
    <2>2. t \in Nat
      BY <1>3, <2>1
    <2>3. CASE Kind(p) = "ticket"
      BY <1>1, <1>4, <2>1, <2>2, <2>3 DEF SoldOf
    <2>4. CASE Kind(p) # "ticket"
      <3>1. orders' = Append(orders, NewOrder(p)) /\ NewOrder(p).by = p
        BY <2>4 DEF NewOrder
      <3>2. PICK n : n = Len(orders) + 1
        OBVIOUS
      <3>3. OrdersOf(p)' = OrdersOf(p) \cup {n} /\ n \notin OrdersOf(p)
        BY <1>5, <3>1, <3>2 DEF OrdersOf
      <3>4. IsFiniteSet(OrdersOf(p)) /\ Cardinality(OrdersOf(p)) \in Nat
        BY OrdersOfFinite
      <3>5. Cardinality(OrdersOf(p))' = Cardinality(OrdersOf(p)) + 1
        BY <3>3, <3>4, FS_AddElement
      <3>6. PICK m \in Nat : m = Cardinality(OrdersOf(p))
        BY <3>4
      <3>7. SoldOf(p, c) = t * m /\ SoldOf(p, c)' = t * (m + 1)
        BY <1>4, <2>1, <2>4, <3>5, <3>6 DEF SoldOf
      <3>8. t * (m + 1) = t * m + t
        BY <2>2
      <3>9. QED  BY <2>1, <3>7, <3>8
    <2>5. QED  BY <2>3, <2>4
  <1>8. Ledger'
    <2>1. SUFFICES ASSUME NEW c \in Categories
                   PROVE  row'[c].quantity + Sold(c)' = InitialRow[c].quantity
      BY DEF Ledger
    <2>2. PICK t \in Nat : t = Taken(Tickets(p), c)
      BY <1>3
    <2>3. Sold(c)' = Sold(c) + t /\ Sold(c) \in Nat
      BY <1>6, <1>7, <2>2, SoldMoves
    <2>4. row'[c].quantity = row[c].quantity - t /\ row[c].quantity \in Int
      BY <1>3, <2>2 DEF IInv, RowsInv, RowsType, TicketCategory
    <2>5. row[c].quantity + Sold(c) = InitialRow[c].quantity
      BY DEF LedgerInv, Ledger
    <2>6. QED  BY <2>3, <2>4, <2>5
  <1>9. \A c \in Categories : lock'[c] # p
    BY ConstantsAssumption DEF Publish, ReleaseLocks
  <1>10. LedgerStep(p)'
    BY <1>9, OverLedger
  <1>11. \A c \in Categories :
            \/ lock'[c] = lock[c] /\ dirty'[c] = dirty[c]
            \/ lock[c] \in {p, Free} /\ lock'[c] \in {p, Free}
    BY DEF Publish, ReleaseLocks
  <1>12. Open(p) \/ \A c \in Categories : row'[c].quantity = row[c].quantity
    <2>1. ~Open(p) => \A c \in Categories : lock[c] # p
      BY <1>1 DEF LedgerStep
    <2>2. QED  BY <2>1 DEF Publish, Visible
  <1>13. QED  BY <1>8, <1>10, <1>11, <1>12, MoverLedger

\* A statement of the loop that writes nothing.
LEMMA LoopLedger ==
    ASSUME IsFiniteSet(Procs), IInv, IInv', LedgerInv, OneOpen', NEW p \in Procs,
           pc[p] \in {"read", "check", "diff"},
           UNCHANGED dbVars, UNCHANGED <<job, orders, line, reply>>,
           \A q \in Procs \ {p} : Resting(q),
           pc'[p] \in {"check", "diff", "write"},
           pc'[p] = "check" => entity'[p].quantity = Visible(p, Target(p)).quantity,
           pc'[p] \in {"diff", "write"} =>
              entity'[p].quantity = Visible(p, Target(p)).quantity - Ticket(p).quantity,
           pc'[p] = "write" => "quantity" \in changed'[p]
    PROVE  LedgerInv'
  <1>1. /\ Tickets(p)' = Tickets(p) /\ Ticket(p)' = Ticket(p) /\ Target(p)' = Target(p)
        /\ \A c : Visible(p, c)' = Visible(p, c)
    BY DEF Tickets, Ticket, Target, Visible, dbVars
  <1>2. \A n, c : TakenBefore(p, n, c)' = TakenBefore(p, n, c)
    BY <1>1 DEF TakenBefore
  <1>3. Open(p)'
    BY DEF Open, InTransaction, LoopPc
  <1>4. LedgerStep(p)
    BY DEF LedgerInv
  <1>5. LedgerStep(p)'
    <2>1. \A c \in Categories :
             Visible(p, c)'.quantity = row'[c].quantity - TakenBefore(p, line[p] - 1, c)'
      BY <1>1, <1>2, <1>4 DEF LedgerStep, InTransaction, dbVars
    <2>2. pc'[p] # "commit" /\ pc'[p] # "awaiting" /\ reply'[p] = "none"
      BY <1>4 DEF LedgerStep
    <2>3. QED  BY <1>1, <1>3, <2>1, <2>2 DEF LedgerStep
  <1>6. Ledger'
    BY SameLedger DEF dbVars
  <1>7. QED  BY <1>5, <1>6, MoverLedger DEF dbVars

LEMMA ReadLedger ==
    ASSUME IsFiniteSet(Procs), IInv, IInv', LedgerInv, OneOpen', NEW p \in Procs,
           ReadCategory(p)
    PROVE  LedgerInv'
  <1>1. CASE Rollback(p) /\ Throw(p, "rejected")
    BY <1>1, FailLedger DEF ReadCategory
  <1>2. CASE ~(Rollback(p) /\ Throw(p, "rejected"))
    <2>1. /\ pc[p] = "read"
          /\ entity' = [entity EXCEPT ![p] = Visible(p, Target(p))]
          /\ pc' = [pc EXCEPT ![p] = "check"]
          /\ UNCHANGED dbVars /\ UNCHANGED <<job, orders, line, reply>> /\ UNCHANGED changed
      BY <1>2 DEF ReadCategory, bookVars
    <2>2. \A q \in Procs \ {p} : Resting(q)
      BY <2>1 DEF Resting, IInv, RequestsInv, RequestsType
    <2>3. pc'[p] = "check" /\ entity'[p] = Visible(p, Target(p))
      BY <2>1 DEF IInv, RequestsInv, RequestsType
    <2>4. QED  BY <2>1, <2>2, <2>3, LoopLedger
  <1>3. QED  BY <1>1, <1>2

LEMMA CheckLedger ==
    ASSUME IsFiniteSet(Procs), IInv, IInv', LedgerInv, OneOpen', NEW p \in Procs,
           CheckAndDecrement(p)
    PROVE  LedgerInv'
  <1>1. CASE Rollback(p) /\ RetryOrFail(p)
    BY <1>1, FailLedger DEF CheckAndDecrement
  <1>2. CASE Rollback(p) /\ Throw(p, "rejected")
    BY <1>2, FailLedger DEF CheckAndDecrement
  <1>3. CASE ~(Rollback(p) /\ RetryOrFail(p)) /\ ~(Rollback(p) /\ Throw(p, "rejected"))
    <2>1. /\ pc[p] = "check"
          /\ entity' = [entity EXCEPT ![p].quantity = @ - Ticket(p).quantity]
          /\ pc' = [pc EXCEPT ![p] = "diff"]
          /\ UNCHANGED dbVars /\ UNCHANGED <<job, orders, line, reply>> /\ UNCHANGED changed
      BY <1>3 DEF CheckAndDecrement, bookVars
    <2>2. \A q \in Procs \ {p} : Resting(q)
      BY <2>1 DEF Resting, IInv, RequestsInv, RequestsType
    <2>3. /\ pc'[p] = "diff"
          /\ entity'[p].quantity = entity[p].quantity - Ticket(p).quantity
      BY <2>1 DEF IInv, RequestsInv, RequestsType, TicketCategory
    <2>4. entity[p].quantity = Visible(p, Target(p)).quantity
      BY <2>1 DEF LedgerInv, LedgerStep
    <2>5. QED  BY <2>1, <2>2, <2>3, <2>4, LoopLedger
  <1>4. QED  BY <1>1, <1>2, <1>3

LEMMA SelectLedger ==
    ASSUME IsFiniteSet(Procs), IInv, IInv', LedgerInv, OneOpen', NEW p \in Procs,
           SelectForSave(p)
    PROVE  LedgerInv'
  <1>1. /\ pc[p] = "diff"
        /\ changed' = [changed EXCEPT ![p] = ChangedColumns(entity[p], Visible(p, Target(p)))]
        /\ pc' = [pc EXCEPT ![p] = "write"]
        /\ UNCHANGED dbVars /\ UNCHANGED <<job, orders, line, reply>> /\ UNCHANGED entity
    BY DEF SelectForSave, bookVars
  <1>2. \A q \in Procs \ {p} : Resting(q)
    BY <1>1 DEF Resting, IInv, RequestsInv, RequestsType
  <1>3. entity[p].quantity = Visible(p, Target(p)).quantity - Ticket(p).quantity
    BY <1>1 DEF LedgerInv, LedgerStep
  <1>4. Ticket(p).quantity \in Nat \ {0} /\ Visible(p, Target(p)).quantity \in Int
    <2>1. Ticket(p).quantity \in Nat \ {0} /\ Target(p) \in Categories
      BY <1>1, TicketOK DEF IInv
    <2>2. Visible(p, Target(p)) \in TicketCategory
      BY <2>1, VisibleOK DEF IInv
    <2>3. QED  BY <2>1, <2>2 DEF TicketCategory
  <1>5. entity[p].quantity # Visible(p, Target(p)).quantity
    BY <1>3, <1>4
  <1>6. pc'[p] = "write" /\ "quantity" \in changed'[p]
    BY <1>1, <1>5 DEF ChangedColumns, Columns, IInv, RequestsInv, RequestsType
  <1>7. QED  BY <1>1, <1>2, <1>3, <1>6, LoopLedger

LEMMA WriteLedger ==
    ASSUME IsFiniteSet(Procs), IInv, IInv', LedgerInv, OneOpen', NEW p \in Procs,
           WriteRow(p)
    PROVE  LedgerInv'
  <1>1. PICK c : c = Target(p)
    OBVIOUS
  <1>2. PICK n : n = line[p]
    OBVIOUS
  <1>3. LedgerStep(p) /\ pc[p] = "write" /\ pc[p] \in InTransaction
    BY DEF LedgerInv, WriteRow, InTransaction
  <1>4. c \in Categories /\ Ticket(p).quantity \in Nat
    BY <1>1, <1>3, TicketOK DEF IInv
  <1>5. PICK v : dirty' = [dirty EXCEPT ![c] = SavedRow(entity[p], dirty[c], changed[p], v)]
    BY <1>1, <1>4 DEF WriteRow
  <1>6. /\ lock[c] \in {p, Free} /\ lock' = [lock EXCEPT ![c] = p]
        /\ row' = row /\ job' = job /\ orders' = orders /\ reply' = reply
        /\ entity' = entity /\ changed' = changed
        /\ line' = [line EXCEPT ![p] = @ + 1]
        /\ pc' = [pc EXCEPT ![p] = LoopPc(p, line[p] + 1)]
    BY <1>1 DEF WriteRow, NextTicket, bookVars
  <1>7. RequestsType /\ RowsType
    BY DEF IInv, RequestsInv, RowsInv
  <1>8. n \in DOMAIN Tickets(p) /\ n \in Nat \ {0} /\ Len(Tickets(p)) \in Nat
        /\ DOMAIN Tickets(p) = 1..Len(Tickets(p))
    BY <1>2, <1>3, <1>7, ShareIsNat DEF IInv, RequestsInv, RequestsType, LoopInv
  <1>9. \A q \in Procs \ {p} : Resting(q)
    BY <1>6, <1>7 DEF Resting, RequestsType
  <1>10. line'[p] = n + 1 /\ pc'[p] = LoopPc(p, n + 1)
    BY <1>2, <1>6, <1>7 DEF RequestsType
  <1>11. Tickets(p)' = Tickets(p)
    BY <1>6 DEF Tickets
  <1>12. ASSUME NEW d \in Categories
         PROVE  Visible(p, d)'.quantity = row'[d].quantity - TakenBefore(p, line[p] - 1, d)'
    <2>1. TakenBefore(p, line[p] - 1, d)' = TakenBefore(p, n, d)
      <3>1. line'[p] - 1 = n
        BY <1>8, <1>10
      <3>2. QED  BY <1>11, <3>1 DEF TakenBefore
    <2>2. Visible(p, d).quantity = row[d].quantity - TakenBefore(p, n - 1, d)
      BY <1>2, <1>3 DEF LedgerStep
    <2>3. /\ TakenBefore(p, n - 1, d) \in Nat
          /\ TakenBefore(p, n, d) = TakenBefore(p, n - 1, d)
                + IF Tickets(p)[n].category = d THEN Tickets(p)[n].quantity ELSE 0
      BY <1>7, <1>8, TakenBeforeNext
    <2>4. Tickets(p)[n] = Ticket(p) /\ Ticket(p).category = c
      BY <1>1, <1>2 DEF Ticket, Target
    <2>5. row[d].quantity \in Int
      BY <1>7 DEF RowsType, TicketCategory
    <2>6. CASE d = c
      <3>1. Visible(p, d)' = SavedRow(entity[p], dirty[c], changed[p], v)
        BY <1>4, <1>5, <1>6, <1>7, <2>6 DEF Visible, RowsType
      <3>2. "quantity" \in changed[p]
        BY <1>3 DEF LedgerStep
      <3>3. Visible(p, d)'.quantity = entity[p].quantity
        BY <3>1, <3>2 DEF SavedRow
      <3>4. entity[p].quantity = Visible(p, d).quantity - Ticket(p).quantity
        BY <1>1, <1>3, <2>6 DEF LedgerStep
      <3>5. PICK a, b, t : a = row[d].quantity /\ b = TakenBefore(p, n - 1, d)
                           /\ t = Ticket(p).quantity
        OBVIOUS
      <3>6. a \in Int /\ b \in Nat /\ t \in Nat
        BY <1>4, <2>3, <2>5, <3>5
      <3>7. (a - b) - t = a - (b + t)
        BY <3>6
      <3>8. Visible(p, d)'.quantity = (a - b) - t
        BY <2>2, <3>3, <3>4, <3>5
      <3>9. TakenBefore(p, n, d) = b + t
        BY <2>3, <2>4, <2>6, <3>5
      <3>10. QED  BY <1>6, <2>1, <3>5, <3>7, <3>8, <3>9
    <2>7. CASE d # c
      <3>1. Visible(p, d)' = Visible(p, d)
        BY <1>5, <1>6, <1>7, <2>7 DEF Visible, RowsType
      <3>2. TakenBefore(p, n, d) = TakenBefore(p, n - 1, d)
        BY <2>3, <2>4, <2>7
      <3>3. QED  BY <1>6, <2>1, <2>2, <3>1, <3>2
    <2>8. QED  BY <2>6, <2>7
  <1>13. LedgerStep(p)'
    <2>1. pc'[p] \in {"read", "commit"} /\ line'[p] # 1
      BY <1>8, <1>10 DEF LoopPc
    <2>2. Open(p)'
      BY <2>1 DEF Open, InTransaction
    <2>3. pc'[p] = "commit" => line'[p] = Len(Tickets(p)') + 1
      BY <1>8, <1>10, <1>11 DEF LoopPc
    <2>4. reply'[p] = "none"
      BY <1>3, <1>6 DEF LedgerStep
    <2>5. QED  BY <1>12, <2>1, <2>2, <2>3, <2>4 DEF LedgerStep
  <1>14. Ledger'
    BY <1>6, SameLedger
  <1>15. \A d \in Categories :
            \/ lock'[d] = lock[d] /\ dirty'[d] = dirty[d]
            \/ lock[d] \in {p, Free} /\ lock'[d] \in {p, Free}
    BY <1>5, <1>6, <1>7 DEF RowsType
  <1>16. QED  BY <1>6, <1>9, <1>13, <1>14, <1>15, MoverLedger

LEMMA StatementErrorLedger ==
    ASSUME IsFiniteSet(Procs), IInv, IInv', LedgerInv, OneOpen', NEW p \in Procs,
           pc[p] # "done", StatementError(p)
    PROVE  LedgerInv'
  <1>1. Rollback(p) /\ (RetryOrFail(p) \/ Throw(p, "failed"))
    BY DEF StatementError
  <1>2. QED  BY <1>1, FailLedger

LEMMA CommitsLedger ==
    ASSUME IsFiniteSet(Procs), IInv, IInv', LedgerInv, OneOpen', NEW p \in Procs,
           CommitOrder(p) \/ CommitAdminOrder(p) \/ CommitTicket(p)
    PROVE  LedgerInv'
  <1>1. pc[p] = "commit" /\ reply[p] = "none"
    BY DEF CommitOrder, CommitAdminOrder, CommitTicket, LedgerInv, LedgerStep
  <1>2. RequestsType
    BY DEF IInv, RequestsInv
  <1>3. CASE StatementError(p)
    BY <1>1, <1>3, StatementErrorLedger
  <1>4. CASE CommitOrder(p) /\ ~StatementError(p)
    <2>1. /\ Kind(p) = "order" /\ orders' = Append(orders, NewOrder(p)) /\ Publish(p)
          /\ pc' = [pc EXCEPT ![p] = "awaiting"]
          /\ UNCHANGED <<job, line, entity, changed, reply>>
      BY <1>4 DEF CommitOrder
    <2>2. pc'[p] = "awaiting" /\ \A q \in Procs \ {p} : Resting(q)
      BY <1>2, <2>1 DEF Resting, RequestsType
    <2>3. QED  BY <1>1, <2>1, <2>2, CommitLedger DEF Over
  <1>5. CASE CommitAdminOrder(p)
    <2>1. /\ Kind(p) = "adminOrder" /\ orders' = Append(orders, NewOrder(p)) /\ Publish(p)
          /\ pc' = [pc EXCEPT ![p] = "done"]
          /\ reply' = [reply EXCEPT ![p] = "ok"]
          /\ UNCHANGED <<job, line, entity, changed>>
      BY <1>5 DEF CommitAdminOrder, Answer
    <2>2. pc'[p] = "done" /\ \A q \in Procs \ {p} : Resting(q)
      BY <1>2, <2>1 DEF Resting, RequestsType
    <2>3. QED  BY <1>1, <2>1, <2>2, CommitLedger DEF Over
  <1>6. CASE CommitTicket(p)
    <2>1. /\ Kind(p) = "ticket" /\ orders' = orders /\ Publish(p)
          /\ pc' = [pc EXCEPT ![p] = "done"]
          /\ reply' = [reply EXCEPT ![p] = "ok"]
          /\ UNCHANGED <<job, line, entity, changed>>
      BY <1>6 DEF CommitTicket, Throw, Answer, bookVars
    <2>2. /\ pc'[p] = "done" /\ reply'[p] = "ok"
          /\ \A q \in Procs \ {p} : Resting(q)
      BY <1>2, <2>1 DEF Resting, RequestsType
    <2>3. QED  BY <1>1, <2>1, <2>2, CommitLedger DEF Over
  <1>7. QED  BY <1>3, <1>4, <1>5, <1>6

\* The answer of the gateway: the transaction is over already.
LEMMA ReceiveLedger ==
    ASSUME IsFiniteSet(Procs), IInv, IInv', LedgerInv, OneOpen', NEW p \in Procs,
           ReceiveUrl(p) \/ ReceiveError(p)
    PROVE  LedgerInv'
  <1>1. CASE ReceiveError(p)
    BY <1>1, FailLedger DEF ReceiveError
  <1>2. CASE ReceiveUrl(p)
    <2>1. /\ pc[p] = "awaiting" /\ UNCHANGED dbVars
          /\ pc' = [pc EXCEPT ![p] = "done"]
          /\ reply' = [reply EXCEPT ![p] = "ok"]
          /\ UNCHANGED <<job, orders, line, entity, changed>>
      BY <1>2 DEF ReceiveUrl, Answer, bookVars
    <2>2. pc'[p] = "done" /\ \A q \in Procs \ {p} : Resting(q) /\ reply'[q] = reply[q]
      BY <2>1 DEF Resting, IInv, RequestsInv, RequestsType
    <2>3. Kind(p) = "order" /\ \A c \in Categories : lock[c] # p
      BY <2>1 DEF LedgerInv, LedgerStep, Open, InTransaction
    <2>4. LedgerStep(p)'
      BY <2>1, <2>2, <2>3, OverLedger DEF Over, dbVars
    <2>5. \A q \in Procs : Kind(q) = "ticket" => (reply'[q] = "ok" <=> reply[q] = "ok")
      BY <2>2, <2>3
    <2>6. Ledger'
      BY <2>1, <2>5, SameLedger DEF dbVars
    <2>7. QED  BY <2>1, <2>2, <2>4, <2>6, MoverLedger DEF dbVars
  <1>3. QED  BY <1>1, <1>2

LEMMA StepLedger ==
    ASSUME IsFiniteSet(Procs), IInv, IInv', LedgerInv, OneOpen', NEW p \in Procs, Step(p)
    PROVE  LedgerInv'
  <1>1. CASE SkipWrite(p)
    BY <1>1 DEF SkipWrite, MaySkipUpdate, LedgerInv, LedgerStep
  <1>2. CASE AdminOrderFails(p)
    BY <1>2, StatementErrorLedger DEF AdminOrderFails
  <1>3. QED
    BY <1>1, <1>2, ReadLedger, CheckLedger, SelectLedger, WriteLedger, CommitsLedger,
       ReceiveLedger DEF Step

\* Nobody's transaction moves: the gateway, an administrator.
LEMMA OthersLedger ==
    ASSUME IsFiniteSet(Procs), IInv, IInv', LedgerInv, OneOpen',
           UNCHANGED <<job, orders, lock, pc, line, entity, changed, reply>>,
           \A c \in Categories : /\ row'[c].quantity = row[c].quantity
                                 /\ lock[c] # Free => dirty'[c] = dirty[c]
    PROVE  LedgerInv'
  <1>1. Ledger'
    BY SameLedger
  <1>2. ASSUME NEW q \in Procs
        PROVE  LedgerStep(q)'
    <2>1. Resting(q)
      BY DEF Resting
    <2>2. \A c \in Categories : lock[c] = q => dirty'[c] = dirty[c]
      BY ConstantsAssumption
    <2>3. QED  BY <2>1, <2>2, RestingLedger
  <1>3. QED  BY <1>1, <1>2 DEF LedgerInv

LEMMA CrashLedger ==
    ASSUME IsFiniteSet(Procs), IInv, IInv', LedgerInv, OneOpen', Crash
    PROVE  LedgerInv'
  <1>1. \A q \in Procs : reply'[q] = "ok" <=> reply[q] = "ok"
    BY DEF Crash, LedgerInv, LedgerStep
  <1>2. job' = job /\ orders' = orders /\ row' = row
    BY DEF Crash, bookVars
  <1>3. Ledger'
    BY <1>1, <1>2, SameLedger
  <1>4. ASSUME NEW q \in Procs
        PROVE  LedgerStep(q)'
    <2>1. pc'[q] = "done" /\ \A c \in Categories : lock'[c] # q
      BY ConstantsAssumption DEF Crash
    <2>2. QED  BY <1>2, <2>1, OverLedger DEF Over
  <1>5. QED  BY <1>3, <1>4 DEF LedgerInv

LEMMA NextLedger ==
    ASSUME IsFiniteSet(Procs), \A patch \in Patches : "quantity" \notin DOMAIN patch,
           IInv, IInv', LedgerInv, OneOpen', Next
    PROVE  LedgerInv'
  <1>1. ASSUME NEW p \in Procs, DbFailure(p) \/ DeadlockAbort(p)
        PROVE  LedgerInv'
    BY <1>1, StatementErrorLedger DEF DbFailure, DeadlockAbort, Blocked, InTransaction
  <1>2. ASSUME NEW p \in Procs, Gateway(p) \/ CallLost(p)
        PROVE  LedgerInv'
    <2>1. UNCHANGED <<job, orders, row, dirty, lock, pc, line, entity, changed, reply>>
      BY <1>2 DEF Gateway, GatewayCreatesSession, GatewayFails, CallLost, AnswerRpc, dbVars
    <2>2. QED  BY <2>1, OthersLedger
  <1>3. ASSUME NEW c \in Categories, NEW patch \in Patches, UpdateTicketCategory(c, patch)
        PROVE  LedgerInv'
    <2>1. /\ lock[c] = Free
          /\ row' = [row EXCEPT ![c] = UpdatedRow(patch, row[c])]
          /\ dirty' = [dirty EXCEPT ![c] = UpdatedRow(patch, dirty[c])]
          /\ UNCHANGED <<job, orders, lock, pc, line, entity, changed, reply>>
      BY <1>3 DEF UpdateTicketCategory, bookVars
    <2>2. UpdatedRow(patch, row[c]).quantity = row[c].quantity
      BY DEF UpdatedRow, Updated
    <2>3. \A d \in Categories : /\ row'[d].quantity = row[d].quantity
                                /\ lock[d] # Free => dirty'[d] = dirty[d]
      BY <2>1, <2>2 DEF IInv, RowsInv, RowsType
    <2>4. QED  BY <2>1, <2>3, OthersLedger
  <1>4. CASE Terminating
    <2>1. UNCHANGED <<job, orders, row, dirty, lock, pc, line, entity, changed, reply>>
      BY <1>4 DEF Terminating, vars, dbVars, bookVars
    <2>2. QED  BY <2>1, OthersLedger
  <1>5. QED  BY <1>1, <1>2, <1>3, <1>4, StepLedger, CrashLedger DEF Next

LEMMA OneAtATime ==
    ASSUME IsFiniteSet(Procs), NoOverlap
    PROVE  OneOpen
  <1>1. SUFFICES ASSUME NEW p \in Procs, NEW q \in Procs, Open(p), Open(q), p # q
                 PROVE  FALSE
    BY DEF OneOpen
  <1>2. PICK S : S = {r \in Procs : Open(r)}
    OBVIOUS
  <1>3. IsFiniteSet(S) /\ p \in S /\ q \in S
    <2>1. S \subseteq Procs
      BY <1>2
    <2>2. QED  BY <1>1, <1>2, <2>1, FS_Subset
  <1>4. IsFiniteSet(S \ {p}) /\ Cardinality(S \ {p}) = Cardinality(S) - 1
    BY <1>3, FS_RemoveElement
  <1>5. Cardinality(S) \in Nat /\ Cardinality(S) <= 1 /\ Cardinality(S \ {p}) \in Nat
    BY <1>2, <1>3, <1>4, FS_CardinalityType DEF NoOverlap
  <1>6. Cardinality(S \ {p}) = 0
    BY <1>4, <1>5
  <1>7. S \ {p} = {}
    BY <1>4, <1>6, FS_EmptySet
  <1>8. QED  BY <1>1, <1>3, <1>7

LEMMA InitLedger ==
    ASSUME IsFiniteSet(Procs), Init, IInv
    PROVE  LedgerInv
  <1>1. RequestsType
    BY DEF IInv, RequestsInv
  <1>2. \A p \in Procs : ~Open(p)
    BY DEF Init, Open
  <1>3. \A c \in Categories : Sold(c) = 0
    <2>1. SUFFICES ASSUME NEW c \in Categories
                   PROVE  Sold(c) = 0
      OBVIOUS
    <2>2. ASSUME NEW p \in Procs
          PROVE  SoldOf(p, c) = 0
      <3>1. OrdersOf(p) = {}
        BY DEF Init, OrdersOf
      <3>2. Cardinality(OrdersOf(p)) = 0
        BY <3>1, FS_EmptySet
      <3>3. PICK t \in Nat : t = Taken(Tickets(p), c)
        BY <1>1, TakenBeforeAll
      <3>4. reply[p] # "ok"
        BY DEF Init
      <3>5. SoldOf(p, c) = t * 0
        BY <3>2, <3>3, <3>4 DEF SoldOf
      <3>6. QED  BY <3>3, <3>5
    <2>3. PICK f : f = [p \in Procs |-> SoldOf(p, c)]
      OBVIOUS
    <2>4. Sold(c) = Total(f)
      BY <2>3 DEF Sold, Total, FoldFunction, FoldFunctionOnSet, MapThenFoldSet
    <2>5. Sold(c) = Sum(f, Procs)
      BY <2>3, <2>4, TotalIs
    <2>6. \A x \in Procs : f[x] = 0
      BY <2>2, <2>3
    <2>7. QED  BY <2>5, <2>6, SumOfZeros
  <1>4. Ledger
    <2>1. \A c \in Categories : InitialRow[c].quantity \in Int
      BY ConstantsAssumption DEF TicketCategory
    <2>2. QED  BY <1>3, <2>1 DEF Ledger, Init
  <1>5. ASSUME NEW p \in Procs
        PROVE  LedgerStep(p)
    <2>1. /\ pc[p] = LoopPc(p, 1) /\ line[p] = 1 /\ reply[p] = "none"
          /\ \A c \in Categories : lock[c] = Free /\ row[c] = InitialRow[c]
      BY DEF Init
    <2>2. \A c \in Categories : lock[c] # p /\ row[c].quantity \in Int
      BY <2>1, ConstantsAssumption DEF TicketCategory
    <2>3. \A c : TakenBefore(p, line[p] - 1, c) = 0
      <3>1. line[p] - 1 = 0
        BY <2>1
      <3>2. QED  BY <3>1, TakenBeforeNothing
    <2>4. \A c \in Categories :
             Visible(p, c).quantity = row[c].quantity - TakenBefore(p, line[p] - 1, c)
      BY <2>2, <2>3 DEF Visible
    <2>5. pc[p] \in {"read", "commit"}
      BY <2>1 DEF LoopPc
    <2>6. pc[p] = "commit" => line[p] = Len(Tickets(p)) + 1
      BY <1>1, <2>1, ShareIsNat DEF LoopPc
    <2>7. QED  BY <2>1, <2>2, <2>4, <2>5, <2>6 DEF LedgerStep
  <1>6. QED  BY <1>2, <1>4, <1>5 DEF LedgerInv, OneOpen

LEMMA LedgerInvariance ==
    ASSUME IsFiniteSet(Procs), \A patch \in Patches : "quantity" \notin DOMAIN patch
    PROVE  SerialSpec => [](IInv /\ LedgerInv)
  <1>1. SerialSpec => Spec
    <2>1. [Next /\ NoOverlap']_vars => [Next]_vars
      OBVIOUS
    <2>2. QED  BY <2>1, PTL DEF SerialSpec, Spec
  <1>2. NoOverlap' => OneOpen'
    <2>1. NoOverlap => OneOpen
      BY OneAtATime
    <2>2. QED  BY <2>1, PTL
  <1>3. IInv /\ IInv' /\ LedgerInv /\ [Next /\ NoOverlap']_vars => LedgerInv'
    <2> SUFFICES ASSUME IInv, IInv', LedgerInv, [Next /\ NoOverlap']_vars
                 PROVE  LedgerInv'
      OBVIOUS
    <2>1. CASE Next /\ NoOverlap'
      BY <1>2, <2>1, NextLedger
    <2>2. CASE UNCHANGED vars
      <3>1. UNCHANGED <<job, orders, row, dirty, lock, pc, line, entity, changed, reply>>
        BY <2>2 DEF vars, dbVars, bookVars
      <3>2. OneOpen'
        BY <3>1 DEF LedgerInv, OneOpen, Open, LoopPc, Tickets
      <3>3. QED  BY <3>1, <3>2, OthersLedger
    <2>3. QED  BY <2>1, <2>2
  <1>4. Init /\ IInv => LedgerInv
    BY InitLedger
  <1>5. QED  BY <1>1, <1>3, <1>4, Invariance, PTL DEF SerialSpec

\* When transactions do not overlap and no administrator writes a stock level,
\* what is left of a category and what was sold of it add up to what there was,
\* whatever failed, was retried or crashed (orders.service.ts:224-373,
\* ticket.service.ts:32-92).
THEOREM LedgerIsExact ==
    ASSUME IsFiniteSet(Procs), \A patch \in Patches : "quantity" \notin DOMAIN patch
    PROVE  SerialSpec => []StockLedgerExact
  <1>1. LedgerInv => StockLedgerExact
    BY DEF LedgerInv, Ledger, StockLedgerExact
  <1>2. QED  BY <1>1, LedgerInvariance, PTL

\* Overselling needs overlap: one transaction at a time sells no more of a category
\* than there was, the promise that interleaved ones break
\* (orders.service.ts:247-262, ticket.service.ts:50-66).
THEOREM SerialNeverOversells ==
    ASSUME IsFiniteSet(Procs), \A patch \in Patches : "quantity" \notin DOMAIN patch
    PROVE  SerialSpec => []NeverOversold
  <1>1. ASSUME IInv, LedgerInv
        PROVE  NeverOversold
    <2>1. SUFFICES ASSUME NEW c \in Categories
                   PROVE  Sold(c) <= InitialRow[c].quantity
      BY DEF NeverOversold
    <2>2. row[c].quantity >= 0 /\ row[c].quantity \in Int
      BY <1>1 DEF IInv, RowsInv, RowsType, StockNeverNegative, TicketCategory
    <2>3. row[c].quantity + Sold(c) = InitialRow[c].quantity
      BY <1>1 DEF LedgerInv, Ledger
    <2>4. InitialRow[c].quantity \in Int
      BY ConstantsAssumption DEF TicketCategory
    <2>5. Sold(c) \in Nat
      <3>1. PICK f : f = [p \in Procs |-> SoldOf(p, c)]
        OBVIOUS
      <3>2. Sold(c) = Total(f)
        BY <3>1 DEF Sold, Total, FoldFunction, FoldFunctionOnSet, MapThenFoldSet
      <3>3. Sold(c) = Sum(f, Procs)
        BY <3>1, <3>2, TotalIs
      <3>4. \A x \in Procs : f[x] \in Nat
        BY <1>1, <3>1, SoldOfIsNat
      <3>5. QED  BY <3>3, <3>4, SumIsNat
    <2>6. QED  BY <2>2, <2>3, <2>4, <2>5
  <1>2. QED  BY <1>1, LedgerInvariance, PTL

-----------------------------------------------------------------------------
(* One order for a request, unless the gateway answers with an error         *)

\* A request that has its order never comes back to a transaction: nothing
\* but an error of the gateway leads there.
Single(p) ==
    /\ rpc[p] # "error"
    /\ rpc[p] = "sent" => details[p] # <<>>
    /\ pc[p] \in InTransaction => OrdersOf(p) = {}
    /\ Cardinality(OrdersOf(p)) <= 1

SingleInv == job \in Jobs /\ \A p \in Procs : Single(p)

\* A step that commits no order and begins no call.
LEMMA NoOrderSingle ==
    ASSUME SingleInv, UNCHANGED <<job, orders>>,
           \A q \in Procs :
              /\ rpc'[q] # "error"
              /\ rpc'[q] = "sent" => rpc[q] = "sent" /\ details'[q] = details[q]
              /\ pc'[q] \in InTransaction => pc[q] \in InTransaction
    PROVE  SingleInv'
  <1>1. ASSUME NEW q \in Procs
        PROVE  Single(q)'
    <2>1. OrdersOf(q)' = OrdersOf(q)
      BY DEF OrdersOf
    <2>2. QED  BY <2>1 DEF SingleInv, Single
  <1>2. QED  BY <1>1 DEF SingleInv

\* A transaction that commits an order.
LEMMA CommitSingle ==
    ASSUME IInv, SingleInv, NEW p \in Procs, pc[p] \in InTransaction,
           orders' = Append(orders, NewOrder(p)), UNCHANGED <<job, details>>,
           \A q \in Procs \ {p} : rpc'[q] = rpc[q] /\ pc'[q] = pc[q],
           rpc'[p] # "error", rpc'[p] = "sent" => details[p] # <<>>,
           pc'[p] \notin InTransaction
    PROVE  SingleInv'
  <1>1. NewOrder(p).by = p /\ orders \in Seq(Order) /\ Len(orders) \in Nat
    BY DEF NewOrder, IInv, BooksType
  <1>2. PICK n : n = Len(orders) + 1
    OBVIOUS
  <1>3. OrdersOf(p)' = OrdersOf(p) \cup {n}
    BY <1>1, <1>2 DEF OrdersOf
  <1>4. OrdersOf(p) = {}
    BY DEF SingleInv, Single
  <1>5. Cardinality(OrdersOf(p))' = 1
    <2>1. OrdersOf(p)' = {n}
      BY <1>3, <1>4
    <2>2. QED  BY <2>1, FS_Singleton
  <1>6. ASSUME NEW q \in Procs \ {p}
        PROVE  Single(q)'
    <2>1. OrdersOf(q)' = OrdersOf(q)
      BY <1>1 DEF OrdersOf
    <2>2. QED  BY <2>1 DEF SingleInv, Single
  <1>7. QED  BY <1>5, <1>6 DEF SingleInv, Single

\* What is sent to the gateway names the tickets of the request.
LEMMA CommitHasLines ==
    ASSUME IInv, OrdersInv, NEW p \in Procs, pc[p] = "commit", Kind(p) = "order",
           Tickets(p) # <<>>
    PROVE  details[p] # <<>>
  <1>1. Tickets(p) \in Seq(Lines) /\ Len(Tickets(p)) \in Nat
    BY DEF IInv, RequestsInv, RequestsType, Tickets, Job
  <1>2. PICK n \in Nat : n = Len(Tickets(p))
    BY <1>1
  <1>3. n # 0
    BY <1>1, <1>2
  <1>4. line[p] = n + 1 /\ EndsWith(details[p], Tickets(p), line[p] - 1)
    BY <1>2 DEF OrdersInv, Collected, InTransaction
  <1>5. line[p] - 1 = n
    BY <1>4
  <1>6. Len(details[p]) - n >= 0
    BY <1>4, <1>5 DEF EndsWith
  <1>7. details[p] \in Seq(DetailLines)
    BY DEF IInv, RequestsInv, RequestsType
  <1>8. QED  BY <1>3, <1>6, <1>7

LEMMA NextSingle ==
    ASSUME "gateway" \notin Faults,
           \A jobs \in Jobs, p \in Procs : jobs[p].kind = "order" => jobs[p].tickets # <<>>,
           IInv, SentInv, OrdersInv, SingleInv, [Next]_vars
    PROVE  SingleInv'
  <1>1. \A q \in Procs : rpc[q] # "error" /\ (rpc[q] = "sent" => pc[q] \notin InTransaction)
    BY DEF SingleInv, Single, SentInv, InTransaction
  <1>2. RequestsType
    BY DEF IInv, RequestsInv
  <1>3. ASSUME NEW p \in Procs, pc[p] \in InTransaction,
               UNCHANGED <<job, orders, rpc>>,
               \A q \in Procs \ {p} : pc'[q] = pc[q] /\ details'[q] = details[q]
        PROVE  SingleInv'
    BY <1>1, <1>3, NoOrderSingle
  <1>4. ASSUME NEW p \in Procs, StatementError(p), pc[p] \in InTransaction
        PROVE  SingleInv'
    <2>1. UNCHANGED <<job, orders, rpc, details>>
      BY <1>4 DEF StatementError, Throw, RetryOrFail, bookVars, loopVars
    <2>2. \A q \in Procs \ {p} : pc'[q] = pc[q]
      <3>1. CASE Throw(p, "failed")
        BY <1>2, <3>1 DEF Throw, Answer, RequestsType
      <3>2. CASE RetryOrFail(p)
        BY <1>2, <3>2 DEF RetryOrFail, Answer, RequestsType
      <3>3. QED  BY <1>4, <3>1, <3>2 DEF StatementError
    <2>3. QED  BY <1>3, <1>4, <2>1, <2>2
  <1>5. ASSUME NEW p \in Procs, Step(p)
        PROVE  SingleInv'
    <2>1. CASE ReadCategory(p)
      <3>1. pc[p] \in InTransaction /\ UNCHANGED <<job, orders, rpc, details>>
        BY <2>1 DEF ReadCategory, Throw, bookVars, loopVars, InTransaction
      <3>2. \A q \in Procs \ {p} : pc'[q] = pc[q]
        BY <1>2, <2>1 DEF ReadCategory, Throw, Answer, RequestsType
      <3>3. QED  BY <1>3, <3>1, <3>2
    <2>2. CASE CheckAndDecrement(p)
      <3>1. pc[p] \in InTransaction /\ UNCHANGED <<job, orders, rpc, details>>
        BY <2>2 DEF CheckAndDecrement, RetryOrFail, Throw, bookVars, loopVars, InTransaction
      <3>2. \A q \in Procs \ {p} : pc'[q] = pc[q]
        BY <1>2, <2>2 DEF CheckAndDecrement, RetryOrFail, Throw, Answer, RequestsType
      <3>3. QED  BY <1>3, <3>1, <3>2
    <2>3. CASE SelectForSave(p)
      <3>1. /\ pc[p] \in InTransaction /\ UNCHANGED <<job, orders, rpc, details>>
            /\ \A q \in Procs \ {p} : pc'[q] = pc[q]
        BY <1>2, <2>3 DEF SelectForSave, bookVars, loopVars, InTransaction, RequestsType
      <3>2. QED  BY <1>3, <3>1
    <2>4. CASE WriteRow(p) \/ SkipWrite(p)
      <3>1. pc[p] \in InTransaction /\ NextTicket(p)
        BY <2>4 DEF WriteRow, SkipWrite, InTransaction
      <3>2. /\ UNCHANGED <<job, orders, rpc>>
            /\ \A q \in Procs \ {p} : pc'[q] = pc[q] /\ details'[q] = details[q]
        BY <1>2, <3>1 DEF NextTicket, bookVars, loopVars, RequestsType
      <3>3. QED  BY <1>3, <3>1, <3>2
    <2>5. CASE CommitOrder(p) /\ ~StatementError(p)
      <3>1. /\ pc[p] = "commit" /\ Kind(p) = "order"
            /\ orders' = Append(orders, NewOrder(p)) /\ UNCHANGED <<job, details>>
            /\ rpc' = [rpc EXCEPT ![p] = "sent"]
            /\ pc' = [pc EXCEPT ![p] = "awaiting"]
        BY <2>5 DEF CommitOrder, loopVars
      <3>2. /\ rpc'[p] = "sent" /\ pc'[p] = "awaiting"
            /\ \A q \in Procs \ {p} : rpc'[q] = rpc[q] /\ pc'[q] = pc[q]
        BY <1>2, <3>1 DEF RequestsType
      <3>3. Tickets(p) # <<>>
        BY <3>1 DEF SingleInv, Tickets, Kind
      <3>4. QED
        BY <3>1, <3>2, <3>3, CommitHasLines, CommitSingle DEF InTransaction
    <2>6. CASE CommitAdminOrder(p)
      <3>1. /\ pc[p] = "commit" /\ orders' = Append(orders, NewOrder(p))
            /\ UNCHANGED <<job, details, rpc>>
            /\ pc' = [pc EXCEPT ![p] = "done"]
        BY <2>6 DEF CommitAdminOrder, Answer, loopVars
      <3>2. pc'[p] = "done" /\ \A q \in Procs \ {p} : pc'[q] = pc[q]
        BY <1>2, <3>1 DEF RequestsType
      <3>3. QED  BY <1>1, <3>1, <3>2, CommitSingle DEF InTransaction
    <2>7. CASE (CommitOrder(p) /\ StatementError(p)) \/ AdminOrderFails(p)
      BY <1>4, <2>7 DEF CommitOrder, AdminOrderFails, InTransaction
    <2>8. CASE CommitTicket(p)
      <3>1. /\ pc[p] \in InTransaction /\ UNCHANGED <<job, orders, rpc, details>>
            /\ \A q \in Procs \ {p} : pc'[q] = pc[q]
        BY <1>2, <2>8 DEF CommitTicket, Throw, Answer, bookVars, loopVars, InTransaction,
           RequestsType
      <3>2. QED  BY <1>3, <3>1
    <2>9. CASE ReceiveUrl(p)
      <3>1. /\ UNCHANGED <<job, orders, details>>
            /\ rpc' = [rpc EXCEPT ![p] = "none"] /\ pc' = [pc EXCEPT ![p] = "done"]
        BY <2>9 DEF ReceiveUrl, Answer, bookVars, loopVars
      <3>2. /\ rpc'[p] = "none" /\ pc'[p] = "done"
            /\ \A q \in Procs \ {p} : rpc'[q] = rpc[q] /\ pc'[q] = pc[q]
        BY <1>2, <3>1 DEF RequestsType
      <3>3. QED  BY <1>1, <3>1, <3>2, NoOrderSingle DEF InTransaction
    <2>10. ~ReceiveError(p)
      BY <1>1 DEF ReceiveError
    <2>11. QED
      BY <1>5, <2>1, <2>2, <2>3, <2>4, <2>5, <2>6, <2>7, <2>8, <2>9, <2>10 DEF Step
  <1>6. ASSUME NEW p \in Procs, Gateway(p) \/ CallLost(p)
        PROVE  SingleInv'
    <2>1. ~GatewayFails(p)
      BY DEF GatewayFails, AnswerRpc, SingleInv, Single
    <2>2. PICK r \in {"ok", "lost"} : AnswerRpc(p, r)
      BY <1>6, <2>1 DEF Gateway, GatewayCreatesSession, CallLost
    <2>3. UNCHANGED <<job, orders, pc, details>> /\ rpc' = [rpc EXCEPT ![p] = r]
      BY <2>2 DEF AnswerRpc, loopVars
    <2>4. rpc'[p] = r /\ \A q \in Procs \ {p} : rpc'[q] = rpc[q]
      BY <1>2, <2>3 DEF RequestsType
    <2>5. QED  BY <1>1, <2>3, <2>4, NoOrderSingle
  <1>7. CASE \/ \E c \in Categories, patch \in Patches : UpdateTicketCategory(c, patch)
             \/ Crash \/ Terminating \/ UNCHANGED vars
    <2>1. UNCHANGED <<job, orders, details, rpc>>
      BY <1>7 DEF UpdateTicketCategory, Crash, Terminating, vars, bookVars, loopVars
    <2>2. \A q \in Procs : pc'[q] \in InTransaction => pc[q] \in InTransaction
      BY <1>7 DEF UpdateTicketCategory, Crash, Terminating, vars, InTransaction
    <2>3. QED  BY <1>1, <2>1, <2>2, NoOrderSingle
  <1>8. ASSUME NEW p \in Procs, DbFailure(p) \/ DeadlockAbort(p)
        PROVE  SingleInv'
    BY <1>4, <1>8 DEF DbFailure, DeadlockAbort, Blocked, InTransaction
  <1>9. QED  BY <1>5, <1>6, <1>7, <1>8 DEF Next

\* A request makes a second order only after an error of the gateway: where the
\* gateway refuses nothing, and every order has a line for it to accept, failed
\* statements, retries, lost calls and crashes leave one order at most
\* (orders.service.ts:224-373).
THEOREM OneOrderUnlessRefused ==
    ASSUME "gateway" \notin Faults,
           \A jobs \in Jobs, p \in Procs : jobs[p].kind = "order" => jobs[p].tickets # <<>>
    PROVE  Spec => []OneOrderPerRequest
  <1>1. Init => SingleInv
    <2> SUFFICES ASSUME Init
                 PROVE  SingleInv
      OBVIOUS
    <2>1. \A p \in Procs : OrdersOf(p) = {}
      BY DEF Init, OrdersOf
    <2>2. \A p \in Procs : Cardinality(OrdersOf(p)) = 0
      BY <2>1, FS_EmptySet
    <2>3. QED  BY <2>1, <2>2 DEF Init, SingleInv, Single
  <1>2. IInv /\ SentInv /\ OrdersInv /\ SingleInv /\ [Next]_vars => SingleInv'
    BY NextSingle
  <1>3. BooksInv => SentInv
    BY DEF BooksInv
  <1>4. SingleInv => OneOrderPerRequest
    BY DEF SingleInv, Single, OneOrderPerRequest
  <1>5. QED
    BY <1>1, <1>2, <1>3, <1>4, Invariance, OrdersInvariance, PTL DEF Spec
=============================================================================
