# Eventi in TLA+

Eventi sells concert tickets: a NestJS API (`apps/eventi`), a payment gateway in
front of Stripe (`apps/payment-gateway`), a mail service (`apps/notification`)
and a Flutter scanner (`eventi_mobile`), over PostgreSQL and RabbitMQ. This
directory models the parts of it in which order, concurrency and failure decide
what happens: TLA+ modules, TLC configurations and TLAPS proofs.

Paths are relative to the root of the repository; *orders.service.ts* stands for
`apps/eventi/src/modules/orders/orders.service.ts`, and so on.

## 1. The system

| Component | State | Operations | Talks to |
|---|---|---|---|
| Reservation (`orders.service.ts`, `ticket.service.ts`) | rows of `ticket_category`, `order`, `order_ticket_category`, `ticket`; per request: loop variables | createOrder, createOrderByAdmin, createTicket, updateTicketCategory | PostgreSQL (transactions), gateway (`order_created`, request/response) |
| Payment gateway: sessions (`stripe.service.ts`) | checkout sessions at Stripe | createCheckoutSession | Stripe, API |
| Payment gateway: webhook | `payment` rows | webhookStripe (completed, failed, canceled) | events `payment-billed`, `payment-failed` to the API |
| Settlement (`orders.service.ts`) | status of orders, tickets, stock | handleOrderBilled, handleOrderFailed, sendTicketOrderToMailer | PostgreSQL, notification |
| Registration (`orders.service.ts`, `register.controller.ts`) | `register.is_used`, the one-to-one relation with an order | register, createOrderByRegister | Reservation |
| Tickets (`ticket.service.ts`) | tickets, QR codes | scanTicket, updateTicket, … | scanner |
| Authentication (`auth.service.ts`) | user tokens, blacklist, second factor | login, loginM2fa, refreshToken, logout, … | users |
| Users (`users.service.ts`) | accounts, login data, roles, permissions, recovery and confirmation tokens | creation, update, deletion, assignments, password by token | jobs, authentication |
| Jobs (`job.service.ts`) | the same rows | clear expired tokens, set (in)active users, at midnight | – |
| Guards (`common/guards`) | – | who may call a route | every controller |
| Files (`file.service.ts`, `s3.service.ts`) | S3 objects, `file`, `file_association` | upload, remove | S3, PostgreSQL |
| Concerts, artists, venues (`concert.service.ts`) | rows of ten tables, `concert_artist` | creation, update, deletion, line-ups, badges | PostgreSQL, notification |
| Listings (`get…` of five services) | – | filters, pages | PostgreSQL |
| Notification, statistics, mobile scanner | none of their own | e-mail, read-only SQL, screens | – |

### What is hard, and what makes each part correct

* **Reservation.** Requests run concurrently in one Node process (and in as many
  as are deployed); each transaction runs at READ COMMITTED. `findOne` with an
  optimistic lock compares a version *read just before*, and `save()` then
  writes absolute values by primary key. A retry loop surrounds the transaction
  *and* the call to the gateway, and two accumulators are declared outside of it.
  Correct means: stock never negative, no more sold than there was, what
  Stripe charges is what the order says, one order per request, every request
  answered.
* **Settlement.** Webhooks are delivered at least once and in any order, events
  over RabbitMQ at most once (no acknowledgement), and handlers run concurrently.
  What a message about a failure carries is the payment intent, not the session.
  Correct means: an order is settled once, its stock is released at most once and
  never after it was billed, one ticket per place bought.
* **Accounts.** Tokens are found, then inserted; attempts are counted from values
  read before; two entities are saved as they were read; three jobs run at one
  midnight. Correct means: who refreshes after a logout is refused, a mailed token
  leaves the row for good, a count is never above what happened, and no overlap of
  sign-ins, assignments and deletions leaves half a user or a reference to nobody.
* **Catalogue.** `assignArtistToConcert` and `removeArtistFromConcert` save a concert and,
  by cascade, all its artists as they were read. Correct means: references hold, what
  comes back or leaves does so only where requests overlap (the removal, it turns out,
  takes out nobody it has read).
* **Media.** Limits are checked before awaits; S3 and the database are written by separate
  statements, each of which may fail. Correct means: objects, files and associations
  agree when nobody is at work on them or was stopped at it, and repeated uploads stay
  bounded.
* **Registration, tickets.** The mark `is_used` is written after the order and not awaited.
  Correct means: one order per registration and address, and a mailed code lapses only by
  a change of what it is judged by.
* **Listings.** Every filter binds a parameter of the whole statement by name, and pages
  are cut by offset. Correct means: a filter more never gives a row more, and a client
  that pages through a table misses nothing that was there throughout.

Every hazard we found is listed, at its line, in `PROJECT.json` under `hazards`,
with the properties that cover it, or the reason why none does.

## 2. The modules

| Module | What it is |
|---|---|
| `TicketRows` | pure operators: what TypeORM's `save` and `update` do to a row |
| `Reservation` | the state machine of concurrent reservations |
| `MCReservation` | small instances of it for TLC |
| `ReservationProofs` | the theorems about it and their proofs |
| `OrderPromise` | abstract: what the settlement of orders promises, one atomic step per handler |
| `Settlement` | the state machine of payments, webhooks, messages and their handlers |
| `MCSettlement` | small instances of it for TLC |
| `SettlementProofs` | its types, messages, locks, effects and stock, and that it implements `OrderPromise` |
| `SumProofs` | sums over finite sets, for the folds the models count with |
| `Access` | the guards and the decorators of every route |
| `Accounts` | the state machine of users, sessions, mailed tokens, roles, permissions and the jobs of midnight |
| `MCAccounts` | small instances of it for TLC |
| `AccountsProofs` | its types: what a request holds at each statement |
| `AccountsSafetyProofs` | its safety: the jobs, the second factor, mailed tokens |
| `AccountsTablesProofs` | its tables and sessions: references, addresses, creation, refreshes, rows per device |
| `Catalogue` | the state machine of concerts and what belongs to them |
| `Media` | pictures, over `Catalogue` |
| `Registration` | registrations, their orders, tickets and scanning, over `Catalogue` |
| `Listings` | filters and pages of the listings, over `Catalogue` |
| `Backoffice` | the four composed: the same tables, the same process |
| `MCBackoffice` | small instances of it for TLC |
| `BackofficeProofs` | its types, what a step does to the tables, and the references |
| `BackofficeSafetyProofs` | its safety: line-ups, tickets, registrations, pictures, listings |

`Reservation` ends where `Settlement` begins: a checkout session whose lines are those of
a pending order (that they are is `ChargeMatchesOrder`). Both work on rows of `TicketRows`.

### `TicketRows`

A `ticket_category` row is a record of the four columns anybody reads or writes
concurrently: quantity, price, hide, version. TypeORM is not part of the
repository; the operators are its behaviour as the services use it. `save(entity)`
re-reads the row (`ChangedColumns`), issues no UPDATE if nothing differs
(`MaySkipUpdate`) and otherwise writes the *absolute* values of the columns that
differ (`SavedRow`) where the primary key matches. Whether a stale version in
memory counts as a difference, and is then written back, is left open
(`NextVersions`, `MaySkipUpdate`): the properties hold for both.

### `Reservation`

Each process is one HTTP request. `job` says what it asks for and which handler
serves it; everything else follows the code:

| Code | Model |
|---|---|
| `for … findOne` (orders.service.ts:229-245) | `ReadCategory`; hidden categories are not found by customers |
| `findOne` with `lock: optimistic`, the test, the decrement (247-259) | `CheckAndDecrement` |
| `save` (260) | `SelectForSave`, then `WriteRow` (which waits for the row lock) or `SkipWrite` |
| `totalAmount +=`, `ticketDetails.push` (262-274) | `NextTicket`, a part of the write |
| inserting the order and its lines, COMMIT, `send` (277-352) | `CommitOrder` |
| the gateway and Stripe (stripe.service.ts:39-98) | `GatewayCreatesSession`, `GatewayFails` |
| `return { url, order }` (356) | `ReceiveUrl` |
| the catch block (360-374) | `RetryOrFail`, reached from the transaction and, by `ReceiveError`, from the call |
| createOrderByAdmin (378-550) | the same loop, `AdminOrderFails`, `CommitAdminOrder` |
| createTicket (ticket.service.ts:29-94) | the same loop for one ticket, `CommitTicket` |
| updateTicketCategory (ticket.service.ts:276-294) | `UpdateTicketCategory` |

The database is `row` (committed), `dirty` (the newest version) and `lock` (the
row lock a writer holds until COMMIT or ROLLBACK). READ COMMITTED is `Visible`.
`DeadlockAbort` is PostgreSQL ending one transaction of a cycle of waits,
`DbFailure` any other failing statement, `CallLost` a message taken from the
queue by a gateway that died, `Crash` the death of the API process (transactions
roll back, calls that left it go on).

Inserting the order, its lines and (for createTicket) the ticket is one step with
COMMIT: nobody else sees or blocks on these rows before it. The one exception, the
unique `register_id`, is tested in that step.

**Abstractions and assumptions.** Amounts are before tax (both sides apply the
same rate). A NULL quantity counts as 0, as JavaScript compares it. Administrators
enter no negative stock (`UpdateTicketCategoryDto` would accept one): this is
`ConstantsAssumption`, and the only thing that `StockNeverNegative` needs of them.
`reply = "rejected"` stands for the two errors that are not retried. A COMMIT
either succeeds or fails: the client learns which. A customer's order without tickets
is accepted by the body and refused by Stripe; an administrator's order *with*
tickets always fails, because its `order_ticket` rows are built before the tickets
have identifiers (orders.service.ts:516-520).

### `Settlement`

| Code | Model |
|---|---|
| the customer at Stripe | `Pay`, `AttemptFails`, `Cancel`; `events` is what Stripe has not been answered for |
| webhookStripe, completed (stripe.service.ts:116-148) | `SavePayment`, then `EmitBilled`; the payment's identifier travels with the message |
| the metadata, which is set on the session only (73-88) | `IntentOrder` |
| webhookStripe, failed and canceled (150-180) | `EmitFailed` |
| the queue to the API | `queue`, a set of messages taken in any order (several API processes may consume it); `TakeMessage`, `LoseMessage` |
| handleOrderBilled (orders.service.ts:552-669) | `CompleteOrder` (insert the tickets, update the status), `SendInvoice` (emit the invoice, start the mail), `CommitBilled` |
| handleOrderFailed (671-738) | `ParseFails` for a message without order and products, otherwise `ReadOrder`, `UpdateStatus` or `RejectCanceled`, `ReadCategory` per line, `SelectForSave`, `SaveLine` per line, `CommitFailed` |
| sendTicketOrderToMailer (871-953), not awaited | `MailTickets`, `MailFindsNothing` |

Orders have the same `committed / newest / lock` triple as ticket categories. A handler
that throws is over and its message gone: the consumer does not acknowledge, so
nothing is delivered again. `MailFindsNothing` ends the API process, since nobody
handles the rejection and Node ends a process for it. `ticketSets` and `releases` record,
for the properties, which message each committed transaction served.

*The metadata.* The webhook of a failure reads order and products from the metadata of the
payment intent, and createCheckoutSession sets metadata on the session only (no
`payment_intent_data`). The message then has neither (`Unreadable`), and
`JSON.parse(undefined)` throws before anything is read (`ParseFails`). `Annotated` is the set
of orders whose intent has the metadata all the same: `{}` is what this code produces, and
the run `settlement_failed` uses it. Nothing else reaches handleOrderFailed's transaction,
which is half of that component; the passing runs therefore let some or all orders be
annotated, as they would be if somebody wrote the metadata at Stripe or the code passed
it on. Their properties hold for `{}` as well, where an unreadable message is consumed
without effect (the same three configurations with that value pass, with far fewer
states). The theorems hold for every `Annotated`.

Assumptions: foreign keys take share locks that do not conflict with the updates modelled;
no stock is negative at the start;
`order.register_id` never matters in handleOrderBilled, because the payment of such an order
cannot be saved (`user_id` is NOT NULL), which `ByRegister` models.

### `Access`

Pure operators: a table of each controller's routes with what their decorators ask, and
`NeedsUser` (JwtAuthGuard) and `RoleAllowed` (RolesGuard), which `Accounts` and `Catalogue` use as
guards of their requests. A handler's decorator replaces its class's. `PermissionGuard` is
installed by no module and no route, so permissions decide nothing; they matter as rows.

### `Accounts`

A request is a handler with its parameters; `pc` names its next statement and each statement is
an action. `whom`, `shown`, `signed`, `entity` and `diff` are its local variables, `Answer` its end.

| Code | Model |
|---|---|
| JwtAuthGuard, JwtStrategy, RolesGuard | `Start`, then `Guard`: the user is read again at each request, the status is not |
| login (auth.service.ts:61-170) | `Verify` / `VerifyFails`, `WriteCode`, `StampLogin`, `FindToken`, `InsertToken` or `UpdateToken` |
| loginM2fa (172-277) | `CodeUnknown`, `CodeLocked`, `CodeWrong`, `CodeAccepted`; its updates that nobody awaits are in `background` until `WriteInBackground` |
| refreshToken and its strategy | `ReadToken` / `ReadTokenFails`, `StampActivity`, then the token's row as in login |
| logout | `Revoke` |
| password recovery, confirmation of an address (438-538) | `ReadAddress`, `WriteRecovery` or `WriteConfirmation`; `ReadRecovery`, `RedeemRecovery`, `ReadConfirmation`, `RedeemConfirmation` |
| createUser (users.service.ts:157-204), also register | `FindRole`, then `InsertUser`, one transaction |
| updates and deletions of accounts, login data, roles, permissions | one action each, with what their constraints refuse |
| currentUserDeactivate (860-874) | `ReadOwn`, `Deactivate` |
| assignPermissionToUser, assignRoleToUser (634-657, 883-909) | `ReadAccount`, `ReadAssigned`, `SelectForSave`, `Save` or `AssignmentBreaks` |
| the jobs (job.service.ts) | `Midnight` makes them due, `Job` runs one, in any order |

`otp` is the option of the shared TOTP object, which login sets and a restart resets.
Four histories serve the properties only: `ended` counts what ended a user's sessions,
`saw` is that count when a request read its token, `redeemed` the mailed tokens that
were used, `wrong` the wrong codes given.

Tokens are times: two refresh tokens signed for a user within one unit are equal, as they are in the
code within a second. Codes are right or wrong (`arg.right`), passwords compare equal or not, and
`Unhashed` is what updateUserLoginData and createUserLoginData store: the password as it was typed.
Bodies have the columns of their DTOs; the others that the pipe lets through are not modelled here.

Left out because no route calls them: enabling and disabling the second factor,
blocking, unblocking, activating and deactivating other accounts, updateUserPassword,
changePassword, removePermission…, assignPermissionToRole, blackList, createUserAccount,
getUserPermissions, isConfirmationTokenExpired.

### `Catalogue`, `Media`, `Registration`, `Listings`, `Backoffice`

`Catalogue` describes fifteen tables by data (`Entities`: columns, foreign keys, the
unique constraint, and whether a hook formats the name) and gives `Creates`, `Updates`
and `Deletes` their meaning once; each operation of ConcertService is an instance of
one. `update()` does not run the hooks; `save()` does. Line-ups are the exception:
`ReadConcert`, `ReadArtist`, `SelectForSave`, `Save` are the four statements of
assignArtistToConcert and removeArtistFromConcert, and `Save` inserts again what was
deleted meanwhile, since the relation cascades. The removal keeps everybody it read: the
identifier in the path is text, no pipe parses it, and `!==` finds it different from every
number (concert.service.ts:963-965). `badges` are the badges mailed; checkConcertRole
writes nothing and is the operator `AcceptsBadge`.

In `Media` an object, its file row and its association share a key. `CountPictures` is
the test before the uploads; `PutObject`, `InsertFile`, `InsertAssociation` and, for
removal, `FindPicture` or `FindImage`, `DeleteObject`, `DeleteFile` are the statements
after it. `PutFails` and `DeleteFails` are the store that is not reached;
`InsertFileFails`, `InsertAssociationFails` and `DeleteFileFails` are statements of the
database that fail after the store was written. `cut` remembers the keys at which one of
these, or a crash, stopped a request, until a removal of the picture gets to its end.
The branch of uploadAndAssignImage that overwrites a picture (file.service.ts:135) is
never reached: with a maximum of one the test at line 127 refuses first.

`Registration` has the checks of createOrderByRegister as one read (`MayOrder`; the
access code is refused when compare() finds it *right*, as orders.service.ts tests it),
then `PlaceOrder` or `OrderFails`, then `MarkUsed`. `mailed` are tickets with a signed
code. scanTicket is the operator `AcceptsTicket`: the ticket is there and has that code
still; the tests of use and dates are commented out (ticket.service.ts:509), and a scan
writes nothing.

`Listings` is data too: for each listing the conditions of its query builder (filter,
column, comparison, name of the bound parameter), what the DTO refuses, and which
parameters make the statement fail. Three things it shows in passing: the listing of a
user's tickets always fails, because it names a column tickets lack (`user_id`); the
filter by e-mail of orders names an alias that is not joined; the filter by genre of
artists a column that does not exist. `Page` and `NextPage` are a client that pages
while rows change.

`Backoffice` puts them on the same tables in one process: a crash ends every request of
all of them. Its assumptions say what the constants stand for, and TLC evaluates them:

* `BoundsAssumption`: finitely many requests at a time and identifiers, which are
  numbers; what the hook makes of a name is a name.
* `NothingAssumption`: NULL, a missing row and "no listing" are none of the values they
  stand beside.
* `TablesAssumption`: the tables at the start keep their constraints and references;
  nobody has registered yet, and no order was made with a registration.
* `OffersAssumption`: a request is one that `IsRequest` describes. The pipe of main.ts:41
  has no whitelist, so the body of an update may name any column of its table, the code
  of a ticket included. The body of a creation has the columns of its DTO, and a
  registration names a concert and starts unused: a body of POST /registers that sets
  `is_used`, which the pipe lets through too, is not modelled, nor is a removal of an
  empty list of images. An upload has a file.

Left out because nobody calls them: uploadFile, uploadFiles, removeFile,
getFile, getFileByKey and assignFileToEntity of FileService; getOrderByQrCode,
getOrderByUserId and getRegisterByConcertId of OrdersService.

## 3. What is checked

All runs of `MCReservation` use two requests and two categories with two places each. Two requests
are enough for every pair of overlapping transactions, for a deadlock, and for a
repeated registration; two categories for opposite lock orders; two places for
the boundary between "enough" and "not enough"; and two attempts (three in some
runs) for what one failed attempt leaves to the next. `MCReservation` gives six
pairs of requests, one for each interesting mixture (`Cross`, `Twice`, `Mixed`,
`Empty`, `Registered`, `Rivals`).

| Run | Question | Result |
|---|---|---|
| `reservation_safety` | all jobs, 2 attempts, one administrator update, every fault | holds, 1.15 million states |
| `reservation_serial` | 3 attempts, every fault but lost calls, transactions that do not overlap | the ledger is exact |
| `reservation_liveness` | fair scheduling, failing statements and gateway errors | every request is answered |
| `reservation_oversold` | overlapping transactions, no fault at all | `NeverOversold` violated |
| `reservation_products` | overlapping transactions, no fault at all | `SessionProductsUnique` violated |
| `reservation_one_order` | gateway errors | `OneOrderPerRequest` violated |
| `settlement_safety` | two orders over two categories in opposite orders, one of them by registration, two failed attempts to pay, one other sale, an early mail, handlers that overlap and deadlock | holds, 750 000 states |
| `settlement_messages` | one failed attempt, any one fault | holds, also the liveness property |
| `settlement_serial` | an order that names a category twice, any one fault, transactions that do not overlap | implements `OrderPromise` |
| `settlement_failed` | one order, one failed attempt, the metadata as the code sets it, no fault | `FailedAttemptIsSettled` violated |
| `accounts` | ten workloads on the tables of users, two requests at a time, midnights, a crash, time | holds, 456 000 states |
| `backoffice` | ten workloads on the catalogue, two requests at a time, store faults, failing statements, crashes; every listing with every two parameters | holds |

Two handlers at a time give every pair of overlapping transactions; two failed attempts
give two releases of one order, or of two, and their deadlock. Each kind of fault
happens at most once in a behaviour, and `MaxFaults` bounds their number: what goes
wrong here needs one fault (a second delivery, a second process) and an interleaving.
Handlers are interchangeable, so the safety runs use their symmetry; the liveness run
does not.

`MCAccounts` and `MCBackoffice` give workloads: sets of requests a behaviour draws from,
with the number of them (two to seven), units of time, midnights and faults. Each
workload is one question (sessions, expiry, second factor, guesses, recovery,
confirmation, jobs, directory, rights, sign-up; line-ups, sections, crew, badges,
pictures, gallery, portraits, registering, tickets, paging), because operations on
unrelated rows multiply states and show nothing together. Two requests at a time are
every overlap of two; three or four in all are what one overlap leaves to a later
request; seven guesses pass the limit of attempts (4, then `CodeLocked`). `MaxTime` is 2
with lives of 1: before, at and after each boundary. Three files for a concert that
allows four make two overlapping uploads exceed it. Filters take two values and NULL, so
that each comparison differs from each other one; two parameters are every collision of
names. The run of `backoffice` has no deadlock apart from `Terminating`, when all that
was offered is answered.

### Properties that hold

* `StockNeverNegative`: neither committed nor uncommitted stock goes below zero,
  although stale values are written: the value tested is the value saved.
* `StockLedgerExact`: with `SerialSpec` (one open transaction at a time), stock and
  sales add up. With the violation below this pins the cause: overlap, not the
  retry loop and not the failures, makes the ledger wrong.
* `OrderEndsWithRequest`, `ChargeMatchesOrder`, `OrderTotalAddsUp`: the variables that
  outlive a failed attempt inflate the order, its total and the session in the same
  way; the three never disagree, and the request is always the last part.
* `UrlIsForOwnLastOrder`: the URL a client gets belongs to its newest order.
* `OrdersBoundedByAttempts`: no more orders than failed attempts, plus one.
* `EveryRequestAnswered` (liveness).
* `StatusMatchesEffects`: however handlers of one order interleave, its status, tickets and
  release are committed together. (It does *not* say that an order is not both released and
  billed: the code does that.)
* `OneEffectPerMessage`: repeated webhooks make several payments, and each payment at most one
  set of tickets; each notice of failure at most one release. (That two payments of one
  order make two sets of tickets is what the code does.)
* `StockWithinBounds`: lost updates between releases and sales lose places, but never
  invent them.
* `TicketsWereInvoiced`: the invoice leaves before the commit, never after it.
* `PaidOrderGetsTickets` (liveness): with the gateway dying anywhere, Stripe's retries bring
  the tickets. The property excuses a lost message, the death of the API and a failed
  transaction, because nothing delivers a message twice.
* `PromiseKept` (refinement): without overlap each handler is one step of
  `OrderPromise`. The promise is weaker for an order that names a category twice (which
  retries of createOrder produce): it gives back at least one of the lines, because two
  entities of one row overwrite each other.
* `RefreshRevivesOnlyByOverlap`: an ended session comes back only by a refresh that had
  verified its token before the end. That such a refresh does revive it is what the code
  does.
* `RowsPerDeviceBounded`: overlapping sign-ins leave several rows for a device, never
  more than run at once.
* `RedeemedTokensAreGone`: a mailed token that was used never returns to its row,
  whatever mail or update follows. (Two requests that compared it before may both use
  it.) The comments give a recovery token 10 minutes, the code 240; of a confirmation
  token the age is never looked at.
* `SecondFactorLock`: the count of attempts, written late from old values, can be too
  low, never too high, and stops at the limit.
* `NoOrphanRows`, `CreatedWhole`: see the foreign keys and the transaction of
  createUser. Deleting a user is commented as deleting all related data
  (users.service.ts:327); rows of `user_token` and `order` stop the deletion instead.
* `MidnightJobsAgree`: the three jobs commute on the status of every user, although
  setActiveUsers overwrites any status. A blocked user who was active lately ends ACTIVE
  in every order: that is what the job does.
* `ReferencesHold`, `RowsComeBackOnlyByOverlap`, `ArtistsLeaveOnlyByOverlap`: what the
  cascading `save()` may do to a line-up. An artist leaves only by the save of a request
  that had read the line-up before the artist entered it; no request takes out anybody
  it has seen.
* `StoreMatchesFiles`: outside of a request, objects, files and associations are the same
  set, also after failures of the store, except at the keys where a crash or a failing
  statement of the database stopped a request.
* `PicturesBounded`: overlapping uploads exceed the limit by a factor of at most the
  requests that run at once.
* `OneOrderPerAddress`, `UsedMeansOrdered`: the unique columns of `register` and `order`
  hold what the checks do not; a registration with an order cannot be deleted, so
  registering again does not give another order.
* `CodesLapseOnlyByChange`: a mailed ticket or badge that would be accepted stops being so
  only when its row is deleted, when an update names its code (PATCH /tickets/:id may,
  although its DTO has no code), the concert of the position or the end of the concert, or
  when an assignment writes back that the concert was over. Other updates, cascades,
  registrations and saves of stale entities do not touch it.
* `FilterNarrows`, `RangesAgree`: conditions of one listing do not replace each other,
  except the parameter `is_active` of the customers' listing, which shares its name with
  the fixed condition. Dates of tickets have one bound each.
* `WalkExact`: a row is missed only after a deletion, seen twice only after a row of lower
  identifier came (back) into the table.

### Findings

1. **Overselling** (`NeverOversold`). Both services say they use optimistic
   locking. The version is compared by a SELECT, before and apart from the UPDATE, and the
   UPDATE does not mention it. Two requests that read the same row both pass, and
   the second write erases the first.
2. **Paying twice for one ticket** (`SessionProductsUnique`). `ticketDetails` and
   `totalAmount` are not reset by a retry. One statement that fails on the second ticket
   of an order (a deadlock, the version check) makes the first appear twice in the order
   and in the session. The gateway's DTO declares that duplicates are not allowed;
   nothing validates it.
3. **Several orders for one request** (`OneOrderPerRequest`). The gateway call is
   inside the try block of the retry loop, after COMMIT. Each failure makes
   another order and takes the tickets once more; the earlier orders stay
   pending for ever.
4. **A failed payment gives nothing back** (`FailedAttemptIsSettled`). The metadata with
   the order and its products is put on the checkout session; the events of a failed or
   canceled payment carry the payment intent, whose metadata is empty. The message has the
   order NaN, handleOrderFailed throws at `JSON.parse(undefined)`, and the order stays
   pending with its places taken. Two more faults wait behind that one and are in the
   model, unreachable for this code: the status is tested once and then updated without a
   condition, so that two notices release the places twice; and a canceled payment writes
   a status that the enum does not have.

One more was met while modelling and shows in a property that holds: removeArtistFromConcert
compares the text of the path with numbers by `!==`, and its route answers "Artist removed
from concert" (artist.controller.ts:84) after saving the line-up as it was read.
`ArtistsLeaveOnlyByOverlap` and its theorem `ArtistsLeave` say the rest: a removal takes out
nobody it has seen, the artist it names included.

### Fairness

`Fairness` is weak fairness of each request's own steps, of the gateway's answer and of
deadlock detection: Node runs callbacks that are ready, and PostgreSQL answers and
breaks deadlocks. Administrators and faults are not fair, and nothing says a row lock is
granted to a particular waiter. Lost calls and crashes are left out of the liveness run:
`send()` has no timeout, so a request whose call was lost is never answered, and the
code does not promise it. In `Settlement` it is weak fairness of delivering a completed
session until it is answered, of taking its message, of each handler's own steps and of
deadlock detection; customers, mails and faults are not fair. `NoticedSpec`, for
`settlement_failed`, adds that the event of a failed attempt is delivered and its message
taken or thrown upon, so that the counterexample is not a system that stopped. `Accounts` and
`Backoffice` state none: their statements do not wait for each other, so an answer
depends on the database alone.

## 4. What is proved

Every property of a passing run except the two liveness properties is stated by a
theorem, for every value of the constants. Two of the four properties that a run finds
violated are proved for the behaviours without the cause of the violation. Unless a
theorem says otherwise it rests only on the named assumptions of the modules, which TLC
evaluates on every run.

### `Reservation`

`ReservationProofs` proves, for any number of requests, categories, places,
registrations, attempts and updates:

| Theorem | Property |
|---|---|
| `TypeCorrect` | `Spec => []TypeOK`, which includes `retryCount <= MaxRetries` |
| `StockSafety` | `Spec => []StockNeverNegative` |
| `ChargeSafety` | `Spec => []ChargeMatchesOrder` |
| `UrlSafety` | `Spec => []UrlIsForOwnLastOrder` |
| `OrdersAreWhole` | `Spec => []OrderEndsWithRequest` |
| `OrdersAreCounted` | `Spec => []OrdersBoundedByAttempts` |
| `OrdersAddUp` | `Spec => []OrderTotalAddsUp` |
| `LedgerIsExact` | `SerialSpec => []StockLedgerExact` |
| `SerialNeverOversells` | `SerialSpec => []NeverOversold` |
| `OneOrderUnlessRefused` | `Spec => []OneOrderPerRequest`, when the gateway answers no error |

* *Types.* The inductive invariant `IInv` strengthens `TypeOK` by what is true of each
  program counter. `LoopInv` says that a request inside the loop is at an existing ticket
  (otherwise `Target` is meaningless) and that it has attempts left: a request whose last
  attempt failed is done, which bounds `retryCount`. `EntityNeverNegative` says that an
  entity waiting to be saved holds a non-negative quantity. This is the reason for
  `StockNeverNegative`: the committed value at the time of the write may be anything, and
  it is the value *in memory* that was tested and is written.
* *Orders and sessions.* `BooksInv`, inductive relative to `IInv`: while a call is under
  way (`SentInv`), the request is waiting for it or died, and `current` is its order with
  exactly the lines in `ticketDetails`, so whatever session the gateway makes matches;
  `CurrentInv` says that `current` is the last order of the request; `UrlInv` that an
  answered call has a session. Orders are only appended, so a session once right stays
  right.
* *Lines and attempts.* `Collected`: the last lines in `ticketDetails` are the lines of
  the request up to the ticket it is at, whatever stands before them. `Counted`: its
  orders number at most its failed attempts, plus one while it awaits or has received an
  answer. A retry adds to the second count before it can add to the first.
* *Totals.* `TotalsInv`: at every moment `totalAmount` is the sum of `ticketDetails`. The
  two accumulators are wrong together after a retry, so the order is consistent all the
  same.
* *The ledger.* `LedgerInv` is about the one transaction that is open (`OneOpen`): what
  it sees of a category is what the others left, less the tickets it has taken so far
  (`LedgerStep`), and the entity in memory is what it sees. COMMIT moves the first into
  the row and the second into what was sold; ROLLBACK drops both. The two theorems that
  use it assume finitely many requests and, as the run `reservation_serial` does, that
  no administrator writes a quantity: a new quantity is a new ledger. With them the cause
  of finding 1 is known: retries, failures and crashes alone never oversell.
* *One order.* `SingleInv`: a request that has an order is in no transaction and can come
  back to none. Only an error of the gateway leads there, so the theorem assumes that
  `Faults` lacks it and that requests name a ticket (Stripe refuses a session without
  lines). That is the whole cause of finding 3: neither failing statements, nor deadlocks,
  lost calls or crashes make a second order.

### `Settlement`

`SettlementProofs` proves, for any number of orders, categories, handlers, attempts,
sales and faults:

| Theorem | Property |
|---|---|
| `TypeCorrect` | `Spec => []TypeOK` |
| `MessageSafety` | `Spec => []OneEffectPerMessage` |
| `StatusSafety` | `Spec => []StatusMatchesEffects` |
| `InvoiceSafety` | `Spec => []TicketsWereInvoiced` |
| `StockStaysWithinBounds` | `Spec => []StockWithinBounds` |
| `Atomic` | `SerialSpec => PromiseKept`, the refinement of `OrderPromise` |

`ConstantsAssumption` says that orders have at least one line, that no stock is negative
at the start, and that `NoMessage`, `NoOrder` and `Free` are no messages, orders and
handlers. Nothing is assumed of `Annotated` but that it is a set of orders. The parts
of the argument, each inductive relative to those before it:

* *Types.* `HandlerInv` says what the next step of a handler tells of its message, `LoopInv`
  where it is in the lines of its order. Without them `entities[h][line[h]]` could be anything.
* *Messages.* A payment is in exactly one place: with its webhook, in a live message
  (queued or with one handler), or in `ticketSets`; a notice likewise (`QueueInv`,
  `PaymentInv`, `NoticeInv`). Each step moves it forward or drops it, so nothing takes
  effect twice. Steps that touch none of this are `Quiet`, and one lemma serves them
  all.
* *Locks and effects.* `LockInv` says that the lock of an order is held from the update of its
  status to the end of the transaction, and that the uncommitted status is the one its holder will
  commit. This is why status and effects agree although the status is never tested again. Every
  step but a commit is `Calm`.
* *The stock.* `StockInv` bounds a committed row by `Room` (what there was at the start
  and what committed releases gave back), and what an open transaction holds in memory or
  has written by that and what its own order names. Stale values are bounded by an
  earlier `Room`, which only grows, so losing an update loses places and never adds any.
* *The refinement.* The status, the number of ticket sets and the committed quantities
  are mapped to the state of `OrderPromise`. `SerialInv` says what the absence of overlap
  gives: from its test to its commit a handler's order stays pending (`FailedStep`), the
  entities are the rows with their lines added (`ReadLines`), and every category that was
  saved holds the row and *one* of its lines (`SavedLines`). Then each commit maps to
  `Bill` or `Fail`, a sale to `Sell`, and every other step to a stutter. The proof shows
  why `GivesBack` asks for one line only: that is what the last `save` of a category leaves.

### Sums

`SumProofs` serves the sums in these properties: quantities sold, given back, and the
total of an order. The folds of the community modules are functions that an equation
defines on the subsets of a finite set. That such a function exists and that its value
does not depend on the order of the elements is proved by a smallest counterexample:
strict inclusion is well founded on finite sets, so a set of counterexamples that is not
empty has a minimal one (`MinimalSubset`). This needs no induction theorem with an
operator as its parameter.

### `Accounts`

`AccountsProofs` and the two modules that extend it prove, for any number of users,
devices, roles, permissions, requests at a time, and any workloads, lives of tokens and
times:

| Theorem | Module | Property |
|---|---|---|
| `TypeCorrect` | `AccountsProofs` | `Spec => []TypeOK` |
| `MidnightJobs` | `AccountsSafetyProofs` | `Spec => []MidnightJobsAgree` |
| `SecondFactorLocks` | `AccountsSafetyProofs` | `Spec => []SecondFactorLock` |
| `RedeemedTokensStayGone` | `AccountsSafetyProofs` | `Spec => []RedeemedTokensAreGone` |
| `NoOrphans` | `AccountsTablesProofs` | `Spec => []NoOrphanRows` |
| `CreatedTogether` | `AccountsTablesProofs` | `Spec => CreatedWhole` |
| `RefreshRevives` | `AccountsTablesProofs` | `Spec => RefreshRevivesOnlyByOverlap` |
| `RowsBounded` | `AccountsTablesProofs` | `Spec => []RowsPerDeviceBounded` |

They rest on `ConstantsAssumption` (types of the initial tables, and values that are not
rows) and `InitialAssumption` (the tables at the start are whole, finite, and nothing is
under way).

* *Types.* `TypeInv` adds to `TypeOK` what a request holds at each statement (`Holds`):
  a user where the statement names one, an account where it saves one. Without it
  `login[whom[p]]` could be anything. Its three parts (tables, requests, world) are
  preserved one by one, each by a lemma per group of actions.
* *Paths.* `Follows` says of every step which statement a request can come to from
  which, and that what it read stays with it. The other proofs use it in place of the
  forty actions.
* *Second factor.* `LockInv` adds that a count still in the background is within the
  limit and the wrong codes given.
* *Mailed tokens.* `RedeemInv` adds that the tokens in the rows differ from each other
  and are at most as many as the mails (`Distinct`), so that a later mail is never an
  earlier, used token, and that the token a request has compared is, if anywhere, in the
  row and the column it was read from (`Presented`), so that using it up leaves no copy.
* *Tables.* `TablesInv` adds that every row was given its identifier by a sequence
  (`BornFirst`). `Result` describes what one step may do to the tables, and each action
  is shown to do that; `CreatedWhole` follows from the same lemmas.
* *Sessions.* `OverlapInv` says that while a request that read a live token refreshes,
  either the session lives or the user's `ended` has grown past what it `saw`. For the
  rows, `TokensOf` and `Inserting` are counted together: a request enters `Inserting`
  only when there is no row, and leaves it by adding one.

### `Backoffice`

`BackofficeProofs` and `BackofficeSafetyProofs` prove, for any number of requests at a
time, any tables at the start and any offers, names, codes and limits:

| Theorem | Module | Property |
|---|---|---|
| `TypesHold` | `BackofficeProofs` | `Spec => []TypeOK` |
| `ReferencesAlwaysHold` | `BackofficeProofs` | `Spec => []ReferencesHold` |
| `RowsComeBack` | `BackofficeSafetyProofs` | `Spec => RowsComeBackOnlyByOverlap` |
| `ArtistsLeave` | `BackofficeSafetyProofs` | `Spec => ArtistsLeaveOnlyByOverlap` |
| `CodesLapse` | `BackofficeSafetyProofs` | `Spec => CodesLapseOnlyByChange` |
| `UsedRegistrationsAreOrdered` | `BackofficeSafetyProofs` | `Spec => []UsedMeansOrdered` |
| `OneOrderForAnAddress` | `BackofficeSafetyProofs` | `Spec => []OneOrderPerAddress` |
| `StoreFollowsFiles` | `BackofficeSafetyProofs` | `Spec => []StoreMatchesFiles` |
| `PicturesStayBounded` | `BackofficeSafetyProofs` | `Spec => []PicturesBounded` |
| `WalksAreExact` | `BackofficeSafetyProofs` | `Spec => []WalkExact` |
| `FiltersNarrow` | `BackofficeSafetyProofs` | `Spec => FilterNarrows` |
| `RangesAlwaysAgree` | `BackofficeSafetyProofs` | `Spec => []RangesAgree` |

They rest on the four assumptions of section 2.

* *Types.* `TypeInv` says of the tables that every row has its columns, of a request that
  its statement belongs to its handler (`Statements`) and that its local variables are
  what the statement needs. Lemmas about `Creates`, `Updates` and `Deletes` then serve
  all operations that are data.
* *References.* Each step of the tables inserts one row whose parents are there, changes
  one row to parents that are there, deletes one that nobody refers to (a line-up goes with
  its concert or its artist), or is the cascading `Save`, which inserts a concert and
  artists again and takes no row away.
* *Line-ups.* `LineupInv`: an assignment or a removal has in memory the artists it read, and
  `save()` takes out none of those. So a row comes back, or an artist leaves, only by a `Save`
  whose tables have changed since it read them.
* *Codes.* `CodesInv`: the sequences are ahead of the rows, so a mailed identifier is never
  given again, and a `Save` is about a concert that was made. `RowLapses` says of every step
  how a row of tickets, positions or concerts can change, over all handlers at once: by
  its deletion, by its own update in the columns of the body, or, a concert, by a `Save`. The
  foreign key keeps the concert of a position, by `ReferencesHold`.
* *Registrations.* `OrderInv` says that registrations differ in concert or address, that
  orders differ in registration, that a request about to write `is_used` has its order,
  and that the history `ordered` is the set of pairs the orders have. The number of
  orders for an address is then a number of elements of a set.
* *Pictures.* `PicturesInv` says where an object is while one request moves it: `Fresh`
  between upload and association, `Emptied` between the store and the row. A statement
  that fails or a crash there moves the key to `cut`. For the
  bound, `CountsInv` counts pictures together with the files that counted requests still
  have to associate: a count adds at most one limit, and each association moves one file
  from the second number to the first.
* *Pages.* `WalkInv` compares ranks: without deletions every row of the start below the
  offset was seen, without returns nothing above it was.
* *Filters.* `QueryInv` bounds the query to the filters of its listing; that no condition
  disturbs another follows listing by listing from the names they bind, with the names
  shared by `is_active` as the exception the property makes.

### Only model-checked

The two liveness properties, `EveryRequestAnswered` and `PaidOrderGetsTickets`: fairness
and ENABLED are out of the prover's reach. Of the violated
properties `FailedAttemptIsSettled` is a liveness property too, and `SessionProductsUnique`
has no theorem: a retry is what violates it, and every instance with more than one attempt
has retries.

## 5. Plan

Done: `Reservation`, `Settlement` and `OrderPromise`; `Accounts` with its guards;
`Catalogue`, `Media`, `Registration` and `Listings`, composed in `Backoffice`; a theorem
for every property that a run checks and a proof can reach.

What could come next: `Registration` over the stock of `Reservation` instead of an order
that succeeds or fails; and, for both liveness properties, the safety half of their
arguments (what decreases with each fair step), which needs no ENABLED.

## 6. Not modelled, and why

* Notification renders templates and sends them; what it is asked to send is counted
  where a property needs it. Statistics is read-only SQL. The mobile scanner is a client
  of scanTicket. Seeders, configuration, logging and interceptors do not change what the
  properties speak of.
* Amounts after tax: output only. The invoice applies the tax to a total that contains
  it (orders.service.ts:649).
* A checkout session that expires: the webhook ignores the event, nothing releases the
  stock, and nothing says it should.
* Operations without a caller, named under `Accounts` and `Backoffice` above, and
  `PermissionGuard` with the decorators it would read.
* Sorting of listings by other columns than the identifier, and their joins.
* Ticket categories that are deleted during a reservation: `Registration` deletes them
  among its own orders, `Reservation` does not.
* Cryptography (JWT, bcrypt, signatures) is taken as correct.

## 7. Running

    tlc -workers 2 -config ReservationSafety.cfg MCReservation.tla
    tlc -workers 2 -config SettlementSafety.cfg MCSettlement.tla
    tlc -workers 2 -config Accounts.cfg MCAccounts.tla
    tlc -workers 2 -config Backoffice.cfg MCBackoffice.tla
    tlapm SumProofs.tla
    tlapm ReservationProofs.tla
    tlapm SettlementProofs.tla
    tlapm AccountsProofs.tla
    tlapm AccountsSafetyProofs.tla
    tlapm AccountsTablesProofs.tla
    tlapm BackofficeProofs.tla
    tlapm BackofficeSafetyProofs.tla

and likewise for the other configurations, each named after its run.
