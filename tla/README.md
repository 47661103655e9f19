# A formal model of the bookshop

TLA+ models of the NestJS bookshop in this repository, TLC configurations that
check them, and TLAPS proofs. Paths below are relative to the repository; the
line numbers of every definition are in `PROJECT.json` under `map`.

## 1. The system

A modular monolith: one Node.js process (or several behind a balancer) over one
MySQL 8 database reached through Prisma, a Redis, the carrier GHN, and queues for
mail and push messages. Modules call each other's services directly; after an
order is created or cancelled an in-process event is emitted and the listeners of
other modules react to it. Handlers are asynchronous: any two requests interleave
at every `await`, and each database call outside `$transaction` is a transaction
of its own.

| Component | State | Operations | What makes it correct | Hard because |
|---|---|---|---|---|
| Inventory (`modules/inventory`) | `Inventory`, `InventoryLog` rows | reserve, release, restock, admin IN/OUT/ADJUST, create, delete | never negative, log and stock agree, all lines of an order or none | read without a lock, then write an absolute value; deadlocks |
| Vouchers (`modules/vouchers`) | `usedCount`, `usageLimit`, dates, `isActive` | apply, release, create, update, delete | the count is exact, a full voucher stays full | check and increment are two statements; lost answers |
| Checkout (`modules/orders`, `orders/sagas`) | the saga in memory; `Order` rows | three steps with three compensations | all or nothing, always an end | partial failure, crash, lost answers, concurrent checkouts |
| Orders and shipments (`modules/orders`, `modules/shipments`) | status, `returnRequestedAt`, shipment with its dates | confirm, set by hand, cancel, return, webhook, hourly job | parcels and status agree, restock once, returns end | late, lost and repeated webhooks; read-then-write handlers |
| GHN (`modules/ghn`) | external | create a parcel, report by webhook, wards of a district | - | answers are lost, reports repeated |
| Books, authors, categories, images, promotions, reviews | rows, link rows, pictures at Cloudinary | CRUD with uploads and removals | a live book shows pictures that exist | a row and its picture are two systems, several administrators |
| Pricing (`orders.service.ts`, `calculateDiscount`, `book.service.ts`) | - | best rate, line and voucher discount, shown price, total | 0 <= discount <= amount; a line costs what was shown | rounding, boundaries, caps |
| Carts (`modules/carts`) | cart rows, item rows | add, set, remove, clear, listener of `order.created` | no unit lost, none back | upserts are two statements; the clean-up comes after the order |
| Lists (`getBooks` by cursor; orders, shipments, vouchers, promotions, reviews, users, stock log by number) | the rows, the client's place | a page, by cursor or by number | no row twice, none missed | rows come, go and move between pages |
| Permissions, roles | rows, a Redis set for each role | check, assign, delete | the cache does not outlive a change; right answers | cache-aside race, three calls to answer one question |
| Auth sessions (`auth.service.ts`) | Redis keys: token, session of a device, sorted set of devices | login, refresh, logout | at most five devices, one current token per device, what ended stays ended | several Redis calls without a transaction |
| Auth registration, OTP, passwords | Redis keys with expiry, the account | register, confirm, reset, change | guesses and mails are limited, the password is one's own | INCR and EXPIRE are two calls, get/del, an insert that is not awaited |
| Addresses (`modules/address`) | rows | create, partial update, remove, list, checkout | every row resolves at GHN | read-then-write of partial updates; one bad row hides the whole list |
| Push (`modules/notifications`) | token rows, the topic `sales`, a queue | login, logout, send, removal of failed tokens | who is signed in is reached | removals that nobody waits for, an upsert in two statements |
| Mail, uploads, guards, configuration | queues, external services | send, store | see section 7 | - |

## 2. Modules

| Module | What it is |
|---|---|
| `Inventory` | stock rows, log, and transactions on them |
| `MCInventory` | its instance: `MCInventory.cfg`, `Oversell.cfg` |
| `InventoryProofs` | its theorems |
| `Vouchers` | usage counters, checkouts that use them, the admin |
| `MCVouchers` | its instance: `MCVouchers.cfg`, `VoucherLimit.cfg` |
| `VouchersProofs` | its theorems |
| `AtomicCheckout` | what a checkout promises: the abstract specification |
| `Checkout` | the saga; INSTANCEs `Inventory` and `Vouchers`, implements `AtomicCheckout` |
| `MCCheckout` | its instance |
| `CheckoutProofs` | its theorems, the refinement among them |
| `Orders` | one order until the end of its life |
| `MCOrders` | its instance: `MCOrders.cfg`, `OrphanParcel.cfg`, `DoubleCancel.cfg` |
| `OrdersProofs` | its theorems |
| `Sessions` | login, refresh and logout of one user's devices, Redis call by call |
| `MCSessions` | its instance: `MCSessions.cfg`, `LogoutRefused.cfg` |
| `SessionsProofs` | its theorems |
| `Catalogue` | books, links, promotions, images and reviews, with the pictures at Cloudinary |
| `Pricing` | discounts, shown prices and totals: operators without state |
| `Carts` | one customer's cart in several tabs, and the checkouts that read it; EXTENDS `Pricing` |
| `Listing` | a client that walks through a list, by cursor or by number |
| `MCShop` | one instance of `Catalogue`, `Carts` and `Listing` |
| `ShopProofs` | theorems about `Catalogue`, `Carts`, `Listing` and, together, `MCShop` |
| `Access` | the permissions of a role and their cache |
| `Accounts` | registration, one-time passwords, new passwords |
| `Addresses` | delivery addresses and GHN's wards |
| `Push` | push tokens, the topic of sales, sends |
| `MCPeople` | one instance of `Access`, `Accounts`, `Addresses` and `Push` |
| `AccountsProofs` | theorems about `Accounts` |
| `PeopleProofs` | theorems about `Access`, `Addresses`, `Push` and, with `Accounts`, `MCPeople` |

Definitions whose name has a suffix after an underscore (`ReadLine_Unchecked`) are
mutants: a plausible bug in the action they are named after. With the mutant in its
place TLC finds the property named in `PROJECT.json` violated; they take no
part in the specifications.

### Inventory

All stock changes (`reserveStock`, `releaseStock`, `cancelOrder`, the webhook, the
admin's log entries) have one shape: in a transaction, for each line, `findUnique`
the row, compute the new quantity in JavaScript, `update` the row to it, insert a log
row with `beforeQty` and `afterQty`. They differ in their lines and in what they do
about a missing row. So a transaction runs a *job*, `Reserve`, `Release`, `Restock`,
`StockIn`, `StockOut`, `Adjust`, and its steps are `Begin`, `ReadLine`, `SkipLine`,
`RejectLine`, `WriteLine`, `WriteGone`, `Commit`; `CreateRow` and `DeleteRow` are the
admin's. The database is the external part: REPEATABLE READ as MySQL implements
it. The first read takes the snapshot (`snap`) that later reads see; an UPDATE waits
for the row lock (`lock`) and keeps it; nothing is visible before `Commit`; `Abort`
stands for time-outs (Prisma ends an interactive transaction after 5 s), lost
connections and errors; `DeadlockVictim` for InnoDB's detector. `epoch`
tells a re-created row from the old one: the log row's foreign key fails for the latter.
`clock`, and the fields `seen` and `pos` of a log row, are history. `Moved` is the sum of the
changes in a row's log: what has come in less what has left.

### Vouchers

`Check`/`Refuse` are `validateVoucherForOrder`, `Increment`/`IncrementFails` the
separate update, `Release`/`ReleaseFails` the compensation. `EditRead` and `EditWrite`
are the two halves of `updateVoucher`. `OpenOrClose` covers `isActive` and the dates,
moved or passed. `use` says how far each checkout is with its voucher; `lost` is an
increment that was committed and whose answer never came.

### Checkout and AtomicCheckout

`stage` is where a request is in `OrderSagaOrchestrator.execute`; each step is taken
from the composed module and its outcome moves the stage. `faulty` is history: the
requests that met a crash, a lost answer or a failed compensation. The refinement
mapping `outcome` reads off the tables what an ended request has left: `placed`
(order, stock of every line, use of the voucher), `nothing`, or `part`; the abstract
specification allows `part` to faulty requests only, and no change after the end.
Vouchers are created, edited and closed, and stock rows created and deleted, in the runs of
the component modules only: for a checkout these change only whether it is refused,
and an order of rows `Inventory` already covers. A voucher deleted under way matters
to the saga and is here (`VoucherDeleted`).

### Orders

One order, any number of requests. Each handler is two actions where the code awaits
between its read and its write (`Cancel`/`CancelCommit`, `RequestReturn`/`ReturnCommit`,
`Confirm`/`CarrierCreates`/`ConfirmCommit`, `HookRead`/`HookStatus`,
`HookCancel`/`HookCancelCommit`), and `Fails` ends one anywhere, as an error or a
crash does. Dates are unset, fresh or expired with respect to the seven days of the
return window and of the hourly job. The carrier is external and modelled from its
use: `CarrierMoves` moves a parcel once through its phases and each phase may be
reported late, repeatedly or never. Each call to it creates another parcel (the
request carries a `client_order_code`; the code does not rely on the carrier to refuse a
repetition). Its many statuses are grouped as
`mapGhnShipmentStatusToOrderStatus` groups them; unknown ones change nothing here.
A webhook's transaction sees the order as of its first statement, because
Prisma looks the shipment up by its unique code before it updates it; the model reads the order
at that point, which also covers a read after the lock. Stock is a
number, `restocks`: what a restock does to rows is in `Inventory`. Where the stock row is missing,
`increaseStockAndLogByTx` changes nothing and says so by its result. `cancelOrder` looks at it and fails;
the webhook does not, and lowers `soldCount` all the same (`CancelByCarrier`;
`unstocked` counts these, history).

Left out on purpose: the notifications; `PATCH` of a shipment's raw status, which no
order reads; the RETURNED branch of `updateOrderStatus` (238-286), because RETURNED is
neither in the enum of `schema.prisma` nor accepted by the request DTO generated from
it. `docs/api.md` lists it, so a return can end only by hand, by webhook or by the
hourly job; a RETURNING written by a webhook has no `returnRequestedAt`, and the
job never finds it.

### Sessions

Each of `login`, `refreshToken` and `logout` is a chain of actions, one for each
awaited Redis call (a pipeline is one), so any two requests interleave between any
two calls. A token is its session and the second it was signed in: nothing else makes
two tokens of one session differ. Things the code does that the model keeps: a login
that is over the limit evicts through *one* pipeline object to which it appends for each
device and which it runs again, so earlier commands are sent again; `refreshToken`
checks the hash, then the device's session, deletes the old token several calls before it
stores the new one, extends the device's session only if it exists (XX), and undoes its
token otherwise; any error is answered 401. `Crash` ends all requests at once,
`Lapse` lets a key expire. `rough` (history) collects devices whose own requests overlapped
or were cut off: these may be left half signed in, which is why the properties leave them
out. `RawHeader` tells how logout gets its token: TRUE is the code as it is called today,
with the whole `Authorization` header, which no verification accepts (finding
`logout_refused`); FALSE is what the service was written for, and lets the rest of logout be
checked. A refresh does not look at the user: role and status in a token stay as they were
at login until the session ends.

### Catalogue

A handler that changes a book is a `task`: upload, write the rows, remove the old
picture, in the order of `book.service.ts` and `image-book.service.ts`, and each may
fail. Links to categories, authors and promotions are sets of pairs; foreign keys restrict or
cascade as in `schema.prisma`. `holder` says what refers to a book and keeps its row
(a cart, an order). A comment at `category.service.ts:77` promises that a category with
books is not deleted; the delete removes the links and then the category, and so does
the model.

What a thumbnail column holds is the client's when an update comes without a file
(`book.repository.ts:356`; a comment in `book.request.dto.ts:40` says that the current value is
kept): the address of any picture, on any book, or of something that is no picture of the shop's
(`Elsewhere`); no text leaves it as it is. The public ids of `DELETE /v1/book-images` are the client's
too: the pictures are destroyed and then the image rows with these ids deleted, and nobody asks
whether there are such rows or whether a book shows one as its thumbnail (`DropPictures`). `named` (history) are
the pictures a request has named in one of these ways, or by deleting the book or the image row that
shows them: the picture goes first, and the row may stay.

### Pricing and Carts

`Pricing` gives the amounts as operators: promotions are rounded down once per line, vouchers
once per order, and the window does not round at all (its price is kept in hundredths).
`validateDiscountRule` decides which vouchers exist. `Carts` runs the handlers of the cart
from several tabs. An upsert is `SELECT`, then `INSERT` or `UPDATE`, as Prisma does on
MySQL, and an insert may meet the unique key. A checkout reads the selected rows, looks
promotions up, writes the order, and the listener of `order.created` deletes the rows it
read by id. `balance` (history) is what was added, less what was removed and bought;
`raced` marks books whose row changed while a checkout had it. The saga between is in
`Checkout`; here it places the order or not. The lookup of promotions finds every id it asks
for: `findById` of a promotion never answers null, it throws.

### Listing

One client goes through one list. Every list is ordered by *one* column that is not unique
(`createdAt`, `rating`, `totalAmount`, `status`...), without a second one to break ties, and MySQL may
return tied rows in another order with every `LIMIT ... OFFSET`. So pages by number are not slices of
one sequence: `TiesTurn` lets tied rows change places before any query. Which rows are tied is left
open, so any may change places, and a row that comes or moves goes anywhere; a list ordered by a unique
column (vouchers by `code`) has fewer behaviours. `turned` (history) are the rows that a tie has carried over the
border between the pages shown and those to come: they will be shown again, or never.

The first page of books by number is two queries (ids, then
rows), ordered by `createdAt`, and hands out a cursor; the following are by `id` with the cursor
and `skip: 1`. Ids are UUIDv7, so the two orders agree but for books created in the same
millisecond, or whose id and `createdAt` were taken in opposite orders: then the first page is not of the newest ids, or
not in their order (`skew`). The cursor is handed out for every sort order, and the page after it is by id all
the same; a walk in the model is one by creation. When the row of the cursor has gone or no longer passes the
filter, `skip: 1` skips a row that was never shown (`cut`). By number, `findMany` and `count`
run side by side. Which lists may change, move or lose rows is in `OrderList` to
`LogList` (a review moves when its rating changes).

### Access

`hasPermission` asks `SISMEMBER`, then `EXISTS`, and on a cold cache reads
`SMEMBERS`, the rows, and fills: every call is an action. `assignPermissions` saves in one
transaction and clears the key in a later call. `tainted` (history) is set when a
fill may put old rows into the cache: a check that was between its query and its fill when an
assignment was saved, a clearing that failed, a role that was deleted (its key stays). The
old permissions are then served until the key expires. There is a false *denial* too: between
the two questions of one check another check may fill the cache (`permissions.service.ts:93`);
`filled` marks it.

### Accounts

Registrations and resets by mail. A counter is `INCR`, and `EXPIRE` in a call of its own when the
count is one; a request that dies in between leaves a counter without expiry, which keeps
refusing (`Forever`). Confirming compares the OTP, deletes it and its counter, reads the
pending registration, and calls `createUser` *without awaiting it* before it deletes the
pending registration: if the insert fails meanwhile (the e-mail is taken), nobody handles the
rejection, and Node ends the process with all its requests (`CreateUser`). The reset token that a verified
OTP earns is good any number of times while it lasts. One e-mail is modelled; passwords are told
apart by the registration that brought them.

### Addresses

An update reads the row, fills in what was not sent, checks the whole place against the tables
and GHN, and writes the three columns it has checked. `isDefault` is stored as sent, and nothing keeps it unique.

### Push

A phone's token row is upserted by login (in two statements), removed by a logout that does
not wait for the removal, and by any failed send, transient failures included. `calm`
(history) are the phones that none of this has hit since their login. A logout
does not take the phone out of the topic `sales`, and a removal names the token only, so
it also removes the row of the next user of the phone.

## 3. Runs

| Run | Instance | Distinct states |
|---|---|---|
| `inventory` | 2 books, 2 transactions, 7 jobs, rows created up to twice | about 301 000 |
| `vouchers` | 2 vouchers, 4 checkouts (2 interchangeable), limits 1 and 2 | about 421 000 |
| `checkout` | 2 buyers' requests of one customer, 1 voucher, 2 books | about 137 000 |
| `orders` | 4 requests, 2 parcels | about 828 000 |
| `sessions` | 2 devices, room for 1, 2 requests at a time, 3 sessions, 2 seconds | about 1 503 000 |
| `shop` | foci `catalogue`, `pictures`, `carts`, `listing` | about 1 595 000 |
| `people` | foci `access`, `mailing`, `guessing`, `confirming`, `addresses`, `push` | about 899 000 |

`MCShop` and `MCPeople` instantiate several modules that share no state. A behaviour chooses
a *focus* at the start and moves that module alone, so the states are the sum of the modules'
and not their product; nothing is lost, because a property of one module cannot be
changed by a step of another.

Bounds. *Inventory*: a lost update, a deadlock and a stale foreign key each need two
transactions on two rows, the jobs name the books in opposite orders, and
`MaxEpoch = 2` lets a row be replaced once under a running transaction. *Vouchers*: going
beyond a limit needs two checkouts between check and increment; the third shows what
happens afterwards, the fourth that vouchers do not touch each other. *Checkout*: two
requests suffice for the unique index, the deadlock and the last copy; one copy of each
book makes the second request fail at every step. *Orders*: the longest
interesting sequence is a confirmation, two reports and a change by hand, so four; a
second confirmation needs the second parcel. In these four, requests run once each: that is the only
bound on how often anything happens, and the counters need no other.

*Sessions*: requests repeat without bound; session ids and seconds are what ends. Two
devices with room for one make every second login evict; two requests at a time are
enough for each pair of handlers to meet at each call, and the third session is the one that replaces a
session that two requests still argue about. *Catalogue*: one book, one category or author
and one promotion, two administrators: every race is on one book's rows. One upload with
everything else (`FewUploads`), three without labels and promotions (`pictures`), so that an update, a new
image and a repeated update meet. *Carts*: two books at prices 101 and 3 with rates 15 and 33, so that
both ways of rounding occur; two tabs; one voucher larger than the order, one with a cap, one that
must not be let in. *Listing*: pages of two rows; by cursor up to
five rows, that is three pages; by number four rows, or three where rows also change or move
(`RowBound`), that is two pages and the border between them. One row changes (`MaxTouched`), as often as it
may, and two change places over the border (`MaxTurned`): a change or a tie that takes the promise back
needs no more, and one that need not is seen with one. *Access*: two
permissions, two checks and two administrators. *Accounts*: two requests at a time and three tokens, a limit
of one mail and two guesses, and lives of one and two ticks: a limit is passed by one, and a window ends
during a request. Its three foci are explained in `MCPeople`; `MailAlone` bounds the mails
where the mails are not the question. *Addresses*: one row, two edits, three wards in two districts of
two provinces. *Push*: two phones, two users, one send at a time, one queued job, one
removal under way and one login at a time (logins of two phones write different rows).

What they show:

* `StockNeverNegative`, `LogTellsTheStock`: even with lost updates, quantities stay
  non-negative and the log always explains them.
* `LostUpdateNeedsOverlap`: a change is overwritten only by a transaction whose
  snapshot is older than it.
* `AllLinesOrNone`: an order reserves, cancels or returns all its books or none.
* `EveryTxEnds`, `EveryCheckoutEnds`: nobody waits for ever, although locks are taken in
  cart order.
* `UsedIsHolders`: `usedCount` is exactly the uses taken and not given back.
* `ExhaustedStays`: an exhausted voucher with no checkout past its check stays
  exhausted until a use is returned or the limit raised.
* `UsesCoverOrders`: orders with a voucher are behind uses that were counted.
* `ImplementsAtomicCheckout`: the saga is all-or-nothing up to faults.
* `StatusNeedsShipment`: an order is in the carrier's hands only with a shipment row for
  a parcel that exists, or if the admin wrote the status by hand.
* `SoldFollowsStock`: while no listener fails, `soldCount` and the restocks part only where a
  webhook found no stock row, and then by exactly what came back to none.
* `CancelReportsRestockOnce`: repeated cancellation reports restock once, except
  two whose transactions overlap.
* `DatesNeverUnset`: no late report takes back the dates decisions rest on.
* `ReturnEnds`: a customer's return does not stay open for ever.
* `DeviceLimit`, `LoneLoginKeepsTheNewest`: logins of several devices at once keep to the
  limit as soon as they are quiet, and one alone evicts nobody it need not.
* `CookieMatches`: the token a client holds is the one whose hash is stored.
* `EndedStaysEnded`: a session that was logged out, evicted, replaced or has lapsed never comes back,
  but for a refresh that had already passed its check.
* `LogoutEnds`: an answered logout has ended the device's session.
* `ShownPicturesExist`: no live book shows a picture Cloudinary has lost, unless a request
  named that picture.
* `UnitsAccounted`: the cart is what was added and neither removed nor bought, but for
  rows that changed while a checkout had them.
* `OrderAmounts`: discounts never exceed the subtotal, so the `Math.max(0, ...)` of the
  record never changes an amount, and a line costs the shown price rounded up to a dong.
* `NoRowTwice`, `NoRowMissed`: what a walk through a list still promises although ties are not
  broken, and which changes, and which rows tied over a border, take the promise back.
* `CacheIsCurrent`, `ChecksRight`: when the cache is what was granted, and a
  check is answered by the rows.
* `GuessLimit`, `MailLimit`: limits hold whatever dies between INCR and EXPIRE and whenever a window ends.
* `OwnRegistration`, `LateConfirmChangesNothing`: an account begins with the password of the
  registration whose OTP came back, and a second confirmation does not touch it.
* `AddressesResolve`: overlapping partial updates leave a place GHN knows.
* `SignedInIsReached`: who signed in on a phone owns its token.

Five runs expect a violation, and are findings in `PROJECT.json`:

* `oversell`: two orders for the last copies both commit. `decrementStockByTx`, whose
  UPDATE is conditional, has no caller.
* `voucher_limit`: more uses than `usageLimit`. `applyVoucherForOrder`, whose update is
  conditional, has no caller.
* `orphan_parcel`: the comment above the confirmation says that the parcel is created inside
  the transaction; it is created before it.
* `double_cancel`: two cancellations both pass the check for PENDING and both restock.
* `logout_refused`: the controller hands the whole `Authorization` header to a verification that
  takes a bare token, so no logout ends its session.

For each of the five a theorem says under which condition the violated property, or the one it
stands for, does hold (section 5), so a repair knows what it has to exclude and that nothing
else is needed.

`CHECK_DEADLOCK FALSE` is set everywhere: a behaviour in which all requests have ended, or
session ids, uploads, row ids or tokens are used up, stops, as the model should.

## 4. Fairness

`Inventory`: weak fairness of a begun transaction's next step and of the deadlock
detector. The Node.js event loop resumes every pending promise, and InnoDB's
detector is on by default. Starting, aborting and the admin's actions are not fair.
A step that waits for a lock is not enabled, so its progress is proved from the end of
the holder. `Checkout`: a started request proceeds; a crashed one does not, but the
database rolls back the transaction of a lost client. `Orders`: only time passing and
the hourly job (`@Cron(EVERY_HOUR)`); no request, webhook or carrier step is fair. The
job stays enabled while a return is open and expired, so weak fairness is enough.
The other modules assume no fairness: their properties are invariants and action
properties. Where something must happen in the end there (an expired key goes, a queued job
is tried), it is Redis or the queue that does it and not this code.

## 5. Proofs

Eight modules hold theorems, checked by TLAPS for all values of the constants that satisfy the
named assumptions; TLC evaluates each of them in a run.

| Assumption | Says | Because |
|---|---|---|
| `InventoryAssumption` | `NoTx` is no transaction, jobs are jobs, quantities are natural | the DTOs of the stock log and of the order lines |
| `VouchersAssumption` | finitely many checkouts, each with its voucher, positive limits | `@Min(1)` of `usageLimit` |
| `CheckoutAssumption` | finitely many requests, each with its lines, customer and voucher; what the two above ask for | the composition |
| `SessionsAssumption` | finitely many devices, a positive limit, `None` is no value | a list in Redis is finite; the limit in the code is 5 |
| `CatalogueAssumption` | the marks for no picture, an address elsewhere and no book are none of these and differ | - |
| `CartAssumption` | a row may hold at least one unit, ids are natural | - |
| `PriceAssumption` | finitely many books with natural prices, rates of 1 to 100 per cent, natural voucher amounts | `price` is an Int that is not negative, `@Min(1) @Max(100)` of a promotion's discount, the DTO and `validateDiscountRule` of a voucher |
| `AccessAssumption` | there is a permission | it is asked for by name |
| `AccountsAssumption` | finitely many requests, positive limits, an OTP does not outlive the window of resets | the constants in `auth.service.ts` |
| `ListingAssumption` | a natural bound on the rows, any number for a page size | `getPagination` brings every page size between 1 and 100 |
| `PushAssumption` | a natural bound | - |

`Orders` and `Addresses` need none.

| Theorem | Says |
|---|---|
| `InventoryProofs!TypeCorrect`, `StockSafe`, `LogSound`, `NoLossWithoutOverlap`, `WholeJobs` | types; `StockNeverNegative`; `LogTellsTheStock`; `LostUpdateNeedsOverlap`; `AllLinesOrNone` |
| `VouchersProofs!VouchersTyped`, `CountExact`, `ExhaustedIsFinal` | types; `UsedIsHolders`; `ExhaustedStays` |
| `CheckoutProofs!CheckoutTyped`, `SagaIsAtomic`, `OrdersAreCounted` | types; `ImplementsAtomicCheckout`, the refinement; `UsesCoverOrders` |
| `CheckoutProofs!DiscountsWithinLimitOneAtATime`, `SagaCountsCopies` | the two below, of the saga |
| `OrdersProofs!OrderTyped`, `StatusHasShipment`, `SoldInStep`, `ReportsRestockOnce`, `DatesStay` | types; `StatusNeedsShipment`; `SoldFollowsStock`; `CancelReportsRestockOnce`; `DatesNeverUnset` |
| `SessionsProofs!SessionsTyped`, `DevicesWithinLimit`, `ClientsHoldTheStoredToken`, `LoneLoginKept`, `SessionsStayEnded`, `LogoutsEnd` | types; `DeviceLimit`; `CookieMatches`; `LoneLoginKeepsTheNewest`; `EndedStaysEnded`; `LogoutEnds`, if logout gets the bare token |
| `ShopProofs!CatalogueTyped`, `PicturesStayShown`, `CartsTyped`, `UnitsStayAccounted`, `AmountsAddUp` | types of `Catalogue`; `ShownPicturesExist`; types of `Carts`; `UnitsAccounted`; `OrderAmounts` |
| `ShopProofs!ListingTyped`, `RowsShownOnce`, `RowsShownAll` | types of `Listing`; `NoRowTwice`; `NoRowMissed` |
| `PeopleProofs!CacheCurrent`, `ChecksAnsweredByRows`, `AddressesSafe`, `CalmPhonesAreReached` | `CacheIsCurrent`; `ChecksRight`; `AddressesResolve`; `SignedInIsReached` |
| `AccountsProofs!AccountsTyped`, `GuessesLimited`, `MailsLimited`, `OwnPassword`, `LateConfirmHarmless` | types of `Accounts`; `GuessLimit`; `MailLimit`; `OwnRegistration`; `LateConfirmChangesNothing` |
| `ShopProofs!ShopIsItsParts`, `ShopTyped`; `PeopleProofs!PeopleAreTheirParts`, `PeopleTyped` | a behaviour of the instance is one of each module in it; the instance's `TypeOK` |

Five theorems go with the five findings. Each has a condition, which the code does not
enforce and the run of the finding breaks:

| Theorem | Condition | Then |
|---|---|---|
| `InventoryProofs!CopiesCountedWithoutOverlap` | no change of the row was computed from a snapshot older than the change before (`OverlapFree`) | the row holds what came in less what left, and `NothingSoldTwice` |
| `VouchersProofs!LimitHeldOneAtATime` | between a check of a voucher and its increment there is no other check of it, and no edit under way (`OneAtATime`) | `WithinLimit` |
| `OrdersProofs!RestockedOnceOneAtATime` | one cancellation at a time past its check (`CancelsOneAtATime`) | `CancelledOnce`, and at most one restock more than the order left CANCELLED |
| `OrdersProofs!ParcelsHaveOrders` | one confirmation at a time (`ConfirmsOneAtATime`), and none ends after its parcel was created without having stored it (`ConfirmsSucceed`) | `NoOrphanParcel` |
| `SessionsProofs!LogoutsEnd` | logout gets the bare token | `LogoutEnds` |

The conditions leave every other interleaving open: other rows and vouchers,
crashes, rollbacks, deadlocks, late and repeated reports, the admin. They were tried
with TLC on the instances of the runs before they were proved.

The modules that `MCShop` and `MCPeople` put side by side have no `Spec` of their own; their theorems
are about `Init /\ [][Next]_vars` of the module. `ShopIsItsParts` and `PeopleAreTheirParts` carry them over to the
specifications the runs check, for all values of the modules' constants and any choice of focus.

*Inventory.* `StockNeverNegative` is not inductive: `Commit` installs a quantity computed
long before. `IInv` adds what carries it from the read to the commit:
`ReadyToWrite` (a transaction about to write has read a row, and the result is not
negative), `PendingWrites` (the log row it will commit says
where it came from, its result is not negative, and the row is locked and still the row
that was read, so two pending writes never meet), `LocksAreWrites` (a lock is held only by a
transaction that has written the row), `NoRowNoTrace` (a book
without a row has quantity 0 and no log), and for lost updates `Ordered` (log rows are
in commit order) and `SnapshotFresh` (a snapshot taken after a row's last commit shows
that row's present quantity; a deletion in between is caught by `epoch`). Lemmas prove
that `Init` establishes `IInv` and that every action preserves it; the theorems
`TypeCorrect`, `StockSafe`, `LogSound` and `NoLossWithoutOverlap` follow. `WholeJobs` adds `PastLines`
(every line a transaction is past was written or had no row) and `Traces` (only a
commit leaves log rows, and then for every line whose row it saw and that is still the same row).
`CopiesCountedWithoutOverlap` adds that a row's log begins at 0 (`FromNothing`: a row begins
empty or with its opening entry, and a deletion takes the log along). A log that begins at 0, whose rows add up and follow on each other
tells its own sum (`ChainSums`), by counting the rows; that they follow on each other is
`LostUpdateNeedsOverlap` without the overlap.

*Vouchers.* `CountExact` rests on a lemma about the cardinality of the set of holders
when one checkout joins or leaves it; every other action leaves the set alone.
`ExhaustedIsFinal` is an action property, proved action by action from the types: only
`Increment` raises the count and it needs a checkout past its check. `LimitHeldOneAtATime` is
by the invariant `Fits`: below the limit while a checkout is past its check, at most the limit that
an update has validated otherwise.

*Checkout.* The invariants of `Inventory` and `Vouchers` are not proved again: `CheckoutProofs`
INSTANCEs their proof modules with the constants of the saga, shows that the constants satisfy
their assumptions, and that every step of the saga is a step of theirs or leaves their
variables alone. What is added is `Course`: where the stock transactions, the use of the voucher and the
order of a request without a fault are at each stage. With `LogIsPlace` (the log says how far
each stock transaction came, from `Traces`) an ended request without a fault is never `part`
(`Whole`). The refinement is then one step per action: it ends one request, as the abstract
`End` allows, or `outcome` does not change; that an outcome is final is the
part that needs the stages in which a fault leaves a transaction running. The conditional theorems on
stock and vouchers carry over the same way; with `OrdersAreCounted` the limit of a
voucher bounds the discounted orders, not only the count.

*Orders.* Every handler writes what it read earlier, so the invariant says what each request under way
may still do: a confirmation carries a parcel that exists (`ReadyToConfirm`), a webhook past its read
has a shipment, and of two webhooks that both believe the order is not cancelled one has set `overlap`
(`RestocksInOrder`). `DatesStay` needs no more than the types. `RestockedOnceOneAtATime` counts: the restocks
made, and one for the cancellation that is past its check, are at most one plus the times
the order was taken out of CANCELLED (`RestocksFit`). `ParcelsHaveOrders` follows the one confirmation
under way: each parcel but its own is in a shipment.

*Sessions.* The invariant is built in layers, each proved with those below it. `Shape` is what a
request knows at each of its calls. `OneDevice`: a session is of one device for ever, wherever it is still
mentioned. `OneRequest`: a device that is not rough has one request at most.
`Current`: that request works on the session its device has. `Matches`: the stored hash is of the token that
this request, or else the client, has. The limit needs two more, because a login counts, ranges and
evicts in calls between which others log in: `Room` says that the devices whose session is no newer than that of a
login, with those listed before it, are no more than it counted, and that what it
leaves in the list is no more than the limit; `InOrder` that logins under way are listed in
the order of their sessions. So of several logins the newest makes room for all. `LoneFlow` follows
a login that is alone from call to call. A crash is no exception to the limit: it makes the
devices of the requests it ends rough, and these are not counted.

*Catalogue.* Who knows which picture: one that no request has named is in the cloud, of one request and
of no row while it is fresh (`FreshIsNobodys`), then it is shown in one place (`OnePlace`), and what an update is
about to remove belongs to its own book, and once the update has written its row not even to that (`DropsOwn`).
What a deletion removes was named. Two updates of one book that meet both drop the same old picture and each
writes its own. A text or a public id may name any picture at any moment, also a fresh one: from then on nothing is said of it.

*Carts.* The book that did not race is in one checkout at most, which has read the row that is there
(`CalmAt`); ids are never given twice, so no other book will get the id of a line (`LineKnown`), and the listener's
delete by id finds this row. The units ordered and not yet cleaned up are a sum over the tabs, of
which one term at most is not zero.

*Amounts.* `OrderAmounts` compares two sums over the lines of an order. The community
modules define a sum by a fold, that is by a recursive function chosen with CHOOSE. That the function exists is proved with the
library's theorem about well-founded definitions, and the comparison by counting the lines: the numbers of
lines for which it holds contain 0 and with each number the next (`Counting`). The rest is
arithmetic: a rounded discount is at most the amount, and 100 times a line at least the shown price
times the quantity.

*Listing.* The invariant says what a client has at each place of its walk. By cursor (`PageKnows`) what it
was shown falls, ends with the cursor and, while no page was cut, holds every row that stayed and is no
older than the cursor; a first page that is not of the newest ids ends the claim. By number (`NumberKnows`) it
has the rows of the first places up to the page it is at, if nothing was removed or came late, and none of the others,
if nothing was added; in both, but for the rows in `turned`. The rest is
what the coming and going of rows does to the places (`RowsMove`): a removal brings the others only to the
front, an addition only to the back, and a turn of ties leaves every row that it does not put into `turned` on
its side of the border (`TiesTurnKeeps`). The page of a set of ids is ranked by the number of larger
ones, so `NewestFirst` and `Newest_` come with lemmas about ranks: every one below
the size of the set is some row's (`RankReached`), by counting. That the last page by number has
come past the last row is `HasNextIs`, the arithmetic of `buildMeta` for every page size.

*Access.* `CacheIsCurrent` speaks of moments without a fill or a clearing on its way. What is
inductive looks at those too: while nothing is tainted and no clearing is due, every check about
to fill holds exactly the granted rows (`FillsAreCurrent`). `ChecksRight` needs what a clean check
has seen so far: no taint and no clearing due (`CleanIsQuiet`), and, between its two
questions, an empty cache unless it was told of a fill (`EmptyUntilFilled`).

*Accounts.* A guess is counted in one step and compared in a later one. The invariant
(`Budget`) is that the guesses already made and those on their way, together, are at
most the counter and at most the limit while the OTP lives, and that a counter outlives the OTP. The
requests on their way form a set that a step changes by at most one element, so the rest is
arithmetic on its cardinality. A crash between INCR and EXPIRE only makes the counter live
longer. `OwnRegistration` needs more than the step that inserts the row: `Trail` says of each
request what its place in the handler tells of its token (mailed, guessed, its OTP deleted,
a registration), `OneMails` that a token is mailed by the request that made it, and `Forward`
that no step takes any of this back. `MailLimit` looks back over the length of one window, in which the counter may have
expired once. Its events, the requests counted and the tokens they became, fall into two sets (`Split`): those the counter
has counted, at most its count and the limit, and those before it began, which are at least as old as it
is; when it expires the first set becomes the second, and the second is out of the window. A
counter waits for its EXPIRE from one request only (`OneExpires`), so no second EXPIRE ever prolongs it.

*Addresses.* What an edit carries from its check to its write resolves as a whole
(`CarriedResolve`); the row it was computed from may be another by then and does not matter.

*Push.* A calm phone met no removal at its login, and none is under way now (`NothingRemoves`); its login, once it
has written, keeps its row (`LoginKeepsItsRow`).

Model-checked only: liveness (`EveryTxEnds`, `EveryCheckoutEnds`, `ReturnEnds`), because temporal
reasoning with ENABLED is out of the prover's reach. Every invariant and every action property
of the passing runs is proved, and so is the refinement.

## 6. Plan

All components with state of their own are modelled, and every safety property that a run
checks and its code keeps is proved. A change of the code starts at the definition `PROJECT.json` maps to it;
the runs tell first whether a property still holds, the proofs then where its argument breaks.

## 7. Not modelled

* Titles, texts, prices of books, full-text search, profile data, ratings: data that no
  decision modelled here depends on. The lists of books by number are the queries of the other lists;
  walks of books by another column, whose first page is by it and whose next pages are by id all the same.
* The columns lists are ordered by: a row takes a place, and which rows are tied is open.
* The role and status of users: single writes that the models never read; tokens carry
  them until they expire.
* The texts of mails and notifications, and the endpoint that registers a token for a test.
* `PATCH` of a shipment's raw status; RETURNED, which neither the schema nor the DTO knows.
* Fee queries to GHN, uploads on their own: pure calls.
* `applyVoucherForOrder`, `decrementStockByTx`, `increaseStockByTx`, `createLogByTx` and the
  inventory `update`: nothing calls them.
* Guards other than `PermissionsGuard`, throttler, CSRF, filters, configuration: they refuse a
  request before a model begins, or are wiring.
