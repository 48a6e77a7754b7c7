# Ordex in TLA+

Ordex is a NestJS shop backend: PostgreSQL through Prisma, Redis and BullMQ for
background jobs, Stripe for payments, an S3-like store for images. Several server
processes may run the same code, every `await` lets other requests run, and hardly
any operation is one database transaction. What can go wrong is therefore a matter
of interleavings, retries, repeated or reordered events and statements that fail
half-way, and that is what the modules here are about. They are written from the
code under `api/src` (paths below are relative to the repository).

## The system

| Component | State it keeps | Operations | Status here |
|---|---|---|---|
| Inventory (`modules/inventory`) | `inventory`: quantity, reserved, version, threshold | reserve (optimistic lock, 3 tries), release, deduct, nightly low-stock log | modelled, proved (the log is read-only, left out) |
| Checkout (`order.service.ts`) | `idempotency_keys`, `orders`, `order_items`; uses cart, stock, payment | `POST /order/checkout` | modelled, its key and its replays proved |
| Order status (`order-transitions.constant.ts`, `transitionOrderStatus`) | `orders.status`, `order_status_history` | check and write a transition | modelled |
| Order jobs (`order.processor.ts`) | the BullMQ queue `order-queue` | ConfirmOrder, HandlePaymentFailure | modelled, proved |
| Payment (`payment.service.ts`) | `payments`, webhook keys, intents at Stripe | createPayment, handleStripeWebhook | modelled, amounts left out |
| Auth (`auth.service.ts`, `google.strategy.ts`) | `users`, `refresh_tokens` | register, login, rotation with reuse detection, logout, Google sign-in and linking | modelled, rotation proved |
| Addresses (`address.service.ts`) | `addresses` with one default | create, update, remove | modelled, proved |
| Categories (`category.service.ts`) | `categories`: a tree by `parent_id` | create, update, remove, tree | modelled, proved |
| Products, variants, images (`product.service.ts`) | `products`, `product_variants`, `product_images` | CRUD, image upload, removal, primary image | modelled; products and variants proved |
| Image storage (`storage/`) | the keys in the bucket | upload, delete | modelled with the images |
| Notifications (`modules/notification`) | `notifications`, the queue `notification-queue` | dispatch, send over each channel | modelled, proved |
| Cart | `carts`, `cart_items` | add, update, remove, clear | partly: the changing statement, as Checkout sees it |
| Guards, filters, pagination, SKU, order numbers, JWT, hashing | none | pure functions and I/O | not modelled |
| User, analytics and webhook services | none | generated stubs | not modelled |

How they interact: a customer's checkout claims an idempotency key, reads the
cart, creates the order, calls the inventory to reserve, moves the order to
`stock_reserved`, clears the cart, creates an intent at Stripe and a payment row.
Stripe calls the webhook, which updates the payment and puts a job on the queue;
a worker deducts or releases the stock and moves the order on. Admins keep the
categories, sellers the products in them; removing a category takes its products,
variants, stock rows and image rows with it by foreign keys. Nothing but the
database tables, the bucket and the queues is shared. `dispatchNotification` has no
caller in the source yet: Notifications models it as something that may be called
at any time.

What makes each part correct: stock is never oversold and every reserved unit has
an owner; one key means one order; an answer replayed is the answer to the same
request; one event means one job; only a charged order is paid; units leave the
warehouse once; a session has one good token and none once it ended; a user has one
default address; no category loses its parent and no product its category; a seller
changes only what is theirs; a product has one primary image, whose file is there;
a message goes out once; everything that starts ends. Many of these hold only but for
certain races, and then the property names the race. The hazards that threaten them,
each with its line, are in `PROJECT.json`.

## The modules

**StockLedger** is what the inventory promises: each variant has units on hand, of
which some are reserved, and a reserve, release or deduct of one item happens at
once or not at all. Rows have no version here and there are no calls.

**Inventory** is `InventoryService`, one action per SQL statement. A call is a
process with the locals it keeps over an `await`: `idx` of the `for` loop,
`attempt`, the row `current`. `ReadEnough`/`ReadShort` are the first `findFirst`
and the check after it; `UpdateTakes`/`UpdateRetry`/`UpdateConflict` the
compare-and-set and what follows `affected === 0`; `ReadAfter` the second read with
the alert; `ReleaseItem` and `DeductItem` one loop iteration with its single UPDATE;
`DbError` a statement that throws; `DropVariant` the cascade from `categories`.
`affected` and `alerts` are observers. It refines StockLedger (`ImplementsLedger`).

**Totals** adds up quantities: the total of a function is the number of elements of a
set that has `f[x]` for each `x`. Inventory, Checkout and OrderPipeline count units with
it; there is no recursion in it, so that the provers can reason about it.

**OrderStatus** is the transition table and the check against it.

**Checkout** is `OrderService.checkout`. `pc` names the statement a request is about
to run, `Catch` says where an exception from each statement leads (inner catch with
or without `stockReserved`, outer catch, logged, out), `DbError` throws at any of
them, `Crash` kills the server there. Stock is used through StockLedger's actions,
which Inventory is proved to implement; a reserve that runs out of attempts is one
more `DbError` at `reserve`. An order has the identity of the request that creates it.
Stripe's answer to `CreateIntent` may also be lost, with the intent created
(`AnswersLost`). `lapsed` is an observer.

**OrderOnce** is what the idempotency key promises to customers, without tables, stock
or payments: a request that takes its key owns it, dead or alive, unless it fails
without an order; another takes it only after it has lapsed and its owner has ended; who
is told of an order is told of its own or of one that asked the same. Checkout refines
it (`ImplementsOrderOnce`): a request is an owner from the claim on (`Owners`), and an
order is placed when its payment row is written. So two running requests never share a
key, which is `OneRunnerPerKey` of the proofs.

**OrderPipeline** is what follows: Stripe (`Emit`, `Deliver`), the handler
(`FindKey` ... `StoreKey`, any of them may fail: `WebhookFails`), the queue
(`job`, `attempt`, `stalls`) and the workers (`Take`, `GetItems`, `MoveItem`,
`CheckStatus`, `WriteStatus`). A job that throws is retried up to `Attempts` times; a
job whose lock is lost (`Stall`) is given to a worker again while the first may be
still at work, and a worker without the lock can neither complete nor fail the job.

**ServiceCalls** is what the remaining REST services share: each request runs one
method, one awaited statement at a time. `call` is what it asks, `pc` the statement it
is about to run, `seen` the row that the method holds in a local variable. `Begin` hands
the request to its method, `Goto` and `End` move it on, `Abort` is a statement that
throws, or a server that dies: these methods catch nothing, so both leave the tables as
they are and the request unanswered or answered 500. A row that a request creates has
the request's identity.

**Sessions** is `AuthService` on it. `register*`, `login*`, `google*`, `refresh*` and
`logout*` are the statements of the methods in their order; `refreshRevoke` and
`refreshRotate` are the two writes of a rotation, which are not one transaction;
`Expire` lets the seven days pass. `raced` is an observer. **AddressBook** is
`AddressService`: `clearDefault` and then `insertAddress` or `writeAddress`;
`crowded` is an observer. **Accounts** puts the two together.

**CategoryTree** is `CategoryService`: the checks (`categoryBySlug`, `findParent`,
`findForRemoval`, `findChildren`) and the writes that come statements later. `Shown` is
what `buildTree` returns, the least set that has the roots and with a category its
children. Stored categories are in no cycle at first (`NoCycleIn`). `moved` and `crossed`
are observers. **Products** is the
product and variant part of `ProductService`: `findProduct` is the look-up with
`seller_id` that starts all methods but create, the writes name their row by id alone.
The guards of the writes are the constraints of the tables; a request whose write the
database refuses can only `Abort`. **ProductImages** adds the images with their files:
`upload` is the `Promise.all` over the files, in which one may fail while the others go
on; `deleteFile` is `StorageService.deleteFile`, which logs its failure and returns;
`Keys` says when two files share a key (name and millisecond). **Catalogue** composes
the three: `removeWithProducts` is the deletion of a category with the cascades of the
schema. The stock rows of variants are in Inventory, which has the same cascade.

**Notifications** is `dispatchNotification`, the queue and `NotificationProcessor`:
`FindUser`, then for each channel `FindSent`, `CreatePending`, `Send`, `MarkSent` or
`MarkFailed`; errors are collected and thrown after the loop. `Send` lets the provider
deliver, refuse in its result (which `EmailChannel` ignores), throw, or deliver and lose
the answer. `Crash` and `LoseLock` are the two ways a job stalls. A job may go over
several channels, as the loop allows, though the list has one entry today; the user's
notification settings are read by the code and then ignored. `doubtful` is an observer.

The modules whose names end in `Proofs` hold the theorems, those that begin with `MC`
define the small instances. The `MCSpec` of MCAccounts and MCCatalogue starts from a few
chosen contents of the tables (`Seed`) instead of from all that `Init` allows.

Definitions named in comments as *plausible bugs* (`SameVersionRow`,
`TriesOneMore`, `UpsertKey`, ...) are not part of any specification: each is what a
definition next to it would be if the code had a likely mistake. Put in its place,
it makes a property fail, which shows that the property depends on that line of code.

## The runs

| Run | Bounds | Shows |
|---|---|---|
| `Inventory_all` | 2 calls of any operation, 2 variants of 2 or 3 units, lists of up to 2 items (also the same variant twice), threshold 1, MAX_RETRY 2 | types, `NoOversell`, `VersionVouchesForRead`, `ReservedUnitsAccounted`, `ConflictMeansContention`, `LowStockAnnounced`, refinement of StockLedger, `CallsReturn` |
| `Checkout_faults` | 2 requests on one key with either of two dtos, one variant of 1 or 2 units, errors, crashes, expiry, carts refilled | types, `OneCheckoutPerKey`, `ReplayIsFaithful`, `ReservationsBacked`, refinement of OrderOnce, `RequestsEnd` |
| `Pipeline_faults` | 1 order, 2 handlers, 2 workers, 2 attempts, 1 stall, faults | types, `OneJobPerEvent`, `PaidWasCharged`, `PaidIsFinal` |
| `Pipeline_two` | 2 orders and a spare unit, 1 handler, 1 worker, 3 attempts, no faults | `SoldOnce`, `DeductedUnlessRefused`, `JobsEnd` |
| `Accounts_mix` | 3 requests of any kind, 2 e-mail addresses, 2 Google profiles, 1 stored token, 1 stored address, every statement may fail | types, `ForkNeedsRace`, `DeadFamilyStaysDead`, `OneAccountPerGoogleId`, `OneDefaultUnlessCrowded` |
| `Catalogue_mix` | 3 requests out of 17 kinds of an admin and 2 sellers, 2 categories, 2 products, 2 SKUs, 3 images a product and 2 files an upload, every statement may fail | types, `OrphansNeedRace`, `HiddenNeedsMove`, `NothingDangles`, `OnlyOwnerChanges`, `DisabledUntilAsked`, `ImagesSoundUnlessDisturbed`, `RowsHaveFiles`, `FilesHaveRows` |
| `Notifications_faults` | 1 job over 2 channels, 2 workers, 3 attempts, 1 stall, faults of database and provider | types, `MailedTwiceOnlyInDoubt`, `SentMeansDelivered`, `CompletedMeansSent`, `JobsEnd` |

Why these bounds are enough to be interesting. MAX_RETRY 2 with a two-item list
lets one call lose twice to the other. Two requests on a key, one of which
may be a retry with another address, give every overlap of a claim with the end of
another, the expiry of its key and the clean-up after a failure; that no third one
changes anything is what the proofs add. Two workers on one order give every overlap of
a stalled job with its second run and of the two kinds of job. Two orders are the least
that let one take the other's units. Three requests of a user are the least that let
two race and a third meet the result (a refresh, the reuse of its token and a logout; two
defaults and a removal). Three requests of the catalogue let a product be stored in a
category that is being removed while its variant is changed, or two image requests meet
a third. Two channels are the least that let a retry find one sent and the other not.

What is capped by a bound of the model and not of the code: cart quantities
(`MaxCartQty`), the stalls a job survives (`MaxStalls` is BullMQ's default), the images
of a product and files of an upload (5 and 5 in the code), deliveries of one message
(counted up to 2), the number of processes. Quantities never come near 2^31, so
PostgreSQL's integer width is not modelled.

Symmetry is used only in runs without liveness. The calls of Inventory and Checkout are
finite, so their specifications end in an explicit stuttering step (`AllDone`,
`AllEnded`), and deadlock is checked there and in OrderPipeline. Accounts, Catalogue and
Notifications simply stop when every request is answered and every job has ended, and
their runs do not check for deadlock; that no job gets stuck is `JobsEnd`.

**Fairness.** `FairSpec` is weak fairness of the next statement of each call,
request, handler and worker, and of an idle worker's poll: Node's event loop runs
every continuation whose statement has returned, and BullMQ's worker polls. Errors,
crashes, stalls, Stripe's deliveries and new calls are never made fair: nothing
needs them to happen. The methods on ServiceCalls are straight lines without loops, of
which no liveness is claimed.

### What the code does otherwise

Each of these runs has one property, taken from the repository's own documents, and
TLC finds it violated.

| Run | The document says | The code does |
|---|---|---|
| `Checkout_leak` | stock of a cancelled order is released (`docs/event-flows.md:30`) | when `reserveStock` throws at its second item, `stockReserved` is false and the first stays reserved |
| `Checkout_orphan` | nothing after a successful external call may lead to the general failure branch (`docs/adr/008`, line 37) | `payment.create` (`payment.service.ts:37`) comes after the intent; when it throws, the order is cancelled and can still be paid. `AnswersLost` is FALSE in this run: Stripe's call itself never throws with an intent created, so the trace is that of the row |
| `Pipeline_eaten` | stock of an order in `stock_reserved` is reserved (`:30`) | the failing job releases at every attempt, from what other orders reserved |
| `Pipeline_lost` | dispatch, store the key, return 200 (`:222-224`) | the key is stored first and kept on failure, so a retried event is answered 200 without a job |
| `Accounts_reuse` | a stolen token that is replayed revokes its whole family (`README.md:107`) | a refresh between its two writes is not seen by the `updateMany`, and then stores a good token in the revoked family |

Met while modelling and not given a run of their own:

- `order-transitions.constant.ts:7`: no arrow leads from `stock_reserved` to
  `payment_failed`, where `docs/event-flows.md:15` draws one. A HandlePaymentFailure job
  therefore throws at each attempt and fails for good.
- After a refused and then accepted card the units have been released: the deduct of
  ConfirmOrder may affect no row, which is only warned about, and the order is paid.
  `DeductedUnlessRefused` excepts such orders; `docs/event-flows.md:35` does not.
- Two overlapping reserves announce one low-stock crossing twice, and a release
  between the reads of a reserve (it does not bump `version`) lets a crossing go
  unannounced; `docs/adr/005-low-stock-alert-strategy.md:25` wants exactly one
  announcement. `LowStockAnnounced` therefore speaks of variants nobody has released.
- `order.service.ts:105`: if the key found taken is deleted before it is looked up,
  the same request is told that the key was used for another one.
- `order.service.ts:136`: two checkouts of one cart under two keys both read it before
  either clears it, and place two orders. Line 215: the cart is cleared with what was
  added after it was read.
- `cart.service.ts:90`: the update and the removal of an item swallow every error and
  answer with the cart as it is. Line 40: neither the cart nor checkout asks whether a
  variant is on sale.
- `payment.service.ts:138`: a late `payment_failed` event turns the payment of a
  paid order to `failed`.
- `order.service.ts:52`: two runs of a stalled job both write the transition to
  `paid`, and the history has it twice. They also deduct twice, which is why
  `SoldOnce` is claimed of runs without faults only.
- `auth.service.ts:99`: two refreshes with one token that both find it good fork the
  session. A refresh that breaks off after its first write leaves a client whose retry is
  taken for theft. Line 46: sign-in with a password does not ask whether the account is
  active, sign-in at Google does.
- `category.service.ts:94`: a category may be moved under its own descendant, which hides
  the whole cycle from buyers, or under a parent that does not exist.
  `docs/database-design.md:113` declares `parent_id` a foreign key; `schema.prisma:94`
  has the plain column, so the database does not prevent either.
- `product.service.ts:352` and `:408`: two uploads may pass the limit of images
  together; overlapping or broken-off removals leave no primary image, or two.
- `notification.processor.ts:71` and `email.channel.ts:37`: what the provider refuses in
  its result, without throwing, is marked sent. `notification.processor.ts:40`: a second
  event with the same content is taken for one already sent.

## What is proved

Each theorem holds for every value of the constants: any number of calls, requests,
workers, variants, rows. Each rests on the named assumptions of its modules and nothing
else; TLC evaluates these in every run. Every safety invariant and every action property
that a passing run checks is a theorem, and so are both refinements.

**TotalsProofs**: what the proofs know of a total. It follows a change of one value
(`TotalChange`), grows with the function (`TotalMonotonic`), is at least each value
(`TotalBounds`) and 0 where all are (`TotalZero`). A cardinality says something of finite
sets only, so each needs the function to be `Countable`: finitely many of its values are
positive. For calls and requests that is part of the invariant, not an assumption on
them: however many there may be, finitely many steps have been taken. OrderPipeline,
where all orders hold units from the start, assumes finitely many of them.

**InventoryProofs** (`InventoryAssumption`: item lists are sequences of items with
positive quantities, stocks and threshold are naturals, MAX_RETRY is positive, `NoRow`
is no row).

- `InventoryTyped`, `NeverOversold`, `VersionSuffices`, `ConflictsAreContention`,
  `EveryUnitAccounted`, `CrossingsNoticed`: the invariants `TypeOK`, `NoOversell`,
  `VersionVouchesForRead`, `ConflictMeansContention`, `ReservedUnitsAccounted`,
  `LowStockAnnounced`;
- `ServiceImplementsLedger`: `Spec => ImplementsLedger`.

`NoOversell` is inductive row by row (`RowOK`), but those of versions and conflicts are
not. A call between its read and its UPDATE must know that what it read is in the past
of the row: the version can only have grown, and *as long as it has not, no available
unit has gone* (`ReadInPast`). That is true because of what each statement may do to a
row, seen from outside (`Evolves`): a reserve bumps the version, a release adds
available units, a deduct leaves them as they are. So the version alone guards the
compare-and-set, though only one operation of three bumps it, and an UPDATE that affects
no row means that the version has moved. Each lost attempt has therefore cost the row a
version (`AttemptsCostVersions`), which bounds from below the version of a row on which
a call gives up (`GaveUp`). `IInv` is the conjunction of these with the type invariant;
`InitOK` and `NextOK` show it inductive, action by action. That the reserved units are
those the calls took and did not give back needs `Accounts`: a call handles its items in
order, so a statement is always about an item not counted yet (`Account`), and finitely
many items have been handled (`Counting`). That low stock is announced is only so where
nothing is released, and there a version that has not moved vouches for *exactly* the
available units that were read (`ReadIsCurrent`): the call whose UPDATE takes the stock
over the threshold saw it above, and its second read sees it below. The refinement maps
a row to itself without its version; `NextMaps` shows each action to be one ledger
action or to leave the mapped rows alone.

**CheckoutProofs** and **ReplayProofs** (`CheckoutAssumption`: parameters name users,
keys and addresses, stocks are naturals, a cart takes at least one unit, `None` is no
row, request or parameter), with errors, crashes, shopping and expiry on or off.

- `CheckoutTyped`, `KeyIsLock`, `KeyPaysOnce`, `HeldUnitsBacked`: `TypeOK`,
  `OneRunnerPerKey`, `OneCheckoutPerKey`, `ReservationsBacked`;
- `ReplaysAreFaithful`: `ReplayIsFaithful`;
- `CheckoutKeepsPromise`: `Spec => ImplementsOrderOnce`.

That two requests never hold one key is not inductive alone: `Claim` succeeds when there
is no row, so every holder must still have its row (`HeldKeysStand`). Two steps remove
rows: `Purge` takes expired ones, which no holder has, because a key expires only when nobody
holds it; `DropKey` is run by a holder, and by induction there is no other. That
one checkout completes needs more, since a payment outlives its request: `PaidKeysStand`
says that, until the key lapses, the row of a paid order stays, the request can only go
on to store the response, and no other request holds the key. It is kept because every
statement after `CreatePayment` is best-effort: no `Catch` leads from `store` to
`dropKey`. The one assumption about time is in the guard of `Expire`: the request that
created the row does not hold it for 24 hours. Requests that only come across the key,
between `Purge` and `LookUp`, may see it expire. The stock has reserved at least what the orders hold (`Backing`): each
statement changes both by the same item, and the clean-up starts only where all items
were reserved (`StockReserved`). For the replays, three facts about rows are added
(`RInv`): an order past `StockReserved` keeps its status until it fails, and one with a
payment does not fail any more (`OrderStands`); the row of a holder has the holder's
hash (`HashIsHolders`), from the lock; and a response in a row is that of a paid order
whose hash is the row's (`RowTells`), because only a holder stores one. The refinement
adds what becomes of the key of a request whose server died (`DeadKeysStand`): its row
stays, with nobody at work under it, until it lapses. Then each statement is one step of
OrderOnce or none, at the claim (`ClaimMaps`), the payment (`PaymentMaps`) and the
answers (`AnswerMaps`).

**AccountsProofs** (`SessionsAssumption`, `AddressAssumption`: ids of requests and of
old rows are distinct, `None` is none of the values).

- `Types`, `OneGoodToken`, `EndedForGood`, `OneDefault`, `OneGoogleAccount`: `TypeOK`,
  `ForkNeedsRace`, `DeadFamilyStaysDead`, `OneDefaultUnlessCrowded`,
  `OneAccountPerGoogleId`.

One good token per family is not inductive: between the two writes of a rotation there
is none, and the family still goes on. The heads of a family count such refreshes with
its tokens; a family that no two refreshes raced for has one head at most, and no step
adds one but the first token of a sign-in, whose family is new. The default address is
kept by `Orderly`: for a user whose requests did not crowd, a request that is about to
store a default is alone, and there is no default then. A Google profile is linked to
one account at a time (`LinksUnique`, the unique column), but a sign-in for another
profile may overwrite the link of the account it finds by e-mail. `GoogleLinked` keeps
what is left: the account that a profile was signed into is linked to it, or another
profile's request has named its e-mail.

**CatalogueProofs** (`CategoryAssumption`, `ProductAssumption`, `ImageAssumption`: ids of
requests and of old rows are distinct, `None` is none of the values, one request may
upload at least one file and no more than a product may have).

- `CatalogueTypes`, `OnlyRacesOrphan`, `OnlyMovesHide`, `NothingLeftDangling`: `TypeOK`,
  `OrphansNeedRace`, `HiddenNeedsMove`, `NothingDangles`;
- `OnePrimaryImage`, `ListedHaveFiles`, `FilesAreListed`: `ImagesSoundUnlessDisturbed`,
  `RowsHaveFiles`, `FilesHaveRows`;
- `SellersKeepTheirs`, `OffSaleUntilAsked`: `Spec => OnlyOwnerChanges`,
  `Spec => DisabledUntilAsked`.

For the tree, a creation remembers that its parent was there, or has met the removal of
it (`ParentKnown`), and a removal that there were no children, or that those that came
since were moved there or have met it (`ChildrenKnown`). A category that was not moved
has the parent it was created with, which was answered before it was asked for, so a new
one closes no cycle among those not moved (`NoLoop`); and a category that is in no cycle
is reached from a root. For the sellers, what was asked when the product was found must
still be so when a row is written by its id, statements later (`Owned`, `Placed`): no
statement changes a product's seller or a variant's product, and no identity is given
twice, since a request stores its rows with its last statement (`StoredIsAnswered`).

For the files, each image that a request has in hand is its own or one it has found, of
the product it was asked about (`ImageReq`), a row names a file of the upload it came from
(`RowFits`), and a file is of an upload that has stored its rows or is about to
(`FilesFit`). The primary image needs most (`WholeInv`): while no request disturbs
another at a product, one at most is at work there; what it has counted (`Room`) and read
(`Flag`) still holds; and the product has one primary image, or the request that
removed it is about to name the next.

**PipelineProofs** (`PipelineAssumption`: finitely many orders, of any quantities; an
attempt; `NoEvent`, `NoJob`, `NoRow` are none of the values; any handlers and workers).

- `PipelineTypes`, `EventMeansJob`, `PaidMeansCharged`, `StockSoldOnce`, `PaidIsDeducted`:
  `TypeOK`, `OneJobPerEvent`, `PaidWasCharged`, `SoldOnce`, `DeductedUnlessRefused`;
- `PaidStays`: `Spec => PaidIsFinal`.

A handler past the creation of the key is alone with its event, which has had no job
(`Handling`); a job stands for an event whose key is stored (`Queueing`); and a worker
about to write a status writes `paid`, since the table lets no other target pass from the
statuses that are reached (`Working`, `NoArrow`). For the units, a worker's loop has its
order's items behind it or before it (`Rows`), and without faults a worker that is at work
has the lock of its job, an order is paid just when its job is completed, and the stock
misses what the loops have passed (`Calm`): `Gone` of an order is what has left the
warehouse for it, `Left` what it still has reserved.

**NotificationsProofs** (`NotificationAssumption`: there is a channel and an attempt,
`None` is no job).

- `NotificationsTyped`, `MailedOnce`, `SentWasDelivered`, `NoChannelSkipped`: `TypeOK`,
  `MailedTwiceOnlyInDoubt`, `SentMeansDelivered`, `CompletedMeansSent`.

A worker has sent over the channels it is past or holds an error (`NoneSkipped`), so one
that ends well has sent over all. Outside doubt, one worker at most has a message in
hand, and a message that was delivered is recorded or about to be (`Certain`): the next
attempt finds the row. One worker has the lock of a job (`Locked`), so the queue hears of
an attempt once and counts it once (`Counted`).

**Only model-checked**: liveness (`CallsReturn`, `RequestsEnd`, both `JobsEnd`), since
fairness and ENABLED are outside what the prover handles. What the violation runs refute
is false of the code, so there is nothing to prove.

## What is left out

- A transaction that commits although its answer is lost (except Stripe's and the mail
  provider's): the statement either happened or threw. A crash right after a statement
  covers the effects on the database, but not a catch block that runs after a commit.
- Deleting variants while orders with them are open, in Checkout and OrderPipeline:
  cascades would delete the order items too.
- Webhook keys and checkout keys share one unique column; the modules keep them apart.
- Event types the handler ignores, events without an order id, and the 24 h after
  which a webhook key could be purged (no code purges them).
- In OrderPipeline an order is either placed with its payment row, or cancelled with
  an intent and no row; other unfinished checkouts are in Checkout only.
- In the catalogue: read-only listings, a dto that names one SKU twice (the database
  refuses it), files of two requests that share name and millisecond, resizing.
- Rows of notifications that are pending or failed: nothing reads them.
- Of the cart, the look-up or creation of the cart row before each change, and the
  errors it swallows.
- The early return of the e-mail channel for users without an address
  (`email.channel.ts:28`): the column is NOT NULL.
- Password hashing, signatures, JWT validation and guards: a request is taken after its
  guards; access tokens are remembered in no table.
- Pagination, retry delay, SKU and order numbers, amounts: arithmetic of a line, random
  draws and formatting, where a model would only repeat the definition.
- Prices, texts, logging; the stubs of user, analytics and webhook services.

## Plan

Done: Inventory with its ledger, Checkout, OrderPipeline, Accounts, Catalogue,
Notifications, each with proofs.

Next: a composition of Checkout with OrderPipeline, so that orders reach the pipeline by
being placed; the cart with its statements.
