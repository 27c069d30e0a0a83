# Burujan Commerce: specification and proofs

TLA+ modules for the shop in `src/apps`: what the services of the API write to the database, in
which transactions, and what can happen between them; and the pages of the storefront and the
admin console that hold state of their own. TLC checks small instances; TLAPS proves the results
for every value of the constants.

## 1. Inventory of the system

The API is a NestJS process (any number of replicas) over MySQL (InnoDB), with Redis/BullMQ
queues for background work, S3 for media, and Stripe and PayPal as payment providers. Nothing
but the database is shared between requests, so what matters is which reads and writes share a
transaction and at which isolation. Three kinds occur:

* `isolationLevel: Serializable`: InnoDB turns reads into locking reads; the transaction is one
  atomic step. Used by checkout, order transitions, shipping, both webhooks, returns, votes and the
  manual stock adjustment.
* the default, REPEATABLE READ: reads come from the snapshot of the first read, writes go to the
  current rows. Used by `capturePayPal`, the product editor, the moderation of reviews and
  most of the admin service. Such a transaction is (at least) two steps here: one that reads, one that writes.
* no transaction: checks first, a write or a transaction of writes later. Used by the cart, the
  refund, sign-ins, mailed links, roles, category moves. Two steps or more.

A call to a provider or to the bucket, and everything a request has read before it, is a step of its own.

The web application is a Next.js client with one TanStack Query cache per tab. What is hard there
is state that is older than the row: an answer that comes after a mutation, an invalidation that
cancels a fetch, a click on what the page showed a while ago, a second click after a lost answer.

| Component | State | Operations | Hard behaviour | What makes it correct |
|---|---|---|---|---|
| Inventory (`inventory.service.ts`, stock writes of `admin.service.ts`) | `Inventory` counters, `InventoryReservation`, `InventoryTransaction` | reserve, commitOrder, cancelOrder, adjust, product editor, restock | contention for the last unit, late payments, stale editors | no oversell; counters = rows; ledger = counters |
| Release job (`processors.ts` `release`) | batch in memory | read 100, claim one at a time | two workers, crash inside a batch, unordered batch | a lapsed reservation is closed once, and eventually |
| Checkout (`checkout.service.ts`) | order, items, history, payment, coupon usage, cart | placeOrder | same key twice, coupon limits, stock, rounding | one order per key; stock held for each line; sums that fit |
| Orders (`orders.service.ts`) | order status, history, shipments | transition, cancelMine, ship | administrators, customer and webhooks at once | statuses follow `ORDER_TRANSITIONS` |
| Payments (`payments.service.ts`) | payment status and transaction id, events, refunds | initialize, capturePayPal, webhook, paypalWebhook, refund | gateway call between read and write, late, duplicate and reordered events | PAID only after a charge; refunds within the payment |
| Returns (`returns.service.ts`, `returnStatus`) | requests, items, order status | create, provideInformation, status | rejected requests, restock once | never more returned than bought |
| Cart (`cart.service.ts`) | user and guest carts | add, update, remove, merge | two tabs, merge at login | no unit ordered twice; what is refused is unavailable |
| Accounts, sessions (`auth.service.ts`, `account.service.ts`, `processDeletions`) | user, sessions, one-time links | register, sign-in, refresh, links, passwords, suspension, deletion | double use of a token, a sign-in that overtakes a reset | a credential that is spent stays spent; live sessions are current |
| Second factor | authenticator, recovery codes | setup, confirm, disable, use | two sign-ins with one code | one set of codes, none good again after its use |
| Roles (`admin.service.ts`) | roles, assignments | createAdmin, setAdminRoles, customerStatus, createRole, deleteRole | checks outside the writing transaction | assigned roles exist; a super administrator remains |
| Newsletter (`public.service.ts`) | subscription, links | subscribe, confirm, unsubscribe | two requests with one link, withdrawal between read and write | only a request that found the link open confirms |
| Catalog administration (`admin.service.ts`, `media.service.ts`) | categories, products, variants, pictures, reviews | moves, editor, uploads, moderation | read outside the transaction, two stores, overlapping snapshots | a tree, variants keep their combination, a featured picture, exact aggregates |
| Address book, wishlist | rows of a customer | CRUD, move to cart | two tabs, two requests for one click | one default, moved once |
| Storefront pages (`apps/web`) | query cache, forms, requests in flight | see section 3 | stale answers, lost answers, second clicks, effects run twice | a step is exact, an order departs from the defaults only in what was shown, the page shows who is signed in |
| Console pages (`apps/web/src/app/admin`) | shown record, chosen status | load, choose, send | stale status sent again | a click undoes nothing unasked; stock and money move once per entry |
| Mail (`jobs.service.ts`, email worker of `processors.ts`, `email-templates.ts`) | letters in the queue by job id, attempts, stalls | a letter after each change of an order, attempts, evicted records | a death between commit and queue, an id queued twice, an answer lost by the SMTP server | letters are true, none vanishes but with its request, copies are accounted for |
| Catalog queries and pages, notifications, throttling, logging, health, seed | none of their own | reads, adapters | | not modelled |

Interactions: checkout calls Inventory inside its transaction and creates the payment; the
storefront then calls initialize and sends the browser to the provider; the provider's webhook, or
for PayPal the success page through `capturePayPal`, marks the payment paid, confirms the order
and commits its reservations; administrators and the customer move the order; the release job
gives lapsed reservations back in the background; a received return restocks. Sign-in merges the
guest's cart, sets the cookies the tabs share, and is what suspensions, new passwords and
deletions have to undo. Pages talk to the API only; what their calls do is in the modules of the services.

## 2. Plan

| # | Modules | Content | State |
|---|---|---|---|
| 1 | `Inventory` | stock service, release job, manual changes; the abstract specification (`StockSpec`) for its callers | modelled, checked, proved; liveness checked |
| 2 | `OrderStates`, `OrderFlow` | checkout to delivery, payments without refunds, over `Inventory` | modelled, checked, proved; liveness checked |
| 3 | `AfterSales` | returns and refunds in four steps, with crashes | modelled, checked, proved |
| 4 | `Cart` | carts, merge at login, checkout of a cart, a coupon's limits | modelled, checked, proved |
| 5 | `Credentials`, `Accounts`, `TwoFactor`, `Newsletter`, `Roles` | identity: what a credential promises, and four components | modelled, checked, proved |
| 6 | `Categories`, `Reviews`, `AddressBook`, `Library`, `ProductEditor` | catalog and address book | modelled, checked, proved |
| 7 | `Browser`, `VerifyPage`, `Bag`, `CheckoutPage`, `Wishlist`, `ProfilePage`, `Console` | pages with state of their own | modelled, checked, proved |
| 8 | `Pricing` | money of an order against its sums | modelled, checked, proved |
| 9 | `Mail` | the letters about an order and their queue | modelled, checked, proved |
| open | | shipping rates and tax classes, contact messages, consents | not modelled, section 6 |

Three refinements tie the modules together: `OrderFlow` and `AfterSales` implement `StockSpec`, `Cart` implements
`FlowSpec`, and `Accounts`, `TwoFactor` and `Newsletter` implement `Credentials`.

## 3. Modules

| Module | Role |
|---|---|
| `Inventory` | stock tables and every operation that writes them |
| `OrderStates` | status enums and transition tables |
| `OrderFlow` | orders and payments; EXTENDS `Inventory`, so a checkout or webhook contains the stock operation it calls |
| `AfterSales` | returns and refunds; EXTENDS `OrderFlow` |
| `Cart` | carts, the checkout of a cart and the coupon; EXTENDS `OrderFlow` |
| `Credentials` | abstract: issued, good, void, and who may act on one |
| `Accounts` | one account with its sessions and mailed links; instance of `Credentials` |
| `TwoFactor`, `Newsletter` | recovery codes, confirmation links; instances of `Credentials` |
| `Roles` | roles of staff |
| `Categories`, `Reviews`, `Library`, `ProductEditor`, `AddressBook` | the category tree, one product's reviews, pictures, variants; a customer's addresses |
| `Pricing` | the arithmetic of `placeOrder` |
| `Mail` | the letters about one order, from the commit to the SMTP server |
| `Browser`, `VerifyPage`, `Bag`, `CheckoutPage`, `Wishlist`, `ProfilePage`, `Console` | pages |
| `MCInventory`, `MCOrderFlow`, `MCAfterSales`, `MCCart`, `MCRoles` | instances for TLC |
| `MCIdentity`, `MCShop` | the components of identity, and of catalog, pages and mail, side by side for TLC |
| `InventoryProofs`, `OrderFlowProofs`, `AfterSalesProofs`, `CartProofs`, `AccountsProofs`, `IdentityProofs`, `CatalogProofs`, `PagesProofs` | theorems |

### Inventory

`available`, `reserved`, `sold` are the counters of an `Inventory` row; `ledger` holds the sums of
the `InventoryTransaction` deltas of a variant (the rows are only ever added). A cart has one line
per variant (`@@unique([cartId, variantId])`), so an order has one reservation per variant:
`quantity[o][v]`, with `released` and `converted` for `releasedAt` and `convertedAt`, and `lapsed`
for orders past `expiresAt`. `candidates[w]` is what a run of the release job has read outside any
transaction. `editing` and `seen` are the snapshots of product editors.

| Action | Code |
|---|---|
| `Reserve`, `ReserveAndCommit` | `reserve` for every line; with `commitOrder` for cash on delivery |
| `CommitOrder`, `CancelOrder` | the loops over reservations with their claims, in the caller's transaction |
| `Restock` | the loop of `returnStatus` over the items of a request that becomes RECEIVED |
| `ReceiveReturn` | `Restock` of a quantity that a return request may name (`returns.service.ts` compares it with the order's) |
| `Lapse` | time |
| `ReleaseRead`, `ReleaseClaim`, `ReleaseSkip`, `ReleaseFail` | `release`: the query, one transaction per row, a claim that matches nothing, and a failing transaction or dying worker |
| `AdjustInventory` | `adjustInventory` (serializable) |
| `EditSnapshot`, `EditCommit` | `editProduct` with `syncProductVariants` (default isolation), for a product with one variant |

`StockNext` lets a caller use the operations in any order. It is the abstract specification that
`OrderFlow` implements, which is proved and also checked.

### OrderFlow

An element of `Orders` is an idempotency key with the order and payment created under it; a repeated
`placeOrder` returns the first order and is a stutter. `history[o]` is the last
`OrderStatusHistory` row. `transaction[o]` says which kind of id `Payment.transactionId` holds: the
checkout session (or PayPal order) or the charge (or capture). `capture[c]` is a `capturePayPal`
request in flight with what it has read; `initializing` the payments an initialize request has read
PENDING (two such requests for one payment write the same values, so a set is enough).
`charged`, `emitted` are the providers; `stored` is the `PaymentEvent` table.

Every event stays deliverable: it may arrive late, in any order and again, which the code answers from
`stored`. A gateway call carries the payment's own idempotency key and answers the same session or
capture when repeated; keys are assumed not to expire at the provider. `CHECKOUT.PAYMENT-APPROVAL.REVERSED`
is handled like a denied capture and not a separate event here.

`Transition` has the targets `Targets`; the statuses after DELIVERED can be reached by it as the
table allows. The return request and the refund that also set them belong to `AfterSales`.

### AfterSales

`request[o]` is the return request of an order with its lines, `refunds[k]` the `Refund` row with the
idempotency key `k`, `paidBack[k]` what the provider has paid back under this key, and `call[a]` a
refund request in flight with what it has read: the sum of the refunds that succeeded
(`already`) and the order's status (`was`).

| Action | Code |
|---|---|
| `CreateReturn` | `ReturnsService.create`: a delivered order goes to RETURN_REQUESTED |
| `ProvideInformation` | `provideInformation` |
| `SetReturnStatus` | `returnStatus`, with `Restock` at RECEIVED |
| `RefundCheck` | the reads and checks of `refund`, outside any transaction |
| `RefundCreate` | the row, PROCESSING; its key is unique |
| `RefundGateway` | the call to the provider, which answers succeeded or pending |
| `RefundFinish` | the transaction that writes the row, the payment, the order and its history |
| `RefundFail` | the `catch`: the gateway refused, its answer was lost, or the transaction failed |
| `RefundDie` | the row existed already, or the process stops |

The code allows several requests for one order, but a second one needs the order back in DELIVERED,
which nothing does: `OneRequestPerOrder`, a part of `ReturnsFollowDelivery`, checks the assumption behind the variable. It holds without capture
requests (`Clients = {}`); a stale capture can set any order CONFIRMED, and what follows then is
the finding about the state machine. A line is named once in a request
(`@@unique([returnId, orderItemId])`). The reads of payment, refunds and order in `RefundCheck`
are taken as one. The provider pays back at most what was charged. A pending refund stays PROCESSING:
no webhook completes it. The limit of 30 days and the images of a request are left out.

### Cart

`carts`, `expired` and `items[c][v]` are the rows of the carts of customers and guests; `items` is 0
where no line exists. `tab[t]` is a request of the cart service between two of its writes, with what it has read.
`coupon` is the policy of one coupon in force, `usedCount` its counter, `uses` the orders with a `CouponUsage`
row, `buyer` the customer of an order. `put[v]` has no counterpart in the database: it counts the units
that customers have put into carts, to compare orders with.

| Action | Code |
|---|---|
| `AddCheck`, `AddCart`, `AddItem` | `add` and `addGuest`: the stock check, the upsert of the cart with its 30 days, the upsert of the line, each a statement of its own |
| `UpdateCheck`, `UpdateWrite` | `update`: reading the line and the stock, overwriting the quantity |
| `Remove` | `remove`, `removeGuest` |
| `MergeRead`, `MergeWrite` | `mergeGuest` at login: the guest's cart as read outside the transaction; the transaction that adds it and deletes the guest's cart |
| `TabFail` | a request that dies or is refused by the database after it has read |
| `Expire` | time |
| `Checkout` | `placeOrder`: `PlaceOrder` with the lines of the cart, the coupon, the emptied cart |
| `UpdateCoupon` | `updateCoupon`, `deleteCoupon` and the job `expire-promotions` |

A row that is deleted takes the requests that have read its id with it (`FailTabs`): their update, delete or
insert with a foreign key fails, and the transaction of a merge is rolled back. That is what keeps two logins with the same guest's
cart from adding it twice. A `usageLimit` above the number of orders stands for none, a `perUserLimit` of 0 is none,
as in the code; the other conditions of a coupon are constants of an order and left out, as are products
that are deactivated and the deletion of an account with its cart. A customer's `add` brings an expired cart back with its old lines; a
merge leaves it expired.


### Identity

`Accounts` follows one account from its registration to its anonymisation. `user`, `session` and `link` are
rows; `req[r]` is a request between what it has read and what it writes (`LoginRead` / `CreateSession`,
`RefreshRead` / `RefreshWrite` / `RefreshAnswer`, `VerifyRead` / `VerifyWrite`, `ResetRead` / `ResetWrite`,
`ChangePasswordRead` / `ChangePasswordWrite`, `EmailChangeRead` / `EmailChangeWrite`, `DeletionRead` / `DeletionWrite`);
`jar` is the refresh token in each browser, a second of the clock because two JWTs of one session and second are equal, 0 when there is none.
`proven`, `shaken` and `late` have no counterpart in the database: the addresses somebody has answered for, the sessions of which refreshes overlapped or an answer
was lost, and the sign-ins that were in flight while the password or the status changed. The
properties name these exceptions because the code does not rule them out: a sign-in that has compared the old password creates
its session after the reset, and the loser of two refreshes with one token looks like a replay and revokes the family.

`TwoFactor` is the authenticator and its recovery codes, `Newsletter` one address and its links, `Roles` the roles of
staff with requests that check (`RolesCheck`, `StatusCheck`, `DeleteCheck`) before they write.
`alone` in a request says that no other one has written since it checked.

`Credentials` says what these have in common: a credential is unissued, good or void, never goes back, and
the account changes only by a request that found a credential good. `Accounts` maps sessions and
links to it, `TwoFactor` its codes, `Newsletter` its links. Two requests may find the same link good (the code checks and uses it up in
two statements); both may then act, each once.

### Catalog and address book

| Module | State | Steps the code takes |
|---|---|---|
| `Categories` | `parent`, `visible`, moves in flight | `MoveBegin`, one `MoveWalk` per row read, `MoveWrite`; creation and archiving |
| `Reviews` | reviews of one product, `rated`, votes, `helpfulCount` | `ModerateBegin` takes the snapshot, `ModerateCommit` writes the review and the aggregate of snapshot and own write |
| `Library` | bucket, `Media`, `ProductImage`, the form's pictures | bucket and database one after the other, a stop between them |
| `ProductEditor` | product with its variants, cached product, form | typing rebuilds the rows of the form; `SaveVariants` is `syncProductVariants` |
| `AddressBook` | addresses, defaults, one form per tab | `ClearDefaults` locks the rows, `SaveAddress` commits |

### Pages

| Module | State | Steps the code takes |
|---|---|---|
| `Browser` | cookies shared with other tabs, path, query cache and requests of the header and the admin layout, menus, sign-in form, sign-out | `FullLoad` and `SentTo` start the tab anew, `Follow` keeps its cache; `AdminLoginAnswered` turns a customer away, `CustomerRevoked` signs her out again |
| `VerifyPage` | the screen, the posts of the link's token, tokens with their type, whether the account is verified | an effect that React runs `MaxEffects` times; `VerifyReads` and `VerifyWrites` are the two halves of `verifyEmail` |
| `Bag` | `served` the rows, `page` what is shown, `fetch`, `update` and `removal` what is in flight | each click, its write and its answer; invalidation cancels the fetch in flight; `ReenterBag` |
| `CheckoutPage` | the wizard with the steps `seen`, submits in flight with the form as it was, the cart, the latest order | the three steps, the step bar, `ClickSubmit` and `SidebarSubmits`; `PlaceAtApi` |
| `Wishlist` | rows, units in the cart, calls in flight, what the buttons know | `MoveToCartFind`, `MoveToCartAdd`, `MoveToCartRemove`; `ReenterWishlist` |
| `ProfilePage` | the stored row, what is shown, answers in flight | answers of the form and of the photo are merged into the query cache |
| `Console` | the record, what the page has loaded and what was chosen, one request in flight, what was typed | load, choose a status or type an adjustment, send, reload; `Elsewhere` and `StaleWrite` are the others; `ReenterPage` |

What a component keeps in `useState` and `useMutation` is lost when its page is left, and what the query cache holds is
not: `ReenterBag`, `ReenterWishlist` and `ReenterPage` do just that at any moment, with calls in flight. These calls go on:
the wishlist keeps them, since two of them on one row are its hazard; a step of the cart or a status of
the console that is carried out after its page was left counts as somebody else's.

Ghosts have no counterpart in the code; they mark what a page could not know, so that the properties can name their
exceptions. `disturbed`: another tab has changed the cookies; until this tab is loaded again nothing is promised. `turned`: whom the console's sign-in form has
turned away, or signed in over. `lost`, `unsure`: answers that were lost.
`clean`: no row has changed unseen since the last fetch. `doubtful` is the profile page's counterpart. `crossed`: a
wishlist row of which a call died, or overlapped one of another row or one from before the page was left. `old`: what the console holds that is older than a
stale write. `mine`: a post of this page was applied.

### Money and mail

`Pricing` computes line discounts, taxes and totals in integers as `checkout.service.ts` does with `Decimal`, and compares
them with the sums they stand for. `Hundred` is a hundred percent in the unit in which rates are kept (`common/money.ts` divides by 100; rates have
decimals, so the unit may be finer). A coupon's value is any natural number: `CouponDto` and `createCoupon` do not compare a percentage with a hundred, and one of 150
makes an order cost less than nothing, which is why `NothingNegative` speaks of the others only.

`Mail` follows one order and its letters. A call that changes the order commits (`Place`, `Transition`, `Ship`) and then holds the letter of the
change in `holds[r]` until it has queued it (`Enqueue`) or dies (`Dies`: the process stops, or Redis refuses and the call answers 500 for a
change that stands). `due`, `queued` and `died` have no counterpart in the database: there is no outbox. The job id is the order's id with the
name of the change, and BullMQ ignores an id it knows, which is what makes a second "placed" harmless: it is written when two calls with one key overlap and the loser answers
the winner's order after P2002 (`PlacedAlready`). A call that finds the order at the start writes nothing, so a retry after a
crash does not repair the loss. `reached` is the history of statuses, `overtook` says that `capturePayPal` has written CONFIRMED over a later one
(the same stale write as in `OrderFlow`); the order may then be processed or cancelled a second time, and the second
letter is dropped for its id.

| Action | Code |
|---|---|
| `Begin`, `Place`, `PlacedAlready` | `placeOrder`: the lookup of the key, the transaction, the `catch` of P2002 |
| `Transition`, `Ship` | the transactions of `transition` and `ship`; CONFIRMED, PROCESSING, SHIPPED (by `ship` only), DELIVERED and CANCELLED have letters |
| `PaidByWebhook`, `CaptureReads`, `CaptureWrites` | the two ways of a payment to confirm an order, both without a letter |
| `Enqueue`, `Dies` | `sendEmail` and what comes before it |
| `Claim`, `Accept`, `Finish`, `Throw` | `EmailProcessor.process`: the job is taken, the SMTP server takes the letter, `process` returns, `sendMail` throws (also after the server took the letter) |
| `Stall` | BullMQ gives a job whose lock ran out to another worker; the first may still send (`late`) |
| `Evict` | `removeOnComplete`, `removeOnFail` |

One capture is followed, since a payment that is PAID is not captured again. What becomes of a delivered order is told by no letter: the
templates `refund` and `return` are never sent. Letters with links are rows of `Accounts` and `Newsletter`, which treat a mailed link
as read at any later time or never.

## 4. Runs

| Run | Question | Bounds |
|---|---|---|
| `InventoryStock` | no oversell; counters, rows and ledger agree; a lapsed reservation is closed | 2 orders of at most 2 units, 3 in stock, 2 workers, batch 1, 1 adjustment |
| `InventoryLedgerClaim` | (violation) every stock change has a ledger row | 2 orders, 1 editor |
| `OrderFlowLifecycle` | the state machine, cash on delivery, an order owns its stock from its confirmation on, however long ago its 15 minutes ran out, with a product editor at work | 1 order, 2 variants, all providers and targets, 1 edit or adjustment |
| `OrderFlowCapture` | PAID means charged, reservations follow the status, PAID is undone only by stragglers, a charged customer's order leaves PENDING | 1 order, 2 captures, 1 worker |
| `OrderFlowStateMachineClaim` | (violation) statuses follow the state machine, with a capture in flight | 1 order, 1 capture |
| `AfterSalesOneByOne` | restocked once, refunds add up and match the provider, PAID names its charge, returns follow delivery, the stock sees only its own operations | 1 order of at most 2 units, payment 2, 1 refund request at a time, 2 keys, amounts to 3 |
| `AfterSalesOverRefund` | (violation) refunds stay within the payment, with 2 refund requests | as above, cash, 2 requests |
| `CartCheckout` | no unit twice, the coupon is kept, a checkout is a `PlaceOrder` | 2 customers, 1 guest cart, 2 requests in flight, 2 orders (cash), 4 policies, 2 units of 1 variant |
| `CartRefusal` | (violation) the cart refuses only what a checkout would refuse | 1 customer, 2 requests, an unpaid order |
| `Identity` | a verified address is proven, sessions are current, credentials stay spent, roles are kept, a tab names nobody else, no false alarm | 2 of each: sessions, links, requests, addresses, passwords, codes, staff |
| `Shop` | the thirteen properties of catalog, address book, pages, money and mail | 3 categories, pictures and addresses, 2 of everything else |
| `RolesLastAdminClaim` | (violation) a super administrator remains | 2 members of staff, 2 requests |

`MCIdentity` and `MCShop` hold components that share no state. `focus` is chosen in the initial state and only that component
moves, so the run's states are the sum of the components' and not their product; nothing is lost, since no property relates two of
them. Restrictions for TLC only, each an action constraint of the MC module and none of the model:

* an account is explored twice, once with one session and both links within a second (`LinksMove`), once with two sessions, a clock of two seconds and
  no mailed link (`SessionsMove`);
* a tab whose cookies another tab has changed only loads itself again (`TabMove`);
* another cart than the one shown differs from it in one line (`BagMove`);
* two submits of the checkout are in flight at a time (`BuyingMove`);
* of the statuses of an order the administrator chooses CANCELLED (`ConsoleMove`): what a choice writes, somebody else may write as well, and
  the property is about clicks without a choice, of which every status is tried;
* the mail worker has one letter in its hands at a time, "placed" or "cancelled" (the two that may be written twice) and only while no other letter was due,
  and one letter dies with its request (`MailMove`): letters meet only in the queue's memory of ids, which `Evict` keeps in play.

Other bounds: `MaxQty` units per line, `ManualBound` manual changes in a behaviour, `BatchSize` rows per
run of the job (100 in the code; 1 makes the batch smaller than the work), `Total` and `MaxRefund` for
the payment and the largest amount asked for (one above the payment, so that the limit is
tried), `PutBound` units put into carts, `MaxSecond` for the clock of tokens, `MaxUnits`, `MaxTyped`,
`MaxListed`, `MaxLines` for what a customer or administrator types; `Attempts` is 2 (5 in the code) and `MaxStalls` 1, as BullMQ has it. `Policies` are a total limit, one use per customer, a first-order coupon and an inactive one;
`Coupons` one of each type, with minimum, maximum and restriction. `Targets` are the statuses of a manual transition: `AfterSalesOneByOne` leaves out
`PARTIALLY_REFUNDED` and `REFUNDED`, which an administrator may also set by hand without a refund.
Two of each actor are enough because every check in the code relates one row, or the rows of one
order, account or product, to the request at hand: a third could only repeat what the second does. The proofs of section 5 do
not need this argument: all safety properties of the runs are proved for any number. Type invariants are proved and no
run repeats them.
Deadlock is not checked: a shop in which every order is finished and every event delivered has nothing left to do.

Five runs refute what the repository says. The product editor writes stock without a ledger row when the
form's value equals what its snapshot showed although a checkout changed it in between
(`InventoryLedgerClaim`). A PayPal capture with a stale snapshot confirms an order that was cancelled
or moved meanwhile, outside the state machine (`OrderFlowStateMachineClaim`). Two refund requests at once both
pass the check on the paid amount, since a PROCESSING refund is not counted; for cash nobody else
refuses the second (`AfterSalesOverRefund`). The cart compares `available - reserved` with a
quantity although `reserve` has taken the reserved units off `available`, and so counts them twice (`CartRefusal`). Suspending
a super administrator asks nobody whether she is the last (`RolesLastAdminClaim`).

What else was met while modelling:

* `refund` asks for PAID (`payments.service.ts:190`) and a partial refund makes the payment PARTIALLY_REFUNDED: the rest cannot be refunded.
* A rejected return leaves its order RETURN_REQUESTED (`admin.service.ts:723`), from where only RETURNED follows.
* A refund writes the order's status by what it read before the gateway call (`payments.service.ts:236`); `ReturnsFollowDelivery` bounds how far that can go.
* A unit that a guest adds while a login merges her cart is deleted with the cart (`cart.service.ts:161`).
* Signing out ends no session: the route is public, so no guard sets the `req.user` it asks for (`auth.controller.ts:109`), and only the cookies go;
  `admin/login/page.tsx:36` takes it for a revocation. `Logout` in `Accounts` does what the code does.
* The web client never calls `/auth/refresh`, so a visit ends with its access cookie although the session lives on.
* The checkout page fills its contact form from `/auth/me` (`checkout/page.tsx:125`), whose answer nests the user one level deeper: the fields stay empty.
* An order page sends the status it has loaded again when nothing was chosen; the refund form draws a new key for every click.
* A percentage coupon above a hundred is accepted (`admin.service.ts` `createCoupon`) and makes the total of an order negative.
* The letter that is written when an order is placed says that it is confirmed (`email-templates.ts:218`), also for an order that waits for its payment;
  when the payment arrives by a webhook or a capture no letter is written, nor for PACKED, OUT_FOR_DELIVERY and a SHIPPED set by `transition`.
* The wishlist's move button is disabled for items that were added from a product card, which name no variant.
* A customer who leaves the wishlist with a move under way and comes back finds its row in the cached list with its
  button enabled: a second click adds a second unit, since `moveToCart` finds the row before it removes it (`wishlist.service.ts:35-39`). `MovedOnce` excepts such rows.
* A step of the cart page whose write is not shown yet when the page is left is computed from the old quantity when she comes back
  (`cart/page.tsx:61-81`): the second plus writes the same number. `StepIsExact` excepts it (`clean`).
* The sidebar's continue button of the checkout turns into the submit button in its own click, and the order goes from step 2 with payment
  and terms never shown (`checkout/page.tsx:1097-1112`); the step bar lets one pass over step 2, where a method is selected already
  (`checkout/page.tsx:354-364`). Such an order has the page's defaults, cash on delivery and the accepted terms: that and no more is what `UnseenIsDefault` says.
* The console's sign-in form signs a customer in, notices, signs her out and clears no cache. The store's header may go on naming
  her, or whoever was signed in before, for the 60 s its answer is held; when the sign-out fails she stays signed in (`turned`).
* A used link of the type EMAIL_VERIFY is answered with success when the account is verified (`auth.service.ts:76-80`). The verification page's ref against a
  second post therefore matters for links to a new address only.
* A stale capture or refund that takes an order back (the finding about the state machine) makes an unchosen click in the console do something: a page that
  was loaded before it, showing CANCELLED, cancels the order that the capture has just confirmed (`old`).
* Two sign-ins that both find a recovery code unused both pass (`auth.service.ts:49`).
* Of `checkout.session.completed` the `payment_status` is not looked at (`payments.service.ts:113`): for a payment method that settles later the order counts as
  paid when the session is complete. `charged` in `OrderFlow` is what the provider's event says.

### Fairness

* `ReleaseFairness`: BullMQ repeats the job every minute, so an idle worker reads again
  (weak fairness of `ReleaseRead`, and of skipping a row that was closed). The query has no order, so a
  batch may leave a row out again and again; strong fairness of the claim of a row by some worker says that it
  is not left out, and does not fail, for ever.
* `DeliveryFairness`: the providers redeliver an event until the API answers it, so each webhook
  is weakly fair. Captures, initialize requests, customers and administrators are not fair.

Nothing else is fair: a customer may close a page, a request may be lost, and no property of the other modules says that something happens.

## 5. Proofs

TLAPS checks every theorem for all values of the constants that satisfy the named assumption of the module. The
pattern is the same throughout: a type invariant, the property strengthened to something inductive, one step per action
(per conjunct where an action disturbs several), a temporal step last.

`InventoryProofs` (`StockAssumption`: finitely many orders, natural bounds):

* `StockTypeCorrect`, `StockNeverOversold`: a decrement is guarded by `CanReserve` or by the adjustment's check, the
  editor writes a natural number.
* `StockLedger`: with `Editors = {}`, `Post` keeps counter and ledger equal. With an editor
  it does not hold, which is the first finding above.
* `StockCountersMatchRows`: strengthened with `ClosedRowsExist` (released and converted rows have a quantity, so a new
  order's rows are open). The counters are compared with the cardinality of sets of single units; lemmas say
  how the set changes when one order's units appear or disappear. `StockBooksAgree` sums up.

`OrderFlowProofs` (also `FlowAssumption`):

* `FlowTypeCorrect`: types of orders, payments, captures and events.
* `FlowImplementsStock`: `FlowSpec => StockSpec`, action by action (`FlowStepIsStockStep`); `FlowNeverOversold` and
  `FlowCountersMatchRows` follow from the theorems about the stock alone.
* `FlowPaidMeansCharged` (`ChargeInv`): a success event, and a capture past its gateway call, exist only for charged orders.
* `FlowReservationsFollowStatus` (`RowsOfOrders`): reservations are open only while their order is pending, and a cancelled order holds none.
  Of returned and refunded orders it says that theirs are closed; they may keep what was sold.
* `FlowFollowsStateMachine`, `FlowConfirmedOwnsStock` (with `Clients = {}`: no capture). The second covers every status from CONFIRMED to the refunds
  and orders of which the 15 minutes have run out: a row that is converted stays so until the order is cancelled, though release workers have read it before
  (`OwnedStock`; a pending order's rows are open, or given away past their time). The lines it excepts are those the job gave away before a late
  payment (`GivenAway`). With captures the first fails, which is the second finding.
* `FlowCodPaidOnDelivery` (`CashInv`): cash orders have no session, so no event or capture touches them.
* `FlowOnlyStragglersUndoPaid` (`EventsFit`): which events can be under way in each status of the payment.

`AfterSalesProofs` (also `AfterAssumption`):

* `AfterTypeCorrect`, `AfterRestockedOnce` (`ReturnInv`: the lines of a request are within the order's quantities,
  which is what makes `Restock` an operation of the stock), `AfterImplementsStock`, `AfterStockIsSafe`.
* `AfterPaidHasCharge` (`Orderly`): in which statuses a payment may hold the id of a session.
* `AfterRefundsMatchProvider` (`RefundInv`): a call past its first step owns the row
  with its key, and an answer `succeeded` of an online provider means money was paid back.
* `AfterRefundedMeansWhole` (`SeenIsOld`): the sum of an order's succeeded refunds only grows, so a sum read
  earlier is at most the present one; for any number of concurrent refunds.
* `OneByOneWithinPayment`, `OneByOneRefundsAddUp`: with at most one refund request in flight the refunds stay within the
  payment and add up to what the statuses say. With two they do not: `AfterSalesOverRefund`.
* `AfterReturnsFollowDelivery` (with `Clients = {}`; `DeliveredInv`).

`CartProofs` (also `CartAssumption`: finitely many owners, none of them both customer and guest):

* `CartTypeCorrect`: `CartTypeOK` with `HeldCartsExist`, that a request past its reads still finds its cart.
* `CartImplementsFlow`, `CartFlowIsSafe`: `CartSpec => FlowSpec`, where a checkout is `PlaceOrder` and every other
  step of carts and coupons a stutter; the theorems about stock and payments follow.
* `CartCouponCounts`, `CartCouponLimits`, `CartCouponIsKept`: only placed orders have used the coupon
  (`FlowOrderly`: an order stays placed), so a new order adds a row as it adds to the counter.
* `CartNoUnitTwice`: not inductive alone, since a merge adds an old copy of the guest's cart. `PutOnce` says
  that there is a claim of units per cart that covers its lines and every copy a login has read, and that all
  claims and orders together are at most what was put in. An add lets a claim grow, a merge moves the guest's claim
  to the customer (`MergeWritePuts`; other copies of that cart are void), a checkout moves units from the claim to the order
  (`CheckoutPuts`).

`AccountsProofs` (`AccountsAssumption`):

* `AccountsTypeCorrect`, `AccountsVerifiedMeansProven` (by a link, a Google code or the administrator who made the staff account), `AccountsSessionsAreCurrent`, and `AccountsImplementsCredentials`, the
  refinement of `Credentials`. One invariant, `AccountsInv`, carries them: an account that is not opened has no rows,
  a request in flight holds a row that was once good (`RequestsHold`), deletion is final, an unverified account
  knows one address only, sign-ins that are not `late` carry the present password, a live session that is not
  `late` was opened with it, and tokens of one session agree with the browser's unless it is `shaken`.

`IdentityProofs`:

* `FactorCodesAreCredentials`, `NewsletterLinksAreCredentials`: the other two refinements of `Credentials`. A recovery code is never good again
  after its use; sign-ins that found it unused before may all pass.
* `StaffRolesAreKept` (finitely many members of staff; `RolesInv`): a demotion that was `alone` leaves a super administrator. The
  assumption is needed: `Cardinality` counts them.
* `TabShowsWhoIsSignedIn` (`TabInv`): caches and requests in flight name a guest, who is signed in or whom the console's form has turned away, while the tab is not being
  loaded and no other one has disturbed it.
* `VerifyPageRaisesNoFalseAlarm` (`VerifyInv`): at most one post is in flight, and one that was applied shows as success, is
  being answered or was lost.

`CatalogProofs`:

* `AddressBookHasOneDefault` (`AddressInv`): one tab at most has cleared the defaults and not saved, and it cleared all others.
* `LoneMovesKeepTheTree` (`CategoriesInv`, `WalksAreSound`): a walk that has arrived at a category has passed a chain of
  parents that does not contain the moved one; if nobody else writes meanwhile, the chain ends at a root and the move closes no cycle.
* `ReviewAggregatesAreExact` (finitely many voters; `AloneSeesAll`): a moderation that overlaps no other writes what its snapshot
  and its own row make; votes are a set, and the counter its cardinality.
* `GalleriesAreSound` (`LibraryInv`): the next featured picture is the least position, which exists since positions are natural numbers.
* `EditedVariantsAreKept` (`EditorInv`: `CacheAgrees`, `FormAgrees`, `SyncedKeepsVariants`).
* `OrderMoneyAddsUp` (`PricingAssumption`: natural prices, rates, values and limits; `PricingInv`), for bags of any length. `Sum` is a recursive function
  over the prefixes of a sequence, and the lemma `Induction` (a set of naturals that holds 0 and successors holds all of them, from the least
  element of the rest) carries the claims from prefix to prefix: sums of pointwise sums (`SumAdds`), of bounded terms
  (`SumIsMonotone`, `SumIsNat`), and `SpreadAddsUp`: each line's share of the discount is off by half a unit at most (`HalfUpIsNear`), so the shares are off by half a
  unit a line together. Each line is then its subtotal less its share and plus its tax (`LineIsPriced`), and the lines add up to the total without shipping to that precision
  (`PlacedAddsUp`). Nothing is negative because a discount is at most the subtotal (`DiscountIsFair`), hence each share at
  most its line (`HalfUpIsBounded`).

`PagesProofs`:

* `CheckoutPageIsOrderly` (`CheckoutPageInv`): what a form departs from the defaults in was shown in its visit (`ChoicesSeen`), for the page, for every
  submit in flight and so for the order. `ProfilePageSettles` (`ProfileInv`).
* `WishesAreMovedOnce` (`WishInv`: `LoneCalls`, `UnitsMoved`): a call of an item that was never `crossed` is the only one in flight, and its unit is in the cart only
  while the call is about to remove the row.
* `ConsoleClicksAreMeant` (`ConsoleInv`): `Progress` ranks the statuses; what the page has loaded, is loading and has sent without a choice is not ahead of the
  order unless it is older than a stale write.
* `CartStepsAreExact` (`BagInv`): while an update waits no fetch is under way that could answer with older lines, so a step
  starts from the row.

* `OrderIsTold` (`MailInv`: `HistoryInv`, `LettersInv`): statuses are ranked, and unless a capture has overtaken a change the order's status has the highest
  rank of all it has had. A transition raises the rank (`RankGrows`), so it reaches a new status, and nobody has queued or holds the letter that tells of it
  (`CommitKeepsLetters`); that is why an id made of order and status is enough. A letter changes hands only from its request to the queue or to `died` (`RequestKeepsLetters`).
* `CopiesAreOwed` (`JobInv`): a copy of which the worker never heard costs a try or a stall, and a job that is not given up has some of both left.

Only model-checked: the liveness properties `LapsedIsClosed` and `ChargedLeavesPending` (the prover has no reasoning
about fairness and ENABLED), and the five violations, which are traces.

## 6. Not modelled

* **Notifications, audit rows.** Reminders of abandoned carts and low stock, the
  in-app notifications and the audit log are written beside the changes modelled here and read by none of them. Of the mail the texts and
  their layout are left out, but for what each says has become of the order.
* **Values without state.** The choice of shipping rates and tax classes, validation of requests, permissions per route,
  CSRF, throttling, TOTP arithmetic and hashing. `Pricing` takes rate and discount as data.
* **Queries.** The public catalog, search, reports, dashboards and the server-rendered pages read and change nothing.
* **Single-row writes.** Brands, shipping zones and rates, tax classes, settings, a role's permissions, consents, contact messages: one statement
  each, with nothing to interleave; the last one wins.
* **Setup.** The seed scripts, the deployment and the tests.
* **Faults of the platform.** Database errors other than a transaction that is rolled back and leaves no trace; counters that
  overflow their 32 bits; a provider that answers what it has not done.

`PROJECT.json` lists every component with its status and, where a part is missing, the reason.
