# Verification of the payments server

TLA+ models of the server in `src/`: an AdonisJS 5 application on Postgres
that takes crypto payments for merchants, credits their USDT wallets, pays
balances out to chains and banks, and runs small shops. TLC checks the models on
small instances; TLAPS proves the theorems about them for every value of the
constants.

    tlasany M.tla                                       parse a module
    tlc -workers 2 -config UserWallet_calls.cfg MC_UserWalletService
    tlapm PaymentIndexer_proofs.tla                     check the proofs

`PROJECT.json` says, for each definition, which lines of the source it stands
for, for each property which run checks it, and for each hazard which property
would notice it.

## 1. Inventory

One Node process serves HTTP; any handler is suspended at each `await`, so that
any two interleave there. Commands (`node ace ...`) are further processes on the
same database. Postgres runs at READ COMMITTED. Three facts about the ORM
matter everywhere:

* `Model.query(trx)` does not join the transaction `trx`; `{ client: trx }` does.
  Several updates inside a transaction callback are therefore committed at once
  and outlive its rollback, and a `forUpdate()` locks for one statement only.
* `save()` writes the columns that differ from the copy that was loaded, and
  only those, whatever the row holds by then (`Saved` of `Requests.tla`).
* decimal columns arrive as strings.

| part | state | operations | module |
| --- | --- | --- | --- |
| user wallets (`UserWalletService`) | `user_wallets`, `balance_ledgers` | creditWallet, debitWallet | `UserWalletService` |
| payment indexer (`PaymentIndexerService`), webhook, `PollPayments`, `ReconcileCompletedPayments`, `SettlementService` | `payment_intents`, `transactions`, `wallets` | handleWebhookEvent, pollPendingPayments, onPaymentConfirmed, reconcileCompletedPayment, settleWallet | `PaymentIndexer` |
| withdrawals (`WithdrawalService`), `RepairWalletBalances` | `user_wallets`, `withdrawal_otps`, `transactions` | OTP, confirm, automatic settlement, repair | `Withdrawal` |
| Fiber invoices and settlement | `fiber_invoices`, `payment_intents`, `user_wallets`, `balance_ledgers` | create, check, sync, expire, confirm, settle | `FiberPayment` |
| transfers (`TransferService`), `PayoutService`, `PayoutWebhookController` | `transfers`, `user_wallets` | initiate, settle, cancel, bank events | `Transfer` |
| automatic payouts (`ProcessPayouts`) | `business_settings`, `user_wallets` | run | `AutoPayout` |
| payment setup, intents, links, child wallets | `payment_intents`, `payment_links`, `wallets` | create, setup, checkout, edit, expire | `Checkout` |
| carts, products and orders | `carts`, `cart_items`, `shop_products`, `payment_intents` | add, edit, order, pay, stages of an order | `Cart` |
| shop builder, assistant, its payment, delivery settings | `shops`, `fiat_deposits`, `shop_delivery_settings`, payment links, conversations | create, chat, reset, deposit webhook, convert | `ShopBuilder` |
| pictures (`FileUploadService`) | columns of shops and products, the file store | upload, replace, delete | `ShopFiles` |
| CKB identities (`CccAuthController`) | `user_identities`, `external_auth_challenges` | challenge, verify, link, unlink | `Identities` |
| businesses, API keys, settings | `users`, `business_settings`, payout details | sign up, verify, generate, switch, save | `Business` |
| passwords and sessions, of businesses and admins | `users`, `admins` | login, codes, changes, block | `Credentials` |
| merchant webhooks, SSE, payment status stream | `webhook_logs`, open connections | dispatch with retries, emit, heartbeat, stream | `Notices` |
| rates, adapters, e-mail, reports, currencies, messages, throttling, encryption | configuration or none | read, call out | not modelled, section 6 |

What makes the parts correct:

* **user wallets**: no update is lost, the ledger explains the balance, no debit
  overdraws, a call takes effect at most once.
* **payment indexer**: a payment that was made is completed, and credited or
  logged as not credited; it takes two runs at work on it at once, or a failure,
  to credit it again; what the merchant sees (receipt) is backed by a credit; a
  lost event or a failed step is made up for, as far as the code does.
* **withdrawals, transfers, payouts**: an OTP moves money once, the platform pays
  no more than was deposited, a completed transfer was handed over and follows
  the bank afterwards, what was cancelled was kept.
* **Fiber**: nothing is taken for paid without the node, each payment is settled
  once, and the wallet's ledger adds up to its balance.
* **checkout**: the address shown is the one the payment refers to, two payments
  have one address only where one was completed on it before, a link is used
  within its limit and not after it expired, and stays deactivated.
* **shops**: a customer's order is of one shop and within what was in stock, it is
  credited once, what is counted before it is made stays within its limit, nothing
  a merchant stores is lost. (A guest's order is not looked up at all.)
* **accounts**: a challenge signs in once and to its wallet's account, keys shown
  are the keys accepted, a password is changed by those who may, open pages are
  told of payments.

What makes them hard: handlers work on rows they read before an `await`; the
chain, the provider and the bank deliver late, twice or never; commands run
beside handlers and beside each other; and most multi-statement updates are not
in one transaction.

## 2. Modules

| module | is |
| --- | --- |
| `WalletAccount` | abstract specification: an account with indivisible credits and debits |
| `UserWalletService` | creditWallet and debitWallet, one step per database round trip, with row locks, commit, rollback and lost answers; implements `WalletAccount` |
| `PaymentIndexer` | webhook handlers, the poll on EVM, CKB, Solana and Tron, completion, settlement of child wallets, reconciliation |
| `Withdrawal` | OTPs, withdrawals by route, deposits, repair, over one wallet row |
| `FiberPayment` | invoices, checks, syncs, expiry, settlement by the command |
| `WalletRows` | wallet rows read without a lock and written back, and who is at work on them |
| `Transfer`, `AutoPayout` | the two kinds of services over `WalletRows` |
| `Movements` | their composition over the same rows, with deposits |
| `Requests` | HTTP handlers, each from one await to the next, and `save()` |
| `Checkout` | intents, links and child wallets, over `Requests` |
| `Cart`, `ShopBuilder`, `ShopFiles`, composed in `Shop` | all that happens in shops |
| `Identities`, `Business`, `Credentials`, `Notices`, composed in `Platform` | all that happens around accounts |
| `MC_*` | values of the constants for TLC |
| `*_proofs` | theorems and their proofs |

`UserWalletService` is what justifies that the other modules take a credit as
one step: the refinement shows every behaviour of the service is one of the
indivisible account. The modules under `Shop` and `Platform` keep variables of
their own and share `job`, the handlers of the one process: `Next` is the
disjunction of their steps, each leaving the variables of the others alone.

**Correspondence.** An action stands for the code from one `await` on shared
state to the next, guards are the code's conditions and early returns, and each
action's comment names what it stands for. What a handler holds in memory, which
is what goes out of date, is in `mem`, `snap`, `ssnap`, `ccur`, `copy`, `rcopy`
in the first modules, and in the record `job[r]` in those over `Requests`: `op`
names the handler, `at` the step that comes next. Faults are a budget
(`MaxFaults`) spent by any step that may throw, by a COMMIT whose answer is
lost, and by a crash.

**In series.** Much of this code is right only as long as requests do not
overlap. The variable `inSeries`, chosen at the start and never changed, makes
one behaviour of the model start them one at a time and another let them
overlap. A property `inSeries => ...` is checked on the first kind, one without
on both; its comment says what overlapping does to it.

**Histories.** Where a premise on the whole behaviour would leave out what is
interesting, a variable that no step of the code reads remembers what happened to
one row, and the property speaks of the rows it did not happen to, whatever happens
to the others:

| variable | remembers |
| --- | --- |
| `contended` of `PaymentIndexer` | payments two runs have worked on at once |
| `disturbed` of `Checkout` | payments that two setups, and links that two handlers, have worked on at once, and links whose checkout broke between the payment it started and its count |
| `overtaken` of `FiberPayment` | credits that came while a settlement held a copy of the wallet |
| `unbooked` of `AutoPayout` | what was sent on chain and not taken from its wallet |
| `completedOn`, `shown`, `uses`, `cut` of `Checkout` | payments found on a wallet, addresses shown, payments of a link, setups that never answered |
| `peak` of `Cart` | the most a product ever had in stock |
| `tagged` of `ShopBuilder` | the references that each shop has had |
| `loose` of `ShopFiles` | files some request let go of: replaced, dropped from a row, deleted by their id alone, or that the store failed to delete |
| `token` of `Identities` | the account each request's session was issued for |

**Definitions named `..._Bug` or `..._Blind`** are never used by a
specification. Each is the definition that follows it with a plausible mistake;
putting it in that definition's place must make TLC find a property violated,
which shows that the property notices something. A property that is a
conjunction of named parts has one for each part; `PROJECT.json` lists one of
them.

## 3. Runs

Passing runs, with the distinct states TLC finds and the time two workers take:

| run | question | bounds | size |
| --- | --- | --- | --- |
| `UserWallet_calls` | is a caller misled, do locks and transactions implement the account, does every call settle? | 2 calls, 2 wallets, amounts 0..2 | 30 k, 7 s |
| `Indexer_overlap` | what holds when everything overlaps, what does it take to credit twice, what do the poll and the command make up for? | 2 intents on one child wallet of any network, 1 of them creditable; 2 handlers, 1 event, poll, 1 reconciliation of 1 payment at a time, 1 fault, fair | 0.62 M, 3 min |
| `Withdrawal_calls` | is an OTP paid once and no more paid out than there is? | 2 calls of every kind, repair, deposits of 2, 1 fault | 1.8 M, 45 s |
| `Fiber_settlement` | is a payment settled once, and the wallet equal to its ledger but for credits a settlement overtook? | 2 invoices, 1 checker, 2 settlers, 2 other credits, 1 fault | 0.18 M, 5 s |
| `Movements` | what do transfers, cancellations, payouts and bank events do to the same rows? | 2 wallets, 2 transfers, 1 cancellation, 1 run on each of 2 days, to a bank, another wallet or its own, deposits of 4, 1 fault | 2.3 M, 100 s |
| `Checkout` | is the address shown the one looked at, who shares it, is the link within its limit? | 3 requests, 2 at a time, 2 intents, 3 child wallets, 1 link with a limit or none, a network of each kind, 1 fault | 0.48 M, 2 min |
| `Shop` | are orders, credits, limits and files right? | 3 requests, 2 at a time, 3 products of 2 shops with changing stock, a user and a guest, 1 deposit, 1 other payment, 1 fault | 0.21 M, 35 s |
| `Accounts` | who may sign in, which keys work, who is told? | 3 requests, 2 at a time, 1 CKB wallet, 2 members, 1 business, 1 admin, 1 fault | 0.42 M, 1.5 min |

Runs that end in a counterexample, each on something the code or a comment
says of itself:

| run | says | what happens |
| --- | --- | --- |
| `Indexer_unpaid` | "Check if payment has been received" | the amount compared with is `feeInCrypto ?? 0`, which nothing writes: the first poll completes an intent nobody paid |
| `Indexer_redelivered` | "protects against forged/replayed events" (`PaymentWebhookController` 19) | the webhook does not look at what it has taken before: an event delivered again while its first delivery is processed is credited twice |
| `Withdrawal_replayed` | "Mark used immediately to prevent replay" | the OTP is read, then marked by an unconditional update; two confirmations in between both withdraw |
| `Fiber_unsettled` | "Poll blockchain for pending payments" | a Fiber intent has no wallet id and the poll asks for one: a paid invoice is never settled |

Every run checks deadlock off: requests end and the bounds run out, so each model
really stops.

**Why the bounds are enough.** Every conflict in these modules is between two
copies of one row, so two actors at a time and two rows (one shared, one not)
show each of them; the third request of the last three runs comes before, after
or beside the other two. Amounts 1 and 2 of at most 2 give a withdrawal of all
there is, two that fit together and two that do not; a movement of 2 of at most 4
gives transfers and payouts that fit, that do not, and a fee that is half of it.
Limits (uses of a link, products, images, exchanges of the assistant, attempts of
a webhook, payments the command inspects) are 1 or 2, so that what the runs do
passes them. What the bounds leave open the theorems of section 5 close for every
safety property these runs check.

The `MC_*` modules restrict the models further, to states that differ in what
matters; their comments say how:

* `MC_PaymentIndexer`: at most two runs are at work at once, and two handlers only
  where the network is EVM, whose handlers do the same steps as the others'.
* `MC_Movements`: the second interval begins only after a payout and when no user
  is served, since one in which nothing was paid is like the one before it; an
  event that names the bank's transfer code, which no row has, is a success; and
  what overlaps is explored with payouts to a bank, in series with all methods.
* `MC_Checkout`: only behaviours in which requests may overlap, since no property
  has the premise and those in series are among them; one payment at most exists
  beforehand; a single-use link has no other limit at first.
* `MC_Shop`: the three requests of a behaviour go all to carts and products, all to
  the builder, or all to files. The steps of one part read and write nothing of
  another's; `Shop_proofs` is about all of them together.
* `MC_Platform`: once a customer's page is open, only the webhook of its payment
  runs beside it, since nothing else touches either.

**What overlapping breaks.** `Indexer_redelivered` and `Withdrawal_replayed` are
two such failures with runs of their own. The others are seen with the following
changes to a configuration, or by taking the premise away:

| property | change | seen |
| --- | --- | --- |
| `CompletionIsFinal` | over all intents | a late handler takes a completed payment back to awaiting |
| `FundsAreHeld` | `Withdrawal_calls` without the premise | two bank payouts, one deduction overwritten |
| `LedgerExplainsBalance` of `Withdrawal` | added to `Withdrawal_calls` | a withdrawal leaves no ledger line, and the repair gives its amount back |
| `SettledOnce` | `Fiber_settlement` without the premise | two runs of the command settle one payment twice |
| `NeverOverpaid` of `Movements` | without the premise | a transfer and a payout both take what is there; each writes back its own copy |
| `CancelledWasKept` | without the premise | the cancellation finds the transfer pending just before its settlement begins: paid and given back |
| `PaidWhereWatched` | over all intents | of two setups of one payment the row keeps the wallet of one and the currency of the other |
| `CheckoutWithinLimit` | over all links | two checkouts of a single-use link both read it active |
| `OneCartEach`, `OneGateway`, `OneDeliveryFee`, `ProductsWithinLimit`, `OnePayoutDetail` | without the premise | each is looked for, then made: two requests make two (no unique index on `carts.user_id`, `shop_delivery_settings.shop_id`) |
| `DepositMatchesCredits` | without the premise | two events of one charge are both credited |
| `ShownKeyWorks` | without the premise | the page that clears a lapsed key clears the one generated meanwhile |

**What the code does against its own words**, read in the source and without a run
of its own (the models contain the behaviour unless section 6 says otherwise):

* `SseController` 12-17 promises a page events of withdrawals. `TransferController`
  346 and `StablecoinConversionService` 197, 222 emit them to numeric ids, while
  pages register under `uniqueId`: no page hears them.
* `PaymentStatusController` 58 promises a `complete` event and the end of the
  connection when a payment is final. When it is final already as the stream is
  opened, the first snapshot sends neither, and the stream is held until it times
  out.
* The comments of `createChildWallet` (`WalletService` 29, 62-63, 75) promise a new
  wallet for concurrent payments. Once a wallet has taken a payment, 113-120 gives
  it to any number of open ones.

**What it does that no words speak of**, which is why some properties say less than
one would like:

* `creditBusinessWallet` returns without a credit, and only with a warning, for an
  intent without business, amount or currency or one smaller than its fee; the
  payment is completed all the same (`CompletedWasCredited` asks for the log).
* `payments:reconcile-completed` inspects the first `--limit` (or 1000) completed
  payments, whether or not it has repaired them: what comes later it never sees.
* A failure after a payment was saved as awaiting confirmation leaves it in a status
  no poll asks for.
* The Paystack webhook looks a transfer up by `transfer_code` first
  (`PayoutWebhookController` 92-103), while the row stores a uuid it chose as
  reference (`PayoutService` 117, 136; `TransferService` 301): an event with a code
  finds no row. A reversal makes a transfer failed and gives nothing back.
* A transfer to a merchant is completed although nothing is sent.
* `process:payouts` to a wallet sends first and saves the balance then
  (`WithdrawalService` 422-442); and after the money has left, `firstOrFail` looks for
  a user by a numeric id and throws, so `lastPayoutAt` is not saved and the next run
  of the command pays again.
* A CCC sign-in issues a session without asking whether the account is blocked
  (`CccAuthController` 91-94); a password does ask.
* The general settings put a business in the LIVE environment without the
  verification `switchEnvironment` demands.
* A guest's order takes products, prices and shop from the request
  (`CartController` 560-620); `max_products` and `max_images` are set by the merchant;
  a product's `images` list is taken without the limit that uploads meet; an image is
  deleted by any `publicId`; `deleteFile` answers false where it failed and nobody
  looks at the answer.
* Any completed payment of the business, whatever its amount, unlocks the assistant
  if it bears the reference that the merchant has set on the shop
  (`PaymentIndexerService` 1062-1081).
* The merchant's webhook is sent before the completing transaction commits. A deleted
  currency is looked for by `$isDeleted`, which is always false.

## 4. Fairness

Weak fairness of a request's own steps: Node resumes every settled promise, and a
database call either returns or throws. Weak fairness of the poll: `setInterval`
starts it again. Weak fairness of the reconciliation's steps, which include
starting it: an operator runs the command again. (The indexer's conditions speak of
steps that change something of the code, `codeVars`, so that its history variable
plays no part in them.) `Fiber_unsettled` needs fairness for its counterexample to
count: weak of syncs, strong of a check of one invoice and of a settler's steps,
which the merchant and an operator repeat and whose rows are released again and
again. Nothing is assumed of the provider, the customer or the clock: events may be
lost, invoices may never be paid, and no fault has to occur.

The modules over `WalletRows` and `Requests` state no liveness: their handlers
either end or throw, and nothing in the code takes up again what was left
(`CrashTransfer`, `FailPayout`, `BreakRequest` show what is left).

## 5. Proofs

All proofs are checked by `tlapm` from the assumptions named in the modules: the
bounds are natural numbers; wallets, transfers, products and shops are finitely
many; the values for nobody and for no row (`None`, `Null`, `Empty`, ...) are no
member and no row; amounts are positive and more than the fee; requests of
different kinds differ; an admin's e-mail is not that of a business. Every
invariant and every action property that a passing run checks is also a theorem,
for any number of requests, rows and faults. "In series" (one request, handler or
call at a time) and "as long as nothing fails" are premises inside the properties.

| theorem | statement |
| --- | --- |
| `UserWalletService_proofs!TypeCorrect` | type invariant |
| `!TrxInvariant`, `!NeverStale` | what a transaction read under the lock is what is committed when it writes |
| `!BalanceAlwaysSound`, `!LedgerAlwaysExplains`, `!OutcomeAlwaysMatches` | the columns agree, the ledger replays to the balance, only an error leaves a caller in doubt |
| `!Implements` | `Spec => Account!Spec` |
| `PaymentIndexer_proofs!TypeCorrect` | type invariant |
| `!CompletedAlwaysCredited`, `!ReceiptAlwaysBacked` | at any overlap, whatever fails |
| `!CreditedAgainOnly` | at any overlap: of a payment no two runs worked on at once, lines <= failures + 1 |
| `!CompletionAlwaysFinal` | the same payments, whatever fails |
| `Withdrawal_proofs!TypeCorrect` | type invariant |
| `!BalanceNeverNegative`, `!CompletedAlwaysPaid` | at any overlap |
| `!OtpAlwaysPaysOnceInSeries`, `!NeverOverpaidInSeries`, `!FundsAlwaysHeldInSeries` | in series, whatever fails |
| `FiberPayment_proofs!TypeCorrect`, `!PaidAlwaysGenuine` | at any overlap |
| `!SettledOnceInSeries` | settlers in series, whatever fails |
| `!WalletMatchesLedgerInSeries` | the same: balance <= ledger <= balance + `overtaken` |
| `Movements_proofs!TypeCorrect`, `!BalanceAlwaysNonNegative` | at any overlap |
| `!CompletedAlwaysHandedOver`, `!AlwaysFollowsBank` | at any overlap, events in any order, whatever fails |
| `!CancelledIsKeptInSeries` | in series, whatever fails |
| `!NeverOverpaidInSeries` | in series, whatever fails: the sum over all wallets, up to `unbooked`, which is 0 where nothing failed |
| `!PaidOnceInSeries` | payouts to a bank, in series, as long as nothing fails |
| `Checkout_proofs!TypeCorrect` | type invariant |
| `!SharedAfterPaymentOnly`, `!LinksStayInactive` | at any overlap |
| `!PaymentsAreWatched` | at any overlap, whatever fails, of undisturbed payments |
| `!LinksKeepTheirLimit` | at any overlap, whatever fails: expiry of all links, status and limit of undisturbed ones |
| `Shop_proofs!TypeCorrect` | type invariant |
| `!OrdersStaySound`, `!CreditsAlwaysMatch`, `!LimitsAlwaysHold`, `!NothingIsEverLost` | each part under the premise its definition states |
| `!StatusesStay` | in series, whatever fails |
| `Platform_proofs!TypeCorrect` | type invariant |
| `!PasswordsChangedRightly` | at any overlap |
| `!WalletsSignIn`, `!BusinessesAreWhole`, `!PaymentsAreTold` | each part under the premise its definition states |
| `!SignInStaysRight` | in series, whatever fails |

The arguments:

* **User wallets.** `TrxInv` says of a call between SELECT ... FOR UPDATE and the
  end of its transaction that it owns the lock, that its copy is the committed
  row, and that its staged row is computed from that copy. The lock makes it
  inductive: no other call can commit to the row. Balance, ledger and refinement
  follow; the commit maps to one credit or debit of the account, every other
  step to a stutter.
* **Indexer.** Nothing takes back a ledger line, a line of the log or an
  announcement (`NothingIsTakenBack`). So it is enough to say of a handler past
  a step what that step left: `CreditInv` of one past the credit, `ReceiptInv`
  of one about to write the receipt.
* **Indexer, payments that are not contended.** `OpenInv`: the intent a handler
  works on is not among those its poll has still to take up. `AloneInv`: an
  uncontended intent has at most one run that may yet credit it, no handler if it
  is completed; and its ledger lines are no more than the failures so far, or one
  more once it is completed or the handler at work is past the credit. `OnceInv`
  is the two together.
* **Withdrawals.** `BalanceInv`: a call that has not written yet holds a copy it
  has compared with the amount. The copy may be out of date, which loses updates,
  but what is written from it is not negative. `PaidInv` follows the order of
  steps of each kind. In series, whoever has passed "mark" has used its OTP up,
  and what the one call at work has sent or deducted but not the other is the
  only difference between what was paid and what was taken.
* **Fiber.** `GenuineInv`: a checker past the node's answer and a settler past
  the invoice's status work on a payment the node confirmed, which stays so. In
  series, `OneSettlerInv`: a settler at work has found no line and nobody else
  writes one, and the copy it holds is no more than the ledger, and short of it by
  at most what `overtaken` counts of the credits that have come since.
* **Movements.** `CopiesCover`: a transfer that has not committed yet holds a
  copy that covers its amount, and no other copy that is written back is
  negative; types and balances need each other, since what a payout takes out is
  counted in naturals. `SettlementInv`: an event of the bank tells what the bank
  has decided, a row that has the bank's reference belongs to a settlement that
  is over. `SerialInv`: what a cancellation works on is over and was not settled.
  `PayoutInv`: the run at work began in an interval nothing was paid for yet.
* **Movements, the sum.** `NeverOverpaid` adds up all wallets, so a step that
  writes one row has to be followed through a fold. `SumChanges` does that once
  (one value changes, the sum changes by as much). Its proof is an induction over
  the size of the set, made with the set of numbers it holds for and the
  well-foundedness of the naturals. `MoneyInv` counts with the balances what a
  transfer has taken but not settled (`HeldOf`) and what a run has taken before
  it calls the bank: all that and what left, less what was deposited and what is
  unbooked (`Excess`), is never positive. `CopiesInv` says that a copy still to be
  written back is no more than its row, so writing it creates no money; `BookInv`
  that, as long as nothing has failed, what is unbooked is what the run at work is
  about to take from the wallet.
* **Checkout.** `HoldersInv`: of two intents that have one address, or are about
  to, one was paid there before. `Watching`, of an undisturbed intent: the address
  shown is the wallet it refers to, or the setup that will make it so is at work,
  is the only one, and fits its row (`SetupFits`). `Counts`, of an undisturbed
  link: its count lags behind the payments started only between the two saves of
  the one checkout at work, whose copies are current.
* **Shop and Platform.** Their parts own variables and kinds of requests, so a
  step is first shown to keep what it does not own (`Moves`, `Framed`); then each
  part has an invariant of its own. In series all rest on `Alone`: at most one
  request is at work, so what it holds is what the rows say.
* **Shop.** At any overlap `CartSound` (what carts and held copies ask for is within
  `peak`), `BuilderSound` (a shop is unlocked, or about to be, by what was paid),
  `FilesNamed`, `PicturesStored` and `AlbumsFit` hold. In series
  `CartsOrdered`, `RoomKept`, `LinksRight`, `FeesRight`, `OrdersPaid`,
  `DepositsRight`, `TalksRight` and `StoreRight` tell, for every kind of request
  between its steps, which of its writes are done; what the store keeps and no row
  names is in `loose`.
* **Platform.** `PasswordsGranted`: a request about to save a password has passed
  the check of its kind. `UsesCounted`: a challenge was accepted no more often than
  it was marked used. `OwnersFound`, `Provided`, `LoginsOpen`: the wallet a
  sign-in holds, the account made for it and, of a password, that it is not blocked;
  `OwnersSignedIn`: the session issued is its account's. `TruthInv`: no page has
  been told that the payment is over before it was. `VerifiedNoted`,
  `SignupInv`, `KeysInv`, `ShownInv`, `PayoutInv` do the same for businesses,
  `TabsInv`, `CallsInv`, `StreamsInv` for pages, webhooks and streams.

Two proofs changed the model. A cart row's id could be used again while a handler
still held it, which a serial column never does: `Unused` of `Cart` now excludes
it. And nothing said that the value for "no row" is not a row: it is assumed now,
by name, in each module that reads rows.

Only model-checked: liveness under fairness (`EveryCallSettles`,
`PaidIsCompleted`, `CompletedIsRepaired`), which is out of the prover's reach, and
what the four counterexample runs show.

Only proved: `NoStaleRead`, `BalanceIsSound`, `LedgerExplainsBalance` of
`UserWalletService`, `BalanceNonNegative`, `CompletedWasPaid` and `FundsAreHeld` of
`Withdrawal`, `BalanceNonNegative` and `PaidOncePerInterval` of `Movements`. TLC
confirms each when it is added to its configuration.

## 6. Abstractions, and what is not modelled

* A payment is one unit. Amounts matter in wallets, withdrawals and movements.
* The indexer's Fiber branch (`checkFiberInvoiceStatus`) is left out: a Fiber
  intent has no wallet id and never gets there.
* A Fiber intent that is completed (`Historical`) comes from before settlements
  were recorded, which is what `--include-fiber` is for; no code completes one now.
  Which of the completed intents a run of the command takes is left open: any set
  of them, as its `--limit` may cut off any.
  handleAutoConversion moves no money: it adds the balance to a total.
* A withdrawal's `amount` is what the user gives up; fees stay on the platform.
  A CKB withdrawal sends nothing yet, as in the code.
* No caller: terminateOrReuseWallet, finalizePaystackTransfer,
  verifyPaystackTransfer, completeTransaction, failTransaction. So no child wallet
  is ever marked reusable, and the branches that take one never run.
* Mail, WhatsApp and logs are left out: their failures are caught and change
  nothing that is kept. One log is modelled, that of a failed credit.
* An order's payment by Paystack is in `Cart`, its wallet in `Checkout`; totals,
  discounts and delivery fees are left out but for the one row of the fee. No
  code compares a discount with the total.
* A key, a secret, a file and a password are named by the request that makes
  them. Signatures, hashes and encryption are taken as what they are for.
* Admins' e-mails are taken to differ from those of businesses.
* A customer that comes to the crypto checkout of a cart without an account is left
  out: the handler throws after it has inserted the order, on a product it did not
  load (`CartController` 726-728).
* Stock is a natural number. The code accepts a negative one from the merchant, of
  which no cart gets anything either.
* Not modelled: profiles, creation of admins, the inactivity timeout of a
  session, the throttle (no route uses it), messages about orders, currencies and
  the Fiber setup, rates, reports, uploads' formats, e-mails. They are single
  statements on rows that nothing else reads, configuration, or calls of outside
  services; `PROJECT.json` gives the reason for each.

## 7. Plan

1. An abstract account with transfers that `Movements` implements in series.
2. Composition of `Checkout` with `PaymentIndexer`, whose `WalletOf` then becomes
   a variable: a second setup of a payment while the poll looks at the first.
3. In series, that what the ledger of `Withdrawal` lacks is exactly what
   withdrawals took: how far a repair of a balance may be off.
