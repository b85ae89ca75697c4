# My Trading Coach: verification of billing, broker tokens, imports and e-mails

TLA+ models of the parts of `my-trading-coach` where several processes, Stripe, Redis and
PostgreSQL meet, the TLC runs that check them and the theorems TLAPS proves about them.

Paths below are relative to `src/apps/api-mytradingcoach/src/modules` unless they start with
`src/`.

## 1. The system

An Nx monorepo. The program is the NestJS API `api-mytradingcoach` (about 45 000 lines) over
PostgreSQL (Prisma), Redis and BullMQ; three front ends and shared libraries talk to it. The API
runs as a cluster: `APP_ROLE=web` processes serve HTTP, `APP_ROLE=worker` processes run the crons
and the queues (`config/app-role.ts`); role `all`, the default, does both. In production
(`src/docker-compose.prod.yml`) there are several web processes and one worker, so webhook jobs
run one at a time there while HTTP requests run concurrently.

| Component | State | Operations | What makes it hard |
|---|---|---|---|
| Founder offer (`founder-offer`) | `FounderSeat`, `CheckoutReservation`, `FounderOfferConfig` | reserve, claimSeat, markFirstPaid, releaseUnpaid, markLost, refundFirstPayment, releaseReservation | a limited stock sold through a 30 min external checkout; an advisory lock taken by some operations only; retries and late events |
| Webhook intake (`stripe/stripe-webhook.service.ts`, `stripe.processor.ts`) | `StripeEvent`, BullMQ queue | mark, enqueue, unmark, run job | at-least-once delivery, two stores that fail separately, crashes |
| Subscription state (`stripe/stripe-subscription.service.ts` and the webhook handlers) | plan and Stripe columns of `User` | syncSubscription, the handlers for ended subscriptions, deleted customers and first invoices | events out of order and repeated; read at Stripe, write here |
| Billing and checkout (`stripe/stripe-billing.service.ts`) | Stripe sessions, billing status copy in Redis | createCheckoutSession, reuseOrExpireOpenSessions, changeInterval, getBillingStatus | checks against a row that is filled later by a webhook |
| Authenticated user cache (`infra/auth-user-cache.service.ts`) | `authuser:v:<id>`, `authuser:<id>:<v>` | getOrLoad, invalidate | slow readers that store old rows, expiry, Redis failures |
| Account deletion (`users/users.service.ts`, `stripe-account-closure.service.ts`) | cascades over the above | archiveAndDelete, cancelAllSubscriptions | races with a checkout and with webhook jobs |
| Tradovate tokens (`integrations/tradovate`) | `BrokerConnection` rows, Redis locks | validToken, ensureFreshHosts, refreshNow, tryRevive, propagateToSiblings, markNeedsReconnect | every renewal replaces a refresh token that several rows have a copy of; a remote change and a local write cannot be one step; locks with a time to live |
| Tradovate synchronisation and live socket | the journal, sockets in memory | import of fills, balances, closings | rebuilt from Tradovate at each pass; what it imports is the next row |
| Trades and imports (`trades`) | `Trade` rows with a fingerprint | importTrades, create, update, remove, removeBrokerImported, removeDuplicates | two sources bring the same fills with different dates; identical contracts; read, then insert row by row without a transaction |
| Partner codes (`partner-codes`) | `PartnerRedemption`, reservations | reserve, claim, markLost, release | a quota, like the founder seats, with late invoices |
| Referral rewards (`stripe/stripe-referral.service.ts`) | `ReferralReward`, `ReferralCommission`, the balance at Stripe | processReferral | one month credited, ever, by a job that may stop anywhere |
| E-mail queue and payment notices (`resend`, `onPaymentActionRequired`) | BullMQ queue `email`, `sendOnce` keys in Redis | send, deliver, sendOnce | three stores that fail separately; an e-mail must leave once |
| Trial end, accounts and incidents, sessions, AI quota | rows or counters of their own | see `PROJECT.json` | one lock, counter or unique key each |
| Analytics, PDF, calendar, Discord, push, admin, front ends | derived or external | queries and best-effort output | no protocol of their own |

Interactions: a checkout request reserves a place (founder offer), then creates a Stripe session;
Stripe sends events to the web processes (intake); jobs synchronise the user row (subscription
state), take, lose or return a place (founder offer), cancel subscriptions at Stripe, and increment
the version of the user cache; every authenticated request reads that cache. The job of a paid
invoice goes on to count the use of a partner code and to reward a referrer; the job of a payment to
confirm puts an e-mail in the queue of the worker. The broker's side is apart: synchronisations, live
sockets and the hourly cron renew tokens, and what they bring enters the journal beside the files of
the user.

What makes each part correct is stated by the properties of section 4; `PROJECT.json` lists, under
`hazards`, where the code is exposed and which property would notice.

## 2. Modules

| Module | Models | Built on |
|---|---|---|
| `FounderTables` | the tables of the founder offer and every transaction and statement on them | |
| `FounderSeats` | the requests and jobs that run them concurrently, the clock, failures | `FounderTables` |
| `SeatLedger` | abstract specification: places held, subscriptions running, numbers issued | |
| `FounderSeatsProofs` | invariants and action properties of `FounderSeats`, refinement of `SeatLedger` | both |
| `WebhookDelivery` | Stripe's deliveries, `handleWebhook`, the job queue | |
| `SubscriptionSync` | Stripe's subscriptions of one customer, the events in the queue, the jobs, the user row | |
| `SubscriptionSyncProofs` | its invariants | `SubscriptionSync` |
| `UserCache` | `AuthUserCacheService` command by command | |
| `UserCacheProofs` | its invariants | `UserCache` |
| `Mailer` | the e-mail queue, its attempts, Resend | |
| `PaymentNotice` | the handler of `invoice.payment_action_required` step by step, inside the intake and in front of the e-mail queue | `WebhookDelivery`, `Mailer` |
| `PaymentNoticeProofs` | the invariants of the intake, and of the notices built on it | `PaymentNotice` |
| `TokenRenewal` | renewal, propagation, condemnation and revival of Tradovate tokens | |
| `TokenRenewalProofs` | its invariants | `TokenRenewal` |
| `TradeImport` | imports from two sources, failures, the user's own trades, removal of duplicates | |
| `TradeImportProofs` | its invariants and action properties | `TradeImport` |
| `PartnerCodes` | the uses of one partner code | |
| `ReferralRewards` | what a referrer is owed for one referred account, request by request | |
| `InvoicePaid` | the jobs of paid invoices, which drive both | `PartnerCodes`, `ReferralRewards` |
| `InvoicePaidProofs` | its invariants | `InvoicePaid` |
| `MC*` | model values and symmetry for TLC | |

A few definitions are preceded by `\* Faulty:`. They are wrong variants of the definition that
follows them, used to check that each property notices a plausible mistake; no specification refers
to them.

### FounderTables and FounderSeats

A seat row is a function of its number. Reservations are keyed by the checkout attempt that made
them: an attempt makes at most one reservation, one session and one subscription, so the three share
one identity. `FounderTables` has one action per transaction. `Reserve` deletes the account's own
reservations, counts, and inserts, in one step, because `reserve()` does so under
`pg_advisory_xact_lock`. `ClaimSeat` takes the number, deletes the reservations and marks the
milestones in one step for the same reason. The statements outside the lock are steps of their own.

`FounderSeats` gives each process a program counter. `reserve()` and `claimSeat()` are two steps,
because they read the date before they wait for the lock. `releaseUnpaid`, `markLost` and
`refundFirstPayment` are two steps, because they read a row and then update it by number without
repeating the condition. `Fail` ends any call between two steps: a crash, a database error, or a job
that will be run again. `CallClaim` may be made again for any checkout whose reservation was
granted, which covers retries and late events; `ended` is what `syncSubscription` said of the
subscription.

Left out: the configuration `open`/`endsAt`, the 30 s copy of the number of seats left (both only
refuse earlier what `reserve` decides), `updateInterval` and the `cta` (data), and the session id
attached to a reservation, whose absence only makes a reservation last until its expiry.

### SeatLedger

Three variables: the numbers of the running subscriptions, the checkouts that hold a place, the last
number. `Hold` needs room, `Take` needs a held place or room, `Drop` and `End` give back.
`FounderSeats` maps `active` to the rows in status `ACTIVE`, `held` to the reservations that have not
expired, `issued` to the largest number. A tick of the clock that lets reservations expire is a
`Drop`; an account deletion is a `Drop` of its reservations, since its seat keeps its number.

### WebhookDelivery

A delivery is an HTTP request in one of three places: before the insert of the mark, before the
enqueue, before the deletion of the mark. Stripe sends an event again when it was not told 2xx and
waits for no answer (`heard`). A job counts its attempts and, as BullMQ does, survives one stall.
`Slow`, `Crashes`, `DbFails` and `AddsLost` are the events to which these failures may happen, so that
one run has both kinds of events. `DbFails`: the mark is inserted by a request that does not hear of
it, or cannot be deleted. `AddsLost`: `queue.add` throws although Redis has stored the job. The code
cannot tell this from an add that stored nothing; it takes the mark away, and as the job has no
`jobId` the redelivery adds another one. The history variable `strays` holds such jobs. So an event may have several
jobs, one for each add of that kind and one more: that is what `OneJobPerEvent` says, and all the mark can promise.
What keeps such an event from being handled twice is in the handlers (`sendOnce`, unique keys,
idempotency keys at Stripe), which `NoticeOnce` checks with two jobs of one event.

### SubscriptionSync

One customer, a set of subscriptions, a bag of events to handle. Jobs take events in any order and
run them again after any failure. `Retrieve`, `Read` and `Write` are the three moments of
`syncSubscription`. The seat of a founder's first invoice is a choice (`Claim`): whether there is one
is the business of `FounderSeats`. The trials to replace are listed then, and cancelled one after the
other (`CancelOne`), while Stripe and its customer move on. A checkout request looks at the row
(`Check`), lists the open sessions, expires each and opens its own, so two requests may leave two
sessions open; a request that fails, or takes up a session that is still open, goes no further.
`StripeFails` lets the five requests fail whose errors the code swallows (read of the subscription, list
and expiry of sessions, list and cancellation of trials); the others throw, which `Throw` is. The row
and the status that `Check` judges are read in one step. `patient` marks the behaviours in which the
customer does not pay a second session while a subscription runs. `past_due` stands for every status
without access that is not an end.

### UserCache

The row is the number of its changes. Each Redis command and each database statement of a request is
a step, any Redis command may fail, and `Tick` takes life from every key. `floor` remembers the row
that the last invalidation announced when the request began.

### Mailer and PaymentNotice

`Mailer` has the queue `email`: `ResendService.send` adds a job, `EmailProcessor` makes at most `Tries`
attempts, each under the key of the job, by which Resend knows a repeated attempt. `inbox` counts the
copies received. While the queue cannot be reached, `deliver` goes to Resend directly, without a key.

`PaymentNotice` extends the intake: `notices` are the events of this type, and a job of one of them is
no longer one step but `Take`, the read of the user and of the key, the `SET NX` of `sendOnce`, `Post`
and the end. `LoseLock` is BullMQ giving a stalled job to another worker while the first goes on, so
several workers may be in the handler for one event. `excused` remembers that Redis failed for an
invoice, the only reason for which it may receive more or fewer e-mails. One key lives 30 days and
stands for the invoice, so a second event of it sends nothing, by design. The read of the user and
the `SET NX` are one step where nothing can tell them apart. Other events keep the one-step handler
of `WebhookDelivery`; their handlers are in `SubscriptionSync`, `FounderSeats` and `InvoicePaid`.

### TokenRenewal

The connections of one login. Tradovate accepts one refresh token, `current`, and replaces it each
time it is presented. A call is a token request in progress, from its read of the row to its last
update: `refreshWithRetry` (ask, wait two seconds, read again, ask again), `Store` and `Spread` (the
row, then the sisters), the fallback on the access token, and `Judge`, the condemnation. The cron's
`tryRevive` presents the token of the row it read long before. The lock of the login may be given or
refused at any time, since it lasts 30 s whatever its holder does: nothing shown here rests on it.
`trouble` names what a behaviour allows: `none`, `slow` (storing an answer may take any time) or
`crash` (a process dies or an answer is lost).

Left out: a new consent, disconnection, pauses after penalties and refusals, the lock of a connection's
synchronisation, `rememberLogin`, and answers without a new refresh token. `buildTokenColumns` then
keeps the token presented; if such an answer left it valid, another call could have it replaced before
the first writes it back, so `UnwrittenIsCurrent` and what rests on it hold only as long as Tradovate
replaces the token each time, which is what the comments of the code describe. What the properties leave
open, and the code does too: with three slow calls, propagations of old answers can bury the newest
token (`NeverLost` is checked, and proved, for two); a crash between Tradovate's answer and the write loses the
login until its owner consents again; `markNeedsReconnect` may hit a row renewed by a sister while
the access-token fallback runs, and the cron then revives it.

### TradeImport

A fill is what happened at the broker, and is `Contracts` identical trades. The file of the user dates
it in local time, the broker in UTC: a key is a fill and a dating. The table maps the id of a trade to
its key and to the older trades of its fill (`createdAt`); the id of an imported trade is its
fingerprint, which `@@unique([userId, importHash])` makes an identity. `Start` reads the table and
decides what is missing (`Decisions`: one pass over the rows, `ReadRow` for each), `Create` inserts one
row, `Fails` skips one, `Ends` stops anywhere. Of two imports of one source the second insert of a
fingerprint does nothing. `FindDuplicates` and `RemoveDuplicates` are the read and the delete of
`removeDuplicates`; a removal in progress may find its trades deleted by another.

What the code leaves open is in three history variables, which the properties name. `short[p]` are the
fills that import `p` may leave incomplete: one of its own rows failed, a trade of the fill was removed
after it had counted it, or the ranks had a gap when it began (`Gapped`). The last is the case of a
fill whose first trade failed, went or was edited while the second stayed: a later import asks for
ranks that are taken and does not complete it, although `trade-identity.util.ts:5-8` says a missing
repetition is created. `CreatesTheShortfall` says what is left: an import never creates more than the
table lacks, and creates all of it where there is no gap. `blurred` are the fills that may have a trade too many: a file and a
synchronisation brought them at once (their fingerprints differ), the user edited one of their trades
(which no longer matches its fill) or entered one by hand during an import. `removed` are the fills of
which the user removed a trade. The key ignores the account: identical fills copied to two accounts
are one. Excluded: two fills at the same prices a whole number of half hours apart.

### PartnerCodes, ReferralRewards and InvoicePaid

`PartnerCodes`: each account has at most one subscription here. `reserve` counts redemptions and valid
reservations under the lock of the code; `claim` counts the use at the first invoice; `markLost` and
`release` read an active use (`FindActive`) and then update it by its id (`UpdateById`), each of the
two possibly under way in several jobs: `ending[u]` is what they are about to write. `alone` is
chosen at the start and says that one job at a time ends a use: one worker, which is production, and
no stall. `ReferralRewards` has one operator per request of `processReferral`: the
commission of an ambassador, or the reward row, the price, the list of credits, the credit under an
idempotency key that Stripe forgets after 24 h (`Day`), the mark `APPLIED`. `InvoicePaid` gives each
paid invoice a job that runs these in the order of `onPaymentSucceeded`, starts again after a fault,
and is dropped after its last attempt. The jobs of two invoices may be handled at once.

What the code leaves open. The history variable `late` holds accounts counted without a valid reservation: `claim` honours a
paid invoice whatever the quota says. `recounted` holds accounts whose use was given back and then
lost, because the second of two jobs had read it before the first wrote it: unless `alone`, the quota
may be exceeded by these too, and a use that has ended may change the way it ended. `unseen` marks
that a job asked for a credit, the key forgotten, after it could not read the list of transactions or
did not find the credit in it: a further credit is then possible. `hasReferralCredit` reads the last
100 transactions and no further page, so the second case needs a referrer with many filleuls
(`Bury`); its comment says only that a failed read answers no. A claim that comes after the end of the subscription
leaves the use `ACTIVE` for ever. Two invoices of one month leave the amount of the last. A referrer
who becomes an ambassador may get both a month and commissions, although `schema.prisma:187-190` says
never. `hasRealPayment` says no while Stripe is down, and the use is given back.

## 3. Fairness

Safety properties need none, and the specifications of the founder offer, the subscription state, the
tokens and the imports have none. `WebhookDelivery`: requests that began end (`HandleStep`) and a
worker takes and ends jobs (`RunJob`), because BullMQ holds a job until it is completed or failed;
Stripe also sends again while it may. The run that checks liveness uses `NoticeFairness` of
`PaymentNotice`, which asks the same of requests and workers and nothing of Stripe, of Redis or of
the e-mail queue. `InvoicePaid`: each step of a job is fair, for the same reason; a fault may
happen at any of them, at most `MaxFaults` times. That is no restriction for liveness, since a job
that keeps failing is dropped after `Attempts`. `UserCache`: time passes and a request that began ends. Nothing assumes that an
invalidation happens or succeeds.

## 4. Runs

| Run | Result | What it shows | Bounds |
|---|---|---|---|
| `founder_concurrent` | holds | `ActiveWithinOffer`, `OnePerAccount`, `NumbersDense`, `NumbersNeverReused`, `ImplementsLedger`, types | 2 interchangeable processes in role `all`, 1 seat, 3 checkouts of 2 accounts, clock 0..1 |
| `founder_production` | holds | `NoOversell`, `EndedIsFinal`, `PaidNeverReleased` | 1 web process, 1 queue worker, 2 seats, clock 0..2, 3 numbers |
| `founder_stale_date` | violated | `ActiveWithinOffer` when the clock may pass an expiry while a call waits for the lock | as above with 1 seat, clock 0..1 |
| `webhook_delivery` | holds | `OneJobPerEvent`, `CleanAckedIsQueued`, `JobsEnd`, `NoticeOnce`, `HandledIsPosted`, types | 2 events of one invoice, one with every failure; 2 requests at once; 3 deliveries and 2 jobs per event; 2 attempts; 3 workers; 2 e-mails of 2 attempts; 1 fault of Redis |
| `webhook_lost` | violated | `AckedIsQueued`: an event answered 2xx may have no job | 1 event, slow requests only |
| `subscription_sync` | holds | `RowIsCurrent`, `Converges`, `InactiveNeverReplaces`, types | 2 subscriptions, one at the founder price; 1 worker; 2 waiting events of a kind; 2 checkouts at once; swallowed failures of Stripe |
| `subscription_two` | violated | `NeverTwo`: the founder price may start beside a running subscription | same, without failures of Stripe |
| `user_cache` | holds | `ReadsAreFresh`, `EventuallyCurrent`, types | 2 requests, 2 changes, copies live 2 ticks |
| `user_cache_version` | violated | `ReadsAreFresh` when the version key may expire | 1 request that ends within a tick |
| `token_renewal` | holds | `UnwrittenIsCurrent`, `NeverLost`, `NotCondemnedByRace`, `Revivable`, types | 2 connections, 2 calls at once, 4 tokens |
| `trade_import` | holds | `CreatesTheShortfall`, `NothingLost`, `NothingTwice`, `KeepsOneOfEach`, types | 1 fill of 2 contracts; the file, the fill half synchronised, the fill synchronised; 2 imports and 2 removals of duplicates at once; 2 own trades; 2 acts of the user |
| `invoice_paid` | holds | `QuotaKept`, `OneCredit`, `AppliedIsCredited`, `EndedUseStays`, `Rewarded`, types | 2 accounts for 1 use; first invoice and renewal of the referred account; 2 attempts, 2 faults |

Why the bounds are enough. An oversell needs a last seat, one account that loses its place and one
that is given it: one seat and two accounts. A reused number needs one seat closed and one sold
again: two numbers. The third checkout gives the first account a second session, which is what
`OnePerAccount` is about. With two processes every pair of statements interleaves. `founder_production`
has two seats, so that lost seats and free ones exist together and milestones differ. Three
deliveries let a redelivery overlap a first one and a third follow both; two attempts tell the last
attempt from another. Two subscriptions are the old and the new one of every switch; two waiting
events of a kind let a stale one follow a fresh one. In `user_cache` two changes make three rows and
three versions, enough for a reader two versions late.

`webhook_delivery` starts in three places (`MCInit`): with events of other types, where every
interleaving of deliveries happens; with two notices already queued, where every interleaving of
workers does; and with one notice that has two jobs, one of them stored by an add that threw, each on
its last attempt. The halves meet only in the jobs. Two e-mails are enough with one fault of Redis: a
doubled copy needs one. In `token_renewal` each call presents one token at a time and each row holds
one: four identities are enough, since a fifth adds no state (876 009 with either, up to renaming). In `trade_import` keys,
fingerprints and matching are by fill, so one fill of two contracts shows all there is; its three batches
are the file, and the synchronisation between the two closings and after both. In `invoice_paid` one
use and two accounts make the last use contested, and two invoices let the reward of the first be
finished by the job of the second. It too starts in two places, because rewards and uses meet only in
the jobs: with the month credited long ago, where the uses start from nothing, and with the first use
lost and two invoices queued, where the rewards do; one job at a time ends uses in the second.

`MaxNumber`, `MaxTime`, `MaxClosed`, `MaxSends`, `MaxJobs`, `MaxEvents`, `MaxTouches`, `MaxWrites`, `MaxMails`,
`MaxWorkers`, `MaxFaults` and `MaxActs` are the bounds; they appear as guards. Deadlock is not checked where every counter reaches its bound and
nothing is left to do.

`EndedIsFinal` and `PaidNeverReleased` are checked with one queue worker only. In role `all`, the
default outside production, two workers can interleave the read and the update by number of
`releaseUnpaid`, `markLost` and `refundFirstPayment`, and both properties fail: a seat refunded while
the end of its subscription is being handled becomes `LOST`. `NoOversell` fails there for the same
reason. `RowIsCurrent` also needs one worker. `QuotaKept` and `EndedUseStays` are
checked with one job at a time and with several, and say what each guarantees.

## 5. What the violations say

The findings in `PROJECT.json` quote the lines. In short:

1. `claimSeat` judges a reservation by the date before the wait for the lock. The window is the wait.
2. A redelivery that finds the mark is told 2xx although the job may never be queued.
3. The switch to the founder price cancels trials only, and the check that should prevent a second
   subscription reads a row that may be late.
4. The version key of the user cache may expire, start again, and meet a copy of the same version.

Also met while modelling, without a run: `schema.prisma:1217` says numbers go from 1 to 200, but a
place given back is sold under the next number, so numbers pass 200; `stripe.processor.ts:16` says
`removeOnFail: false`, while `handleWebhook` keeps failed jobs for seven days. The doc of `sendOnce`
(`stripe-webhook.service.ts:75-92`) takes the mark away when the e-mail fails, and a test
(`stripe-founder.spec.ts:945`) expects it; `ResendService.send` never throws
(`resend.service.ts:404`), so that branch is dead and an e-mail given up is not sent again. The
exceptions listed under TradeImport and InvoicePaid in section 2 are of the same kind. Two sessions of
one user can be `ACTIVE` after a double click on start (no lock in `session.service.ts`).

## 6. Proofs

All theorems hold for every value of the constants allowed by the named assumptions.

`FounderSeatsProofs`. The properties are not inductive alone. `TypeCorrect` is proved together with
`WritesIssued`: a call that has read a row holds the number of a row that exists, without which its
update could create a row out of order. On top of them,

- `NumbersAreDense`: the numbers issued are `1 .. k`, so the largest plus one is the next one.
  `NumbersAreFinal` follows from it, because a claim then writes a number that was never issued;
- `OneSeatPerAccount`: the two halves `SeatsDistinct` and `HeldDistinct` are inductive over the types;
- `Refinement` needs `FreshDates`: a call that waits for the lock has read the current date. It holds
  when no tick of the clock comes between the date and the transaction (`~LockWait`), the assumption
  of the theorem, and exactly what `founder_stale_date` refutes. Each step is then mapped to a ledger
  step or a stutter;
- `NeverBeyondOffer` uses nothing but `Refinement` and `LedgerWithinOffer`, proved of `SeatLedger`
  alone by counting.

The last section of `FounderSeatsProofs` assumes one worker (`OneWorker`, an assumption of its
theorems, true in production). Reservations of web requests may still happen beside a job, but they
change no seat, so the row a job read is the row it writes (`ReadsCurrent`). `EndedStaysEnded`,
`PaidStaysSold` and, with `~LockWait`, `NeverOversold` follow; all three are false for two workers.

`SubscriptionSyncProofs`, again with one worker, which leaves jobs in any order, repeated and thrown.
`Due` says that an event of a subscription is still to be asked about: it is in the queue, and is not
merely the one a job has already asked about. Whatever changes a status at Stripe emits an event, so
a status that a job saw is current or an event is due (`SeenOrDue`), and the row is current, or an
event is due, or a job holds the current status (`RowOrDue`). An event leaves the queue only once it
has been applied. `Quiet` leaves nothing due, which gives `RowStaysCurrent`. `InactiveNever` rests on
`ReadIsCurrent`: with one worker nothing writes the row between the read and the write.
`AccessConverges` is about a customer who starts a subscription only while none runs. It adds that a
subscription that ended does not come back (`EndIsFinal`), that one at most runs (`OneLive`), that a job
which asks about another subscription than the running one of the row can only hear that it ended
(`OthersOver`), and that a subscription that gives access is the one of the row, or has an event due, or was
seen by a job (`Followed`). Without `OthersOver` the job could put an older subscription in the place
of the one that runs; `OneWorker` is what makes the row it decides on the row it writes.

`UserCacheProofs`. `TypeCorrect` includes that the version key holds a number as long as it exists.
`IInv` adds `CopiesFresh` (the copy under the current version is as recent as the last row announced,
and no copy exists under a later version) and, for each request, `Sound`: its version is at most the
current one; the copy it is about to look up, and any copy another request is about to store there,
are as recent as what it may expect; what it is about to store under the current version is as recent
as the last row announced. `NeverStale` assumes `~VersionExpires`, which `user_cache_version` shows
to be needed: the argument is that a version, once left, never comes back.

`PaymentNoticeProofs`, first part: the intake. `OneJob` needs `OwnerInv`: of each event at most one delivery is between the
insert of the mark and its end, the mark is there while it is, and the jobs that exist before it
enqueues are strays; once another job exists, the mark stays, so that no delivery comes between again.
`CleanAcked` adds `CleanInv`: without the three faults, an event acknowledged is marked, and a marked
event is queued or about to be.

Second part: the notices. Every step is a step of `WebhookDelivery` or leaves its variables alone
(`NoticeImplementsDelivery`, all of the intake but its fairness), so its theorems carry over
(`NoticeKeepsDelivery`). The rest follows one token: the `sendOnce` key of an
invoice for which Redis never failed belongs to one worker about to post or to one e-mail job, never
both, and the customer has a copy only if Resend took it from that job. That is `TokenInv`, which
gives `OneCopy`. `SettledInv` says that a key that is set, and a handler that ends, mean an e-mail that
is queued, about to be, or excused, which gives `HandledPosted`.

`TradeImportProofs`. What `importTrades` decides is a recursive function over the rows of the batch, so
its theorems are inductions over the length of any batch. The library's induction theorems take an
operator as a parameter, which the provers cannot instantiate; the lemma `Induction` has a set instead,
and follows from the least element of a set of naturals (`WFMin`). With it, `PassesExist` and
`DecisionsDef` show that the recursive function is defined and satisfies its equation, and `Closed` is
the state of the pass after `i` rows in closed form: how many trades are left in the pool, the rank
reached, which fingerprints are to be created. `MissingCount` counts those that are asked for, and
`AskedFor` says that none of them is taken but in a fill with a gap: the others, which the unique index
lets in, are counted by `ShortfallCreated`.

- `AllCreated` needs `LostInv`: of a fill that import `p` must not leave short, the trades in the table
  and the fingerprints of `p` still to be created are together as many as the rows it brought. The
  property alone speaks of imports that are done, and is not inductive. Without a gap the ranks to be
  created are free when the import begins, which is where `Gapped` comes from;
- `NeverTwice` needs `SourceInv` (where the rows and the trades of a fill that is not blurred come from;
  all imports in progress that bring it are of one source) and `RankInv`: a rank to be created is at
  most what the fill has room for, and the trades and pending fingerprints that count before it are at
  most as many. So an insertion finds room, whatever the others have inserted since the read;
- `OneOfEachKept` needs `OrderInv` (the older trades of a trade are of its fill, and theirs are its own)
  and `DoomInv` (a trade about to be deleted has an older one, also after another removal has deleted
  its share). The oldest trade of a fill is then never deleted (`Oldest`).

TLC checked these invariants too, on larger instances than `trade_import`: 3 contracts, and `SourceInv`
and `RankInv` beside the properties.

`TokenRenewalProofs`. `UnwrittenStaysCurrent` is the fact everything rests on: a token obtained and
not yet written was seen by no other call, so it is still the one Tradovate accepts. `NoRaceCondemns`
and `CondemnedIsRevivable` assume nothing but `trouble = "none"`, which they state: as no call moves
while another stores its answer, every row holds the current token between two renewals, a refused
call finds it when it reads again, and a condemnation has a refusal of the valid token behind it. In the
same way `LoginNeverLostInTurn` holds for any number of calls. `LoginNeverLost` has calls of any
speed, and says that two of them (`TwoCalls`) cannot bury the newest token, whatever the number of
sisters: of two calls that store an answer one has the newest token (`OneIsLast`), what the other may
still overwrite is not the last copy (`Spared`), and the newest token will be left in a sister or in the
row of its call (`WillLeave`). It is false for three slow calls. It assumes that a login has a connection
(`ConnsAssumption`), for a login exists only through the connections that use it.

`InvoicePaidProofs`. `QuotaIsKept` is inductive over the types: each operation adds at most one
to the uses and valid reservations together, `Claim` beyond the quota adds one to `late`, and a job
that writes LOST over RELEASED adds one to `recounted`. The uses it does not bound are `Beyond`, which
counts `recounted` only without `alone`: then `EndingActive`, that a job about to end a use holds an
active one, says that nothing is recounted. `CreditedOnce` and `AppliedCredited` rest on `CreditInv`: a job that read the list and saw no credit
has either no credit before it or a key that Stripe still remembers, unless what it read is "unread" or
"old"; a job that saw one, or is about to mark the reward, has one. `EndedUseStaysEnded` is an action
property: a use that ended is never active again, and rests on `EndingActive` for the way it ended.

Only model-checked: the liveness properties `JobsEnd`, `EventuallyCurrent` and `Rewarded`, since
liveness under fairness is out of the prover's reach. Every invariant and action property of a run that
holds is stated by a theorem, some under an assumption that its run makes by its constants (one worker, two
calls, `~LockWait`, `~VersionExpires`).

## 7. Plan

Done: the founder offer, the intake, the subscription state and the user cache; then the Tradovate
tokens, imports, partner codes and referral rewards, payment notices and the e-mail queue. Left, in
order:

1. A new consent and a disconnection in `TokenRenewal`; the pauses after penalties.
2. The incidents of an account: unique key, Redis lock, three analyses a day; the monthly AI quota.
3. The unversioned copy of the billing status beside `UserCache`; sessions.
4. The live sockets of Tradovate and the pass that rebuilds them.

## 8. Not modelled

Prices, coupons, wording and formatting; the signature of webhooks; Discord and push output, whose
failures the code swallows; e-mail templates, the rate limit of the queue and campaigns; the parsing
of CSV files, a pure function whose correctness is a matter of formats; analytics and other pure
computation; the front ends, whose state is a view of the API, and which are a good half of the lines
of the repository. The parts with a protocol of their own that are still missing are in section 7;
`PROJECT.json` has the reason for each component, and a note for each hazard no property covers. Integer widths do not matter here: the counters stay far below their limits.
