# Formal model of the marketplace backend

EX is a marketplace for online businesses: sellers list a business and pay for
the listing's package and for featured places, buyers pay for a membership plan,
prove their funds, ask for access to confidential listings, and talk to the
seller by chat and video with the team in the middle. The backend
(`src/Backend`, NestJS over MongoDB through Prisma, Stripe, Socket.IO, Redis,
BullMQ) keeps all state that matters; the website (`src/frontend`) presents it.

This directory holds TLA+ models of the backend's core logic, the TLC
configurations that check them on small instances, and TLAPS proofs of their
main invariants for every value of the constants. `PROJECT.json` maps each
definition to the lines it models.

    tlc -config BuyerPlanChanges.cfg MCBuyerPlan.tla     # check an instance
    tlapm BuyerPlanProofs.tla                            # check the proofs

A component `C` is a module `C.tla`; `MCC.tla` gives it its small instances, the
`.cfg` files that begin with its name are the runs, and `CProofs.tla` holds its
theorems. Four small services that share no state (`Conversation`, `AddressCheck`,
`ConfidentialAccess`, `AcquisitionCapacity`) are checked together, `MCServices.tla`
with `Services.cfg`; `RequestProofs.tla` holds the theorems of the last three and of
the four together. `CallStory.tla` and `Purchase.tla` are abstract
specifications that the components are shown to implement. `QueueLemmas.tla` holds the
facts about queues that four of the proofs share.

## 1. The system

| Component | State | Operations | Talks to | What makes it correct |
|---|---|---|---|---|
| Buyer plans (`subscription/subscription.service.ts`, `stripe.service.ts`, `webhook.controller.ts`) | one `UserSubscription` row per member | checkout, schedule a change and withdraw it, cancel, resume, change the cycle, read, success page, webhook | Stripe, both ways | one plan is billed; the row is backed by a payment; row and Stripe agree on what comes next; what ended grants nothing |
| Listing packages (`listing.service.ts`, `listing-checkout.service.ts`, `listing-stripe-sync.ts`) | package fields of a listing | checkout, free package, downgrade and withdrawal, cancel, reactivate, read, mark sold, success page, webhook | Stripe, both ways | what is billed is what is held and the reverse; paying less waits, paying more starts now |
| Group calls (`chat/group-call.ts`, `chat.gateway.ts`) | registry of running calls, ring timers, in memory | start, join, decline, leave, time out, disconnect, restart | sockets, chat messages | a call ends for its own reasons; its story is told once and truly; it does not ring for ever |
| Placements (`listing-addon.*.ts`, `listing-checkout.service.ts`, `listing-stripe-sync.ts`) | a row per listing and add-on; a summary of them on the listing | subscribe, cancel, reactivate, settle, heal, record a checkout, start a deferred subscription, renew and end from Stripe | Stripe, both ways; packages | the summary says what the rows say; a page is billed once; what is billed is held |
| Presence (`chat.gateway.ts`) | sockets per user, grace timers, `is_online` | connect, disconnect, grace, heartbeat sweep, boot | database, sign-out | what is shown agrees with the connections there are; who is gone is shown offline in the end |
| Chat messages (`chat.service.ts`, `chat.controller.ts`) | conversations, messages, read marks, deal steps, each person's archive | create, delete, remind, start a deal, archive, mark read | queue, gateway, notifications | a prompt comes once per milestone and none is skipped; the archive hides nothing new |
| Message queue (`message-queue.service.ts`) | a queue per conversation | add, bundle | Redis, database | nothing queued is lost |
| Confidential access (`listing.service.ts`, `confidential-notice.ts`) | requests and grants per listing and buyer | accept the agreement, approve, decline, revoke, manual approval on and off | packages, conversations | nobody reads what nobody let them read; the conversation says how a request stands |
| Acquisition capacity (`acquisition-capacity.service.ts`) | case, documents, verified figure | submit, assign, review, verdict per document | — | the figure is the sum of the verified documents |
| Address changes (`email-change`, `phone-verification`), inbox codes, authentication | pending address, code, expiry, attempts; refresh tokens | send, check, consume | mail, SMS | an address is changed only by a code sent to it |
| Currency rates (`fx/`) | a row per day; prices per listing | import, weekly repricing | ECB | a stored day is never rewritten; a day is stored once |
| Notifications | table and a cache of list and count | create, read, mark, delete | Redis | the cache says what the table says |
| Featured rotation, package prices | a counter; none | next turn, window; price tables | — | equal turns; prices as published |
| Identity, billing page, attachments, users, catalogues, activity log, monitoring, mail, SMS, transports, website | rows without protocol, or none | create, read, update, delete, I/O | outside services | nothing a model checker reaches |

How they interact. A payment reaches the backend twice, as a webhook
(`/webhook/stripe`) and as the success page's call (`syncCheckoutSession`), in
any order and any number of times; both end in the same function per product.
Every later change of Stripe's (renewal, failed charge, end) comes by webhook
only. Requests of the member go the other way: the handler tells Stripe, then
writes its own row. There are no transactions and no locks between the two, and
several processes may serve requests. A queued change is applied when somebody
reads the row after its date: nothing wakes up to do it. Calls live in the memory
of one process; the lines they leave in a conversation are written afterwards.

What is hard here: handlers interleaving at every `await`; events repeated,
reordered or lost; a crash between Stripe and the database; requests made in an
order nobody tried; timers of one call firing in the next; and two stores
(Stripe's and ours) that must agree without a common transaction.
`PROJECT.json` lists the hazards line by line.

## 2. What is modelled

### BuyerPlan

Lines of `subscription.service.ts`, `stripe.service.ts` and
`webhook.controller.ts`. State: the date `now`; per Stripe subscription what
Stripe holds (`stripe`, its checkout session included: session *s* pays for
subscription *s*); the webhook events not yet accepted, oldest first (`events`);
the member's row (`row`); and for each worker the handler in flight (`tasks`).

A handler is a task with a program counter, and one action is what runs between
two awaits: `ScheduleChange` reads and decides, `CallStripe` performs the Stripe
call on what was read, `Save` writes the row. `handleCheckoutComplete` is
`Fetch` (the subscription read from Stripe), `LoadPrevious` (the row), `Upsert`
and `CancelReplaced`. Webhook handlers are tasks started by `Deliver`; the event
leaves the queue when the handler ends well (`Accept`) and is delivered again
after a failure or a crash. The remaining actions are Stripe's own (`Pay`,
`Renew`, `Decline`, `Retry`, `Lapse`), mapped as external: they are what the code
relies on.

### ListingPackage

The package of one listing. A downgrade is not applied by our date alone but
also as a *schedule* at Stripe, so the state of a subscription includes the price
of the next period. Here requests are single steps and their Stripe calls are a
sequence (`Amends`): the fault `cut` stops a request after any of them, before
the listing is written. Handlers do not interleave in this module: the races of
two recordings are those of `BuyerPlan`, whose recording is written the same
way. `Update` is what the seller's form writes (`PATCH /listing/:id`): package and
cycle, whatever is bought, queued or billed. Requests name the situations in which
members make them: `select` (the form, while no package is active), `edit` (the form,
over a package that is switched on), `downgradeCancelled` (a downgrade after a cancellation), `tabs` (a checkout opened while another is
not recorded yet), `meanwhile` (any request with an event still on its way).

### Placements

The placements of one listing: two single ones, each for a page, and the bundle
that is both. `rows` is the `ListingAddon` row of each add-on with its
`stripeSubscriptionId`, cycle, period end, end date and queued cycle; `flags` are
the listing's `packageAddons` and featured pages, which are worked out from the
rows (`Derived`) and written after them. `stripe`, `events` and `tasks` are as in
`BuyerPlan`; a checkout carries what it replaces (`replaces`, `stops`) in its
metadata, decided when it was opened.

Each handler is a task split at its awaits: `subscribe` is `Settling`,
`SettleDue` per row, `Sync` and `WriteFlags`, then `Decide`; cancelling and
reactivating are `CallStripe` and `Save`; a read of the listing (`look`) settles,
then heals a summary that differs (`HealFlags`, `Compare`). Recording a checkout
is `Fetch`, `StopReplaced` per subscription, `DeleteReplaced`, `Upsert`, `Sync`,
`WriteFlags`. A placement bought with a package takes `CheckHeld` and
`StartDeferredAddon` instead of the first three: its first period is a line of
the package's invoice, and the backend starts a subscription for the periods
after. Rows are updated and deleted by id, so a row that was deleted and bought
again is not the one a handler read (`StillThere`); an id no handler holds is as
good as a new one.

The requests name situations: `tabs`, `meanwhile` as above, `packageAgain` (a
placement bought with a package for a listing that has it already), `replay` (an
old success page opened again), `packageEnds` and `sold` (what happens to the
package and the listing). Left out: the dates a placement has run since, which
order the rotation, and rows without a subscription, which the migration of older
placements (`scripts/migrate-addons-to-rows.mjs`) leaves and no handler writes
for a paid checkout.

### Purchase

The abstract specification of what the three products share. An order is not there,
open at the checkout, paid or over, in that order only, and what it is for never
changes (`life`, `order`); at every step what the customer has (`held`) and is billed
for (`billed`) is part of what some order paid for (`Owned`). A payment by itself hands
out nothing; what follows from it is handed out, repriced or taken back in steps of
their own, because the handlers that do so come later, or never.

Each of `BuyerPlan`, `ListingPackage` and `Placements` instantiates it
(`Sale == INSTANCE Purchase WITH ...`) with each checkout as an order (`Life`,
`Ordered`). Of plans and packages the goods are steps of a ladder: package *p* is
`1..p`, so that a cheaper one is part of a dearer one; `Granted` is the ladder up to
what is on the row or the listing, `Billed` that up to what Stripe will charge, the price
a schedule holds included. Of placements the goods are the rows and the pages
(`Wares`); a renewal that the backend starts by itself is no order, and must be covered
by one. `SoldAsOrdered` is `Sale!Spec`, checked as a property and proved. It implies
`PlanWasPaidFor`, `PackageWasPaidFor` and `PlacementWasPaidFor`, which say it of the
goods alone and are theorems too. Of packages all of this leaves out the request `edit`,
which hands out what nobody ordered (section 5).

### GroupCall and CallStory

`GroupCall` is the registry and the socket handlers. A handler without `await`
is one action; placing a call is `Ask` ... `Place`/`Refuse` because it reads the
database in between, and ending one leaves lines to write that `Post` appends one
by one. Leaving asks only that the call named is running: the host ends it, and anybody
who is signed in ends a call between two (`EndsByLeaving`). `answer` and `hungUp` are
history variables: what each person last did about each call, and who ended which call
by leaving it.

`CallStory` is the abstract specification of what a conversation promises about
its calls: a call goes from unplaced to running to over and never back, and the
lines about it appear only after it is over, each at most once, one per person,
and true of what the person did. `TellsTheStory` is
`INSTANCE CallStory WITH phase <- Phase`, checked as a property and proved.

### Conversation

One conversation between two people and the team: `chat.service.ts`, the sending
handlers of `chat.gateway.ts`, and the queue of `message-queue.service.ts`. State:
the messages (`rows`), `Chat.isOffered`, who has archived it (`archived`), the jobs
of its queue (`jobs`), and what each request being served is about to do
(`calls`). Every database call of a request is a step of its own: a message is
`Say` (look for a repeat of the last five seconds), `Create`, `Unarchive`, then for
`send:message` alone the deal prompt, `CheckOffered`, `Count`, `Find`, `Prompt`. The
prompt's id is made of its milestone, so a second insert is refused. `Offer` sets
the chat's flag, `Add` queues the message, with an id of the client's or without
(`named`), and the worker goes `Take`, `Look`, `Save`, `Remove`: of the jobs without an
id (`ToSave`) it stores those that have no like stored, and it removes all it took, at
once if there is nothing to store. The
handlers of an offer ask who is signed in and not who is in the conversation, so
`Outsiders` offer too. Every request that queues something runs a worker over the whole
queue. `Fail` is a database call that fails, `Crash` a process that stops. `Look` is
nondeterministic about jobs that carry a date of their own, because those count as
stored only beside a message of about that date.

History: `peak` (most messages of people there ever were), `unseen` (who archived
it before somebody else wrote a message), `promised` (offers queued without an id and not deleted).

### AddressCheck

A new email address or telephone number and the code sent to it. The two services
have one shape; `channel` says which it is. `SendCode` reads the row and the other
accounts, `WriteChallenge` stores address and code, `Mail` sends it or fails, and a
failure ends in `ClearChallenge`. `VerifyCode` reads the row once and ends in
`Miss`, `ClearChallenge` or, for an email address, `AssertFree`, then `Accept`. The
account's form (`PATCH /user/:id`) writes the same column with no code, a member's
telephone number or, by an administrator, an email address nobody else has: `SaveForm`
reads, `UpdateUser` writes and leaves a challenge under way as it is. Codes are numbered and never
issued twice: the chance of one in a million that two are alike is left out.
`mailed` and `provedBy` are history: which code went where, and which code made the
address the account's, none if the form did.

### ConfidentialAccess

One listing's requests for its confidential details. `access` is the status of each
buyer's row, `switch` is `approveBuyersManually`, `notice` the last notice in the
conversation with each buyer. Which package the listing holds changes at any time
and by none of these operations, so each request that reads it is given any. The
agreement is `AcceptAgreement` then either `ReadRequest`, `WriteRequest`, `Tell` or
`LetInUnvetted`; an approval is `Grant`, `ReadBefore`, `Approve`, `Tell`; switching
manual approval off goes through those who wait one by one. `letIn`, `unvetted`
and `crossed` are history: whom the seller or an unvetted listing let in since
access was last taken away, and about whom two requests overlapped or one failed.

### AcquisitionCapacity

A buyer's documents, the verdict on each, the case's status and `verifiedFunds`.
A verdict is `ReviewDocument`, `ReadVerified`, `WriteFunds`; a submission is
`SubmitDocuments`, `StoreDocuments`; the case's own review is `AssignReviewer` or
`ReviewCase`, then `CountUndecided` and `WriteCase`. `stale` is history: the figure was read before a
verdict by another request, or its writing was given up.

### Presence

One member's connections and what others are shown. `socket` is each connection,
`named` those whose token has been verified, `counted` the gateway's
`userSockets`, `lastSeen` and `pending` its two timers' memory, `writes` the updates
of `is_online` issued and not yet answered, `online` the column. A token is
verified between `Connect` and `Verified`, and the tab may close in between.
`Commit(i)` answers any of the writes, so they overtake each other; `WriteFails`
is an error, which the gateway logs. `SignOut` is the write of the services that
do not look at sockets, `Restart` forgets all but the column, and `ResetOnBoot`
writes everybody offline once Redis has answered. History: `astray` (the latest
write overtook another or failed) and `unasked` ("offline" was written over an open
connection by a sign-out or the start).

## 3. Runs

| Run | Checks | Shows |
|---|---|---|
| `buyer_changes` | `TypeOK` `OneBuyerPlan` `NextPeriodAgrees` `EndedMeansOut` `OnlyQueuedDowngrades` `PaymentIsRecorded` | handlers one at a time, events in order, failing renewals, downgrades queued and withdrawn |
| `buyer_faults` | `SoldAsOrdered` | requests of every kind but the withdrawal of a change; crashes, refused Stripe calls, events repeated, reordered, lost |
| `call_safe` | `TypeOK` `TimersBelongToRunningCalls` `EndsForAReason` `TellsTheStory` | two calls in one or two conversations, tabs closing, lost writes, restarts |
| `call_live` | `NobodyRingsForever` `EveryoneIsToldOf` | timers and the database are fair; people are not |
| `package_changes` | `TypeOK` `BillingAgrees` `NextPeriodAgrees` `PayingLessWaits` | every order of upgrade, downgrade, withdrawal, cancellation and reactivation, the form's choice while none is active, two cycles, failing renewals, repeated events |
| `package_faults` | `SoldAsOrdered` | every request but `edit`, cut after any Stripe call, with events lost, repeated, reordered |
| `package_sale` | `SoldIsNotBilled` `PaymentSwitchesOn` `EndSwitchesOff` | a sale with checkouts open and events on their way, the form's edits included; fair delivery |
| `placements_changes` | `TypeOK` `FlagsSayRows` `BilledOnce` `BilledIsHeld` `RenewalAgrees` `LetsGoOfWhatIsOver` | bought alone, with a package, as the bundle or on a longer cycle, cancelled, reactivated, looked at; failing renewals; the success page racing the webhook |
| `placements_faults` | `SoldAsOrdered` | every request, with crashes between awaits and events repeated, reordered, lost |
| `services` | `ServicesTypeOK` `PromptsAreDue` `NoMilestoneSkipped` `ArchivedHidesNothingNew` `OffersAreKept` `AddressWasProved` `LetInBySomeone` `NoticesTellTheRow` `VerifiedFundsAddUp` | two requests at a time in each of four services, offers with and without an id, deletions, the account's form, database calls that fail, processes that stop |
| `presence` | `PresenceTypeOK` `ShownAsCounted` `GoneIsShownOffline` | tabs that connect, drop and fall silent; writes that overtake each other or fail; a sign-out; a restart |
| `placements_sold` | `SaleStopsBilling` violated | a listing marked sold goes on paying for its placements |

Deadlock is not checked: every model stops when its bounds are used up or when
nobody asks for anything more.

### Bounds

* Buyer plans: two subscriptions (one replaced by the other), three plans, one
  cycle, three dates: bought, changed at the end of a period, and the period
  after. `buyer_faults` has two requests besides checkouts (a cancellation and its
  resumption, a scheduled change and the read that applies it), two subscriptions
  and two events waiting, which is enough for a repeat and a swap of any two; two
  handlers at once are in the theorem.
* Calls: two calls are the least in which one can disturb the other, two
  conversations the least in which one host has two; the buyer, the seller and a
  moderator are the three roles.
* Packages: three subscriptions and two cycles in `package_changes`, so that an
  upgrade can follow a replaced package and a shorter cycle is a downgrade;
  four dates, so that a queued change, the renewal that applies it and the
  renewal after it all happen. `Backlog` bounds what Stripe does by itself while
  the backend lags; the events requests cause are not bounded by it.

* Placements: three subscriptions in `placements_changes`, so that the bundle can
  replace one placement and a third purchase follow, two workers for the webhook
  and the success page of one checkout, three dates for a period that ends and
  the one after. `placements_faults` has two subscriptions, the least with which a
  late event can concern another one than the row. One row id is enough where
  handlers do not overlap.

* Services: two requests at once, the least that race. Of the conversation, three
  requests in all with a prompt every two messages, so that two messages sent together
  reach a milestone and a third passes it; one text, so that repeats happen; one person
  who files, a moderator, who offers without being a party as an outsider may (the
  theorems hold with outsiders too); time passes only while a request is still to come
  that would notice. Of the others, two addresses, three codes (one for each and one
  more), two guesses, two buyers, two documents. A behaviour is that of one service,
  chosen at the start by `part`, because a product of four that share no state adds
  states and no behaviour. Requests are interchangeable, and so are the two parties, who
  are the two buyers as well.
* Presence: three connections (two tabs, and one that comes back), one restart, one
  sign-out and one failed write; the number of writes on their way is not bounded.

`Backlog`, `Horizon`, `MaxRequests`, `MaxCalls`, `MaxFailures` and their like are bounds of the models and
not of the code. The theorems hold for every value of them.

### Fairness

`PaymentIsRecorded`, `PaymentSwitchesOn`, `EndSwitchesOff`: Stripe repeats an
event until it is answered with success (weak fairness of delivering the oldest
one), a handler that started runs on (weak fairness of each worker's step), and
Stripe ends and renews subscriptions on their date. Members are not fair: nobody
has to pay or to ask. `NobodyRingsForever`, `EveryoneIsToldOf`: `setTimeout`
fires, the database answers, and the loop that writes the lines of a call goes
on; nobody has to join, decline or leave. Events are never lost in these runs.
`GoneIsShownOffline`: verifying a token ends one way or the other, a write is
answered or fails, the two timers fire, silence lasts until somebody breaks it, and
a process that starts hears from Redis or gives up on it. Nobody has to connect,
close a tab or send a heartbeat.

## 4. Proofs

Everything below is checked by TLAPS for any number of subscriptions, workers,
calls, users and conversations, any cycles, any faults and requests and any bounds,
from the named assumptions of the modules (types of the constants only).

**BuyerPlanProofs.** `TypeCorrect` and `PlanPaidFor`: the plan on the row is never
dearer than the dearest plan paid for, whatever overlaps, crashes, is lost,
repeated or reordered. `PlanWasPaidFor` is not inductive: the row is written from
what a handler carries in its task and from a queued change. The invariant
`IInv` adds that the queued plan is backed by a payment (`RowBacked`), that what
each task read or is about to write is (`TasksBacked`), and that each event about
a checkout concerns a paid subscription (`EventsBacked`). Payments are never
undone, so `Backed` survives each step of Stripe's (one lemma), and each handler
step moves a backed plan from one place to another.

What the row says of Stripe holds in smaller worlds, each stated as the hypothesis
of its theorem: the faults and requests it leaves out break the property, which
TLC shows (§5 and below).

* Without `overlap`, under every other fault: `DowngradesAreQueued`
  (`OnlyQueuedDowngrades`). `AloneInv` says that one handler at most is at work and
  that what it has read is still the row (`Current`), because webhooks wait for it,
  and that the queued plan is no dearer than the plan, nor that than what was
  bought (`RowWithin`).
* Also without `reorder`, `lose` and `crash`: `EndedIsOut` (`EndedMeansOut`).
  `EndInv` follows the event that ends a subscription: until it is delivered the
  row, and whatever a handler is about to write of it, may still take it for a
  running one (`RowRuns`, `TaskRuns`), and after it no event but a repeated
  checkout comes (`EndsComeLast`).
* Without `overlap`, `crash`, `outage` and `lose`, in any order of events:
  `OnePlanIsBilled` (`OneBuyerPlan`). Whatever is billed is on the row, has its
  checkout on its way, or is held by the handler that will record or stop it (`Tended`).
* Without `overlap`, `crash` and `duplicate`, for the requests `schedule`,
  `unschedule`, `look` and `cancelNow`: `NextPeriodIsKnown` (`NextPeriodAgrees`). The
  two may differ only between a handler's call to Stripe and its write
  (`Between`), and a checkout still to be recorded is of a subscription billed as
  it was bought (`FreshInv`).

`Implements` (`Spec => SoldAsOrdered`) holds under every fault again. What is billed is
not backed by induction on `IInv` alone: a handler tells Stripe the price of a plan it
read some awaits ago, so `SaleInv` adds that what Stripe bills is backed, that a checkout
is offered at the price of what it is for (`BillBacked`), and that whoever is about to
call Stripe has read a plan that is backed. `StripeMoves` then says how a step can move
one subscription (a checkout opens, is paid, ends, or changes its price), `MoveSold`
that each way is a step of `Purchase`; every other step hands out something that is
owned.

**GroupCallProofs.** `TypeCorrect`, `TimersCleared`, `NoCallCutShort` and
`Implements`. The invariant is per call (`Sound(c)`): it relates the stage of a
call, the registry, its timer, the lines it has to write and has written, and the
history of answers; in particular that `joined` is exactly who came, which is why
the lines drawn up at the end are true. `Implements` states
`Spec => TellsTheStory`: a step maps to a step of `CallStory` or to a stutter;
`Finish` ends any number of calls at once, `Post` tells one line.

**ListingPackageProofs.** `TypeCorrect` and `PackagePaidFor`. The invariant adds
to the types that an active package and a queued one are backed by a checkout that
went through, as long as the form edits none that is switched on
(`ListingBacked`), and that each checkout event on its way was paid (`QueueBacked`).
`PackagePaidFor` is of every request but `edit`, which breaks it (§5); types need no such
hypothesis.

Here too the agreement with Stripe is proved in smaller worlds:

* Without `lose` and `cut`: `SoldIsLetGo` (`SoldIsNotBilled`), for any requests.
  `SaleInv` adds that what is billed is the listing's own subscription, and the
  listing is not sold, or its checkout is still to be recorded (`SalesKnown`).
* Without the requests `edit`, `tabs`, `confirm` and `sold`, under every fault: `DowngradesWait`
  (`PayingLessWaits`). `LessInv` compares the checkout still open or unrecorded,
  of which there is one at most, with the package in force (`OffersFit`), and the
  queued package with it (`QueuedIsLess`).
* Without `reorder`, `lose` and `cut`, and without the requests `edit`, `meanwhile`,
  `confirm`, `sold` and `downgradeCancelled` (several tabs, declined payments and repeated
  events included): `BilledAsHeld` (`BillingAgrees`) and `NextPeriodIsKnown`
  (`NextPeriodAgrees`). `AgreeInv` says how the listing may stand to its subscription
  (`Stands`): it goes on, will end, will change or will be free on both sides; or
  the listing has been ahead because somebody looked (`ChangedFirst`, `FreeFirst`);
  or Stripe is ahead and its event is on its way (`Unheard`). The rest is what
  the queue has still to say: that the end of an unrecorded subscription comes
  after its checkout (`EndTold`), and that the last event of a subscription has
  the end of its period (`LastTold`).

`Implements` (`Spec => SoldAsOrdered`) holds under every fault and every request but
`edit`. `BillInv` adds
to `IInv` that what a subscription is billed for, and what its schedule holds for the
next period, is backed (`SubBacked`); each of the calls that a request makes of Stripe
keeps that by itself (`ReleasedBacked`, `ScheduleBacked`), since a request may be cut
after any of them. A sale or a replacement takes the package away in the step that ends
its order.

**PlacementsProofs.** `TypeCorrect` and `PlacementPaidFor`: no row, and no page the
listing is shown on, without a payment, whatever overlaps, crashes or is lost.
The invariant adds that a handler at a step of a recording records a paid
checkout of its own placement, that the summary a handler has worked out and not
yet written is backed (`TasksBacked`), that a checkout event on its way was paid
(`EventsBacked`), that existing rows have a subscription (which the Stripe calls
and the metadata of the next checkout rely on), and that no renewal is ever
offered for sale (`OffersSound`): a renewal the backend starts by itself pays for
nothing, the checkout before it does.

What the rows say of Stripe is proved where handlers follow one another, except
that the webhook and the success page may record one checkout together, where no
event is lost, no call to Stripe fails and the process does not stop, and for
sellers who finish one purchase before they ask for anything else (`Undisturbed`).
Renewals may fail, events come in any order and more than once, and a package may
end or the listing be sold: `PagesBilledOnce` (`BilledOnce`), `BilledAsHeld`
(`BilledIsHeld`), `NothingPaidIsLost` (`LetsGoOfWhatIsOver`, at every step); without
the request `shorter`, `RenewalIsKnown` (`RenewalAgrees`); without `packageEnds` and
`sold`, `SummaryIsTrue` (`FlagsSayRows`). All five rest on one invariant, `BillInv`:

* One checkout at most is open or still to be recorded (`OneOpen`), and whatever
  on the listing is in its way is replaced by it, has ended, or is its own row
  (`MakesWay`): this is what makes an upgrade safe to record days after it was opened.
* A row has a subscription of its placement, and one that is over has its end
  still to be told (`RowsLinked`); the dates of the two agree but between a call and
  its write (`DatesAgree`); the bundle and a placement it includes are not both
  running (`Apart`).
* What is billed is on its row, has its checkout on its way or a handler at work
  on it, or runs out today (`AllHeld`).
* A handler has done what its step says (`TasksFit`): two of them may record one
  checkout side by side because what either has stopped, deleted and written the
  other finds done, and a summary that one of them has worked out stays true.
* The summary says what the rows say, but for rows that have ended, unless a
  handler that will write it is at work (`FlagsFit`).

`Implements` (`Spec => SoldAsOrdered`) holds under every fault and request. `SaleInv` adds to
`IInv` that a subscription that is billed is of a placement some checkout paid for: a
renewal that the backend starts for a placement bought with a package
(`RenewalTurns`) is backed by the checkout the handler records, not by itself.

**ConversationProofs.** `PromptsDue`, `NothingHidden`, `OffersKept`.
That an offer queued without an id is kept is not inductive: a worker removes jobs it
read long ago. The invariant says that of such jobs of an offer not yet stored one is in the queue
that no worker is about to remove without storing it (`Spares`): a worker that has
read it either stores it first or has found its like stored. That a prompt is due
rests on what each request has counted (`Reached`), which deletions do not undo
because `peak` never falls; sets of messages have to be finite for the count to be
a number, hence `FiniteSetTheorems`. `MilestonesKept` (`NoMilestoneSkipped`): each
message stored as one that reached a milestone has that milestone, or a later one,
announced or some request on its way to look (`Covered`); ids grow with the rows
(`IdsFit`), and nobody deletes what the platform posts, as long as no person of the
conversation is also of its team.

**RequestProofs.** `AddressProved`, which claims nothing of an address the form wrote:
whichever request accepts an address holds a code that was sent to it (`ClerksKnow`), because a challenge's address and code
are read and written together (`CodesBelong`). `SeersWereLetIn`: whoever is about
to be let in was already let in by somebody (`LetInFirst`). `NoticesTrue`: for a
buyer about whom no two requests overlapped, what the one request at work holds
agrees with the row and the notice (`AllFit`). `FundsAddUp`: unless the figure is stale,
whoever has read it has read what is proven, and either the column is right or
somebody is about to write it (`FiguresRead`). `ServicesTyped` (`ServicesTypeOK`): the
four services side by side keep their types, as whichever part of the run is chosen
moves and the others stand still. Of the verified figure this takes that the sum of
the amounts over any finite set of documents is a number (`SumIsNumber`). The fold has no
induction rule the provers can apply, so the sums over sets of up to *n* members are
built set by set (`SumsOfUpTo`), from the smallest number for which there would be
none (`WellFoundedInduction`). Documents are finitely many and amounts natural numbers
(`AcquisitionCapacityAssumption`).

**PresenceProofs.** `PresenceTyped`, `ShownRight`. The column is wrong for a while
after every event; the invariant is about what it will say once the last write
issued is answered (`Wanted`), and adds that open connections are counted and that
whose connections are counted has been seen (`Seen`), without which a silent
member would never be swept.

Every safety property the passing runs check is a theorem, some of them in the
smaller world the theorem names. The passing runs leave the same things out. Only model-checked: liveness (`PaymentIsRecorded`,
`PaymentSwitchesOn`, `EndSwitchesOff`, `NobodyRingsForever`, `EveryoneIsToldOf`,
`GoneIsShownOffline`), which the installed provers do not reach (fairness and ENABLED).

## 5. Where the code and its comments disagree

One disagreement is a run of its own, with the quoted comment under `findings`:
`placements_sold`, a sale stops the package's subscription and not the placements'
(`listing.service.ts:845`, against the comment at `:839-842`).

The next are stated as definitions beside the properties they would strengthen. TLC
refutes each within seconds when it is added to the run named, as an invariant or, where
it says *property*, as one (without the line SYMMETRY):

* `OnlyItsPeopleHangUp`, `GroupCallSafe.cfg`. Whoever is signed in and names a call
  between two ends it, in it or not (`chat.gateway.ts:1754`), though the comment at
  `:1753` says "the host leaving, or either person in a call between two, ends it".
  `EndsForAReason` therefore says *anyone who named that very call*.
* `PackageWasPaidFor`, and the property `SoldAsOrdered`, with the request `edit` in
  `ListingPackageFaults.cfg`. The edit form writes the package of a listing that has one
  switched on, the free one included, and nothing is charged (`listing.service.ts:2636`),
  though `:352-355` says "an upgrade is charged and takes effect at once". Whatever
  compares a package with what was paid or is billed leaves the request `edit` out;
  `SoldIsNotBilled`, `PaymentSwitchesOn` and `EndSwitchesOff` hold with it.
* `NumbersComeByCode`, `Services.cfg`. A member's own form writes a telephone number with
  no code (`user.service.ts:411`; `phone` is a field of `user.dto.ts:47` and not among
  those `user-update-access.ts:20-30` protects), and an administrator's an email address,
  though `phone-verification.service.ts:9-10` says that the number "only becomes their
  real number once a code sent to it comes back". `AddressWasProved` is about what codes
  do.
* `OffersAreBroughtBack` (property), `Services.cfg`. Messages stored by the queue's worker
  do not bring the conversation out of the archive (`message-queue.service.ts:127`),
  though an offer is the very reason given at `chat.service.ts:1883-1887`.
  `ArchivedHidesNothingNew` is about the messages `createMessage` stores.
* `NamedJobsAreSaved`, `Services.cfg`. A queued message that carries an id counts as
  saved (`message-queue.service.ts:60`), and its job is removed unstored (`:62`, `:143`);
  but the handlers of an offer queue the client's message with whatever id it has and
  save nothing themselves (`chat.gateway.ts:1082-1097`). `OffersAreKept` is about offers
  without one.
* `DecisionsStand` (property), `Services.cfg`. A request for access that read the row
  before the seller decided writes PENDING over the decision (`listing.service.ts:1598`),
  though `:1578-1579` says that re-accepting "must not undo a seller's refusal, nor
  re-open a request they already approved".
* `FundsNeverDisagree`, `Services.cfg`. Two verdicts at once may write the older figure
  last, and a request that stops after its verdict writes none
  (`acquisition-capacity.service.ts:133`), though `:128-129` says that the figure "can
  never disagree with the evidence beneath it". `VerifiedFundsAddUp` excludes exactly
  that (`stale`).

The passing runs leave out the requests and faults that break
their properties, each for a reason that TLC shows in seconds when it is put back:

| Put back | in | and TLC violates | because |
|---|---|---|---|
| request `resume` | `BuyerPlanChanges.cfg` | `NextPeriodAgrees` | `resumeSubscription` (`subscription.service.ts:709`) renews at Stripe and leaves a queued move to the free plan on the row |
| request `confirm` | `BuyerPlanChanges.cfg` | `NextPeriodAgrees` | recording a checkout again (`:477`) clears the queued change on the row and not at Stripe |
| fault `crash` | `BuyerPlanChanges.cfg` | `OneBuyerPlan` | after a crash between `:486` and `:495` the redelivery sees nothing to replace |
| fault `crash` | `BuyerPlanChanges.cfg` | `EndedMeansOut` | a failed charge's event, sent again after a crash, is told after the subscription's end and marks the row as running (`handlePaymentFailed`, `webhook.controller.ts:282`) |
| fault `duplicate` | `BuyerPlanChanges.cfg` | `NextPeriodAgrees` | recording a checkout again (`:477`) clears what was queued since on the row and not at Stripe |
| fault `overlap`, a second worker | `BuyerPlanChanges.cfg` | `OnlyQueuedDowngrades` | `applyDueChange` (`:297`) writes what it read before an upgrade was recorded |
| fault `reorder`, request `cancelNow` | `BuyerPlanChanges.cfg` | `EndedMeansOut` | `handleSubscriptionUpdated` (`webhook.controller.ts:205`) takes the status of whichever event comes last |
| request `edit` | `ListingPackageChanges.cfg` | `BillingAgrees`, `NextPeriodAgrees`, `PayingLessWaits` | the form writes package and cycle and tells Stripe nothing (`listing.service.ts:2636`) |
| request `downgradeCancelled` | `ListingPackageChanges.cfg` | `NextPeriodAgrees`, `BillingAgrees` | a downgrade after a cancellation renews at Stripe and leaves `packageEndsAt`; reactivating leaves a queued move to Minimum (`listing.service.ts:417`, `:824`) |
| request `confirm` | `ListingPackageChanges.cfg` | `BillingAgrees` | an old success page switches an ended package on again (`listing-checkout.service.ts:155`) |
| request `meanwhile` | `ListingPackageChanges.cfg` | `BillingAgrees` | a downgrade asked for between a renewal and its event is dated by the old period (`listing.service.ts:388`) |
| request `tabs` | `ListingPackageChanges.cfg` | `PayingLessWaits` | whether a purchase is a downgrade is decided when its checkout is opened (`:376`) |
| invariant `UpgradeIsSold` | `BuyerPlanChanges.cfg` | it | a held plan is known by the metadata of its checkout (`subscription.service.ts:625`), which a downgrade does not change: the way back up is refused, though `:390-391` sells dearer plans |
| fault `overlap`, a second worker | `BuyerPlanChanges.cfg` | `OneBuyerPlan` | two checkouts recorded at once each read no row (`:458`), and neither subscription is stopped |
| invariant `PastItsMinuteSomebodyCame` | `GroupCallSafe.cfg` | it | the timer of a call everybody declined returns (`chat.gateway.ts:1573`), though `:1564` ends a call nobody came to |
| request `sold` | `ListingPackageChanges.cfg` | `BillingAgrees` | a downgrade queued before the sale is applied after it (`listing.service.ts:2578`) |
| invariant `HostGoneEndsCall` | `GroupCallSafe.cfg` | it | the start handler resumes after its database reads and does not look whether the host's tab is still there (`chat.gateway.ts:1648`), though `group-call.ts:29` says losing it ends the call |
| fault `overlap` (requests `package` and `confirm`, one cycle) | `PlacementsChanges.cfg` | `BilledOnce` | webhook and success page each find no row and each start a subscription of a placement bought with a package (`listing-checkout.service.ts:322`) |
| request `shorter` | `PlacementsChanges.cfg` | `RenewalAgrees` | a shorter cycle is queued on the row and Stripe is never told (`listing-addon.service.ts:231`) |
| request `packageAgain` | `PlacementsChanges.cfg` | `BilledOnce` | a package's checkout carries no list of what it replaces (`listing.service.ts:501-518`) |
| request `tabs` | `PlacementsChanges.cfg`, `Horizon = 2` | `BilledOnce` | what a purchase replaces is decided when its checkout is opened (`listing-addon.service.ts:288`) |
| request `packageEnds` or `sold` | `PlacementsChanges.cfg` | `FlagsSayRows` | the end of a package, or a sale, clears the pages of placements that go on (`webhook.controller.ts:165`) until somebody looks |
| fault `lose` | `PlacementsChanges.cfg` | `BilledIsHeld` | an event that never comes leaves a payment without its row, or the row of a placement that is over (`listing-stripe-sync.ts:112`) |
| request `replay` | `PlacementsChanges.cfg` | `BilledIsHeld` | an old success page puts its old subscription back on the row (`listing-addon.activate.ts:110`) |
| request `meanwhile` | `PlacementsChanges.cfg` | `RenewalAgrees` | recording a checkout again clears a cancellation made since |
| fault `crash` | `PlacementsChanges.cfg` | `FlagsSayRows` | the repeated event finds no rows and does not write the summary (`listing-stripe-sync.ts:119`) |
| fault `overlap` | `PlacementsChanges.cfg` | `FlagsSayRows`, `LetsGoOfWhatIsOver` | a summary, or a row to delete, is read before an await and written after it (`listing-addon.service.ts:76`, `:96`) |
| fault `outage` | `PlacementsChanges.cfg` | `BilledOnce` | a replaced subscription that could not be stopped is logged and forgotten (`listing-addon.activate.ts:67-72`) |

Of the services, some things one might expect are not stated as properties,
because the code does not keep them and the models show how:

* The same words sent twice within five seconds are one message only if the second
  request looks after the first has written (`chat.service.ts:664`): sent together
  they are two rows (`Say`, `Say`, `Create`, `Create`).
* Two workers of the queue may store one job each (`message-queue.service.ts:52`);
  and a job without a date counts as stored beside any identical message there ever
  was (`:97`), so an offer of the same words is stored once for ever.
* Wrong guesses sent together are counted once (`email-change.service.ts:137`, and
  the same in the telephone and inbox services), and a mail that fails withdraws
  whatever code the row holds by then, the newer one of another request included (`:84`).
* A refusal stands only while buyers are vetted: with manual approval switched off,
  accepting the agreement again approves (`listing.service.ts:1628`), while the comment
  at `:1578` says that re-accepting must not undo a refusal.
* Of requests that overlap about one buyer, or fail, the last notice in the
  conversation may say something else than the row: the row is written first and the
  notice posted after it (`listing.service.ts:1598`, `:1612`). `NoticesTellTheRow`
  leaves them out (`crossed`).
* A case may be completed while a document is put back in review
  (`acquisition-capacity.service.ts:317`).
* The writes of `is_online` are not awaited, so the older of two may reach the database
  last and stand until the next (`chat.gateway.ts:259`). `ShownAsCounted` leaves that
  out (`astray`).
* A tab that connects before the start's reset is written offline and stays so
  (`chat.gateway.ts:158`); signing out in one browser shows a member offline who has
  another open (`auth.service.ts:345`). `unasked` marks both.
* An import of the history of rates that stops between two batches is never
  completed: the next run sees the newest day and asks for no more (`fx.service.ts:118`).

`OnlyQueuedDowngrades` speaks of one subscription for the same reason as the
row of `tabs` and `PayingLessWaits`: two plan checkouts opened before either is paid both stand, and the one
recorded last replaces the other, dearer or not.

## 6. What the models assume of Stripe

A change of price keeps the anchor of the period; a subscription's events of one
period have been accepted, or are lost, before the next date (`Tick`); a paid
session has a subscription; a subscription that is over never comes back. What a
request makes Stripe do also causes events, and they join the queue of those on
their way in the same step.

## 7. What is not modelled, and why

Parts of the modelled components. Payment and invoice records, the administrator's
reports, mails and log entries: nothing in the handlers reads them back. The ten
minutes within which a renewal counts as the one a change waits for: dates are
periods here. Of the edit form: everything but the package and its cycle. Of the
conversation: creating, merging, listing and deleting conversations (`deleteChat`,
`chat.service.ts:1768`, removes the messages, the labels and the chat itself, after
which there is no conversation to speak of), editing a message, read marks, pins and
labels other than the archive, which are single writes that no modelled property
depends on. Of presence: the time of `last_seen`, the status events sent to others
after a write, and the write of `is_online` that `PATCH /user/:id` accepts. The legacy relay of
one-to-one calls in `chat.gateway.ts` keeps no state.

Components. Storing, filtering and presenting listings, catalogues, users,
attachments, activity log, monitoring: create, read, update, delete without
protocol. The website (`src/frontend`, most of the repository's lines):
presentation of what the backend keeps; its part in a call or a checkout is what
the server accepts from any client. Mail, SMS, Redis and RabbitMQ set-up: I/O.
Currency rates and package prices: sums, averages and discounts of floating-point
numbers. The rotation of featured listings: one counter. Notifications: single
writes, each of which clears a cache whose entries live ten seconds. Inbox codes:
the operations of `AddressCheck` without an address to change. Authentication:
passwords and tokens are libraries, and what is left is a row read and written.

## 8. Plan

Buyer plans, listing packages, group calls, placements, conversations with their
queue, address changes, confidential access, acquisition capacity and presence
are done. What is left, in order of importance:

1. Conversations: creating one while another is created for the same pair and
   listing, merging, and read marks against the unread count.
2. `FxRates` (the import, and weekly repricing) with rates as model values, and
   `Notifications` (cache against table).
