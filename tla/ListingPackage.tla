----------------------------- MODULE ListingPackage -----------------------------
(* The package of one listing: what the seller bought, what the listing says it *)
(* has, and what Stripe bills for it (listing.service.ts, stripe.service.ts,    *)
(* listing-checkout.service.ts, listing-stripe-sync.ts, webhook.controller.ts). *)
(*                                                                              *)
(* Dearer packages start when they are paid for; cheaper ones, and shorter      *)
(* cycles, are queued for the end of the period, on the listing and as a Stripe *)
(* schedule.  A request is one step here, the calls it makes to Stripe in       *)
(* order; under the fault "cut" it stops after any of them, before the listing  *)
(* is written.                                                                  *)
EXTENDS Naturals, SequencesExt

CONSTANTS
  Subs,         \* Stripe subscription ids; checkout session s pays for sub s
  NoSub,        \* "no subscription"
  Cycles,       \* billing cycles, as a number of periods
  Faults,       \* subset of FaultKinds
  Requests,     \* subset of RequestKinds
  Horizon,      \* bound: the clock stops here
  MaxRequests,  \* bound: requests made, besides checkouts
  Backlog       \* bound: Stripe does nothing by itself with as many events waiting

FaultKinds == {"duplicate", "reorder", "lose", "decline", "cut"}

(* "downgradeCancelled" is a downgrade asked for after a cancellation, and      *)
(* "tabs" a checkout opened before the last one is paid for and recorded, and   *)
(* "meanwhile" any request made with an event of Stripe's still on its way.     *)
(* The listing's form is saved as a "select" where no package is switched on,   *)
(* and as an "edit" where one is.                                               *)
RequestKinds == {"select", "edit", "free", "downgrade", "downgradeCancelled", "keep",
                 "cancel", "reactivate", "look", "confirm", "sold", "tabs", "meanwhile"}

ASSUME ListingPackageAssumption ==
  /\ NoSub \notin Subs
  /\ Cycles \subseteq Nat \ {0}
  /\ Faults \subseteq FaultKinds
  /\ Requests \subseteq RequestKinds
  /\ Horizon \in Nat \ {0}
  /\ MaxRequests \in Nat
  /\ Backlog \in Nat

VARIABLES
  now,      \* the date
  stripe,   \* what Stripe holds of each subscription, its checkout included
  events,   \* webhook events not yet accepted by the backend, oldest first
  listing,  \* the listing's package fields
  spent     \* requests made so far

vars == <<now, stripe, events, listing, spent>>

(* MINIMUM, STARTER, PREMIUM by rank.  Dates start at 1, so that 0 is null.     *)
Minimum == 0
Packages == 0..2
NoPackage == 3
NoDate == 0
NoCycle == 0

Listing == [pkg: Packages, cycle: Cycles \cup {NoCycle}, active: BOOLEAN,
            expires: Nat, endsAt: Nat, sub: Subs \cup {NoSub},
            pending: Packages \cup {NoPackage}, pendingCycle: Cycles \cup {NoCycle},
            changeAt: Nat, sold: BOOLEAN]

NewListing == [pkg |-> Minimum, cycle |-> NoCycle, active |-> FALSE,
               expires |-> NoDate, endsAt |-> NoDate, sub |-> NoSub,
               pending |-> NoPackage, pendingCycle |-> NoCycle,
               changeAt |-> NoDate, sold |-> FALSE]

(* bought and term are the metadata of the checkout; pkg and cycle are the      *)
(* price in force, next and nextCycle the one a schedule puts after it.         *)
Subscription == [status: {"unused", "offered", "active", "past_due", "canceled"},
                 bought: Packages, term: Cycles \cup {NoCycle},
                 pkg: Packages, cycle: Cycles \cup {NoCycle}, renews: BOOLEAN,
                 next: Packages \cup {NoPackage}, nextCycle: Cycles \cup {NoCycle},
                 start: Nat, end: Nat]

Unused == [status |-> "unused", bought |-> Minimum, term |-> NoCycle,
           pkg |-> Minimum, cycle |-> NoCycle, renews |-> FALSE,
           next |-> NoPackage, nextCycle |-> NoCycle,
           start |-> NoDate, end |-> NoDate]

Event == [type: {"checkout", "updated", "deleted"}, sub: Subs, start: Nat, end: Nat]

Held(s) == stripe[s].status \in {"active", "past_due"}
Paid(s) == stripe[s].status \notin {"unused", "offered"}

TypeOK ==
  /\ now \in 1..Horizon
  /\ stripe \in [Subs -> Subscription]
  /\ events \in Seq(Event)
  /\ listing \in Listing
  /\ spent \in 0..MaxRequests

Init ==
  /\ now = 1
  /\ stripe = [s \in Subs |-> Unused]
  /\ events = <<>>
  /\ listing = NewListing
  /\ spent = 0

--------------------------------------------------------------------------------
(* Stripe, as the backend uses it.                                              *)

EventOf(type, s, sub) == [type |-> type, sub |-> s, start |-> sub.start, end |-> sub.end]

(* A subscription changes by itself, and the webhook hears of it.               *)
Happens(type, s, sub) ==
  /\ Len(events) < Backlog
  /\ stripe' = [stripe EXCEPT ![s] = sub]
  /\ events' = Append(events, EventOf(type, s, sub))
  /\ UNCHANGED <<now, listing, spent>>

Pay(s) ==
  /\ stripe[s].status = "offered"
  /\ Happens("checkout", s,
       [stripe[s] EXCEPT !.status = "active", !.renews = TRUE, !.start = now,
                         !.end = now + stripe[s].cycle])

Due(s) == Held(s) /\ stripe[s].end <= now

(* Nothing left to tell the backend, and nothing Stripe has still to settle.    *)
Quiet == events = <<>> /\ \A s \in Subs : ~Due(s)

Scheduled(sub) == sub.next # NoPackage
Released(sub) == [sub EXCEPT !.next = NoPackage, !.nextCycle = NoCycle]
Stopped(sub) == [Released(sub) EXCEPT !.status = "canceled"]

(* The next period begins, at the scheduled price if there is one.              *)
NextPeriod(sub) ==
  LET priced == IF Scheduled(sub)
                THEN [Released(sub) EXCEPT !.pkg = sub.next, !.cycle = sub.nextCycle]
                ELSE sub
  IN [priced EXCEPT !.start = sub.end, !.end = sub.end + priced.cycle]

Renew(s) ==
  /\ Due(s) /\ stripe[s].renews /\ stripe[s].status = "active"
  /\ Happens("updated", s, NextPeriod(stripe[s]))

(* The renewal's charge fails; Stripe goes on trying, and in the end it goes    *)
(* through or the subscription is given up.                                     *)
Decline(s) ==
  /\ "decline" \in Faults
  /\ Due(s) /\ stripe[s].renews /\ stripe[s].status = "active"
  /\ Happens("updated", s, [NextPeriod(stripe[s]) EXCEPT !.status = "past_due"])

Recover(s) ==
  /\ stripe[s].status = "past_due"
  /\ Happens("updated", s, [stripe[s] EXCEPT !.status = "active"])

GiveUp(s) ==
  /\ stripe[s].status = "past_due"
  /\ Happens("deleted", s, Stopped(stripe[s]))

Lapse(s) ==
  /\ Due(s) /\ ~stripe[s].renews
  /\ Happens("deleted", s, Stopped(stripe[s]))

(* Stripe settles everything due before the date moves on by a period, and has  *)
(* long stopped repeating the events of the last one.                           *)
Tick ==
  /\ now < Horizon
  /\ Quiet
  /\ now' = now + 1
  /\ UNCHANGED <<stripe, events, listing, spent>>

--------------------------------------------------------------------------------
(* The seller's requests.                                                       *)

Asks(kind) ==
  /\ kind \in Requests
  /\ spent < MaxRequests
  /\ Quiet \/ "meanwhile" \in Requests
  /\ spent' = spent + 1
  /\ UNCHANGED now

Months(cycle) == IF cycle = NoCycle THEN 1 ELSE cycle

Cheaper(p, c, pkg, cycle) == p < pkg \/ (p = pkg /\ c < Months(cycle))

\* Mutant: only the packages are compared.
LowerPackage(p, c) == listing.active /\ p < listing.pkg

IsDowngrade(p, c) == listing.active /\ Cheaper(p, c, listing.pkg, listing.cycle)

\* Mutant: the selection is saved before the seller is sent to Stripe.
OfferedAndSelected(s, p, c) ==
  /\ stripe' = [stripe EXCEPT ![s] = [Unused EXCEPT !.status = "offered", !.bought = p,
                                        !.term = c, !.pkg = p, !.cycle = c]]
  /\ listing' = [listing EXCEPT !.pkg = p, !.cycle = c]

Offered(s, p, c) ==
  /\ stripe' = [stripe EXCEPT ![s] = [Unused EXCEPT !.status = "offered", !.bought = p,
                                        !.term = c, !.pkg = p, !.cycle = c]]
  /\ UNCHANGED listing

AllRecorded ==
  /\ \A s \in Subs : stripe[s].status # "offered"
  /\ \A i \in DOMAIN events : events[i].type # "checkout"

CreatePackageCheckout(s, p, c) ==
  /\ stripe[s].status = "unused"
  /\ AllRecorded \/ "tabs" \in Requests
  /\ p # Minimum
  /\ ~IsDowngrade(p, c)
  /\ Offered(s, p, c)
  /\ UNCHANGED <<now, events, spent>>

(* The free package needs no payment.                                           *)
ChooseMinimum ==
  /\ Asks("free")
  /\ ~IsDowngrade(Minimum, 1)
  /\ listing' = [listing EXCEPT !.pkg = Minimum, !.cycle = NoCycle, !.active = TRUE,
                                !.expires = NoDate, !.endsAt = NoDate]
  /\ UNCHANGED <<stripe, events>>

(* The form writes the package and the cycle it carries, and asks for nothing.  *)
Update(p, c) ==
  /\ Asks(IF listing.active THEN "edit" ELSE "select")
  /\ listing' = [listing EXCEPT !.pkg = p, !.cycle = c]
  /\ UNCHANGED <<stripe, events>>

(* A request on the listing's subscription: Stripe's state after each call, then*)
(* the listing.  A call Stripe refuses fails the request and changes nothing.   *)
Amends(accepted, states, written) ==
  LET s == listing.sub
      Reaches(sub) == /\ stripe' = [stripe EXCEPT ![s] = sub]
                      /\ events' = Append(events, EventOf("updated", s, sub))
  IN \/ /\ s = NoSub
        /\ listing' = written
        /\ UNCHANGED <<stripe, events>>
     \/ /\ s # NoSub /\ accepted
        /\ Reaches(states[Len(states)])
        /\ listing' = written
     \/ /\ "cut" \in Faults
        /\ s # NoSub /\ accepted
        /\ \E k \in DOMAIN states : Reaches(states[k])
        /\ UNCHANGED listing

(* The listing's subscription, and whether Stripe still lets it be changed.     *)
Current == stripe[listing.sub]
Changeable == listing.sub # NoSub /\ Held(listing.sub)

CancelSubscription(sub) == <<Released(sub), [Released(sub) EXCEPT !.renews = FALSE]>>

\* Mutant: the schedule is attached, and never given the next price.
ScheduleAttached(sub, p, c) ==
  <<[sub EXCEPT !.renews = TRUE],
    [sub EXCEPT !.renews = TRUE, !.next = sub.pkg, !.nextCycle = sub.cycle]>>

(* It renews; a schedule is attached, repeating the price; the price is set.    *)
ScheduleNextPeriod(sub, p, c) ==
  LET attached == IF Scheduled(sub) THEN sub
                  ELSE [sub EXCEPT !.renews = TRUE, !.next = sub.pkg,
                                   !.nextCycle = sub.cycle]
  IN <<[sub EXCEPT !.renews = TRUE], attached,
       [attached EXCEPT !.next = p, !.nextCycle = c]>>

ClearScheduledChange(sub) == <<Released(sub), [Released(sub) EXCEPT !.renews = TRUE]>>

EndOfCycle == now + Months(listing.cycle)

EffectiveAt == IF listing.expires # NoDate THEN listing.expires ELSE EndOfCycle

Downgrade(p, c) ==
  /\ Asks(IF listing.endsAt = NoDate THEN "downgrade" ELSE "downgradeCancelled")
  /\ IsDowngrade(p, c)
  /\ Amends(Changeable,
       IF p = Minimum THEN CancelSubscription(Current) ELSE ScheduleNextPeriod(Current, p, c),
       [listing EXCEPT !.pending = p,
                       !.pendingCycle = IF p = Minimum THEN NoCycle ELSE c,
                       !.changeAt = EffectiveAt])

NothingQueued(l) ==
  [l EXCEPT !.pending = NoPackage, !.pendingCycle = NoCycle, !.changeAt = NoDate]

(* On a subscription that is over there is no schedule to release, and only a   *)
(* cancellation left on it is refused.                                          *)
CancelScheduledPackageChange ==
  /\ Asks("keep")
  /\ listing.pending # NoPackage
  /\ Amends(listing.sub # NoSub /\ (Held(listing.sub) \/ Current.renews),
            ClearScheduledChange(Current), NothingQueued(listing))

Ending(l, date) == [NothingQueued(l) EXCEPT !.endsAt = date]

CancelPackage ==
  /\ Asks("cancel")
  /\ listing.active /\ listing.pkg # Minimum /\ listing.endsAt = NoDate
  /\ Amends(Changeable, CancelSubscription(Current),
            Ending(listing, IF listing.sub # NoSub THEN Current.end ELSE EffectiveAt))

(* A subscription a schedule controls is not resumed: Stripe refuses.           *)
ReactivatePackage ==
  /\ Asks("reactivate")
  /\ listing.endsAt > now
  /\ Amends(Changeable /\ ~Scheduled(Current), <<[Current EXCEPT !.renews = TRUE]>>,
            [listing EXCEPT !.endsAt = NoDate])

(* The queued package becomes the package.                                      *)
Settle(l) ==
  [NothingQueued(l) EXCEPT
     !.pkg = l.pending, !.active = (l.pending # Minimum),
     !.cycle = IF l.pending = Minimum THEN NoCycle ELSE l.pendingCycle]

\* Mutant: nothing need be queued.
DateHasCome == listing.changeAt <= now

ChangeIsDue == listing.pending # NoPackage /\ listing.changeAt <= now

(* Reading the state applies what is due.                                       *)
GetPackageState ==
  /\ "look" \in Requests
  /\ ChangeIsDue
  /\ listing' = Settle(listing)
  /\ UNCHANGED <<now, stripe, events, spent>>

--------------------------------------------------------------------------------
(* Marked sold by the team: the subscription is stopped at once, failures of    *)
(* that being logged, and the listing forgets it.                               *)

Sold(l) == [l EXCEPT !.sold = TRUE, !.active = FALSE, !.cycle = NoCycle, !.sub = NoSub]

\* Mutant: only a subscription that is paid up is stopped.
StopsPaidUp(s) == s # NoSub /\ stripe[s].status = "active"

Stops(s) == s # NoSub /\ Held(s)

MarkSold ==
  LET s == listing.sub
      stopped == /\ stripe' = [stripe EXCEPT ![s] = Stopped(stripe[s])]
                 /\ events' = Append(events, EventOf("deleted", s, stripe[s]))
  IN /\ Asks("sold")
     /\ \/ Stops(s) /\ stopped /\ listing' = Sold(listing)
        \/ /\ ~Stops(s) \/ "cut" \in Faults
           /\ listing' = Sold(listing)
           /\ UNCHANGED <<stripe, events>>
        \/ /\ "cut" \in Faults
           /\ Stops(s) /\ stopped
           /\ UNCHANGED listing

--------------------------------------------------------------------------------
(* A paid checkout is recorded, by the webhook or by the success page, leaving  *)
(* the events in rest: the package starts, the subscription it replaces stops.  *)

\* Mutant: a listing that has a package keeps its subscription's id.
ActivatedUnlinked(l, s, expires) ==
  [NothingQueued(l) EXCEPT
     !.pkg = stripe[s].bought, !.cycle = stripe[s].term, !.active = TRUE,
     !.expires = expires, !.sub = IF l.active THEN @ ELSE s, !.endsAt = NoDate,
     !.sold = FALSE]

Activated(l, s, expires) ==
  [NothingQueued(l) EXCEPT
     !.pkg = stripe[s].bought, !.cycle = stripe[s].term, !.active = TRUE,
     !.expires = expires, !.sub = s, !.endsAt = NoDate, !.sold = FALSE]

\* Mutant: only a subscription that is paid up is stopped.
ReplacesPaidUp(old, s) == old # NoSub /\ old # s /\ stripe[old].status = "active"

Replaces(old, s) == old # NoSub /\ old # s /\ Held(old)

ApplyFromSession(s, rest) ==
  LET old == listing.sub
  IN /\ \E expires \in {stripe[s].end} \cup (IF "cut" \in Faults THEN {NoDate} ELSE {}) :
          listing' = Activated(listing, s, expires)
     /\ \/ /\ Replaces(old, s)
           /\ stripe' = [stripe EXCEPT ![old] = Stopped(@)]
           /\ events' = Append(rest, EventOf("deleted", old, stripe[old]))
        \/ /\ ~Replaces(old, s) \/ "cut" \in Faults
           /\ events' = rest
           /\ UNCHANGED stripe

IsSettled(s) == Paid(s)

SyncCheckoutSession(s) ==
  /\ Asks("confirm")
  /\ IsSettled(s)
  /\ ApplyFromSession(s, events)

(* A queued package starts with the period Stripe bills it for; Minimum has no  *)
(* such period, its subscription ends.                                          *)
Renewed(l, e) ==
  IF l.pending \in Packages \ {Minimum} /\ e.start >= l.changeAt
  THEN [Settle(l) EXCEPT !.expires = e.end]
  ELSE [l EXCEPT !.expires = e.end]

\* Mutant: the package goes on when its subscription has ended.
CountdownCleared(l) == [NothingQueued(l) EXCEPT !.endsAt = NoDate]

Deactivated(l) == [NothingQueued(l) EXCEPT !.active = FALSE, !.endsAt = NoDate]

RecordListingRenewal(e) ==
  /\ e.type = "updated"
  /\ listing' = IF listing.sub = e.sub THEN Renewed(listing, e) ELSE listing

DeactivateListingPackage(e) ==
  /\ e.type = "deleted"
  /\ listing' = IF listing.sub = e.sub THEN Deactivated(listing) ELSE listing

Deliver(i) ==
  /\ i = 1 \/ "reorder" \in Faults
  /\ \E rest \in {RemoveAt(events, i)} \cup (IF "duplicate" \in Faults THEN {events} ELSE {}) :
       \/ events[i].type = "checkout" /\ ApplyFromSession(events[i].sub, rest)
       \/ /\ RecordListingRenewal(events[i]) \/ DeactivateListingPackage(events[i])
          /\ events' = rest
          /\ UNCHANGED stripe
  /\ UNCHANGED <<now, spent>>

Lose(i) ==
  /\ "lose" \in Faults
  /\ events' = RemoveAt(events, i)
  /\ UNCHANGED <<now, stripe, listing, spent>>

--------------------------------------------------------------------------------
Stripe ==
  \/ Tick
  \/ \E s \in Subs : \/ Pay(s) \/ Renew(s) \/ Decline(s)
                     \/ Recover(s) \/ GiveUp(s) \/ Lapse(s)

Seller ==
  \/ \E s \in Subs, p \in Packages, c \in Cycles : CreatePackageCheckout(s, p, c)
  \/ ChooseMinimum
  \/ \E p \in Packages, c \in Cycles \cup {NoCycle} : Update(p, c)
  \/ \E p \in Packages, c \in Cycles : Downgrade(p, c)
  \/ CancelScheduledPackageChange
  \/ CancelPackage
  \/ ReactivatePackage
  \/ GetPackageState
  \/ \E s \in Subs : SyncCheckoutSession(s)

Webhook == \E i \in DOMAIN events : Deliver(i) \/ Lose(i)

Next == Stripe \/ Seller \/ MarkSold \/ Webhook

Spec == Init /\ [][Next]_vars

(* Stripe delivers its events until they are accepted and settles what is due.  *)
Fairness ==
  /\ WF_vars(events # <<>> /\ Deliver(1))
  /\ \A s \in Subs : WF_vars(Lapse(s)) /\ WF_vars(Renew(s))

FairSpec == Spec /\ Fairness

--------------------------------------------------------------------------------
Null == <<Minimum, NoCycle>>

(* listing.service.ts:352-357: paying more "is charged and takes effect at      *)
(* once". So the package switched on was paid for: it is never dearer than one  *)
(* of the checkouts that went through.                                          *)
PackageWasPaidFor ==
  listing.active /\ listing.pkg # Minimum =>
    \E s \in Subs : Paid(s) /\ listing.pkg <= stripe[s].bought

(* Each checkout as an order, what it is for, and what follows from it.         *)
Life == [s \in Subs |->
  CASE stripe[s].status = "unused" -> "none"
    [] stripe[s].status = "offered" -> "open"
    [] stripe[s].status = "canceled" -> "over"
    [] OTHER -> "paid"]

Ordered == [s \in Subs |-> 1..stripe[s].bought]
Granted == IF listing.active THEN 1..listing.pkg ELSE {}
Billed == UNION {1..stripe[s].pkg \cup (IF Scheduled(stripe[s]) THEN 1..stripe[s].next ELSE {}) :
                   s \in {t \in Subs : Held(t)}}

Sale == INSTANCE Purchase WITH Orders <- Subs, Goods <- Packages \ {Minimum}, life <- Life,
                               order <- Ordered, held <- Granted, billed <- Billed

(* Packages are sold as every purchase is promised to be, where the form edits  *)
(* none that is switched on: what is switched on, and what Stripe bills now or  *)
(* has scheduled, is part of an order that was paid for, and an order neither   *)
(* changes nor comes back.                                                      *)
SoldAsOrdered == Sale!Spec

(* What Stripe bills is what the listing has: one subscription, the one the     *)
(* listing knows, at the package and the cycle that are switched on.            *)
BilledIsHeld ==
  Quiet => \A s \in Subs : Held(s) =>
    /\ listing.sub = s /\ listing.active
    /\ <<listing.pkg, listing.cycle>> = <<stripe[s].pkg, stripe[s].cycle>>

(* A paid package that is switched on is one somebody pays for: it ends with    *)
(* its subscription, however that ended.                                        *)
HeldIsBilled ==
  Quiet /\ listing.active /\ listing.pkg # Minimum =>
    listing.sub # NoSub /\ Held(listing.sub)

(* Stripe and the listing agree on what is had now: nothing is billed that the  *)
(* listing has not, and nothing had that is not billed.  Replacing a package    *)
(* stops the old one, a downgrade changes the price of both, and a package ends *)
(* with its subscription.                                                       *)
BillingAgrees == BilledIsHeld /\ HeldIsBilled

(* What the seller's page says the next period will be, and what Stripe bills.  *)
NextByListing ==
  CASE ~listing.active \/ listing.endsAt # NoDate -> Null
    [] listing.active /\ listing.endsAt = NoDate /\ listing.pending # NoPackage ->
         <<listing.pending, listing.pendingCycle>>
    [] OTHER -> <<listing.pkg, listing.cycle>>

NextByStripe ==
  LET sub == stripe[listing.sub]
  IN CASE ~sub.renews -> Null
       [] sub.renews /\ Scheduled(sub) -> <<sub.next, sub.nextCycle>>
       [] OTHER -> <<sub.pkg, sub.cycle>>

(* Both sides agree on what follows the period being paid for: a downgrade, its *)
(* withdrawal, a cancellation and a reactivation reach Stripe and the listing   *)
(* alike, and a downgrade waits for the end of the very period paid for.        *)
NextPeriodAgrees ==
  Quiet /\ listing.sub # NoSub /\ Held(listing.sub) =>
    /\ NextByListing = NextByStripe
    /\ listing.pending # NoPackage => listing.changeAt = stripe[listing.sub].end

(* A package in force is exchanged for a cheaper one, or a shorter cycle, only  *)
(* by a downgrade that was queued and has come due: paying less waits.          *)
PayingLessWaits ==
  [][listing.active /\ listing'.active
       /\ Cheaper(listing'.pkg, Months(listing'.cycle), listing.pkg, listing.cycle) =>
       listing.pending = listing'.pkg /\ listing.changeAt <= now]_vars

(* The seller of a listing that is sold is no longer billed for it.             *)
SoldIsNotBilled == Quiet /\ listing.sold => \A s \in Subs : ~Held(s)

(* A payment switches its package on, unless the subscription ends first or     *)
(* another one is recorded in its place.                                        *)
PaymentSwitchesOn ==
  \A s \in Subs : Paid(s) ~> (listing.sub = s \/ ~Held(s))

(* A package whose subscription has ended does not stay switched on.            *)
EndSwitchesOff ==
  \A s \in Subs : (stripe[s].status = "canceled" /\ listing.sub = s)
                    ~> (listing.sub # s \/ ~listing.active)
================================================================================
