------------------------- MODULE ListingPackageProofs --------------------------
(* For any number of subscriptions and requests, any cycles and every fault:  *)
(* the variables keep their types, and where the form edits no package that   *)
(* is switched on, the package that is switched on was paid for.              *)
(*                                                                            *)
(* PackageWasPaidFor is not inductive: a queued package becomes the package   *)
(* later, and the webhook hears of a checkout long after it was paid.  So     *)
(* what is queued must be backed by a payment too, and every checkout still   *)
(* to be delivered must be one that went through.                             *)
(*                                                                            *)
(* Three more invariants hold in smaller worlds, with the faults and requests *)
(* left out that break the property: SaleInv follows what is billed and not   *)
(* yet recorded, LessInv the checkouts still open, and AgreeInv what the      *)
(* listing knows of its subscription and what the queue has yet to tell it.   *)
(*                                                                            *)
(* Last, the refinement: under every fault packages are sold as Purchase      *)
(* promises.  What Stripe bills and has scheduled must be backed too          *)
(* (BillInv).                                                                 *)
EXTENDS ListingPackage, QueueLemmas

PaidIn(held, s) == held[s].status \notin {"unused", "offered"}

(* Package p is free, or no dearer than one that was paid for.  Nothing is    *)
(* claimed where the form edits a package that is switched on.                *)
Backed(p, held) ==
  \/ "edit" \in Requests
  \/ p = Minimum
  \/ \E s \in Subs : PaidIn(held, s) /\ p <= held[s].bought

ListingBacked(l, held) ==
  /\ l.active => Backed(l.pkg, held)
  /\ l.pending # NoPackage => Backed(l.pending, held)

EventBacked(e, held) == e.type = "checkout" => PaidIn(held, e.sub)

(* A queue of events, and the checkouts among them paid for.                  *)
QueueBacked(queue, held) ==
  /\ queue \in Seq(Event)
  /\ \A i \in DOMAIN queue : EventBacked(queue[i], held)

(* The inductive invariant.                                                   *)
IInv == TypeOK /\ ListingBacked(listing, stripe) /\ QueueBacked(events, stripe)

(* No step takes a payment back.                                              *)
Keeps(before, after) ==
  \A s \in Subs : PaidIn(before, s) =>
    PaidIn(after, s) /\ after[s].bought = before[s].bought

(* sub2 is what a call or a new period makes of sub.                          *)
SameSale(sub, sub2) ==
  /\ sub2 \in Subscription
  /\ sub2.bought = sub.bought
  /\ sub2.status = sub.status

--------------------------------------------------------------------------------
(* What was backed stays backed.                                              *)
LEMMA ListingKept ==
  ASSUME NEW before, NEW after, Keeps(before, after), NEW l, ListingBacked(l, before)
  PROVE  ListingBacked(l, after)
  BY DEF Keeps, Backed, ListingBacked

(* The events on their way stay backed while no payment is taken back.        *)
LEMMA QueueKept ==
  ASSUME NEW before, NEW after, Keeps(before, after), NEW queue, QueueBacked(queue, before)
  PROVE  QueueBacked(queue, after)
<1>1. \A i \in DOMAIN queue : queue[i] \in Event
  BY ElementOfSeq DEF QueueBacked
<1>2. \A i \in DOMAIN queue : queue[i].sub \in Subs
  BY <1>1 DEF Event
<1>3. QED
  BY <1>2 DEF QueueBacked, EventBacked, Keeps

(* A queue with one backed event more stays typed and backed.                 *)
LEMMA QueueAppended ==
  ASSUME NEW held, NEW queue, QueueBacked(queue, held), NEW e \in Event,
         EventBacked(e, held)
  PROVE  QueueBacked(Append(queue, e), held)
  BY Appended DEF QueueBacked

(* A queue with one event fewer stays typed and backed.                       *)
LEMMA QueueShortened ==
  ASSUME NEW held, NEW queue, QueueBacked(queue, held), NEW i \in DOMAIN queue
  PROVE  QueueBacked(RemoveAt(queue, i), held)
<1>1. queue \in Seq(Event) /\ \A j \in DOMAIN queue : EventBacked(queue[j], held)
  BY DEF QueueBacked
<1>2. QED
  BY <1>1, Removed DEF QueueBacked

(* What an event says of a subscription is an event.                          *)
LEMMA EventTyped ==
  ASSUME NEW type \in {"checkout", "updated", "deleted"}, NEW s \in Subs,
         NEW sub \in Subscription
  PROVE  /\ EventOf(type, s, sub) \in Event
         /\ EventOf(type, s, sub).type = type
         /\ EventOf(type, s, sub).sub = s
  BY DEF EventOf, Event, Subscription

(* Cycles, and the absence of one, are numbers of periods.                    *)
LEMMA CyclesAreNumbers ==
  /\ Cycles \cup {NoCycle} \subseteq Nat
  /\ NoCycle \in Cycles \cup {NoCycle}
  BY ListingPackageAssumption DEF NoCycle

--------------------------------------------------------------------------------
(* What Stripe's own moves and the calls of the backend make of a             *)
(* subscription.                                                              *)

(* Releasing a schedule does not touch what was sold.                         *)
LEMMA ReleasedSale ==
  ASSUME NEW sub \in Subscription
  PROVE  SameSale(sub, Released(sub))
  BY CyclesAreNumbers DEF Released, SameSale, Subscription

(* A stopped subscription is still the one that was bought.                   *)
LEMMA StoppedSale ==
  ASSUME NEW sub \in Subscription
  PROVE  /\ Stopped(sub) \in Subscription
         /\ Stopped(sub).status = "canceled"
         /\ Stopped(sub).bought = sub.bought
  BY CyclesAreNumbers DEF Released, Stopped, Subscription

(* Renewing or not does not touch what was sold.                              *)
LEMMA RenewingSale ==
  ASSUME NEW sub \in Subscription, NEW renews \in BOOLEAN
  PROVE  SameSale(sub, [sub EXCEPT !.renews = renews])
  BY DEF SameSale, Subscription

(* A new period, at a scheduled price or not, does not touch what was sold.   *)
LEMMA NextPeriodSale ==
  ASSUME NEW sub \in Subscription
  PROVE  SameSale(sub, NextPeriod(sub))
<1> DEFINE priced == IF Scheduled(sub)
                     THEN [Released(sub) EXCEPT !.pkg = sub.next, !.cycle = sub.nextCycle]
                     ELSE sub
<1>1. SameSale(sub, priced)
  BY CyclesAreNumbers DEF Released, Scheduled, SameSale, Subscription
<1>2. priced.cycle \in Nat /\ sub.end \in Nat
  BY <1>1, CyclesAreNumbers DEF SameSale, Subscription
<1> DEFINE end == sub.end + priced.cycle
<1>3. end \in Nat
  BY <1>2
<1>4. NextPeriod(sub) = [priced EXCEPT !.start = sub.end, !.end = end]
  BY DEF NextPeriod
<1> HIDE DEF priced, end
<1>5. QED
  BY <1>1, <1>2, <1>3, <1>4 DEF SameSale, Subscription

(* Of two calls, each is the first or the second.                             *)
LEMMA TwoCalls ==
  ASSUME NEW a, NEW b, NEW k \in DOMAIN <<a, b>>
  PROVE  <<a, b>>[k] \in {a, b}
  OBVIOUS

(* Of three calls, each is the first, the second or the third.                *)
LEMMA ThreeCalls ==
  ASSUME NEW a, NEW b, NEW c, NEW k \in DOMAIN <<a, b, c>>
  PROVE  <<a, b, c>>[k] \in {a, b, c}
  OBVIOUS

(* The calls of a cancellation leave the sale as it is.                       *)
LEMMA CancelSale ==
  ASSUME NEW sub \in Subscription, NEW k \in DOMAIN CancelSubscription(sub)
  PROVE  SameSale(sub, CancelSubscription(sub)[k])
<1>1. SameSale(sub, Released(sub))
  BY ReleasedSale
<1>2. SameSale(sub, [Released(sub) EXCEPT !.renews = FALSE])
  BY <1>1 DEF SameSale, Subscription
<1> DEFINE last == [Released(sub) EXCEPT !.renews = FALSE]
<1>3. CancelSubscription(sub) = <<Released(sub), last>>
  BY DEF CancelSubscription
<1>4. SameSale(sub, last)
  BY <1>2
<1> HIDE DEF last
<1>5. k \in DOMAIN <<Released(sub), last>>
  BY <1>3
<1>6. <<Released(sub), last>>[k] \in {Released(sub), last}
  BY <1>5, TwoCalls
<1>7. QED
  BY <1>1, <1>3, <1>4, <1>6

(* The calls that withdraw a schedule leave the sale as it is.                *)
LEMMA ClearSale ==
  ASSUME NEW sub \in Subscription, NEW k \in DOMAIN ClearScheduledChange(sub)
  PROVE  SameSale(sub, ClearScheduledChange(sub)[k])
<1>1. SameSale(sub, Released(sub))
  BY ReleasedSale
<1>2. SameSale(sub, [Released(sub) EXCEPT !.renews = TRUE])
  BY <1>1 DEF SameSale, Subscription
<1> DEFINE last == [Released(sub) EXCEPT !.renews = TRUE]
<1>3. ClearScheduledChange(sub) = <<Released(sub), last>>
  BY DEF ClearScheduledChange
<1>4. SameSale(sub, last)
  BY <1>2
<1> HIDE DEF last
<1>5. k \in DOMAIN <<Released(sub), last>>
  BY <1>3
<1>6. <<Released(sub), last>>[k] \in {Released(sub), last}
  BY <1>5, TwoCalls
<1>7. QED
  BY <1>1, <1>3, <1>4, <1>6

(* The calls that schedule a next period leave the sale as it is.             *)
LEMMA ScheduleSale ==
  ASSUME NEW sub \in Subscription, NEW p \in Packages, NEW c \in Cycles,
         NEW k \in DOMAIN ScheduleNextPeriod(sub, p, c)
  PROVE  SameSale(sub, ScheduleNextPeriod(sub, p, c)[k])
<1> DEFINE attached == IF Scheduled(sub) THEN sub
                       ELSE [sub EXCEPT !.renews = TRUE, !.next = sub.pkg,
                                        !.nextCycle = sub.cycle]
<1>1. SameSale(sub, [sub EXCEPT !.renews = TRUE])
  BY RenewingSale
<1>2. SameSale(sub, attached)
  BY DEF SameSale, Subscription
<1>3. ScheduleNextPeriod(sub, p, c) =
        <<[sub EXCEPT !.renews = TRUE], attached,
          [attached EXCEPT !.next = p, !.nextCycle = c]>>
  BY DEF ScheduleNextPeriod
<1> HIDE DEF attached
<1>4. SameSale(sub, [attached EXCEPT !.next = p, !.nextCycle = c])
  BY <1>2 DEF SameSale, Subscription
<1> DEFINE first == [sub EXCEPT !.renews = TRUE]
           last == [attached EXCEPT !.next = p, !.nextCycle = c]
<1>5. /\ ScheduleNextPeriod(sub, p, c) = <<first, attached, last>>
      /\ SameSale(sub, first) /\ SameSale(sub, last)
  BY <1>1, <1>3, <1>4
<1> HIDE DEF first, last
<1>6. k \in DOMAIN <<first, attached, last>>
  BY <1>5
<1>7. <<first, attached, last>>[k] \in {first, attached, last}
  BY <1>6, ThreeCalls
<1>8. QED
  BY <1>2, <1>5, <1>7

(* Changing one subscription takes no payment back.                           *)
LEMMA OneChanged ==
  ASSUME NEW held \in [Subs -> Subscription], NEW s \in Subs, NEW sub2 \in Subscription,
         PaidIn(held, s) => /\ sub2.status \notin {"unused", "offered"}
                            /\ sub2.bought = held[s].bought
  PROVE  /\ [held EXCEPT ![s] = sub2] \in [Subs -> Subscription]
         /\ Keeps(held, [held EXCEPT ![s] = sub2])
         /\ [held EXCEPT ![s] = sub2][s] = sub2
<1>1. [held EXCEPT ![s] = sub2] \in [Subs -> Subscription]
  OBVIOUS
<1>2. \A t \in Subs : [held EXCEPT ![s] = sub2][t] = IF t = s THEN sub2 ELSE held[t]
  OBVIOUS
<1> DEFINE after == [held EXCEPT ![s] = sub2]
<1>3. \A t \in Subs : after[t] = IF t = s THEN sub2 ELSE held[t]
  BY <1>2
<1>4. after \in [Subs -> Subscription]
  BY <1>1
<1> HIDE DEF after
<1>5. Keeps(held, after)
  BY <1>3 DEF Keeps, PaidIn
<1>6. QED
  BY <1>3, <1>4, <1>5 DEF after

--------------------------------------------------------------------------------
(* What the writes make of the listing.                                       *)

(* A listing without its queued change is backed as before.                   *)
LEMMA NothingQueuedListing ==
  ASSUME NEW held, NEW l \in Listing, ListingBacked(l, held)
  PROVE  NothingQueued(l) \in Listing /\ ListingBacked(NothingQueued(l), held)
  BY CyclesAreNumbers
     DEF NothingQueued, ListingBacked, Listing, NoPackage, NoCycle, NoDate

(* Applying a change that is due moves a backed package into place.           *)
LEMMA SettledListing ==
  ASSUME NEW held, NEW l \in Listing, ListingBacked(l, held), l.pending # NoPackage
  PROVE  Settle(l) \in Listing /\ ListingBacked(Settle(l), held)
<1> DEFINE pkg == l.pending
           active == l.pending # Minimum
           cycle == IF l.pending = Minimum THEN NoCycle ELSE l.pendingCycle
<1>1. pkg \in Packages /\ active \in BOOLEAN /\ cycle \in Cycles \cup {NoCycle}
  BY CyclesAreNumbers DEF Listing, NoPackage
<1>2. Backed(pkg, held)
  BY DEF ListingBacked
<1>3. Settle(l) = [NothingQueued(l) EXCEPT !.pkg = pkg, !.active = active, !.cycle = cycle]
  BY DEF Settle
<1>4. NothingQueued(l) \in Listing /\ NothingQueued(l).pending = NoPackage
  BY NothingQueuedListing DEF NothingQueued, Listing
<1> HIDE DEF pkg, active, cycle
<1>5. QED
  BY <1>1, <1>2, <1>3, <1>4 DEF ListingBacked, Listing

(* A sold listing has no package to back.                                     *)
LEMMA SoldListing ==
  ASSUME NEW held, NEW l \in Listing, ListingBacked(l, held)
  PROVE  Sold(l) \in Listing /\ ListingBacked(Sold(l), held)
  BY CyclesAreNumbers DEF Sold, ListingBacked, Listing

(* A listing whose package will end is backed as before.                      *)
LEMMA EndingListing ==
  ASSUME NEW held, NEW l \in Listing, ListingBacked(l, held), NEW date \in Nat
  PROVE  Ending(l, date) \in Listing /\ ListingBacked(Ending(l, date), held)
<1>1. NothingQueued(l) \in Listing /\ ListingBacked(NothingQueued(l), held)
  BY NothingQueuedListing
<1>2. QED
  BY <1>1 DEF Ending, ListingBacked, Listing

(* A listing without package needs no payment.                                *)
LEMMA DeactivatedListing ==
  ASSUME NEW held, NEW l \in Listing, ListingBacked(l, held)
  PROVE  Deactivated(l) \in Listing /\ ListingBacked(Deactivated(l), held)
<1>1. NothingQueued(l) \in Listing /\ ListingBacked(NothingQueued(l), held)
  BY NothingQueuedListing
<1>2. QED
  BY <1>1 DEF Deactivated, ListingBacked, Listing, NoDate

(* A recorded renewal applies a backed change or none.                        *)
LEMMA RenewedListing ==
  ASSUME NEW held, NEW l \in Listing, ListingBacked(l, held), NEW e \in Event
  PROVE  Renewed(l, e) \in Listing /\ ListingBacked(Renewed(l, e), held)
<1>1. e.end \in Nat
  BY DEF Event
<1>2. [l EXCEPT !.expires = e.end] \in Listing
      /\ ListingBacked([l EXCEPT !.expires = e.end], held)
  BY <1>1 DEF ListingBacked, Listing
<1>3. CASE l.pending \in Packages \ {Minimum}
  <2>1. l.pending # NoPackage
    BY <1>3 DEF Packages, NoPackage
  <2>2. Settle(l) \in Listing /\ ListingBacked(Settle(l), held)
    BY <2>1, SettledListing
  <2>3. [Settle(l) EXCEPT !.expires = e.end] \in Listing
        /\ ListingBacked([Settle(l) EXCEPT !.expires = e.end], held)
    BY <1>1, <2>2 DEF ListingBacked, Listing
  <2>4. QED
    BY <1>2, <2>3 DEF Renewed
<1>4. CASE l.pending \notin Packages \ {Minimum}
  BY <1>2, <1>4 DEF Renewed
<1>5. QED
  BY <1>3, <1>4

(* A recorded checkout is backed by its own payment.                          *)
LEMMA ActivatedListing ==
  ASSUME IInv, NEW s \in Subs, PaidIn(stripe, s), NEW expires \in Nat
  PROVE  /\ Activated(listing, s, expires) \in Listing
         /\ ListingBacked(Activated(listing, s, expires), stripe)
<1> DEFINE l == NothingQueued(listing)
           pkg == stripe[s].bought
           cycle == stripe[s].term
<1>1. listing \in Listing /\ ListingBacked(listing, stripe)
  BY DEF IInv, TypeOK
<1>2. l \in Listing /\ l.pending = NoPackage
  BY <1>1, NothingQueuedListing DEF NothingQueued, Listing
<1>3. pkg \in Packages /\ cycle \in Cycles \cup {NoCycle}
  BY DEF IInv, TypeOK, Subscription
<1>4. Backed(pkg, stripe)
  <2>1. pkg \in Nat
    BY <1>3 DEF Packages
  <2>2. pkg <= stripe[s].bought
    BY <2>1
  <2>3. QED
    BY <2>2 DEF Backed
<1>5. Activated(listing, s, expires) =
        [l EXCEPT !.pkg = pkg, !.cycle = cycle, !.active = TRUE,
                  !.expires = expires, !.sub = s, !.endsAt = NoDate, !.sold = FALSE]
  BY DEF Activated
<1> HIDE DEF l, pkg, cycle
<1> DEFINE after == [l EXCEPT !.pkg = pkg, !.cycle = cycle, !.active = TRUE,
                              !.expires = expires, !.sub = s, !.endsAt = 0, !.sold = FALSE]
<1>6. after \in Listing
  BY <1>2, <1>3 DEF Listing
<1>7. after.pkg = pkg /\ after.pending = NoPackage
  BY <1>2 DEF Listing
<1>8. after = Activated(listing, s, expires)
  BY <1>5 DEF NoDate
<1> HIDE DEF after
<1>9. ListingBacked(after, stripe)
  BY <1>4, <1>7 DEF ListingBacked
<1>10. QED
  BY <1>6, <1>8, <1>9

--------------------------------------------------------------------------------
(* The steps.                                                                 *)

(* The parts of the invariant in the next state make the invariant.           *)
LEMMA Assembled ==
  ASSUME IInv,
         now' \in 1..Horizon, spent' \in 0..MaxRequests,
         stripe' \in [Subs -> Subscription], Keeps(stripe, stripe'),
         listing' \in Listing, ListingBacked(listing', stripe'),
         QueueBacked(events', stripe')
  PROVE  IInv'
  BY DEF IInv, TypeOK, QueueBacked

(* Nothing taken back where nothing happens.                                  *)
LEMMA KeepsItself == ASSUME NEW held PROVE Keeps(held, held)
  BY DEF Keeps

(* Nothing but the listing changes.                                           *)
LEMMA OnlyListing ==
  ASSUME IInv, UNCHANGED <<now, stripe, events>>, spent' \in 0..MaxRequests,
         listing' \in Listing, ListingBacked(listing', stripe)
  PROVE  IInv'
  BY KeepsItself, Assembled DEF IInv, TypeOK

(* A subscription changes and an event says so.                               *)
LEMMA Announced ==
  ASSUME IInv, NEW STATE type, type \in {"checkout", "updated", "deleted"},
         NEW STATE s, s \in Subs, NEW STATE sub, sub \in Subscription,
         PaidIn(stripe, s) => /\ sub.status \notin {"unused", "offered"}
                              /\ sub.bought = stripe[s].bought,
         type = "checkout" => sub.status \notin {"unused", "offered"},
         stripe' = [stripe EXCEPT ![s] = sub],
         NEW STATE queue, QueueBacked(queue, stripe),
         NEW STATE told, told \in Subscription,
         events' = Append(queue, EventOf(type, s, told))
  PROVE  /\ stripe' \in [Subs -> Subscription]
         /\ Keeps(stripe, stripe')
         /\ QueueBacked(events', stripe')
<1>1. stripe \in [Subs -> Subscription]
  BY DEF IInv, TypeOK
<1>2. stripe' \in [Subs -> Subscription] /\ Keeps(stripe, stripe') /\ stripe'[s] = sub
  BY <1>1, OneChanged
<1>3. QueueBacked(queue, stripe')
  BY <1>2, QueueKept
<1> DEFINE e == EventOf(type, s, told)
<1>4. e \in Event /\ e.type = type /\ e.sub = s
  BY EventTyped
<1> HIDE DEF e
<1>5. EventBacked(e, stripe')
  BY <1>2, <1>4 DEF EventBacked, PaidIn
<1>6. QueueBacked(Append(queue, e), stripe')
  BY <1>3, <1>4, <1>5, QueueAppended
<1>7. QED
  BY <1>2, <1>6 DEF e

(* A change at Stripe together with its event keeps what was backed.          *)
LEMMA HappensKept ==
  ASSUME IInv, NEW type \in {"checkout", "updated", "deleted"}, NEW s \in Subs,
         NEW STATE sub, sub \in Subscription,
         PaidIn(stripe, s) => /\ sub.status \notin {"unused", "offered"}
                              /\ sub.bought = stripe[s].bought,
         type = "checkout" => sub.status \notin {"unused", "offered"},
         Happens(type, s, sub)
  PROVE  IInv'
<1>1. /\ stripe' = [stripe EXCEPT ![s] = sub]
      /\ events' = Append(events, EventOf(type, s, sub))
      /\ UNCHANGED <<now, listing, spent>>
  BY DEF Happens
<1>2. QueueBacked(events, stripe)
  BY DEF IInv
<1>3. /\ stripe' \in [Subs -> Subscription]
      /\ Keeps(stripe, stripe')
      /\ QueueBacked(events', stripe')
  BY <1>1, <1>2, Announced
<1>4. ListingBacked(listing, stripe')
  BY <1>3, ListingKept DEF IInv
<1>5. QED
  BY <1>1, <1>3, <1>4, Assembled DEF IInv, TypeOK

(* Stripe's own steps keep the inductive invariant.                           *)
LEMMA StripeStep == ASSUME IInv, Stripe PROVE IInv'
<1>0. /\ stripe \in [Subs -> Subscription]
      /\ \A s \in Subs : stripe[s] \in Subscription
      /\ now \in 1..Horizon
  BY DEF IInv, TypeOK
<1>1. ASSUME Tick PROVE IInv'
  <2>1. now' \in 1..Horizon /\ UNCHANGED <<stripe, events, listing, spent>>
    BY <1>0, <1>1, ListingPackageAssumption DEF Tick
  <2>2. QED
    BY <2>1, KeepsItself, Assembled DEF IInv, TypeOK
<1>2. ASSUME NEW s \in Subs, Pay(s) PROVE IInv'
  <2> DEFINE end == now + stripe[s].cycle
             sub == [stripe[s] EXCEPT !.status = "active", !.renews = TRUE,
                                      !.start = now, !.end = now + stripe[s].cycle]
  <2>1. end \in Nat /\ now \in Nat
    <3>1. stripe[s].cycle \in Cycles \cup {NoCycle}
      BY <1>0 DEF Subscription
    <3>2. stripe[s].cycle \in Nat /\ now \in Nat
      BY <1>0, <3>1, CyclesAreNumbers
    <3>3. QED
      BY <3>2
  <2>2. sub = [stripe[s] EXCEPT !.status = "active", !.renews = TRUE,
                                !.start = now, !.end = end]
    OBVIOUS
  <2>3. Happens("checkout", s, sub) /\ stripe[s].status = "offered"
    BY <1>2 DEF Pay
  <2> HIDE DEF sub, end
  <2>4. sub \in Subscription /\ sub.status = "active" /\ sub.bought = stripe[s].bought
    BY <1>0, <2>1, <2>2 DEF Subscription
  <2>5. QED
    BY <2>3, <2>4, HappensKept DEF PaidIn
<1>3. ASSUME NEW s \in Subs, Renew(s) PROVE IInv'
  <2>1. SameSale(stripe[s], NextPeriod(stripe[s]))
    BY <1>0, NextPeriodSale
  <2>2. stripe[s].status = "active" /\ Happens("updated", s, NextPeriod(stripe[s]))
    BY <1>3 DEF Renew
  <2>3. QED
    BY <2>1, <2>2, HappensKept DEF SameSale
<1>4. ASSUME NEW s \in Subs, Decline(s) PROVE IInv'
  <2> DEFINE sub == [NextPeriod(stripe[s]) EXCEPT !.status = "past_due"]
  <2>1. SameSale(stripe[s], NextPeriod(stripe[s]))
    BY <1>0, NextPeriodSale
  <2>2. sub \in Subscription /\ sub.status = "past_due" /\ sub.bought = stripe[s].bought
    BY <2>1 DEF SameSale, Subscription
  <2>3. Happens("updated", s, sub)
    BY <1>4 DEF Decline
  <2> HIDE DEF sub
  <2>4. QED
    BY <2>2, <2>3, HappensKept
<1>5. ASSUME NEW s \in Subs, Recover(s) PROVE IInv'
  <2> DEFINE sub == [stripe[s] EXCEPT !.status = "active"]
  <2>1. sub \in Subscription /\ sub.status = "active" /\ sub.bought = stripe[s].bought
    BY <1>0 DEF Subscription
  <2>2. Happens("updated", s, sub)
    BY <1>5 DEF Recover
  <2> HIDE DEF sub
  <2>3. QED
    BY <2>1, <2>2, HappensKept
<1>6. ASSUME NEW s \in Subs, GiveUp(s) \/ Lapse(s) PROVE IInv'
  <2>1. /\ Stopped(stripe[s]) \in Subscription
        /\ Stopped(stripe[s]).status = "canceled"
        /\ Stopped(stripe[s]).bought = stripe[s].bought
    BY <1>0, StoppedSale
  <2>2. Happens("deleted", s, Stopped(stripe[s]))
    BY <1>6 DEF GiveUp, Lapse
  <2>3. QED
    BY <2>1, <2>2, HappensKept
<1>7. QED
  BY <1>1, <1>2, <1>3, <1>4, <1>5, <1>6 DEF Stripe

(* A request that amends the listing's subscription.                          *)
LEMMA AmendsKept ==
  ASSUME IInv, NEW STATE accepted, NEW STATE states, NEW STATE written,
         listing.sub \in Subs =>
           /\ Len(states) \in DOMAIN states
           /\ \A k \in DOMAIN states : SameSale(Current, states[k]),
         written \in Listing, ListingBacked(written, stripe),
         now' = now, spent' \in 0..MaxRequests,
         Amends(accepted, states, written)
  PROVE  IInv'
<1>0. /\ listing \in Listing /\ ListingBacked(listing, stripe)
      /\ now \in 1..Horizon /\ QueueBacked(events, stripe)
      /\ stripe \in [Subs -> Subscription]
      /\ listing.sub \in Subs \cup {NoSub}
  BY DEF IInv, TypeOK, Listing
<1>1. CASE listing' = written /\ UNCHANGED <<stripe, events>>
  BY <1>1, OnlyListing
<1>2. ASSUME listing.sub # NoSub, NEW k \in DOMAIN states,
             stripe' = [stripe EXCEPT ![listing.sub] = states[k]],
             events' = Append(events, EventOf("updated", listing.sub, states[k])),
             listing' \in {written, listing}
      PROVE  IInv'
  <2>1. listing.sub \in Subs /\ SameSale(stripe[listing.sub], states[k])
    BY <1>0, <1>2 DEF Current
  <2>2. /\ stripe' \in [Subs -> Subscription]
        /\ Keeps(stripe, stripe')
        /\ QueueBacked(events', stripe')
    BY <1>0, <1>2, <2>1, Announced DEF SameSale, PaidIn
  <2>3. listing' \in Listing /\ ListingBacked(listing', stripe)
    BY <1>0, <1>2
  <2>4. ListingBacked(listing', stripe')
    BY <2>2, <2>3, ListingKept
  <2>5. QED
    BY <1>0, <2>2, <2>3, <2>4, Assembled
<1>3. QED
  <2>1. \/ listing' = written /\ UNCHANGED <<stripe, events>>
        \/ /\ listing.sub # NoSub
           /\ \E k \in DOMAIN states :
                /\ stripe' = [stripe EXCEPT ![listing.sub] = states[k]]
                /\ events' = Append(events, EventOf("updated", listing.sub, states[k]))
                /\ listing' \in {written, listing}
    <3>1. listing.sub # NoSub => Len(states) \in DOMAIN states
      BY <1>0
    <3>2. QED
      BY <3>1 DEF Amends
  <2>2. QED
    BY <1>1, <1>2, <2>1

(* Opening a checkout keeps the inductive invariant.                          *)
LEMMA CheckoutStep ==
  ASSUME IInv, NEW s \in Subs, NEW p \in Packages, NEW c \in Cycles,
         CreatePackageCheckout(s, p, c)
  PROVE  IInv'
<1> DEFINE sub == [Unused EXCEPT !.status = "offered", !.bought = p, !.term = c,
                                 !.pkg = p, !.cycle = c]
<1>1. /\ stripe \in [Subs -> Subscription]
      /\ listing \in Listing /\ ListingBacked(listing, stripe)
      /\ QueueBacked(events, stripe)
  BY DEF IInv, TypeOK
<1>2. /\ stripe[s].status = "unused"
      /\ stripe' = [stripe EXCEPT ![s] = sub]
      /\ UNCHANGED <<now, events, listing, spent>>
  BY DEF CreatePackageCheckout, Offered
<1>3. sub \in Subscription
  BY CyclesAreNumbers DEF Unused, Subscription, Packages, Minimum, NoPackage, NoDate
<1> HIDE DEF sub
<1>4. ~PaidIn(stripe, s)
  BY <1>2 DEF PaidIn
<1>5. stripe' \in [Subs -> Subscription] /\ Keeps(stripe, stripe')
  BY <1>1, <1>2, <1>3, <1>4, OneChanged
<1>6. ListingBacked(listing, stripe') /\ QueueBacked(events, stripe')
  BY <1>1, <1>5, ListingKept, QueueKept
<1>7. QED
  BY <1>1, <1>2, <1>5, <1>6, Assembled DEF IInv, TypeOK

(* A request spends one of those allowed and no time.                         *)
LEMMA Asked == ASSUME IInv, NEW kind, Asks(kind) PROVE now' = now /\ spent' \in 0..MaxRequests
  BY ListingPackageAssumption DEF IInv, TypeOK, Asks

(* The dates a handler computes are dates.                                    *)
LEMMA DatesAreNumbers ==
  ASSUME IInv
  PROVE  EndOfCycle \in Nat /\ EffectiveAt \in Nat
<1>1. listing.cycle \in Cycles \cup {NoCycle} /\ listing.expires \in Nat
  BY DEF IInv, TypeOK, Listing
<1>2. Months(listing.cycle) \in Nat /\ now \in Nat
  BY <1>1, CyclesAreNumbers DEF Months, IInv, TypeOK
<1>3. EndOfCycle \in Nat
  BY <1>2 DEF EndOfCycle
<1>4. QED
  BY <1>1, <1>3 DEF EffectiveAt

(* Queueing a downgrade, whole or cut short, keeps the inductive invariant.   *)
LEMMA DowngradeStep ==
  ASSUME IInv, NEW p \in Packages, NEW c \in Cycles, Downgrade(p, c)
  PROVE  IInv'
<1> DEFINE states == IF p = Minimum THEN CancelSubscription(Current)
                     ELSE ScheduleNextPeriod(Current, p, c)
           cycle == IF p = Minimum THEN NoCycle ELSE c
           written == [listing EXCEPT !.pending = p, !.pendingCycle = cycle,
                                      !.changeAt = EffectiveAt]
<1>1. /\ now' = now /\ spent' \in 0..MaxRequests
      /\ IsDowngrade(p, c)
      /\ Amends(Changeable, states, written)
  BY Asked DEF Downgrade
<1>2. /\ listing \in Listing /\ ListingBacked(listing, stripe)
      /\ cycle \in Cycles \cup {NoCycle} /\ EffectiveAt \in Nat
      /\ \A s \in Subs : stripe[s] \in Subscription
  BY CyclesAreNumbers, DatesAreNumbers DEF IInv, TypeOK
<1>3. ASSUME listing.sub \in Subs
      PROVE  /\ Len(states) \in DOMAIN states
             /\ \A k \in DOMAIN states : SameSale(Current, states[k])
  <2>1. Current \in Subscription
    BY <1>2, <1>3 DEF Current
  <2>2. /\ \A k \in DOMAIN CancelSubscription(Current) :
             SameSale(Current, CancelSubscription(Current)[k])
        /\ \A k \in DOMAIN ScheduleNextPeriod(Current, p, c) :
             SameSale(Current, ScheduleNextPeriod(Current, p, c)[k])
    BY <2>1, CancelSale, ScheduleSale
  <2>3. /\ Len(CancelSubscription(Current)) \in DOMAIN CancelSubscription(Current)
        /\ Len(ScheduleNextPeriod(Current, p, c)) \in DOMAIN ScheduleNextPeriod(Current, p, c)
    BY DEF CancelSubscription, ScheduleNextPeriod
  <2>4. QED
    BY <2>2, <2>3
<1>4. Backed(p, stripe)
  <2>1. listing.active /\ p <= listing.pkg /\ listing.pkg \in Packages
    BY <1>1, <1>2 DEF IsDowngrade, Cheaper, Listing, Packages
  <2>2. Backed(listing.pkg, stripe)
    BY <1>2, <2>1 DEF ListingBacked
  <2>3. \A s \in Subs : stripe[s].bought \in Packages
    BY <1>2 DEF Subscription
  <2>4. QED
    BY <2>1, <2>2, <2>3 DEF Backed, Packages, Minimum
<1> HIDE DEF states, cycle
<1>5. written \in Listing /\ ListingBacked(written, stripe)
  BY <1>2, <1>4 DEF ListingBacked, Listing
<1> HIDE DEF written
<1>6. QED
  BY <1>1, <1>3, <1>5, AmendsKept

(* Withdrawing a downgrade, whole or cut short, keeps the inductive           *)
(* invariant.                                                                 *)
LEMMA KeepStep == ASSUME IInv, CancelScheduledPackageChange PROVE IInv'
<1> DEFINE accepted == listing.sub # NoSub /\ (Held(listing.sub) \/ Current.renews)
           states == ClearScheduledChange(Current)
           written == NothingQueued(listing)
<1>1. /\ now' = now /\ spent' \in 0..MaxRequests
      /\ Amends(accepted, states, written)
  BY Asked DEF CancelScheduledPackageChange
<1>2. written \in Listing /\ ListingBacked(written, stripe)
  BY NothingQueuedListing DEF IInv, TypeOK
<1>3. ASSUME listing.sub \in Subs
      PROVE  /\ Len(states) \in DOMAIN states
             /\ \A k \in DOMAIN states : SameSale(Current, states[k])
  <2>1. Current \in Subscription
    BY <1>3 DEF Current, IInv, TypeOK
  <2>2. \A k \in DOMAIN states : SameSale(Current, states[k])
    BY <2>1, ClearSale
  <2>3. Len(states) \in DOMAIN states
    BY DEF ClearScheduledChange
  <2>4. QED
    BY <2>2, <2>3
<1> HIDE DEF accepted, states, written
<1>4. QED
  BY <1>1, <1>2, <1>3, AmendsKept

(* Cancelling, whole or cut short, keeps the inductive invariant.             *)
LEMMA CancelStep == ASSUME IInv, CancelPackage PROVE IInv'
<1> DEFINE states == CancelSubscription(Current)
           date == IF listing.sub # NoSub THEN Current.end ELSE EffectiveAt
           written == Ending(listing, date)
<1>1. /\ now' = now /\ spent' \in 0..MaxRequests
      /\ Amends(Changeable, states, written)
  BY Asked DEF CancelPackage
<1>2. listing.sub \in Subs => Current \in Subscription
  BY DEF Current, IInv, TypeOK
<1>3. date \in Nat
  <2>1. listing.sub \in Subs \cup {NoSub}
    BY DEF IInv, TypeOK, Listing
  <2>2. QED
    BY <1>2, <2>1, DatesAreNumbers DEF Subscription
<1> HIDE DEF date
<1>4. written \in Listing /\ ListingBacked(written, stripe)
  BY <1>3, EndingListing DEF IInv, TypeOK
<1>5. ASSUME listing.sub \in Subs
      PROVE  /\ Len(states) \in DOMAIN states
             /\ \A k \in DOMAIN states : SameSale(Current, states[k])
  <2>1. \A k \in DOMAIN states : SameSale(Current, states[k])
    BY <1>2, <1>5, CancelSale
  <2>2. Len(states) \in DOMAIN states
    BY DEF CancelSubscription
  <2>3. QED
    BY <2>1, <2>2
<1> HIDE DEF states, written
<1>6. QED
  BY <1>1, <1>4, <1>5, AmendsKept

(* Reactivating, whole or cut short, keeps the inductive invariant.           *)
LEMMA ReactivateStep == ASSUME IInv, ReactivatePackage PROVE IInv'
<1> DEFINE accepted == Changeable /\ ~Scheduled(Current)
           sub == [Current EXCEPT !.renews = TRUE]
           states == <<sub>>
           written == [listing EXCEPT !.endsAt = NoDate]
<1>1. /\ now' = now /\ spent' \in 0..MaxRequests
      /\ Amends(accepted, states, written)
  BY Asked DEF ReactivatePackage
<1>2. written \in Listing /\ ListingBacked(written, stripe)
  BY DEF IInv, TypeOK, ListingBacked, Listing, NoDate
<1>3. ASSUME listing.sub \in Subs
      PROVE  /\ Len(states) \in DOMAIN states
             /\ \A k \in DOMAIN states : SameSale(Current, states[k])
  <2>1. Current \in Subscription
    BY <1>3 DEF Current, IInv, TypeOK
  <2>2. SameSale(Current, sub)
    BY <2>1, RenewingSale
  <2> HIDE DEF sub
  <2>3. QED
    BY <2>2
<1> HIDE DEF accepted, states, written
<1>4. QED
  BY <1>1, <1>2, <1>3, AmendsKept

(* Choosing the free package keeps the inductive invariant.                   *)
LEMMA MinimumStep == ASSUME IInv, ChooseMinimum PROVE IInv'
<1> DEFINE written == [listing EXCEPT !.pkg = Minimum, !.cycle = NoCycle, !.active = TRUE,
                                      !.expires = NoDate, !.endsAt = NoDate]
<1>1. /\ spent' \in 0..MaxRequests /\ UNCHANGED <<now, stripe, events>>
      /\ listing' = written
  BY Asked DEF ChooseMinimum
<1>2. listing \in Listing /\ ListingBacked(listing, stripe)
  BY DEF IInv, TypeOK
<1>3. written \in Listing
  <2>1. Minimum \in Packages /\ NoDate \in Nat /\ NoCycle \in Cycles \cup {NoCycle}
    BY DEF Minimum, Packages, NoDate
  <2>2. QED
    BY <1>2, <2>1 DEF Listing
<1>4. written.pkg = Minimum /\ written.pending = listing.pending
  BY <1>2 DEF Listing
<1> HIDE DEF written
<1>5. ListingBacked(written, stripe)
  BY <1>2, <1>4 DEF ListingBacked, Backed
<1>6. QED
  BY <1>1, <1>3, <1>5, OnlyListing

(* A form that is saved keeps the inductive invariant: it asks to edit what   *)
(* is switched on, or leaves nothing switched on.                             *)
LEMMA UpdateStep ==
  ASSUME IInv, NEW p \in Packages, NEW c \in Cycles \cup {NoCycle}, Update(p, c)
  PROVE  IInv'
<1> DEFINE written == [listing EXCEPT !.pkg = p, !.cycle = c]
<1>1. /\ spent' \in 0..MaxRequests /\ UNCHANGED <<now, stripe, events>>
      /\ listing' = written /\ (listing.active => "edit" \in Requests)
  BY Asked DEF Update, Asks
<1>2. listing \in Listing /\ ListingBacked(listing, stripe)
  BY DEF IInv, TypeOK
<1>3. /\ written \in Listing /\ written.pending = listing.pending
      /\ written.active = listing.active
  BY <1>2 DEF Listing
<1> HIDE DEF written
<1>4. ListingBacked(written, stripe)
  BY <1>1, <1>2, <1>3 DEF ListingBacked, Backed
<1>5. QED
  BY <1>1, <1>3, <1>4, OnlyListing

(* A read that applies what is due keeps the inductive invariant.             *)
LEMMA LookStep == ASSUME IInv, GetPackageState PROVE IInv'
<1>1. /\ listing.pending # NoPackage /\ listing' = Settle(listing)
      /\ UNCHANGED <<now, stripe, events, spent>>
  BY DEF GetPackageState, ChangeIsDue
<1>2. listing' \in Listing /\ ListingBacked(listing', stripe)
  BY <1>1, SettledListing DEF IInv, TypeOK
<1>3. QED
  BY <1>1, <1>2, OnlyListing DEF IInv, TypeOK

(* A sale keeps the inductive invariant.                                      *)
LEMMA SoldStep == ASSUME IInv, MarkSold PROVE IInv'
<1> DEFINE s == listing.sub
<1>1. now' = now /\ spent' \in 0..MaxRequests
  BY Asked DEF MarkSold
<1>2. /\ listing \in Listing /\ ListingBacked(listing, stripe)
      /\ Sold(listing) \in Listing /\ ListingBacked(Sold(listing), stripe)
      /\ QueueBacked(events, stripe) /\ now \in 1..Horizon
  BY SoldListing DEF IInv, TypeOK
<1>3. CASE listing' = Sold(listing) /\ UNCHANGED <<stripe, events>>
  BY <1>1, <1>2, <1>3, OnlyListing
<1>4. CASE /\ Stops(s)
           /\ stripe' = [stripe EXCEPT ![s] = Stopped(stripe[s])]
           /\ events' = Append(events, EventOf("deleted", s, stripe[s]))
           /\ listing' \in {Sold(listing), listing}
  <2>1. s \in Subs /\ stripe[s] \in Subscription
    BY <1>4 DEF Stops, IInv, TypeOK, Listing
  <2>2. /\ Stopped(stripe[s]) \in Subscription
        /\ Stopped(stripe[s]).status = "canceled"
        /\ Stopped(stripe[s]).bought = stripe[s].bought
    BY <2>1, StoppedSale
  <2>3. /\ stripe' \in [Subs -> Subscription]
        /\ Keeps(stripe, stripe')
        /\ QueueBacked(events', stripe')
    BY <1>2, <1>4, <2>1, <2>2, Announced
  <2>4. listing' \in Listing /\ ListingBacked(listing', stripe)
    BY <1>2, <1>4
  <2>5. ListingBacked(listing', stripe')
    BY <2>3, <2>4, ListingKept
  <2>6. QED
    BY <1>1, <1>2, <2>3, <2>4, <2>5, Assembled
<1>5. QED
  BY <1>3, <1>4 DEF MarkSold

(* Recording a checkout that went through.                                    *)
LEMMA ApplyKept ==
  ASSUME IInv, NEW s \in Subs, PaidIn(stripe, s),
         NEW STATE rest, QueueBacked(rest, stripe),
         now' = now, spent' \in 0..MaxRequests, ApplyFromSession(s, rest)
  PROVE  IInv'
<1> DEFINE old == listing.sub
<1>1. PICK expires \in {stripe[s].end} \cup (IF "cut" \in Faults THEN {NoDate} ELSE {}) :
        listing' = Activated(listing, s, expires)
  BY DEF ApplyFromSession
<1>2. expires \in Nat
  BY <1>1 DEF IInv, TypeOK, Subscription, NoDate
<1>3. listing' \in Listing /\ ListingBacked(listing', stripe)
  BY <1>1, <1>2, ActivatedListing
<1>4. CASE events' = rest /\ UNCHANGED stripe
  BY <1>3, <1>4, KeepsItself, Assembled DEF IInv, TypeOK
<1>5. CASE /\ Replaces(old, s)
           /\ stripe' = [stripe EXCEPT ![old] = Stopped(stripe[old])]
           /\ events' = Append(rest, EventOf("deleted", old, stripe[old]))
  <2>1. old \in Subs /\ stripe[old] \in Subscription
    BY <1>5 DEF Replaces, IInv, TypeOK, Listing
  <2>2. /\ Stopped(stripe[old]) \in Subscription
        /\ Stopped(stripe[old]).status = "canceled"
        /\ Stopped(stripe[old]).bought = stripe[old].bought
    BY <2>1, StoppedSale
  <2>3. /\ stripe' \in [Subs -> Subscription]
        /\ Keeps(stripe, stripe')
        /\ QueueBacked(events', stripe')
    BY <1>5, <2>1, <2>2, Announced
  <2>4. ListingBacked(listing', stripe')
    BY <1>3, <2>3, ListingKept
  <2>5. QED
    BY <1>3, <2>3, <2>4, Assembled DEF IInv, TypeOK
<1>6. QED
  BY <1>4, <1>5 DEF ApplyFromSession, Replaces

(* The success page keeps the inductive invariant.                            *)
LEMMA ConfirmStep == ASSUME IInv, NEW s \in Subs, SyncCheckoutSession(s) PROVE IInv'
<1>1. /\ now' = now /\ spent' \in 0..MaxRequests
      /\ PaidIn(stripe, s) /\ ApplyFromSession(s, events)
  BY Asked DEF SyncCheckoutSession, IsSettled, Paid, PaidIn
<1>2. QED
  BY <1>1, ApplyKept DEF IInv

(* Delivering, losing or repeating an event keeps the inductive invariant.    *)
LEMMA WebhookStep == ASSUME IInv, Webhook PROVE IInv'
<1>0. /\ QueueBacked(events, stripe)
      /\ \A i \in DOMAIN events : events[i] \in Event
      /\ now \in 1..Horizon /\ spent \in 0..MaxRequests
      /\ stripe \in [Subs -> Subscription]
      /\ listing \in Listing /\ ListingBacked(listing, stripe)
  BY ElementOfSeq DEF IInv, TypeOK
<1>1. ASSUME NEW i \in DOMAIN events, Lose(i) PROVE IInv'
  <2>1. events' = RemoveAt(events, i) /\ UNCHANGED <<now, stripe, listing, spent>>
    BY <1>1 DEF Lose
  <2>2. QueueBacked(events', stripe)
    BY <1>0, <2>1, QueueShortened
  <2>3. QED
    BY <1>0, <2>1, <2>2, KeepsItself, Assembled
<1>2. ASSUME NEW i \in DOMAIN events, Deliver(i) PROVE IInv'
  <2>1. UNCHANGED <<now, spent>>
    BY <1>2 DEF Deliver
  <2>2. PICK rest \in {RemoveAt(events, i)} \cup
                        (IF "duplicate" \in Faults THEN {events} ELSE {}) :
          \/ events[i].type = "checkout" /\ ApplyFromSession(events[i].sub, rest)
          \/ /\ RecordListingRenewal(events[i]) \/ DeactivateListingPackage(events[i])
             /\ events' = rest
             /\ UNCHANGED stripe
    BY <1>2 DEF Deliver
  <2>3. QueueBacked(rest, stripe)
    BY <1>0, <2>2, QueueShortened
  <2>4. CASE events[i].type = "checkout" /\ ApplyFromSession(events[i].sub, rest)
    <3>1. events[i].sub \in Subs /\ PaidIn(stripe, events[i].sub)
      BY <1>0, <2>4 DEF QueueBacked, EventBacked, Event
    <3>2. QED
      BY <1>0, <2>1, <2>3, <2>4, <3>1, ApplyKept
  <2>5. CASE /\ RecordListingRenewal(events[i]) \/ DeactivateListingPackage(events[i])
             /\ events' = rest
             /\ UNCHANGED stripe
    <3>1. listing' \in Listing /\ ListingBacked(listing', stripe)
      BY <1>0, <2>5, RenewedListing, DeactivatedListing
         DEF RecordListingRenewal, DeactivateListingPackage
    <3>2. QED
      BY <1>0, <2>1, <2>3, <2>5, <3>1, KeepsItself, Assembled
  <2>6. QED
    BY <2>2, <2>4, <2>5
<1>3. QED
  BY <1>1, <1>2 DEF Webhook

(* The initial states satisfy the inductive invariant.                        *)
LEMMA InitBacked == Init => IInv
<1> SUFFICES ASSUME Init PROVE IInv
  OBVIOUS
<1>1. Unused \in Subscription
  BY CyclesAreNumbers DEF Unused, Subscription, Packages, Minimum, NoPackage, NoDate
<1>2. NewListing \in Listing /\ ListingBacked(NewListing, stripe)
  BY CyclesAreNumbers
     DEF NewListing, ListingBacked, Listing, Packages, Minimum, NoPackage, NoDate
<1>3. QueueBacked(<<>>, stripe)
  BY DEF QueueBacked
<1>4. QED
  BY <1>1, <1>2, <1>3, ListingPackageAssumption DEF Init, IInv, TypeOK, QueueBacked

(* Every step keeps the inductive invariant.                                  *)
THEOREM NextBacked == IInv /\ [Next]_vars => IInv'
<1> SUFFICES ASSUME IInv, [Next]_vars PROVE IInv'
  OBVIOUS
<1>1. CASE Seller
  BY <1>1, CheckoutStep, MinimumStep, DowngradeStep, KeepStep, CancelStep,
     ReactivateStep, LookStep, ConfirmStep, UpdateStep DEF Seller
<1>2. CASE UNCHANGED vars
  BY <1>2, KeepsItself, Assembled DEF vars, IInv, TypeOK
<1>3. QED
  BY <1>1, <1>2, StripeStep, SoldStep, WebhookStep DEF Next

(* Every reachable state satisfies the inductive invariant.                   *)
THEOREM Invariant == Spec => []IInv
  BY InitBacked, NextBacked, PTL DEF Spec

(* The subscriptions, the queue and the listing's fields keep their types,    *)
(* whatever fails.                                                            *)
THEOREM TypeCorrect == Spec => []TypeOK
<1>1. IInv => TypeOK
  BY DEF IInv
<1>2. QED
  BY <1>1, Invariant, PTL

(* Where the form edits no package that is switched on, the package switched  *)
(* on is never dearer than one that was paid for, for any number of           *)
(* subscriptions and of the other requests and under every fault.  What is    *)
(* excluded is needed: the form writes what it carries, paid for or not.      *)
THEOREM PackagePaidFor ==
  ASSUME "edit" \notin Requests
  PROVE  Spec => []PackageWasPaidFor
<1>1. IInv => PackageWasPaidFor
  BY DEF IInv, ListingBacked, Backed, PaidIn, PackageWasPaidFor, Paid
<1>2. QED
  BY <1>1, Invariant, PTL

--------------------------------------------------------------------------------
(* What a step leaves of the sale of a subscription, and of the queue.        *)

Holds(held, s) == held[s].status \in {"active", "past_due"}

(* The checkout of s is still to be recorded.                                 *)
Awaited(s, queue) == \E i \in DOMAIN queue : queue[i].type = "checkout" /\ queue[i].sub = s

(* sub2 is sub but for the prices to come and whether it renews.              *)
SameDeal(sub, sub2) ==
  /\ sub2.status = sub.status
  /\ sub2.bought = sub.bought /\ sub2.term = sub.term
  /\ sub2.start = sub.start

(* An event appended is awaited if it is a checkout; the others are as        *)
(* before.                                                                    *)
LEMMA AwaitedAppended ==
  ASSUME NEW queue \in Seq(Event), NEW e \in Event, NEW s
  PROVE  Awaited(s, Append(queue, e)) <=> Awaited(s, queue) \/ (e.type = "checkout" /\ e.sub = s)
<1> DEFINE longer == Append(queue, e)
<1>1. /\ \A j \in DOMAIN queue : j \in DOMAIN longer /\ longer[j] = queue[j]
      /\ Len(queue) + 1 \in DOMAIN longer /\ longer[Len(queue) + 1] = e
      /\ \A j \in DOMAIN longer : longer[j] = e \/ \E k \in DOMAIN queue : longer[j] = queue[k]
  <2>1. /\ DOMAIN longer = 1..(Len(queue) + 1) /\ Len(queue) \in Nat
        /\ \A j \in DOMAIN queue : j \in DOMAIN longer /\ longer[j] = queue[j]
        /\ longer[Len(queue) + 1] = e
    BY AppendedAt
  <2>2. \A j \in DOMAIN longer : longer[j] = e \/ \E k \in DOMAIN queue : longer[j] = queue[k]
    BY Appended
  <2>3. QED
    BY <2>1, <2>2
<1> HIDE DEF longer
<1>2. QED
  BY <1>1 DEF Awaited, longer

(* An event taken out is awaited no more; the others are as before.           *)
LEMMA AwaitedRemoved ==
  ASSUME NEW queue \in Seq(Event), NEW i \in DOMAIN queue, NEW s
  PROVE  /\ Awaited(s, RemoveAt(queue, i)) => Awaited(s, queue)
         /\ Awaited(s, queue) =>
              Awaited(s, RemoveAt(queue, i)) \/ (queue[i].type = "checkout" /\ queue[i].sub = s)
<1> DEFINE shorter == RemoveAt(queue, i)
<1>1. \A j \in DOMAIN shorter : \E k \in DOMAIN queue : shorter[j] = queue[k]
  BY Removed
<1>2. \A k \in DOMAIN queue : k # i => \E j \in DOMAIN shorter : shorter[j] = queue[k]
  BY StillQueued
<1> HIDE DEF shorter
<1>3. QED
  BY <1>1, <1>2 DEF Awaited, shorter

(* The calls that cancel, or withdraw a schedule, leave the deal as it is.    *)
LEMMA CallsKeepDeal ==
  ASSUME NEW sub \in Subscription
  PROVE  /\ \A k \in DOMAIN CancelSubscription(sub) : SameDeal(sub, CancelSubscription(sub)[k])
         /\ \A k \in DOMAIN ClearScheduledChange(sub) : SameDeal(sub, ClearScheduledChange(sub)[k])
<1> DEFINE released == Released(sub)
           ended == [Released(sub) EXCEPT !.renews = FALSE]
           resumed == [Released(sub) EXCEPT !.renews = TRUE]
<1>1. released \in Subscription
  BY ReleasedSale DEF SameSale
<1>2. SameDeal(sub, released)
  BY DEF SameDeal, Subscription, Released
<1>3. SameDeal(sub, ended) /\ SameDeal(sub, resumed)
  BY <1>1, <1>2 DEF SameDeal, Subscription
<1>4. /\ CancelSubscription(sub) = <<released, ended>>
      /\ ClearScheduledChange(sub) = <<released, resumed>>
  BY DEF CancelSubscription, ClearScheduledChange
<1> HIDE DEF released, ended, resumed
<1>5. /\ \A k \in DOMAIN <<released, ended>> : <<released, ended>>[k] \in {released, ended}
      /\ \A k \in DOMAIN <<released, resumed>> :
           <<released, resumed>>[k] \in {released, resumed}
  BY TwoCalls
<1>6. \A k \in DOMAIN <<released, ended>> : SameDeal(sub, <<released, ended>>[k])
  BY <1>2, <1>3, <1>5
<1>7. \A k \in DOMAIN <<released, resumed>> : SameDeal(sub, <<released, resumed>>[k])
  BY <1>2, <1>3, <1>5
<1>8. QED
  BY <1>4, <1>6, <1>7

(* The calls that schedule a next period leave the deal as it is.             *)
LEMMA ScheduleKeepsDeal ==
  ASSUME NEW sub \in Subscription, NEW p \in Packages, NEW c \in Cycles
  PROVE  \A k \in DOMAIN ScheduleNextPeriod(sub, p, c) :
           SameDeal(sub, ScheduleNextPeriod(sub, p, c)[k])
<1> DEFINE renewed == [sub EXCEPT !.renews = TRUE]
           attached == IF Scheduled(sub) THEN sub
                       ELSE [sub EXCEPT !.renews = TRUE, !.next = sub.pkg,
                                        !.nextCycle = sub.cycle]
           priced == [attached EXCEPT !.next = p, !.nextCycle = c]
<1>1. attached \in Subscription
  BY CyclesAreNumbers DEF Scheduled, Subscription
<1>2. SameDeal(sub, renewed) /\ SameDeal(sub, attached)
  BY DEF SameDeal, Subscription
<1>3. SameDeal(sub, priced)
  BY <1>1, <1>2 DEF SameDeal, Subscription
<1>4. ScheduleNextPeriod(sub, p, c) = <<renewed, attached, priced>>
  BY DEF ScheduleNextPeriod
<1> HIDE DEF renewed, attached, priced
<1>5. \A k \in DOMAIN <<renewed, attached, priced>> :
        <<renewed, attached, priced>>[k] \in {renewed, attached, priced}
  BY ThreeCalls
<1>6. \A k \in DOMAIN <<renewed, attached, priced>> :
        SameDeal(sub, <<renewed, attached, priced>>[k])
  BY <1>2, <1>3, <1>5
<1>7. QED
  BY <1>4, <1>6

(* A request on the listing's subscription leaves every deal as it is: the    *)
(* listing is written or not, and at most one event says so.                  *)
Amended(written) ==
  /\ now' = now
  /\ listing' \in {written, listing}
  /\ \A s \in Subs : SameDeal(stripe[s], stripe'[s])
  /\ \/ events' = events
     \/ \E e \in Event, s \in Subs :
          /\ e.type = "updated" /\ e.start = stripe[s].start
          /\ events' = Append(events, e)

(* What the calls of a request add up to.                                     *)
LEMMA AmendsShape ==
  ASSUME IInv, NEW STATE accepted, NEW STATE states, NEW STATE written,
         listing.sub \in Subs =>
           /\ Len(states) \in DOMAIN states
           /\ \A k \in DOMAIN states :
                states[k] \in Subscription /\ SameDeal(Current, states[k]),
         now' = now, Amends(accepted, states, written)
  PROVE  Amended(written)
<1>0. stripe \in [Subs -> Subscription] /\ listing.sub \in Subs \cup {NoSub}
  BY DEF IInv, TypeOK, Listing
<1>1. CASE listing' = written /\ UNCHANGED <<stripe, events>>
  BY <1>1 DEF Amended, SameDeal
<1>2. ASSUME listing.sub # NoSub, NEW k \in DOMAIN states,
             stripe' = [stripe EXCEPT ![listing.sub] = states[k]],
             events' = Append(events, EventOf("updated", listing.sub, states[k])),
             listing' \in {written, listing}
      PROVE  Amended(written)
  <2>1. /\ listing.sub \in Subs /\ states[k] \in Subscription
        /\ SameDeal(stripe[listing.sub], states[k])
    BY <1>0, <1>2 DEF Current
  <2>2. \A s \in Subs : SameDeal(stripe[s], stripe'[s])
    BY <1>0, <1>2, <2>1 DEF SameDeal
  <2> DEFINE e == EventOf("updated", listing.sub, states[k])
  <2>3. /\ e \in Event /\ e.type = "updated"
        /\ e.start = stripe[listing.sub].start
    BY <2>1, EventTyped DEF EventOf, SameDeal
  <2>4. events' = Append(events, e)
    BY <1>2
  <2> HIDE DEF e
  <2>5. QED
    BY <1>2, <2>1, <2>2, <2>3, <2>4 DEF Amended
<1>3. \/ listing' = written /\ UNCHANGED <<stripe, events>>
      \/ /\ listing.sub # NoSub
         /\ \E k \in DOMAIN states :
              /\ stripe' = [stripe EXCEPT ![listing.sub] = states[k]]
              /\ events' = Append(events, EventOf("updated", listing.sub, states[k]))
              /\ listing' \in {written, listing}
  <2>1. listing.sub # NoSub => Len(states) \in DOMAIN states
    BY <1>0
  <2>2. QED
    BY <2>1 DEF Amends
<1>4. QED
  BY <1>1, <1>2, <1>3

(* What queueing a downgrade comes to.                                        *)
LEMMA DowngradeShape ==
  ASSUME IInv, NEW p \in Packages, NEW c \in Cycles, Downgrade(p, c)
  PROVE  /\ IsDowngrade(p, c)
         /\ Amended([listing EXCEPT !.pending = p,
                                    !.pendingCycle = IF p = Minimum THEN NoCycle ELSE c,
                                    !.changeAt = EffectiveAt])
<1> DEFINE states == IF p = Minimum THEN CancelSubscription(Current)
                     ELSE ScheduleNextPeriod(Current, p, c)
           written == [listing EXCEPT !.pending = p,
                                      !.pendingCycle = IF p = Minimum THEN NoCycle ELSE c,
                                      !.changeAt = EffectiveAt]
<1>1. now' = now /\ IsDowngrade(p, c) /\ Amends(Changeable, states, written)
  BY Asked DEF Downgrade
<1>2. ASSUME listing.sub \in Subs
      PROVE  /\ Len(states) \in DOMAIN states
             /\ \A k \in DOMAIN states :
                  states[k] \in Subscription /\ SameDeal(Current, states[k])
  <2>1. Current \in Subscription
    BY <1>2 DEF Current, IInv, TypeOK
  <2>2. \A k \in DOMAIN states : states[k] \in Subscription
    BY <2>1, CancelSale, ScheduleSale DEF SameSale
  <2>3. \A k \in DOMAIN states : SameDeal(Current, states[k])
    BY <2>1, CallsKeepDeal, ScheduleKeepsDeal
  <2>4. Len(states) \in DOMAIN states
    BY DEF CancelSubscription, ScheduleNextPeriod
  <2>5. QED
    BY <2>2, <2>3, <2>4
<1> HIDE DEF states, written
<1>3. Amended(written)
  BY <1>1, <1>2, AmendsShape
<1>4. QED
  BY <1>1, <1>3 DEF written

(* What withdrawing a downgrade comes to.                                     *)
LEMMA KeepShape ==
  ASSUME IInv, CancelScheduledPackageChange
  PROVE  Amended(NothingQueued(listing))
<1> DEFINE accepted == listing.sub # NoSub /\ (Held(listing.sub) \/ Current.renews)
           states == ClearScheduledChange(Current)
           written == NothingQueued(listing)
<1>1. now' = now /\ Amends(accepted, states, written)
  BY Asked DEF CancelScheduledPackageChange
<1>2. ASSUME listing.sub \in Subs
      PROVE  /\ Len(states) \in DOMAIN states
             /\ \A k \in DOMAIN states :
                  states[k] \in Subscription /\ SameDeal(Current, states[k])
  <2>1. Current \in Subscription
    BY <1>2 DEF Current, IInv, TypeOK
  <2>2. \A k \in DOMAIN states : states[k] \in Subscription
    BY <2>1, ClearSale DEF SameSale
  <2>3. \A k \in DOMAIN states : SameDeal(Current, states[k])
    BY <2>1, CallsKeepDeal
  <2>4. Len(states) \in DOMAIN states
    BY DEF ClearScheduledChange
  <2>5. QED
    BY <2>2, <2>3, <2>4
<1> HIDE DEF accepted, states, written
<1>3. Amended(written)
  BY <1>1, <1>2, AmendsShape
<1>4. QED
  BY <1>3 DEF written

(* What a cancellation comes to.                                              *)
LEMMA CancelShape ==
  ASSUME IInv, CancelPackage
  PROVE  \E date \in Nat : Amended(Ending(listing, date))
<1> DEFINE states == CancelSubscription(Current)
           date == IF listing.sub # NoSub THEN Current.end ELSE EffectiveAt
           written == Ending(listing, date)
<1>1. now' = now /\ Amends(Changeable, states, written)
  BY Asked DEF CancelPackage
<1>2. listing.sub \in Subs => Current \in Subscription
  BY DEF Current, IInv, TypeOK
<1>3. date \in Nat
  <2>1. listing.sub \in Subs \cup {NoSub}
    BY DEF IInv, TypeOK, Listing
  <2>2. QED
    BY <1>2, <2>1, DatesAreNumbers DEF Subscription
<1>4. ASSUME listing.sub \in Subs
      PROVE  /\ Len(states) \in DOMAIN states
             /\ \A k \in DOMAIN states :
                  states[k] \in Subscription /\ SameDeal(Current, states[k])
  <2>1. \A k \in DOMAIN states : states[k] \in Subscription
    BY <1>2, <1>4, CancelSale DEF SameSale
  <2>2. \A k \in DOMAIN states : SameDeal(Current, states[k])
    BY <1>2, <1>4, CallsKeepDeal
  <2>3. Len(states) \in DOMAIN states
    BY DEF CancelSubscription
  <2>4. QED
    BY <2>1, <2>2, <2>3
<1> HIDE DEF states, date
<1>5. Amended(written)
  <2> HIDE DEF written
  <2>1. QED
    BY <1>1, <1>4, AmendsShape
<1>6. QED
  BY <1>3, <1>5

(* What a reactivation comes to.                                              *)
LEMMA ReactivateShape ==
  ASSUME IInv, ReactivatePackage
  PROVE  Amended([listing EXCEPT !.endsAt = NoDate])
<1> DEFINE accepted == Changeable /\ ~Scheduled(Current)
           sub == [Current EXCEPT !.renews = TRUE]
           states == <<sub>>
           written == [listing EXCEPT !.endsAt = NoDate]
<1>1. now' = now /\ Amends(accepted, states, written)
  BY Asked DEF ReactivatePackage
<1>2. ASSUME listing.sub \in Subs
      PROVE  /\ Len(states) \in DOMAIN states
             /\ \A k \in DOMAIN states :
                  states[k] \in Subscription /\ SameDeal(Current, states[k])
  <2>1. Current \in Subscription
    BY <1>2 DEF Current, IInv, TypeOK
  <2>2. sub \in Subscription /\ SameDeal(Current, sub)
    BY <2>1 DEF SameDeal, Subscription
  <2> HIDE DEF sub
  <2>3. QED
    BY <2>2
<1> HIDE DEF accepted, states, written
<1>3. Amended(written)
  BY <1>1, <1>2, AmendsShape
<1>4. QED
  BY <1>3 DEF written

--------------------------------------------------------------------------------
(* Where no event is lost and no request cut short, a listing that is sold is *)
(* not billed: what Stripe bills is the listing's own subscription, or its    *)
(* checkout is still to be recorded.                                          *)
SalesKnown(l, held, queue) ==
  \A s \in Subs : Holds(held, s) => (l.sub = s /\ ~l.sold) \/ Awaited(s, queue)

SaleInv == IInv /\ SalesKnown(listing, stripe, events)

SameSeat(l, l2) == l2.sub = l.sub /\ l2.sold = l.sold

(* What is written of the package leaves the subscription's id where it is.   *)
LEMMA SeatsKept ==
  ASSUME NEW l \in Listing
  PROVE  /\ SameSeat(l, NothingQueued(l)) /\ SameSeat(l, Settle(l))
         /\ SameSeat(l, Deactivated(l))
         /\ \A date : SameSeat(l, Ending(l, date))
         /\ \A e : SameSeat(l, Renewed(l, e))
<1>1. SameSeat(l, NothingQueued(l)) /\ SameSeat(l, Settle(l)) /\ SameSeat(l, Deactivated(l))
  BY DEF SameSeat, NothingQueued, Settle, Deactivated, Listing
<1>2. \A date : SameSeat(l, Ending(l, date))
  BY DEF SameSeat, NothingQueued, Ending, Listing
<1>3. \A e : SameSeat(l, [l EXCEPT !.expires = e.end])
  BY DEF SameSeat, Listing
<1>4. \A e : SameSeat(l, [Settle(l) EXCEPT !.expires = e.end])
  BY DEF SameSeat, Settle, NothingQueued, Listing
<1>5. QED
  BY <1>1, <1>2, <1>3, <1>4 DEF Renewed

(* A subscription that was billed still is, a new one's checkout is awaited.  *)
LEMMA SalesKept ==
  ASSUME NEW l, NEW held, NEW queue, SalesKnown(l, held, queue),
         NEW l2, NEW held2, NEW queue2, SameSeat(l, l2),
         \A s \in Subs : Holds(held2, s) => Holds(held, s) \/ Awaited(s, queue2),
         \A s \in Subs : Awaited(s, queue) => Awaited(s, queue2)
  PROVE  SalesKnown(l2, held2, queue2)
  BY DEF SalesKnown, SameSeat

(* What Stripe does by itself starts no billing without a checkout to record. *)
LEMMA HappensKnown ==
  ASSUME SaleInv, NEW type \in {"checkout", "updated", "deleted"}, NEW s \in Subs,
         NEW STATE sub, sub \in Subscription,
         sub.status \in {"active", "past_due"} => Holds(stripe, s) \/ type = "checkout",
         Happens(type, s, sub)
  PROVE  SalesKnown(listing', stripe', events')
<1>1. /\ stripe \in [Subs -> Subscription] /\ events \in Seq(Event)
      /\ SalesKnown(listing, stripe, events)
      /\ stripe' = [stripe EXCEPT ![s] = sub] /\ listing' = listing
      /\ events' = Append(events, EventOf(type, s, sub))
  BY DEF SaleInv, IInv, TypeOK, Happens
<1> DEFINE e == EventOf(type, s, sub)
<1>2. e \in Event /\ e.type = type /\ e.sub = s
  BY EventTyped
<1> HIDE DEF e
<1>3. \A t \in Subs :
        Awaited(t, events') <=> Awaited(t, events) \/ (e.type = "checkout" /\ e.sub = t)
  BY <1>1, <1>2, AwaitedAppended DEF e
<1>4. \A t \in Subs : Holds(stripe', t) => Holds(stripe, t) \/ Awaited(t, events')
  BY <1>1, <1>2, <1>3 DEF Holds
<1>5. SameSeat(listing, listing')
  BY <1>1 DEF SameSeat
<1>6. QED
  BY <1>1, <1>3, <1>4, <1>5, SalesKept

(* A request that amends the subscription neither starts nor ends its         *)
(* billing.                                                                   *)
LEMMA AmendedKnown ==
  ASSUME SaleInv, NEW STATE written, SameSeat(listing, written), Amended(written)
  PROVE  SalesKnown(listing', stripe', events')
<1>1. /\ events \in Seq(Event) /\ SalesKnown(listing, stripe, events)
      /\ SameSeat(listing, listing')
      /\ \A s \in Subs : Holds(stripe', s) => Holds(stripe, s)
  BY DEF SaleInv, IInv, TypeOK, Amended, SameSeat, SameDeal, Holds
<1>2. \A s \in Subs : Awaited(s, events) => Awaited(s, events')
  <2>1. CASE events' = events
    BY <2>1
  <2>2. ASSUME NEW e \in Event, events' = Append(events, e)
        PROVE  \A s \in Subs : Awaited(s, events) => Awaited(s, events')
    BY <1>1, <2>2, AwaitedAppended
  <2>3. QED
    BY <2>1, <2>2 DEF Amended
<1>3. QED
  BY <1>1, <1>2, SalesKept

(* A checkout recorded, by the webhook or the success page, takes the listing *)
(* over from the subscription it replaces, which is stopped.                  *)
LEMMA ApplyKnown ==
  ASSUME SaleInv, "cut" \notin Faults, NEW STATE s, s \in Subs,
         NEW STATE rest, rest \in Seq(Event),
         \A t \in Subs : Awaited(t, events) => Awaited(t, rest) \/ t = s,
         ApplyFromSession(s, rest)
  PROVE  SalesKnown(listing', stripe', events')
<1> DEFINE old == listing.sub
<1>1. /\ stripe \in [Subs -> Subscription] /\ events \in Seq(Event)
      /\ listing \in Listing /\ SalesKnown(listing, stripe, events)
  BY DEF SaleInv, IInv, TypeOK
<1>2. listing'.sub = s /\ ~listing'.sold
  BY <1>1 DEF ApplyFromSession, Activated, NothingQueued, Listing
<1>3. CASE ~Replaces(old, s) /\ events' = rest /\ UNCHANGED stripe
  <2>1. \A t \in Subs : Holds(stripe, t) /\ t = old => t = s
    BY <1>1, <1>3, ListingPackageAssumption DEF Replaces, Held, Holds
  <2>2. \A t \in Subs : Holds(stripe, t) => t = s \/ Awaited(t, rest)
    BY <1>1, <2>1 DEF SalesKnown
  <2>3. QED
    BY <1>2, <1>3, <2>2 DEF SalesKnown, Holds
<1>4. CASE /\ Replaces(old, s)
           /\ stripe' = [stripe EXCEPT ![old] = Stopped(stripe[old])]
           /\ events' = Append(rest, EventOf("deleted", old, stripe[old]))
  <2>1. old \in Subs /\ stripe[old] \in Subscription
    BY <1>1, <1>4 DEF Replaces, Listing
  <2>2. Stopped(stripe[old]).status = "canceled"
    BY <2>1, StoppedSale
  <2>3. \A t \in Subs : Holds(stripe', t) => Holds(stripe, t) /\ t # old
    BY <1>1, <1>4, <2>1, <2>2 DEF Holds
  <2>4. \A t \in Subs : Awaited(t, rest) => Awaited(t, events')
    BY <1>4, <2>1, EventTyped, AwaitedAppended
  <2>5. QED
    BY <1>1, <1>2, <2>3, <2>4 DEF SalesKnown
<1>5. QED
  BY <1>3, <1>4 DEF ApplyFromSession

(* Every step, a sale included, keeps what is known of the billing.           *)
LEMMA SaleStep ==
  ASSUME {"lose", "cut"} \cap Faults = {}, SaleInv, [Next]_vars
  PROVE  SalesKnown(listing', stripe', events')
<1>0. /\ IInv /\ SalesKnown(listing, stripe, events)
      /\ stripe \in [Subs -> Subscription] /\ \A s \in Subs : stripe[s] \in Subscription
      /\ events \in Seq(Event) /\ listing \in Listing
      /\ "cut" \notin Faults /\ "lose" \notin Faults
  BY DEF SaleInv, IInv, TypeOK
<1> DEFINE Same == /\ SameSeat(listing, listing')
                   /\ UNCHANGED <<stripe, events>>
<1>1. CASE Same
  BY <1>0, <1>1, SalesKept
<1>2. CASE Tick \/ UNCHANGED vars
  BY <1>1, <1>2 DEF Tick, vars, SameSeat
<1>3. ASSUME NEW s \in Subs, Pay(s) PROVE SalesKnown(listing', stripe', events')
  <2> DEFINE sub == [stripe[s] EXCEPT !.status = "active", !.renews = TRUE,
                                      !.start = now, !.end = now + stripe[s].cycle]
  <2>1. Happens("checkout", s, sub)
    BY <1>3 DEF Pay
  <2>2. sub \in Subscription
    <3>1. now \in Nat /\ stripe[s].cycle \in Nat
      BY <1>0, CyclesAreNumbers DEF IInv, TypeOK, Subscription
    <3>2. now + stripe[s].cycle \in Nat
      BY <3>1
    <3>3. QED
      BY <1>0, <3>1, <3>2 DEF Subscription
  <2> HIDE DEF sub
  <2>3. QED
    BY <2>1, <2>2, HappensKnown
<1>4. ASSUME NEW s \in Subs, Renew(s) \/ Decline(s) \/ Recover(s)
      PROVE  SalesKnown(listing', stripe', events')
  <2>1. SameSale(stripe[s], NextPeriod(stripe[s]))
    BY <1>0, NextPeriodSale
  <2>2. Holds(stripe, s)
    BY <1>4 DEF Renew, Decline, Recover, Due, Held, Holds
  <2>3. /\ NextPeriod(stripe[s]) \in Subscription
        /\ [NextPeriod(stripe[s]) EXCEPT !.status = "past_due"] \in Subscription
        /\ [stripe[s] EXCEPT !.status = "active"] \in Subscription
    BY <1>0, <2>1 DEF SameSale, Subscription
  <2>4. PICK sub \in Subscription : Happens("updated", s, sub)
    BY <1>4, <2>3 DEF Renew, Decline, Recover
  <2>5. QED
    BY <2>2, <2>4, HappensKnown
<1>5. ASSUME NEW s \in Subs, GiveUp(s) \/ Lapse(s)
      PROVE  SalesKnown(listing', stripe', events')
  <2>1. Stopped(stripe[s]) \in Subscription /\ Stopped(stripe[s]).status = "canceled"
    BY <1>0, StoppedSale
  <2>2. Happens("deleted", s, Stopped(stripe[s]))
    BY <1>5 DEF GiveUp, Lapse
  <2>3. QED
    BY <2>1, <2>2, HappensKnown
<1>6. ASSUME NEW s \in Subs, NEW p \in Packages, NEW c \in Cycles,
             CreatePackageCheckout(s, p, c)
      PROVE  SalesKnown(listing', stripe', events')
  <2>1. /\ stripe' = [stripe EXCEPT ![s] = [Unused EXCEPT !.status = "offered", !.bought = p,
                                              !.term = c, !.pkg = p, !.cycle = c]]
        /\ UNCHANGED <<listing, events>>
    BY <1>6 DEF CreatePackageCheckout, Offered
  <2>2. \A t \in Subs : Holds(stripe', t) => Holds(stripe, t)
    BY <1>0, <2>1 DEF Holds, Unused
  <2>3. QED
    BY <1>0, <2>1, <2>2, SalesKept DEF SameSeat
<1>7. CASE ChooseMinimum \/ GetPackageState
             \/ \E p \in Packages, c \in Cycles \cup {NoCycle} : Update(p, c)
  <2>1. SameSeat(listing, listing') /\ UNCHANGED <<stripe, events>>
    BY <1>0, <1>7, SeatsKept DEF ChooseMinimum, GetPackageState, Update, SameSeat, Listing
  <2>2. QED
    BY <1>1, <2>1
<1>8. ASSUME NEW p \in Packages, NEW c \in Cycles, Downgrade(p, c)
      PROVE  SalesKnown(listing', stripe', events')
  <2> DEFINE written == [listing EXCEPT !.pending = p,
                                        !.pendingCycle = IF p = Minimum THEN NoCycle ELSE c,
                                        !.changeAt = EffectiveAt]
  <2>1. Amended(written)
    BY <1>0, <1>8, DowngradeShape
  <2>2. SameSeat(listing, written)
    BY <1>0 DEF SameSeat, Listing
  <2> HIDE DEF written
  <2>3. QED
    BY <2>1, <2>2, AmendedKnown
<1>9. CASE CancelScheduledPackageChange \/ CancelPackage
  <2>1. \/ Amended(NothingQueued(listing))
        \/ \E date \in Nat : Amended(Ending(listing, date))
    BY <1>0, <1>9, KeepShape, CancelShape
  <2>2. QED
    BY <1>0, <2>1, SeatsKept, AmendedKnown
<1>10. CASE ReactivatePackage
  <2> DEFINE written == [listing EXCEPT !.endsAt = NoDate]
  <2>1. Amended(written)
    BY <1>0, <1>10, ReactivateShape
  <2>2. SameSeat(listing, written)
    BY <1>0 DEF SameSeat, Listing
  <2> HIDE DEF written
  <2>3. QED
    BY <2>1, <2>2, AmendedKnown
<1>11. ASSUME NEW s \in Subs, SyncCheckoutSession(s)
       PROVE  SalesKnown(listing', stripe', events')
  BY <1>0, <1>11, ApplyKnown DEF SyncCheckoutSession
<1>12. CASE MarkSold
  <2> DEFINE s == listing.sub
  <2>1. Sold(listing).sold
    BY <1>0 DEF Sold, Listing
  <2>2. CASE ~Stops(s) /\ listing' = Sold(listing) /\ UNCHANGED <<stripe, events>>
    <3>1. \A t \in Subs : Holds(stripe, t) => t # s
      BY <2>2, ListingPackageAssumption DEF Stops, Held, Holds
    <3>2. QED
      BY <1>0, <2>2, <3>1 DEF SalesKnown, Holds
  <2>3. CASE /\ Stops(s)
             /\ stripe' = [stripe EXCEPT ![s] = Stopped(stripe[s])]
             /\ events' = Append(events, EventOf("deleted", s, stripe[s]))
    <3>1. s \in Subs /\ stripe[s] \in Subscription
      BY <1>0, <2>3 DEF Stops, Listing
    <3>2. \A t \in Subs : Holds(stripe', t) => Holds(stripe, t) /\ t # s
      BY <1>0, <2>3, <3>1, StoppedSale DEF Holds
    <3>3. \A t \in Subs : Awaited(t, events) => Awaited(t, events')
      BY <1>0, <2>3, <3>1, EventTyped, AwaitedAppended
    <3>4. QED
      BY <1>0, <3>2, <3>3 DEF SalesKnown
  <2>4. QED
    BY <1>0, <1>12, <2>2, <2>3 DEF MarkSold
<1>13. ASSUME NEW i \in DOMAIN events, Deliver(i)
       PROVE  SalesKnown(listing', stripe', events')
  <2> DEFINE e == events[i]
  <2>1. e \in Event
    BY <1>0, ElementOfSeq
  <2>2. e.sub \in Subs
    BY <2>1 DEF Event
  <2>3. PICK rest \in {RemoveAt(events, i)} \cup
                        (IF "duplicate" \in Faults THEN {events} ELSE {}) :
          \/ e.type = "checkout" /\ ApplyFromSession(e.sub, rest)
          \/ /\ RecordListingRenewal(e) \/ DeactivateListingPackage(e)
             /\ events' = rest
             /\ UNCHANGED stripe
    BY <1>13 DEF Deliver
  <2>4. /\ rest \in Seq(Event)
        /\ \A t \in Subs : Awaited(t, events) =>
             Awaited(t, rest) \/ (e.type = "checkout" /\ e.sub = t)
    BY <1>0, <2>3, Removed, AwaitedRemoved
  <2>5. CASE e.type = "checkout" /\ ApplyFromSession(e.sub, rest)
    BY <1>0, <2>2, <2>4, <2>5, ApplyKnown
  <2>6. CASE /\ RecordListingRenewal(e) \/ DeactivateListingPackage(e)
             /\ events' = rest
             /\ UNCHANGED stripe
    <3>1. e.type # "checkout" /\ SameSeat(listing, listing')
      BY <1>0, <2>6, SeatsKept DEF RecordListingRenewal, DeactivateListingPackage, SameSeat
    <3>2. QED
      BY <1>0, <2>4, <2>6, <3>1, SalesKept
  <2>7. QED
    BY <2>3, <2>5, <2>6
<1>14. ASSUME NEW i \in DOMAIN events, Lose(i) PROVE FALSE
  BY <1>0, <1>14 DEF Lose
<1>15. CASE Stripe
  BY <1>2, <1>3, <1>4, <1>5, <1>15 DEF Stripe
<1>16. CASE Seller
  BY <1>6, <1>7, <1>8, <1>9, <1>10, <1>11, <1>16 DEF Seller
<1>17. QED
  BY <1>2, <1>12, <1>13, <1>14, <1>15, <1>16 DEF Next, Webhook

(* The seller of a listing that is sold is no longer billed for it, for any   *)
(* number of subscriptions, tabs and requests, whatever is repeated, refused  *)
(* or reordered, or asked for meanwhile.  What is excluded is needed: after a *)
(* lost event or a request cut short, Stripe bills what the listing knows     *)
(* nothing of.                                                                *)
THEOREM SoldIsLetGo ==
  ASSUME {"lose", "cut"} \cap Faults = {}
  PROVE  Spec => []SoldIsNotBilled
<1>1. Init => SaleInv
  BY InitBacked DEF SaleInv, SalesKnown, Holds, Init, Unused
<1>2. SaleInv /\ [Next]_vars => SaleInv'
  BY NextBacked, SaleStep DEF SaleInv, SalesKnown, Holds, Awaited
<1>3. SaleInv => SoldIsNotBilled
  <2> SUFFICES ASSUME SaleInv, Quiet, listing.sold, NEW s \in Subs, Held(s) PROVE FALSE
    BY DEF SoldIsNotBilled
  <2>1. Holds(stripe, s) /\ events = <<>>
    BY DEF Held, Holds, Quiet
  <2>2. Awaited(s, events)
    BY <2>1 DEF SaleInv, SalesKnown
  <2>3. QED
    BY <2>1, <2>2 DEF Awaited
<1>4. QED
  BY <1>1, <1>2, <1>3, PTL DEF Spec

--------------------------------------------------------------------------------
(* Paying less waits.  With one checkout open at a time, and none recorded by *)
(* the success page or after a sale, a checkout still open or unrecorded is   *)
(* never for less than the package in force; what is queued is for less, or   *)
(* no more.                                                                   *)
Outstanding(s, held, queue) == held[s].status = "offered" \/ Awaited(s, queue)

Fits(l, sub) ==
  /\ sub.term \in Cycles
  /\ ~(l.active /\ Cheaper(sub.bought, sub.term, l.pkg, l.cycle))

OffersFit(l, held, queue) == \A s \in Subs : Outstanding(s, held, queue) => Fits(l, held[s])

OneOffer(held, queue) ==
  \A s, t \in Subs : (Outstanding(s, held, queue) /\ Outstanding(t, held, queue)) => s = t

QueuedIsLess(l) ==
  l.pending # NoPackage =>
    /\ l.active
    /\ \/ l.pending < l.pkg
       \/ l.pending = l.pkg /\ l.pendingCycle <= Months(l.cycle)

(* No period, and no event's, begins in the future.                           *)
Begun(held, queue, today) ==
  /\ \A s \in Subs : held[s].start <= today
  /\ \A i \in DOMAIN queue : queue[i].start <= today

LessInv ==
  /\ IInv
  /\ OffersFit(listing, stripe, events)
  /\ OneOffer(stripe, events)
  /\ QueuedIsLess(listing)
  /\ Begun(stripe, events, now)

(* l2 is l with its package in force or out of it, its queue kept or gone.    *)
SamePackage(l, l2) ==
  /\ l2.pkg = l.pkg /\ l2.cycle = l.cycle
  /\ l2.active => l.active
  /\ l2.pending # NoPackage => /\ l2.active /\ l2.pending = l.pending
                               /\ l2.pendingCycle = l.pendingCycle

(* l2 is the package that l had queued.                                       *)
Settled(l, l2) ==
  /\ l.pending # NoPackage
  /\ l2.pending = NoPackage /\ l2.pkg = l.pending
  /\ l2.cycle = IF l.pending = Minimum THEN NoCycle ELSE l.pendingCycle

(* Numbers for packages and cycles, and for a cycle that is absent.           *)
LEMMA PackageNumbers ==
  /\ Cycles \subseteq Nat /\ \A c \in Cycles : c >= 1 /\ Months(c) = c
  /\ Months(NoCycle) = 1
  /\ \A c \in Cycles \cup {NoCycle} : c \in Nat /\ Months(c) \in Nat /\ c <= Months(c)
  BY ListingPackageAssumption DEF Months, NoCycle

(* What fitted the package fits it as it stays, and whatever it steps down    *)
(* to.                                                                        *)
LEMMA FitsKept ==
  ASSUME NEW l \in Listing, NEW l2 \in Listing, QueuedIsLess(l),
         SamePackage(l, l2) \/ Settled(l, l2),
         NEW sub \in Subscription, NEW sub2, sub2.bought = sub.bought, sub2.term = sub.term,
         Fits(l, sub)
  PROVE  Fits(l2, sub2)
<1>1. /\ l.pkg \in 0..2 /\ l2.pkg \in 0..2 /\ sub.bought \in 0..2 /\ sub.term \in Cycles
      /\ l.cycle \in Cycles \cup {NoCycle} /\ l.pendingCycle \in Cycles \cup {NoCycle}
  BY DEF Listing, Packages, Subscription, Fits
<1>2. CASE SamePackage(l, l2)
  BY <1>1, <1>2 DEF SamePackage, Fits
<1>3. CASE Settled(l, l2)
  <2>1. /\ l.active /\ l2.pkg = l.pending
        /\ \/ l.pending < l.pkg
           \/ l.pending = l.pkg /\ l.pendingCycle <= Months(l.cycle)
    BY <1>3 DEF Settled, QueuedIsLess
  <2>2. ~Cheaper(sub.bought, sub.term, l.pkg, l.cycle)
    BY <2>1 DEF Fits
  <2>3. CASE l2.pkg < l.pkg
    <3>1. l2.pkg < sub.bought
      BY <1>1, <2>2, <2>3 DEF Cheaper
    <3>2. QED
      BY <1>1, <3>1 DEF Fits, Cheaper
  <2>4. CASE l2.pkg = l.pkg /\ l.pendingCycle <= Months(l.cycle)
    <3>1. l2.cycle \in {NoCycle, l.pendingCycle}
      BY <1>3 DEF Settled
    <3>2. Months(l2.cycle) \in {1, l.pendingCycle}
      BY <1>1, <3>1, PackageNumbers DEF Months
    <3>3. sub.term >= 1 /\ sub.term \in Nat /\ l.pendingCycle \in Nat
      BY <1>1, PackageNumbers
    <3>4. ASSUME sub.bought = l.pkg PROVE ~(sub.term < Months(l2.cycle))
      <4>1. ~(sub.term < Months(l.cycle)) /\ Months(l.cycle) \in Nat
        BY <1>1, <2>2, <3>4, PackageNumbers DEF Cheaper
      <4>2. QED
        BY <2>4, <3>2, <3>3, <4>1
    <3>5. ~(sub.bought < l.pkg)
      BY <2>2 DEF Cheaper
    <3>6. QED
      BY <1>1, <2>4, <3>4, <3>5 DEF Fits, Cheaper
  <2>5. QED
    BY <2>1, <2>3, <2>4
<1>4. QED
  BY <1>2, <1>3

(* What is queued stays less, or nothing is queued.                           *)
LEMMA QueuedKept ==
  ASSUME NEW l, NEW l2, QueuedIsLess(l), SamePackage(l, l2) \/ Settled(l, l2)
  PROVE  QueuedIsLess(l2)
  BY DEF QueuedIsLess, SamePackage, Settled

(* What is written of the package, but for a payment recorded.                *)
LEMMA PackageShapes ==
  ASSUME NEW l \in Listing, QueuedIsLess(l)
  PROVE  /\ SamePackage(l, l) /\ SamePackage(l, NothingQueued(l))
         /\ SamePackage(l, Deactivated(l))
         /\ \A date : SamePackage(l, Ending(l, date))
         /\ l.pending # NoPackage => Settled(l, Settle(l))
         /\ SamePackage(l, [l EXCEPT !.endsAt = NoDate])
         /\ \A e : SamePackage(l, Renewed(l, e)) \/
                   (Settled(l, Renewed(l, e)) /\ e.start >= l.changeAt)
<1>1. /\ SamePackage(l, l) /\ SamePackage(l, NothingQueued(l))
      /\ SamePackage(l, Deactivated(l))
      /\ \A date : SamePackage(l, Ending(l, date))
      /\ SamePackage(l, [l EXCEPT !.endsAt = NoDate])
  BY DEF QueuedIsLess, SamePackage, NothingQueued, Deactivated, Ending, Listing
<1>2. l.pending # NoPackage => Settled(l, Settle(l))
  BY DEF Settled, Settle, NothingQueued, Listing
<1>3. ASSUME NEW e
      PROVE  SamePackage(l, Renewed(l, e)) \/
               (Settled(l, Renewed(l, e)) /\ e.start >= l.changeAt)
  <2>1. SamePackage(l, [l EXCEPT !.expires = e.end])
    BY DEF QueuedIsLess, SamePackage, Listing
  <2>2. ASSUME l.pending \in Packages \ {Minimum}
        PROVE  Settled(l, [Settle(l) EXCEPT !.expires = e.end])
    BY <2>2 DEF Settled, Settle, NothingQueued, Listing, Packages, NoPackage
  <2>3. QED
    BY <2>1, <2>2 DEF Renewed
<1>4. QED
  BY <1>1, <1>2, <1>3

PaysLess(l, l2) ==
  l.active /\ l2.active /\ Cheaper(l2.pkg, Months(l2.cycle), l.pkg, l.cycle)

(* The step is one that may pay less: the change was queued and is due.       *)
Waited(l, l2, today) == PaysLess(l, l2) => l.pending = l2.pkg /\ l.changeAt <= today

Lesser(l, held, queue, today) ==
  /\ OffersFit(l, held, queue) /\ OneOffer(held, queue)
  /\ QueuedIsLess(l) /\ Begun(held, queue, today)

(* Who stays with a package, or takes the queued one when it is due, waits.   *)
LEMMA StepsDownWait ==
  ASSUME NEW l \in Listing, NEW l2 \in Listing, NEW today,
         SamePackage(l, l2) \/ (Settled(l, l2) /\ l.changeAt <= today)
  PROVE  Waited(l, l2, today)
<1>1. CASE SamePackage(l, l2)
  <2>1. l.pkg \in 0..2 /\ Months(l.cycle) \in Nat
    BY PackageNumbers DEF Listing, Packages
  <2>2. QED
    BY <1>1, <2>1 DEF SamePackage, Waited, PaysLess, Cheaper
<1>2. QED
  BY <1>1 DEF Settled, Waited

(* The invariant, from its parts in the next state.                           *)
LEMMA LesserKept ==
  ASSUME NEW l, NEW held, NEW queue, NEW today, Lesser(l, held, queue, today),
         NEW l2, NEW held2, NEW queue2, NEW today2,
         \A s \in Subs : Outstanding(s, held2, queue2) => Outstanding(s, held, queue),
         \A s \in Subs : Fits(l, held[s]) => Fits(l2, held2[s]),
         QueuedIsLess(l2), Begun(held2, queue2, today2)
  PROVE  Lesser(l2, held2, queue2, today2)
  BY DEF Lesser, OffersFit, OneOffer

(* A queue with one event more is one whose periods have begun.               *)
LEMMA BegunAppended ==
  ASSUME NEW held, NEW held2, NEW queue \in Seq(Event), NEW today, Begun(held, queue, today),
         \A s \in Subs : held2[s].start <= today,
         NEW e \in Event, e.start <= today
  PROVE  Begun(held2, Append(queue, e), today)
  BY Appended DEF Begun

(* What Stripe does by itself leaves open and queued what was, or less.       *)
LEMMA HappensLesser ==
  ASSUME LessInv, NEW type \in {"checkout", "updated", "deleted"}, NEW s \in Subs,
         NEW STATE sub, sub \in Subscription,
         sub.bought = stripe[s].bought, sub.term = stripe[s].term,
         sub.status # "offered", sub.start <= now,
         type = "checkout" => stripe[s].status = "offered",
         Happens(type, s, sub)
  PROVE  /\ Lesser(listing', stripe', events', now')
         /\ Waited(listing, listing', now)
<1>1. /\ IInv /\ Lesser(listing, stripe, events, now) /\ listing \in Listing
      /\ stripe \in [Subs -> Subscription] /\ events \in Seq(Event)
      /\ stripe' = [stripe EXCEPT ![s] = sub] /\ listing' = listing /\ now' = now
      /\ events' = Append(events, EventOf(type, s, sub))
  BY DEF LessInv, IInv, TypeOK, Happens, Lesser
<1> DEFINE e == EventOf(type, s, sub)
<1>2. e \in Event /\ e.type = type /\ e.sub = s /\ e.start = sub.start
  BY EventTyped DEF EventOf
<1> HIDE DEF e
<1>3. \A t \in Subs :
        Awaited(t, events') <=> Awaited(t, events) \/ (e.type = "checkout" /\ e.sub = t)
  BY <1>1, <1>2, AwaitedAppended DEF e
<1>4. \A t \in Subs : Outstanding(t, stripe', events') => Outstanding(t, stripe, events)
  BY <1>1, <1>2, <1>3 DEF Outstanding
<1>5. \A t \in Subs : Fits(listing, stripe[t]) => Fits(listing', stripe'[t])
  BY <1>1 DEF Fits
<1>6. Begun(stripe', events', now')
  <2>1. \A t \in Subs : stripe'[t].start <= now
    BY <1>1 DEF Lesser, Begun
  <2>2. QED
    BY <1>1, <1>2, <2>1, BegunAppended DEF Lesser, e
<1>7. SamePackage(listing, listing')
  BY <1>1, PackageShapes DEF Lesser
<1>8. QED
  BY <1>1, <1>4, <1>5, <1>6, <1>7, LesserKept, StepsDownWait DEF Lesser

(* A request that amends the subscription leaves the package as it is.        *)
LEMMA AmendedLesser ==
  ASSUME LessInv, NEW STATE written, written \in Listing, QueuedIsLess(written),
         written.pkg = listing.pkg, written.cycle = listing.cycle,
         written.active = listing.active, Amended(written)
  PROVE  /\ Lesser(listing', stripe', events', now')
         /\ Waited(listing, listing', now)
<1>1. /\ IInv /\ Lesser(listing, stripe, events, now) /\ listing \in Listing
      /\ events \in Seq(Event) /\ now' = now
      /\ listing' \in {listing, written}
      /\ \A s \in Subs : SameDeal(stripe[s], stripe'[s])
  BY DEF LessInv, IInv, TypeOK, Lesser, Amended
<1>2. /\ \A s \in Subs : Fits(listing, stripe[s]) => Fits(listing', stripe'[s])
      /\ QueuedIsLess(listing')
  BY <1>1 DEF Fits, SameDeal, Lesser
<1>3. \A s \in Subs : stripe'[s].start <= now
  BY <1>1 DEF Lesser, Begun, SameDeal
<1>4. /\ \A s \in Subs : Awaited(s, events') => Awaited(s, events)
      /\ Begun(stripe', events', now')
  <2>1. CASE events' = events
    BY <1>1, <1>3, <2>1 DEF Lesser, Begun
  <2>2. ASSUME NEW e \in Event, NEW s \in Subs, e.type = "updated",
               e.start = stripe[s].start, events' = Append(events, e)
        PROVE  /\ \A t \in Subs : Awaited(t, events') => Awaited(t, events)
               /\ Begun(stripe', events', now')
    <3>1. \A t \in Subs : Awaited(t, events') => Awaited(t, events)
      BY <1>1, <2>2, AwaitedAppended
    <3>2. e.start <= now
      BY <1>1, <2>2 DEF Lesser, Begun
    <3>3. QED
      BY <1>1, <1>3, <2>2, <3>1, <3>2, BegunAppended DEF Lesser
  <2>3. QED
    BY <2>1, <2>2 DEF Amended
<1>5. \A s \in Subs : Outstanding(s, stripe', events') => Outstanding(s, stripe, events)
  BY <1>1, <1>4 DEF Outstanding, SameDeal
<1>6. ~PaysLess(listing, listing')
  <2>1. listing.pkg \in 0..2 /\ Months(listing.cycle) \in Nat
    BY <1>1, PackageNumbers DEF Listing, Packages
  <2>2. QED
    BY <1>1, <2>1 DEF PaysLess, Cheaper
<1>7. QED
  BY <1>1, <1>2, <1>4, <1>5, <1>6, LesserKept DEF Waited

(* A write of the listing alone that stays with the package, or takes the one *)
(* queued.                                                                    *)
LEMMA ListingLesser ==
  ASSUME LessInv, listing' \in Listing,
         SamePackage(listing, listing') \/
           (Settled(listing, listing') /\ listing.changeAt <= now),
         stripe' = stripe, now' \in Nat, now <= now',
         events' \in Seq(Event), Begun(stripe, events', now'),
         \A s \in Subs : Awaited(s, events') => Awaited(s, events)
  PROVE  /\ Lesser(listing', stripe', events', now')
         /\ Waited(listing, listing', now)
<1>1. /\ Lesser(listing, stripe, events, now) /\ listing \in Listing
      /\ stripe \in [Subs -> Subscription]
  BY DEF LessInv, IInv, TypeOK, Lesser
<1>2. QueuedIsLess(listing')
  BY <1>1, QueuedKept DEF Lesser
<1>3. \A s \in Subs : Fits(listing, stripe[s]) => Fits(listing', stripe'[s])
  BY <1>1, FitsKept DEF Lesser
<1>4. \A s \in Subs : Outstanding(s, stripe', events') => Outstanding(s, stripe, events)
  BY DEF Outstanding
<1>5. QED
  BY <1>1, <1>2, <1>3, <1>4, LesserKept, StepsDownWait

(* A checkout is opened with no other open, and not for less than is had.     *)
LEMMA CheckoutLesser ==
  ASSUME "tabs" \notin Requests, LessInv, NEW s \in Subs, NEW p \in Packages, NEW c \in Cycles,
         CreatePackageCheckout(s, p, c)
  PROVE  /\ Lesser(listing', stripe', events', now')
         /\ Waited(listing, listing', now)
<1> DEFINE sub == [Unused EXCEPT !.status = "offered", !.bought = p, !.term = c,
                                 !.pkg = p, !.cycle = c]
<1>1. /\ Lesser(listing, stripe, events, now) /\ listing \in Listing
      /\ stripe \in [Subs -> Subscription] /\ now \in 1..Horizon
      /\ stripe' = [stripe EXCEPT ![s] = sub]
      /\ UNCHANGED <<now, events, listing>>
      /\ AllRecorded /\ ~IsDowngrade(p, c)
  BY DEF LessInv, IInv, TypeOK, Lesser, CreatePackageCheckout, Offered
<1>2. sub.bought = p /\ sub.term = c /\ sub.start = 0
  BY DEF Unused, NoDate
<1> HIDE DEF sub
<1>3. \A t \in Subs : Outstanding(t, stripe', events') => t = s
  BY <1>1 DEF AllRecorded, Outstanding, Awaited
<1>4. Fits(listing', stripe'[s])
  BY <1>1, <1>2 DEF Fits, IsDowngrade
<1>5. Begun(stripe', events', now')
  BY <1>1, <1>2 DEF Lesser, Begun
<1>6. SamePackage(listing, listing')
  BY <1>1, PackageShapes DEF Lesser
<1>7. Waited(listing, listing', now)
  BY <1>1, <1>6, StepsDownWait
<1>8. OffersFit(listing', stripe', events') /\ OneOffer(stripe', events')
  BY <1>3, <1>4 DEF OffersFit, OneOffer
<1>9. QED
  BY <1>1, <1>5, <1>7, <1>8 DEF Lesser

(* The free package is chosen where no paid one is in force.                  *)
LEMMA MinimumLesser ==
  ASSUME LessInv, ChooseMinimum
  PROVE  /\ Lesser(listing', stripe', events', now')
         /\ Waited(listing, listing', now)
<1>1. /\ Lesser(listing, stripe, events, now) /\ listing \in Listing
      /\ stripe \in [Subs -> Subscription]
      /\ UNCHANGED <<now, stripe, events>> /\ ~IsDowngrade(Minimum, 1)
  BY Asked DEF LessInv, IInv, TypeOK, Lesser, ChooseMinimum
<1>2. /\ listing'.pkg = 0 /\ listing'.cycle = NoCycle
      /\ listing'.pending = listing.pending
      /\ listing'.pendingCycle = listing.pendingCycle
      /\ listing'.active
  BY <1>1 DEF ChooseMinimum, Listing, Minimum
<1>3. listing.pkg \in 0..2 /\ Months(listing.cycle) \in Nat
  BY <1>1, PackageNumbers DEF Listing, Packages
<1>4. listing.active => listing.pkg = 0 /\ Months(listing.cycle) <= 1
  BY <1>1, <1>3 DEF IsDowngrade, Cheaper, Minimum
<1>5. QueuedIsLess(listing')
  <2>1. CASE listing.pending = NoPackage
    BY <1>2, <2>1 DEF QueuedIsLess
  <2>2. CASE listing.pending # NoPackage
    <3>1. listing.pending \in 0..2 /\ listing.pendingCycle \in Nat
      BY <1>1, <2>2, PackageNumbers DEF Listing, Packages
    <3>2. listing.pending = 0 /\ listing.pendingCycle <= 1
      BY <1>1, <1>3, <1>4, <2>2, <3>1 DEF Lesser, QueuedIsLess
    <3>3. QED
      BY <1>2, <3>2, PackageNumbers DEF QueuedIsLess
  <2>3. QED
    BY <2>1, <2>2
<1>6. \A t \in Subs : Fits(listing, stripe[t]) => Fits(listing', stripe'[t])
  <2>1. \A t \in Subs : stripe[t].bought \in 0..2
    BY <1>1 DEF Subscription, Packages
  <2>2. \A t \in Subs : stripe[t].term \in Cycles =>
          stripe[t].term \in Nat /\ stripe[t].term >= 1
    BY PackageNumbers
  <2>3. QED
    BY <1>1, <1>2, <2>1, <2>2, PackageNumbers DEF Fits, Cheaper
<1>7. ~PaysLess(listing, listing')
  BY <1>2, <1>3, <1>4, PackageNumbers DEF PaysLess, Cheaper
<1>8. \A t \in Subs : Outstanding(t, stripe', events') => Outstanding(t, stripe, events)
  BY <1>1
<1>9. Begun(stripe', events', now')
  BY <1>1 DEF Lesser
<1>10. QED
  BY <1>1, <1>5, <1>6, <1>7, <1>8, <1>9, LesserKept DEF Waited

(* What the form writes while nothing is switched on gives up nothing.        *)
LEMMA UpdateLesser ==
  ASSUME "edit" \notin Requests, LessInv, NEW p \in Packages,
         NEW c \in Cycles \cup {NoCycle}, Update(p, c)
  PROVE  /\ Lesser(listing', stripe', events', now')
         /\ Waited(listing, listing', now)
<1>1. /\ Lesser(listing, stripe, events, now) /\ listing \in Listing
      /\ UNCHANGED <<now, stripe, events>> /\ ~listing.active
      /\ listing' = [listing EXCEPT !.pkg = p, !.cycle = c]
  BY Asked DEF LessInv, IInv, TypeOK, Lesser, Update, Asks
<1>2. ~listing'.active /\ listing'.pending = NoPackage
  BY <1>1 DEF Lesser, QueuedIsLess, Listing
<1>3. QueuedIsLess(listing')
  BY <1>2 DEF QueuedIsLess
<1>4. \A t \in Subs : Fits(listing, stripe[t]) => Fits(listing', stripe'[t])
  BY <1>1, <1>2 DEF Fits
<1>5. \A t \in Subs : Outstanding(t, stripe', events') => Outstanding(t, stripe, events)
  BY <1>1
<1>6. Begun(stripe', events', now')
  BY <1>1 DEF Lesser
<1>7. QED
  BY <1>1, <1>2, <1>3, <1>4, <1>5, <1>6, LesserKept DEF Waited, PaysLess

(* What a downgrade queues is less.                                           *)
LEMMA DowngradeLesser ==
  ASSUME LessInv, NEW p \in Packages, NEW c \in Cycles, Downgrade(p, c)
  PROVE  /\ Lesser(listing', stripe', events', now')
         /\ Waited(listing, listing', now)
<1> DEFINE cycle == IF p = Minimum THEN NoCycle ELSE c
           written == [listing EXCEPT !.pending = p, !.pendingCycle = cycle,
                                      !.changeAt = EffectiveAt]
<1>1. IInv /\ listing \in Listing /\ EffectiveAt \in Nat
  BY DatesAreNumbers DEF LessInv, IInv, TypeOK
<1>2. IsDowngrade(p, c) /\ Amended(written)
  BY <1>1, DowngradeShape
<1>3. cycle \in Cycles \cup {NoCycle} /\ cycle \in Nat /\ cycle <= c
  BY PackageNumbers DEF NoCycle
<1> HIDE DEF cycle
<1>4. /\ written \in Listing /\ written.pending = p /\ written.pendingCycle = cycle
      /\ written.pkg = listing.pkg /\ written.cycle = listing.cycle
      /\ written.active = listing.active
  BY <1>1, <1>3 DEF Listing
<1> HIDE DEF written
<1>5. QueuedIsLess(written)
  <2>1. c \in Nat /\ Months(listing.cycle) \in Nat
    BY <1>1, PackageNumbers DEF Listing
  <2>2. /\ listing.active
        /\ p < listing.pkg \/ (p = listing.pkg /\ c < Months(listing.cycle))
    BY <1>2 DEF IsDowngrade, Cheaper
  <2>3. QED
    BY <1>3, <1>4, <2>1, <2>2 DEF QueuedIsLess
<1>6. QED
  BY <1>2, <1>4, <1>5, AmendedLesser

(* Recording a checkout that was still to be recorded pays no less.           *)
LEMMA ApplyLesser ==
  ASSUME LessInv, NEW STATE s, s \in Subs, Awaited(s, events),
         NEW STATE rest, rest \in Seq(Event), Begun(stripe, rest, now),
         \A t \in Subs : Awaited(t, rest) => Awaited(t, events),
         now' = now, ApplyFromSession(s, rest)
  PROVE  /\ Lesser(listing', stripe', events', now')
         /\ Waited(listing, listing', now)
<1> DEFINE old == listing.sub
<1>1. /\ Lesser(listing, stripe, events, now) /\ listing \in Listing
      /\ stripe \in [Subs -> Subscription] /\ events \in Seq(Event)
      /\ stripe[s].bought \in 0..2
  BY DEF LessInv, IInv, TypeOK, Lesser, Subscription, Packages
<1>2. /\ listing'.pkg = stripe[s].bought /\ listing'.cycle = stripe[s].term
      /\ listing'.pending = NoPackage
  BY <1>1 DEF ApplyFromSession, Activated, NothingQueued, Listing
<1>3. Outstanding(s, stripe, events) /\ Fits(listing, stripe[s])
  BY <1>1 DEF Outstanding, Lesser, OffersFit
<1>4. /\ stripe[s].term \in Cycles /\ stripe[s].term \in Nat
      /\ Months(stripe[s].term) = stripe[s].term
  BY <1>3, PackageNumbers DEF Fits
<1>5. Waited(listing, listing', now)
  BY <1>2, <1>3, <1>4 DEF Waited, PaysLess, Fits
<1>6. Fits(listing', stripe[s])
  BY <1>1, <1>2, <1>4 DEF Fits, Cheaper
<1>7. /\ stripe'[s] = stripe[s]
      /\ \A t \in Subs : Outstanding(t, stripe', events') => Outstanding(t, stripe, events)
      /\ Begun(stripe', events', now')
  <2>1. CASE events' = rest /\ UNCHANGED stripe
    BY <2>1 DEF Outstanding
  <2>2. CASE /\ Replaces(old, s)
             /\ stripe' = [stripe EXCEPT ![old] = Stopped(stripe[old])]
             /\ events' = Append(rest, EventOf("deleted", old, stripe[old]))
    <3> DEFINE e == EventOf("deleted", old, stripe[old])
    <3>1. old \in Subs /\ old # s /\ stripe[old] \in Subscription
      BY <1>1, <2>2 DEF Replaces, Listing
    <3>2. e \in Event /\ e.type = "deleted" /\ e.start = stripe[old].start
      BY <3>1, EventTyped DEF EventOf
    <3> HIDE DEF e
    <3>3. e.start <= now
      BY <1>1, <3>1, <3>2 DEF Lesser, Begun
    <3>4. Stopped(stripe[old]).status = "canceled" /\
          Stopped(stripe[old]).start = stripe[old].start
      BY <3>1 DEF Stopped, Released, Subscription
    <3>5. /\ stripe'[s] = stripe[s]
          /\ \A t \in Subs : stripe'[t].start = stripe[t].start
          /\ \A t \in Subs : stripe'[t].status = "offered" => stripe[t].status = "offered"
      BY <1>1, <2>2, <3>1, <3>4
    <3>6. \A t \in Subs : stripe'[t].start <= now
      BY <3>5 DEF Begun
    <3>7. Begun(stripe', events', now')
      BY <2>2, <3>2, <3>3, <3>6, BegunAppended DEF e
    <3>8. \A t \in Subs : Awaited(t, events') => Awaited(t, rest)
      BY <2>2, <3>2, AwaitedAppended DEF e
    <3>9. QED
      BY <3>5, <3>7, <3>8 DEF Outstanding
  <2>3. QED
    BY <2>1, <2>2 DEF ApplyFromSession
<1>8. \A t \in Subs : Outstanding(t, stripe', events') => t = s
  BY <1>1, <1>3, <1>7 DEF Lesser, OneOffer
<1>9. OffersFit(listing', stripe', events') /\ OneOffer(stripe', events')
  BY <1>6, <1>7, <1>8 DEF OffersFit, OneOffer
<1>10. QueuedIsLess(listing')
  BY <1>2 DEF QueuedIsLess
<1>11. QED
  BY <1>5, <1>7, <1>9, <1>10 DEF Lesser

(* A new period begins where the last one ended; what was sold is as it was.  *)
LEMMA NextPeriodBegins ==
  ASSUME NEW sub \in Subscription
  PROVE  /\ NextPeriod(sub).bought = sub.bought /\ NextPeriod(sub).term = sub.term
         /\ NextPeriod(sub).status = sub.status /\ NextPeriod(sub).start = sub.end
<1> DEFINE priced == IF Scheduled(sub)
                     THEN [Released(sub) EXCEPT !.pkg = sub.next, !.cycle = sub.nextCycle]
                     ELSE sub
           end == sub.end + priced.cycle
<1>1. /\ priced \in Subscription /\ priced.bought = sub.bought
      /\ priced.term = sub.term /\ priced.status = sub.status
  BY CyclesAreNumbers DEF Released, Scheduled, Subscription
<1>2. NextPeriod(sub) = [priced EXCEPT !.start = sub.end, !.end = end]
  BY DEF NextPeriod
<1> HIDE DEF priced, end
<1>3. QED
  BY <1>1, <1>2 DEF Subscription

(* Stripe's own steps leave open and queued what was.                         *)
LEMMA StripeLesser ==
  ASSUME LessInv, Stripe
  PROVE  /\ Lesser(listing', stripe', events', now')
         /\ Waited(listing, listing', now)
<1> DEFINE Goal == /\ Lesser(listing', stripe', events', now')
                   /\ Waited(listing, listing', now)
<1>0. /\ Lesser(listing, stripe, events, now) /\ listing \in Listing
      /\ stripe \in [Subs -> Subscription] /\ now \in Nat
      /\ \A s \in Subs : stripe[s] \in Subscription /\ stripe[s].start <= now
      /\ events \in Seq(Event)
  BY DEF LessInv, IInv, TypeOK, Lesser, Begun
<1>1. CASE Tick
  <2>1. now' = now + 1 /\ UNCHANGED <<stripe, events, listing>>
    BY <1>1 DEF Tick
  <2>2. now' \in Nat /\ now <= now'
    BY <1>0, <2>1
  <2>3. events = <<>>
    BY <1>1 DEF Tick, Quiet
  <2>4. \A s \in Subs : stripe[s].start \in Nat
    BY <1>0 DEF Subscription
  <2>5. Begun(stripe, events', now')
    <3>1. \A s \in Subs : stripe[s].start <= now'
      BY <1>0, <2>2, <2>4
    <3>2. QED
      BY <2>1, <2>3, <3>1 DEF Begun
  <2>6. SamePackage(listing, listing')
    BY <1>0, <2>1, PackageShapes DEF Lesser
  <2>7. QED
    BY <1>0, <2>1, <2>2, <2>5, <2>6, ListingLesser
<1>2. ASSUME NEW s \in Subs, Pay(s) PROVE Goal
  <2> DEFINE end == now + stripe[s].cycle
             sub == [stripe[s] EXCEPT !.status = "active", !.renews = TRUE,
                                      !.start = now, !.end = now + stripe[s].cycle]
  <2>1. Happens("checkout", s, sub) /\ stripe[s].status = "offered"
    BY <1>2 DEF Pay
  <2>2. end \in Nat
    <3>1. stripe[s].cycle \in Nat
      BY <1>0, CyclesAreNumbers DEF Subscription
    <3>2. QED
      BY <1>0, <3>1
  <2>3. sub = [stripe[s] EXCEPT !.status = "active", !.renews = TRUE,
                                !.start = now, !.end = end]
    OBVIOUS
  <2> HIDE DEF sub, end
  <2>4. /\ sub \in Subscription /\ sub.bought = stripe[s].bought
        /\ sub.term = stripe[s].term /\ sub.status = "active" /\ sub.start = now
    BY <1>0, <2>2, <2>3 DEF Subscription
  <2>5. sub.status # "offered" /\ sub.start <= now
    BY <1>0, <2>4
  <2>6. QED
    BY <2>1, <2>4, <2>5, HappensLesser
<1>3. ASSUME NEW s \in Subs, Renew(s) \/ Decline(s) PROVE Goal
  <2> DEFINE next == NextPeriod(stripe[s])
  <2>1. /\ next \in Subscription
        /\ next.bought = stripe[s].bought /\ next.term = stripe[s].term
        /\ next.status = stripe[s].status /\ next.start = stripe[s].end
    BY <1>0, NextPeriodSale, NextPeriodBegins DEF SameSale
  <2>2. stripe[s].status = "active" /\ stripe[s].end <= now
    BY <1>3 DEF Renew, Decline, Due
  <2> HIDE DEF next
  <2>3. PICK sub \in {next, [next EXCEPT !.status = "past_due"]} : Happens("updated", s, sub)
    BY <1>3 DEF Renew, Decline, next
  <2>4. /\ sub \in Subscription /\ sub.bought = stripe[s].bought
        /\ sub.term = stripe[s].term /\ sub.status # "offered" /\ sub.start <= now
    BY <2>1, <2>2, <2>3 DEF Subscription
  <2>5. QED
    BY <2>3, <2>4, HappensLesser
<1>4. ASSUME NEW s \in Subs, Recover(s) PROVE Goal
  <2> DEFINE sub == [stripe[s] EXCEPT !.status = "active"]
  <2>1. Happens("updated", s, sub)
    BY <1>4 DEF Recover
  <2>2. /\ sub \in Subscription /\ sub.bought = stripe[s].bought
        /\ sub.term = stripe[s].term /\ sub.status = "active" /\ sub.start <= now
    BY <1>0 DEF Subscription
  <2> HIDE DEF sub
  <2>3. QED
    BY <2>1, <2>2, HappensLesser
<1>5. ASSUME NEW s \in Subs, GiveUp(s) \/ Lapse(s) PROVE Goal
  <2> DEFINE sub == Stopped(stripe[s])
  <2>1. Happens("deleted", s, sub)
    BY <1>5 DEF GiveUp, Lapse
  <2>2. /\ sub \in Subscription /\ sub.bought = stripe[s].bought
        /\ sub.term = stripe[s].term /\ sub.status = "canceled" /\ sub.start <= now
    BY <1>0, StoppedSale, ZenonT(60) DEF Stopped, Released, Subscription
  <2> HIDE DEF sub
  <2>3. QED
    BY <2>1, <2>2, HappensLesser
<1>6. QED
  BY <1>1, <1>2, <1>3, <1>4, <1>5 DEF Stripe

(* The webhook's steps pay no less, but for a queued change that is due.      *)
LEMMA WebhookLesser ==
  ASSUME LessInv, Webhook
  PROVE  /\ Lesser(listing', stripe', events', now')
         /\ Waited(listing, listing', now)
<1> DEFINE Goal == /\ Lesser(listing', stripe', events', now')
                   /\ Waited(listing, listing', now)
<1>0. /\ IInv /\ Lesser(listing, stripe, events, now) /\ listing \in Listing
      /\ stripe \in [Subs -> Subscription] /\ now \in Nat
      /\ events \in Seq(Event) /\ QueuedIsLess(listing) /\ Begun(stripe, events, now)
  BY DEF LessInv, IInv, TypeOK, Lesser
<1>1. ASSUME NEW i \in DOMAIN events
      PROVE  /\ RemoveAt(events, i) \in Seq(Event)
             /\ Begun(stripe, RemoveAt(events, i), now)
             /\ \A t \in Subs : Awaited(t, RemoveAt(events, i)) => Awaited(t, events)
  BY <1>0, Removed, AwaitedRemoved DEF Begun
<1>2. ASSUME NEW i \in DOMAIN events, Lose(i) PROVE Goal
  <2>1. events' = RemoveAt(events, i) /\ UNCHANGED <<now, stripe, listing>>
    BY <1>2 DEF Lose
  <2>2. SamePackage(listing, listing')
    BY <1>0, <2>1, PackageShapes
  <2>3. QED
    BY <1>0, <1>1, <2>1, <2>2, ListingLesser
<1>3. ASSUME NEW i \in DOMAIN events, Deliver(i) PROVE Goal
  <2> DEFINE e == events[i]
  <2>1. e \in Event
    BY <1>0, ElementOfSeq
  <2>2. e.sub \in Subs /\ e.start \in Nat /\ e.start <= now
    BY <1>0, <2>1 DEF Event, Begun
  <2>3. PICK rest \in {RemoveAt(events, i)} \cup
                        (IF "duplicate" \in Faults THEN {events} ELSE {}) :
          \/ e.type = "checkout" /\ ApplyFromSession(e.sub, rest)
          \/ /\ RecordListingRenewal(e) \/ DeactivateListingPackage(e)
             /\ events' = rest
             /\ UNCHANGED stripe
    BY <1>3 DEF Deliver
  <2>4. now' = now
    BY <1>3 DEF Deliver
  <2>5. /\ rest \in Seq(Event) /\ Begun(stripe, rest, now)
        /\ \A t \in Subs : Awaited(t, rest) => Awaited(t, events)
    BY <1>0, <1>1, <2>3
  <2>6. CASE e.type = "checkout" /\ ApplyFromSession(e.sub, rest)
    <3>1. Awaited(e.sub, events)
      BY <2>6 DEF Awaited
    <3>2. QED
      BY <2>2, <2>4, <2>5, <2>6, <3>1, ApplyLesser
  <2>7. CASE /\ RecordListingRenewal(e) \/ DeactivateListingPackage(e)
             /\ events' = rest
             /\ UNCHANGED stripe
    <3>1. listing' \in {listing, Renewed(listing, e), Deactivated(listing)}
      BY <2>7 DEF RecordListingRenewal, DeactivateListingPackage
    <3>2. listing' \in Listing
      BY <1>0, <2>1, <3>1, RenewedListing, DeactivatedListing DEF IInv
    <3>3. \/ SamePackage(listing, listing')
          \/ Settled(listing, listing') /\ e.start >= listing.changeAt
      BY <1>0, <3>1, PackageShapes
    <3>4. listing.changeAt \in Nat
      BY <1>0 DEF Listing
    <3>5. e.start >= listing.changeAt => listing.changeAt <= now
      BY <1>0, <2>2, <3>4
    <3>6. QED
      BY <1>0, <2>4, <2>5, <2>7, <3>2, <3>3, <3>5, ListingLesser
  <2>8. QED
    BY <2>3, <2>6, <2>7
<1>4. QED
  BY <1>2, <1>3 DEF Webhook

(* Every step that these requests allow pays no less, but for a queued change *)
(* that is due.                                                               *)
LEMMA LesserStep ==
  ASSUME {"edit", "tabs", "confirm", "sold"} \cap Requests = {}, LessInv, [Next]_vars
  PROVE  /\ Lesser(listing', stripe', events', now')
         /\ Waited(listing, listing', now)
<1> DEFINE Goal == /\ Lesser(listing', stripe', events', now')
                   /\ Waited(listing, listing', now)
<1>0. /\ IInv /\ Lesser(listing, stripe, events, now) /\ listing \in Listing
      /\ IInv' /\ listing' \in Listing
      /\ events \in Seq(Event) /\ now \in Nat
      /\ QueuedIsLess(listing) /\ Begun(stripe, events, now)
  BY NextBacked DEF LessInv, IInv, TypeOK, Lesser
<1>1. CASE UNCHANGED vars
  <2>1. UNCHANGED <<now, stripe, events, listing>>
    BY <1>1 DEF vars
  <2>2. SamePackage(listing, listing')
    BY <1>0, <2>1, PackageShapes
  <2>3. QED
    BY <1>0, <2>1, <2>2, ListingLesser
<1>2. CASE GetPackageState
  <2>1. /\ UNCHANGED <<now, stripe, events>> /\ listing' = Settle(listing)
        /\ listing.pending # NoPackage /\ listing.changeAt <= now
    BY <1>2 DEF GetPackageState, ChangeIsDue
  <2>2. Settled(listing, listing')
    BY <1>0, <2>1, PackageShapes
  <2>3. QED
    BY <1>0, <2>1, <2>2, ListingLesser
<1>3. ASSUME NEW written, written \in Listing, SamePackage(listing, written),
             written.active = listing.active, Amended(written)
      PROVE  Goal
  <2>1. CASE listing' = listing
    <3>1. Amended(listing)
      BY <1>3, <2>1 DEF Amended
    <3>2. QED
      BY <1>0, <3>1, AmendedLesser
  <2>2. CASE listing' = written
    <3>1. QueuedIsLess(written)
      BY <1>0, <1>3, QueuedKept
    <3>2. QED
      BY <1>3, <3>1, AmendedLesser DEF SamePackage
  <2>3. QED
    BY <1>3, <2>1, <2>2 DEF Amended
<1>4. CASE CancelScheduledPackageChange
  <2>1. Amended(NothingQueued(listing))
    BY <1>0, <1>4, KeepShape
  <2>2. NothingQueued(listing) \in Listing /\ NothingQueued(listing).active = listing.active
    BY <1>0, NothingQueuedListing DEF IInv, NothingQueued, Listing
  <2>3. QED
    BY <1>0, <1>3, <2>1, <2>2, PackageShapes
<1>5. CASE CancelPackage
  <2>1. PICK date \in Nat : Amended(Ending(listing, date))
    BY <1>0, <1>5, CancelShape
  <2>2. Ending(listing, date) \in Listing /\ Ending(listing, date).active = listing.active
    BY <1>0, EndingListing DEF IInv, Ending, NothingQueued, Listing
  <2>3. QED
    BY <1>0, <1>3, <2>1, <2>2, PackageShapes
<1>6. CASE ReactivatePackage
  <2> DEFINE written == [listing EXCEPT !.endsAt = NoDate]
  <2>1. Amended(written)
    BY <1>0, <1>6, ReactivateShape
  <2>2. written \in Listing /\ written.active = listing.active
    BY <1>0 DEF Listing, NoDate
  <2>3. SamePackage(listing, written)
    BY <1>0, PackageShapes
  <2> HIDE DEF written
  <2>4. QED
    BY <1>3, <2>1, <2>2, <2>3
<1>7. ~MarkSold /\ \A s \in Subs : ~SyncCheckoutSession(s)
  BY DEF MarkSold, SyncCheckoutSession, Asks
<1>8. CASE Seller
  BY <1>2, <1>4, <1>5, <1>6, <1>7, <1>8, CheckoutLesser, MinimumLesser, UpdateLesser,
     DowngradeLesser DEF Seller
<1>9. QED
  BY <1>1, <1>7, <1>8, StripeLesser, WebhookLesser DEF Next

(* The package in force gives way to a cheaper one, or a shorter cycle, only  *)
(* by a downgrade that was queued and has come due, for any number of         *)
(* subscriptions and requests and under every fault.  Each request excluded   *)
(* is needed: the form's edit of a package switched on, a tab left open, a    *)
(* success page reloaded and a package queued before a sale can each put a    *)
(* cheaper package in the place of a dearer one.                              *)
THEOREM DowngradesWait ==
  ASSUME {"edit", "tabs", "confirm", "sold"} \cap Requests = {}
  PROVE  Spec => PayingLessWaits
<1>1. Init => LessInv
  <2> SUFFICES ASSUME Init PROVE LessInv
    OBVIOUS
  <2>1. /\ events = <<>> /\ now = 1
        /\ \A s \in Subs : stripe[s].status = "unused" /\ stripe[s].start = 0
        /\ listing.pending = NoPackage
    BY DEF Init, Unused, NewListing, NoDate
  <2>2. \A s \in Subs : ~Outstanding(s, stripe, events)
    BY <2>1 DEF Outstanding, Awaited
  <2>3. QED
    BY <2>1, <2>2, InitBacked DEF LessInv, OffersFit, OneOffer, QueuedIsLess, Begun
<1>2. LessInv /\ [Next]_vars => LessInv' /\ Waited(listing, listing', now)
  <2> SUFFICES ASSUME LessInv, [Next]_vars PROVE LessInv' /\ Waited(listing, listing', now)
    OBVIOUS
  <2>1. IInv'
    BY NextBacked DEF LessInv
  <2>2. Lesser(listing', stripe', events', now') /\ Waited(listing, listing', now)
    BY LesserStep
  <2>3. /\ OffersFit(listing, stripe, events)'
        /\ OneOffer(stripe, events)'
        /\ QueuedIsLess(listing)'
        /\ Begun(stripe, events, now)'
    BY <2>2 DEF Lesser, OffersFit, OneOffer, QueuedIsLess, Begun, Outstanding, Awaited, Fits
  <2>4. QED
    BY <2>1, <2>2, <2>3 DEF LessInv
<1>3. Waited(listing, listing', now) =>
        (listing.active /\ listing'.active
           /\ Cheaper(listing'.pkg, Months(listing'.cycle), listing.pkg, listing.cycle) =>
           listing.pending = listing'.pkg /\ listing.changeAt <= now)
  BY DEF Waited, PaysLess
<1>4. QED
  BY <1>1, <1>2, <1>3, PTL DEF Spec, PayingLessWaits

--------------------------------------------------------------------------------
(* The listing and Stripe agree.  In the worlds of this section events arrive *)
(* in order and none is lost, though they may be repeated; requests are       *)
(* whole, come when Stripe has nothing left to tell, and leave alone what is  *)
(* sold or about to end; the form edits nothing that is switched on.  Then    *)
(* each subscription that is billed is the listing's own or has its checkout  *)
(* to be recorded, and between the two sides there is nothing but what the    *)
(* queue still has to say.                                                    *)

(* What was bought is what is billed, and nothing is to change.               *)
AtPrice(sub) == ~Scheduled(sub) /\ sub.pkg = sub.bought /\ sub.cycle = sub.term

Fresh(sub) == AtPrice(sub) /\ (sub.renews \/ sub.status = "canceled")

(* No subscription is for the free package, or to be.                         *)
Priced(sub) ==
  /\ sub.bought # Minimum /\ sub.term \in Cycles
  /\ sub.pkg # Minimum /\ sub.cycle \in Cycles
  /\ sub.next # Minimum /\ (Scheduled(sub) => sub.nextCycle \in Cycles)

(* Today is in the period of the subscription, or the day it ends.            *)
Dated(sub, today) == sub.start < sub.end /\ sub.start <= today /\ today <= sub.end

Terms(held, today) ==
  \A s \in Subs :
    /\ ~PaidIn(held, s) => held[s].start = NoDate
    /\ held[s].status # "unused" => Priced(held[s])
    /\ held[s].status = "offered" => AtPrice(held[s])
    /\ Holds(held, s) => Dated(held[s], today)

(* The end of s is still to be told, after its checkout.                      *)
EndTold(s, queue) ==
  \E j \in DOMAIN queue :
    /\ queue[j].type = "deleted" /\ queue[j].sub = s
    /\ \A i \in DOMAIN queue : (queue[i].type = "checkout" /\ queue[i].sub = s) => i < j

(* The event is the last there is of its subscription.                        *)
LastOf(i, queue) == \A j \in DOMAIN queue : queue[j].sub = queue[i].sub => j <= i

EventTrue(e, held) ==
  /\ e.type = "checkout" => Fresh(held[e.sub])
  /\ e.type = "deleted" => held[e.sub].status = "canceled"
  /\ e.start <= held[e.sub].start

(* What the events on their way say of the subscriptions.                     *)
EventsTrue(held, queue) == \A i \in DOMAIN queue : EventTrue(queue[i], held)

EndsTold(held, queue) ==
  \A s \in Subs : (Awaited(s, queue) /\ held[s].status = "canceled") => EndTold(s, queue)

LastTold(held, queue) ==
  \A i \in DOMAIN queue :
    (Holds(held, queue[i].sub) /\ LastOf(i, queue)) => queue[i].end = held[queue[i].sub].end

Told(held, queue) ==
  EventsTrue(held, queue) /\ EndsTold(held, queue) /\ LastTold(held, queue)

(* No paid package, and nothing announced of one.                             *)
Over(l) ==
  /\ l.pending = NoPackage /\ l.endsAt = NoDate
  /\ l.active => l.pkg = Minimum /\ l.cycle = NoCycle

(* How the listing and its subscription may stand to each other: as they will *)
(* go on, end, change or become free; with the change made by a reader before *)
(* Stripe's period ends; or with Stripe's period begun, and the event that    *)
(* says so on its way.                                                        *)
InForce(l, sub) == l.active /\ l.pkg = sub.pkg /\ l.cycle = sub.cycle

GoesOn(l, sub) ==
  /\ InForce(l, sub) /\ l.pending = NoPackage /\ l.endsAt = NoDate
  /\ sub.renews /\ ~Scheduled(sub)

WillEnd(l, sub) ==
  /\ InForce(l, sub) /\ l.pending = NoPackage /\ l.endsAt # NoDate
  /\ ~sub.renews /\ ~Scheduled(sub)

WillChange(l, sub) ==
  /\ InForce(l, sub) /\ l.endsAt = NoDate
  /\ l.pending = sub.next /\ l.pendingCycle = sub.nextCycle /\ l.changeAt = sub.end
  /\ sub.renews /\ Scheduled(sub)

WillBeFree(l, sub) ==
  /\ InForce(l, sub) /\ l.endsAt = NoDate
  /\ l.pending = Minimum /\ l.pendingCycle = NoCycle /\ l.changeAt = sub.end
  /\ ~sub.renews /\ ~Scheduled(sub)

ChangedFirst(l, sub, today) ==
  /\ l.active /\ l.pending = NoPackage /\ l.endsAt = NoDate
  /\ l.pkg = sub.next /\ l.cycle = sub.nextCycle
  /\ sub.renews /\ Scheduled(sub) /\ sub.end <= today

FreeFirst(l, sub, today) ==
  /\ ~l.active /\ l.pending = NoPackage /\ l.endsAt = NoDate
  /\ ~sub.renews /\ ~Scheduled(sub) /\ sub.end <= today

Unheard(l, sub, today, queue) ==
  /\ l.active /\ l.endsAt = NoDate
  /\ l.pending = sub.pkg /\ l.pendingCycle = sub.cycle /\ l.changeAt = sub.start
  /\ sub.renews /\ ~Scheduled(sub) /\ sub.start = today
  /\ \E i \in DOMAIN queue :
       queue[i].type = "updated" /\ queue[i].sub = l.sub /\ queue[i].start = sub.start

Agrees(l, sub, today, queue) ==
  \/ GoesOn(l, sub) \/ WillEnd(l, sub) \/ WillChange(l, sub) \/ WillBeFree(l, sub)
  \/ ChangedFirst(l, sub, today) \/ FreeFirst(l, sub, today)
  \/ Unheard(l, sub, today, queue)

(* The date the listing has for the end of the period, unless it is on its    *)
(* way.                                                                       *)
DateKnown(l, sub, queue) ==
  (\A i \in DOMAIN queue : queue[i].sub # l.sub) => l.expires = sub.end

Stands(l, held, today, queue) ==
  /\ l.sub # NoSub => PaidIn(held, l.sub)
  /\ l.sub # NoSub /\ Holds(held, l.sub) =>
       Agrees(l, held[l.sub], today, queue) /\ DateKnown(l, held[l.sub], queue)
  /\ ~(l.sub # NoSub /\ Holds(held, l.sub)) =>
       Over(l) \/ (l.sub # NoSub /\ EndTold(l.sub, queue))

AgreeInv ==
  /\ SaleInv
  /\ Terms(stripe, now) /\ Told(stripe, events)
  /\ Stands(listing, stripe, now, events)

(* The end of a subscription stays told while other events join the queue.    *)
LEMMA EndToldAppended ==
  ASSUME NEW queue \in Seq(Event), NEW e \in Event, NEW s
  PROVE  /\ EndTold(s, queue) /\ ~(e.type = "checkout" /\ e.sub = s) =>
              EndTold(s, Append(queue, e))
         /\ e.type = "deleted" /\ e.sub = s => EndTold(s, Append(queue, e))
<1> DEFINE longer == Append(queue, e)
           n == Len(queue)
<1>1. /\ DOMAIN queue = 1..n /\ n \in Nat /\ DOMAIN longer = 1..(n + 1)
      /\ \A j \in 1..n : longer[j] = queue[j]
      /\ longer[n + 1] = e
  BY AppendedAt
<1> HIDE DEF longer, n
<1>2. /\ 1..n \subseteq 1..(n + 1) /\ n + 1 \in 1..(n + 1)
      /\ \A i \in 1..(n + 1) : i \in 1..n \/ i = n + 1
      /\ \A i \in 1..n : i < n + 1 /\ i \in Int
  BY <1>1
<1>3. ASSUME EndTold(s, queue), ~(e.type = "checkout" /\ e.sub = s)
      PROVE  EndTold(s, longer)
  <2>1. PICK j \in 1..n :
          /\ queue[j].type = "deleted" /\ queue[j].sub = s
          /\ \A i \in 1..n : (queue[i].type = "checkout" /\ queue[i].sub = s) => i < j
    BY <1>1, <1>3 DEF EndTold
  <2>2. \A i \in 1..(n + 1) : (longer[i].type = "checkout" /\ longer[i].sub = s) => i < j
    BY <1>1, <1>2, <1>3, <2>1
  <2>3. longer[j] = queue[j] /\ j \in 1..(n + 1)
    BY <1>1, <1>2
  <2>4. QED
    BY <1>1, <2>1, <2>2, <2>3 DEF EndTold
<1>4. ASSUME e.type = "deleted", e.sub = s PROVE EndTold(s, longer)
  <2>1. \A i \in 1..(n + 1) : longer[i].type = "checkout" => i < n + 1
    BY <1>1, <1>2, <1>4
  <2>2. QED
    BY <1>1, <1>2, <1>4, <2>1 DEF EndTold
<1>5. QED
  BY <1>3, <1>4 DEF longer

(* The queue after its first event.                                           *)
LEMMA HeadGone ==
  ASSUME NEW queue \in Seq(Event), 1 \in DOMAIN queue
  PROVE  /\ RemoveAt(queue, 1) \in Seq(Event)
         /\ \A j \in DOMAIN RemoveAt(queue, 1) :
              j + 1 \in DOMAIN queue /\ RemoveAt(queue, 1)[j] = queue[j + 1]
         /\ \A j \in DOMAIN queue :
              j # 1 => j - 1 \in DOMAIN RemoveAt(queue, 1) /\ RemoveAt(queue, 1)[j - 1] = queue[j]
         /\ DOMAIN queue \subseteq Nat \ {0} /\ DOMAIN RemoveAt(queue, 1) \subseteq Nat \ {0}
<1> DEFINE rest == RemoveAt(queue, 1)
           n == Len(queue)
<1>1. /\ rest \in Seq(Event) /\ DOMAIN queue = 1..n /\ n \in Nat
      /\ DOMAIN rest = 1..(n - 1)
      /\ \A j \in 1..(n - 1) : rest[j] = IF j < 1 THEN queue[j] ELSE queue[j + 1]
  BY RemovedAt
<1> HIDE DEF rest, n
<1>2. \A j \in 1..(n - 1) : j + 1 \in 1..n /\ ~(j < 1)
  BY <1>1
<1>3. \A j \in 1..n : j # 1 => j - 1 \in 1..(n - 1) /\ (j - 1) + 1 = j
  BY <1>1
<1>4. \A j \in 1..n : j # 1 => rest[j - 1] = queue[j]
  BY <1>1, <1>2, <1>3
<1>5. 1..n \subseteq Nat \ {0} /\ 1..(n - 1) \subseteq Nat \ {0}
  BY <1>1
<1>6. QED
  BY <1>1, <1>2, <1>3, <1>4, <1>5 DEF rest

(* The end of a subscription stays told until it is the next event.           *)
LEMMA EndToldRemoved ==
  ASSUME NEW queue \in Seq(Event), 1 \in DOMAIN queue, NEW s, EndTold(s, queue)
  PROVE  \/ EndTold(s, RemoveAt(queue, 1))
         \/ queue[1].type = "deleted" /\ queue[1].sub = s /\ ~Awaited(s, queue)
<1> DEFINE rest == RemoveAt(queue, 1)
<1>1. /\ \A j \in DOMAIN rest : j + 1 \in DOMAIN queue /\ rest[j] = queue[j + 1]
      /\ \A j \in DOMAIN queue : j # 1 => j - 1 \in DOMAIN rest /\ rest[j - 1] = queue[j]
      /\ DOMAIN queue \subseteq Nat \ {0} /\ DOMAIN rest \subseteq Nat \ {0}
  BY HeadGone
<1> HIDE DEF rest
<1>2. PICK j \in DOMAIN queue :
        /\ queue[j].type = "deleted" /\ queue[j].sub = s
        /\ \A i \in DOMAIN queue : (queue[i].type = "checkout" /\ queue[i].sub = s) => i < j
  BY DEF EndTold
<1>3. CASE j = 1
  <2>1. \A i \in DOMAIN queue : ~(i < 1)
    BY <1>1
  <2>2. QED
    BY <1>2, <1>3, <2>1 DEF Awaited
<1>4. CASE j # 1
  <2>1. j - 1 \in DOMAIN rest /\ rest[j - 1] = queue[j]
    BY <1>1, <1>4
  <2>2. ASSUME NEW i \in DOMAIN rest, rest[i].type = "checkout", rest[i].sub = s
        PROVE  i < j - 1
    <3>1. i + 1 \in DOMAIN queue /\ queue[i + 1].type = "checkout" /\ queue[i + 1].sub = s
      BY <1>1, <2>2
    <3>2. i + 1 < j /\ i \in Nat /\ j \in Nat
      BY <1>1, <1>2, <3>1
    <3>3. QED
      BY <3>2
  <2>3. EndTold(s, rest)
    BY <1>2, <2>1, <2>2 DEF EndTold
  <2>4. QED
    BY <2>3 DEF rest
<1>5. QED
  BY <1>3, <1>4

(* An event that says when its subscription ends becomes the last of it.      *)
LEMMA LastAppended ==
  ASSUME NEW queue \in Seq(Event), NEW e \in Event, NEW held, LastTold(held, queue),
         NEW held2, \A t \in Subs : t # e.sub => held2[t] = held[t],
         Holds(held2, e.sub) => e.end = held2[e.sub].end
  PROVE  LastTold(held2, Append(queue, e))
<1> DEFINE longer == Append(queue, e)
           n == Len(queue)
<1>1. /\ DOMAIN queue = 1..n /\ n \in Nat /\ DOMAIN longer = 1..(n + 1)
      /\ \A j \in 1..n : longer[j] = queue[j]
      /\ longer[n + 1] = e
  BY AppendedAt
<1> HIDE DEF longer, n
<1>2. /\ 1..n \subseteq 1..(n + 1) /\ n + 1 \in 1..(n + 1)
      /\ \A i \in 1..(n + 1) : i \in 1..n \/ i = n + 1
      /\ \A i \in 1..n : ~(n + 1 <= i)
  BY <1>1
<1>3. ASSUME NEW i \in 1..(n + 1), Holds(held2, longer[i].sub), LastOf(i, longer)
      PROVE  longer[i].end = held2[longer[i].sub].end
  <2>1. CASE i = n + 1
    BY <1>1, <1>3, <2>1
  <2>2. CASE i \in 1..n
    <3>1. longer[i] = queue[i] /\ queue[i] \in Event
      BY <1>1, <2>2, ElementOfSeq
    <3>2. queue[i].sub \in Subs
      BY <3>1 DEF Event
    <3>3. queue[i].sub # e.sub
      BY <1>1, <1>2, <1>3, <2>2, <3>1 DEF LastOf
    <3>4. LastOf(i, queue)
      BY <1>1, <1>2, <1>3, <3>1 DEF LastOf
    <3>5. held2[queue[i].sub] = held[queue[i].sub]
      BY <3>2, <3>3
    <3>6. QED
      BY <1>1, <1>3, <2>2, <3>1, <3>4, <3>5 DEF LastTold, Holds
  <2>3. QED
    BY <1>2, <2>1, <2>2
<1>4. QED
  BY <1>1, <1>3 DEF LastTold, longer

(* What is last of its subscription is so too without the first event.        *)
LEMMA LastRemoved ==
  ASSUME NEW queue \in Seq(Event), 1 \in DOMAIN queue, NEW held, LastTold(held, queue)
  PROVE  LastTold(held, RemoveAt(queue, 1))
<1> DEFINE rest == RemoveAt(queue, 1)
<1>1. /\ \A j \in DOMAIN rest : j + 1 \in DOMAIN queue /\ rest[j] = queue[j + 1]
      /\ \A j \in DOMAIN queue : j # 1 => j - 1 \in DOMAIN rest /\ rest[j - 1] = queue[j]
      /\ DOMAIN queue \subseteq Nat \ {0} /\ DOMAIN rest \subseteq Nat \ {0}
  BY HeadGone
<1> HIDE DEF rest
<1>2. ASSUME NEW i \in DOMAIN rest, Holds(held, rest[i].sub), LastOf(i, rest)
      PROVE  rest[i].end = held[rest[i].sub].end
  <2>1. i + 1 \in DOMAIN queue /\ rest[i] = queue[i + 1] /\ i \in Nat
    BY <1>1
  <2>2. ASSUME NEW j \in DOMAIN queue, queue[j].sub = queue[i + 1].sub PROVE j <= i + 1
    <3>1. j \in Nat
      BY <1>1
    <3>2. CASE j = 1
      BY <2>1, <3>2
    <3>3. CASE j # 1
      <4>1. j - 1 \in DOMAIN rest /\ rest[j - 1].sub = rest[i].sub
        BY <1>1, <2>1, <2>2, <3>3
      <4>2. j - 1 <= i
        BY <1>2, <4>1 DEF LastOf
      <4>3. QED
        BY <2>1, <3>1, <4>2
    <3>4. QED
      BY <3>2, <3>3
  <2>3. LastOf(i + 1, queue)
    BY <2>2 DEF LastOf
  <2>4. QED
    BY <1>2, <2>1, <2>3 DEF LastTold
<1>3. QED
  BY <1>2 DEF LastTold, rest

(* Without its first event the queue still tells the truth.                   *)
LEMMA ToldRemoved ==
  ASSUME NEW queue \in Seq(Event), 1 \in DOMAIN queue, NEW held, Told(held, queue)
  PROVE  Told(held, RemoveAt(queue, 1))
<1> DEFINE rest == RemoveAt(queue, 1)
<1>1. \A j \in DOMAIN rest : \E k \in DOMAIN queue : rest[j] = queue[k]
  BY Removed
<1>2. \A s \in Subs : Awaited(s, rest) => Awaited(s, queue)
  BY AwaitedRemoved
<1>3. \A s \in Subs : EndTold(s, queue) /\ Awaited(s, queue) => EndTold(s, rest)
  BY EndToldRemoved
<1>4. LastTold(held, rest)
  BY LastRemoved DEF Told
<1> HIDE DEF rest
<1>5. EventsTrue(held, rest)
  BY <1>1 DEF Told, EventsTrue
<1>6. EndsTold(held, rest)
  BY <1>2, <1>3 DEF Told, EndsTold
<1>7. QED
  BY <1>4, <1>5, <1>6 DEF Told, rest

(* A subscription changes: the terms are still right.                         *)
LEMMA TermsKept ==
  ASSUME NEW held \in [Subs -> Subscription], NEW today, Terms(held, today),
         NEW s \in Subs, NEW sub \in Subscription, NEW held2,
         held2 = [held EXCEPT ![s] = sub],
         sub.status \notin {"unused", "offered"}, Priced(sub),
         sub.status \in {"active", "past_due"} => Dated(sub, today)
  PROVE  Terms(held2, today)
<1>1. \A t \in Subs : held2[t] = IF t = s THEN sub ELSE held[t]
  OBVIOUS
<1>2. QED
  BY <1>1 DEF Terms, Holds, PaidIn

(* A subscription changes and the event that says so joins the queue, which   *)
(* tells the truth as before.                                                 *)
LEMMA ToldAppended ==
  ASSUME NEW held \in [Subs -> Subscription], NEW queue \in Seq(Event), Told(held, queue),
         NEW e \in Event, NEW sub \in Subscription, NEW held2,
         held2 = [held EXCEPT ![e.sub] = sub],
         held[e.sub].status # "canceled",
         e.type = "checkout" => Fresh(sub),
         (e.type = "deleted") <=> (sub.status = "canceled"),
         Awaited(e.sub, queue) => Fresh(sub),
         held[e.sub].start <= sub.start, e.start <= sub.start,
         sub.status \in {"active", "past_due"} => e.end = sub.end
  PROVE  Told(held2, Append(queue, e))
<1> DEFINE longer == Append(queue, e)
<1>1. e.sub \in Subs
  BY DEF Event
<1>2. \A t \in Subs : held2[t] = IF t = e.sub THEN sub ELSE held[t]
  BY <1>1
<1>3. EventsTrue(held2, longer)
  <2>1. \A j \in DOMAIN longer : longer[j] = e \/ \E k \in DOMAIN queue : longer[j] = queue[k]
    BY Appended
  <2>2. EventTrue(e, held2)
    BY <1>1, <1>2 DEF EventTrue
  <2>3. ASSUME NEW k \in DOMAIN queue PROVE EventTrue(queue[k], held2)
    <3>1. queue[k] \in Event /\ EventTrue(queue[k], held)
      BY ElementOfSeq DEF Told, EventsTrue
    <3>2. queue[k].sub \in Subs /\ queue[k].start \in Nat
      BY <3>1 DEF Event
    <3>3. CASE queue[k].sub # e.sub
      BY <1>2, <3>1, <3>2, <3>3 DEF EventTrue
    <3>4. CASE queue[k].sub = e.sub
      <4>1. held[e.sub].start \in Nat /\ sub.start \in Nat
        BY <1>1 DEF Subscription
      <4>2. queue[k].start <= sub.start
        BY <3>1, <3>2, <3>4, <4>1 DEF EventTrue
      <4>3. queue[k].type = "checkout" => Fresh(sub)
        BY <3>4 DEF Awaited
      <4>4. QED
        BY <1>2, <3>1, <3>2, <3>4, <4>2, <4>3 DEF EventTrue
    <3>5. QED
      BY <3>3, <3>4
  <2> HIDE DEF longer
  <2>4. QED
    BY <2>1, <2>2, <2>3 DEF EventsTrue
<1>4. EndsTold(held2, longer)
  <2>1. ASSUME NEW t \in Subs, Awaited(t, longer), held2[t].status = "canceled"
        PROVE  EndTold(t, longer)
    <3>1. CASE t = e.sub
      BY <1>2, <2>1, <3>1, EndToldAppended
    <3>2. CASE t # e.sub
      <4>1. Awaited(t, queue) /\ held[t].status = "canceled"
        BY <1>2, <2>1, <3>2, AwaitedAppended
      <4>2. EndTold(t, queue)
        BY <4>1 DEF Told, EndsTold
      <4>3. QED
        BY <3>2, <4>2, EndToldAppended
    <3>3. QED
      BY <3>1, <3>2
  <2>2. QED
    BY <2>1 DEF EndsTold
<1>5. LastTold(held2, longer)
  BY <1>1, <1>2, LastAppended DEF Told, Holds
<1>6. QED
  BY <1>3, <1>4, <1>5 DEF Told

(* A longer queue takes nothing from how the two sides stand.                 *)
LEMMA AgreesAppended ==
  ASSUME NEW l, NEW sub, NEW today, NEW queue \in Seq(Event), NEW e \in Event,
         Agrees(l, sub, today, queue)
  PROVE  Agrees(l, sub, today, Append(queue, e))
<1>1. \A j \in DOMAIN queue : j \in DOMAIN Append(queue, e) /\ Append(queue, e)[j] = queue[j]
  BY AppendedAt
<1>2. Unheard(l, sub, today, queue) => Unheard(l, sub, today, Append(queue, e))
  BY <1>1 DEF Unheard
<1>3. QED
  BY <1>2 DEF Agrees

(* Another subscription changes, and an event says so.                        *)
LEMMA OtherStands ==
  ASSUME NEW l \in Listing, NEW held \in [Subs -> Subscription], NEW today,
         NEW queue \in Seq(Event), Stands(l, held, today, queue),
         NEW e \in Event, e.sub # l.sub, NEW sub, NEW held2,
         held2 = [held EXCEPT ![e.sub] = sub]
  PROVE  Stands(l, held2, today, Append(queue, e))
<1> DEFINE longer == Append(queue, e)
<1>1. e.sub \in Subs /\ l.sub \in Subs \cup {NoSub}
  BY DEF Event, Listing
<1>2. l.sub # NoSub => held2[l.sub] = held[l.sub]
  BY <1>1
<1>3. \A j \in DOMAIN queue : j \in DOMAIN longer /\ longer[j] = queue[j]
  BY AppendedAt
<1>4. EndTold(l.sub, queue) => EndTold(l.sub, longer)
  BY EndToldAppended
<1>5. l.sub # NoSub /\ Agrees(l, held[l.sub], today, queue) =>
        Agrees(l, held2[l.sub], today, longer)
  BY <1>2, AgreesAppended
<1> HIDE DEF longer
<1>6. l.sub # NoSub /\ DateKnown(l, held[l.sub], queue) => DateKnown(l, held2[l.sub], longer)
  BY <1>2, <1>3 DEF DateKnown
<1>7. Stands(l, held2, today, longer)
  BY <1>2, <1>4, <1>5, <1>6 DEF Stands, Holds, PaidIn
<1>8. QED
  BY <1>7 DEF longer

(* The listing's own subscription changes, and an event says so.              *)
LEMMA OwnStands ==
  ASSUME NEW l \in Listing, NEW held \in [Subs -> Subscription], NEW today,
         NEW queue \in Seq(Event), NEW e \in Event, e.sub = l.sub,
         NEW sub, NEW held2, held2 = [held EXCEPT ![e.sub] = sub],
         sub.status \in {"active", "past_due", "canceled"},
         sub.status = "canceled" => e.type = "deleted",
         sub.status # "canceled" => Agrees(l, sub, today, Append(queue, e))
  PROVE  Stands(l, held2, today, Append(queue, e))
<1> DEFINE longer == Append(queue, e)
<1>1. e.sub \in Subs /\ l.sub \in Subs /\ held2[l.sub] = sub /\ l.sub # NoSub
  BY ListingPackageAssumption DEF Event
<1>2. \E i \in DOMAIN longer : longer[i].sub = l.sub
  <2>1. Len(queue) + 1 \in DOMAIN longer /\ longer[Len(queue) + 1] = e
    BY AppendedAt
  <2>2. QED
    BY <2>1
<1>3. sub.status = "canceled" => EndTold(l.sub, longer)
  BY EndToldAppended
<1> HIDE DEF longer
<1>4. DateKnown(l, sub, longer)
  BY <1>2 DEF DateKnown
<1>5. Stands(l, held2, today, longer)
  BY <1>1, <1>3, <1>4 DEF Stands, Holds, PaidIn, longer
<1>6. QED
  BY <1>5 DEF longer

(* The next period, at the price the schedule put there.                      *)
LEMMA NextPeriodIs ==
  ASSUME NEW sub \in Subscription, Priced(sub)
  PROVE  /\ NextPeriod(sub).renews = sub.renews /\ NextPeriod(sub).next = NoPackage
         /\ NextPeriod(sub).pkg = IF Scheduled(sub) THEN sub.next ELSE sub.pkg
         /\ NextPeriod(sub).cycle = IF Scheduled(sub) THEN sub.nextCycle ELSE sub.cycle
         /\ NextPeriod(sub).cycle \in Cycles
         /\ NextPeriod(sub).end = sub.end + NextPeriod(sub).cycle
<1> DEFINE priced == IF Scheduled(sub)
                     THEN [Released(sub) EXCEPT !.pkg = sub.next, !.cycle = sub.nextCycle]
                     ELSE sub
           end == sub.end + priced.cycle
<1>1. /\ priced \in Subscription /\ priced.renews = sub.renews /\ priced.next = NoPackage
      /\ priced.pkg = IF Scheduled(sub) THEN sub.next ELSE sub.pkg
      /\ priced.cycle = IF Scheduled(sub) THEN sub.nextCycle ELSE sub.cycle
  BY CyclesAreNumbers DEF Released, Scheduled, Subscription
<1>2. priced.cycle \in Cycles
  BY <1>1 DEF Priced
<1>3. NextPeriod(sub) = [priced EXCEPT !.start = sub.end, !.end = end]
  BY DEF NextPeriod
<1>4. /\ NextPeriod(sub).renews = priced.renews /\ NextPeriod(sub).next = priced.next
      /\ NextPeriod(sub).pkg = priced.pkg /\ NextPeriod(sub).cycle = priced.cycle
      /\ NextPeriod(sub).end = end
  <2> HIDE DEF priced, end
  <2>1. QED
    BY <1>1, <1>3 DEF Subscription
<1> HIDE DEF priced
<1>5. QED
  BY <1>1, <1>2, <1>4

(* A renewal at Stripe, heard of or not, is what the listing waits for.       *)
LEMMA RenewedAgrees ==
  ASSUME NEW l \in Listing, NEW sub \in Subscription, NEW today \in Nat,
         NEW queue \in Seq(Event), Agrees(l, sub, today, queue),
         Dated(sub, today), sub.renews, sub.end <= today,
         NEW sub2, sub2.renews, sub2.next = NoPackage, sub2.start = sub.end,
         sub2.pkg = IF Scheduled(sub) THEN sub.next ELSE sub.pkg,
         sub2.cycle = IF Scheduled(sub) THEN sub.nextCycle ELSE sub.cycle,
         NEW e \in Event, e.type = "updated", e.sub = l.sub, e.start = sub2.start
  PROVE  Agrees(l, sub2, today, Append(queue, e))
<1> DEFINE longer == Append(queue, e)
<1>1. ~Scheduled(sub2) /\ sub.end = today
  <2>1. sub.end \in Nat
    BY DEF Subscription
  <2>2. QED
    BY <2>1 DEF Dated, Scheduled
<1>2. CASE GoesOn(l, sub)
  BY <1>1, <1>2 DEF GoesOn, InForce, Agrees
<1>3. CASE WillChange(l, sub)
  <2>1. Len(queue) + 1 \in DOMAIN longer /\ longer[Len(queue) + 1] = e
    BY AppendedAt
  <2> HIDE DEF longer
  <2>2. \E i \in DOMAIN longer :
          longer[i].type = "updated" /\ longer[i].sub = l.sub /\ longer[i].start = sub2.start
    BY <2>1
  <2>3. Unheard(l, sub2, today, longer)
    BY <1>1, <1>3, <2>2 DEF WillChange, InForce, Unheard
  <2>4. QED
    BY <2>3 DEF Agrees, longer
<1>4. CASE ChangedFirst(l, sub, today)
  BY <1>1, <1>4 DEF ChangedFirst, GoesOn, InForce, Agrees
<1>5. CASE Unheard(l, sub, today, queue)
  <2>1. sub.start \in Nat /\ sub.end \in Nat
    BY DEF Subscription
  <2>2. QED
    BY <1>1, <1>5, <2>1 DEF Unheard, Dated
<1>6. QED
  BY <1>2, <1>3, <1>4, <1>5 DEF Agrees, WillEnd, WillBeFree, FreeFirst

(* A step of Stripe's, as it has to be: the terms and the news are right, and *)
(* the listing stands to its subscription as before or as it was told.        *)
LEMMA HappensAgrees ==
  ASSUME AgreeInv, NEW type \in {"checkout", "updated", "deleted"}, NEW s \in Subs,
         NEW STATE sub, sub \in Subscription, Priced(sub),
         sub.status \in {"active", "past_due", "canceled"},
         (type = "deleted") <=> (sub.status = "canceled"),
         type = "checkout" => Fresh(sub) /\ ~PaidIn(stripe, s),
         Fresh(stripe[s]) => Fresh(sub),
         stripe[s].status # "canceled", stripe[s].start <= sub.start,
         sub.status # "canceled" => Dated(sub, now),
         (s = listing.sub /\ sub.status # "canceled") =>
            Agrees(listing, sub, now, Append(events, EventOf(type, s, sub))),
         Happens(type, s, sub)
  PROVE  /\ Terms(stripe', now') /\ Told(stripe', events')
         /\ Stands(listing', stripe', now', events')
<1>1. /\ stripe \in [Subs -> Subscription] /\ events \in Seq(Event) /\ listing \in Listing
      /\ Terms(stripe, now) /\ Told(stripe, events) /\ Stands(listing, stripe, now, events)
      /\ stripe' = [stripe EXCEPT ![s] = sub] /\ listing' = listing /\ now' = now
      /\ events' = Append(events, EventOf(type, s, sub))
  BY DEF AgreeInv, SaleInv, IInv, TypeOK, Happens
<1> DEFINE e == EventOf(type, s, sub)
<1>2. /\ e \in Event /\ e.type = type /\ e.sub = s
      /\ e.start = sub.start /\ e.end = sub.end
  BY EventTyped DEF EventOf
<1>3. events' = Append(events, e)
  BY <1>1
<1> HIDE DEF e
<1>4. Terms(stripe', now')
  <2>1. sub.status \notin {"unused", "offered"}
    OBVIOUS
  <2>2. sub.status \in {"active", "past_due"} => Dated(sub, now)
    OBVIOUS
  <2>3. QED
    BY <1>1, <2>1, <2>2, TermsKept
<1>5. Told(stripe', events')
  <2>1. sub.start \in Nat
    BY DEF Subscription
  <2>2. e.start <= sub.start
    BY <1>2, <2>1
  <2>3. Awaited(s, events) => Fresh(sub)
    BY <1>1 DEF Awaited, Told, EventsTrue, EventTrue
  <2>4. QED
    BY <1>1, <1>2, <1>3, <2>2, <2>3, ToldAppended
<1>6. Stands(listing', stripe', now', events')
  <2>1. CASE s # listing.sub
    BY <1>1, <1>2, <1>3, <2>1, OtherStands
  <2>2. CASE s = listing.sub
    <3>1. sub.status # "canceled" => Agrees(listing, sub, now, Append(events, e))
      BY <2>2 DEF e
    <3>2. QED
      BY <1>1, <1>2, <1>3, <2>2, <3>1, OwnStands
  <2>3. QED
    BY <2>1, <2>2
<1>7. QED
  BY <1>4, <1>5, <1>6

(* A stopped subscription is at its price still, with nothing to change.      *)
LEMMA StoppedTerms ==
  ASSUME NEW sub \in Subscription, Priced(sub)
  PROVE  /\ Stopped(sub) \in Subscription /\ Stopped(sub).status = "canceled"
         /\ Priced(Stopped(sub)) /\ (Fresh(sub) => Fresh(Stopped(sub)))
         /\ Stopped(sub).start = sub.start /\ Stopped(sub).end = sub.end
<1> DEFINE stopped == Stopped(sub)
<1>1. /\ stopped \in Subscription /\ stopped.status = "canceled"
      /\ stopped.bought = sub.bought /\ stopped.term = sub.term
      /\ stopped.pkg = sub.pkg /\ stopped.cycle = sub.cycle
      /\ stopped.next = NoPackage
      /\ stopped.start = sub.start /\ stopped.end = sub.end
  BY CyclesAreNumbers DEF Stopped, Released, Subscription
<1> HIDE DEF stopped
<1>2. Priced(stopped)
  BY <1>1 DEF Priced, Scheduled, NoPackage, Minimum
<1>3. Fresh(sub) => Fresh(stopped)
  BY <1>1 DEF Fresh, AtPrice, Scheduled
<1>4. QED
  BY <1>1, <1>2, <1>3 DEF stopped

(* Stripe's own steps keep the two sides agreed.                              *)
LEMMA StripeAgrees ==
  ASSUME AgreeInv, Stripe
  PROVE  /\ Terms(stripe', now') /\ Told(stripe', events')
         /\ Stands(listing', stripe', now', events')
<1> DEFINE Goal == /\ Terms(stripe', now') /\ Told(stripe', events')
                   /\ Stands(listing', stripe', now', events')
<1>0. /\ stripe \in [Subs -> Subscription] /\ events \in Seq(Event) /\ listing \in Listing
      /\ now \in Nat
      /\ Terms(stripe, now) /\ Told(stripe, events) /\ Stands(listing, stripe, now, events)
  BY DEF AgreeInv, SaleInv, IInv, TypeOK
<1>1. ASSUME NEW s \in Subs, s = listing.sub, Holds(stripe, s)
      PROVE  Agrees(listing, stripe[s], now, events)
  BY <1>0, <1>1, ListingPackageAssumption DEF Stands
<1>2. CASE Tick
  <2>1. /\ now' = now + 1 /\ UNCHANGED <<stripe, events, listing>>
        /\ events = <<>> /\ \A s \in Subs : ~Due(s)
    BY <1>2 DEF Tick, Quiet
  <2>2. ASSUME NEW s \in Subs, Holds(stripe, s), Dated(stripe[s], now)
        PROVE  Dated(stripe[s], now')
    <3>1. ~(stripe[s].end <= now)
      BY <2>1, <2>2 DEF Due, Held, Holds
    <3>2. stripe[s].start \in Nat /\ stripe[s].end \in Nat
      BY <1>0 DEF Subscription
    <3>3. QED
      BY <1>0, <2>1, <2>2, <3>1, <3>2 DEF Dated
  <2>3. Terms(stripe', now')
    BY <1>0, <2>1, <2>2 DEF Terms, Holds
  <2>4. ASSUME NEW sub \in Subscription, Agrees(listing, sub, now, events)
        PROVE  Agrees(listing, sub, now', events)
    <3>1. ~Unheard(listing, sub, now, events)
      BY <2>1 DEF Unheard
    <3>2. sub.end <= now => sub.end <= now'
      <4>1. sub.end \in Nat
        BY DEF Subscription
      <4>2. QED
        BY <1>0, <2>1, <4>1
    <3>3. QED
      BY <2>4, <3>1, <3>2 DEF Agrees, ChangedFirst, FreeFirst
  <2>5. Stands(listing, stripe, now', events)
    <3>1. listing.sub # NoSub => stripe[listing.sub] \in Subscription
      BY <1>0 DEF Listing
    <3>2. QED
      BY <1>0, <2>4, <3>1 DEF Stands
  <2>6. QED
    BY <1>0, <2>1, <2>3, <2>5
<1>3. ASSUME NEW s \in Subs, Pay(s) PROVE Goal
  <2> DEFINE end == now + stripe[s].cycle
             sub == [stripe[s] EXCEPT !.status = "active", !.renews = TRUE,
                                      !.start = now, !.end = now + stripe[s].cycle]
  <2>1. Happens("checkout", s, sub) /\ stripe[s].status = "offered"
    BY <1>3 DEF Pay
  <2>2. stripe[s] \in Subscription /\ Priced(stripe[s]) /\ AtPrice(stripe[s])
    BY <1>0, <2>1 DEF Terms
  <2>3. stripe[s].cycle \in Nat /\ stripe[s].cycle >= 1
    BY <2>2, PackageNumbers DEF Priced
  <2>4. end \in Nat /\ now < end /\ now <= end
    BY <1>0, <2>3
  <2>5. sub = [stripe[s] EXCEPT !.status = "active", !.renews = TRUE,
                                !.start = now, !.end = end]
    OBVIOUS
  <2> HIDE DEF sub, end
  <2>6. /\ sub \in Subscription /\ sub.status = "active" /\ sub.renews
        /\ sub.start = now /\ sub.end = end
        /\ sub.bought = stripe[s].bought /\ sub.term = stripe[s].term
        /\ sub.pkg = stripe[s].pkg /\ sub.cycle = stripe[s].cycle
        /\ sub.next = stripe[s].next /\ sub.nextCycle = stripe[s].nextCycle
    BY <1>0, <2>2, <2>4, <2>5 DEF Subscription
  <2>7. Priced(sub) /\ Fresh(sub) /\ Dated(sub, now)
    BY <1>0, <2>2, <2>4, <2>6 DEF Priced, Fresh, AtPrice, Scheduled, Dated
  <2>8. ~PaidIn(stripe, s)
    BY <2>1 DEF PaidIn
  <2>9. stripe[s].start <= sub.start
    BY <1>0, <2>6, <2>8 DEF Terms, NoDate
  <2>10. s # listing.sub
    BY <1>0, <2>8, ListingPackageAssumption DEF Stands
  <2>11. QED
    BY <2>1, <2>6, <2>7, <2>8, <2>9, <2>10, HappensAgrees
<1>4. ASSUME NEW s \in Subs, Held(s)
      PROVE  /\ Holds(stripe, s) /\ stripe[s] \in Subscription
             /\ Priced(stripe[s]) /\ Dated(stripe[s], now)
             /\ stripe[s].start \in Nat /\ stripe[s].end \in Nat
  <2>1. Holds(stripe, s)
    BY <1>4 DEF Held, Holds
  <2>2. QED
    BY <1>0, <2>1 DEF Terms, Holds, Subscription
<1>5. ASSUME NEW s \in Subs, Renew(s) \/ Decline(s) PROVE Goal
  <2> DEFINE next == NextPeriod(stripe[s])
  <2>1. Held(s) /\ stripe[s].renews /\ stripe[s].status = "active" /\ stripe[s].end <= now
    BY <1>5 DEF Renew, Decline, Due
  <2>2. /\ Holds(stripe, s) /\ stripe[s] \in Subscription
        /\ Priced(stripe[s]) /\ Dated(stripe[s], now)
        /\ stripe[s].start \in Nat /\ stripe[s].end \in Nat
    BY <1>4, <2>1
  <2>3. /\ next \in Subscription
        /\ next.bought = stripe[s].bought /\ next.term = stripe[s].term
        /\ next.status = "active" /\ next.start = stripe[s].end
        /\ next.renews /\ next.next = NoPackage
        /\ next.pkg = IF Scheduled(stripe[s]) THEN stripe[s].next ELSE stripe[s].pkg
        /\ next.cycle = IF Scheduled(stripe[s]) THEN stripe[s].nextCycle ELSE stripe[s].cycle
        /\ next.cycle \in Cycles /\ next.end = stripe[s].end + next.cycle
    BY <2>1, <2>2, NextPeriodSale, NextPeriodBegins, NextPeriodIs DEF SameSale
  <2> HIDE DEF next
  <2>4. PICK sub \in {next, [next EXCEPT !.status = "past_due"]} : Happens("updated", s, sub)
    BY <1>5 DEF Renew, Decline, next
  <2>5. /\ sub \in Subscription /\ sub.status \in {"active", "past_due"}
        /\ sub.bought = stripe[s].bought /\ sub.term = stripe[s].term
        /\ sub.start = stripe[s].end /\ sub.renews /\ sub.next = NoPackage
        /\ sub.pkg = next.pkg /\ sub.cycle = next.cycle /\ sub.end = next.end
    BY <2>3, <2>4 DEF Subscription
  <2>6. ~Scheduled(sub)
    BY <2>5 DEF Scheduled
  <2>7. Priced(sub)
    BY <2>2, <2>3, <2>5, <2>6 DEF Priced, Scheduled, Minimum, NoPackage
  <2>8. Fresh(stripe[s]) => Fresh(sub)
    BY <2>3, <2>5, <2>6 DEF Fresh, AtPrice
  <2>9. next.cycle \in Nat /\ next.cycle >= 1
    BY <2>3, PackageNumbers
  <2>10. Dated(sub, now) /\ stripe[s].start <= sub.start
    BY <1>0, <2>1, <2>2, <2>3, <2>5, <2>9 DEF Dated
  <2> DEFINE e == EventOf("updated", s, sub)
  <2>11. e \in Event /\ e.type = "updated" /\ e.sub = s /\ e.start = sub.start
    BY <2>5, EventTyped DEF EventOf
  <2> HIDE DEF e
  <2>12. s = listing.sub => Agrees(listing, sub, now, Append(events, e))
    BY <1>0, <1>1, <2>1, <2>2, <2>3, <2>5, <2>11, RenewedAgrees
  <2>13. s = listing.sub => Agrees(listing, sub, now, Append(events, EventOf("updated", s, sub)))
    BY <2>12 DEF e
  <2>14. QED
    BY <2>1, <2>4, <2>5, <2>7, <2>8, <2>10, <2>13, HappensAgrees
<1>6. ASSUME NEW s \in Subs, Recover(s) PROVE Goal
  <2> DEFINE sub == [stripe[s] EXCEPT !.status = "active"]
  <2>1. Happens("updated", s, sub) /\ Held(s)
    BY <1>6 DEF Recover, Held
  <2>2. /\ Holds(stripe, s) /\ stripe[s] \in Subscription
        /\ Priced(stripe[s]) /\ Dated(stripe[s], now)
        /\ stripe[s].start \in Nat
    BY <1>4, <2>1
  <2>3. /\ sub \in Subscription /\ sub.status = "active"
        /\ sub.bought = stripe[s].bought /\ sub.term = stripe[s].term
        /\ sub.pkg = stripe[s].pkg /\ sub.cycle = stripe[s].cycle
        /\ sub.renews = stripe[s].renews
        /\ sub.next = stripe[s].next /\ sub.nextCycle = stripe[s].nextCycle
        /\ sub.start = stripe[s].start /\ sub.end = stripe[s].end
    BY <2>2 DEF Subscription
  <2> DEFINE e == EventOf("updated", s, sub)
  <2>4. e \in Event
    BY <2>3, EventTyped
  <2> HIDE DEF sub, e
  <2>5. Priced(sub) /\ Dated(sub, now)
    BY <2>2, <2>3 DEF Priced, Scheduled, Dated
  <2>6. stripe[s].status = "past_due"
    BY <1>6 DEF Recover
  <2>7. Fresh(stripe[s]) => Fresh(sub)
    BY <2>3, <2>6 DEF Fresh, AtPrice, Scheduled
  <2>8. s = listing.sub => Agrees(listing, sub, now, events)
    <3>1. Agrees(listing, stripe[s], now, events) => Agrees(listing, sub, now, events)
      BY <2>3 DEF Agrees, GoesOn, WillEnd, WillChange, WillBeFree, ChangedFirst, FreeFirst,
                  Unheard, InForce, Scheduled
    <3>2. QED
      BY <1>1, <2>2, <3>1
  <2>9. s = listing.sub => Agrees(listing, sub, now, Append(events, e))
    BY <1>0, <2>4, <2>8, AgreesAppended
  <2>10. stripe[s].start <= sub.start
    BY <2>2, <2>3
  <2>11. s = listing.sub =>
           Agrees(listing, sub, now, Append(events, EventOf("updated", s, sub)))
    BY <2>9 DEF e
  <2>12. QED
    BY <2>1, <2>3, <2>5, <2>6, <2>7, <2>10, <2>11, HappensAgrees
<1>7. ASSUME NEW s \in Subs, GiveUp(s) \/ Lapse(s) PROVE Goal
  <2> DEFINE sub == Stopped(stripe[s])
  <2>1. Happens("deleted", s, sub) /\ Held(s)
    BY <1>7 DEF GiveUp, Lapse, Due, Held
  <2>2. /\ stripe[s] \in Subscription /\ Priced(stripe[s]) /\ stripe[s].start \in Nat
        /\ stripe[s].status # "canceled"
    BY <1>4, <2>1 DEF Holds
  <2>3. /\ sub \in Subscription /\ sub.status = "canceled"
        /\ Priced(sub) /\ (Fresh(stripe[s]) => Fresh(sub))
        /\ sub.start = stripe[s].start
    BY <2>2, StoppedTerms
  <2> HIDE DEF sub
  <2>4. stripe[s].start <= sub.start
    BY <2>2, <2>3
  <2>5. QED
    BY <2>1, <2>2, <2>3, <2>4, HappensAgrees
<1>8. QED
  BY <1>2, <1>3, <1>5, <1>6, <1>7 DEF Stripe

(* When Stripe has nothing left to tell or settle, no paid package is on, or  *)
(* the listing's subscription is billed and the two sides say the same of it. *)
LEMMA QuietStands ==
  ASSUME AgreeInv, Quiet
  PROVE  \/ /\ Over(listing)
            /\ ~(listing.sub # NoSub /\ Holds(stripe, listing.sub))
         \/ /\ listing.sub \in Subs /\ Holds(stripe, listing.sub)
            /\ Priced(Current) /\ Dated(Current, now)
            /\ listing.expires = Current.end /\ now < Current.end
            /\ \/ GoesOn(listing, Current) \/ WillEnd(listing, Current)
               \/ WillChange(listing, Current) \/ WillBeFree(listing, Current)
<1>1. /\ stripe \in [Subs -> Subscription] /\ listing.sub \in Subs \cup {NoSub} /\ now \in Nat
      /\ Terms(stripe, now) /\ Stands(listing, stripe, now, events)
      /\ events = <<>> /\ \A s \in Subs : ~Due(s)
  BY DEF AgreeInv, SaleInv, IInv, TypeOK, Listing, Quiet
<1>2. CASE ~(listing.sub # NoSub /\ Holds(stripe, listing.sub))
  <2>1. ~EndTold(listing.sub, events)
    BY <1>1 DEF EndTold
  <2>2. QED
    BY <1>1, <1>2, <2>1 DEF Stands
<1>3. CASE listing.sub # NoSub /\ Holds(stripe, listing.sub)
  <2>1. listing.sub \in Subs /\ Current = stripe[listing.sub]
    BY <1>1, <1>3 DEF Current
  <2>2. Priced(Current) /\ Dated(Current, now)
    BY <1>1, <1>3, <2>1 DEF Terms, Holds
  <2>3. Agrees(listing, Current, now, events) /\ listing.expires = Current.end
    BY <1>1, <1>3, <2>1 DEF Stands, DateKnown
  <2>4. ~(Current.end <= now)
    BY <1>1, <1>3, <2>1 DEF Due, Held, Holds
  <2>5. Current.end \in Nat
    BY <1>1, <2>1 DEF Subscription
  <2>6. ~Unheard(listing, Current, now, events)
    BY <1>1 DEF Unheard
  <2>7. QED
    BY <1>1, <1>3, <2>1, <2>2, <2>3, <2>4, <2>5, <2>6 DEF Agrees, ChangedFirst, FreeFirst
<1>4. QED
  BY <1>2, <1>3

(* A whole request on the subscription that is billed: what it comes to at    *)
(* Stripe, what is written, and the event that says so.                       *)
LEMMA AmendsAgrees ==
  ASSUME "cut" \notin Faults, AgreeInv, Quiet,
         listing.sub \in Subs, Holds(stripe, listing.sub),
         NEW STATE accepted, NEW STATE states, NEW STATE written, NEW STATE last,
         last = states[Len(states)], last \in Subscription, Priced(last),
         SameDeal(Current, last), last.end = Current.end,
         written \in Listing, written.sub = listing.sub,
         GoesOn(written, last) \/ WillEnd(written, last) \/
           WillChange(written, last) \/ WillBeFree(written, last),
         now' = now, Amends(accepted, states, written)
  PROVE  /\ Terms(stripe', now') /\ Told(stripe', events')
         /\ Stands(listing', stripe', now', events')
<1> DEFINE s == listing.sub
           e == EventOf("updated", s, last)
<1>1. /\ stripe \in [Subs -> Subscription] /\ events = <<>> /\ events \in Seq(Event)
      /\ Terms(stripe, now) /\ Told(stripe, events)
      /\ s \in Subs /\ s # NoSub /\ Current = stripe[s] /\ Current \in Subscription
  BY ListingPackageAssumption DEF AgreeInv, SaleInv, IInv, TypeOK, Quiet, Current
<1>2. /\ stripe' = [stripe EXCEPT ![s] = last] /\ listing' = written
      /\ events' = Append(events, e)
  BY <1>1 DEF Amends
<1>3. e \in Event /\ e.type = "updated" /\ e.sub = s /\ e.start = last.start /\ e.end = last.end
  BY <1>1, EventTyped DEF EventOf
<1> HIDE DEF e
<1>4. /\ last.status \in {"active", "past_due"} /\ last.status = stripe[s].status
      /\ last.start = stripe[s].start /\ last.start \in Nat
  BY <1>1 DEF SameDeal, Holds, Subscription
<1>5. Dated(last, now)
  BY <1>1, <1>4 DEF Terms, Holds, Dated
<1>6. Terms(stripe', now')
  BY <1>1, <1>2, <1>4, <1>5, TermsKept
<1>7. ~Awaited(s, events)
  BY <1>1 DEF Awaited
<1>8. e.start <= last.start /\ stripe[s].start <= last.start
  BY <1>3, <1>4
<1>9. stripe[s].status # "canceled" /\ last.status # "canceled"
  BY <1>4
<1>10. Told(stripe', events')
  BY <1>1, <1>2, <1>3, <1>7, <1>8, <1>9, ToldAppended
<1>11. Agrees(written, last, now, Append(events, e))
  BY DEF Agrees
<1>12. Stands(listing', stripe', now', events')
  BY <1>1, <1>2, <1>3, <1>4, <1>9, <1>11, OwnStands
<1>13. QED
  BY <1>6, <1>10, <1>12

(* A request is made when Stripe has nothing left to tell.                    *)
LEMMA AskedQuietly ==
  ASSUME AgreeInv, "meanwhile" \notin Requests, NEW kind, Asks(kind)
  PROVE  Quiet /\ now' = now
  BY DEF Asks

(* A downgrade leaves the two sides agreed on what is to change, or on the    *)
(* package becoming free.                                                     *)
LEMMA DowngradeAgrees ==
  ASSUME "cut" \notin Faults, {"meanwhile", "downgradeCancelled"} \cap Requests = {},
         AgreeInv, NEW p \in Packages, NEW c \in Cycles, Downgrade(p, c)
  PROVE  /\ Terms(stripe', now') /\ Told(stripe', events')
         /\ Stands(listing', stripe', now', events')
<1> DEFINE states == IF p = Minimum THEN CancelSubscription(Current)
                     ELSE ScheduleNextPeriod(Current, p, c)
           cycle == IF p = Minimum THEN NoCycle ELSE c
           written == [listing EXCEPT !.pending = p, !.pendingCycle = cycle,
                                      !.changeAt = EffectiveAt]
<1>1. Quiet /\ now' = now
  BY AskedQuietly DEF Downgrade
<1>2. /\ listing.endsAt = NoDate /\ IsDowngrade(p, c)
      /\ Amends(Changeable, states, written)
  BY DEF Downgrade, Asks
<1>3. listing \in Listing /\ stripe \in [Subs -> Subscription] /\ IInv /\ now \in Nat
  BY DEF AgreeInv, SaleInv, IInv, TypeOK
<1>4. c \in Nat /\ c >= 1 /\ Months(NoCycle) = 1 /\ p \in 0..2
  BY PackageNumbers DEF Packages
<1>5. ~Over(listing)
  BY <1>2, <1>4 DEF Over, IsDowngrade, Cheaper, Minimum
<1>6. /\ listing.sub \in Subs /\ Holds(stripe, listing.sub)
      /\ Priced(Current) /\ Dated(Current, now)
      /\ listing.expires = Current.end /\ now < Current.end
      /\ \/ GoesOn(listing, Current) \/ WillChange(listing, Current)
         \/ WillBeFree(listing, Current)
  BY <1>1, <1>2, <1>5, QuietStands DEF WillEnd
<1>7. Current \in Subscription /\ Current.end \in Nat
  BY <1>3, <1>6 DEF Current, Subscription
<1>8. EffectiveAt = Current.end /\ EffectiveAt \in Nat
  BY <1>3, <1>6, <1>7 DEF EffectiveAt, NoDate
<1>9. cycle \in Cycles \cup {NoCycle}
  BY CyclesAreNumbers
<1>10. /\ written \in Listing /\ written.sub = listing.sub
       /\ written.pending = p /\ written.pendingCycle = cycle /\ written.changeAt = Current.end
       /\ written.pkg = listing.pkg /\ written.cycle = listing.cycle
       /\ written.active = listing.active /\ written.endsAt = listing.endsAt
  <2> HIDE DEF cycle
  <2>1. QED
    BY <1>3, <1>8, <1>9 DEF Listing
<1> HIDE DEF written
<1>11. InForce(written, Current)
  BY <1>6, <1>10 DEF GoesOn, WillChange, WillBeFree, InForce
<1>12. CASE p = Minimum
  <2> DEFINE released == Released(Current)
             last == [released EXCEPT !.renews = FALSE]
  <2>1. released \in Subscription
    BY <1>7, ReleasedSale DEF SameSale
  <2>2. /\ released.status = Current.status /\ released.bought = Current.bought
        /\ released.term = Current.term /\ released.pkg = Current.pkg
        /\ released.cycle = Current.cycle /\ released.next = NoPackage
        /\ released.start = Current.start /\ released.end = Current.end
    BY <1>7 DEF Released, Subscription
  <2>3. last = states[Len(states)]
    BY <1>12 DEF CancelSubscription
  <2> HIDE DEF released, states
  <2>4. /\ last \in Subscription /\ SameDeal(Current, last) /\ last.end = Current.end
        /\ last.pkg = Current.pkg /\ last.cycle = Current.cycle /\ ~last.renews
        /\ last.next = NoPackage
    BY <2>1, <2>2 DEF SameDeal, Subscription
  <2>5. last.bought = Current.bought /\ last.term = Current.term
    BY <2>4 DEF SameDeal
  <2> HIDE DEF last
  <2>6. Priced(last)
    BY <1>6, <2>4, <2>5 DEF Priced, Scheduled, NoPackage, Minimum
  <2>7. WillBeFree(written, last)
    BY <1>2, <1>10, <1>11, <1>12, <2>4 DEF WillBeFree, InForce, Scheduled
  <2>8. QED
    BY <1>1, <1>2, <1>6, <1>10, <2>3, <2>4, <2>6, <2>7, AmendsAgrees
<1>13. CASE p # Minimum
  <2> DEFINE attached == IF Scheduled(Current) THEN Current
                         ELSE [Current EXCEPT !.renews = TRUE, !.next = Current.pkg,
                                              !.nextCycle = Current.cycle]
             last == [attached EXCEPT !.next = p, !.nextCycle = c]
  <2>1. Scheduled(Current) => Current.renews
    BY <1>6 DEF GoesOn, WillChange, WillBeFree
  <2>2. /\ attached \in Subscription /\ attached.renews
        /\ attached.status = Current.status /\ attached.bought = Current.bought
        /\ attached.term = Current.term /\ attached.pkg = Current.pkg
        /\ attached.cycle = Current.cycle
        /\ attached.start = Current.start /\ attached.end = Current.end
    BY <1>7, <2>1, CyclesAreNumbers DEF Scheduled, Subscription
  <2>3. last = states[Len(states)]
    BY <1>13 DEF ScheduleNextPeriod
  <2> HIDE DEF attached, states
  <2>4. /\ last \in Subscription /\ SameDeal(Current, last) /\ last.end = Current.end
        /\ last.pkg = Current.pkg /\ last.cycle = Current.cycle /\ last.renews
        /\ last.next = p /\ last.nextCycle = c
    BY <2>2 DEF SameDeal, Subscription
  <2>5. last.bought = Current.bought /\ last.term = Current.term
    BY <2>4 DEF SameDeal
  <2> HIDE DEF last
  <2>6. Scheduled(last)
    BY <1>4, <2>4 DEF Scheduled, NoPackage
  <2>7. Priced(last)
    BY <1>6, <1>13, <2>4, <2>5 DEF Priced
  <2>8. WillChange(written, last)
    BY <1>2, <1>10, <1>11, <1>13, <2>4, <2>6 DEF WillChange, InForce
  <2>9. QED
    BY <1>1, <1>2, <1>6, <1>10, <2>3, <2>4, <2>7, <2>8, AmendsAgrees
<1>14. QED
  BY <1>12, <1>13

(* A schedule withdrawn, and the subscription renewing or not from then on.   *)
LEMMA ReleasedTerms ==
  ASSUME NEW sub \in Subscription, Priced(sub), NEW renews \in BOOLEAN,
         NEW last, last = [Released(sub) EXCEPT !.renews = renews]
  PROVE  /\ last \in Subscription /\ Priced(last) /\ SameDeal(sub, last)
         /\ last.end = sub.end /\ last.pkg = sub.pkg /\ last.cycle = sub.cycle
         /\ last.renews = renews /\ ~Scheduled(last)
<1> DEFINE released == Released(sub)
<1>1. released \in Subscription
  BY ReleasedSale DEF SameSale
<1>2. /\ released.status = sub.status /\ released.bought = sub.bought
      /\ released.term = sub.term /\ released.pkg = sub.pkg
      /\ released.cycle = sub.cycle /\ released.next = NoPackage
      /\ released.start = sub.start /\ released.end = sub.end
  BY DEF Released, Subscription
<1> HIDE DEF released
<1>3. last = [released EXCEPT !.renews = renews]
  BY DEF released
<1>4. /\ last \in Subscription /\ SameDeal(sub, last) /\ last.end = sub.end
      /\ last.pkg = sub.pkg /\ last.cycle = sub.cycle /\ last.renews = renews
      /\ last.next = NoPackage
  BY <1>1, <1>2, <1>3 DEF SameDeal, Subscription
<1>5. last.bought = sub.bought /\ last.term = sub.term
  BY <1>4 DEF SameDeal
<1>6. QED
  BY <1>4, <1>5 DEF Priced, Scheduled, NoPackage, Minimum

(* A downgrade withdrawn leaves the two sides agreed that it goes on.         *)
LEMMA KeepAgrees ==
  ASSUME "cut" \notin Faults, "meanwhile" \notin Requests,
         AgreeInv, CancelScheduledPackageChange
  PROVE  /\ Terms(stripe', now') /\ Told(stripe', events')
         /\ Stands(listing', stripe', now', events')
<1> DEFINE accepted == listing.sub # NoSub /\ (Held(listing.sub) \/ Current.renews)
           states == ClearScheduledChange(Current)
           written == NothingQueued(listing)
           last == [Released(Current) EXCEPT !.renews = TRUE]
<1>1. Quiet /\ now' = now
  BY AskedQuietly DEF CancelScheduledPackageChange
<1>2. listing.pending # NoPackage /\ Amends(accepted, states, written)
  BY DEF CancelScheduledPackageChange
<1>3. listing \in Listing /\ stripe \in [Subs -> Subscription] /\ IInv
  BY DEF AgreeInv, SaleInv, IInv, TypeOK
<1>4. /\ listing.sub \in Subs /\ Holds(stripe, listing.sub) /\ Priced(Current)
      /\ WillChange(listing, Current) \/ WillBeFree(listing, Current)
  BY <1>1, <1>2, QuietStands DEF Over, GoesOn, WillEnd
<1>5. Current \in Subscription
  BY <1>3, <1>4 DEF Current
<1>6. last = states[Len(states)]
  BY DEF ClearScheduledChange
<1>7. written \in Listing
  BY <1>3, NothingQueuedListing DEF IInv
<1>8. /\ written.sub = listing.sub /\ written.pending = NoPackage
      /\ written.pkg = listing.pkg /\ written.cycle = listing.cycle
      /\ written.active = listing.active /\ written.endsAt = listing.endsAt
  BY <1>3 DEF NothingQueued, Listing
<1> HIDE DEF accepted, states, written
<1>9. /\ last \in Subscription /\ Priced(last) /\ SameDeal(Current, last)
      /\ last.end = Current.end /\ last.pkg = Current.pkg /\ last.cycle = Current.cycle
      /\ last.renews /\ ~Scheduled(last)
  BY <1>4, <1>5, ReleasedTerms
<1> HIDE DEF last
<1>10. GoesOn(written, last)
  BY <1>4, <1>8, <1>9 DEF GoesOn, WillChange, WillBeFree, InForce
<1>11. QED
  BY <1>1, <1>2, <1>4, <1>6, <1>7, <1>8, <1>9, <1>10, AmendsAgrees

(* A cancellation leaves the two sides agreed that it ends.                   *)
LEMMA CancelAgrees ==
  ASSUME "cut" \notin Faults, "meanwhile" \notin Requests, AgreeInv, CancelPackage
  PROVE  /\ Terms(stripe', now') /\ Told(stripe', events')
         /\ Stands(listing', stripe', now', events')
<1> DEFINE states == CancelSubscription(Current)
           date == IF listing.sub # NoSub THEN Current.end ELSE EffectiveAt
           written == Ending(listing, date)
           last == [Released(Current) EXCEPT !.renews = FALSE]
<1>1. Quiet /\ now' = now
  BY AskedQuietly DEF CancelPackage
<1>2. /\ listing.active /\ listing.pkg # Minimum /\ listing.endsAt = NoDate
      /\ Amends(Changeable, states, written)
  BY DEF CancelPackage
<1>3. listing \in Listing /\ stripe \in [Subs -> Subscription] /\ IInv /\ now \in Nat
  BY DEF AgreeInv, SaleInv, IInv, TypeOK
<1>4. /\ listing.sub \in Subs /\ Holds(stripe, listing.sub) /\ Priced(Current)
      /\ now < Current.end
      /\ \/ GoesOn(listing, Current) \/ WillChange(listing, Current)
         \/ WillBeFree(listing, Current)
  BY <1>1, <1>2, QuietStands DEF Over, WillEnd
<1>5. Current \in Subscription /\ Current.end \in Nat /\ listing.sub # NoSub
  BY <1>3, <1>4, ListingPackageAssumption DEF Current, Subscription
<1>6. last = states[Len(states)]
  BY DEF CancelSubscription
<1>7. date = Current.end /\ date \in Nat /\ date # NoDate
  BY <1>3, <1>4, <1>5 DEF NoDate
<1> HIDE DEF date, states
<1>8. written \in Listing
  BY <1>3, <1>7, EndingListing DEF IInv
<1>9. /\ written.sub = listing.sub /\ written.pending = NoPackage
      /\ written.pkg = listing.pkg /\ written.cycle = listing.cycle
      /\ written.active = listing.active /\ written.endsAt = date
  BY <1>3 DEF Ending, NothingQueued, Listing
<1> HIDE DEF written
<1>10. /\ last \in Subscription /\ Priced(last) /\ SameDeal(Current, last)
       /\ last.end = Current.end /\ last.pkg = Current.pkg /\ last.cycle = Current.cycle
       /\ ~last.renews /\ ~Scheduled(last)
  BY <1>4, <1>5, ReleasedTerms
<1> HIDE DEF last
<1>11. WillEnd(written, last)
  BY <1>4, <1>7, <1>9, <1>10 DEF GoesOn, WillChange, WillBeFree, WillEnd, InForce
<1>12. QED
  BY <1>1, <1>2, <1>4, <1>6, <1>8, <1>9, <1>10, <1>11, AmendsAgrees

(* A reactivation leaves the two sides agreed that it goes on.                *)
LEMMA ReactivateAgrees ==
  ASSUME "cut" \notin Faults, "meanwhile" \notin Requests, AgreeInv, ReactivatePackage
  PROVE  /\ Terms(stripe', now') /\ Told(stripe', events')
         /\ Stands(listing', stripe', now', events')
<1> DEFINE accepted == Changeable /\ ~Scheduled(Current)
           last == [Current EXCEPT !.renews = TRUE]
           states == <<last>>
           written == [listing EXCEPT !.endsAt = NoDate]
<1>1. Quiet /\ now' = now
  BY AskedQuietly DEF ReactivatePackage
<1>2. listing.endsAt > now /\ Amends(accepted, states, written)
  BY DEF ReactivatePackage
<1>3. listing \in Listing /\ stripe \in [Subs -> Subscription] /\ now \in Nat
  BY DEF AgreeInv, SaleInv, IInv, TypeOK
<1>4. listing.endsAt # NoDate
  BY <1>2, <1>3 DEF Listing, NoDate
<1>5. /\ listing.sub \in Subs /\ Holds(stripe, listing.sub) /\ Priced(Current)
      /\ WillEnd(listing, Current)
  BY <1>1, <1>4, QuietStands DEF Over, GoesOn, WillChange, WillBeFree
<1>6. Current \in Subscription
  BY <1>3, <1>5 DEF Current
<1>7. /\ written \in Listing /\ written.sub = listing.sub
      /\ written.pending = listing.pending /\ written.endsAt = NoDate
      /\ written.pkg = listing.pkg /\ written.cycle = listing.cycle
      /\ written.active = listing.active
  BY <1>3 DEF Listing, NoDate
<1>8. /\ last \in Subscription /\ SameDeal(Current, last) /\ last.end = Current.end
      /\ last.pkg = Current.pkg /\ last.cycle = Current.cycle /\ last.renews
      /\ last.next = Current.next /\ last.nextCycle = Current.nextCycle
      /\ last.bought = Current.bought /\ last.term = Current.term
  BY <1>6 DEF SameDeal, Subscription
<1>9. last = states[Len(states)]
  <2> HIDE DEF last
  <2>1. QED
    OBVIOUS
<1> HIDE DEF accepted, written, states, last
<1>10. Priced(last)
  BY <1>5, <1>8 DEF Priced, Scheduled
<1>11. GoesOn(written, last)
  BY <1>5, <1>7, <1>8 DEF WillEnd, GoesOn, InForce, Scheduled
<1>12. QED
  BY <1>1, <1>2, <1>5, <1>7, <1>8, <1>9, <1>10, <1>11, AmendsAgrees

(* The free package is chosen where nothing is billed.                        *)
LEMMA MinimumAgrees ==
  ASSUME "meanwhile" \notin Requests, AgreeInv, ChooseMinimum
  PROVE  /\ Terms(stripe', now') /\ Told(stripe', events')
         /\ Stands(listing', stripe', now', events')
<1>1. Quiet /\ now' = now
  BY AskedQuietly DEF ChooseMinimum
<1>2. /\ ~IsDowngrade(Minimum, 1) /\ UNCHANGED <<stripe, events>>
      /\ listing' = [listing EXCEPT !.pkg = Minimum, !.cycle = NoCycle, !.active = TRUE,
                                    !.expires = NoDate, !.endsAt = NoDate]
  BY DEF ChooseMinimum
<1>3. /\ listing \in Listing /\ stripe \in [Subs -> Subscription]
      /\ Terms(stripe, now) /\ Told(stripe, events) /\ Stands(listing, stripe, now, events)
  BY DEF AgreeInv, SaleInv, IInv, TypeOK
<1>4. Over(listing) /\ ~(listing.sub # NoSub /\ Holds(stripe, listing.sub))
  <2>1. ASSUME InForce(listing, Current), Priced(Current) PROVE FALSE
    <3>1. listing.active /\ listing.pkg # Minimum /\ listing.pkg \in 0..2
      BY <1>3, <2>1 DEF InForce, Priced, Listing, Packages
    <3>2. QED
      BY <1>2, <3>1 DEF IsDowngrade, Cheaper, Minimum
  <2>2. QED
    BY <1>1, <2>1, QuietStands DEF GoesOn, WillEnd, WillChange, WillBeFree
<1>5. /\ listing'.sub = listing.sub /\ listing'.pending = listing.pending
      /\ listing'.pkg = Minimum /\ listing'.cycle = NoCycle /\ listing'.endsAt = NoDate
  BY <1>2, <1>3 DEF Listing
<1>6. Over(listing')
  BY <1>4, <1>5 DEF Over
<1>7. Stands(listing', stripe, now, events)
  BY <1>3, <1>4, <1>5, <1>6 DEF Stands
<1>8. QED
  BY <1>1, <1>2, <1>3, <1>7

(* What the form writes while nothing is switched on disturbs nothing.        *)
LEMMA UpdateAgrees ==
  ASSUME {"edit", "meanwhile"} \cap Requests = {}, AgreeInv, NEW p \in Packages,
         NEW c \in Cycles \cup {NoCycle}, Update(p, c)
  PROVE  /\ Terms(stripe', now') /\ Told(stripe', events')
         /\ Stands(listing', stripe', now', events')
<1>1. Quiet /\ now' = now
  BY AskedQuietly DEF Update
<1>2. /\ ~listing.active /\ UNCHANGED <<stripe, events>>
      /\ listing' = [listing EXCEPT !.pkg = p, !.cycle = c]
  BY DEF Update, Asks
<1>3. /\ listing \in Listing /\ stripe \in [Subs -> Subscription]
      /\ Terms(stripe, now) /\ Told(stripe, events) /\ Stands(listing, stripe, now, events)
  BY DEF AgreeInv, SaleInv, IInv, TypeOK
<1>4. Over(listing) /\ ~(listing.sub # NoSub /\ Holds(stripe, listing.sub))
  BY <1>1, <1>2, QuietStands DEF GoesOn, WillEnd, WillChange, WillBeFree, InForce
<1>5. /\ listing'.sub = listing.sub /\ listing'.pending = listing.pending
      /\ listing'.active = listing.active /\ listing'.endsAt = listing.endsAt
  BY <1>2, <1>3 DEF Listing
<1>6. Over(listing')
  BY <1>2, <1>4, <1>5 DEF Over
<1>7. Stands(listing', stripe, now, events)
  BY <1>3, <1>4, <1>5, <1>6 DEF Stands
<1>8. QED
  BY <1>1, <1>2, <1>3, <1>7

(* A reader who applies what is due runs ahead of Stripe, or of its event,    *)
(* and the two sides stand so that it will catch up.                          *)
LEMMA LookAgrees ==
  ASSUME AgreeInv, GetPackageState
  PROVE  /\ Terms(stripe', now') /\ Told(stripe', events')
         /\ Stands(listing', stripe', now', events')
<1>1. /\ listing.pending # NoPackage /\ listing.changeAt <= now
      /\ listing' = Settle(listing) /\ UNCHANGED <<now, stripe, events>>
  BY DEF GetPackageState, ChangeIsDue
<1>2. /\ listing \in Listing /\ stripe \in [Subs -> Subscription]
      /\ Terms(stripe, now) /\ Told(stripe, events) /\ Stands(listing, stripe, now, events)
  BY DEF AgreeInv, SaleInv, IInv, TypeOK
<1>3. /\ listing'.sub = listing.sub /\ listing'.pending = NoPackage
      /\ listing'.pkg = listing.pending
      /\ listing'.active = (listing.pending # Minimum)
      /\ listing'.cycle = IF listing.pending = Minimum THEN NoCycle ELSE listing.pendingCycle
      /\ listing'.expires = listing.expires /\ listing'.endsAt = listing.endsAt
  BY <1>1, <1>2 DEF Settle, NothingQueued, Listing
<1>4. ASSUME listing.sub # NoSub, Holds(stripe, listing.sub)
      PROVE  Agrees(listing', stripe[listing.sub], now, events)
  <2> DEFINE sub == stripe[listing.sub]
  <2>1. Agrees(listing, sub, now, events) /\ listing.sub \in Subs
    BY <1>2, <1>4 DEF Stands, Listing
  <2>2. Priced(sub)
    BY <1>2, <1>4, <2>1 DEF Terms, Holds
  <2> HIDE DEF sub
  <2>3. CASE WillChange(listing, sub)
    <3>1. ChangedFirst(listing', sub, now)
      BY <1>1, <1>3, <2>2, <2>3 DEF WillChange, ChangedFirst, Priced
    <3>2. QED
      BY <3>1 DEF Agrees, sub
  <2>4. CASE WillBeFree(listing, sub)
    <3>1. FreeFirst(listing', sub, now)
      BY <1>1, <1>3, <2>4 DEF WillBeFree, FreeFirst
    <3>2. QED
      BY <3>1 DEF Agrees, sub
  <2>5. CASE Unheard(listing, sub, now, events)
    <3>1. GoesOn(listing', sub)
      BY <1>1, <1>3, <2>2, <2>5 DEF Unheard, GoesOn, InForce, Priced
    <3>2. QED
      BY <3>1 DEF Agrees, sub
  <2>6. QED
    BY <1>1, <2>1, <2>3, <2>4, <2>5 DEF Agrees, GoesOn, WillEnd, ChangedFirst, FreeFirst
<1>5. listing.sub # NoSub /\ DateKnown(listing, stripe[listing.sub], events) =>
        DateKnown(listing', stripe[listing.sub], events)
  BY <1>3 DEF DateKnown
<1>6. Stands(listing', stripe, now, events)
  BY <1>1, <1>2, <1>3, <1>4, <1>5 DEF Stands, Over
<1>7. QED
  BY <1>1, <1>2, <1>6

(* A checkout opened touches nothing that is paid for.                        *)
LEMMA CheckoutAgrees ==
  ASSUME AgreeInv, NEW s \in Subs, NEW p \in Packages, NEW c \in Cycles,
         CreatePackageCheckout(s, p, c)
  PROVE  /\ Terms(stripe', now') /\ Told(stripe', events')
         /\ Stands(listing', stripe', now', events')
<1> DEFINE sub == [Unused EXCEPT !.status = "offered", !.bought = p, !.term = c,
                                 !.pkg = p, !.cycle = c]
<1>1. /\ stripe \in [Subs -> Subscription] /\ listing \in Listing /\ events \in Seq(Event)
      /\ QueueBacked(events, stripe)
      /\ Terms(stripe, now) /\ Told(stripe, events) /\ Stands(listing, stripe, now, events)
  BY DEF AgreeInv, SaleInv, IInv, TypeOK
<1>2. /\ stripe[s].status = "unused" /\ p # Minimum
      /\ stripe' = [stripe EXCEPT ![s] = sub] /\ UNCHANGED <<now, events, listing>>
  BY DEF CreatePackageCheckout, Offered
<1>3. /\ sub.status = "offered" /\ sub.bought = p /\ sub.term = c
      /\ sub.pkg = p /\ sub.cycle = c /\ sub.next = NoPackage /\ sub.start = NoDate
  BY DEF Unused
<1> HIDE DEF sub
<1>4. \A t \in Subs : stripe'[t] = IF t = s THEN sub ELSE stripe[t]
  BY <1>1, <1>2
<1>5. Priced(sub) /\ AtPrice(sub)
  BY <1>2, <1>3 DEF Priced, AtPrice, Scheduled, NoPackage, Minimum
<1>6. Terms(stripe', now')
  BY <1>1, <1>2, <1>3, <1>4, <1>5 DEF Terms, Holds, PaidIn
<1>7. ASSUME NEW i \in DOMAIN events PROVE EventTrue(events[i], stripe')
  <2>1. /\ events[i] \in Event /\ EventTrue(events[i], stripe)
        /\ EventBacked(events[i], stripe)
    BY <1>1, ElementOfSeq DEF Told, EventsTrue, QueueBacked
  <2>2. events[i].sub \in Subs
    BY <2>1 DEF Event
  <2>3. CASE events[i].sub # s
    BY <1>4, <2>1, <2>2, <2>3 DEF EventTrue
  <2>4. CASE events[i].sub = s
    <3>1. stripe[s].start = NoDate /\ ~PaidIn(stripe, s)
      BY <1>1, <1>2 DEF Terms, PaidIn
    <3>2. QED
      BY <1>2, <1>3, <1>4, <2>1, <2>4, <3>1 DEF EventTrue, EventBacked
  <2>5. QED
    BY <2>3, <2>4
<1>8. EndsTold(stripe', events')
  BY <1>1, <1>2, <1>3, <1>4 DEF Told, EndsTold
<1>9. ASSUME NEW i \in DOMAIN events, Holds(stripe', events[i].sub), LastOf(i, events)
      PROVE  events[i].end = stripe'[events[i].sub].end
  <2>1. events[i] \in Event
    BY <1>1, ElementOfSeq
  <2>2. events[i].sub \in Subs
    BY <2>1 DEF Event
  <2>3. stripe'[events[i].sub] = stripe[events[i].sub]
    BY <1>3, <1>4, <1>9, <2>2 DEF Holds
  <2>4. QED
    BY <1>1, <1>9, <2>3 DEF Told, LastTold, Holds
<1>10. Told(stripe', events')
  BY <1>2, <1>7, <1>8, <1>9 DEF Told, EventsTrue, LastTold
<1>11. Stands(listing, stripe', now, events)
  <2>1. listing.sub # NoSub => listing.sub \in Subs /\ listing.sub # s
    BY <1>1, <1>2 DEF Stands, PaidIn, Listing
  <2>2. listing.sub # NoSub => stripe'[listing.sub] = stripe[listing.sub]
    BY <1>4, <2>1
  <2>3. QED
    BY <1>1, <2>2 DEF Stands, PaidIn, Holds
<1>12. QED
  BY <1>2, <1>6, <1>10, <1>11

(* The first event is taken from the queue, or will be repeated.              *)
Taken(queue) == {RemoveAt(queue, 1), queue}

(* What is left of the queue tells the truth, of an end too unless the event  *)
(* taken was it.                                                              *)
LEMMA TakenTold ==
  ASSUME NEW queue \in Seq(Event), 1 \in DOMAIN queue, NEW rest \in Taken(queue),
         NEW held, Told(held, queue)
  PROVE  /\ rest \in Seq(Event) /\ Told(held, rest)
         /\ \A s : EndTold(s, queue) =>
              EndTold(s, rest) \/ (queue[1].type = "deleted" /\ queue[1].sub = s)
<1>1. CASE rest = queue
  BY <1>1
<1>2. CASE rest = RemoveAt(queue, 1)
  <2>1. rest \in Seq(Event)
    BY <1>2, HeadGone
  <2>2. Told(held, rest)
    BY <1>2, ToldRemoved
  <2>3. QED
    BY <1>2, <2>1, <2>2, EndToldRemoved
<1>3. QED
  BY <1>1, <1>2 DEF Taken

(* Every event but the one taken is in what is left of the queue.             *)
LEMMA StillTaken ==
  ASSUME NEW queue \in Seq(Event), 1 \in DOMAIN queue, NEW rest \in Taken(queue)
  PROVE  \A i \in DOMAIN queue : i # 1 => \E j \in DOMAIN rest : rest[j] = queue[i]
<1>1. CASE rest = queue
  BY <1>1
<1>2. CASE rest = RemoveAt(queue, 1)
  BY <1>2, HeadGone
<1>3. QED
  BY <1>1, <1>2 DEF Taken

(* An event of another subscription is taken, the listing staying as it is.   *)
LEMMA OtherTaken ==
  ASSUME NEW queue \in Seq(Event), 1 \in DOMAIN queue, NEW rest \in Taken(queue),
         NEW held, Told(held, queue), NEW l, NEW today, Stands(l, held, today, queue),
         queue[1].sub # l.sub
  PROVE  Stands(l, held, today, rest)
<1>1. \A i \in DOMAIN queue : i # 1 => \E j \in DOMAIN rest : rest[j] = queue[i]
  BY StillTaken
<1>2. EndTold(l.sub, queue) => EndTold(l.sub, rest)
  BY TakenTold
<1>3. Agrees(l, held[l.sub], today, queue) => Agrees(l, held[l.sub], today, rest)
  <2>1. Unheard(l, held[l.sub], today, queue) => Unheard(l, held[l.sub], today, rest)
    BY <1>1 DEF Unheard
  <2>2. QED
    BY <2>1 DEF Agrees
<1>4. DateKnown(l, held[l.sub], queue) => DateKnown(l, held[l.sub], rest)
  BY <1>1 DEF DateKnown
<1>5. QED
  BY <1>2, <1>3, <1>4 DEF Stands

(* The renewal of the listing's own subscription is recorded: the change that *)
(* was due with it is made, and the end of the period is known.               *)
LEMMA OwnRenewed ==
  ASSUME NEW queue \in Seq(Event), 1 \in DOMAIN queue, NEW rest \in Taken(queue),
         NEW held \in [Subs -> Subscription], Told(held, queue), NEW today \in Nat,
         Terms(held, today), NEW l \in Listing, Stands(l, held, today, queue),
         queue[1].sub = l.sub, queue[1].type = "updated"
  PROVE  Stands(Renewed(l, queue[1]), held, today, rest)
<1> DEFINE e == queue[1]
           l2 == Renewed(l, e)
           sub == held[l.sub]
           moved == [l EXCEPT !.expires = e.end]
           settled == [Settle(l) EXCEPT !.expires = e.end]
<1>1. e \in Event
  BY ElementOfSeq
<1>2. /\ e.start \in Nat /\ e.end \in Nat /\ l.sub \in Subs /\ l.sub # NoSub
      /\ sub \in Subscription /\ e.start <= sub.start
  BY <1>1, ListingPackageAssumption DEF Event, Told, EventsTrue, EventTrue
<1>3. /\ moved.sub = l.sub /\ moved.expires = e.end /\ moved.active = l.active
      /\ moved.pkg = l.pkg /\ moved.cycle = l.cycle /\ moved.endsAt = l.endsAt
      /\ moved.pending = l.pending /\ moved.pendingCycle = l.pendingCycle
      /\ moved.changeAt = l.changeAt
  BY DEF Listing
<1>4. /\ settled.sub = l.sub /\ settled.expires = e.end
      /\ settled.active = (l.pending # Minimum) /\ settled.pkg = l.pending
      /\ settled.cycle = IF l.pending = Minimum THEN NoCycle ELSE l.pendingCycle
      /\ settled.endsAt = l.endsAt /\ settled.pending = NoPackage
  BY DEF Settle, NothingQueued, Listing
<1>5. l2 = IF l.pending \in Packages \ {Minimum} /\ e.start >= l.changeAt
           THEN settled ELSE moved
  BY DEF Renewed
<1> HIDE DEF moved, settled, l2, sub
<1>6. l2.sub = l.sub /\ l2.expires = e.end
  BY <1>3, <1>4, <1>5
<1>7. EndTold(l.sub, queue) => EndTold(l.sub, rest)
  BY TakenTold
<1>8. Over(l) => Over(l2)
  BY <1>3, <1>5 DEF Over, Packages, NoPackage
<1>9. ASSUME Holds(held, l.sub) PROVE Agrees(l2, sub, today, rest)
  <2>1. Agrees(l, sub, today, queue)
    BY <1>2, <1>9 DEF Stands, sub
  <2>2. Priced(sub) /\ Dated(sub, today)
    BY <1>2, <1>9 DEF Terms, Holds, sub
  <2>3. sub.start \in Nat /\ sub.end \in Nat
    BY <1>2 DEF Subscription
  <2>4. CASE l.pending = NoPackage
    <3>1. l2 = moved
      BY <1>5, <2>4 DEF Packages, NoPackage
    <3>2. \/ GoesOn(l2, sub) \/ WillEnd(l2, sub)
          \/ ChangedFirst(l2, sub, today) \/ FreeFirst(l2, sub, today)
      <4>1. ~WillChange(l, sub)
        BY <2>4 DEF WillChange, Scheduled
      <4>2. ~WillBeFree(l, sub)
        BY <2>4 DEF WillBeFree, NoPackage, Minimum
      <4>3. ~Unheard(l, sub, today, queue)
        BY <1>2, <2>4 DEF Unheard, Subscription, Packages, NoPackage
      <4>4. QED
        BY <1>3, <2>1, <3>1, <4>1, <4>2, <4>3
           DEF Agrees, GoesOn, WillEnd, ChangedFirst, FreeFirst, InForce
    <3>3. QED
      BY <3>2 DEF Agrees
  <2>5. CASE WillChange(l, sub)
    <3>1. ~(e.start >= l.changeAt)
      BY <1>2, <2>2, <2>3, <2>5 DEF WillChange, Dated
    <3>2. WillChange(l2, sub)
      BY <1>3, <1>5, <2>5, <3>1 DEF WillChange, InForce
    <3>3. QED
      BY <3>2 DEF Agrees
  <2>6. CASE WillBeFree(l, sub)
    <3>1. WillBeFree(l2, sub)
      BY <1>3, <1>5, <2>6 DEF WillBeFree, InForce
    <3>2. QED
      BY <3>1 DEF Agrees
  <2>7. CASE Unheard(l, sub, today, queue)
    <3>1. CASE e.start >= l.changeAt
      <4>1. l.pending \in Packages \ {Minimum}
        BY <1>2, <2>2, <2>7 DEF Unheard, Priced, Subscription
      <4>2. l2 = settled
        BY <1>5, <3>1, <4>1
      <4>3. GoesOn(l2, sub)
        BY <1>4, <2>7, <4>1, <4>2 DEF Unheard, GoesOn, InForce
      <4>4. QED
        BY <4>3 DEF Agrees
    <3>2. CASE ~(e.start >= l.changeAt)
      <4>1. e.start # sub.start /\ l2 = moved
        BY <1>2, <1>5, <2>3, <2>7, <3>2 DEF Unheard
      <4>2. PICK i \in DOMAIN queue :
              queue[i].type = "updated" /\ queue[i].sub = l.sub /\ queue[i].start = sub.start
        BY <2>7 DEF Unheard
      <4>3. \E j \in DOMAIN rest : rest[j] = queue[i]
        BY <4>1, <4>2, StillTaken
      <4>4. Unheard(l2, sub, today, rest)
        BY <1>3, <2>7, <4>1, <4>2, <4>3 DEF Unheard
      <4>5. QED
        BY <4>4 DEF Agrees
    <3>3. QED
      BY <3>1, <3>2
  <2>8. QED
    BY <2>1, <2>4, <2>5, <2>6, <2>7
       DEF Agrees, GoesOn, WillEnd, ChangedFirst, FreeFirst
<1>10. ASSUME Holds(held, l.sub), \A i \in DOMAIN rest : rest[i].sub # l.sub
       PROVE  e.end = sub.end
  <2>1. \A i \in DOMAIN queue : i # 1 => queue[i].sub # l.sub
    BY <1>10, StillTaken
  <2>2. LastOf(1, queue)
    BY <2>1 DEF LastOf
  <2>3. QED
    BY <1>10, <2>2 DEF Told, LastTold, sub
<1>11. Holds(held, l.sub) => DateKnown(l2, sub, rest)
  BY <1>6, <1>10 DEF DateKnown
<1>12. Stands(l2, held, today, rest)
  BY <1>2, <1>6, <1>7, <1>8, <1>9, <1>11 DEF Stands, sub
<1>13. QED
  BY <1>12 DEF l2

(* The end of the listing's own subscription is recorded: nothing is had.     *)
LEMMA OwnEnded ==
  ASSUME NEW queue \in Seq(Event), 1 \in DOMAIN queue, NEW rest,
         NEW held, Told(held, queue), NEW today,
         NEW l \in Listing, Stands(l, held, today, queue),
         queue[1].sub = l.sub, queue[1].type = "deleted"
  PROVE  Stands(Deactivated(l), held, today, rest)
<1> DEFINE l2 == Deactivated(l)
<1>1. /\ l2.sub = l.sub /\ ~l2.active /\ l2.pending = NoPackage /\ l2.endsAt = NoDate
  BY DEF Deactivated, NothingQueued, Listing
<1> HIDE DEF l2
<1>2. ~Holds(held, l.sub)
  BY DEF Told, EventsTrue, EventTrue, Holds
<1>3. Stands(l2, held, today, rest)
  BY <1>1, <1>2 DEF Stands, Over
<1>4. QED
  BY <1>3 DEF l2

(* A paid checkout is recorded: the package goes on, or its end is to be      *)
(* told, and that of the subscription it replaces is.                         *)
LEMMA ApplyAgrees ==
  ASSUME "cut" \notin Faults, AgreeInv, 1 \in DOMAIN events, events[1].type = "checkout",
         NEW STATE rest, rest \in Taken(events), now' = now,
         ApplyFromSession(events[1].sub, rest)
  PROVE  /\ Terms(stripe', now') /\ Told(stripe', events')
         /\ Stands(listing', stripe', now', events')
<1> DEFINE s == events[1].sub
           old == listing.sub
           l2 == Activated(listing, s, stripe[s].end)
<1>1. /\ stripe \in [Subs -> Subscription] /\ listing \in Listing /\ events \in Seq(Event)
      /\ IInv /\ QueueBacked(events, stripe)
      /\ Terms(stripe, now) /\ Told(stripe, events) /\ Stands(listing, stripe, now, events)
  BY DEF AgreeInv, SaleInv, IInv, TypeOK
<1>2. events[1] \in Event
  BY <1>1, ElementOfSeq
<1>3. s \in Subs /\ s # NoSub /\ PaidIn(stripe, s) /\ Fresh(stripe[s])
  BY <1>1, <1>2, ListingPackageAssumption
     DEF Event, QueueBacked, EventBacked, Told, EventsTrue, EventTrue
<1>4. stripe[s] \in Subscription /\ stripe[s].end \in Nat
  BY <1>1, <1>3 DEF Subscription
<1>5. listing' = l2
  BY DEF ApplyFromSession
<1>6. l2 \in Listing
  BY <1>1, <1>3, <1>4, ActivatedListing
<1>7. /\ l2.sub = s /\ l2.active /\ l2.pkg = stripe[s].bought /\ l2.cycle = stripe[s].term
      /\ l2.expires = stripe[s].end /\ l2.endsAt = NoDate /\ l2.pending = NoPackage
  BY <1>1 DEF Activated, NothingQueued, Listing
<1> HIDE DEF l2
<1>8. /\ rest \in Seq(Event) /\ Told(stripe, rest)
      /\ EndTold(s, events) => EndTold(s, rest)
  BY <1>1, TakenTold
<1>9. Stands(l2, stripe, now, rest)
  <2>1. CASE Holds(stripe, s)
    <3>1. GoesOn(l2, stripe[s])
      BY <1>3, <1>7, <2>1 DEF GoesOn, InForce, Fresh, AtPrice, Holds
    <3>2. Agrees(l2, stripe[s], now, rest) /\ DateKnown(l2, stripe[s], rest)
      BY <1>7, <3>1 DEF Agrees, DateKnown
    <3>3. QED
      BY <1>3, <1>7, <2>1, <3>2 DEF Stands
  <2>2. CASE ~Holds(stripe, s)
    <3>1. stripe[s].status = "canceled" /\ Awaited(s, events)
      BY <1>3, <1>4, <2>2 DEF Holds, PaidIn, Awaited, Subscription
    <3>2. EndTold(s, rest)
      BY <1>1, <1>3, <1>8, <3>1 DEF Told, EndsTold
    <3>3. QED
      BY <1>3, <1>7, <2>2, <3>2 DEF Stands
  <2>3. QED
    BY <2>1, <2>2
<1>10. CASE events' = rest /\ UNCHANGED stripe
  BY <1>1, <1>5, <1>8, <1>9, <1>10
<1>11. CASE /\ Replaces(old, s)
            /\ stripe' = [stripe EXCEPT ![old] = Stopped(stripe[old])]
            /\ events' = Append(rest, EventOf("deleted", old, stripe[old]))
  <2> DEFINE sub == Stopped(stripe[old])
             e == EventOf("deleted", old, stripe[old])
  <2>1. old \in Subs /\ old # s /\ Holds(stripe, old) /\ stripe[old] \in Subscription
    BY <1>1, <1>11 DEF Replaces, Held, Holds, Listing
  <2>2. Priced(stripe[old]) /\ stripe[old].start \in Nat
    BY <1>1, <2>1 DEF Terms, Holds, Subscription
  <2>3. /\ sub \in Subscription /\ sub.status = "canceled"
        /\ Priced(sub) /\ (Fresh(stripe[old]) => Fresh(sub))
        /\ sub.start = stripe[old].start
    BY <2>1, <2>2, StoppedTerms
  <2>4. e \in Event /\ e.type = "deleted" /\ e.sub = old /\ e.start = stripe[old].start
    BY <2>1, EventTyped DEF EventOf
  <2> HIDE DEF sub, e
  <2>5. stripe' = [stripe EXCEPT ![old] = sub] /\ events' = Append(rest, e)
    BY <1>11 DEF sub, e
  <2>6. Terms(stripe', now)
    BY <1>1, <2>1, <2>3, <2>5, TermsKept
  <2>7. Awaited(old, rest) => Fresh(sub)
    BY <1>8, <2>3 DEF Awaited, Told, EventsTrue, EventTrue
  <2>8. stripe[old].status # "canceled"
    BY <2>1 DEF Holds
  <2>9. stripe[old].start <= sub.start /\ e.start <= sub.start
    BY <2>2, <2>3, <2>4
  <2>10. Told(stripe', events')
    BY <1>1, <1>8, <2>3, <2>4, <2>5, <2>7, <2>8, <2>9, ToldAppended
  <2>11. Stands(l2, stripe', now, events')
    BY <1>1, <1>6, <1>7, <1>8, <1>9, <2>1, <2>4, <2>5, OtherStands
  <2>12. QED
    BY <1>5, <2>6, <2>10, <2>11
<1>12. QED
  BY <1>10, <1>11 DEF ApplyFromSession

(* An event delivered in its turn brings the listing to what it says.         *)
LEMMA DeliverAgrees ==
  ASSUME {"reorder", "cut"} \cap Faults = {}, AgreeInv,
         NEW i \in DOMAIN events, Deliver(i)
  PROVE  /\ Terms(stripe', now') /\ Told(stripe', events')
         /\ Stands(listing', stripe', now', events')
<1>1. /\ stripe \in [Subs -> Subscription] /\ listing \in Listing /\ events \in Seq(Event)
      /\ now \in Nat
      /\ Terms(stripe, now) /\ Told(stripe, events) /\ Stands(listing, stripe, now, events)
  BY DEF AgreeInv, SaleInv, IInv, TypeOK
<1>2. 1 \in DOMAIN events /\ i = 1 /\ now' = now
  BY DEF Deliver
<1> DEFINE e == events[1]
<1>3. PICK rest \in Taken(events) :
        \/ e.type = "checkout" /\ ApplyFromSession(e.sub, rest)
        \/ /\ RecordListingRenewal(e) \/ DeactivateListingPackage(e)
           /\ events' = rest
           /\ UNCHANGED stripe
  BY <1>2 DEF Deliver, Taken
<1>4. CASE e.type = "checkout" /\ ApplyFromSession(e.sub, rest)
  BY <1>2, <1>4, ApplyAgrees
<1>5. ASSUME events' = rest, UNCHANGED stripe, Stands(listing', stripe, now, rest)
      PROVE  /\ Terms(stripe', now') /\ Told(stripe', events')
             /\ Stands(listing', stripe', now', events')
  BY <1>1, <1>2, <1>5, TakenTold
<1>6. ASSUME RecordListingRenewal(e) \/ DeactivateListingPackage(e)
      PROVE  Stands(listing', stripe, now, rest)
  <2>1. CASE listing.sub # e.sub
    <3>1. listing' = listing
      BY <1>6, <2>1 DEF RecordListingRenewal, DeactivateListingPackage
    <3>2. QED
      BY <1>1, <1>2, <2>1, <3>1, OtherTaken
  <2>2. CASE listing.sub = e.sub /\ RecordListingRenewal(e)
    <3>1. e.type = "updated" /\ listing' = Renewed(listing, e)
      BY <2>2 DEF RecordListingRenewal
    <3>2. QED
      BY <1>1, <1>2, <2>2, <3>1, OwnRenewed
  <2>3. CASE listing.sub = e.sub /\ DeactivateListingPackage(e)
    <3>1. e.type = "deleted" /\ listing' = Deactivated(listing)
      BY <2>3 DEF DeactivateListingPackage
    <3>2. QED
      BY <1>1, <1>2, <2>3, <3>1, OwnEnded
  <2>4. QED
    BY <1>6, <2>1, <2>2, <2>3
<1>7. QED
  BY <1>3, <1>4, <1>5, <1>6

(* Every step of these worlds keeps the two sides agreed.                     *)
LEMMA AgreeStep ==
  ASSUME {"reorder", "lose", "cut"} \cap Faults = {},
         {"edit", "meanwhile", "confirm", "sold", "downgradeCancelled"} \cap Requests = {},
         AgreeInv, [Next]_vars
  PROVE  AgreeInv'
<1> DEFINE Goal == /\ Terms(stripe', now') /\ Told(stripe', events')
                   /\ Stands(listing', stripe', now', events')
<1>0. {"lose", "cut"} \cap Faults = {} /\ {"reorder", "cut"} \cap Faults = {}
      /\ "lose" \notin Faults /\ "cut" \notin Faults
      /\ "meanwhile" \notin Requests /\ "confirm" \notin Requests /\ "sold" \notin Requests
      /\ {"meanwhile", "downgradeCancelled"} \cap Requests = {}
      /\ {"edit", "meanwhile"} \cap Requests = {}
  OBVIOUS
<1>1. IInv' /\ SalesKnown(listing', stripe', events')
  BY <1>0, NextBacked, SaleStep DEF AgreeInv, SaleInv
<1>2. ASSUME UNCHANGED vars PROVE Goal
  <2>1. UNCHANGED now /\ UNCHANGED stripe /\ UNCHANGED events /\ UNCHANGED listing
    BY <1>2 DEF vars
  <2>2. Terms(stripe, now) /\ Told(stripe, events) /\ Stands(listing, stripe, now, events)
    BY DEF AgreeInv
  <2>3. QED
    BY <2>1, <2>2
<1>3. ASSUME Stripe PROVE Goal
  BY <1>3, StripeAgrees
<1>4. ASSUME Seller PROVE Goal
  <2>1. ASSUME NEW s \in Subs, NEW p \in Packages, NEW c \in Cycles,
               CreatePackageCheckout(s, p, c)
        PROVE  Goal
    BY <1>0, <2>1, CheckoutAgrees
  <2>2. ASSUME NEW p \in Packages, NEW c \in Cycles, Downgrade(p, c) PROVE Goal
    BY <1>0, <2>2, DowngradeAgrees
  <2>3. ASSUME ChooseMinimum \/ CancelScheduledPackageChange \/ CancelPackage
                 \/ ReactivatePackage \/ GetPackageState
        PROVE  Goal
    BY <1>0, <2>3, MinimumAgrees, KeepAgrees, CancelAgrees, ReactivateAgrees, LookAgrees
  <2>4. ASSUME NEW s \in Subs, SyncCheckoutSession(s) PROVE FALSE
    BY <1>0, <2>4 DEF SyncCheckoutSession, Asks
  <2>5. ASSUME NEW p \in Packages, NEW c \in Cycles \cup {NoCycle}, Update(p, c) PROVE Goal
    BY <1>0, <2>5, UpdateAgrees
  <2>6. QED
    BY <1>4, <2>1, <2>2, <2>3, <2>4, <2>5 DEF Seller
<1>5. ASSUME MarkSold PROVE Goal
  BY <1>0, <1>5 DEF MarkSold, Asks
<1>6. ASSUME Webhook PROVE Goal
  <2>1. ASSUME NEW i \in DOMAIN events, Lose(i) PROVE FALSE
    BY <1>0, <2>1 DEF Lose
  <2>2. ASSUME NEW i \in DOMAIN events, Deliver(i) PROVE Goal
    BY <1>0, <2>2, DeliverAgrees
  <2>3. QED
    BY <1>6, <2>1, <2>2 DEF Webhook
<1>7. Goal
  BY <1>2, <1>3, <1>4, <1>5, <1>6 DEF Next
<1>8. QED
  BY <1>1, <1>7 DEF AgreeInv, SaleInv, SalesKnown, Holds, Awaited,
     Terms, PaidIn, Told, EventsTrue, EventTrue, EndsTold, EndTold, LastTold, LastOf,
     Stands, Agrees, DateKnown, Unheard

(* To begin with there is nothing to disagree about.                          *)
LEMMA InitAgrees == Init => AgreeInv
<1> SUFFICES ASSUME Init PROVE AgreeInv
  OBVIOUS
<1>1. /\ events = <<>> /\ \A s \in Subs : stripe[s] = Unused
      /\ listing = NewListing
  BY DEF Init
<1>2. /\ Unused.status = "unused" /\ Unused.start = NoDate
      /\ NewListing.sub = NoSub /\ ~NewListing.active
      /\ NewListing.pending = NoPackage /\ NewListing.endsAt = NoDate
  BY DEF Unused, NewListing
<1>3. SaleInv
  BY <1>1, <1>2, InitBacked DEF SaleInv, SalesKnown, Holds
<1>4. Terms(stripe, now)
  BY <1>1, <1>2 DEF Terms, PaidIn, Holds
<1>5. Told(stripe, events)
  BY <1>1 DEF Told, EventsTrue, EndsTold, LastTold, Awaited
<1>6. Stands(listing, stripe, now, events)
  BY <1>1, <1>2 DEF Stands, Over
<1>7. QED
  BY <1>3, <1>4, <1>5, <1>6 DEF AgreeInv

(* The invariant of these worlds holds all along.                             *)
LEMMA AgreedAlways ==
  ASSUME {"reorder", "lose", "cut"} \cap Faults = {},
         {"edit", "meanwhile", "confirm", "sold", "downgradeCancelled"} \cap Requests = {}
  PROVE  Spec => []AgreeInv
  BY InitAgrees, AgreeStep, PTL DEF Spec

(* Nothing is billed that the listing has not, and nothing had that is not    *)
(* billed, for any number of subscriptions and requests, with payments        *)
(* declined, events repeated and Stripe's page open in several tabs.  What is *)
(* excluded is needed: the form's edit of a package switched on, a request    *)
(* while an event is on its way, a sale, the success page's own recording, a  *)
(* downgrade of what is to end, an event lost or out of order and a request   *)
(* cut short each leave the two sides apart.                                  *)
THEOREM BilledAsHeld ==
  ASSUME {"reorder", "lose", "cut"} \cap Faults = {},
         {"edit", "meanwhile", "confirm", "sold", "downgradeCancelled"} \cap Requests = {}
  PROVE  Spec => []BillingAgrees
<1>1. ASSUME AgreeInv PROVE BilledIsHeld
  <2> SUFFICES ASSUME Quiet, NEW s \in Subs, Held(s)
               PROVE  /\ listing.sub = s /\ listing.active
                      /\ <<listing.pkg, listing.cycle>> = <<stripe[s].pkg, stripe[s].cycle>>
    BY DEF BilledIsHeld
  <2>1. Holds(stripe, s) /\ ~Awaited(s, events)
    BY DEF Held, Holds, Quiet, Awaited
  <2>2. listing.sub = s
    BY <1>1, <2>1 DEF AgreeInv, SaleInv, SalesKnown
  <2>3. s # NoSub /\ Current = stripe[s]
    BY <2>2, ListingPackageAssumption DEF Current
  <2>4. InForce(listing, Current)
    BY <1>1, <2>1, <2>2, <2>3, QuietStands DEF GoesOn, WillEnd, WillChange, WillBeFree
  <2>5. QED
    BY <2>2, <2>3, <2>4 DEF InForce
<1>2. ASSUME AgreeInv PROVE HeldIsBilled
  BY <1>2, QuietStands, ListingPackageAssumption DEF HeldIsBilled, Over, Held, Holds
<1>3. AgreeInv => BillingAgrees
  BY <1>1, <1>2 DEF BillingAgrees
<1>4. QED
  BY <1>3, AgreedAlways, PTL

(* The seller's page and Stripe say the same of the next period, in the same  *)
(* worlds: no two requests, whatever their order, leave one of them behind.   *)
THEOREM NextPeriodIsKnown ==
  ASSUME {"reorder", "lose", "cut"} \cap Faults = {},
         {"edit", "meanwhile", "confirm", "sold", "downgradeCancelled"} \cap Requests = {}
  PROVE  Spec => []NextPeriodAgrees
<1>1. ASSUME AgreeInv PROVE NextPeriodAgrees
  <2> SUFFICES ASSUME Quiet, listing.sub # NoSub, Held(listing.sub)
               PROVE  /\ NextByListing = NextByStripe
                      /\ listing.pending # NoPackage =>
                           listing.changeAt = stripe[listing.sub].end
    BY DEF NextPeriodAgrees
  <2>1. /\ GoesOn(listing, Current) \/ WillEnd(listing, Current)
             \/ WillChange(listing, Current) \/ WillBeFree(listing, Current)
        /\ Priced(Current)
    BY <1>1, QuietStands DEF Held, Holds
  <2>2. Current = stripe[listing.sub]
    BY DEF Current
  <2>3. NextByStripe = CASE ~Current.renews -> Null
          [] Current.renews /\ Scheduled(Current) -> <<Current.next, Current.nextCycle>>
          [] OTHER -> <<Current.pkg, Current.cycle>>
    BY <2>2 DEF NextByStripe
  <2>4. CASE GoesOn(listing, Current)
    BY <2>2, <2>3, <2>4 DEF GoesOn, InForce, NextByListing
  <2>5. CASE WillEnd(listing, Current)
    BY <2>2, <2>3, <2>5 DEF WillEnd, InForce, NextByListing
  <2>6. CASE WillChange(listing, Current)
    BY <2>2, <2>3, <2>6 DEF WillChange, InForce, NextByListing, Scheduled
  <2>7. CASE WillBeFree(listing, Current)
    BY <2>2, <2>3, <2>7
       DEF WillBeFree, InForce, NextByListing, Null, NoPackage, Minimum
  <2>8. QED
    BY <2>1, <2>4, <2>5, <2>6, <2>7
<1>2. QED
  BY <1>1, AgreedAlways, PTL
--------------------------------------------------------------------------------
(* The refinement: packages are sold as Purchase promises.  What Stripe bills *)
(* now and what it has scheduled must be backed by a payment as what is       *)
(* switched on is; a checkout is offered at the price of what it is for.      *)
Charges(sub, held) == Backed(sub.pkg, held) /\ (Scheduled(sub) => Backed(sub.next, held))

SubBacked(sub, held) ==
  /\ sub.status \in {"active", "past_due"} => Charges(sub, held)
  /\ sub.status = "offered" => sub.pkg = sub.bought /\ ~Scheduled(sub)

BillInv == IInv /\ \A s \in Subs : SubBacked(stripe[s], stripe)

(* How a step may change one subscription.                                    *)
CheckoutOpens(s) ==
  /\ UNCHANGED listing
  /\ stripe[s].status = "unused" /\ stripe'[s].status = "offered"
  /\ stripe'[s].pkg = stripe'[s].bought /\ ~Scheduled(stripe'[s])

PaymentBegins(s) ==
  /\ UNCHANGED listing
  /\ stripe[s].status = "offered" /\ stripe'[s].status = "active"
  /\ stripe'[s].bought = stripe[s].bought
  /\ stripe'[s].pkg = stripe[s].pkg /\ stripe'[s].next = stripe[s].next

SaleEnds(s) ==
  /\ Holds(stripe, s) /\ stripe'[s].status = "canceled"
  /\ stripe'[s].bought = stripe[s].bought

PriceChanges(s) ==
  /\ listing'.active = listing.active /\ listing'.pkg = listing.pkg
  /\ stripe'[s].status = stripe[s].status \/ (Holds(stripe, s) /\ Holds(stripe', s))
  /\ stripe'[s].bought = stripe[s].bought /\ SubBacked(stripe'[s], stripe)

OneMoves(s) ==
  /\ \A t \in Subs : t # s => stripe'[t] = stripe[t]
  /\ CheckoutOpens(s) \/ PaymentBegins(s) \/ SaleEnds(s) \/ PriceChanges(s)

(* The period that follows is billed at a price that is backed.               *)
LEMMA NextCharges ==
  ASSUME NEW sub \in Subscription, NEW held, Charges(sub, held)
  PROVE  Charges(NextPeriod(sub), held) /\ NextPeriod(sub) \in Subscription
<1> DEFINE priced == IF Scheduled(sub)
                     THEN [Released(sub) EXCEPT !.pkg = sub.next, !.cycle = sub.nextCycle]
                     ELSE sub
           end == sub.end + priced.cycle
<1>1. /\ priced \in Subscription /\ priced.next = NoPackage
      /\ priced.pkg = IF Scheduled(sub) THEN sub.next ELSE sub.pkg
  BY CyclesAreNumbers DEF Released, Scheduled, Subscription
<1>2. NextPeriod(sub) = [priced EXCEPT !.start = sub.end, !.end = end]
  BY DEF NextPeriod
<1>3. NextPeriod(sub).next = priced.next /\ NextPeriod(sub).pkg = priced.pkg
  <2> HIDE DEF priced, end
  <2>1. QED
    BY <1>1, <1>2 DEF Subscription
<1> HIDE DEF priced
<1>4. Charges(NextPeriod(sub), held)
  BY <1>1, <1>3 DEF Charges, Scheduled
<1>5. QED
  BY <1>4, NextPeriodSale DEF SameSale

(* The calls that withdraw a schedule, or cancel, bill nothing new.           *)
LEMMA ReleasedBacked ==
  ASSUME NEW sub \in Subscription, NEW held, SubBacked(sub, held)
  PROVE  /\ \A k \in DOMAIN CancelSubscription(sub) : SubBacked(CancelSubscription(sub)[k], held)
         /\ \A k \in DOMAIN ClearScheduledChange(sub) :
              SubBacked(ClearScheduledChange(sub)[k], held)
<1> DEFINE released == Released(sub)
           ended == [Released(sub) EXCEPT !.renews = FALSE]
           resumed == [Released(sub) EXCEPT !.renews = TRUE]
<1>1. /\ released \in Subscription /\ released.status = sub.status
      /\ released.pkg = sub.pkg /\ released.bought = sub.bought /\ released.next = NoPackage
  BY ReleasedSale DEF SameSale, Released, Subscription
<1>2. SubBacked(released, held)
  BY <1>1 DEF SubBacked, Charges, Scheduled
<1>3. SubBacked(ended, held) /\ SubBacked(resumed, held)
  BY <1>1, <1>2 DEF SubBacked, Charges, Scheduled, Subscription
<1>4. /\ CancelSubscription(sub) = <<released, ended>>
      /\ ClearScheduledChange(sub) = <<released, resumed>>
  BY DEF CancelSubscription, ClearScheduledChange
<1> HIDE DEF released, ended, resumed
<1>5. /\ \A k \in DOMAIN <<released, ended>> : <<released, ended>>[k] \in {released, ended}
      /\ \A k \in DOMAIN <<released, resumed>> :
           <<released, resumed>>[k] \in {released, resumed}
  BY TwoCalls
<1>6. \A k \in DOMAIN <<released, ended>> : SubBacked(<<released, ended>>[k], held)
  BY <1>2, <1>3, <1>5
<1>7. \A k \in DOMAIN <<released, resumed>> : SubBacked(<<released, resumed>>[k], held)
  BY <1>2, <1>3, <1>5
<1>8. QED
  BY <1>4, <1>6, <1>7

(* The calls that schedule a backed package bill only what is backed.         *)
LEMMA ScheduleBacked ==
  ASSUME NEW sub \in Subscription, NEW held, SubBacked(sub, held),
         sub.status \in {"active", "past_due"},
         NEW p \in Packages, NEW c \in Cycles, Backed(p, held)
  PROVE  \A k \in DOMAIN ScheduleNextPeriod(sub, p, c) :
           SubBacked(ScheduleNextPeriod(sub, p, c)[k], held)
<1> DEFINE renewed == [sub EXCEPT !.renews = TRUE]
           attached == IF Scheduled(sub) THEN sub
                       ELSE [sub EXCEPT !.renews = TRUE, !.next = sub.pkg,
                                        !.nextCycle = sub.cycle]
           priced == [attached EXCEPT !.next = p, !.nextCycle = c]
<1>1. /\ attached \in Subscription /\ attached.status = sub.status /\ attached.pkg = sub.pkg
      /\ attached.next \in {sub.next, sub.pkg} /\ (Scheduled(sub) => attached.next = sub.next)
      /\ ~Scheduled(sub) => attached.next = sub.pkg
  BY CyclesAreNumbers DEF Scheduled, Subscription
<1>2. SubBacked(renewed, held)
  BY DEF SubBacked, Charges, Scheduled, Subscription
<1>3. SubBacked(attached, held)
  <2> HIDE DEF attached
  <2>1. QED
    BY <1>1 DEF SubBacked, Charges
<1>4. SubBacked(priced, held)
  <2> HIDE DEF attached
  <2>1. priced.status = sub.status /\ priced.pkg = sub.pkg /\ priced.next = p
    BY <1>1 DEF Subscription
  <2> HIDE DEF priced
  <2>2. QED
    BY <2>1 DEF SubBacked, Charges
<1>5. ScheduleNextPeriod(sub, p, c) = <<renewed, attached, priced>>
  BY DEF ScheduleNextPeriod
<1> HIDE DEF renewed, attached, priced
<1>6. \A k \in DOMAIN <<renewed, attached, priced>> :
        <<renewed, attached, priced>>[k] \in {renewed, attached, priced}
  BY ThreeCalls
<1>7. \A k \in DOMAIN <<renewed, attached, priced>> :
        SubBacked(<<renewed, attached, priced>>[k], held)
  BY <1>2, <1>3, <1>4, <1>6
<1>8. QED
  BY <1>5, <1>7

(* A request changes the listing's subscription only, and only its price.     *)
LEMMA AmendsMoves ==
  ASSUME IInv, NEW STATE accepted, NEW STATE states, NEW STATE written,
         listing.sub \in Subs /\ accepted =>
           /\ Len(states) \in DOMAIN states
           /\ \A k \in DOMAIN states : SameSale(Current, states[k]) /\ SubBacked(states[k], stripe),
         written.active = listing.active, written.pkg = listing.pkg,
         Amends(accepted, states, written)
  PROVE  UNCHANGED stripe \/ \E s \in Subs : OneMoves(s)
<1>1. stripe \in [Subs -> Subscription] /\ listing.sub \in Subs \cup {NoSub}
  BY DEF IInv, TypeOK, Listing
<1>2. ASSUME listing.sub # NoSub, accepted, NEW k \in DOMAIN states,
             stripe' = [stripe EXCEPT ![listing.sub] = states[k]],
             listing' \in {written, listing}
      PROVE  \E s \in Subs : OneMoves(s)
  <2>1. /\ listing.sub \in Subs /\ SameSale(stripe[listing.sub], states[k])
        /\ SubBacked(states[k], stripe)
    BY <1>1, <1>2 DEF Current
  <2>2. stripe'[listing.sub] = states[k] /\ \A t \in Subs : t # listing.sub => stripe'[t] = stripe[t]
    BY <1>1, <1>2, <2>1
  <2>3. PriceChanges(listing.sub)
    BY <1>2, <2>1, <2>2 DEF PriceChanges, SameSale
  <2>4. QED
    BY <2>1, <2>2, <2>3 DEF OneMoves
<1>3. listing.sub # NoSub /\ accepted => Len(states) \in DOMAIN states
  BY <1>1
<1>4. QED
  BY <1>2, <1>3 DEF Amends

(* What the seller asks for bills nothing that was not paid for.              *)
LEMMA SellerMoves ==
  ASSUME BillInv,
         \/ \E p \in Packages, c \in Cycles : Downgrade(p, c)
         \/ CancelScheduledPackageChange \/ CancelPackage \/ ReactivatePackage
  PROVE  UNCHANGED stripe \/ \E s \in Subs : OneMoves(s)
<1>1. /\ IInv /\ listing \in Listing /\ ListingBacked(listing, stripe)
      /\ \A s \in Subs : stripe[s] \in Subscription /\ SubBacked(stripe[s], stripe)
  BY DEF BillInv, IInv, TypeOK
<1>2. listing.sub \in Subs => Current \in Subscription /\ SubBacked(Current, stripe)
  BY <1>1 DEF Current
<1>3. ASSUME NEW p \in Packages, NEW c \in Cycles, Downgrade(p, c)
      PROVE  UNCHANGED stripe \/ \E s \in Subs : OneMoves(s)
  <2> DEFINE states == IF p = Minimum THEN CancelSubscription(Current)
                       ELSE ScheduleNextPeriod(Current, p, c)
             written == [listing EXCEPT !.pending = p,
                                        !.pendingCycle = IF p = Minimum THEN NoCycle ELSE c,
                                        !.changeAt = EffectiveAt]
  <2>1. Amends(Changeable, states, written) /\ IsDowngrade(p, c)
    BY <1>3 DEF Downgrade
  <2>2. Backed(p, stripe)
    <3>1. listing.active /\ p <= listing.pkg /\ listing.pkg \in Packages
      BY <1>1, <2>1 DEF IsDowngrade, Cheaper, Listing, Packages
    <3>2. Backed(listing.pkg, stripe)
      BY <1>1, <3>1 DEF ListingBacked
    <3>3. \A s \in Subs : stripe[s].bought \in Packages
      BY <1>1 DEF Subscription
    <3>4. QED
      BY <3>1, <3>2, <3>3 DEF Backed, Packages, Minimum
  <2>3. ASSUME listing.sub \in Subs, Changeable
        PROVE  /\ Len(states) \in DOMAIN states
               /\ \A k \in DOMAIN states : SameSale(Current, states[k]) /\ SubBacked(states[k], stripe)
    <3>1. Current.status \in {"active", "past_due"}
      BY <2>3 DEF Changeable, Held, Current
    <3>2. \A k \in DOMAIN states : SameSale(Current, states[k])
      BY <1>2, <2>3, CancelSale, ScheduleSale
    <3>3. \A k \in DOMAIN states : SubBacked(states[k], stripe)
      BY <1>2, <2>2, <2>3, <3>1, ReleasedBacked, ScheduleBacked
    <3>4. Len(states) \in DOMAIN states
      BY DEF CancelSubscription, ScheduleNextPeriod
    <3>5. QED
      BY <3>2, <3>3, <3>4
  <2>4. written.active = listing.active /\ written.pkg = listing.pkg
    BY <1>1 DEF Listing
  <2> HIDE DEF states, written
  <2>5. QED
    BY <1>1, <2>1, <2>3, <2>4, AmendsMoves
<1>4. CASE CancelScheduledPackageChange
  <2> DEFINE accepted == listing.sub # NoSub /\ (Held(listing.sub) \/ Current.renews)
             states == ClearScheduledChange(Current)
             written == NothingQueued(listing)
  <2>1. Amends(accepted, states, written)
    BY <1>4 DEF CancelScheduledPackageChange
  <2>2. ASSUME listing.sub \in Subs
        PROVE  /\ Len(states) \in DOMAIN states
               /\ \A k \in DOMAIN states : SameSale(Current, states[k]) /\ SubBacked(states[k], stripe)
    <3>1. \A k \in DOMAIN states : SameSale(Current, states[k]) /\ SubBacked(states[k], stripe)
      BY <1>2, <2>2, ClearSale, ReleasedBacked
    <3>2. Len(states) \in DOMAIN states
      BY DEF ClearScheduledChange
    <3>3. QED
      BY <3>1, <3>2
  <2>3. written.active = listing.active /\ written.pkg = listing.pkg
    BY <1>1 DEF NothingQueued, Listing
  <2> HIDE DEF accepted, states, written
  <2>4. QED
    BY <1>1, <2>1, <2>2, <2>3, AmendsMoves
<1>5. CASE CancelPackage
  <2> DEFINE states == CancelSubscription(Current)
             written == Ending(listing, IF listing.sub # NoSub THEN Current.end ELSE EffectiveAt)
  <2>1. Amends(Changeable, states, written)
    BY <1>5 DEF CancelPackage
  <2>2. ASSUME listing.sub \in Subs
        PROVE  /\ Len(states) \in DOMAIN states
               /\ \A k \in DOMAIN states : SameSale(Current, states[k]) /\ SubBacked(states[k], stripe)
    <3>1. \A k \in DOMAIN states : SameSale(Current, states[k]) /\ SubBacked(states[k], stripe)
      BY <1>2, <2>2, CancelSale, ReleasedBacked
    <3>2. Len(states) \in DOMAIN states
      BY DEF CancelSubscription
    <3>3. QED
      BY <3>1, <3>2
  <2>3. written.active = listing.active /\ written.pkg = listing.pkg
    BY <1>1 DEF Ending, NothingQueued, Listing
  <2> HIDE DEF states, written
  <2>4. QED
    BY <1>1, <2>1, <2>2, <2>3, AmendsMoves
<1>6. CASE ReactivatePackage
  <2> DEFINE accepted == Changeable /\ ~Scheduled(Current)
             sub == [Current EXCEPT !.renews = TRUE]
             states == <<sub>>
             written == [listing EXCEPT !.endsAt = NoDate]
  <2>1. Amends(accepted, states, written)
    BY <1>6 DEF ReactivatePackage
  <2>2. ASSUME listing.sub \in Subs
        PROVE  /\ Len(states) \in DOMAIN states
               /\ \A k \in DOMAIN states : SameSale(Current, states[k]) /\ SubBacked(states[k], stripe)
    <3>1. SameSale(Current, sub)
      BY <1>2, <2>2, RenewingSale
    <3>2. SubBacked(sub, stripe)
      BY <1>2, <2>2 DEF SubBacked, Charges, Scheduled, Subscription
    <3> HIDE DEF sub
    <3>3. QED
      BY <3>1, <3>2
  <2>3. written.active = listing.active /\ written.pkg = listing.pkg
    BY <1>1 DEF Listing
  <2> HIDE DEF accepted, states, written
  <2>4. QED
    BY <1>1, <2>1, <2>2, <2>3, AmendsMoves
<1>7. QED
  BY <1>3, <1>4, <1>5, <1>6

(* Every step leaves Stripe as it was or moves one subscription.              *)
LEMMA StripeMoves ==
  ASSUME BillInv, [Next]_vars
  PROVE  UNCHANGED stripe \/ \E s \in Subs : OneMoves(s)
<1>1. /\ IInv /\ stripe \in [Subs -> Subscription] /\ listing \in Listing
      /\ \A s \in Subs : stripe[s] \in Subscription /\ SubBacked(stripe[s], stripe)
  BY DEF BillInv, IInv, TypeOK
<1>2. ASSUME NEW s \in Subs, NEW sub, stripe' = [stripe EXCEPT ![s] = sub]
      PROVE  stripe'[s] = sub /\ \A t \in Subs : t # s => stripe'[t] = stripe[t]
  BY <1>1, <1>2
<1>3. ASSUME NEW s \in Subs, Holds(stripe, s), stripe' = [stripe EXCEPT ![s] = Stopped(stripe[s])]
      PROVE  OneMoves(s)
  <2>1. Stopped(stripe[s]).status = "canceled" /\ Stopped(stripe[s]).bought = stripe[s].bought
    BY <1>1, StoppedSale
  <2>2. QED
    BY <1>2, <1>3, <2>1 DEF OneMoves, SaleEnds
<1>4. ASSUME NEW s \in Subs, Pay(s) PROVE OneMoves(s)
  <2> DEFINE sub == [stripe[s] EXCEPT !.status = "active", !.renews = TRUE, !.start = now,
                                      !.end = now + stripe[s].cycle]
  <2>1. stripe[s].status = "offered" /\ stripe' = [stripe EXCEPT ![s] = sub] /\ UNCHANGED listing
    BY <1>4 DEF Pay, Happens
  <2>2. /\ sub.status = "active" /\ sub.bought = stripe[s].bought
        /\ sub.pkg = stripe[s].pkg /\ sub.next = stripe[s].next
    BY <1>1 DEF Subscription
  <2> HIDE DEF sub
  <2>3. QED
    BY <1>2, <2>1, <2>2 DEF OneMoves, PaymentBegins
<1>5. ASSUME NEW s \in Subs, NEW sub, Holds(stripe, s), sub.status \in {"active", "past_due"},
             sub.bought = stripe[s].bought, Charges(sub, stripe),
             stripe' = [stripe EXCEPT ![s] = sub], UNCHANGED listing
      PROVE  OneMoves(s)
  <2>1. SubBacked(sub, stripe)
    BY <1>5 DEF SubBacked
  <2>2. stripe'[s] = sub /\ \A t \in Subs : t # s => stripe'[t] = stripe[t]
    BY <1>2, <1>5
  <2>3. QED
    BY <1>5, <2>1, <2>2 DEF OneMoves, PriceChanges, Holds
<1>6. ASSUME NEW s \in Subs, Renew(s) \/ Decline(s) \/ Recover(s) PROVE OneMoves(s)
  <2>1. Holds(stripe, s) /\ Charges(stripe[s], stripe) /\ UNCHANGED listing
    BY <1>1, <1>6 DEF Renew, Decline, Recover, Holds, SubBacked, Happens
  <2>2. /\ NextPeriod(stripe[s]) \in Subscription /\ Charges(NextPeriod(stripe[s]), stripe)
        /\ SameSale(stripe[s], NextPeriod(stripe[s]))
    BY <1>1, <2>1, NextCharges, NextPeriodSale
  <2>3. CASE Renew(s)
    <3>1. stripe' = [stripe EXCEPT ![s] = NextPeriod(stripe[s])]
      BY <2>3 DEF Renew, Happens
    <3>2. /\ NextPeriod(stripe[s]).status \in {"active", "past_due"}
          /\ NextPeriod(stripe[s]).bought = stripe[s].bought
      BY <2>1, <2>2 DEF SameSale, Holds
    <3>3. QED
      BY <1>5, <2>1, <2>2, <3>1, <3>2
  <2>4. CASE Decline(s)
    <3> DEFINE sub == [NextPeriod(stripe[s]) EXCEPT !.status = "past_due"]
    <3>1. sub.status = "past_due" /\ sub.bought = stripe[s].bought /\ Charges(sub, stripe)
      BY <2>2 DEF SameSale, Subscription, Charges, Scheduled
    <3>2. stripe' = [stripe EXCEPT ![s] = sub]
      BY <2>4 DEF Decline, Happens
    <3> HIDE DEF sub
    <3>3. QED
      BY <1>5, <2>1, <3>1, <3>2
  <2>5. CASE Recover(s)
    <3> DEFINE sub == [stripe[s] EXCEPT !.status = "active"]
    <3>1. sub.status = "active" /\ sub.bought = stripe[s].bought /\ Charges(sub, stripe)
      BY <1>1, <2>1 DEF Subscription, Charges, Scheduled
    <3>2. stripe' = [stripe EXCEPT ![s] = sub]
      BY <2>5 DEF Recover, Happens
    <3> HIDE DEF sub
    <3>3. QED
      BY <1>5, <2>1, <3>1, <3>2
  <2>6. QED
    BY <1>6, <2>3, <2>4, <2>5
<1>7. ASSUME NEW s \in Subs, GiveUp(s) \/ Lapse(s) PROVE OneMoves(s)
  BY <1>3, <1>7 DEF GiveUp, Lapse, Due, Held, Holds, Happens
<1>8. ASSUME NEW s \in Subs, NEW p \in Packages, NEW c \in Cycles, CreatePackageCheckout(s, p, c)
      PROVE  OneMoves(s)
  <2> DEFINE sub == [Unused EXCEPT !.status = "offered", !.bought = p, !.term = c,
                                   !.pkg = p, !.cycle = c]
  <2>1. /\ stripe[s].status = "unused" /\ stripe' = [stripe EXCEPT ![s] = sub]
        /\ UNCHANGED listing
    BY <1>8 DEF CreatePackageCheckout, Offered
  <2>2. sub.status = "offered" /\ sub.pkg = sub.bought /\ sub.next = NoPackage
    BY DEF Unused
  <2> HIDE DEF sub
  <2>3. QED
    BY <1>2, <2>1, <2>2 DEF OneMoves, CheckoutOpens, Scheduled
<1>9. ASSUME NEW s \in Subs, NEW rest, ApplyFromSession(s, rest)
      PROVE  UNCHANGED stripe \/ \E t \in Subs : OneMoves(t)
  <2>1. ASSUME Replaces(listing.sub, s),
               stripe' = [stripe EXCEPT ![listing.sub] = Stopped(stripe[listing.sub])]
        PROVE  \E t \in Subs : OneMoves(t)
    <3>1. listing.sub \in Subs /\ Holds(stripe, listing.sub)
      BY <1>1, <2>1 DEF Replaces, Listing, Held, Holds
    <3>2. QED
      BY <1>3, <2>1, <3>1
  <2>2. QED
    BY <1>9, <2>1 DEF ApplyFromSession
<1>10. CASE MarkSold
  <2>1. ASSUME Stops(listing.sub),
               stripe' = [stripe EXCEPT ![listing.sub] = Stopped(stripe[listing.sub])]
        PROVE  \E t \in Subs : OneMoves(t)
    <3>1. listing.sub \in Subs /\ Holds(stripe, listing.sub)
      BY <1>1, <2>1 DEF Stops, Listing, Held, Holds
    <3>2. QED
      BY <1>3, <2>1, <3>1
  <2>2. QED
    BY <1>10, <2>1 DEF MarkSold
<1>11. CASE Webhook
  <2>1. \A i \in DOMAIN events : events[i] \in Event
    BY <1>1, ElementOfSeq DEF IInv, TypeOK
  <2>2. \A i \in DOMAIN events : events[i].sub \in Subs
    BY <2>1 DEF Event
  <2>3. QED
    BY <1>9, <1>11, <2>2 DEF Webhook, Deliver, Lose
<1>12. CASE Seller
  BY <1>8, <1>9, <1>12, SellerMoves
     DEF Seller, ChooseMinimum, Update, GetPackageState, SyncCheckoutSession
<1>13. CASE Stripe
  BY <1>4, <1>6, <1>7, <1>13 DEF Stripe, Tick
<1>14. CASE UNCHANGED vars
  BY <1>14 DEF vars
<1>15. QED
  BY <1>10, <1>11, <1>12, <1>13, <1>14 DEF Next

(* The strengthened invariant is inductive.                                   *)
LEMMA BillKept ==
  ASSUME BillInv, [Next]_vars
  PROVE  BillInv' /\ Keeps(stripe, stripe')
<1>1. /\ IInv /\ IInv' /\ stripe \in [Subs -> Subscription] /\ stripe' \in [Subs -> Subscription]
      /\ \A s \in Subs : SubBacked(stripe[s], stripe)
  BY NextBacked DEF BillInv, IInv, TypeOK
<1>2. Keeps(stripe, stripe')
  <2>1. ASSUME NEW s \in Subs, OneMoves(s) PROVE Keeps(stripe, stripe')
    BY <1>1, <2>1 DEF OneMoves, CheckoutOpens, PaymentBegins, SaleEnds, PriceChanges,
                      Holds, Keeps, PaidIn
  <2>2. QED
    BY <2>1, StripeMoves, KeepsItself
<1>3. ASSUME NEW p, Backed(p, stripe) PROVE Backed(p, stripe')
  BY <1>2, <1>3 DEF Backed, Keeps
<1>4. ASSUME NEW sub, SubBacked(sub, stripe) PROVE SubBacked(sub, stripe')
  BY <1>3, <1>4 DEF SubBacked, Charges
<1>5. ASSUME NEW s \in Subs PROVE SubBacked(stripe'[s], stripe')
  <2>1. CASE stripe'[s] = stripe[s]
    BY <1>1, <1>4, <2>1
  <2>2. CASE CheckoutOpens(s)
    BY <2>2 DEF CheckoutOpens, SubBacked
  <2>3. CASE PaymentBegins(s)
    <3>1. /\ stripe'[s].status = "active" /\ stripe'[s].pkg = stripe'[s].bought
          /\ ~Scheduled(stripe'[s])
      BY <1>1, <2>3 DEF PaymentBegins, SubBacked, Scheduled
    <3>2. PaidIn(stripe', s) /\ stripe'[s].pkg <= stripe'[s].bought
      BY <1>1, <3>1 DEF PaidIn, Subscription, Packages
    <3>3. QED
      BY <3>1, <3>2 DEF SubBacked, Charges, Backed
  <2>4. CASE SaleEnds(s)
    BY <2>4 DEF SaleEnds, SubBacked
  <2>5. CASE PriceChanges(s)
    BY <1>4, <2>5 DEF PriceChanges
  <2>6. QED
    BY <2>1, <2>2, <2>3, <2>4, <2>5, StripeMoves DEF OneMoves
<1>6. QED
  BY <1>1, <1>2, <1>5 DEF BillInv

(* What is paid for is owned: an order's life at Stripe.                      *)
LEMMA LifeAt ==
  ASSUME stripe \in [Subs -> Subscription], NEW s \in Subs
  PROVE  /\ Life[s] = "none" <=> stripe[s].status = "unused"
         /\ Life[s] = "open" <=> stripe[s].status = "offered"
         /\ Life[s] = "paid" <=> Holds(stripe, s)
         /\ Life[s] \in {"paid", "over"} <=> PaidIn(stripe, s)
         /\ Ordered[s] = 1..stripe[s].bought
<1>1. stripe[s].status \in {"unused", "offered", "active", "past_due", "canceled"}
  BY DEF Subscription
<1>2. QED
  BY <1>1 DEF Life, Holds, PaidIn, Ordered

(* A package that is backed is part of what was paid for.                     *)
LEMMA BackedOwned ==
  ASSUME "edit" \notin Requests, stripe \in [Subs -> Subscription],
         NEW p \in Packages, Backed(p, stripe)
  PROVE  1..p \subseteq Sale!Owned
<1>1. CASE p = Minimum
  BY <1>1 DEF Minimum
<1>2. ASSUME NEW s \in Subs, PaidIn(stripe, s), p <= stripe[s].bought
      PROVE  1..p \subseteq Sale!Owned
  <2>1. stripe[s].bought \in Nat /\ p \in Nat
    BY DEF Subscription, Packages
  <2>2. 1..p \subseteq Ordered[s]
    BY <1>2, <2>1, LifeAt
  <2>3. s \in {q \in Subs : Life[q] \in {"paid", "over"}}
    BY <1>2, LifeAt
  <2>4. QED
    BY <2>2, <2>3 DEF Sale!Owned
<1>3. QED
  BY <1>1, <1>2 DEF Backed

(* What a held subscription is billed for, now and by its schedule.           *)
Charged(sub) == 1..sub.pkg \cup (IF Scheduled(sub) THEN 1..sub.next ELSE {})

(* What is billed, order by order.                                            *)
LEMMA BilledIs ==
  /\ \A x : x \in Billed <=> \E t \in Subs : Holds(stripe, t) /\ x \in Charged(stripe[t])
  /\ \A x : x \in Billed' <=> \E t \in Subs : Holds(stripe', t) /\ x \in Charged(stripe'[t])
  BY DEF Billed, Charged, Held, Holds

(* What is switched on, and what is billed, is owned.                         *)
AllPaid == Granted \subseteq Sale!Owned /\ Billed \subseteq Sale!Owned

LEMMA AllOwned ==
  ASSUME "edit" \notin Requests
  PROVE  BillInv => AllPaid
<1> SUFFICES ASSUME BillInv PROVE AllPaid
  OBVIOUS
<1>1. /\ stripe \in [Subs -> Subscription] /\ listing.pkg \in Packages
      /\ listing.active => Backed(listing.pkg, stripe)
  BY DEF BillInv, IInv, TypeOK, Listing, ListingBacked
<1>2. Granted \subseteq Sale!Owned
  BY <1>1, BackedOwned DEF Granted
<1>3. ASSUME NEW s \in Subs, Holds(stripe, s) PROVE Charged(stripe[s]) \subseteq Sale!Owned
  <2>1. stripe[s] \in Subscription /\ Charges(stripe[s], stripe)
    BY <1>1, <1>3 DEF BillInv, SubBacked, Holds
  <2>2. stripe[s].pkg \in Packages /\ Backed(stripe[s].pkg, stripe)
    BY <2>1 DEF Charges, Subscription
  <2>3. Scheduled(stripe[s]) => stripe[s].next \in Packages /\ Backed(stripe[s].next, stripe)
    BY <2>1 DEF Charges, Scheduled, Subscription
  <2>4. QED
    BY <1>1, <2>2, <2>3, BackedOwned DEF Charged
<1>4. Billed \subseteq Sale!Owned
  BY <1>3, BilledIs
<1>5. QED
  BY <1>2, <1>4 DEF AllPaid

(* And so it is after a step that keeps the invariant.                        *)
LEMMA AllOwnedNext ==
  ASSUME "edit" \notin Requests
  PROVE  BillInv' => AllPaid'
<1>1. BillInv => AllPaid
  BY AllOwned
<1>2. QED
  BY <1>1, PTL

(* One order moves on, and no other does.                                     *)
LEMMA OneLife ==
  ASSUME stripe \in [Subs -> Subscription], stripe' \in [Subs -> Subscription],
         NEW s \in Subs, \A t \in Subs : t # s => stripe'[t] = stripe[t]
  PROVE  /\ Ordered' = [Ordered EXCEPT ![s] = 1..stripe'[s].bought]
         /\ stripe'[s].bought = stripe[s].bought => Ordered' = Ordered
         /\ stripe'[s].status = "offered" => Life' = [Life EXCEPT ![s] = "open"]
         /\ stripe'[s].status = "active" => Life' = [Life EXCEPT ![s] = "paid"]
         /\ stripe'[s].status = "canceled" => Life' = [Life EXCEPT ![s] = "over"]
         /\ stripe'[s].status = stripe[s].status => Life' = Life
         /\ Holds(stripe, s) /\ Holds(stripe', s) => Life' = Life
<1>1. /\ Ordered' = [Ordered EXCEPT ![s] = 1..stripe'[s].bought]
      /\ stripe'[s].bought = stripe[s].bought => Ordered' = Ordered
  BY DEF Ordered
<1>2. ASSUME NEW life,
             life = CASE stripe'[s].status = "unused" -> "none"
                      [] stripe'[s].status = "offered" -> "open"
                      [] stripe'[s].status = "canceled" -> "over"
                      [] OTHER -> "paid"
      PROVE  Life' = [Life EXCEPT ![s] = life]
  BY <1>2 DEF Life
<1>3. /\ stripe'[s].status = "offered" => Life' = [Life EXCEPT ![s] = "open"]
      /\ stripe'[s].status = "active" => Life' = [Life EXCEPT ![s] = "paid"]
      /\ stripe'[s].status = "canceled" => Life' = [Life EXCEPT ![s] = "over"]
  BY <1>2
<1>4. /\ stripe'[s].status = stripe[s].status => Life' = Life
      /\ Holds(stripe, s) /\ Holds(stripe', s) => Life' = Life
  BY DEF Life, Holds
<1>5. QED
  BY <1>1, <1>3, <1>4

(* A change of one subscription is a step of the abstract sale.               *)
LEMMA MoveSold ==
  ASSUME "edit" \notin Requests, BillInv, BillInv', NEW s \in Subs, OneMoves(s)
  PROVE  Sale!Next
<1>1. /\ stripe \in [Subs -> Subscription] /\ stripe' \in [Subs -> Subscription]
      /\ \A t \in Subs : t # s => stripe'[t] = stripe[t]
      /\ \A t \in Subs : t # s => (Holds(stripe', t) <=> Holds(stripe, t))
  BY DEF BillInv, IInv, TypeOK, OneMoves, Holds
<1>2. Granted' \subseteq Sale!Owned' /\ Billed' \subseteq Sale!Owned'
  BY AllOwnedNext DEF AllPaid
<1>3. CASE CheckoutOpens(s)
  <2>1. /\ Life[s] = "none" /\ ~Holds(stripe, s) /\ ~Holds(stripe', s)
        /\ Life' = [Life EXCEPT ![s] = "open"]
        /\ Ordered' = [Ordered EXCEPT ![s] = 1..stripe'[s].bought] /\ Granted' = Granted
    BY <1>1, <1>3, LifeAt, OneLife DEF CheckoutOpens, Holds, Granted
  <2>2. 1..stripe'[s].bought \in SUBSET (Packages \ {Minimum})
    BY <1>1 DEF Subscription, Packages, Minimum
  <2>3. Billed' = Billed
    BY <1>1, <2>1, BilledIs
  <2>4. Sale!Open(s)
    BY <2>1, <2>2, <2>3 DEF Sale!Open
  <2>5. QED
    BY <2>4 DEF Sale!Next
<1>4. CASE PaymentBegins(s)
  <2>1. /\ Life[s] = "open" /\ ~Holds(stripe, s) /\ Holds(stripe', s)
        /\ Life' = [Life EXCEPT ![s] = "paid"] /\ Ordered' = Ordered /\ Granted' = Granted
        /\ Ordered[s] = 1..stripe[s].bought
    BY <1>1, <1>4, LifeAt, OneLife DEF PaymentBegins, Holds, Granted
  <2>2. Charged(stripe'[s]) = Ordered[s]
    BY <1>4, <2>1 DEF PaymentBegins, BillInv, SubBacked, Charged, Scheduled
  <2>3. Billed' = Billed \cup Ordered[s]
    BY <1>1, <2>1, <2>2, BilledIs
  <2>4. Sale!Pay(s)
    BY <2>1, <2>3 DEF Sale!Pay
  <2>5. QED
    BY <2>4 DEF Sale!Next
<1>5. CASE SaleEnds(s)
  <2>1. /\ Life[s] = "paid" /\ ~Holds(stripe', s)
        /\ Life' = [Life EXCEPT ![s] = "over"] /\ Ordered' = Ordered
    BY <1>1, <1>5, LifeAt, OneLife DEF SaleEnds, Holds
  <2>2. Billed' \subseteq Billed
    BY <1>1, <2>1, BilledIs
  <2>3. \A t \in Subs : Life'[t] \in {"paid", "over"} <=> Life[t] \in {"paid", "over"}
    BY <2>1 DEF Life
  <2>4. Sale!Owned' = Sale!Owned
    BY <2>1, <2>3 DEF Sale!Owned
  <2>5. Sale!End(s)
    BY <1>2, <2>1, <2>2, <2>4 DEF Sale!End
  <2>6. QED
    BY <2>5 DEF Sale!Next
<1>6. CASE PriceChanges(s)
  <2>1. Life' = Life /\ Ordered' = Ordered /\ Granted' = Granted
    BY <1>1, <1>6, OneLife DEF PriceChanges, Granted
  <2>2. Sale!Owned' = Sale!Owned
    BY <2>1 DEF Sale!Owned
  <2>3. Sale!Reprice
    BY <1>2, <2>1, <2>2 DEF Sale!Reprice
  <2>4. QED
    BY <2>3 DEF Sale!Next
<1>7. QED
  BY <1>3, <1>4, <1>5, <1>6 DEF OneMoves

(* The initial states map to initial states of Purchase.                      *)
LEMMA InitSold == Init => BillInv /\ Sale!Init
<1> SUFFICES ASSUME Init PROVE BillInv /\ Sale!Init
  OBVIOUS
<1>1. \A s \in Subs : stripe[s] = Unused
  BY DEF Init
<1>2. BillInv
  BY <1>1, InitBacked DEF BillInv, SubBacked, Unused
<1>3. Granted = {} /\ Billed = {}
  BY <1>1, BilledIs DEF Init, Granted, NewListing, Unused, Holds
<1>4. Life = [s \in Subs |-> "none"] /\ Ordered = [s \in Subs |-> {}]
  BY <1>1 DEF Life, Ordered, Unused, Minimum
<1>5. QED
  BY <1>2, <1>3, <1>4 DEF Sale!Init

(* Every step maps to a step of Purchase.                                     *)
LEMMA NextSold ==
  ASSUME "edit" \notin Requests
  PROVE  BillInv /\ BillInv' /\ [Next]_vars => Sale!Next
<1> SUFFICES ASSUME BillInv, BillInv', [Next]_vars PROVE Sale!Next
  OBVIOUS
<1>1. CASE UNCHANGED stripe
  <2>1. Life' = Life /\ Ordered' = Ordered /\ Billed' = Billed
    BY <1>1 DEF Life, Ordered, Billed, Held
  <2>2. Granted' \subseteq Sale!Owned'
    BY AllOwnedNext DEF AllPaid
  <2>3. Sale!Owned' = Sale!Owned
    BY <2>1 DEF Sale!Owned
  <2>4. Sale!HandOut
    BY <2>1, <2>2, <2>3 DEF Sale!HandOut
  <2>5. QED
    BY <2>4 DEF Sale!Next
<1>2. QED
  BY <1>1, StripeMoves, MoveSold

(* Where the form edits no package that is switched on, packages are sold as  *)
(* Purchase promises, under every fault and for every other request: what is  *)
(* switched on, and what Stripe bills now or has scheduled, was paid for, and *)
(* an order neither changes nor comes back.                                   *)
THEOREM Implements ==
  ASSUME "edit" \notin Requests
  PROVE  Spec => SoldAsOrdered
<1>1. BillInv /\ BillInv' /\ [Next]_vars => [Sale!Next]_(Sale!vars)
  BY NextSold
<1>2. BillInv /\ [Next]_vars => BillInv'
  BY BillKept
<1>3. QED
  BY <1>1, <1>2, InitSold, PTL DEF Spec, SoldAsOrdered, Sale!Spec
================================================================================
