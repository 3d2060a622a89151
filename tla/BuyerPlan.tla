------------------------------- MODULE BuyerPlan -------------------------------
(* One member's buyer plan: the subscriptions Stripe bills them for, the one    *)
(* UserSubscription row the backend keeps, and the handlers that keep the two   *)
(* in step (subscription.service.ts, stripe.service.ts, webhook.controller.ts). *)
(*                                                                              *)
(* A handler is a sequence of awaits: it reads the row, calls Stripe and writes *)
(* the row, and anything may happen between two awaits.  Each handler in flight *)
(* is a task of a worker; a step of the task is what runs between two awaits.   *)
(* What the environment may do to them is named by Faults, what the member asks *)
(* for by Requests, so that a run says exactly which world a property holds in. *)
EXTENDS Naturals, SequencesExt

CONSTANTS
  Subs,         \* Stripe subscription ids; checkout session s pays for sub s
  NoSub,        \* "no subscription"
  Workers,      \* handlers that can be in flight at once
  Cycles,       \* billing cycles, as a number of periods
  Faults,       \* subset of FaultKinds
  Requests,     \* subset of RequestKinds
  Horizon,      \* bound: the clock stops here
  MaxRequests,  \* bound: requests the member makes
  Backlog       \* bound: Stripe does nothing by itself with as many events waiting

FaultKinds == {"overlap", "reorder", "duplicate", "lose", "decline", "outage", "crash"}
RequestKinds == {"schedule", "unschedule", "cancel", "cancelNow", "resume",
                 "cycle", "look", "confirm"}

ASSUME BuyerPlanAssumption ==
  /\ NoSub \notin Subs
  /\ Cycles \subseteq Nat \ {0}
  /\ Faults \subseteq FaultKinds
  /\ Requests \subseteq RequestKinds
  /\ Horizon \in Nat \ {0}
  /\ MaxRequests \in Nat
  /\ Backlog \in Nat

VARIABLES
  now,      \* the date
  stripe,   \* what Stripe holds of each subscription, its checkout included
  events,   \* webhook events not yet accepted by the backend, oldest first
  row,      \* the member's UserSubscription row
  tasks,    \* the handler each worker is running
  spent     \* requests made so far

vars == <<now, stripe, events, row, tasks, spent>>

(* Plans by price; 0 is the free plan.  Dates start at 1, so that 0 is null.    *)
Free == 0
Plans == 0..2
NoPlan == 3
NoDate == 0
NoCycle == 0

Held(status) == status \in {"active", "past_due"}

RowExists == row.sub # NoSub

Row == [sub: Subs \cup {NoSub}, plan: Plans, cycle: Cycles \cup {NoCycle},
        status: {"none", "active", "past_due", "cancelled"},
        end: Nat, endDate: Nat, cancelled: BOOLEAN,
        pending: Plans \cup {NoPlan}, pendingCycle: Cycles \cup {NoCycle},
        changeAt: Nat]

NoRow == [sub |-> NoSub, plan |-> Free, cycle |-> NoCycle, status |-> "none",
          end |-> NoDate, endDate |-> NoDate, cancelled |-> FALSE,
          pending |-> NoPlan, pendingCycle |-> NoCycle, changeAt |-> NoDate]

Subscription == [status: {"unused", "offered", "active", "past_due", "canceled"},
                 bought: Plans, term: Cycles \cup {NoCycle},
                 plan: Plans, cycle: Cycles \cup {NoCycle},
                 renews: BOOLEAN, end: Nat]

(* bought and term are the metadata of the checkout and never change; plan and  *)
(* cycle are the price Stripe bills next.                                       *)
Unused == [status |-> "unused", bought |-> Free, term |-> NoCycle, plan |-> Free,
           cycle |-> NoCycle, renews |-> FALSE, end |-> NoDate]

Paid(s) == stripe[s].status \notin {"unused", "offered"}

Event == [type: {"checkout", "updated", "deleted", "failed"}, sub: Subs,
          status: {"active", "past_due", "canceled"}, end: Nat]

TaskKinds == RequestKinds \cup {"idle", "failed"}

Task == [kind: TaskKinds, pc: {"idle", "stripe", "fetch", "load", "save", "replace"},
         sub: Subs \cup {NoSub}, plan: Plans, cycle: Cycles \cup {NoCycle},
         seen: Row, status: {"none", "active", "past_due", "canceled"}, end: Nat,
         hook: BOOLEAN]

Idle == [kind |-> "idle", pc |-> "idle", sub |-> NoSub, plan |-> Free,
         cycle |-> NoCycle, seen |-> NoRow, status |-> "none", end |-> NoDate,
         hook |-> FALSE]

TypeOK ==
  /\ now \in 1..Horizon
  /\ stripe \in [Subs -> Subscription]
  /\ events \in Seq(Event)
  /\ row \in Row
  /\ tasks \in [Workers -> Task]
  /\ spent \in 0..MaxRequests

Init ==
  /\ now = 1
  /\ stripe = [s \in Subs |-> Unused]
  /\ events = <<>>
  /\ row = NoRow
  /\ tasks = [w \in Workers |-> Idle]
  /\ spent = 0

--------------------------------------------------------------------------------
(* Stripe, as the backend uses it.                                              *)

EventOf(type, s, sub) ==
  [type |-> type, sub |-> s,
   status |-> IF sub.status = "past_due" THEN "past_due"
              ELSE IF sub.status = "canceled" THEN "canceled" ELSE "active",
   end |-> sub.end]

(* A subscription changes, and the webhook hears of it.                         *)
Becomes(s, sub) ==
  /\ stripe' = [stripe EXCEPT ![s] = sub]
  /\ events' = Append(events,
       EventOf(IF sub.status = "canceled" THEN "deleted" ELSE "updated", s, sub))

Unhurried == Len(events) < Backlog

(* The member pays in the Checkout page.                                        *)
Pay(s) ==
  /\ Unhurried
  /\ stripe[s].status = "offered"
  /\ LET sub == [stripe[s] EXCEPT !.status = "active", !.renews = TRUE,
                                  !.end = now + stripe[s].cycle]
     IN /\ stripe' = [stripe EXCEPT ![s] = sub]
        /\ events' = Append(events, EventOf("checkout", s, sub))
  /\ UNCHANGED <<now, row, tasks, spent>>

Due(s) == Held(stripe[s].status) /\ stripe[s].end <= now

Renew(s) ==
  /\ Unhurried
  /\ Due(s) /\ stripe[s].renews /\ stripe[s].status = "active"
  /\ Becomes(s, [stripe[s] EXCEPT !.end = @ + stripe[s].cycle])
  /\ UNCHANGED <<now, row, tasks, spent>>

(* The renewal's charge fails; Stripe goes on trying.                           *)
Decline(s) ==
  /\ "decline" \in Faults
  /\ Unhurried
  /\ Due(s) /\ stripe[s].renews /\ stripe[s].status = "active"
  /\ LET sub == [stripe[s] EXCEPT !.status = "past_due",
                                  !.end = @ + stripe[s].cycle]
     IN /\ stripe' = [stripe EXCEPT ![s] = sub]
        /\ events' = events \o <<EventOf("updated", s, sub), EventOf("failed", s, sub)>>
  /\ UNCHANGED <<now, row, tasks, spent>>

(* A retried charge goes through, or Stripe stops retrying.                     *)
Retry(s) ==
  /\ Unhurried
  /\ stripe[s].status = "past_due"
  /\ \E status \in {"active", "canceled"} :
        Becomes(s, [stripe[s] EXCEPT !.status = status])
  /\ UNCHANGED <<now, row, tasks, spent>>

(* A subscription set to cancel reaches the end of its period.                  *)
Lapse(s) ==
  /\ Unhurried
  /\ Due(s) /\ ~stripe[s].renews
  /\ Becomes(s, [stripe[s] EXCEPT !.status = "canceled"])
  /\ UNCHANGED <<now, row, tasks, spent>>

(* Stripe settles everything due before the date moves on by a period, and has  *)
(* long stopped repeating the events of the last one.                           *)
Tick ==
  /\ now < Horizon
  /\ events = <<>>
  /\ \A s \in Subs : ~Due(s)
  /\ now' = now + 1
  /\ UNCHANGED <<stripe, events, row, tasks, spent>>

--------------------------------------------------------------------------------
(* The member's requests, and the steps of the handlers.                        *)

CanStart(w) ==
  /\ tasks[w] = Idle
  /\ "overlap" \in Faults \/ \A v \in Workers : tasks[v] = Idle

Begin(w, task) == tasks' = [tasks EXCEPT ![w] = task]
Finish(w) == tasks' = [tasks EXCEPT ![w] = Idle]
Advance(w, pc) == tasks' = [tasks EXCEPT ![w].pc = pc]

Asks(w, kind) ==
  /\ kind \in Requests
  /\ spent < MaxRequests
  /\ spent' = spent + 1
  /\ CanStart(w)
  /\ UNCHANGED <<now, stripe, events, row>>

(* A dearer plan than every one Stripe bills for; the row decides only when     *)
(* Stripe cannot be asked.  A held plan is known by its subscription's metadata,*)
(* which is what was bought.                                                    *)
Sells(p) ==
  /\ p # Free
  /\ \A s \in Subs : Held(stripe[s].status) => stripe[s].bought < p

SellsBlind(p) ==
  /\ p # Free
  /\ Held(row.status) => row.plan < p

CreateCheckoutSession(s, p, c) ==
  /\ stripe[s].status = "unused"
  /\ Sells(p) \/ ("outage" \in Faults /\ SellsBlind(p))
  /\ stripe' = [stripe EXCEPT ![s] =
                  [Unused EXCEPT !.status = "offered", !.bought = p, !.term = c,
                                  !.plan = p, !.cycle = c]]
  /\ UNCHANGED <<now, events, row, tasks, spent>>

(* Upgrades start at once and are paid for: only a cheaper plan, or another     *)
(* cycle, is scheduled.                                                         *)
Schedules(p, c) ==
  /\ RowExists /\ row.plan # Free
  /\ p <= row.plan
  /\ p # row.plan \/ c # row.cycle

ScheduleChange(w, p, c) ==
  /\ Asks(w, "schedule")
  /\ Schedules(p, c)
  /\ Begin(w, [Idle EXCEPT !.kind = "schedule", !.pc = "stripe", !.plan = p,
                           !.cycle = c, !.seen = row])

CancelScheduledChange(w) ==
  /\ Asks(w, "unschedule")
  /\ RowExists /\ row.pending # NoPlan /\ row.plan # Free
  /\ Begin(w, [Idle EXCEPT !.kind = "unschedule", !.pc = "stripe", !.seen = row])

CancelSubscription(w, immediately) ==
  /\ Asks(w, IF immediately THEN "cancelNow" ELSE "cancel")
  /\ RowExists
  /\ Begin(w, [Idle EXCEPT !.kind = IF immediately THEN "cancelNow" ELSE "cancel",
                           !.pc = "stripe", !.seen = row])

ResumeSubscription(w) ==
  /\ Asks(w, "resume")
  /\ RowExists /\ row.status = "active" /\ row.cancelled
  /\ Begin(w, [Idle EXCEPT !.kind = "resume", !.pc = "stripe", !.seen = row])

ChangeBillingCycle(w, c) ==
  /\ Asks(w, "cycle")
  /\ RowExists /\ row.plan # Free
  /\ Begin(w, [Idle EXCEPT !.kind = "cycle", !.pc = "stripe", !.cycle = c, !.seen = row])

\* Mutant: nothing need be queued.
DateHasCome == row.changeAt <= now

\* Mutant: the date is not looked at.
ChangeIsQueued == row.pending # NoPlan

ChangeIsDue == row.pending # NoPlan /\ row.changeAt <= now

(* Every read of the plan applies a queued change whose date has come.          *)
GetCurrentSubscription(w) ==
  /\ Asks(w, "look")
  /\ ChangeIsDue
  /\ Begin(w, [Idle EXCEPT !.kind = "look", !.pc = "save", !.seen = row])

\* Mutant: a checkout that was opened is taken for one that was paid.
IsOpened(s) == stripe[s].status # "unused"

IsSettled(s) == Paid(s)

(* The success page, which a member may open again whenever they like.          *)
SyncCheckoutSession(w, s) ==
  /\ Asks(w, "confirm")
  /\ IsSettled(s)
  /\ Begin(w, [Idle EXCEPT !.kind = "confirm", !.pc = "fetch", !.sub = s])

\* Mutant: a subscription set to cancel goes on being set to cancel.
PricedOnly(sub, plan, cycle) == [sub EXCEPT !.plan = plan, !.cycle = cycle]

(* From the next period on, this price; and it renews.                          *)
ScheduleSubscriptionPriceChange(sub, plan, cycle) ==
  [sub EXCEPT !.plan = plan, !.cycle = cycle, !.renews = TRUE]

(* What the Stripe call of each request leaves at Stripe.                       *)
Amended(task) ==
  LET sub == stripe[task.seen.sub]
  IN CASE task.kind = "schedule" /\ task.plan = Free -> [sub EXCEPT !.renews = FALSE]
       [] task.kind = "schedule" /\ task.plan # Free ->
            ScheduleSubscriptionPriceChange(sub, task.plan, task.cycle)
       [] task.kind = "unschedule" ->
            ScheduleSubscriptionPriceChange(sub, task.seen.plan, task.seen.cycle)
       [] task.kind = "cancel" -> [sub EXCEPT !.renews = FALSE]
       [] task.kind = "cancelNow" -> [sub EXCEPT !.status = "canceled"]
       [] task.kind = "resume" -> [sub EXCEPT !.renews = TRUE]
       [] OTHER ->
            [sub EXCEPT !.plan = task.seen.plan, !.cycle = task.cycle,
                        !.end = IF task.cycle = sub.cycle THEN @ ELSE now + task.cycle]

(* A call on a subscription that is over is refused, and the request fails.     *)
CallStripe(w) ==
  LET task == tasks[w]
  IN /\ task.pc = "stripe"
     /\ \/ /\ Held(stripe[task.seen.sub].status)
           /\ Becomes(task.seen.sub, Amended(task))
           /\ Advance(w, "save")
        \/ /\ ~Held(stripe[task.seen.sub].status) \/ "outage" \in Faults
           /\ Finish(w)
           /\ UNCHANGED <<stripe, events>>
     /\ UNCHANGED <<now, row, spent>>

(* What each request writes, from what it read before calling Stripe.           *)
NothingQueued(r) ==
  [r EXCEPT !.pending = NoPlan, !.pendingCycle = NoCycle, !.changeAt = NoDate]

Written(task) ==
  CASE task.kind = "schedule" ->
         [row EXCEPT !.pending = task.plan, !.pendingCycle = task.cycle,
                     !.changeAt = task.seen.end, !.cancelled = (task.plan = Free)]
    [] task.kind = "unschedule" ->
         [NothingQueued(row) EXCEPT !.cancelled = FALSE, !.endDate = NoDate]
    [] task.kind = "cancel" ->
         [row EXCEPT !.status = "active", !.cancelled = TRUE, !.endDate = task.seen.end]
    [] task.kind = "cancelNow" ->
         [row EXCEPT !.status = "cancelled", !.cancelled = TRUE, !.endDate = now]
    [] task.kind = "resume" -> [row EXCEPT !.cancelled = FALSE, !.endDate = NoDate]
    [] task.kind = "cycle" -> [row EXCEPT !.cycle = task.cycle]
    [] task.kind = "look" ->
         [NothingQueued(row) EXCEPT !.plan = task.seen.pending,
                                    !.cycle = task.seen.pendingCycle]
    [] OTHER -> [row EXCEPT !.status = "past_due"]

Save(w) ==
  /\ tasks[w].kind # "confirm"
  /\ tasks[w].pc = "save"
  /\ row' = Written(tasks[w])
  /\ Finish(w)
  /\ UNCHANGED <<now, stripe, events, spent>>

--------------------------------------------------------------------------------
(* Recording a checkout: the webhook and the success page run the same handler. *)

(* A webhook that fails is answered 500, and Stripe may deliver it again.       *)
Fail(w) ==
  LET task == tasks[w]
      type == IF task.kind = "failed" THEN "failed" ELSE "checkout"
  IN /\ Finish(w)
     /\ \/ UNCHANGED events
        \/ /\ task.hook
           /\ \A i \in DOMAIN events : events[i].type # type \/ events[i].sub # task.sub
           /\ events' = Append(events, EventOf(type, task.sub, stripe[task.sub]))

Fetch(w) ==
  /\ tasks[w].pc = "fetch"
  /\ \/ /\ tasks' = [tasks EXCEPT ![w].status = stripe[tasks[w].sub].status,
                                  ![w].end = stripe[tasks[w].sub].end,
                                  ![w].pc = "load"]
        /\ UNCHANGED events
     \/ "outage" \in Faults /\ Fail(w)
  /\ UNCHANGED <<now, stripe, row, spent>>

LoadPrevious(w) ==
  /\ tasks[w].pc = "load"
  /\ tasks' = [tasks EXCEPT ![w].seen = row, ![w].pc = "save"]
  /\ UNCHANGED <<now, stripe, events, row, spent>>

\* Mutant: only a subscription in good standing is stopped.
ReplacesActive(task) ==
  /\ task.seen.sub # NoSub
  /\ task.seen.sub # task.sub
  /\ task.seen.status = "active"

Replaces(task) ==
  /\ task.seen.sub # NoSub
  /\ task.seen.sub # task.sub
  /\ task.seen.status # "cancelled"

(* Stripe spells it "canceled", which the row's enum does not hold: the write   *)
(* throws.  Plan and cycle come from the session's metadata.                    *)
Upsert(w) ==
  LET task == tasks[w]
  IN /\ task.kind = "confirm" /\ task.pc = "save"
     /\ \/ /\ task.status # "canceled"
           /\ row' = [NoRow EXCEPT !.sub = task.sub, !.plan = stripe[task.sub].bought,
                                   !.cycle = stripe[task.sub].term, !.status = task.status,
                                   !.end = task.end]
           /\ IF Replaces(task) THEN Advance(w, "replace") ELSE Finish(w)
           /\ UNCHANGED events
        \/ /\ task.status = "canceled"
           /\ Fail(w)
           /\ UNCHANGED row
     /\ UNCHANGED <<now, stripe, spent>>

(* Whatever goes wrong here is logged and forgotten.                            *)
CancelReplaced(w) ==
  LET old == tasks[w].seen.sub
  IN /\ tasks[w].pc = "replace"
     /\ \/ /\ Held(stripe[old].status)
           /\ Becomes(old, [stripe[old] EXCEPT !.status = "canceled"])
        \/ /\ ~Held(stripe[old].status) \/ "outage" \in Faults
           /\ UNCHANGED <<stripe, events>>
     /\ Finish(w)
     /\ UNCHANGED <<now, row, spent>>

--------------------------------------------------------------------------------
(* The webhook.                                                                 *)

Deliverable(i) == i = 1 \/ "reorder" \in Faults

Accept(i) ==
  \/ events' = RemoveAt(events, i)
  \/ "duplicate" \in Faults /\ UNCHANGED events

HandleCheckoutCompleted(w, i) ==
  /\ events[i].type = "checkout"
  /\ Begin(w, [Idle EXCEPT !.kind = "confirm", !.pc = "fetch", !.sub = events[i].sub,
                           !.hook = TRUE])
  /\ Accept(i)
  /\ UNCHANGED row

(* The update is filtered on the subscription id, so it is one step with the    *)
(* look-up before it.                                                           *)
HandleSubscriptionUpdated(w, i) ==
  /\ events[i].type = "updated"
  /\ row' = IF row.sub = events[i].sub
            THEN [row EXCEPT !.status = events[i].status, !.end = events[i].end]
            ELSE row
  /\ Accept(i)
  /\ UNCHANGED tasks

\* Mutant: the end is dated, and the status left as it was.
Dated(r) == [r EXCEPT !.endDate = now]

Ended(r) == [r EXCEPT !.status = "cancelled", !.endDate = now]

HandleSubscriptionDeleted(w, i) ==
  /\ events[i].type = "deleted"
  /\ row' = IF row.sub = events[i].sub THEN Ended(row) ELSE row
  /\ Accept(i)
  /\ UNCHANGED tasks

(* The row is found by subscription id and written by its own id, after the     *)
(* payment has been stored.  Its intent is unique: a second delivery fails on   *)
(* it before it writes anything.                                                *)
HandlePaymentFailed(w, i) ==
  /\ events[i].type = "failed"
  /\ \/ /\ row.sub = events[i].sub
        /\ Begin(w, [Idle EXCEPT !.kind = "failed", !.pc = "save",
                                 !.sub = events[i].sub, !.hook = TRUE])
        /\ events' = RemoveAt(events, i)
     \/ /\ row.sub # events[i].sub
        /\ Accept(i)
        /\ UNCHANGED tasks
  /\ UNCHANGED row

Deliver(w, i) ==
  /\ Deliverable(i)
  /\ CanStart(w)
  /\ \/ HandleCheckoutCompleted(w, i)
     \/ HandleSubscriptionUpdated(w, i)
     \/ HandleSubscriptionDeleted(w, i)
     \/ HandlePaymentFailed(w, i)
  /\ UNCHANGED <<now, stripe, spent>>

(* No endpoint is set up, or it stays down for longer than Stripe tries.        *)
Lose(i) ==
  /\ "lose" \in Faults
  /\ events' = RemoveAt(events, i)
  /\ UNCHANGED <<now, stripe, row, tasks, spent>>

(* The process restarts, or a database call fails, in the middle of a handler.  *)
Crash(w) ==
  /\ "crash" \in Faults
  /\ tasks[w] # Idle
  /\ Fail(w)
  /\ UNCHANGED <<now, stripe, row, spent>>

--------------------------------------------------------------------------------
Stripe ==
  \/ Tick
  \/ \E s \in Subs : Pay(s) \/ Renew(s) \/ Decline(s) \/ Retry(s) \/ Lapse(s)

Member ==
  \/ \E s \in Subs, p \in Plans, c \in Cycles : CreateCheckoutSession(s, p, c)
  \/ \E w \in Workers :
       \/ \E p \in Plans, c \in Cycles : ScheduleChange(w, p, c)
       \/ CancelScheduledChange(w)
       \/ \E immediately \in BOOLEAN : CancelSubscription(w, immediately)
       \/ ResumeSubscription(w)
       \/ \E c \in Cycles : ChangeBillingCycle(w, c)
       \/ GetCurrentSubscription(w)
       \/ \E s \in Subs : SyncCheckoutSession(w, s)

Step(w) ==
  CallStripe(w) \/ Save(w) \/ Fetch(w) \/ LoadPrevious(w) \/ Upsert(w) \/ CancelReplaced(w)

Next ==
  \/ Stripe
  \/ Member
  \/ \E w \in Workers : Step(w) \/ Crash(w)
  \/ \E w \in Workers, i \in DOMAIN events : Deliver(w, i)
  \/ \E i \in DOMAIN events : Lose(i)

Spec == Init /\ [][Next]_vars

(* Stripe delivers its events until they are accepted, settles what is due, and *)
(* a handler that has started goes on.  Nobody has to pay or to ask.            *)
Fairness ==
  /\ \A w \in Workers : WF_vars(Step(w))
  /\ WF_vars(\E w \in Workers : events # <<>> /\ Deliver(w, 1))
  /\ \A s \in Subs : WF_vars(Lapse(s)) /\ WF_vars(Renew(s))

FairSpec == Spec /\ Fairness

--------------------------------------------------------------------------------
(* Nothing in flight and nothing left to tell the backend.                      *)
Settled == events = <<>> /\ \A w \in Workers : tasks[w] = Idle

(* The plan on the row is never dearer than the dearest plan the member paid    *)
(* for, whatever handlers overlap and whatever arrives late, twice or not at    *)
(* all: scheduleChange must not hand out a plan nobody collected for.           *)
PlanWasPaidFor ==
  row.plan = Free \/ \E s \in Subs : Paid(s) /\ row.plan <= stripe[s].bought

(* Each checkout as an order, what it is for, and what follows from it.         *)
Life == [s \in Subs |->
  CASE stripe[s].status = "unused" -> "none"
    [] stripe[s].status = "offered" -> "open"
    [] stripe[s].status = "canceled" -> "over"
    [] OTHER -> "paid"]

Ordered == [s \in Subs |-> 1..stripe[s].bought]
Granted == 1..row.plan
Billed == UNION {1..stripe[s].plan : s \in {t \in Subs : Held(stripe[t].status)}}

Sale == INSTANCE Purchase WITH Orders <- Subs, Goods <- Plans \ {Free}, life <- Life,
                               order <- Ordered, held <- Granted, billed <- Billed

(* Plans are sold as every purchase is promised to be: what is on the row, and  *)
(* what Stripe is told to bill next, is part of an order that was paid for, and *)
(* an order neither changes nor comes back, whatever handlers are overtaken by. *)
SoldAsOrdered == Sale!Spec

(* Once every checkout has been recorded the member is billed for one plan: the *)
(* subscription an upgrade replaces has been stopped.                           *)
OneBuyerPlan ==
  Settled => \A s, t \in Subs :
    Held(stripe[s].status) /\ Held(stripe[t].status) => s = t

(* What the account says the next period will be, and what Stripe will bill.    *)
NextByRow ==
  IF row.pending # NoPlan THEN row.pending ELSE IF row.cancelled THEN Free ELSE row.plan

NextByStripe ==
  IF stripe[row.sub].renews THEN stripe[row.sub].plan ELSE Free

(* The next period the row announces is the one Stripe will charge: a scheduled *)
(* change is queued in both places or in neither.                               *)
NextPeriodAgrees ==
  Settled /\ RowExists /\ Held(stripe[row.sub].status) => NextByRow = NextByStripe

(* A subscription Stripe has ended grants nothing for ever: its row is closed,  *)
(* not left on a status that keeps the plan in force.                           *)
EndedMeansOut ==
  Settled /\ RowExists /\ stripe[row.sub].status = "canceled" => ~Held(row.status)

(* Moving up is always for sale: the plan above the one Stripe bills for is     *)
(* never refused by the checkout once everything is recorded.                   *)
UpgradeIsSold ==
  Settled /\ RowExists /\ Held(stripe[row.sub].status) =>
    \A p \in Plans : row.plan < p /\ stripe[row.sub].plan < p => Sells(p)

(* On one subscription the plan goes down only because a change queued on it    *)
(* has come due: what was queued before an upgrade does not carry over to it.   *)
OnlyQueuedDowngrades ==
  [][row'.sub = row.sub /\ row'.plan < row.plan =>
       row.pending = row'.plan /\ row.changeAt <= now]_vars

(* Every payment reaches the row, unless the subscription ends first or another *)
(* checkout has replaced it.                                                    *)
PaymentIsRecorded ==
  \A s \in Subs : Paid(s) ~> (row.sub = s \/ ~Held(stripe[s].status))
================================================================================
