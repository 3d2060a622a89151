---------------------------- MODULE BuyerPlanProofs ----------------------------
(* For any number of subscriptions, handlers and requests: the variables keep *)
(* their types, and the plan on the row never exceeds what was paid for,      *)
(* under every fault; and what is promised where handlers do not overlap.     *)
(*                                                                            *)
(* PlanWasPaidFor is not inductive.  A handler writes what it read some       *)
(* awaits ago, so what every task carries, what is queued on the row and the  *)
(* checkouts the webhook still has to hear of must be backed by a payment     *)
(* too.                                                                       *)
(*                                                                            *)
(* Without overlaps (AloneInv) a handler at work holds the row as it is.  On  *)
(* that rest four promises, each in as bad a world as it holds in: a plan     *)
(* goes down only when a queued change is due (from AloneInv alone), what has *)
(* ended grants nothing (EndInv), one plan is billed (PlanInv) and the next   *)
(* period is the one announced (NextInv).                                     *)
(*                                                                            *)
(* Last, the refinement: under every fault plans are sold as Purchase         *)
(* promises.  What Stripe bills must be backed too, and what a handler that   *)
(* will call Stripe has read of the row (SaleInv).                            *)
EXTENDS BuyerPlan, QueueLemmas

PaidIn(held, s) == held[s].status \notin {"unused", "offered"}

(* Plan p is free, or no dearer than one the member paid for.                 *)
Backed(p, held) == p = Free \/ \E s \in Subs : PaidIn(held, s) /\ p <= held[s].bought

TaskBacked(task, held) ==
  /\ task.pc \in {"stripe", "replace"} => task.seen.sub \in Subs
  /\ task.pc \in {"fetch", "load", "replace"} => task.kind = "confirm"
  /\ task.kind = "confirm" => task.sub \in Subs /\ PaidIn(held, task.sub)
  /\ task.kind = "failed" => task.sub \in Subs
  /\ task.hook => task.kind \in {"confirm", "failed"}
  /\ task.kind = "schedule" => Backed(task.plan, held)
  /\ task.kind = "look" => Backed(task.seen.pending, held)

RowBacked == Backed(row.plan, stripe) /\ (row.pending # NoPlan => Backed(row.pending, stripe))

TasksBacked == \A w \in Workers : TaskBacked(tasks[w], stripe)

EventBacked(e, held) ==
  /\ e.type = "checkout" => PaidIn(held, e.sub)
  /\ e.type = "updated" => e.status # "canceled"

EventsBacked == \A i \in DOMAIN events : EventBacked(events[i], stripe)

(* The inductive invariant.                                                   *)
IInv == TypeOK /\ RowBacked /\ TasksBacked /\ EventsBacked

(* No step takes a payment back.                                              *)
Keeps(before, after) ==
  \A s \in Subs : PaidIn(before, s) =>
    PaidIn(after, s) /\ after[s].bought = before[s].bought
--------------------------------------------------------------------------------
(* What was backed stays backed.                                              *)
LEMMA BackedKept ==
  ASSUME NEW before, NEW after, Keeps(before, after), NEW p, Backed(p, before)
  PROVE  Backed(p, after)
  BY DEF Keeps, Backed

(* What a task carries stays backed while no payment is taken back.           *)
LEMMA TaskKept ==
  ASSUME NEW before, NEW after, Keeps(before, after), NEW task, TaskBacked(task, before)
  PROVE  TaskBacked(task, after)
  BY BackedKept DEF TaskBacked, Keeps

(* Cycles, and the absence of one, are numbers of periods.                    *)
LEMMA CyclesAreNumbers == ASSUME NEW sub \in Subscription PROVE sub.cycle \in Nat
<1>1. Cycles \cup {NoCycle} \subseteq Nat
  BY BuyerPlanAssumption DEF NoCycle
<1>2. sub.cycle \in Cycles \cup {NoCycle}
  BY DEF Subscription
<1>3. QED
  BY <1>1, <1>2

(* What an event says of a subscription is an event.                          *)
LEMMA EventTyped ==
  ASSUME NEW type \in {"checkout", "updated", "deleted", "failed"}, NEW s \in Subs,
         NEW sub, sub.end \in Nat
  PROVE  /\ EventOf(type, s, sub) \in Event
         /\ EventOf(type, s, sub).type = type
         /\ EventOf(type, s, sub).sub = s
         /\ sub.status # "canceled" => EventOf(type, s, sub).status # "canceled"
  BY DEF EventOf, Event

(* Appending one event, or taking one out, keeps the queue typed and backed.  *)
LEMMA QueueAppended ==
  ASSUME NEW queue \in Seq(Event), NEW e \in Event, NEW before, NEW after,
         Keeps(before, after),
         \A i \in DOMAIN queue : EventBacked(queue[i], before), EventBacked(e, after)
  PROVE  /\ Append(queue, e) \in Seq(Event)
         /\ \A i \in DOMAIN Append(queue, e) : EventBacked(Append(queue, e)[i], after)
<1>1. \A i \in DOMAIN queue : queue[i] \in Event
  BY ElementOfSeq
<1>2. \A i \in DOMAIN queue : queue[i].sub \in Subs
  BY <1>1 DEF Event
<1>3. \A i \in DOMAIN queue : EventBacked(queue[i], after)
  BY <1>2 DEF Keeps, EventBacked
<1>4. QED
  BY <1>3, Appended

(* A queue with one event fewer stays typed and backed.                       *)
LEMMA QueueShortened ==
  ASSUME NEW queue \in Seq(Event), NEW i \in DOMAIN queue, NEW held,
         \A j \in DOMAIN queue : EventBacked(queue[j], held)
  PROVE  /\ RemoveAt(queue, i) \in Seq(Event)
         /\ \A j \in DOMAIN RemoveAt(queue, i) : EventBacked(RemoveAt(queue, i)[j], held)
  BY Removed
--------------------------------------------------------------------------------
(* A worker with nothing to do carries nothing that needs a payment.          *)
LEMMA IdleTask == Idle \in Task /\ \A held : TaskBacked(Idle, held)
<1>1. NoRow \in Row
  BY DEF NoRow, Row, Free, Plans, NoPlan, NoDate, NoCycle
<1>2. Idle \in Task
  BY <1>1 DEF Idle, Task, TaskKinds, RequestKinds, Free, Plans, NoDate, NoCycle
<1>3. QED
  BY <1>2 DEF TaskBacked, Idle

(* A worker takes up a task, or moves on in it.                               *)
LEMMA TaskSet ==
  ASSUME IInv, Keeps(stripe, stripe'), NEW w \in Workers, NEW task \in Task,
         TaskBacked(task, stripe'), tasks' = [tasks EXCEPT ![w] = task]
  PROVE  tasks' \in [Workers -> Task] /\ TasksBacked'
<1>1. tasks' \in [Workers -> Task]
  BY DEF IInv, TypeOK
<1>2. ASSUME NEW v \in Workers PROVE TaskBacked(tasks'[v], stripe')
  <2>1. CASE v = w
    BY <2>1 DEF IInv, TypeOK
  <2>2. CASE v # w
    <3>1. tasks'[v] = tasks[v] /\ TaskBacked(tasks[v], stripe)
      BY <2>2 DEF IInv, TypeOK, TasksBacked
    <3>2. QED
      BY <3>1, TaskKept
  <2>3. QED
    BY <2>1, <2>2
<1>3. QED
  BY <1>1, <1>2 DEF TasksBacked

(* A handler that ends leaves the tasks typed and backed.                     *)
LEMMA TaskFinished ==
  ASSUME IInv, Keeps(stripe, stripe'), NEW w \in Workers, Finish(w)
  PROVE  tasks' \in [Workers -> Task] /\ TasksBacked'
  BY IdleTask, TaskSet DEF Finish

(* What no step touches stays backed.                                         *)
LEMMA TasksUntouched ==
  ASSUME IInv, Keeps(stripe, stripe'), UNCHANGED tasks
  PROVE  tasks' \in [Workers -> Task] /\ TasksBacked'
  BY TaskKept DEF IInv, TypeOK, TasksBacked

(* A row no step touches stays backed.                                        *)
LEMMA RowUntouched ==
  ASSUME IInv, Keeps(stripe, stripe'), UNCHANGED row
  PROVE  row' \in Row /\ RowBacked'
  BY BackedKept DEF IInv, TypeOK, RowBacked

(* Where Stripe does nothing, no payment is taken back.                       *)
LEMMA StripeUntouched ==
  ASSUME IInv, UNCHANGED stripe
  PROVE  stripe' \in [Subs -> Subscription] /\ Keeps(stripe, stripe')
  BY DEF IInv, TypeOK, Keeps

(* Events no step touches stay backed.                                        *)
LEMMA EventsUntouched ==
  ASSUME IInv, Keeps(stripe, stripe'), UNCHANGED events
  PROVE  events' \in Seq(Event) /\ EventsBacked'
<1>1. \A i \in DOMAIN events : events[i] \in Event
  BY ElementOfSeq DEF IInv, TypeOK
<1>2. \A i \in DOMAIN events : events[i].sub \in Subs
  BY <1>1 DEF Event
<1>3. QED
  BY <1>2 DEF IInv, TypeOK, EventsBacked, EventBacked, Keeps

(* A subscription paid for becomes another one paid for: the two are told     *)
(* apart by everything but what was bought.                                   *)
LEMMA StripeSet ==
  ASSUME IInv, NEW s \in Subs, NEW sub \in Subscription,
         PaidIn(stripe, s) => sub.status \notin {"unused", "offered"}
                              /\ sub.bought = stripe[s].bought,
         stripe' = [stripe EXCEPT ![s] = sub]
  PROVE  stripe' \in [Subs -> Subscription] /\ Keeps(stripe, stripe')
  BY DEF IInv, TypeOK, Keeps, PaidIn

(* A backed event joins the queue.                                            *)
LEMMA EventQueued ==
  ASSUME IInv, Keeps(stripe, stripe'), NEW e \in Event,
         EventBacked(e, stripe'), events' = Append(events, e)
  PROVE  events' \in Seq(Event) /\ EventsBacked'
  BY QueueAppended DEF IInv, TypeOK, EventsBacked

(* An event is accepted, lost, or kept to be repeated.                        *)
LEMMA EventTaken ==
  ASSUME IInv, UNCHANGED stripe, NEW i \in DOMAIN events,
         events' = RemoveAt(events, i) \/ UNCHANGED events
  PROVE  events' \in Seq(Event) /\ EventsBacked'
<1>1. CASE UNCHANGED events
  BY <1>1, EventsUntouched, StripeUntouched
<1>2. CASE events' = RemoveAt(events, i)
  BY <1>2, QueueShortened DEF IInv, TypeOK, EventsBacked
<1>3. QED
  BY <1>1, <1>2

(* A subscription changes and its event is queued: nothing loses its backing. *)
LEMMA BecomesKept ==
  ASSUME IInv, NEW s \in Subs, NEW sub \in Subscription,
         sub.status \in {"active", "past_due", "canceled"},
         sub.bought = stripe[s].bought, Becomes(s, sub)
  PROVE  /\ stripe' \in [Subs -> Subscription]
         /\ Keeps(stripe, stripe')
         /\ events' \in Seq(Event)
         /\ EventsBacked'
<1> DEFINE e == EventOf(IF sub.status = "canceled" THEN "deleted" ELSE "updated", s, sub)
<1>1. stripe' \in [Subs -> Subscription] /\ Keeps(stripe, stripe')
  BY StripeSet DEF Becomes
<1>2. e \in Event /\ EventBacked(e, stripe')
  BY EventTyped DEF Subscription, EventBacked
<1>3. events' = Append(events, e)
  BY DEF Becomes
<1>4. QED
  BY <1>1, <1>2, <1>3, EventQueued
--------------------------------------------------------------------------------
(* The initial states satisfy the inductive invariant.                        *)
THEOREM InitBacked == Init => IInv
<1> SUFFICES ASSUME Init PROVE IInv
  OBVIOUS
<1>1. now \in 1..Horizon /\ spent \in 0..MaxRequests
  BY BuyerPlanAssumption DEF Init
<1>2. Unused \in Subscription
  BY DEF Unused, Subscription, Plans, Free, NoCycle, NoDate
<1>3. NoRow \in Row
  BY DEF NoRow, Row, Free, Plans, NoPlan, NoDate, NoCycle
<1>4. TypeOK
  BY <1>1, <1>2, <1>3, IdleTask DEF Init, TypeOK
<1>5. RowBacked
  BY DEF Init, RowBacked, NoRow, Backed
<1>6. TasksBacked
  BY IdleTask DEF Init, TasksBacked
<1>7. EventsBacked
  BY DEF Init, EventsBacked
<1>8. QED
  BY <1>4, <1>5, <1>6, <1>7 DEF IInv

(* Stripe's own steps: subscriptions and events move, the backend does not.   *)
LEMMA StripeStep == ASSUME IInv, Stripe PROVE IInv'
<1> USE DEF PaidIn
<1>1. CASE Tick
  <2>1. now' \in 1..Horizon /\ spent' \in 0..MaxRequests
    BY <1>1, BuyerPlanAssumption DEF Tick, IInv, TypeOK
  <2>2. QED
    BY <1>1, <2>1, StripeUntouched, EventsUntouched, RowUntouched, TasksUntouched
       DEF Tick, IInv, TypeOK
<1>2. ASSUME NEW s \in Subs,
             Pay(s) \/ Renew(s) \/ Decline(s) \/ Retry(s) \/ Lapse(s)
      PROVE  IInv'
  <2>0. stripe[s] \in Subscription /\ now \in Nat
    BY DEF IInv, TypeOK
  <2>1. /\ stripe' \in [Subs -> Subscription]
        /\ Keeps(stripe, stripe')
        /\ events' \in Seq(Event)
        /\ EventsBacked'
    <3>1. CASE Pay(s)
      <4> DEFINE sub == [stripe[s] EXCEPT !.status = "active", !.renews = TRUE,
                                          !.end = now + stripe[s].cycle]
      <4>1. now + stripe[s].cycle \in Nat
        BY <2>0, CyclesAreNumbers
      <4>2. sub \in Subscription /\ sub.end \in Nat /\ sub.status = "active"
        <5> DEFINE end == now + stripe[s].cycle
        <5> HIDE DEF end
        <5>1. sub = [stripe[s] EXCEPT !.status = "active", !.renews = TRUE, !.end = end]
          BY DEF end
        <5>2. end \in Nat
          BY <4>1 DEF end
        <5>3. QED
          BY <2>0, <5>1, <5>2 DEF Subscription
      <4>3. stripe' = [stripe EXCEPT ![s] = sub] /\ ~PaidIn(stripe, s)
        BY <3>1 DEF Pay
      <4>4. sub.bought = stripe[s].bought /\ events' = Append(events, EventOf("checkout", s, sub))
        BY <2>0, <3>1 DEF Pay, Subscription
      <4> HIDE DEF sub
      <4>5. stripe' \in [Subs -> Subscription] /\ Keeps(stripe, stripe')
        BY <4>3, <4>2, <4>4, StripeSet
      <4>6. stripe'[s].status = "active"
        BY <4>3, <4>2 DEF IInv, TypeOK
      <4>7. EventOf("checkout", s, sub) \in Event /\ EventBacked(EventOf("checkout", s, sub), stripe')
        BY <4>2, <4>6, EventTyped DEF EventBacked
      <4>8. QED
        BY <4>4, <4>5, <4>7, EventQueued
    <3>2. CASE Renew(s)
      <4> DEFINE sub == [stripe[s] EXCEPT !.end = @ + stripe[s].cycle]
      <4>1. stripe[s].cycle \in Nat
        BY <2>0, CyclesAreNumbers
      <4>2. sub \in Subscription /\ sub.status = "active" /\ sub.bought = stripe[s].bought
        BY <2>0, <3>2, <4>1 DEF Subscription, Renew
      <4>3. QED
        BY <3>2, <4>2, BecomesKept DEF Renew
    <3>3. CASE Decline(s)
      <4> DEFINE sub == [stripe[s] EXCEPT !.status = "past_due",
                                          !.end = @ + stripe[s].cycle]
                 e == EventOf("updated", s, sub)
                 f == EventOf("failed", s, sub)
      <4>1. stripe[s].end + stripe[s].cycle \in Nat
        BY <2>0, CyclesAreNumbers DEF Subscription
      <4>2. /\ sub \in Subscription /\ sub.end \in Nat
            /\ sub.status = "past_due" /\ sub.bought = stripe[s].bought
        <5> DEFINE end == stripe[s].end + stripe[s].cycle
        <5> HIDE DEF end
        <5>1. sub = [stripe[s] EXCEPT !.status = "past_due", !.end = end]
          BY DEF end
        <5>2. end \in Nat
          BY <4>1 DEF end
        <5>3. QED
          BY <2>0, <5>1, <5>2 DEF Subscription
      <4>3. stripe' \in [Subs -> Subscription] /\ Keeps(stripe, stripe')
        BY <3>3, <4>2, StripeSet DEF Decline
      <4>5. events \in Seq(Event) /\ events' = events \o <<e, f>>
        BY <3>3 DEF Decline, IInv, TypeOK
      <4> HIDE DEF sub
      <4>4. e \in Event /\ f \in Event /\ EventBacked(e, stripe') /\ EventBacked(f, stripe')
        BY <4>2, EventTyped DEF EventBacked
      <4> HIDE DEF e, f
      <4>6. events' = Append(Append(events, e), f)
        BY <4>4, <4>5
      <4>7. /\ Append(events, e) \in Seq(Event)
            /\ \A i \in DOMAIN Append(events, e) : EventBacked(Append(events, e)[i], stripe')
        BY <4>3, <4>4, <4>5, QueueAppended DEF IInv, EventsBacked
      <4>8. Keeps(stripe', stripe')
        BY DEF Keeps
      <4>9. QED
        BY <4>3, <4>4, <4>6, <4>7, <4>8, QueueAppended DEF EventsBacked
    <3>4. CASE Retry(s)
      <4>1. PICK status \in {"active", "canceled"} :
              Becomes(s, [stripe[s] EXCEPT !.status = status])
        BY <3>4 DEF Retry
      <4>2. [stripe[s] EXCEPT !.status = status] \in Subscription
        BY <2>0 DEF Subscription
      <4>3. QED
        BY <2>0, <4>1, <4>2, BecomesKept DEF Subscription
    <3>5. CASE Lapse(s)
      <4>1. [stripe[s] EXCEPT !.status = "canceled"] \in Subscription
        BY <2>0 DEF Subscription
      <4>2. QED
        BY <2>0, <3>5, <4>1, BecomesKept DEF Lapse, Subscription
    <3>6. QED
      BY <1>2, <3>1, <3>2, <3>3, <3>4, <3>5
  <2>2. UNCHANGED <<now, row, tasks, spent>>
    BY <1>2 DEF Pay, Renew, Decline, Retry, Lapse
  <2>3. QED
    BY <2>1, <2>2, RowUntouched, TasksUntouched DEF IInv, TypeOK
<1>3. QED
  BY <1>1, <1>2 DEF Stripe

(* A request only begins a task; it begins one that is backed.                *)
LEMMA Asked ==
  ASSUME IInv, NEW w \in Workers, NEW kind, Asks(w, kind),
         NEW task \in Task, TaskBacked(task, stripe), Begin(w, task)
  PROVE  IInv'
<1>1. UNCHANGED <<now, stripe, events, row>> /\ spent' \in 0..MaxRequests
  BY BuyerPlanAssumption DEF Asks, IInv, TypeOK
<1>2. tasks' \in [Workers -> Task] /\ TasksBacked'
  BY <1>1, TaskSet, StripeUntouched DEF Begin
<1>3. QED
  BY <1>1, <1>2, StripeUntouched, EventsUntouched, RowUntouched DEF IInv, TypeOK

(* What the member asks for keeps the inductive invariant.                    *)
LEMMA MemberStep == ASSUME IInv, Member PROVE IInv'
<1> USE DEF TaskKinds, RequestKinds
<1>0. /\ row \in Row /\ NoRow \in Row
      /\ Free \in Plans /\ NoCycle \in Cycles \cup {NoCycle} /\ NoSub \in Subs \cup {NoSub}
  BY IdleTask DEF IInv, TypeOK, Idle, Task, Free, Plans
<1>1. ASSUME NEW s \in Subs, NEW p \in Plans, NEW c \in Cycles, CreateCheckoutSession(s, p, c)
      PROVE  IInv'
  <2> DEFINE sub == [Unused EXCEPT !.status = "offered", !.bought = p, !.term = c,
                                   !.plan = p, !.cycle = c]
  <2>1. sub \in Subscription
    BY DEF Unused, Subscription, NoDate
  <2>2. ~PaidIn(stripe, s) /\ stripe' = [stripe EXCEPT ![s] = sub]
    BY <1>1 DEF CreateCheckoutSession, PaidIn
  <2> HIDE DEF sub
  <2>3. stripe' \in [Subs -> Subscription] /\ Keeps(stripe, stripe')
    BY <2>1, <2>2, StripeSet
  <2>4. UNCHANGED <<now, events, row, tasks, spent>>
    BY <1>1 DEF CreateCheckoutSession
  <2>5. QED
    BY <2>3, <2>4, EventsUntouched, RowUntouched, TasksUntouched DEF IInv, TypeOK
<1>2. ASSUME NEW w \in Workers, NEW p \in Plans, NEW c \in Cycles, ScheduleChange(w, p, c)
      PROVE  IInv'
  <2> DEFINE task == [Idle EXCEPT !.kind = "schedule", !.pc = "stripe", !.plan = p,
                                  !.cycle = c, !.seen = row]
  <2>1. task \in Task
    BY <1>0, IdleTask DEF Task
  <2>2. p <= row.plan /\ row.sub # NoSub /\ Backed(row.plan, stripe)
    BY <1>2 DEF ScheduleChange, Schedules, RowExists, IInv, RowBacked
  <2>3. Backed(p, stripe)
    <3>1. row.plan \in 0..2 /\ p \in 0..2
      BY <1>0 DEF Row, Plans
    <3>2. CASE row.plan = Free
      BY <2>2, <3>1, <3>2 DEF Backed, Free
    <3>3. CASE \E s \in Subs : PaidIn(stripe, s) /\ row.plan <= stripe[s].bought
      <4>1. PICK s \in Subs : PaidIn(stripe, s) /\ row.plan <= stripe[s].bought
        BY <3>3
      <4>2. stripe[s].bought \in 0..2
        BY DEF IInv, TypeOK, Subscription, Plans
      <4>3. QED
        BY <2>2, <3>1, <4>1, <4>2 DEF Backed
    <3>4. QED
      BY <2>2, <3>2, <3>3 DEF Backed
  <2>4. row.sub \in Subs
    BY <1>0, <2>2 DEF Row
  <2>5. TaskBacked(task, stripe)
    BY <2>3, <2>4 DEF TaskBacked, Idle
  <2>6. QED
    BY <1>2, <2>1, <2>5, Asked DEF ScheduleChange
<1>3. ASSUME NEW w \in Workers, NEW kind \in {"unschedule", "cancel", "cancelNow", "resume"},
             Asks(w, kind), RowExists,
             Begin(w, [Idle EXCEPT !.kind = kind, !.pc = "stripe", !.seen = row])
      PROVE  IInv'
  <2> DEFINE task == [Idle EXCEPT !.kind = kind, !.pc = "stripe", !.seen = row]
  <2>1. task \in Task
    BY <1>0, IdleTask DEF Task
  <2>2. row.sub \in Subs
    BY <1>0, <1>3 DEF Row, RowExists
  <2>3. TaskBacked(task, stripe)
    BY <2>2 DEF TaskBacked, Idle
  <2>4. QED
    BY <1>3, <2>1, <2>3, Asked
<1>4. ASSUME NEW w \in Workers, NEW c \in Cycles, ChangeBillingCycle(w, c)
      PROVE  IInv'
  <2> DEFINE task == [Idle EXCEPT !.kind = "cycle", !.pc = "stripe", !.cycle = c, !.seen = row]
  <2>1. task \in Task
    BY <1>0, IdleTask DEF Task
  <2>2. row.sub \in Subs
    BY <1>0, <1>4 DEF Row, RowExists, ChangeBillingCycle
  <2>3. TaskBacked(task, stripe)
    BY <2>2 DEF TaskBacked, Idle
  <2>4. QED
    BY <1>4, <2>1, <2>3, Asked DEF ChangeBillingCycle
<1>5. ASSUME NEW w \in Workers, GetCurrentSubscription(w)
      PROVE  IInv'
  <2> DEFINE task == [Idle EXCEPT !.kind = "look", !.pc = "save", !.seen = row]
  <2>1. task \in Task
    BY <1>0, IdleTask DEF Task
  <2>2. Backed(row.pending, stripe)
    BY <1>5 DEF GetCurrentSubscription, ChangeIsDue, IInv, RowBacked
  <2>3. TaskBacked(task, stripe)
    BY <2>2 DEF TaskBacked, Idle
  <2>4. QED
    BY <1>5, <2>1, <2>3, Asked DEF GetCurrentSubscription
<1>6. ASSUME NEW w \in Workers, NEW s \in Subs, SyncCheckoutSession(w, s)
      PROVE  IInv'
  <2> DEFINE task == [Idle EXCEPT !.kind = "confirm", !.pc = "fetch", !.sub = s]
  <2>1. task \in Task
    BY <1>0, IdleTask DEF Task
  <2>2. PaidIn(stripe, s)
    BY <1>6 DEF SyncCheckoutSession, IsSettled, Paid, PaidIn
  <2>3. TaskBacked(task, stripe)
    BY <2>2 DEF TaskBacked, Idle
  <2>4. QED
    BY <1>6, <2>1, <2>3, Asked DEF SyncCheckoutSession
<1>7. ASSUME NEW w \in Workers,
             \/ CancelScheduledChange(w)
             \/ \E immediately \in BOOLEAN : CancelSubscription(w, immediately)
             \/ ResumeSubscription(w)
      PROVE  IInv'
  BY <1>3, <1>7 DEF CancelScheduledChange, CancelSubscription, ResumeSubscription
<1>8. QED
  BY <1>1, <1>2, <1>4, <1>5, <1>6, <1>7 DEF Member

(* Nothing but a task moves, and the webhook event it may put back.           *)
LEMMA FailKept ==
  ASSUME IInv, NEW w \in Workers, Fail(w), UNCHANGED stripe,
         tasks[w].hook \in BOOLEAN
  PROVE  /\ tasks' \in [Workers -> Task] /\ TasksBacked'
         /\ events' \in Seq(Event) /\ EventsBacked'
<1>1. stripe' \in [Subs -> Subscription] /\ Keeps(stripe, stripe')
  BY StripeUntouched
<1>2. tasks' \in [Workers -> Task] /\ TasksBacked'
  BY <1>1, TaskFinished DEF Fail
<1>3. CASE UNCHANGED events
  BY <1>1, <1>2, <1>3, EventsUntouched
<1>4. CASE ~UNCHANGED events
  <2> DEFINE task == tasks[w]
             type == IF task.kind = "failed" THEN "failed" ELSE "checkout"
             e == EventOf(type, task.sub, stripe[task.sub])
  <2>1. task.hook /\ events' = Append(events, e)
    BY <1>4 DEF Fail
  <2>2. TaskBacked(task, stripe)
    BY DEF IInv, TasksBacked
  <2>3. task.sub \in Subs /\ (type = "checkout" => PaidIn(stripe, task.sub))
    BY <2>1, <2>2 DEF TaskBacked
  <2>4. stripe[task.sub].end \in Nat
    BY <2>3 DEF IInv, TypeOK, Subscription
  <2>5. e \in Event /\ e.type = type /\ e.sub = task.sub
    BY <2>3, <2>4, EventTyped
  <2>6. EventBacked(e, stripe')
    BY <2>3, <2>5 DEF EventBacked
  <2>7. events' \in Seq(Event) /\ EventsBacked'
    BY <1>1, <2>1, <2>5, <2>6, EventQueued
  <2>8. QED
    BY <1>2, <2>7
<1>5. QED
  BY <1>3, <1>4

(* What a request's call leaves at Stripe is a subscription, bought as        *)
(* before.                                                                    *)
LEMMA AmendedFits ==
  ASSUME IInv, NEW task \in Task, task.seen.sub \in Subs,
         Held(stripe[task.seen.sub].status)
  PROVE  /\ Amended(task) \in Subscription
         /\ Amended(task).status \in {"active", "past_due", "canceled"}
         /\ Amended(task).bought = stripe[task.seen.sub].bought
         /\ task.kind # "cancelNow" => Amended(task).status = stripe[task.seen.sub].status
<1> DEFINE sub == stripe[task.seen.sub]
           late == now + task.cycle
<1>1. /\ sub \in Subscription /\ sub.status \in {"active", "past_due"}
      /\ task.plan \in Plans /\ task.cycle \in Cycles \cup {NoCycle}
      /\ task.seen.plan \in Plans /\ task.seen.cycle \in Cycles \cup {NoCycle}
  BY DEF Held, Task, Row, IInv, TypeOK
<1>2. sub.end \in Nat /\ late \in Nat
  <2>1. Cycles \cup {NoCycle} \subseteq Nat
    BY BuyerPlanAssumption DEF NoCycle
  <2>2. task.cycle \in Nat /\ now \in Nat
    BY <1>1, <2>1 DEF IInv, TypeOK
  <2>3. QED
    BY <1>1, <2>2 DEF Subscription
<1> HIDE DEF late, sub
<1>3. Amended(task) \in {[sub EXCEPT !.renews = FALSE], [sub EXCEPT !.renews = TRUE],
        [sub EXCEPT !.plan = task.plan, !.cycle = task.cycle, !.renews = TRUE],
        [sub EXCEPT !.plan = task.seen.plan, !.cycle = task.seen.cycle, !.renews = TRUE],
        [sub EXCEPT !.plan = task.seen.plan, !.cycle = task.cycle,
                    !.end = IF task.cycle = sub.cycle THEN sub.end ELSE late]}
      \/ (task.kind = "cancelNow" /\ Amended(task) = [sub EXCEPT !.status = "canceled"])
  BY DEF Amended, ScheduleSubscriptionPriceChange, late, sub
<1>4. /\ Amended(task) \in Subscription
      /\ Amended(task).status \in {"active", "past_due", "canceled"}
      /\ Amended(task).bought = sub.bought
      /\ task.kind # "cancelNow" => Amended(task).status = sub.status
  BY <1>1, <1>2, <1>3 DEF Subscription
<1>5. QED
  BY <1>4 DEF sub

(* The steps of a handler.                                                    *)
LEMMA HandlerStep == ASSUME IInv, NEW w \in Workers, Step(w) PROVE IInv'
<1> DEFINE task == tasks[w]
<1>0. /\ task \in Task /\ TaskBacked(task, stripe) /\ row \in Row /\ now \in Nat
      /\ task.hook \in BOOLEAN /\ task.seen \in Row
  BY DEF IInv, TypeOK, TasksBacked, Task
<1>1. CASE CallStripe(w)
  <2> DEFINE sub == stripe[task.seen.sub]
  <2>1. task.seen.sub \in Subs
    BY <1>0, <1>1 DEF CallStripe, TaskBacked
  <2>2. sub \in Subscription
    BY <2>1 DEF IInv, TypeOK
  <2>3. CASE Held(sub.status) /\ Becomes(task.seen.sub, Amended(task)) /\ Advance(w, "save")
    <3>1. /\ Amended(task) \in Subscription
          /\ Amended(task).status \in {"active", "past_due", "canceled"}
          /\ Amended(task).bought = sub.bought
      BY <1>0, <2>1, <2>3, AmendedFits
    <3>2. /\ stripe' \in [Subs -> Subscription] /\ Keeps(stripe, stripe')
          /\ events' \in Seq(Event) /\ EventsBacked'
      BY <2>1, <2>3, <3>1, BecomesKept
    <3>3. [task EXCEPT !.pc = "save"] \in Task
      BY <1>0 DEF Task
    <3>4. TaskBacked(task, stripe')
      BY <1>0, <3>2, TaskKept
    <3>5. TaskBacked([task EXCEPT !.pc = "save"], stripe')
      BY <1>0, <3>4 DEF TaskBacked, Task
    <3>6. tasks' \in [Workers -> Task] /\ TasksBacked'
      <4>1. tasks' = [tasks EXCEPT ![w] = [task EXCEPT !.pc = "save"]]
        BY <2>3 DEF Advance, IInv, TypeOK
      <4>2. QED
        BY <3>2, <3>3, <3>5, <4>1, TaskSet
    <3>7. UNCHANGED <<now, row, spent>>
      BY <1>1 DEF CallStripe
    <3>8. QED
      BY <3>2, <3>6, <3>7, RowUntouched DEF IInv, TypeOK
  <2>4. CASE Finish(w) /\ UNCHANGED <<stripe, events>>
    BY <1>1, <2>4, StripeUntouched, EventsUntouched, RowUntouched, TaskFinished
       DEF CallStripe, IInv, TypeOK
  <2>5. QED
    BY <1>1, <2>3, <2>4 DEF CallStripe
<1>2. CASE Save(w)
  <2>1. row' \in Row
    <3>1. /\ task.plan \in Plans /\ task.cycle \in Cycles \cup {NoCycle}
          /\ task.seen.end \in Nat /\ task.seen.pendingCycle \in Cycles \cup {NoCycle}
          /\ NoPlan \in Plans \cup {NoPlan} /\ NoDate \in Nat
      BY <1>0 DEF Task, Row, NoDate
    <3>2. task.kind = "look" => task.seen.pending \in Plans
      <4>1. task.seen.pending \in Plans \cup {NoPlan}
        BY <1>0 DEF Row
      <4>2. ~Backed(NoPlan, stripe)
        BY DEF Backed, NoPlan, Free, IInv, TypeOK, Subscription, Plans
      <4>3. QED
        BY <1>0, <4>1, <4>2 DEF TaskBacked
    <3> HIDE DEF task
    <3>3. Written(task) \in Row
      BY <1>0, <3>1, <3>2, ZenonT(60) DEF Written, NothingQueued, Row
    <3>4. QED
      BY <1>2, <3>3 DEF Save, task
  <2>2. RowBacked'
    <3> HIDE DEF task
    <3>1. Written(task).plan \in {row.plan} \/ (task.kind = "look" /\ Written(task).plan = task.seen.pending)
      BY <1>0 DEF Written, NothingQueued, Row
    <3>2. Written(task).pending \in {row.pending, NoPlan}
            \/ (task.kind = "schedule" /\ Written(task).pending = task.plan)
      BY <1>0 DEF Written, NothingQueued, Row
    <3>3. row' = Written(task) /\ UNCHANGED stripe
      BY <1>2 DEF Save, task
    <3>4. QED
      BY <1>0, <3>1, <3>2, <3>3 DEF RowBacked, IInv, TaskBacked
  <2>3. QED
    BY <1>2, <2>1, <2>2, StripeUntouched, EventsUntouched, TaskFinished DEF Save, IInv, TypeOK
<1>3. CASE Fetch(w)
  <2>1. task.kind = "confirm" /\ task.sub \in Subs /\ PaidIn(stripe, task.sub)
    BY <1>0, <1>3 DEF Fetch, TaskBacked
  <2>2. UNCHANGED <<now, stripe, row, spent>>
    BY <1>3 DEF Fetch
  <2>3. CASE Fail(w)
    BY <1>0, <2>2, <2>3, FailKept, StripeUntouched, RowUntouched DEF IInv, TypeOK
  <2>4. CASE ~Fail(w)
    <3> DEFINE sub == stripe[task.sub]
               next == [task EXCEPT !.status = sub.status, !.end = sub.end, !.pc = "load"]
    <3>1. sub.status \in {"active", "past_due", "canceled"} /\ sub.end \in Nat
      BY <2>1 DEF PaidIn, IInv, TypeOK, Subscription
    <3>2. tasks' = [tasks EXCEPT ![w] = next] /\ UNCHANGED events
      BY <1>3, <2>4 DEF Fetch, IInv, TypeOK
    <3> HIDE DEF sub
    <3>3. next \in Task
      BY <1>0, <3>1 DEF Task
    <3>4. TaskBacked(next, stripe')
      BY <1>0, <2>1, <2>2 DEF TaskBacked, Task
    <3>5. QED
      BY <2>2, <3>2, <3>3, <3>4, TaskSet, StripeUntouched, EventsUntouched, RowUntouched
         DEF IInv, TypeOK
  <2>5. QED
    BY <2>3, <2>4
<1>4. CASE LoadPrevious(w)
  <2> DEFINE next == [task EXCEPT !.seen = row, !.pc = "save"]
  <2>1. next \in Task
    BY <1>0 DEF Task
  <2>2. task.kind = "confirm" /\ UNCHANGED <<now, stripe, events, row, spent>>
    BY <1>0, <1>4 DEF LoadPrevious, TaskBacked
  <2>3. TaskBacked(next, stripe')
    BY <1>0, <2>2 DEF TaskBacked, Task
  <2>4. tasks' = [tasks EXCEPT ![w] = next]
    BY <1>4 DEF LoadPrevious, IInv, TypeOK
  <2>5. QED
    BY <2>1, <2>2, <2>3, <2>4, TaskSet, StripeUntouched, EventsUntouched, RowUntouched
       DEF IInv, TypeOK
<1>5. CASE Upsert(w)
  <2>1. task.sub \in Subs /\ PaidIn(stripe, task.sub) /\ task.kind = "confirm"
    BY <1>0, <1>5 DEF Upsert, TaskBacked
  <2>2. UNCHANGED <<now, stripe, spent>>
    BY <1>5 DEF Upsert
  <2>3. CASE Fail(w) /\ UNCHANGED row
    BY <1>0, <2>2, <2>3, FailKept, StripeUntouched, RowUntouched DEF IInv, TypeOK
  <2>4. CASE /\ task.status # "canceled"
             /\ row' = [NoRow EXCEPT !.sub = task.sub, !.plan = stripe[task.sub].bought,
                                     !.cycle = stripe[task.sub].term, !.status = task.status,
                                     !.end = task.end]
             /\ IF Replaces(task) THEN Advance(w, "replace") ELSE Finish(w)
             /\ UNCHANGED events
    <3>1. stripe[task.sub] \in Subscription
      BY <2>1 DEF IInv, TypeOK
    <3>2. /\ task.status \in {"none", "active", "past_due"} /\ task.end \in Nat
          /\ stripe[task.sub].bought \in Plans
          /\ stripe[task.sub].term \in Cycles \cup {NoCycle}
      BY <1>0, <2>4, <3>1 DEF Task, Subscription
    <3>3. NoRow \in Row
      BY IdleTask DEF Idle, Task
    <3>4. row' \in Row /\ row'.plan = stripe[task.sub].bought /\ row'.pending = NoPlan
      BY <2>1, <2>4, <3>2, <3>3 DEF Row, NoRow
    <3>5. RowBacked'
      <4>1. stripe[task.sub].bought <= stripe[task.sub].bought
        BY <3>2 DEF Plans
      <4>2. QED
        BY <2>1, <2>2, <3>4, <4>1 DEF RowBacked, Backed
    <3>6. tasks' \in [Workers -> Task] /\ TasksBacked'
      <4>1. CASE Finish(w)
        BY <2>2, <4>1, TaskFinished, StripeUntouched
      <4>2. CASE Replaces(task) /\ Advance(w, "replace")
        <5> DEFINE next == [task EXCEPT !.pc = "replace"]
        <5>1. next \in Task
          BY <1>0 DEF Task
        <5>2. task.seen.sub \in Subs
          BY <1>0, <4>2 DEF Replaces, Row
        <5>3. TaskBacked(next, stripe')
          BY <1>0, <2>1, <2>2, <5>2 DEF TaskBacked, Task
        <5>4. tasks' = [tasks EXCEPT ![w] = next]
          BY <4>2 DEF Advance, IInv, TypeOK
        <5>5. QED
          BY <2>2, <5>1, <5>3, <5>4, TaskSet, StripeUntouched
      <4>3. QED
        BY <2>4, <4>1, <4>2
    <3>7. QED
      BY <2>2, <2>4, <3>4, <3>5, <3>6, StripeUntouched, EventsUntouched DEF IInv, TypeOK
  <2>5. QED
    BY <1>5, <2>3, <2>4 DEF Upsert
<1>6. CASE CancelReplaced(w)
  <2> DEFINE old == task.seen.sub
             sub == [stripe[old] EXCEPT !.status = "canceled"]
  <2>1. old \in Subs /\ UNCHANGED <<now, row, spent>> /\ Finish(w)
    BY <1>0, <1>6 DEF CancelReplaced, TaskBacked
  <2>2. /\ stripe' \in [Subs -> Subscription] /\ Keeps(stripe, stripe')
        /\ events' \in Seq(Event) /\ EventsBacked'
    <3>1. CASE UNCHANGED <<stripe, events>>
      BY <3>1, StripeUntouched, EventsUntouched
    <3>2. CASE Held(stripe[old].status) /\ Becomes(old, sub)
      <4>1. sub \in Subscription /\ sub.status = "canceled" /\ sub.bought = stripe[old].bought
        BY <2>1 DEF IInv, TypeOK, Subscription
      <4>2. QED
        BY <2>1, <3>2, <4>1, BecomesKept
    <3>3. QED
      BY <1>6, <3>1, <3>2 DEF CancelReplaced
  <2>3. QED
    BY <2>1, <2>2, RowUntouched, TaskFinished DEF IInv, TypeOK
<1>7. QED
  BY <1>1, <1>2, <1>3, <1>4, <1>5, <1>6 DEF Step

(* An event is delivered, or lost, or a handler dies.                         *)
LEMMA WebhookStep ==
  ASSUME IInv,
         \/ \E w \in Workers, i \in DOMAIN events : Deliver(w, i)
         \/ \E i \in DOMAIN events : Lose(i)
         \/ \E w \in Workers : Crash(w)
  PROVE  IInv'
<1>1. ASSUME NEW w \in Workers, NEW i \in DOMAIN events, Deliver(w, i) PROVE IInv'
  <2>1. UNCHANGED <<now, stripe, spent>>
    BY <1>1 DEF Deliver
  <2>2. events[i] \in Event
    BY ElementOfSeq DEF IInv, TypeOK
  <2>3. /\ stripe' \in [Subs -> Subscription] /\ Keeps(stripe, stripe')
        /\ events' \in Seq(Event) /\ EventsBacked'
    <3>1. events' = RemoveAt(events, i) \/ UNCHANGED events
      BY <1>1 DEF Deliver, HandleCheckoutCompleted, HandleSubscriptionUpdated,
                  HandleSubscriptionDeleted, HandlePaymentFailed, Accept
    <3>2. QED
      BY <2>1, <3>1, EventTaken, StripeUntouched
  <2>4. CASE HandleCheckoutCompleted(w, i)
    <3> DEFINE task == [Idle EXCEPT !.kind = "confirm", !.pc = "fetch",
                                    !.sub = events[i].sub, !.hook = TRUE]
    <3>1. task \in Task /\ events[i].sub \in Subs
      BY <2>2, IdleTask DEF Task, Event, TaskKinds, RequestKinds
    <3>2. PaidIn(stripe, events[i].sub)
      BY <2>4 DEF HandleCheckoutCompleted, IInv, EventsBacked, EventBacked
    <3>3. TaskBacked(task, stripe')
      BY <2>1, <3>1, <3>2 DEF TaskBacked, Idle
    <3>4. tasks' = [tasks EXCEPT ![w] = task] /\ UNCHANGED row
      BY <2>4 DEF HandleCheckoutCompleted, Begin
    <3>5. QED
      BY <2>1, <2>3, <3>1, <3>3, <3>4, TaskSet, RowUntouched DEF IInv, TypeOK
  <2>5. CASE HandleSubscriptionUpdated(w, i) \/ HandleSubscriptionDeleted(w, i)
    <3>1. row \in Row /\ now \in Nat /\ events[i].end \in Nat
      BY <2>2 DEF IInv, TypeOK, Event
    <3>2. events[i].type = "updated" => events[i].status \in {"active", "past_due"}
      BY <2>2 DEF IInv, EventsBacked, EventBacked, Event
    <3>3. row' \in Row /\ row'.plan = row.plan /\ row'.pending = row.pending
      <4>1. CASE UNCHANGED row
        BY <3>1, <4>1
      <4>2. CASE /\ events[i].type = "updated"
                 /\ row' = [row EXCEPT !.status = events[i].status, !.end = events[i].end]
        BY <3>1, <3>2, <4>2 DEF Row
      <4>3. CASE row' = [row EXCEPT !.status = "cancelled", !.endDate = now]
        BY <3>1, <4>3 DEF Row
      <4>4. QED
        BY <2>5, <4>1, <4>2, <4>3
           DEF HandleSubscriptionUpdated, HandleSubscriptionDeleted, Ended
    <3>4. UNCHANGED <<stripe, tasks>> /\ RowBacked'
      BY <2>1, <2>5, <3>3 DEF HandleSubscriptionUpdated, HandleSubscriptionDeleted,
                              IInv, RowBacked
    <3>5. QED
      BY <2>1, <2>3, <3>3, <3>4, TasksUntouched DEF IInv, TypeOK
  <2>6. CASE HandlePaymentFailed(w, i)
    <3>1. CASE UNCHANGED tasks
      BY <2>1, <2>3, <2>6, <3>1, RowUntouched, TasksUntouched
         DEF HandlePaymentFailed, IInv, TypeOK
    <3>2. CASE ~UNCHANGED tasks
      <4> DEFINE task == [Idle EXCEPT !.kind = "failed", !.pc = "save",
                                      !.sub = events[i].sub, !.hook = TRUE]
      <4>1. task \in Task /\ events[i].sub \in Subs
        BY <2>2, IdleTask DEF Task, Event, TaskKinds, RequestKinds
      <4>2. TaskBacked(task, stripe')
        BY <4>1 DEF TaskBacked, Idle
      <4>3. tasks' = [tasks EXCEPT ![w] = task] /\ UNCHANGED row
        BY <2>6, <3>2 DEF HandlePaymentFailed, Begin
      <4>4. QED
        BY <2>1, <2>3, <4>1, <4>2, <4>3, TaskSet, RowUntouched DEF IInv, TypeOK
    <3>3. QED
      BY <3>1, <3>2
  <2>7. QED
    BY <1>1, <2>4, <2>5, <2>6 DEF Deliver
<1>2. ASSUME NEW i \in DOMAIN events, Lose(i) PROVE IInv'
  <2>1. UNCHANGED <<now, stripe, row, tasks, spent>> /\ events' = RemoveAt(events, i)
    BY <1>2 DEF Lose
  <2>2. QED
    BY <2>1, EventTaken, StripeUntouched, RowUntouched, TasksUntouched DEF IInv, TypeOK
<1>3. ASSUME NEW w \in Workers, Crash(w) PROVE IInv'
  <2>1. UNCHANGED <<now, stripe, row, spent>> /\ Fail(w) /\ tasks[w].hook \in BOOLEAN
    BY <1>3 DEF Crash, IInv, TypeOK, Task
  <2>2. QED
    BY <2>1, FailKept, StripeUntouched, RowUntouched DEF IInv, TypeOK
<1>4. QED
  BY <1>1, <1>2, <1>3

(* Every step keeps the inductive invariant.                                  *)
THEOREM NextBacked == IInv /\ [Next]_vars => IInv'
<1> SUFFICES ASSUME IInv, [Next]_vars PROVE IInv'
  OBVIOUS
<1>1. CASE Next
  BY <1>1, StripeStep, MemberStep, HandlerStep, WebhookStep DEF Next
<1>2. CASE UNCHANGED vars
  BY <1>2, StripeUntouched, EventsUntouched, RowUntouched, TasksUntouched
     DEF vars, IInv, TypeOK
<1>3. QED
  BY <1>1, <1>2

(* Every reachable state satisfies the inductive invariant.                   *)
THEOREM Invariant == Spec => []IInv
  BY InitBacked, NextBacked, PTL DEF Spec

(* The rows, the subscriptions, the queue and the tasks keep their types.     *)
THEOREM TypeCorrect == Spec => []TypeOK
<1>1. IInv => TypeOK
  BY DEF IInv
<1>2. QED
  BY <1>1, Invariant, PTL

(* The plan on the row is never dearer than the dearest plan paid for, for    *)
(* any number of subscriptions and handlers and under every fault.            *)
THEOREM PlanPaidFor == Spec => []PlanWasPaidFor
<1>1. IInv => PlanWasPaidFor
  BY DEF IInv, RowBacked, Backed, PaidIn, PlanWasPaidFor, Paid
<1>2. QED
  BY <1>1, Invariant, PTL

(* A subscription changes at Stripe, and its event joins the queue.           *)
Turn(s, sub, e) ==
  /\ Held(stripe[s].status)
  /\ sub.status \in {"active", "past_due", "canceled"} /\ sub.bought = stripe[s].bought
  /\ stripe' = [stripe EXCEPT ![s] = sub]
  /\ e \in Event /\ e.sub = s
  /\ e.type = IF sub.status = "canceled" THEN "deleted" ELSE "updated"
  /\ events' = Append(events, e)

(* A handler's next step, when it has one.                                    *)
Moves(w, task) == tasks' = [tasks EXCEPT ![w] = task]

(* A change of a running subscription and its event.                          *)
LEMMA BecomesTurn ==
  ASSUME IInv, NEW s \in Subs, NEW sub, sub.end \in Nat, Held(stripe[s].status),
         sub.status \in {"active", "past_due", "canceled"}, sub.bought = stripe[s].bought,
         Becomes(s, sub)
  PROVE  \E e : Turn(s, sub, e)
<1> DEFINE e == EventOf(IF sub.status = "canceled" THEN "deleted" ELSE "updated", s, sub)
<1>1. /\ e \in Event /\ e.sub = s
      /\ e.type = IF sub.status = "canceled" THEN "deleted" ELSE "updated"
  BY EventTyped
<1>2. Turn(s, sub, e)
  BY <1>1 DEF Turn, Becomes
<1>3. QED
  BY <1>2

(* What Stripe does by itself to a running subscription does not change what  *)
(* it is going to bill.                                                       *)
LEMMA StripeTurns ==
  ASSUME IInv, NEW s \in Subs, Renew(s) \/ Retry(s) \/ Lapse(s)
  PROVE  /\ UNCHANGED <<now, row, tasks>>
         /\ \E sub \in Subscription :
              /\ \E e : Turn(s, sub, e)
              /\ sub.plan = stripe[s].plan /\ sub.renews = stripe[s].renews
<1>1. stripe[s] \in Subscription /\ UNCHANGED <<now, row, tasks>>
  BY DEF IInv, TypeOK, Renew, Retry, Lapse
<1>2. PICK sub \in Subscription :
        /\ Becomes(s, sub) /\ Held(stripe[s].status)
        /\ sub.status \in {"active", "past_due", "canceled"} /\ sub.bought = stripe[s].bought
        /\ sub.plan = stripe[s].plan /\ sub.renews = stripe[s].renews
  <2>1. CASE Renew(s)
    <3> DEFINE end == stripe[s].end + stripe[s].cycle
    <3>1. end \in Nat
      BY <1>1, CyclesAreNumbers DEF Subscription
    <3> HIDE DEF end
    <3> DEFINE sub == [stripe[s] EXCEPT !.end = end]
    <3>2. Becomes(s, sub) /\ stripe[s].status = "active" /\ Held(stripe[s].status)
      BY <2>1 DEF Renew, end, Held
    <3>3. /\ sub \in Subscription /\ sub.status = "active" /\ sub.bought = stripe[s].bought
          /\ sub.plan = stripe[s].plan /\ sub.renews = stripe[s].renews
      BY <1>1, <3>1, <3>2 DEF Subscription
    <3>4. QED
      BY <3>2, <3>3
  <2>2. CASE Retry(s)
    <3>1. PICK status \in {"active", "canceled"} :
            Becomes(s, [stripe[s] EXCEPT !.status = status])
      BY <2>2 DEF Retry
    <3> DEFINE sub == [stripe[s] EXCEPT !.status = status]
    <3>2. /\ sub \in Subscription /\ sub.status = status /\ sub.bought = stripe[s].bought
          /\ sub.plan = stripe[s].plan /\ sub.renews = stripe[s].renews
      BY <1>1 DEF Subscription
    <3>3. QED
      BY <2>2, <3>1, <3>2 DEF Retry, Held
  <2>3. CASE Lapse(s)
    <3> DEFINE sub == [stripe[s] EXCEPT !.status = "canceled"]
    <3>1. /\ sub \in Subscription /\ sub.status = "canceled" /\ sub.bought = stripe[s].bought
          /\ sub.plan = stripe[s].plan /\ sub.renews = stripe[s].renews
      BY <1>1 DEF Subscription
    <3>2. QED
      BY <2>3, <3>1 DEF Lapse, Due
  <2>4. QED
    BY <2>1, <2>2, <2>3
<1>3. sub.end \in Nat
  BY DEF Subscription
<1>4. QED
  BY <1>1, <1>2, <1>3, BecomesTurn

(* A checkout is paid for.                                                    *)
LEMMA Pays ==
  ASSUME IInv, NEW s \in Subs, Pay(s)
  PROVE  /\ UNCHANGED <<now, row, tasks>> /\ stripe[s].status = "offered"
         /\ \E sub \in Subscription, e \in Event :
              /\ stripe' = [stripe EXCEPT ![s] = sub] /\ sub.status = "active"
              /\ sub.bought = stripe[s].bought /\ sub.plan = stripe[s].plan /\ sub.renews
              /\ events' = Append(events, e) /\ e.type = "checkout" /\ e.sub = s
<1>1. stripe[s] \in Subscription /\ now \in Nat
  BY DEF IInv, TypeOK
<1> DEFINE end == now + stripe[s].cycle
<1>2. end \in Nat
  BY <1>1, CyclesAreNumbers
<1> HIDE DEF end
<1> DEFINE sub == [stripe[s] EXCEPT !.status = "active", !.renews = TRUE, !.end = end]
<1>3. /\ sub \in Subscription /\ sub.status = "active" /\ sub.bought = stripe[s].bought
      /\ sub.plan = stripe[s].plan /\ sub.renews /\ sub.end \in Nat
  BY <1>1, <1>2 DEF Subscription
<1>4. /\ UNCHANGED <<now, row, tasks>> /\ stripe[s].status = "offered"
      /\ stripe' = [stripe EXCEPT ![s] = sub]
      /\ events' = Append(events, EventOf("checkout", s, sub))
  BY DEF Pay, end
<1> HIDE DEF sub
<1>5. /\ EventOf("checkout", s, sub) \in Event /\ EventOf("checkout", s, sub).type = "checkout"
      /\ EventOf("checkout", s, sub).sub = s
  BY <1>3, EventTyped
<1>6. QED
  BY <1>3, <1>4, <1>5

(* A renewal's charge fails: two events join the queue.                       *)
LEMMA Declines ==
  ASSUME IInv, NEW s \in Subs, Decline(s)
  PROVE  /\ UNCHANGED <<now, row, tasks>> /\ stripe[s].status = "active"
         /\ \E sub \in Subscription, e \in Event, f \in Event :
              /\ stripe' = [stripe EXCEPT ![s] = sub] /\ sub.status = "past_due"
              /\ sub.bought = stripe[s].bought /\ sub.plan = stripe[s].plan
              /\ sub.renews = stripe[s].renews
              /\ events' = Append(Append(events, e), f)
              /\ e.type = "updated" /\ f.type = "failed" /\ e.sub = s /\ f.sub = s
<1>1. stripe[s] \in Subscription /\ events \in Seq(Event)
  BY DEF IInv, TypeOK
<1> DEFINE end == stripe[s].end + stripe[s].cycle
<1>2. end \in Nat
  BY <1>1, CyclesAreNumbers DEF Subscription
<1> HIDE DEF end
<1> DEFINE sub == [stripe[s] EXCEPT !.status = "past_due", !.end = end]
           e == EventOf("updated", s, sub)
           f == EventOf("failed", s, sub)
<1>3. /\ sub \in Subscription /\ sub.status = "past_due" /\ sub.bought = stripe[s].bought
      /\ sub.plan = stripe[s].plan /\ sub.renews = stripe[s].renews /\ sub.end \in Nat
  BY <1>1, <1>2 DEF Subscription
<1>4. /\ UNCHANGED <<now, row, tasks>> /\ stripe[s].status = "active"
      /\ stripe' = [stripe EXCEPT ![s] = sub] /\ events' = events \o <<e, f>>
  BY DEF Decline, end
<1> HIDE DEF sub
<1>5. /\ e \in Event /\ e.type = "updated" /\ e.sub = s
      /\ f \in Event /\ f.type = "failed" /\ f.sub = s
  BY <1>3, EventTyped
<1> HIDE DEF e, f
<1>6. events' = Append(Append(events, e), f)
  BY <1>1, <1>4, <1>5
<1>7. QED
  BY <1>3, <1>4, <1>5, <1>6

(* A request calls Stripe, or fails to.                                       *)
LEMMA Calls ==
  ASSUME IInv, NEW w \in Workers, CallStripe(w)
  PROVE  /\ UNCHANGED <<now, row>> /\ tasks[w].pc = "stripe" /\ tasks[w].seen.sub \in Subs
         /\ \/ /\ \E e : Turn(tasks[w].seen.sub, Amended(tasks[w]), e)
               /\ Moves(w, [tasks[w] EXCEPT !.pc = "save"])
            \/ Moves(w, Idle) /\ UNCHANGED <<stripe, events>>
<1>1. /\ tasks[w] \in Task /\ TaskBacked(tasks[w], stripe) /\ tasks[w].pc = "stripe"
      /\ UNCHANGED <<now, row>>
  BY DEF CallStripe, IInv, TypeOK, TasksBacked
<1>2. tasks[w].seen.sub \in Subs
  BY <1>1 DEF TaskBacked
<1>3. CASE /\ Held(stripe[tasks[w].seen.sub].status)
           /\ Becomes(tasks[w].seen.sub, Amended(tasks[w])) /\ Advance(w, "save")
  <2>1. /\ Amended(tasks[w]) \in Subscription
        /\ Amended(tasks[w]).status \in {"active", "past_due", "canceled"}
        /\ Amended(tasks[w]).bought = stripe[tasks[w].seen.sub].bought
    BY <1>1, <1>2, <1>3, AmendedFits
  <2>2. Amended(tasks[w]).end \in Nat
    BY <2>1 DEF Subscription
  <2>3. \E e : Turn(tasks[w].seen.sub, Amended(tasks[w]), e)
    BY <1>2, <1>3, <2>1, <2>2, BecomesTurn
  <2>4. Moves(w, [tasks[w] EXCEPT !.pc = "save"])
    BY <1>3 DEF Advance, Moves, IInv, TypeOK
  <2>5. QED
    BY <1>1, <1>2, <2>3, <2>4
<1>4. CASE Finish(w) /\ UNCHANGED <<stripe, events>>
  BY <1>1, <1>2, <1>4 DEF Finish, Moves
<1>5. QED
  BY <1>3, <1>4 DEF CallStripe

(* A subscription an upgrade replaces is stopped, if it is not over.          *)
LEMMA Replacing ==
  ASSUME IInv, NEW w \in Workers, CancelReplaced(w)
  PROVE  /\ UNCHANGED <<now, row>> /\ tasks[w].pc = "replace" /\ tasks[w].seen.sub \in Subs
         /\ Moves(w, Idle)
         /\ \/ \E sub \in Subscription :
                 /\ \E e : Turn(tasks[w].seen.sub, sub, e)
                 /\ sub.status = "canceled" /\ sub.plan = stripe[tasks[w].seen.sub].plan
                 /\ sub.renews = stripe[tasks[w].seen.sub].renews
            \/ /\ UNCHANGED <<stripe, events>>
               /\ ~Held(stripe[tasks[w].seen.sub].status) \/ "outage" \in Faults
<1> DEFINE old == tasks[w].seen.sub
           sub == [stripe[old] EXCEPT !.status = "canceled"]
<1>1. /\ UNCHANGED <<now, row>> /\ tasks[w].pc = "replace" /\ Moves(w, Idle)
      /\ \/ Held(stripe[old].status) /\ Becomes(old, sub)
         \/ /\ UNCHANGED <<stripe, events>>
            /\ ~Held(stripe[old].status) \/ "outage" \in Faults
  BY DEF CancelReplaced, Finish, Moves
<1>2. old \in Subs /\ stripe[old] \in Subscription
  BY <1>1 DEF IInv, TypeOK, TasksBacked, TaskBacked
<1>3. /\ sub \in Subscription /\ sub.status = "canceled" /\ sub.bought = stripe[old].bought
      /\ sub.plan = stripe[old].plan /\ sub.renews = stripe[old].renews /\ sub.end \in Nat
  BY <1>2 DEF Subscription
<1> HIDE DEF sub
<1>4. CASE Held(stripe[old].status) /\ Becomes(old, sub)
  <2>1. \E e : Turn(old, sub, e)
    BY <1>2, <1>3, <1>4, BecomesTurn
  <2>2. QED
    BY <1>1, <1>2, <1>3, <2>1
<1>5. QED
  BY <1>1, <1>2, <1>4

(* A handler that fails, whose event Stripe may send again.                   *)
LEMMA Fails ==
  ASSUME IInv, NEW w \in Workers, Fail(w)
  PROVE  /\ Moves(w, Idle)
         /\ \/ UNCHANGED events
            \/ \E e \in Event :
                 /\ e.type = (IF tasks[w].kind = "failed" THEN "failed" ELSE "checkout")
                 /\ e.sub = tasks[w].sub /\ tasks[w].hook
                 /\ \A i \in DOMAIN events : events[i].type # e.type \/ events[i].sub # e.sub
                 /\ tasks[w].sub \in Subs
                 /\ events' = Append(events, e)
<1> DEFINE task == tasks[w]
           type == IF task.kind = "failed" THEN "failed" ELSE "checkout"
           e == EventOf(type, task.sub, stripe[task.sub])
<1>1. /\ Moves(w, Idle)
      /\ \/ UNCHANGED events
         \/ /\ task.hook /\ events' = Append(events, e)
            /\ \A i \in DOMAIN events : events[i].type # type \/ events[i].sub # task.sub
  BY DEF Fail, Finish, Moves
<1>2. CASE /\ task.hook /\ events' = Append(events, e)
           /\ \A i \in DOMAIN events : events[i].type # type \/ events[i].sub # task.sub
  <2>1. TaskBacked(task, stripe) /\ task \in Task
    BY DEF IInv, TasksBacked, TypeOK
  <2>2. task.sub \in Subs
    BY <1>2, <2>1 DEF TaskBacked, Task
  <2>3. stripe[task.sub].end \in Nat
    BY <2>2 DEF IInv, TypeOK, Subscription
  <2>4. e \in Event /\ e.type = type /\ e.sub = task.sub
    BY <2>2, <2>3, EventTyped
  <2> HIDE DEF e
  <2>5. QED
    BY <1>1, <1>2, <2>2, <2>4
<1>3. QED
  BY <1>1, <1>2

--------------------------------------------------------------------------------
(* Where handlers do not overlap, at most one is at work, and what it has     *)
(* read is still so: webhooks wait for it.                                    *)
Calling == {"schedule", "unschedule", "cancel", "cancelNow", "resume", "cycle"}

(* What a task holds of the row r while nothing else can write it.            *)
Current(task, r, date) ==
  /\ task.kind = "idle" => task = Idle
  /\ task.pc = "stripe" => task.kind \in Calling
  /\ task.pc \in {"stripe", "save"} /\ task.kind # "failed" => task.seen = r
  /\ task.kind = "failed" \/ task.pc = "replace" => task.sub = r.sub
  /\ task.pc = "replace" => task.seen.sub # task.sub
  /\ task.kind \notin {"idle", "confirm"} => r.sub # NoSub
  /\ task.kind = "look" => r.pending # NoPlan /\ r.changeAt <= date
  /\ task.kind = "schedule" => task.plan <= r.plan

(* On the row, no plan dearer than what was bought, no queued one dearer      *)
(* still.                                                                     *)
RowWithin(r, held) ==
  /\ r.sub = NoSub => r.pending = NoPlan
  /\ r.sub # NoSub => PaidIn(held, r.sub) /\ r.plan <= held[r.sub].bought
  /\ r.pending # NoPlan => r.pending <= r.plan

OneAtWork == \A w, v \in Workers : tasks[w] # Idle /\ tasks[v] # Idle => w = v

AllCurrent == \A w \in Workers : Current(tasks[w], row, now)

AloneInv == IInv /\ OneAtWork /\ AllCurrent /\ RowWithin(row, stripe)

(* A worker with nothing to do holds nothing of any row.                      *)
LEMMA IdleIsCurrent == \A r, date : Current(Idle, r, date)
  BY DEF Idle, Current, Calling

(* While one handler is at work, the others are idle.                         *)
LEMMA OthersIdle ==
  ASSUME AloneInv, NEW w \in Workers, tasks[w].pc # "idle" \/ tasks[w].kind # "idle"
  PROVE  tasks[w] # Idle /\ \A v \in Workers : v # w => tasks[v] = Idle
<1>1. tasks[w] # Idle
  <2>1. Idle.pc = "idle" /\ Idle.kind = "idle"
    BY DEF Idle
  <2>2. QED
    BY <2>1
<1>2. QED
  BY <1>1 DEF AloneInv, OneAtWork

(* A handler starts when none is at work.                                     *)
LEMMA AllIdle ==
  ASSUME "overlap" \notin Faults, NEW w \in Workers, CanStart(w)
  PROVE  \A v \in Workers : tasks[v] = Idle
  BY DEF CanStart

(* The only handler at work moves on.                                         *)
LEMMA OneMoves ==
  ASSUME IInv, NEW w \in Workers, \A v \in Workers : v # w => tasks[v] = Idle,
         NEW task, Moves(w, task), Current(task, row', now')
  PROVE  OneAtWork' /\ AllCurrent'
<1>1. \A v \in Workers : tasks'[v] = IF v = w THEN task ELSE Idle
  BY DEF Moves, IInv, TypeOK
<1>2. OneAtWork'
  BY <1>1 DEF OneAtWork
<1>3. AllCurrent'
  BY <1>1, IdleIsCurrent DEF AllCurrent
<1>4. QED
  BY <1>2, <1>3

(* With no handler at work, the row may change under none.                    *)
LEMMA NoneMoves ==
  ASSUME \A v \in Workers : tasks[v] = Idle, UNCHANGED tasks
  PROVE  OneAtWork' /\ AllCurrent'
  BY IdleIsCurrent DEF OneAtWork, AllCurrent

(* What a task holds of the row is not lost as time passes.                   *)
LEMMA RowStands ==
  ASSUME AloneInv, UNCHANGED <<row, tasks>>, now' = now \/ now' = now + 1
  PROVE  OneAtWork' /\ AllCurrent'
<1>1. OneAtWork'
  BY DEF AloneInv, OneAtWork
<1>2. row.changeAt \in Nat /\ now \in Nat
  BY DEF AloneInv, IInv, TypeOK, Row
<1>3. \A w \in Workers : Current(tasks[w], row, now')
  BY <1>2 DEF AloneInv, AllCurrent, Current
<1>4. QED
  BY <1>1, <1>3 DEF AllCurrent

(* A row is within what was bought as long as no payment is taken back.       *)
LEMMA WithinKept ==
  ASSUME IInv, NEW before, NEW after, Keeps(before, after), RowWithin(row, before)
  PROVE  RowWithin(row, after)
<1>1. row.sub # NoSub => row.sub \in Subs
  BY DEF IInv, TypeOK, Row
<1>2. QED
  BY <1>1 DEF RowWithin, Keeps

(* A subscription's turn takes no payment back.                               *)
LEMMA TurnKeeps ==
  ASSUME IInv, NEW s \in Subs, NEW sub \in Subscription, NEW e, Turn(s, sub, e)
  PROVE  Keeps(stripe, stripe')
  BY StripeSet DEF Turn, PaidIn

(* Nor does any other step.                                                   *)
LEMMA StepKeeps == ASSUME IInv, [Next]_vars PROVE Keeps(stripe, stripe')
<1>1. CASE UNCHANGED stripe
  BY <1>1, StripeUntouched
<1>2. ASSUME NEW s \in Subs, Pay(s) PROVE Keeps(stripe, stripe')
  BY <1>2, Pays, StripeSet DEF PaidIn
<1>3. ASSUME NEW s \in Subs, Decline(s) PROVE Keeps(stripe, stripe')
  BY <1>3, Declines, StripeSet
<1>4. ASSUME NEW s \in Subs, Renew(s) \/ Retry(s) \/ Lapse(s) PROVE Keeps(stripe, stripe')
  BY <1>4, StripeTurns, TurnKeeps
<1>5. ASSUME NEW s \in Subs, NEW p \in Plans, NEW c \in Cycles, CreateCheckoutSession(s, p, c)
      PROVE  Keeps(stripe, stripe')
  BY <1>5 DEF CreateCheckoutSession, Keeps, PaidIn, IInv, TypeOK
<1>6. ASSUME NEW w \in Workers, CallStripe(w) PROVE Keeps(stripe, stripe')
  <2>1. tasks[w].seen.sub \in Subs /\ tasks[w] \in Task /\ TaskBacked(tasks[w], stripe)
    BY <1>6, Calls DEF IInv, TypeOK, TasksBacked
  <2>2. ASSUME NEW e, Turn(tasks[w].seen.sub, Amended(tasks[w]), e)
        PROVE  Keeps(stripe, stripe')
    BY <2>1, <2>2, StripeSet, AmendedFits, TurnKeeps DEF Turn
  <2>3. QED
    BY <1>6, <2>2, Calls, StripeUntouched
<1>7. ASSUME NEW w \in Workers, CancelReplaced(w) PROVE Keeps(stripe, stripe')
  <2>1. tasks[w].seen.sub \in Subs
    BY <1>7, Replacing
  <2>2. QED
    BY <1>7, <2>1, Replacing, TurnKeeps, StripeUntouched
<1>8. CASE Next
  <2>1. CASE Stripe
    BY <1>1, <1>2, <1>3, <1>4, <2>1 DEF Stripe, Tick
  <2>2. CASE Member
    BY <1>1, <1>5, <2>2
       DEF Member, ScheduleChange, CancelScheduledChange, CancelSubscription,
           ResumeSubscription, ChangeBillingCycle, GetCurrentSubscription,
           SyncCheckoutSession, Asks
  <2>3. ASSUME NEW w \in Workers, Step(w) \/ Crash(w) PROVE Keeps(stripe, stripe')
    BY <1>1, <1>6, <1>7, <2>3 DEF Step, Save, Fetch, LoadPrevious, Upsert, Crash
  <2>4. QED
    BY <1>1, <1>8, <2>1, <2>2, <2>3 DEF Next, Deliver, Lose
<1>9. QED
  BY <1>1, <1>8 DEF vars

(* The task a request of the member begins.                                   *)
Request(task) ==
  /\ task.kind \in Requests /\ ~task.hook /\ task.status = "none"
  /\ \/ /\ task.kind \in Calling /\ task.pc = "stripe" /\ task.seen = row /\ RowExists
        /\ task.kind = "schedule" => task.plan <= row.plan
     \/ /\ task.kind = "look" /\ task.pc = "save" /\ task.seen = row
        /\ row.pending # NoPlan /\ row.changeAt <= now
     \/ /\ task.kind = "confirm" /\ task.pc = "fetch"
        /\ task.sub \in Subs /\ PaidIn(stripe, task.sub)

(* What the member does: open a checkout, or have a handler begin.            *)
LEMMA Begins ==
  ASSUME IInv, "overlap" \notin Faults, Member
  PROVE  \/ \E s \in Subs, p \in Plans, c \in Cycles : CreateCheckoutSession(s, p, c)
         \/ /\ UNCHANGED <<now, stripe, events, row>>
            /\ \A w \in Workers : tasks[w] = Idle
            /\ \E w \in Workers : \E task : Moves(w, task) /\ Request(task)
<1> USE DEF Moves, Begin, Asks
<1>1. ASSUME NEW w \in Workers, NEW p \in Plans, NEW c \in Cycles, ScheduleChange(w, p, c)
      PROVE  \E task : Moves(w, task) /\ Request(task)
  <2> DEFINE task == [Idle EXCEPT !.kind = "schedule", !.pc = "stripe", !.plan = p,
                                  !.cycle = c, !.seen = row]
  <2>1. Moves(w, task) /\ Request(task)
    BY <1>1 DEF ScheduleChange, Schedules, Request, Idle, Calling
  <2>2. QED
    BY <2>1
<1>2. ASSUME NEW w \in Workers, NEW kind \in Calling \ {"schedule"}, NEW c, Asks(w, kind),
             RowExists,
             \/ Begin(w, [Idle EXCEPT !.kind = kind, !.pc = "stripe", !.seen = row])
             \/ Begin(w, [Idle EXCEPT !.kind = kind, !.pc = "stripe", !.cycle = c, !.seen = row])
      PROVE  \E task : Moves(w, task) /\ Request(task)
  <2>1. ASSUME NEW task, Moves(w, task),
               \/ task = [Idle EXCEPT !.kind = kind, !.pc = "stripe", !.seen = row]
               \/ task = [Idle EXCEPT !.kind = kind, !.pc = "stripe", !.cycle = c, !.seen = row]
        PROVE  Request(task)
    BY <1>2, <2>1 DEF Request, Idle, Calling
  <2>2. QED
    BY <1>2, <2>1
<1>3. ASSUME NEW w \in Workers, GetCurrentSubscription(w)
      PROVE  \E task : Moves(w, task) /\ Request(task)
  <2> DEFINE task == [Idle EXCEPT !.kind = "look", !.pc = "save", !.seen = row]
  <2>1. Moves(w, task) /\ Request(task)
    BY <1>3 DEF GetCurrentSubscription, ChangeIsDue, Request, Idle
  <2>2. QED
    BY <2>1
<1>4. ASSUME NEW w \in Workers, NEW s \in Subs, SyncCheckoutSession(w, s)
      PROVE  \E task : Moves(w, task) /\ Request(task)
  <2> DEFINE task == [Idle EXCEPT !.kind = "confirm", !.pc = "fetch", !.sub = s]
  <2>1. Moves(w, task) /\ Request(task)
    BY <1>4 DEF SyncCheckoutSession, IsSettled, Paid, PaidIn, Request, Idle
  <2>2. QED
    BY <2>1
<1>5. ASSUME NEW w \in Workers, NEW kind, Asks(w, kind)
      PROVE  UNCHANGED <<now, stripe, events, row>> /\ \A v \in Workers : tasks[v] = Idle
  BY <1>5, AllIdle
<1> USE DEF Calling
<1>6. ASSUME NEW w \in Workers, NEW immediately \in BOOLEAN, CancelSubscription(w, immediately)
      PROVE  \E kind \in Calling : Asks(w, kind) /\ \E task : Moves(w, task) /\ Request(task)
  <2> DEFINE kind == IF immediately THEN "cancelNow" ELSE "cancel"
  <2>1. kind \in Calling \ {"schedule"}
    OBVIOUS
  <2>2. Asks(w, kind) /\ RowExists
        /\ Begin(w, [Idle EXCEPT !.kind = kind, !.pc = "stripe", !.seen = row])
    BY <1>6 DEF CancelSubscription
  <2>3. QED
    BY ONLY <2>1, <2>2, <1>2
<1>7. ASSUME NEW w \in Workers,
             CancelScheduledChange(w) \/ ResumeSubscription(w)
             \/ \E c \in Cycles : ChangeBillingCycle(w, c)
      PROVE  \E kind \in Calling : Asks(w, kind) /\ \E task : Moves(w, task) /\ Request(task)
  BY <1>7, <1>2 DEF CancelScheduledChange, ResumeSubscription, ChangeBillingCycle
<1>8. QED
  BY <1>1, <1>3, <1>4, <1>5, <1>6, <1>7
     DEF Member, ScheduleChange, GetCurrentSubscription, SyncCheckoutSession

(* At first no handler is at work, and the row is empty.                      *)
LEMMA InitAlone == Init => AloneInv
<1> SUFFICES ASSUME Init PROVE AloneInv
  OBVIOUS
<1>1. IInv
  BY InitBacked
<1>2. \A w \in Workers : tasks[w] = Idle
  BY DEF Init
<1>3. OneAtWork /\ AllCurrent
  BY <1>2, IdleIsCurrent DEF OneAtWork, AllCurrent
<1>4. RowWithin(row, stripe)
  BY DEF Init, NoRow, RowWithin
<1>5. QED
  BY <1>1, <1>3, <1>4 DEF AloneInv

(* What a handler alone at work writes stays within what was bought.          *)
LEMMA WrittenWithin ==
  ASSUME AloneInv, NEW w \in Workers, tasks[w].kind \in TaskKinds \ {"idle", "confirm"},
         tasks[w].pc = "save"
  PROVE  RowWithin(Written(tasks[w]), stripe) /\ Written(tasks[w]).sub = row.sub
<1> DEFINE task == tasks[w]
<1>1. /\ row \in Row /\ row.sub # NoSub /\ row.sub \in Subs
      /\ RowWithin(row, stripe) /\ Current(task, row, now)
  BY DEF AloneInv, IInv, TypeOK, Row, AllCurrent, Current
<1>2. /\ row.plan \in 0..2 /\ row.pending \in 0..3 /\ stripe[row.sub].bought \in 0..2
  BY <1>1 DEF AloneInv, IInv, TypeOK, Row, Subscription, Plans, NoPlan
<1>3. CASE task.kind = "schedule"
  <2>1. Written(task) = [row EXCEPT !.pending = task.plan, !.pendingCycle = task.cycle,
                           !.changeAt = task.seen.end, !.cancelled = (task.plan = Free)]
    BY <1>3 DEF Written
  <2>2. task.plan <= row.plan
    BY <1>1, <1>3 DEF Current
  <2>3. QED
    BY <1>1, <2>1, <2>2 DEF RowWithin, Row
<1>4. CASE task.kind = "look"
  <2>1. Written(task) = [NothingQueued(row) EXCEPT !.plan = row.pending,
                                                   !.cycle = task.seen.pendingCycle]
    BY <1>1, <1>4 DEF Written, Current
  <2>2. row.pending # NoPlan /\ row.pending <= row.plan
    BY <1>1, <1>4 DEF Current, RowWithin
  <2>3. /\ Written(task).sub = row.sub /\ Written(task).pending = NoPlan
        /\ Written(task).plan = row.pending
    BY <1>1, <2>1 DEF NothingQueued, Row
  <2>4. QED
    BY <1>1, <1>2, <2>2, <2>3 DEF RowWithin
<1>5. CASE task.kind = "unschedule"
  <2>1. Written(task) = [NothingQueued(row) EXCEPT !.cancelled = FALSE, !.endDate = NoDate]
    BY <1>5 DEF Written
  <2>2. /\ Written(task).sub = row.sub /\ Written(task).pending = NoPlan
        /\ Written(task).plan = row.plan
    BY <1>1, <2>1 DEF NothingQueued, Row
  <2>3. QED
    BY <1>1, <2>2 DEF RowWithin
<1>6. CASE task.kind \in {"cancel", "cancelNow", "resume", "cycle", "failed"}
  <2>1. /\ Written(task).sub = row.sub /\ Written(task).pending = row.pending
        /\ Written(task).plan = row.plan
    BY <1>1, <1>6 DEF Written, Row
  <2>2. QED
    BY <1>1, <2>1 DEF RowWithin
<1>7. QED
  BY <1>3, <1>4, <1>5, <1>6 DEF TaskKinds, RequestKinds

(* What a webhook writes at once is the status and the dates of the row.      *)
LEMMA Delivered ==
  ASSUME IInv, "overlap" \notin Faults, NEW w \in Workers, NEW i \in DOMAIN events,
         Deliver(w, i)
  PROVE  /\ \A v \in Workers : tasks[v] = Idle
         /\ events[i] \in Event /\ EventBacked(events[i], stripe)
         /\ UNCHANGED <<now, stripe>>
         /\ Accept(i)
         /\ \/ /\ events[i].type = "checkout" /\ UNCHANGED row
               /\ \E task : /\ Moves(w, task) /\ task.kind = "confirm" /\ task.pc = "fetch"
                            /\ task.sub = events[i].sub /\ task.hook /\ task.status = "none"
            \/ /\ events[i].type = "updated" /\ UNCHANGED tasks
               /\ row' = IF row.sub = events[i].sub
                         THEN [row EXCEPT !.status = events[i].status, !.end = events[i].end]
                         ELSE row
            \/ /\ events[i].type = "deleted" /\ UNCHANGED tasks
               /\ row' = IF row.sub = events[i].sub THEN Ended(row) ELSE row
            \/ /\ events[i].type = "failed" /\ UNCHANGED row
               /\ \/ UNCHANGED tasks
                  \/ /\ row.sub = events[i].sub
                     /\ \E task : /\ Moves(w, task) /\ task.kind = "failed" /\ task.pc = "save"
                                  /\ task.sub = events[i].sub /\ task.status = "none"
<1>1. events[i] \in Event /\ EventBacked(events[i], stripe)
  BY ElementOfSeq DEF IInv, TypeOK, EventsBacked
<1>2. (\A v \in Workers : tasks[v] = Idle) /\ UNCHANGED <<now, stripe>>
  BY AllIdle DEF Deliver
<1>3. CASE HandleCheckoutCompleted(w, i)
  <2> DEFINE task == [Idle EXCEPT !.kind = "confirm", !.pc = "fetch", !.sub = events[i].sub,
                                  !.hook = TRUE]
  <2>1. /\ Moves(w, task) /\ task.kind = "confirm" /\ task.pc = "fetch"
        /\ task.sub = events[i].sub /\ task.hook /\ task.status = "none"
    BY <1>3 DEF HandleCheckoutCompleted, Begin, Moves, Idle
  <2>2. QED
    BY <1>1, <1>2, <1>3, <2>1 DEF HandleCheckoutCompleted
<1>4. CASE HandleSubscriptionUpdated(w, i)
  BY <1>1, <1>2, <1>4 DEF HandleSubscriptionUpdated
<1>5. CASE HandleSubscriptionDeleted(w, i)
  BY <1>1, <1>2, <1>5 DEF HandleSubscriptionDeleted
<1>6. CASE HandlePaymentFailed(w, i)
  <2> DEFINE task == [Idle EXCEPT !.kind = "failed", !.pc = "save",
                                  !.sub = events[i].sub, !.hook = TRUE]
  <2>1. task.kind = "failed" /\ task.pc = "save" /\ task.sub = events[i].sub
        /\ task.status = "none"
    BY DEF Idle
  <2>2. \/ Accept(i) /\ UNCHANGED tasks
        \/ row.sub = events[i].sub /\ Moves(w, task) /\ Accept(i)
    BY <1>6 DEF HandlePaymentFailed, Begin, Moves, Accept
  <2> HIDE DEF task
  <2>3. QED
    BY <1>1, <1>2, <1>6, <2>1, <2>2 DEF HandlePaymentFailed
<1>7. QED
  BY <1>3, <1>4, <1>5, <1>6 DEF Deliver

(* Every step leaves at most one handler at work, and what it has read so.    *)
LEMMA AloneStep ==
  ASSUME AloneInv, "overlap" \notin Faults, [Next]_vars
  PROVE  AloneInv'
<1>1. IInv /\ IInv' /\ Keeps(stripe, stripe') /\ RowWithin(row, stripe)
  BY NextBacked, StepKeeps DEF AloneInv
<1>2. \A w \in Workers :
        tasks[w] \in Task /\ TaskBacked(tasks[w], stripe) /\ Current(tasks[w], row, now)
  BY <1>1 DEF AloneInv, IInv, TypeOK, TasksBacked, AllCurrent
<1>3. row \in Row
  BY <1>1 DEF IInv, TypeOK
<1>4. UNCHANGED row => RowWithin(row, stripe)'
  BY <1>1, WithinKept
<1>5. CASE UNCHANGED <<row, tasks>> /\ (now' = now \/ now' = now + 1)
  BY <1>1, <1>4, <1>5, RowStands DEF AloneInv
<1>6. ASSUME Stripe PROVE AloneInv'
  BY <1>1, <1>5, <1>6, Pays, Declines, StripeTurns DEF Stripe, Tick
<1>7. ASSUME Member PROVE AloneInv'
  <2>1. CASE \E s \in Subs, p \in Plans, c \in Cycles : CreateCheckoutSession(s, p, c)
    BY <1>5, <2>1 DEF CreateCheckoutSession
  <2>2. ASSUME NEW w \in Workers, NEW task, Moves(w, task), Request(task),
               UNCHANGED <<now, stripe, events, row>>, \A v \in Workers : tasks[v] = Idle
        PROVE  AloneInv'
    <3>1. row.pending # NoPlan => row.sub # NoSub
      BY <1>1 DEF RowWithin
    <3>2. Current(task, row, now)
      BY <2>2, <3>1 DEF Request, Current, Calling, RowExists
    <3>3. OneAtWork' /\ AllCurrent'
      BY <1>1, <2>2, <3>2, OneMoves
    <3>4. QED
      BY <1>1, <1>4, <2>2, <3>3 DEF AloneInv
  <2>3. QED
    BY <1>1, <1>7, <2>1, <2>2, Begins
<1>8. ASSUME NEW w \in Workers, NEW task, Moves(w, task), UNCHANGED <<now, row>>,
             \A v \in Workers : v # w => tasks[v] = Idle, Current(task, row, now)
      PROVE  AloneInv'
  BY <1>1, <1>4, <1>8, OneMoves DEF AloneInv
<1>9. ASSUME NEW w \in Workers, Step(w) \/ Crash(w) PROVE AloneInv'
  <2> DEFINE task == tasks[w]
  <2>1. CASE CallStripe(w)
    <3>1. /\ UNCHANGED <<now, row>> /\ task.pc = "stripe"
          /\ Moves(w, [task EXCEPT !.pc = "save"]) \/ Moves(w, Idle)
      BY <1>1, <2>1, Calls
    <3>2. Current([task EXCEPT !.pc = "save"], row, now)
      BY <1>2, <3>1 DEF Current, Task, Calling, Idle
    <3>3. \A v \in Workers : v # w => tasks[v] = Idle
      BY <3>1, OthersIdle
    <3>4. QED
      BY <1>8, <3>1, <3>2, <3>3, IdleIsCurrent
  <2>2. CASE Save(w)
    <3>1. /\ task.pc = "save" /\ task.kind # "confirm" /\ row' = Written(task)
          /\ Moves(w, Idle) /\ UNCHANGED <<now, stripe>>
      BY <2>2 DEF Save, Finish, Moves
    <3>2. task.kind \in TaskKinds \ {"idle", "confirm"}
      BY <1>2, <3>1 DEF Current, Task, Idle
    <3>3. RowWithin(row', stripe) /\ \A v \in Workers : v # w => tasks[v] = Idle
      BY <3>1, <3>2, WrittenWithin, OthersIdle
    <3>4. OneAtWork' /\ AllCurrent'
      BY <1>1, <3>1, <3>3, OneMoves, IdleIsCurrent
    <3>5. QED
      BY <1>1, <3>1, <3>3, <3>4 DEF AloneInv
  <2>3. CASE Fetch(w)
    <3> DEFINE next == [task EXCEPT !.status = stripe[task.sub].status,
                                    !.end = stripe[task.sub].end, !.pc = "load"]
    <3>1. task.pc = "fetch" /\ task.kind = "confirm" /\ UNCHANGED <<now, row>>
      BY <1>2, <2>3 DEF Fetch, TaskBacked
    <3>2. Moves(w, next) \/ Moves(w, Idle)
      BY <1>1, <2>3, Fails DEF Fetch, Moves, IInv, TypeOK
    <3>3. Current(next, row, now)
      BY <1>2, <3>1 DEF Current, Task
    <3>4. \A v \in Workers : v # w => tasks[v] = Idle
      BY <3>1, OthersIdle
    <3> HIDE DEF next
    <3>5. QED
      BY <1>8, <3>1, <3>2, <3>3, <3>4, IdleIsCurrent
  <2>4. CASE LoadPrevious(w)
    <3> DEFINE next == [task EXCEPT !.seen = row, !.pc = "save"]
    <3>1. /\ task.pc = "load" /\ task.kind = "confirm" /\ UNCHANGED <<now, row>>
          /\ Moves(w, next)
      BY <1>1, <1>2, <2>4 DEF LoadPrevious, TaskBacked, Moves, IInv, TypeOK
    <3>2. Current(next, row, now)
      BY <1>2, <3>1 DEF Current, Task
    <3>3. \A v \in Workers : v # w => tasks[v] = Idle
      BY <3>1, OthersIdle
    <3> HIDE DEF next
    <3>4. QED
      BY <1>8, <3>1, <3>2, <3>3
  <2>5. CASE Upsert(w)
    <3>1. /\ task.kind = "confirm" /\ task.pc = "save" /\ UNCHANGED <<now, stripe>>
          /\ task.sub \in Subs /\ PaidIn(stripe, task.sub) /\ Current(task, row, now)
      BY <1>2, <2>5 DEF Upsert, TaskBacked
    <3>2. \A v \in Workers : v # w => tasks[v] = Idle
      BY <3>1, OthersIdle
    <3>3. CASE Fail(w) /\ UNCHANGED row
      BY <1>1, <1>8, <3>1, <3>2, <3>3, Fails, IdleIsCurrent
    <3>4. CASE /\ row' = [NoRow EXCEPT !.sub = task.sub, !.plan = stripe[task.sub].bought,
                                       !.cycle = stripe[task.sub].term,
                                       !.status = task.status, !.end = task.end]
               /\ IF Replaces(task) THEN Advance(w, "replace") ELSE Finish(w)
      <4>1. row'.sub = task.sub /\ row'.plan = stripe[task.sub].bought /\ row'.pending = NoPlan
        BY <3>4 DEF NoRow
      <4>2. stripe[task.sub].bought \in 0..2
        BY <1>1, <3>1 DEF IInv, TypeOK, Subscription, Plans
      <4>3. RowWithin(row', stripe)
        BY <3>1, <4>1, <4>2, BuyerPlanAssumption DEF RowWithin
      <4>4. PICK next : Moves(w, next) /\ Current(next, row', now)
        <5>1. CASE Replaces(task)
          <6>1. Moves(w, [task EXCEPT !.pc = "replace"])
            BY <1>1, <3>4, <5>1 DEF Advance, Moves, IInv, TypeOK
          <6>2. Current([task EXCEPT !.pc = "replace"], row', now)
            BY <1>2, <3>1, <4>1, <5>1 DEF Current, Task, Replaces
          <6>3. QED
            BY <6>1, <6>2
        <5>2. CASE ~Replaces(task)
          BY <3>4, <5>2, IdleIsCurrent DEF Finish, Moves
        <5>3. QED
          BY <5>1, <5>2
      <4>5. OneAtWork' /\ AllCurrent'
        BY <1>1, <3>1, <3>2, <4>4, OneMoves
      <4>6. QED
        BY <1>1, <3>1, <4>3, <4>5 DEF AloneInv
    <3>5. QED
      BY <2>5, <3>3, <3>4 DEF Upsert
  <2>6. CASE CancelReplaced(w)
    <3>1. task.pc = "replace" /\ UNCHANGED <<now, row>> /\ Moves(w, Idle)
      BY <1>1, <2>6, Replacing
    <3>2. QED
      BY <1>8, <3>1, OthersIdle, IdleIsCurrent
  <2>7. CASE Crash(w)
    <3>1. tasks[w] # Idle /\ UNCHANGED <<now, row>> /\ Moves(w, Idle)
      BY <1>1, <2>7, Fails DEF Crash
    <3>2. \A v \in Workers : v # w => tasks[v] = Idle
      BY <3>1 DEF AloneInv, OneAtWork
    <3>3. QED
      BY <1>8, <3>1, <3>2, IdleIsCurrent
  <2>8. QED
    BY <1>9, <2>1, <2>2, <2>3, <2>4, <2>5, <2>6, <2>7 DEF Step
<1>10. ASSUME NEW w \in Workers, NEW i \in DOMAIN events, Deliver(w, i) PROVE AloneInv'
  <2>1. /\ \A v \in Workers : tasks[v] = Idle
        /\ events[i] \in Event /\ UNCHANGED <<now, stripe>>
    BY <1>1, <1>10, Delivered
  <2>2. CASE UNCHANGED tasks /\ row'.sub = row.sub /\ row'.plan = row.plan
             /\ row'.pending = row.pending
    BY <1>1, <2>1, <2>2, NoneMoves DEF AloneInv, RowWithin
  <2>3. ASSUME NEW task, Moves(w, task), UNCHANGED row,
               \/ task.kind = "confirm" /\ task.pc = "fetch"
               \/ /\ task.kind = "failed" /\ task.pc = "save"
                  /\ row.sub = events[i].sub /\ task.sub = events[i].sub
        PROVE  AloneInv'
    <3>1. row.sub = events[i].sub => row.sub # NoSub
      BY <2>1, BuyerPlanAssumption DEF Event
    <3>2. Current(task, row, now)
      BY <2>3, <3>1 DEF Current
    <3>3. QED
      BY <1>8, <2>1, <2>3, <3>2
  <2>4. \/ UNCHANGED <<row, tasks>>
        \/ UNCHANGED tasks /\ row' = [row EXCEPT !.status = events[i].status, !.end = events[i].end]
        \/ UNCHANGED tasks /\ row' = Ended(row)
        \/ \E task : /\ Moves(w, task) /\ UNCHANGED row
                     /\ \/ task.kind = "confirm" /\ task.pc = "fetch"
                        \/ /\ task.kind = "failed" /\ task.pc = "save"
                           /\ row.sub = events[i].sub /\ task.sub = events[i].sub
    BY <1>1, <1>10, Delivered, ZenonT(60)
  <2>5. CASE UNCHANGED tasks /\ (row' = Ended(row)
             \/ row' = [row EXCEPT !.status = events[i].status, !.end = events[i].end])
    BY <1>3, <2>2, <2>5 DEF Ended, Row
  <2>6. QED
    BY <1>5, <2>1, <2>3, <2>4, <2>5
<1>11. QED
  BY <1>5, <1>6, <1>7, <1>9, <1>10 DEF Next, Lose, vars

(* Where handlers do not overlap, at most one is at work, on the row as it    *)
(* is.                                                                        *)
LEMMA OneAtATime ==
  ASSUME "overlap" \notin Faults
  PROVE  Spec => []AloneInv
<1>1. AloneInv /\ [Next]_vars => AloneInv'
  BY AloneStep
<1>2. QED
  BY <1>1, InitAlone, PTL DEF Spec

(* On one subscription the plan goes down only because a change queued on it  *)
(* has come due, where handlers do not overlap, whatever else goes wrong: a   *)
(* webhook late, twice or lost, a crash, Stripe out of reach.                 *)
THEOREM DowngradesAreQueued ==
  ASSUME "overlap" \notin Faults
  PROVE  Spec => OnlyQueuedDowngrades
<1> DEFINE Queued == row'.sub = row.sub /\ row'.plan < row.plan =>
                       row.pending = row'.plan /\ row.changeAt <= now
<1>1. ASSUME AloneInv, [Next]_vars PROVE Queued
  <2>1. /\ IInv /\ RowWithin(row, stripe) /\ row \in Row /\ row.plan \in 0..2
        /\ \A w \in Workers :
             tasks[w] \in Task /\ TaskBacked(tasks[w], stripe) /\ Current(tasks[w], row, now)
    BY <1>1 DEF AloneInv, IInv, TypeOK, Row, Plans, TasksBacked, AllCurrent
  <2>2. CASE row'.plan = row.plan
    BY <2>1, <2>2
  <2>3. CASE UNCHANGED row
    BY <2>2, <2>3
  <2>4. ASSUME NEW w \in Workers, Save(w) PROVE Queued
    <3> DEFINE task == tasks[w]
    <3>1. task.pc = "save" /\ task.kind # "confirm" /\ row' = Written(task)
      BY <2>4 DEF Save
    <3>2. CASE task.kind = "look"
      <4>1. /\ row' = [NothingQueued(row) EXCEPT !.plan = task.seen.pending,
                                                 !.cycle = task.seen.pendingCycle]
            /\ task.seen = row /\ row.changeAt <= now
        BY <2>1, <3>1, <3>2 DEF Written, Current
      <4>2. row'.plan = row.pending
        BY <2>1, <4>1 DEF NothingQueued, Row
      <4>3. QED
        BY <4>1, <4>2
    <3>3. CASE task.kind = "schedule"
      BY <2>1, <2>2, <3>1, <3>3 DEF Written, Row
    <3>4. CASE task.kind = "unschedule"
      BY <2>1, <2>2, <3>1, <3>4 DEF Written, NothingQueued, Row
    <3>5. CASE task.kind \notin {"look", "schedule", "unschedule"}
      BY <2>1, <2>2, <3>1, <3>5 DEF Written, Row
    <3>6. QED
      BY <3>2, <3>3, <3>4, <3>5
  <2>5. ASSUME NEW w \in Workers, Upsert(w), row' # row PROVE Queued
    <3>1. /\ row'.sub = tasks[w].sub /\ row'.plan = stripe[tasks[w].sub].bought
          /\ tasks[w].sub \in Subs
      BY <2>1, <2>5 DEF Upsert, NoRow, TaskBacked
    <3>2. stripe[tasks[w].sub].bought \in 0..2
      BY <2>1, <3>1 DEF IInv, TypeOK, Subscription, Plans
    <3>3. row'.sub = row.sub => row.plan <= row'.plan
      BY <2>1, <3>1, BuyerPlanAssumption DEF RowWithin
    <3>4. QED
      BY <2>1, <3>1, <3>2, <3>3
  <2>6. ASSUME NEW w \in Workers, NEW i \in DOMAIN events, Deliver(w, i) PROVE Queued
    <3>1. \/ UNCHANGED row \/ row' = Ended(row)
          \/ row' = [row EXCEPT !.status = events[i].status, !.end = events[i].end]
      BY <2>1, <2>6, Delivered
    <3>2. QED
      BY <2>1, <2>2, <3>1 DEF Ended, Row
  <2>7. CASE Stripe
    BY <2>3, <2>7 DEF Stripe, Tick, Pay, Renew, Decline, Retry, Lapse
  <2>8. CASE Member
    BY <2>1, <2>3, <2>8, Begins DEF CreateCheckoutSession
  <2>9. ASSUME NEW w \in Workers, Step(w) \/ Crash(w) PROVE Queued
    BY <2>3, <2>4, <2>5, <2>9
       DEF Step, CallStripe, Fetch, LoadPrevious, CancelReplaced, Crash
  <2>10. QED
    BY <1>1, <2>3, <2>6, <2>7, <2>8, <2>9 DEF Next, Lose, vars
<1>2. AloneInv /\ [Next]_vars => [Queued]_vars
  BY <1>1
<1>3. QED
  BY <1>2, OneAtATime, PTL DEF Spec, OnlyQueuedDowngrades

--------------------------------------------------------------------------------
(* The event that subscription s has ended is on its way.                     *)
Ending(queue, s) == \E i \in DOMAIN queue : queue[i].type = "deleted" /\ queue[i].sub = s

(* Only subscriptions that have ended are said to.                            *)
EndsAreTrue(queue, held) ==
  \A i \in DOMAIN queue : queue[i].type = "deleted" => held[queue[i].sub].status = "canceled"

(* Of one that has ended only its checkout, sent again, arrives after that.   *)
EndsComeLast(queue, held) ==
  /\ \A i, j \in DOMAIN queue :
       i < j /\ queue[i].type = "deleted" /\ queue[j].sub = queue[i].sub =>
         queue[j].type \in {"deleted", "checkout"}
  /\ \A s \in Subs : held[s].status = "canceled" =>
       Ending(queue, s) \/ \A i \in DOMAIN queue : queue[i].sub = s => queue[i].type = "checkout"

(* A subscription that is taken for a running one is, or its end is on its    *)
(* way.                                                                       *)
Running(queue, held, s) == held[s].status = "canceled" => Ending(queue, s)

(* So is the one on the row, and the one a task is about to write there.      *)
RowRuns(r, queue, held) == r.sub # NoSub /\ Held(r.status) => Running(queue, held, r.sub)

TaskRuns(task, r, queue, held) ==
  /\ task.kind = "failed" \/ (task.kind = "cancel" /\ task.pc = "save") =>
       Running(queue, held, r.sub)
  /\ task.kind = "confirm" /\ Held(task.status) => Running(queue, held, task.sub)

EndInv ==
  /\ AloneInv
  /\ EndsAreTrue(events, stripe) /\ EndsComeLast(events, stripe)
  /\ RowRuns(row, events, stripe)
  /\ \A w \in Workers : TaskRuns(tasks[w], row, events, stripe)

(* An event joins the queue: what has ended stays so, what ends is said to.   *)
LEMMA EndsAppended ==
  ASSUME NEW queue \in Seq(Event), NEW e \in Event, NEW before, NEW after,
         EndsAreTrue(queue, before), EndsComeLast(queue, before),
         \A s \in Subs : before[s].status = "canceled" => after[s].status = "canceled",
         \A s \in Subs : after[s].status = "canceled" =>
           before[s].status = "canceled" \/ (e.type = "deleted" /\ e.sub = s),
         e.type = "deleted" => after[e.sub].status = "canceled",
         e.type \in {"deleted", "checkout"} \/ before[e.sub].status # "canceled"
  PROVE  /\ EndsAreTrue(Append(queue, e), after) /\ EndsComeLast(Append(queue, e), after)
         /\ \A s \in Subs : Running(queue, before, s) => Running(Append(queue, e), after, s)
<1> DEFINE longer == Append(queue, e)
<1>1. /\ DOMAIN queue = 1..Len(queue) /\ Len(queue) \in Nat
      /\ DOMAIN longer = 1..(Len(queue) + 1) /\ longer[Len(queue) + 1] = e
      /\ \A j \in DOMAIN queue : j \in DOMAIN longer /\ longer[j] = queue[j]
      /\ \A j \in DOMAIN longer : j \in DOMAIN queue \/ j = Len(queue) + 1
  <2>1. \A j \in 1..(Len(queue) + 1) : j \in 1..Len(queue) \/ j = Len(queue) + 1
    OBVIOUS
  <2>2. QED
    BY <2>1, AppendedAt
<1>2. \A j \in DOMAIN queue : queue[j].sub \in Subs
  <2>1. \A j \in DOMAIN queue : queue[j] \in Event
    BY ElementOfSeq
  <2>2. QED
    BY <2>1 DEF Event
<1>3. e.sub \in Subs
  BY DEF Event
<1> HIDE DEF longer
<1>4. EndsAreTrue(longer, after)
  BY <1>1, <1>2, <1>3 DEF EndsAreTrue
<1>5. \A s \in Subs : Ending(queue, s) => Ending(longer, s)
  BY <1>1 DEF Ending
<1>6. \A s \in Subs : e.type = "deleted" /\ e.sub = s => Ending(longer, s)
  BY <1>1 DEF Ending
<1>7. \A s \in Subs : Running(queue, before, s) => Running(longer, after, s)
  BY <1>5, <1>6 DEF Running
<1>8. ASSUME NEW i \in DOMAIN longer, NEW j \in DOMAIN longer, i < j,
             longer[i].type = "deleted", longer[j].sub = longer[i].sub
      PROVE  longer[j].type \in {"deleted", "checkout"}
  <2>1. i \in DOMAIN queue /\ longer[i] = queue[i]
    BY <1>1, <1>8
  <2>2. CASE j \in DOMAIN queue
    BY <1>1, <1>8, <2>1, <2>2 DEF EndsComeLast
  <2>3. CASE j = Len(queue) + 1
    <3>1. longer[j] = e /\ before[e.sub].status = "canceled"
      BY <1>1, <1>8, <2>1, <2>3 DEF EndsAreTrue
    <3>2. QED
      BY <3>1
  <2>4. QED
    BY <1>1, <2>2, <2>3
<1>9. ASSUME NEW s \in Subs, after[s].status = "canceled", ~Ending(longer, s),
             NEW i \in DOMAIN longer, longer[i].sub = s
      PROVE  longer[i].type = "checkout"
  <2>1. before[s].status = "canceled" /\ ~Ending(queue, s)
    BY <1>5, <1>6, <1>9
  <2>2. CASE i \in DOMAIN queue
    BY <1>1, <1>9, <2>1, <2>2 DEF EndsComeLast
  <2>3. CASE i = Len(queue) + 1
    BY <1>1, <1>6, <1>9, <2>1, <2>3
  <2>4. QED
    BY <1>1, <2>2, <2>3
<1>10. QED
  BY <1>4, <1>7, <1>8, <1>9 DEF EndsComeLast, longer

(* The oldest event leaves the queue: what is on its way behind it still is.  *)
LEMMA HeadTaken ==
  ASSUME NEW queue \in Seq(Event), NEW held, 1 \in DOMAIN queue,
         EndsAreTrue(queue, held), EndsComeLast(queue, held)
  PROVE  /\ EndsAreTrue(RemoveAt(queue, 1), held) /\ EndsComeLast(RemoveAt(queue, 1), held)
         /\ \A s \in Subs : Ending(queue, s) =>
              \/ queue[1].type = "deleted" /\ queue[1].sub = s
              \/ Ending(RemoveAt(queue, 1), s)
<1> DEFINE rest == RemoveAt(queue, 1)
<1>1. /\ DOMAIN queue = 1..Len(queue) /\ Len(queue) \in Nat
      /\ DOMAIN rest = 1..(Len(queue) - 1)
      /\ \A j \in 1..(Len(queue) - 1) : rest[j] = IF j < 1 THEN queue[j] ELSE queue[j + 1]
  BY RemovedAt
<1>2. \A j \in DOMAIN rest : j \in Nat /\ 1 < j + 1 /\ j + 1 \in DOMAIN queue /\ rest[j] = queue[j + 1]
  BY <1>1
<1>3. \A k \in DOMAIN queue : k # 1 => \E j \in DOMAIN rest : rest[j] = queue[k]
  BY StillQueued
<1> HIDE DEF rest
<1>4. EndsAreTrue(rest, held)
  BY <1>2 DEF EndsAreTrue
<1>5. \A s \in Subs : Ending(queue, s) =>
        (queue[1].type = "deleted" /\ queue[1].sub = s) \/ Ending(rest, s)
  BY <1>3 DEF Ending
<1>6. ASSUME NEW i \in DOMAIN rest, NEW j \in DOMAIN rest, i < j,
             rest[i].type = "deleted", rest[j].sub = rest[i].sub
      PROVE  rest[j].type \in {"deleted", "checkout"}
  <2>1. i + 1 < j + 1
    BY <1>2, <1>6
  <2>2. QED
    BY <1>2, <1>6, <2>1 DEF EndsComeLast
<1>7. ASSUME NEW s \in Subs, held[s].status = "canceled", ~Ending(rest, s),
             NEW i \in DOMAIN rest, rest[i].sub = s
      PROVE  rest[i].type = "checkout"
  <2>1. i + 1 \in DOMAIN queue /\ 1 < i + 1 /\ rest[i] = queue[i + 1]
    BY <1>2
  <2>2. CASE Ending(queue, s)
    <3>1. rest[i].type \in {"deleted", "checkout"}
      BY <1>5, <1>7, <2>1, <2>2 DEF EndsComeLast
    <3>2. QED
      BY <1>7, <3>1 DEF Ending
  <2>3. CASE ~Ending(queue, s)
    BY <1>7, <2>1, <2>3 DEF EndsComeLast
  <2>4. QED
    BY <2>2, <2>3
<1>8. QED
  BY <1>4, <1>5, <1>6, <1>7 DEF EndsComeLast, rest

(* The subscriptions and their events move on, and no end is lost.            *)
EndsKept ==
  /\ EndsAreTrue(events', stripe') /\ EndsComeLast(events', stripe')
  /\ \A s \in Subs : Running(events, stripe, s) => Running(events', stripe', s)

(* A change of a subscription, and its event.                                 *)
LEMMA TurnEnds ==
  ASSUME EndInv, NEW s \in Subs, NEW sub \in Subscription, NEW e, Turn(s, sub, e)
  PROVE  EndsKept
<1>1. /\ stripe \in [Subs -> Subscription] /\ events \in Seq(Event)
      /\ EndsAreTrue(events, stripe) /\ EndsComeLast(events, stripe)
  BY DEF EndInv, AloneInv, IInv, TypeOK
<1>2. /\ stripe' = [stripe EXCEPT ![s] = sub] /\ events' = Append(events, e)
      /\ stripe[s].status # "canceled" /\ e \in Event /\ e.sub = s
      /\ e.type = IF sub.status = "canceled" THEN "deleted" ELSE "updated"
  BY DEF Turn, Held
<1>3. /\ \A t \in Subs : stripe[t].status = "canceled" => stripe'[t].status = "canceled"
      /\ \A t \in Subs : stripe'[t].status = "canceled" =>
           stripe[t].status = "canceled" \/ (e.type = "deleted" /\ e.sub = t)
      /\ e.type = "deleted" => stripe'[e.sub].status = "canceled"
  BY <1>1, <1>2
<1>4. QED
  BY <1>1, <1>2, <1>3, EndsAppended DEF EndsKept

(* An event joins the queue, and no subscription ends or comes back.          *)
LEMMA EventEnds ==
  ASSUME EndInv, NEW e \in Event, events' = Append(events, e),
         \A s \in Subs : stripe'[s].status = "canceled" <=> stripe[s].status = "canceled",
         \/ e.type = "checkout"
         \/ e.type \in {"updated", "failed"} /\ stripe[e.sub].status # "canceled"
  PROVE  EndsKept
<1>1. events \in Seq(Event) /\ EndsAreTrue(events, stripe) /\ EndsComeLast(events, stripe)
  BY DEF EndInv, AloneInv, IInv, TypeOK
<1>2. e.type # "deleted"
  OBVIOUS
<1>3. QED
  BY <1>1, <1>2, EndsAppended DEF EndsKept

(* A step that takes nothing off the queue and writes no row.                 *)
LEMMA EndsStand ==
  ASSUME EndInv, AloneInv', EndsKept, UNCHANGED row,
         \/ UNCHANGED tasks
         \/ \E w \in Workers : \E task :
              Moves(w, task) /\ TaskRuns(task, row, events', stripe')
  PROVE  EndInv'
<1>1. /\ IInv /\ AllCurrent /\ RowRuns(row, events, stripe)
      /\ \A w \in Workers : TaskRuns(tasks[w], row, events, stripe)
  BY DEF EndInv, AloneInv
<1>2. row.sub # NoSub => row.sub \in Subs
  BY <1>1 DEF IInv, TypeOK, Row
<1>3. RowRuns(row, events', stripe')
  BY <1>1, <1>2 DEF RowRuns, EndsKept
<1>4. \A w \in Workers : TaskRuns(tasks[w], row, events', stripe')
  <2> SUFFICES ASSUME NEW w \in Workers PROVE TaskRuns(tasks[w], row, events', stripe')
    OBVIOUS
  <2>1. Current(tasks[w], row, now) /\ TaskBacked(tasks[w], stripe)
    BY <1>1 DEF AllCurrent, IInv, TasksBacked
  <2>2. tasks[w].kind \in {"failed", "cancel"} => row.sub \in Subs
    BY <1>2, <2>1 DEF Current
  <2>3. tasks[w].kind = "confirm" => tasks[w].sub \in Subs
    BY <2>1 DEF TaskBacked
  <2>4. QED
    BY <1>1, <2>2, <2>3 DEF TaskRuns, EndsKept
<1>5. \A w \in Workers : TaskRuns(tasks'[w], row, events', stripe')
  BY <1>1, <1>4 DEF Moves, IInv, TypeOK
<1>6. QED
  BY <1>3, <1>5 DEF EndInv, EndsKept

(* No end is lost where neither Stripe nor the queue moves.                   *)
LEMMA EndsStill ==
  ASSUME EndInv, UNCHANGED events,
         \A s \in Subs : stripe'[s].status = "canceled" <=> stripe[s].status = "canceled"
  PROVE  EndsKept
<1>1. events \in Seq(Event)
  BY DEF EndInv, AloneInv, IInv, TypeOK
<1>2. \A i \in DOMAIN events : events[i] \in Event
  BY <1>1, ElementOfSeq
<1>3. \A i \in DOMAIN events : events[i].sub \in Subs
  BY <1>2 DEF Event
<1>4. QED
  BY <1>3 DEF EndInv, EndsKept, EndsAreTrue, EndsComeLast, Running

(* Nothing waits for the idle.                                                *)
LEMMA IdleRuns == \A r, queue, held : TaskRuns(Idle, r, queue, held)
  BY DEF TaskRuns, Idle

(* Stripe's and the member's steps lose no end.                               *)
LEMMA OutsideEnds ==
  ASSUME EndInv, AloneInv', "overlap" \notin Faults, Stripe \/ Member
  PROVE  EndInv'
<1>1. IInv /\ stripe \in [Subs -> Subscription] /\ events \in Seq(Event)
  BY DEF EndInv, AloneInv, IInv, TypeOK
<1>2. CASE Tick
  BY <1>2, EndsStill, EndsStand DEF Tick
<1>3. ASSUME NEW s \in Subs, Pay(s) PROVE EndInv'
  <2>1. PICK e \in Event :
          /\ events' = Append(events, e) /\ e.type = "checkout"
          /\ \A t \in Subs : stripe'[t].status = "canceled" <=> stripe[t].status = "canceled"
          /\ UNCHANGED <<row, tasks>>
    BY <1>1, <1>3, Pays
  <2>2. QED
    BY <2>1, EventEnds, EndsStand
<1>4. ASSUME NEW s \in Subs, Renew(s) \/ Retry(s) \/ Lapse(s) PROVE EndInv'
  BY <1>1, <1>4, StripeTurns, TurnEnds, EndsStand
<1>5. ASSUME NEW s \in Subs, Decline(s) PROVE EndInv'
  <2>1. PICK e \in Event, f \in Event :
          /\ events' = Append(Append(events, e), f)
          /\ e.type = "updated" /\ f.type = "failed" /\ e.sub = s /\ f.sub = s
          /\ stripe[s].status # "canceled" /\ stripe'[s].status # "canceled"
          /\ \A t \in Subs : stripe'[t].status = "canceled" <=> stripe[t].status = "canceled"
          /\ UNCHANGED <<row, tasks>>
    BY <1>1, <1>5, Declines, SMTT(20)
  <2> DEFINE longer == Append(events, e)
  <2>2. EndsAreTrue(events, stripe) /\ EndsComeLast(events, stripe)
    BY DEF EndInv
  <2>3. longer \in Seq(Event)
    BY <1>1
  <2>4. /\ EndsAreTrue(longer, stripe') /\ EndsComeLast(longer, stripe')
        /\ \A t \in Subs : Running(events, stripe, t) => Running(longer, stripe', t)
    BY <1>1, <2>1, <2>2, EndsAppended
  <2>5. events' = Append(longer, f)
    BY <2>1
  <2> HIDE DEF longer
  <2>6. /\ EndsAreTrue(events', stripe') /\ EndsComeLast(events', stripe')
        /\ \A t \in Subs : Running(longer, stripe', t) => Running(events', stripe', t)
    BY <2>1, <2>3, <2>4, <2>5, EndsAppended
  <2>7. EndsKept
    BY <2>4, <2>6 DEF EndsKept
  <2>8. QED
    BY <2>1, <2>7, EndsStand
<1>6. ASSUME NEW s \in Subs, NEW p \in Plans, NEW c \in Cycles, CreateCheckoutSession(s, p, c)
      PROVE  EndInv'
  <2>1. /\ \A t \in Subs : stripe'[t].status = "canceled" <=> stripe[t].status = "canceled"
        /\ UNCHANGED <<events, row, tasks>>
    BY <1>1, <1>6 DEF CreateCheckoutSession, Unused
  <2>2. QED
    BY <2>1, EndsStill, EndsStand
<1>7. ASSUME NEW w \in Workers, NEW task, Moves(w, task), Request(task),
             UNCHANGED <<stripe, events, row>>
      PROVE  EndInv'
  <2>1. TaskRuns(task, row, events', stripe')
    BY <1>7 DEF TaskRuns, Request, Held, Calling
  <2>2. QED
    BY <1>7, <2>1, EndsStill, EndsStand
<1>8. CASE Member
  BY <1>1, <1>6, <1>7, <1>8, Begins
<1>9. CASE Stripe
  BY <1>2, <1>3, <1>4, <1>5, <1>9 DEF Stripe
<1>10. QED
  BY <1>8, <1>9

(* A step that leaves no handler with something to write, and a row that      *)
(* runs.                                                                      *)
LEMMA EndsWritten ==
  ASSUME EndInv, AloneInv', EndsKept, NEW w \in Workers,
         \A v \in Workers : v # w => tasks[v] = Idle,
         NEW task, Moves(w, task), TaskRuns(task, row', events', stripe'),
         RowRuns(row', events', stripe')
  PROVE  EndInv'
<1>1. \A v \in Workers : tasks'[v] = IF v = w THEN task ELSE Idle
  BY DEF Moves, EndInv, AloneInv, IInv, TypeOK
<1>2. \A v \in Workers : TaskRuns(tasks'[v], row', events', stripe')
  BY <1>1, IdleRuns
<1>3. QED
  BY <1>2 DEF EndInv, EndsKept

(* A handler that fails loses no end.                                         *)
LEMMA FailEnds ==
  ASSUME EndInv, NEW w \in Workers, Fail(w), UNCHANGED stripe, tasks[w].kind # "failed"
  PROVE  EndsKept /\ Moves(w, Idle)
<1>1. IInv
  BY DEF EndInv, AloneInv
<1>2. /\ Moves(w, Idle)
      /\ UNCHANGED events
         \/ \E e \in Event : e.type = "checkout" /\ events' = Append(events, e)
  BY <1>1, Fails
<1>3. QED
  BY <1>2, EventEnds, EndsStill

(* The handlers' steps lose no end.                                           *)
LEMMA HandlerEnds ==
  ASSUME EndInv, AloneInv', NEW w \in Workers, Step(w)
  PROVE  EndInv'
<1> DEFINE task == tasks[w]
<1>1. /\ IInv /\ AloneInv /\ stripe \in [Subs -> Subscription] /\ row \in Row /\ task \in Task
      /\ TaskBacked(task, stripe) /\ Current(task, row, now)
      /\ TaskRuns(task, row, events, stripe) /\ RowRuns(row, events, stripe)
  BY DEF EndInv, AloneInv, AllCurrent, IInv, TypeOK, TasksBacked
<1>2. row.sub # NoSub => row.sub \in Subs
  BY <1>1 DEF Row
<1>3. CASE CallStripe(w)
  <2>1. /\ UNCHANGED row /\ task.pc = "stripe" /\ task.kind \in Calling
        /\ task.seen.sub = row.sub /\ row.sub \in Subs
    BY <1>1, <1>2, <1>3, Calls DEF Current, Calling
  <2>2. CASE Moves(w, Idle) /\ UNCHANGED <<stripe, events>>
    BY <2>1, <2>2, EndsStill, EndsStand, IdleRuns
  <2>3. ASSUME NEW e, Turn(task.seen.sub, Amended(task), e),
               Moves(w, [task EXCEPT !.pc = "save"])
        PROVE  EndInv'
    <3>1. Held(stripe[row.sub].status) /\ stripe' = [stripe EXCEPT ![row.sub] = Amended(task)]
      BY <2>1, <2>3 DEF Turn
    <3>2. /\ Amended(task) \in Subscription
          /\ task.kind # "cancelNow" => Amended(task).status = stripe[row.sub].status
      BY <1>1, <2>1, <3>1, AmendedFits
    <3>3. EndsKept
      BY <2>1, <2>3, <3>2, TurnEnds
    <3>4. task.kind = "cancel" => stripe'[row.sub].status # "canceled"
      BY <1>1, <2>1, <3>1, <3>2 DEF Held
    <3>5. TaskRuns([task EXCEPT !.pc = "save"], row, events', stripe')
      BY <1>1, <2>1, <3>4 DEF TaskRuns, Running, Calling, Task
    <3>6. QED
      BY <2>1, <2>3, <3>3, <3>5, EndsStand
  <2>4. QED
    BY <1>1, <1>3, <2>2, <2>3, Calls
<1>4. CASE Save(w)
  <2>1. /\ task.kind # "confirm" /\ task.pc = "save" /\ row' = Written(task)
        /\ Moves(w, Idle) /\ UNCHANGED <<stripe, events>>
    BY <1>4 DEF Save, Finish, Moves
  <2>2. task.kind \in TaskKinds \ {"idle", "confirm"}
    BY <1>1, <2>1 DEF Current, Task, Idle
  <2>3. row'.sub = row.sub /\ EndsKept
    BY <1>1, <2>1, <2>2, WrittenWithin, EndsStill
  <2>4. \/ row'.status = row.status \/ row'.status = "cancelled"
        \/ task.kind \in {"cancel", "failed"}
    BY <1>1, <2>1, <2>2 DEF Written, NothingQueued, Row, TaskKinds, RequestKinds
  <2>5. RowRuns(row', events, stripe)
    BY <1>1, <2>1, <2>3, <2>4 DEF RowRuns, TaskRuns, Held
  <2>6. QED
    BY <1>1, <2>1, <2>3, <2>5, OthersIdle, IdleRuns, EndsWritten
<1>5. CASE Fetch(w)
  <2> DEFINE next == [task EXCEPT !.status = stripe[task.sub].status,
                                  !.end = stripe[task.sub].end, !.pc = "load"]
  <2>1. task.pc = "fetch" /\ task.kind = "confirm" /\ UNCHANGED <<row, stripe>>
    BY <1>1, <1>5 DEF Fetch, TaskBacked
  <2>2. CASE Fail(w)
    BY <2>1, <2>2, FailEnds, EndsStand, IdleRuns
  <2>3. CASE Moves(w, next) /\ UNCHANGED events
    <3>1. next.kind = "confirm" /\ next.status = stripe[task.sub].status /\ next.sub = task.sub
      BY <1>1, <2>1 DEF Task
    <3>2. TaskRuns(next, row, events', stripe')
      BY <2>1, <3>1 DEF TaskRuns, Running, Held
    <3> HIDE DEF next
    <3>3. QED
      BY <2>1, <2>3, <3>2, EndsStill, EndsStand
  <2>4. QED
    BY <1>1, <1>5, <2>2, <2>3 DEF Fetch, Moves, IInv, TypeOK
<1>6. CASE LoadPrevious(w)
  <2> DEFINE next == [task EXCEPT !.seen = row, !.pc = "save"]
  <2>1. /\ task.pc = "load" /\ task.kind = "confirm" /\ Moves(w, next)
        /\ UNCHANGED <<row, stripe, events>>
    BY <1>1, <1>6 DEF LoadPrevious, TaskBacked, Moves, IInv, TypeOK
  <2>2. next.kind = task.kind /\ next.status = task.status /\ next.sub = task.sub
    BY <1>1 DEF Task
  <2>3. TaskRuns(next, row, events', stripe')
    BY <1>1, <2>1, <2>2 DEF TaskRuns
  <2> HIDE DEF next
  <2>4. QED
    BY <2>1, <2>3, EndsStill, EndsStand
<1>7. CASE Upsert(w)
  <2>1. task.kind = "confirm" /\ task.pc = "save" /\ UNCHANGED stripe
    BY <1>7 DEF Upsert
  <2>2. CASE Fail(w) /\ UNCHANGED row
    BY <2>1, <2>2, FailEnds, EndsStand, IdleRuns
  <2>3. CASE /\ row' = [NoRow EXCEPT !.sub = task.sub, !.plan = stripe[task.sub].bought,
                                     !.cycle = stripe[task.sub].term,
                                     !.status = task.status, !.end = task.end]
             /\ IF Replaces(task) THEN Advance(w, "replace") ELSE Finish(w)
             /\ UNCHANGED events
    <3>1. row'.sub = task.sub /\ row'.status = task.status /\ UNCHANGED events
      BY <2>3 DEF NoRow
    <3>2. EndsKept /\ RowRuns(row', events', stripe')
      BY <1>1, <2>1, <3>1, EndsStill DEF TaskRuns, RowRuns
    <3>3. PICK next : Moves(w, next) /\ TaskRuns(next, row', events', stripe')
      <4>1. CASE Replaces(task)
        <5>1. Moves(w, [task EXCEPT !.pc = "replace"])
          BY <1>1, <2>3, <4>1 DEF Advance, Moves, IInv, TypeOK
        <5>2. TaskRuns([task EXCEPT !.pc = "replace"], row', events', stripe')
          BY <1>1, <2>1, <3>1 DEF TaskRuns, Task
        <5>3. QED
          BY <5>1, <5>2
      <4>2. CASE ~Replaces(task)
        BY <2>3, <4>2, IdleRuns DEF Finish, Moves
      <4>3. QED
        BY <4>1, <4>2
    <3>4. \A v \in Workers : v # w => tasks[v] = Idle
      BY <1>1, <2>1, OthersIdle
    <3>5. QED
      BY <3>2, <3>3, <3>4, EndsWritten
  <2>4. QED
    BY <1>7, <2>2, <2>3 DEF Upsert
<1>8. CASE CancelReplaced(w)
  <2>1. UNCHANGED row /\ Moves(w, Idle) /\ task.seen.sub \in Subs
    BY <1>1, <1>8, Replacing
  <2>2. EndsKept
    BY <1>1, <1>8, <2>1, Replacing, TurnEnds, EndsStill
  <2>3. QED
    BY <2>1, <2>2, IdleRuns, EndsStand
<1>9. QED
  BY <1>3, <1>4, <1>5, <1>6, <1>7, <1>8 DEF Step

(* The webhook accepts the oldest event: an end that leaves closes its row.   *)
LEMMA WebhookEnds ==
  ASSUME EndInv, AloneInv', "overlap" \notin Faults, "reorder" \notin Faults,
         NEW w \in Workers, NEW i \in DOMAIN events, Deliver(w, i)
  PROVE  EndInv'
<1> DEFINE e == events[i]
<1>1. /\ IInv /\ events \in Seq(Event) /\ row \in Row /\ stripe \in [Subs -> Subscription]
      /\ EndsAreTrue(events, stripe) /\ EndsComeLast(events, stripe)
      /\ RowRuns(row, events, stripe)
  BY DEF EndInv, AloneInv, IInv, TypeOK
<1>2. /\ i = 1 /\ UNCHANGED stripe /\ \A v \in Workers : tasks[v] = Idle
      /\ e \in Event /\ EventBacked(e, stripe)
      /\ events' = RemoveAt(events, 1) \/ UNCHANGED events
  BY <1>1, Delivered DEF Deliver, Deliverable, Accept
<1>3. row.sub # NoSub => row.sub \in Subs
  BY <1>1 DEF Row
<1>4. /\ EndsAreTrue(events', stripe) /\ EndsComeLast(events', stripe)
      /\ \A s \in Subs : Ending(events, s) =>
           (e.type = "deleted" /\ e.sub = s) \/ Ending(events', s)
  BY <1>1, <1>2, HeadTaken
<1>5. ASSUME NEW s \in Subs, Running(events, stripe, s), e.type # "deleted" \/ e.sub # s
      PROVE  Running(events', stripe, s)
  BY <1>4, <1>5 DEF Running
<1>6. ASSUME e.type \in {"updated", "failed"} PROVE Running(events', stripe, e.sub)
  <2>1. e.sub \in Subs
    BY <1>2 DEF Event
  <2>2. Running(events, stripe, e.sub)
    BY <1>1, <1>2, <1>6, <2>1 DEF Running, EndsComeLast
  <2>3. QED
    BY <1>5, <1>6, <2>1, <2>2
<1>7. ASSUME RowRuns(row', events', stripe),
             \/ UNCHANGED tasks
             \/ \E task : Moves(w, task) /\ TaskRuns(task, row', events', stripe)
      PROVE  EndInv'
  <2>1. \A v \in Workers : TaskRuns(tasks'[v], row', events', stripe)
    BY <1>1, <1>2, <1>7, IdleRuns DEF Moves, IInv, TypeOK
  <2>2. QED
    BY <1>2, <1>4, <1>7, <2>1 DEF EndInv
<1>8. ASSUME UNCHANGED row, e.type # "deleted" PROVE RowRuns(row', events', stripe)
  BY <1>1, <1>3, <1>5, <1>8 DEF RowRuns
<1>9. CASE /\ e.type = "checkout" /\ UNCHANGED row
           /\ \E task : /\ Moves(w, task) /\ task.kind = "confirm" /\ task.pc = "fetch"
                        /\ task.sub = e.sub /\ task.hook /\ task.status = "none"
  <2>1. \A task : task.kind = "confirm" /\ task.status = "none" =>
                    TaskRuns(task, row', events', stripe)
    BY DEF TaskRuns, Held
  <2>2. QED
    BY <1>7, <1>8, <1>9, <2>1
<1>10. CASE /\ e.type = "updated" /\ UNCHANGED tasks
            /\ row' = IF row.sub = e.sub THEN [row EXCEPT !.status = e.status, !.end = e.end]
                      ELSE row
  <2>1. CASE row.sub = e.sub
    <3>1. row'.sub = e.sub
      BY <1>1, <1>10, <2>1 DEF Row
    <3>2. RowRuns(row', events', stripe)
      BY <1>6, <1>10, <3>1 DEF RowRuns
    <3>3. QED
      BY <1>7, <1>10, <3>2
  <2>2. CASE row.sub # e.sub
    BY <1>7, <1>8, <1>10, <2>2
  <2>3. QED
    BY <2>1, <2>2
<1>11. CASE /\ e.type = "deleted" /\ UNCHANGED tasks
            /\ row' = IF row.sub = e.sub THEN Ended(row) ELSE row
  <2>1. CASE row.sub = e.sub
    BY <1>1, <1>7, <1>11, <2>1 DEF Ended, Row, RowRuns, Held
  <2>2. CASE row.sub # e.sub
    <3>1. RowRuns(row', events', stripe)
      BY <1>1, <1>3, <1>5, <1>11, <2>2 DEF RowRuns
    <3>2. QED
      BY <1>7, <1>11, <3>1
  <2>3. QED
    BY <2>1, <2>2
<1>12. CASE /\ e.type = "failed" /\ UNCHANGED row
            /\ \/ UNCHANGED tasks
               \/ /\ row.sub = e.sub
                  /\ \E task : /\ Moves(w, task) /\ task.kind = "failed" /\ task.pc = "save"
                               /\ task.sub = e.sub /\ task.status = "none"
  <2>1. \A task : task.kind = "failed" /\ row.sub = e.sub =>
                    TaskRuns(task, row', events', stripe)
    BY <1>6, <1>12 DEF TaskRuns
  <2>2. QED
    BY <1>7, <1>8, <1>12, <2>1
<1>13. QED
  BY <1>1, <1>9, <1>10, <1>11, <1>12, Delivered

(* Once everything is settled, the row of a subscription Stripe has ended no  *)
(* longer grants its plan: where handlers do not overlap, the webhook hears   *)
(* of everything in order and no handler dies half way.                       *)
THEOREM EndedIsOut ==
  ASSUME {"overlap", "reorder", "lose", "crash"} \cap Faults = {}
  PROVE  Spec => []EndedMeansOut
<1>1. Init => EndInv
  <2> SUFFICES ASSUME Init PROVE EndInv
    OBVIOUS
  <2>1. AloneInv /\ events = <<>> /\ row.sub = NoSub /\ \A w \in Workers : tasks[w] = Idle
    BY InitAlone DEF Init, NoRow
  <2>2. \A s \in Subs : stripe[s].status = "unused"
    BY DEF Init, Unused
  <2>3. EndsAreTrue(events, stripe) /\ EndsComeLast(events, stripe)
    BY <2>1, <2>2 DEF EndsAreTrue, EndsComeLast
  <2>4. QED
    BY <2>1, <2>3, IdleRuns DEF EndInv, RowRuns
<1>2. EndInv /\ [Next]_vars => EndInv'
  <2> SUFFICES ASSUME EndInv, [Next]_vars PROVE EndInv'
    OBVIOUS
  <2>1. AloneInv'
    BY AloneStep DEF EndInv
  <2>2. CASE UNCHANGED vars
    BY <2>1, <2>2, EndsStill, EndsStand DEF vars
  <2>3. QED
    BY <2>1, <2>2, OutsideEnds, HandlerEnds, WebhookEnds DEF Next, Lose, Crash
<1>3. EndInv => EndedMeansOut
  BY DEF EndInv, RowRuns, Running, Ending, EndedMeansOut, Settled, RowExists
<1>4. QED
  BY <1>1, <1>2, <1>3, PTL DEF Spec

--------------------------------------------------------------------------------
(* A checkout of s is on its way.                                             *)
Waiting(queue, s) == \E i \in DOMAIN queue : queue[i].type = "checkout" /\ queue[i].sub = s

(* A handler that is going to record s, or to stop it.                        *)
Attends(task, s) ==
  \/ task.kind = "confirm" /\ task.hook /\ task.pc # "replace" /\ task.sub = s
  \/ task.pc = "replace" /\ task.seen.sub = s

(* What a row, or a task, takes for ended is.                                 *)
RowEnds(r, held) == r.status = "cancelled" => r.sub # NoSub /\ held[r.sub].status = "canceled"

TaskEnds(task, r, held) ==
  /\ task.kind = "cancelNow" /\ task.pc = "save" => held[r.sub].status = "canceled"
  /\ task.kind = "confirm" /\ task.status = "canceled" => held[task.sub].status = "canceled"

(* Whatever is billed is on the row, on its way there, or about to be         *)
(* stopped.                                                                   *)
Tended(held, r, queue, works) ==
  \A s \in Subs : Held(held[s].status) =>
    s = r.sub \/ Waiting(queue, s) \/ \E w \in Workers : Attends(works[w], s)

PlanInv ==
  /\ AloneInv
  /\ EndsAreTrue(events, stripe)
  /\ RowEnds(row, stripe)
  /\ \A w \in Workers : TaskEnds(tasks[w], row, stripe)
  /\ Tended(stripe, row, events, tasks)

(* What ends stays ended, in what is said of it, and no checkout is           *)
(* forgotten.                                                                 *)
EndsStay(before, after) ==
  \A s \in Subs : before[s].status = "canceled" => after[s].status = "canceled"

(* An event joins the queue.                                                  *)
LEMMA CheckoutsAppended ==
  ASSUME NEW queue \in Seq(Event), NEW e \in Event, NEW before, NEW after,
         EndsAreTrue(queue, before), EndsStay(before, after),
         e.type = "deleted" => after[e.sub].status = "canceled"
  PROVE  /\ EndsAreTrue(Append(queue, e), after)
         /\ \A s \in Subs : Waiting(queue, s) => Waiting(Append(queue, e), s)
         /\ e.type = "checkout" => Waiting(Append(queue, e), e.sub)
<1> DEFINE longer == Append(queue, e)
<1>1. /\ \A j \in DOMAIN queue : j \in DOMAIN longer /\ longer[j] = queue[j]
      /\ Len(queue) + 1 \in DOMAIN longer /\ longer[Len(queue) + 1] = e
      /\ \A j \in DOMAIN longer : longer[j] = e \/ \E k \in DOMAIN queue : longer[j] = queue[k]
  <2>1. Len(queue) \in Nat /\ Len(queue) + 1 \in 1..(Len(queue) + 1)
    BY AppendedAt
  <2>2. QED
    BY <2>1, AppendedAt, Appended
<1>2. \A j \in DOMAIN queue : queue[j].sub \in Subs
  <2>1. \A j \in DOMAIN queue : queue[j] \in Event
    BY ElementOfSeq
  <2>2. QED
    BY <2>1 DEF Event
<1> HIDE DEF longer
<1>3. EndsAreTrue(longer, after)
  BY <1>1, <1>2 DEF EndsAreTrue, EndsStay
<1>4. \A s \in Subs : Waiting(queue, s) => Waiting(longer, s)
  BY <1>1 DEF Waiting
<1>5. e.type = "checkout" => Waiting(longer, e.sub)
  BY <1>1 DEF Waiting
<1>6. QED
  BY <1>3, <1>4, <1>5 DEF longer

(* An event leaves the queue, from wherever it was.                           *)
LEMMA CheckoutsTaken ==
  ASSUME NEW queue \in Seq(Event), NEW i \in DOMAIN queue, NEW held, EndsAreTrue(queue, held)
  PROVE  /\ EndsAreTrue(RemoveAt(queue, i), held)
         /\ \A s \in Subs : Waiting(queue, s) =>
              \/ queue[i].type = "checkout" /\ queue[i].sub = s
              \/ Waiting(RemoveAt(queue, i), s)
<1> DEFINE rest == RemoveAt(queue, i)
<1>1. /\ \A j \in DOMAIN rest : \E k \in DOMAIN queue : rest[j] = queue[k]
      /\ \A k \in DOMAIN queue : k # i => \E j \in DOMAIN rest : rest[j] = queue[k]
  BY Removed, StillQueued
<1> HIDE DEF rest
<1>2. EndsAreTrue(rest, held)
  BY <1>1 DEF EndsAreTrue
<1>3. \A s \in Subs : Waiting(queue, s) =>
        (queue[i].type = "checkout" /\ queue[i].sub = s) \/ Waiting(rest, s)
  BY <1>1 DEF Waiting
<1>4. QED
  BY <1>2, <1>3 DEF rest

(* Stripe and the queue move on: ends stay, and what comes to be billed       *)
(* waits.                                                                     *)
PlansKept ==
  /\ EndsAreTrue(events', stripe') /\ EndsStay(stripe, stripe')
  /\ \A s \in Subs : Waiting(events, s) => Waiting(events', s)
  /\ \A s \in Subs : Held(stripe'[s].status) => Held(stripe[s].status) \/ Waiting(events', s)

(* A change of a running subscription.                                        *)
LEMMA TurnPlans ==
  ASSUME PlanInv, NEW s \in Subs, NEW sub, NEW e, Turn(s, sub, e)
  PROVE  PlansKept /\ stripe'[s].status = sub.status
<1>1. /\ stripe \in [Subs -> Subscription] /\ events \in Seq(Event) /\ EndsAreTrue(events, stripe)
  BY DEF PlanInv, AloneInv, IInv, TypeOK
<1>2. /\ stripe' = [stripe EXCEPT ![s] = sub] /\ events' = Append(events, e)
      /\ Held(stripe[s].status) /\ e \in Event /\ e.sub = s
      /\ e.type = IF sub.status = "canceled" THEN "deleted" ELSE "updated"
  BY DEF Turn
<1>3. /\ EndsStay(stripe, stripe') /\ stripe'[s].status = sub.status
      /\ e.type = "deleted" => stripe'[e.sub].status = "canceled"
      /\ \A t \in Subs : Held(stripe'[t].status) => Held(stripe[t].status)
  BY <1>1, <1>2 DEF EndsStay, Held
<1>4. QED
  BY <1>1, <1>2, <1>3, CheckoutsAppended DEF PlansKept

(* A checkout sent again, or a payment that failed, ends nothing.             *)
LEMMA EventPlans ==
  ASSUME PlanInv, UNCHANGED stripe,
         \/ UNCHANGED events
         \/ \E e \in Event : e.type # "deleted" /\ events' = Append(events, e)
  PROVE  PlansKept
<1>1. events \in Seq(Event) /\ EndsAreTrue(events, stripe) /\ EndsStay(stripe, stripe)
  BY DEF PlanInv, AloneInv, IInv, TypeOK, EndsStay
<1>2. QED
  BY <1>1, CheckoutsAppended DEF PlansKept

(* A handler moves on and lets go of nothing, and the row stands.             *)
LEMMA PlansStand ==
  ASSUME PlanInv, AloneInv', PlansKept, UNCHANGED row,
         \/ UNCHANGED tasks
         \/ \E w \in Workers : \E task :
              /\ Moves(w, task) /\ TaskEnds(task, row, stripe')
              /\ \A s \in Subs : Attends(tasks[w], s) /\ Held(stripe'[s].status) =>
                   s = row.sub \/ Waiting(events', s) \/ Attends(task, s)
  PROVE  PlanInv'
<1>1. /\ IInv /\ AllCurrent /\ RowEnds(row, stripe) /\ Tended(stripe, row, events, tasks)
      /\ \A w \in Workers : TaskEnds(tasks[w], row, stripe)
  BY DEF PlanInv, AloneInv
<1>2. row.sub # NoSub => row.sub \in Subs
  BY <1>1 DEF IInv, TypeOK, Row
<1>3. RowEnds(row, stripe')
  BY <1>1, <1>2 DEF RowEnds, PlansKept, EndsStay
<1>4. ASSUME NEW w \in Workers PROVE TaskEnds(tasks[w], row, stripe')
  <2>1. Current(tasks[w], row, now) /\ TaskBacked(tasks[w], stripe)
    BY <1>1 DEF AllCurrent, IInv, TasksBacked
  <2>2. /\ tasks[w].kind = "cancelNow" => row.sub \in Subs
        /\ tasks[w].kind = "confirm" => tasks[w].sub \in Subs
    BY <1>2, <2>1 DEF Current, TaskBacked
  <2>3. QED
    BY <1>1, <2>2 DEF TaskEnds, PlansKept, EndsStay
<1>5. Tended(stripe', row, events', tasks)
  BY <1>1 DEF Tended, PlansKept
<1>6. CASE UNCHANGED tasks
  BY <1>3, <1>4, <1>5, <1>6 DEF PlanInv, PlansKept
<1>7. ASSUME NEW w \in Workers, NEW task, Moves(w, task), TaskEnds(task, row, stripe'),
             \A s \in Subs : Attends(tasks[w], s) /\ Held(stripe'[s].status) =>
               s = row.sub \/ Waiting(events', s) \/ Attends(task, s)
      PROVE  PlanInv'
  <2>1. \A v \in Workers : tasks'[v] = IF v = w THEN task ELSE tasks[v]
    BY <1>1, <1>7 DEF Moves, IInv, TypeOK
  <2>2. \A v \in Workers : TaskEnds(tasks'[v], row, stripe')
    BY <1>4, <1>7, <2>1
  <2>3. Tended(stripe', row, events', tasks')
    <3> SUFFICES ASSUME NEW s \in Subs, Held(stripe'[s].status), s # row.sub, ~Waiting(events', s)
                 PROVE  \E v \in Workers : Attends(tasks'[v], s)
      BY DEF Tended
    <3>1. PICK v \in Workers : Attends(tasks[v], s)
      BY <1>5 DEF Tended
    <3>2. QED
      BY <1>7, <2>1, <3>1
  <2>4. QED
    BY <1>3, <1>7, <2>2, <2>3 DEF PlanInv, PlansKept
<1>8. QED
  BY <1>6, <1>7

(* Nothing is tended by the idle.                                             *)
LEMMA IdleTends ==
  /\ \A r, held : TaskEnds(Idle, r, held)
  /\ \A s : ~Attends(Idle, s)
  BY DEF TaskEnds, Attends, Idle

(* Stripe's and the member's steps leave nothing untended.                    *)
LEMMA OutsidePlans ==
  ASSUME PlanInv, AloneInv', "overlap" \notin Faults, Stripe \/ Member
  PROVE  PlanInv'
<1>1. /\ IInv /\ stripe \in [Subs -> Subscription] /\ events \in Seq(Event)
      /\ EndsAreTrue(events, stripe)
  BY DEF PlanInv, AloneInv, IInv, TypeOK
<1>2. CASE Tick
  BY <1>2, EventPlans, PlansStand DEF Tick
<1>3. ASSUME NEW s \in Subs, Pay(s) PROVE PlanInv'
  <2>1. PICK e \in Event :
          /\ events' = Append(events, e) /\ e.type = "checkout" /\ e.sub = s
          /\ EndsStay(stripe, stripe')
          /\ \A t \in Subs : Held(stripe'[t].status) => Held(stripe[t].status) \/ t = s
          /\ UNCHANGED <<row, tasks>>
    BY <1>1, <1>3, Pays DEF EndsStay
  <2>2. PlansKept
    BY <1>1, <2>1, CheckoutsAppended DEF PlansKept
  <2>3. QED
    BY <2>1, <2>2, PlansStand
<1>4. ASSUME NEW s \in Subs, Renew(s) \/ Retry(s) \/ Lapse(s) PROVE PlanInv'
  BY <1>1, <1>4, StripeTurns, TurnPlans, PlansStand
<1>5. ASSUME NEW s \in Subs, Decline(s) PROVE PlanInv'
  <2>1. PICK e \in Event, f \in Event :
          /\ events' = Append(Append(events, e), f)
          /\ e.type = "updated" /\ f.type = "failed"
          /\ EndsStay(stripe, stripe') /\ EndsStay(stripe', stripe')
          /\ \A t \in Subs : Held(stripe'[t].status) => Held(stripe[t].status)
          /\ UNCHANGED <<row, tasks>>
    BY <1>1, <1>5, Declines DEF EndsStay, Held
  <2> DEFINE longer == Append(events, e)
  <2>2. /\ longer \in Seq(Event) /\ EndsAreTrue(longer, stripe')
        /\ \A t \in Subs : Waiting(events, t) => Waiting(longer, t)
    BY <1>1, <2>1, CheckoutsAppended
  <2>3. events' = Append(longer, f)
    BY <2>1
  <2> HIDE DEF longer
  <2>4. /\ EndsAreTrue(events', stripe')
        /\ \A t \in Subs : Waiting(longer, t) => Waiting(events', t)
    BY <2>1, <2>2, <2>3, CheckoutsAppended
  <2>5. PlansKept
    BY <2>1, <2>2, <2>4 DEF PlansKept
  <2>6. QED
    BY <2>1, <2>5, PlansStand
<1>6. ASSUME NEW s \in Subs, NEW p \in Plans, NEW c \in Cycles, CreateCheckoutSession(s, p, c)
      PROVE  PlanInv'
  <2>1. /\ UNCHANGED <<events, row, tasks>> /\ EndsStay(stripe, stripe')
        /\ \A t \in Subs : Held(stripe'[t].status) => Held(stripe[t].status)
    BY <1>1, <1>6 DEF CreateCheckoutSession, Unused, EndsStay, Held
  <2>2. EndsAreTrue(events, stripe')
    <3>1. \A j \in DOMAIN events : events[j] \in Event
      BY <1>1, ElementOfSeq
    <3>2. QED
      BY <1>1, <2>1, <3>1 DEF EndsAreTrue, EndsStay, Event
  <2>3. QED
    BY <2>1, <2>2, PlansStand DEF PlansKept
<1>7. ASSUME NEW w \in Workers, NEW task, Moves(w, task), Request(task),
             UNCHANGED <<stripe, events, row>>, tasks[w] = Idle
      PROVE  PlanInv'
  <2>1. TaskEnds(task, row, stripe')
    BY <1>7 DEF TaskEnds, Request, Calling
  <2>2. QED
    BY <1>7, <2>1, EventPlans, PlansStand, IdleTends
<1>8. CASE Member
  BY <1>1, <1>6, <1>7, <1>8, Begins
<1>9. CASE Stripe
  BY <1>2, <1>3, <1>4, <1>5, <1>9 DEF Stripe
<1>10. QED
  BY <1>8, <1>9

(* A handler that is the only one at work writes the row.                     *)
LEMMA PlansWritten ==
  ASSUME PlanInv, AloneInv', UNCHANGED <<stripe, events>>, NEW w \in Workers,
         \A v \in Workers : v # w => tasks[v] = Idle,
         NEW task, Moves(w, task), TaskEnds(task, row', stripe), RowEnds(row', stripe),
         \A s \in Subs : Held(stripe[s].status) /\ (s = row.sub \/ Attends(tasks[w], s)) =>
           s = row'.sub \/ Attends(task, s)
  PROVE  PlanInv'
<1>1. \A v \in Workers : tasks'[v] = IF v = w THEN task ELSE Idle
  BY DEF Moves, PlanInv, AloneInv, IInv, TypeOK
<1>2. \A v \in Workers : TaskEnds(tasks'[v], row', stripe)
  BY <1>1, IdleTends
<1>3. Tended(stripe, row', events, tasks')
  <2> SUFFICES ASSUME NEW s \in Subs, Held(stripe[s].status), ~Waiting(events, s)
               PROVE  s = row'.sub \/ \E v \in Workers : Attends(tasks'[v], s)
    BY DEF Tended
  <2>1. s = row.sub \/ Attends(tasks[w], s)
    BY IdleTends DEF PlanInv, Tended
  <2>2. QED
    BY <1>1, <2>1
<1>4. QED
  BY <1>2, <1>3 DEF PlanInv

(* The handlers' steps leave nothing untended, where Stripe answers.          *)
LEMMA HandlerPlans ==
  ASSUME PlanInv, AloneInv', "outage" \notin Faults, NEW w \in Workers, Step(w)
  PROVE  PlanInv'
<1> DEFINE task == tasks[w]
<1>1. /\ IInv /\ AloneInv /\ stripe \in [Subs -> Subscription] /\ row \in Row /\ task \in Task
      /\ TaskBacked(task, stripe) /\ Current(task, row, now)
      /\ TaskEnds(task, row, stripe) /\ RowEnds(row, stripe)
  BY DEF PlanInv, AloneInv, AllCurrent, IInv, TypeOK, TasksBacked
<1>2. row.sub # NoSub => row.sub \in Subs
  BY <1>1 DEF Row
<1>3. CASE CallStripe(w)
  <2>1. /\ UNCHANGED row /\ task.pc = "stripe" /\ task.kind \in Calling
        /\ task.seen.sub = row.sub /\ row.sub \in Subs
    BY <1>1, <1>2, <1>3, Calls DEF Current, Calling
  <2>2. \A s : ~Attends(task, s)
    BY <2>1 DEF Attends, Calling
  <2>3. CASE Moves(w, Idle) /\ UNCHANGED <<stripe, events>>
    BY <2>1, <2>2, <2>3, EventPlans, PlansStand, IdleTends
  <2>4. ASSUME NEW e, Turn(task.seen.sub, Amended(task), e),
               Moves(w, [task EXCEPT !.pc = "save"])
        PROVE  PlanInv'
    <3>1. PlansKept /\ stripe'[row.sub].status = Amended(task).status
      BY <2>1, <2>4, TurnPlans
    <3>2. task.kind = "cancelNow" => Amended(task).status = "canceled"
      BY <1>1, <2>1 DEF Amended, Subscription
    <3>3. TaskEnds([task EXCEPT !.pc = "save"], row, stripe')
      BY <1>1, <2>1, <3>1, <3>2 DEF TaskEnds, Calling, Task
    <3>4. QED
      BY <2>1, <2>2, <2>4, <3>1, <3>3, PlansStand
  <2>5. QED
    BY <1>1, <1>3, <2>3, <2>4, Calls
<1>4. CASE Save(w)
  <2>1. /\ task.kind # "confirm" /\ task.pc = "save" /\ row' = Written(task)
        /\ Moves(w, Idle) /\ UNCHANGED <<stripe, events>>
    BY <1>4 DEF Save, Finish, Moves
  <2>2. task.kind \in TaskKinds \ {"idle", "confirm"}
    BY <1>1, <2>1 DEF Current, Task, Idle
  <2>3. row'.sub = row.sub /\ row.sub # NoSub
    BY <1>1, <2>1, <2>2, WrittenWithin DEF Current
  <2>4. row'.status = "cancelled" => row.status = "cancelled" \/ task.kind = "cancelNow"
    BY <1>1, <2>1, <2>2 DEF Written, NothingQueued, Row, TaskKinds, RequestKinds
  <2>5. RowEnds(row', stripe)
    BY <1>1, <2>1, <2>3, <2>4 DEF RowEnds, TaskEnds
  <2>6. \A s : ~Attends(task, s)
    BY <2>1 DEF Attends
  <2>7. \A v \in Workers : v # w => tasks[v] = Idle
    BY <1>1, <2>1, OthersIdle
  <2>8. QED
    BY <2>1, <2>3, <2>5, <2>6, <2>7, IdleTends, PlansWritten
<1>5. CASE Fetch(w)
  <2> DEFINE next == [task EXCEPT !.status = stripe[task.sub].status,
                                  !.end = stripe[task.sub].end, !.pc = "load"]
  <2>1. task.pc = "fetch" /\ task.kind = "confirm" /\ UNCHANGED <<row, stripe>>
    BY <1>1, <1>5 DEF Fetch, TaskBacked
  <2>2. Moves(w, next) /\ UNCHANGED events
    BY <1>1, <1>5 DEF Fetch, Moves, IInv, TypeOK
  <2>3. /\ next.kind = "confirm" /\ next.status = stripe[task.sub].status /\ next.sub = task.sub
        /\ next.pc = "load" /\ next.hook = task.hook /\ next.seen = task.seen
    BY <1>1, <2>1 DEF Task
  <2> HIDE DEF next
  <2>4. TaskEnds(next, row, stripe')
    BY <2>1, <2>3 DEF TaskEnds
  <2>5. \A s : Attends(task, s) => Attends(next, s)
    BY <2>1, <2>3 DEF Attends
  <2>6. QED
    BY <2>1, <2>2, <2>4, <2>5, EventPlans, PlansStand
<1>6. CASE LoadPrevious(w)
  <2> DEFINE next == [task EXCEPT !.seen = row, !.pc = "save"]
  <2>1. /\ task.pc = "load" /\ task.kind = "confirm" /\ Moves(w, next)
        /\ UNCHANGED <<row, stripe, events>>
    BY <1>1, <1>6 DEF LoadPrevious, TaskBacked, Moves, IInv, TypeOK
  <2>2. /\ next.kind = task.kind /\ next.status = task.status /\ next.sub = task.sub
        /\ next.pc = "save" /\ next.hook = task.hook
    BY <1>1 DEF Task
  <2> HIDE DEF next
  <2>3. TaskEnds(next, row, stripe')
    BY <1>1, <2>1, <2>2 DEF TaskEnds
  <2>4. \A s : Attends(task, s) => Attends(next, s)
    BY <2>1, <2>2 DEF Attends
  <2>5. QED
    BY <2>1, <2>3, <2>4, EventPlans, PlansStand
<1>7. CASE Upsert(w)
  <2>1. task.kind = "confirm" /\ task.pc = "save" /\ UNCHANGED stripe /\ task.sub \in Subs
    BY <1>1, <1>7 DEF Upsert, TaskBacked
  <2>2. CASE task.status = "canceled" /\ Fail(w) /\ UNCHANGED row
    <3>1. Moves(w, Idle) /\ PlansKept
      BY <1>1, <2>1, <2>2, Fails, EventPlans
    <3>2. \A s \in Subs : Attends(task, s) => ~Held(stripe[s].status)
      BY <1>1, <2>1, <2>2 DEF Attends, TaskEnds, Held
    <3>3. QED
      BY <2>1, <2>2, <3>1, <3>2, IdleTends, PlansStand
  <2>3. CASE /\ task.status # "canceled"
             /\ row' = [NoRow EXCEPT !.sub = task.sub, !.plan = stripe[task.sub].bought,
                                     !.cycle = stripe[task.sub].term,
                                     !.status = task.status, !.end = task.end]
             /\ IF Replaces(task) THEN Advance(w, "replace") ELSE Finish(w)
             /\ UNCHANGED events
    <3>1. row'.sub = task.sub /\ row'.status = task.status /\ task.status # "cancelled"
      BY <1>1, <2>3 DEF NoRow, Task
    <3>2. RowEnds(row', stripe)
      BY <3>1 DEF RowEnds
    <3>3. \A v \in Workers : v # w => tasks[v] = Idle
      BY <1>1, <2>1, OthersIdle
    <3>4. \A s : Attends(task, s) => s = row'.sub
      BY <2>1, <3>1 DEF Attends
    <3>5. task.seen = row
      BY <1>1, <2>1 DEF Current
    <3>6. CASE Replaces(task)
      <4> DEFINE next == [task EXCEPT !.pc = "replace"]
      <4>1. Moves(w, next)
        BY <1>1, <2>3, <3>6 DEF Advance, Moves, IInv, TypeOK
      <4>2. next.kind = task.kind /\ next.status = task.status /\ next.seen = row
            /\ next.pc = "replace"
        BY <1>1, <3>5 DEF Task
      <4> HIDE DEF next
      <4>3. TaskEnds(next, row', stripe)
        BY <2>1, <2>3, <4>2 DEF TaskEnds
      <4>4. Attends(next, row.sub)
        BY <4>2 DEF Attends
      <4>5. QED
        BY <2>1, <2>3, <3>2, <3>3, <3>4, <4>1, <4>3, <4>4, PlansWritten
    <3>7. CASE ~Replaces(task)
      <4>1. Moves(w, Idle)
        BY <2>3, <3>7 DEF Finish, Moves
      <4>2. row.sub \in Subs /\ Held(stripe[row.sub].status) => row.sub = row'.sub
        BY <1>1, <3>1, <3>5, <3>7, BuyerPlanAssumption DEF Replaces, RowEnds, Held
      <4>3. QED
        BY <2>1, <2>3, <3>2, <3>3, <3>4, <4>1, <4>2, PlansWritten, IdleTends
    <3>8. QED
      BY <3>6, <3>7
  <2>4. QED
    BY <1>7, <2>2, <2>3 DEF Upsert
<1>8. CASE CancelReplaced(w)
  <2>1. UNCHANGED row /\ Moves(w, Idle) /\ task.seen.sub \in Subs /\ task.pc = "replace"
    BY <1>1, <1>8, Replacing
  <2>2. PlansKept /\ ~Held(stripe'[task.seen.sub].status)
    BY <1>1, <1>8, <2>1, Replacing, TurnPlans, EventPlans DEF Held
  <2>3. \A s : Attends(task, s) => s = task.seen.sub
    BY <2>1 DEF Attends
  <2>4. QED
    BY <2>1, <2>2, <2>3, IdleTends, PlansStand
<1>9. QED
  BY <1>3, <1>4, <1>5, <1>6, <1>7, <1>8 DEF Step

(* The webhook takes up every checkout that leaves the queue.                 *)
LEMMA WebhookPlans ==
  ASSUME PlanInv, AloneInv', "overlap" \notin Faults,
         NEW w \in Workers, NEW i \in DOMAIN events, Deliver(w, i)
  PROVE  PlanInv'
<1> DEFINE e == events[i]
<1>1. /\ IInv /\ events \in Seq(Event) /\ row \in Row /\ EndsAreTrue(events, stripe)
      /\ RowEnds(row, stripe) /\ Tended(stripe, row, events, tasks)
  BY DEF PlanInv, AloneInv, IInv, TypeOK
<1>2. /\ UNCHANGED stripe /\ \A v \in Workers : tasks[v] = Idle
      /\ e \in Event /\ EventBacked(e, stripe)
      /\ events' = RemoveAt(events, i) \/ UNCHANGED events
  BY <1>1, Delivered DEF Accept
<1>3. /\ EndsAreTrue(events', stripe)
      /\ \A s \in Subs : Waiting(events, s) =>
           (e.type = "checkout" /\ e.sub = s) \/ Waiting(events', s)
  BY <1>1, <1>2, CheckoutsTaken
<1>4. ASSUME NEW s \in Subs, Held(stripe[s].status)
      PROVE  s = row.sub \/ (e.type = "checkout" /\ e.sub = s) \/ Waiting(events', s)
  BY <1>1, <1>2, <1>3, <1>4, IdleTends DEF Tended
<1>5. CASE e.type # "checkout" /\ UNCHANGED tasks /\ row'.sub = row.sub /\ RowEnds(row', stripe)
  <2>1. Tended(stripe, row', events', tasks')
    BY <1>4, <1>5 DEF Tended
  <2>2. QED
    BY <1>2, <1>3, <1>5, <2>1, IdleTends DEF PlanInv
<1>6. ASSUME NEW task, Moves(w, task), UNCHANGED row, task.kind \in {"confirm", "failed"},
             task.status = "none", e.type = "checkout" => Attends(task, e.sub)
      PROVE  PlanInv'
  <2>1. \A v \in Workers : tasks'[v] = IF v = w THEN task ELSE Idle
    BY <1>1, <1>2, <1>6 DEF Moves, IInv, TypeOK
  <2>2. TaskEnds(task, row, stripe)
    BY <1>6 DEF TaskEnds
  <2>3. \A v \in Workers : TaskEnds(tasks'[v], row, stripe)
    BY <2>1, <2>2, IdleTends
  <2>4. Tended(stripe, row, events', tasks')
    BY <1>4, <1>6, <2>1 DEF Tended
  <2>5. QED
    BY <1>1, <1>2, <1>3, <1>6, <2>3, <2>4 DEF PlanInv
<1>7. CASE /\ e.type = "checkout" /\ UNCHANGED row
           /\ \E task : /\ Moves(w, task) /\ task.kind = "confirm" /\ task.pc = "fetch"
                        /\ task.sub = e.sub /\ task.hook /\ task.status = "none"
  BY <1>6, <1>7 DEF Attends
<1>8. CASE /\ e.type = "updated" /\ UNCHANGED tasks
           /\ row' = IF row.sub = e.sub THEN [row EXCEPT !.status = e.status, !.end = e.end]
                     ELSE row
  <2>1. e.status # "cancelled"
    BY <1>2 DEF Event
  <2>2. row'.sub = row.sub /\ RowEnds(row', stripe)
    BY <1>1, <1>8, <2>1 DEF Row, RowEnds
  <2>3. QED
    BY <1>5, <1>8, <2>2
<1>9. CASE /\ e.type = "deleted" /\ UNCHANGED tasks
           /\ row' = IF row.sub = e.sub THEN Ended(row) ELSE row
  <2>1. e.sub # NoSub /\ stripe[e.sub].status = "canceled"
    BY <1>1, <1>2, <1>9, BuyerPlanAssumption DEF EndsAreTrue, Event
  <2>2. row'.sub = row.sub /\ RowEnds(row', stripe)
    BY <1>1, <1>9, <2>1 DEF Row, RowEnds, Ended
  <2>3. QED
    BY <1>5, <1>9, <2>2
<1>10. CASE /\ e.type = "failed" /\ UNCHANGED row
            /\ \/ UNCHANGED tasks
               \/ /\ row.sub = e.sub
                  /\ \E task : /\ Moves(w, task) /\ task.kind = "failed" /\ task.pc = "save"
                               /\ task.sub = e.sub /\ task.status = "none"
  BY <1>1, <1>5, <1>6, <1>10
<1>11. QED
  BY <1>1, <1>7, <1>8, <1>9, <1>10, Delivered

(* Once every checkout has been recorded the member is billed for one plan,   *)
(* where handlers do not overlap nor die half way, Stripe answers, and        *)
(* nothing is lost: in whatever order it tells the webhook, and however       *)
(* often.                                                                     *)
THEOREM OnePlanIsBilled ==
  ASSUME {"overlap", "crash", "outage", "lose"} \cap Faults = {}
  PROVE  Spec => []OneBuyerPlan
<1>1. Init => PlanInv
  <2> SUFFICES ASSUME Init PROVE PlanInv
    OBVIOUS
  <2>1. AloneInv /\ events = <<>> /\ row.status = "none" /\ \A w \in Workers : tasks[w] = Idle
    BY InitAlone DEF Init, NoRow
  <2>2. \A s \in Subs : ~Held(stripe[s].status)
    BY DEF Init, Unused, Held
  <2>3. QED
    BY <2>1, <2>2, IdleTends DEF PlanInv, EndsAreTrue, RowEnds, Tended
<1>2. PlanInv /\ [Next]_vars => PlanInv'
  <2> SUFFICES ASSUME PlanInv, [Next]_vars PROVE PlanInv'
    OBVIOUS
  <2>1. AloneInv'
    BY AloneStep DEF PlanInv
  <2>2. CASE UNCHANGED vars
    BY <2>1, <2>2, EventPlans, PlansStand DEF vars
  <2>3. QED
    BY <2>1, <2>2, OutsidePlans, HandlerPlans, WebhookPlans DEF Next, Lose, Crash
<1>3. PlanInv => OneBuyerPlan
  <2> SUFFICES ASSUME PlanInv, Settled, NEW s \in Subs, Held(stripe[s].status)
               PROVE  s = row.sub
    BY DEF OneBuyerPlan
  <2>1. ~Waiting(events, s) /\ \A w \in Workers : ~Attends(tasks[w], s)
    BY IdleTends DEF Settled, Waiting
  <2>2. QED
    BY <2>1 DEF PlanInv, Tended
<1>4. QED
  BY <1>1, <1>2, <1>3, PTL DEF Spec

--------------------------------------------------------------------------------
(* A subscription not yet recorded is billed as it was bought.                *)
Fresh(s, r, held) == s # r.sub /\ held[s].plan = held[s].bought /\ held[s].renews

(* Each checkout on its way is of such a subscription, and on its way once.   *)
Unrecorded(queue, r, held) ==
  /\ \A i \in DOMAIN queue : queue[i].type = "checkout" => Fresh(queue[i].sub, r, held)
  /\ \A i, j \in DOMAIN queue :
       queue[i].type = "checkout" /\ queue[j].type = "checkout" /\ queue[i].sub = queue[j].sub
         => i = j

(* So is the one a handler is recording, which Stripe tells of no other time. *)
TaskFresh(task, r, queue, held) ==
  task.kind = "confirm" /\ task.pc # "replace" =>
    Fresh(task.sub, r, held) /\ ~Waiting(queue, task.sub)

FreshInv ==
  /\ \A s \in Subs : stripe[s].status = "offered" => stripe[s].plan = stripe[s].bought
  /\ Unrecorded(events, row, stripe)
  /\ \A w \in Workers : TaskFresh(tasks[w], row, events, stripe)

(* A handler between its call and its write: Stripe has it, the row has not.  *)
Between(task) == task.pc = "save" /\ task.kind \in {"schedule", "unschedule"}

TaskAgrees(task, r, billed) ==
  /\ Between(task) => billed = IF task.kind = "schedule" THEN task.plan ELSE r.plan
  /\ task.pc = "save" => task.kind # "cancelNow"

(* What the row announces and what Stripe will bill, while it still bills.    *)
RowAgrees ==
  RowExists /\ Held(stripe[row.sub].status) =>
    /\ row.pending \notin {NoPlan, Free} => ~row.cancelled
    /\ \A w \in Workers : TaskAgrees(tasks[w], row, NextByStripe)
    /\ NextByRow = NextByStripe \/ \E w \in Workers : Between(tasks[w])

Simple == {"schedule", "unschedule", "look", "cancelNow"}

NextInv ==
  /\ AloneInv /\ FreshInv /\ RowAgrees
  /\ \A w \in Workers : tasks[w].kind \in Simple \cup {"idle", "failed", "confirm"}

(* A checkout joins the queue that is not in it, or another event does.       *)
LEMMA FreshAppended ==
  ASSUME NEW queue \in Seq(Event), NEW e \in Event, NEW r, NEW held, Unrecorded(queue, r, held),
         e.type = "checkout" => Fresh(e.sub, r, held) /\ ~Waiting(queue, e.sub)
  PROVE  /\ Unrecorded(Append(queue, e), r, held)
         /\ \A s : Waiting(Append(queue, e), s) =>
              Waiting(queue, s) \/ (e.type = "checkout" /\ e.sub = s)
<1> DEFINE longer == Append(queue, e)
<1>1. /\ DOMAIN queue = 1..Len(queue) /\ longer[Len(queue) + 1] = e
      /\ \A j \in DOMAIN queue : longer[j] = queue[j]
      /\ \A j \in DOMAIN longer : j \in DOMAIN queue \/ j = Len(queue) + 1
  <2>1. \A j \in 1..(Len(queue) + 1) : j \in 1..Len(queue) \/ j = Len(queue) + 1
    OBVIOUS
  <2>2. QED
    BY <2>1, AppendedAt
<1> HIDE DEF longer
<1>2. QED
  BY <1>1 DEF Unrecorded, Waiting, longer

(* A checkout leaves the queue, and was in it once.                           *)
LEMMA FreshTaken ==
  ASSUME NEW queue \in Seq(Event), NEW i \in DOMAIN queue, NEW r, NEW held,
         Unrecorded(queue, r, held)
  PROVE  /\ Unrecorded(RemoveAt(queue, i), r, held)
         /\ \A s : Waiting(RemoveAt(queue, i), s) => Waiting(queue, s)
         /\ queue[i].type = "checkout" => ~Waiting(RemoveAt(queue, i), queue[i].sub)
<1> DEFINE rest == RemoveAt(queue, i)
           at(j) == IF j < i THEN j ELSE j + 1
<1>1. /\ DOMAIN queue = 1..Len(queue) /\ Len(queue) \in Nat
      /\ DOMAIN rest = 1..(Len(queue) - 1)
      /\ \A j \in 1..(Len(queue) - 1) : rest[j] = IF j < i THEN queue[j] ELSE queue[j + 1]
  BY RemovedAt
<1>2. \A j \in DOMAIN rest : at(j) \in DOMAIN queue /\ at(j) # i /\ rest[j] = queue[at(j)]
  BY <1>1
<1>3. \A j, k \in DOMAIN rest : at(j) = at(k) => j = k
  BY <1>1
<1> HIDE DEF rest, at
<1>4. Unrecorded(rest, r, held)
  BY <1>2, <1>3 DEF Unrecorded
<1>5. \A s : Waiting(rest, s) => Waiting(queue, s)
  BY <1>2 DEF Waiting
<1>6. queue[i].type = "checkout" => ~Waiting(rest, queue[i].sub)
  BY <1>2 DEF Waiting, Unrecorded
<1>7. QED
  BY <1>4, <1>5, <1>6 DEF rest

(* Nothing is amended of a subscription that is paid for and not on the row.  *)
Unamended ==
  \A s \in Subs : PaidIn(stripe, s) /\ s # row.sub =>
    /\ stripe'[s].plan = stripe[s].plan /\ stripe'[s].bought = stripe[s].bought
    /\ stripe'[s].renews = stripe[s].renews

(* What is fresh stays so until it is recorded.                               *)
LEMMA FreshHeld ==
  ASSUME NextInv, Unamended, row'.sub = row.sub
  PROVE  /\ Unrecorded(events, row', stripe')
         /\ \A w \in Workers : TaskFresh(tasks[w], row', events, stripe')
<1>1. /\ IInv /\ events \in Seq(Event) /\ Unrecorded(events, row, stripe)
      /\ \A w \in Workers : TaskFresh(tasks[w], row, events, stripe)
  BY DEF NextInv, FreshInv, AloneInv, IInv, TypeOK
<1>2. \A j \in DOMAIN events : events[j] \in Event
  BY <1>1, ElementOfSeq
<1>3. \A j \in DOMAIN events :
        events[j].sub \in Subs /\ (events[j].type = "checkout" => PaidIn(stripe, events[j].sub))
  BY <1>1, <1>2 DEF Event, IInv, EventsBacked, EventBacked
<1>4. \A s \in Subs : PaidIn(stripe, s) /\ Fresh(s, row, stripe) => Fresh(s, row', stripe')
  BY DEF Unamended, Fresh
<1>5. Unrecorded(events, row', stripe')
  BY <1>1, <1>3, <1>4 DEF Unrecorded
<1>6. \A w \in Workers : tasks[w].kind = "confirm" =>
        tasks[w].sub \in Subs /\ PaidIn(stripe, tasks[w].sub)
  BY <1>1 DEF IInv, TasksBacked, TaskBacked
<1>7. \A w \in Workers : TaskFresh(tasks[w], row', events, stripe')
  BY <1>1, <1>4, <1>6 DEF TaskFresh
<1>8. QED
  BY <1>5, <1>7

(* Stripe's subscriptions move on and no checkout joins the queue.            *)
LEMMA FreshStands ==
  ASSUME NextInv, Unamended, row'.sub = row.sub,
         \A s \in Subs : stripe'[s].status = "offered" => stripe'[s].plan = stripe'[s].bought,
         \/ UNCHANGED events
         \/ \E e \in Event : e.type # "checkout" /\ events' = Append(events, e)
         \/ \E i \in DOMAIN events : events' = RemoveAt(events, i),
         \/ UNCHANGED tasks
         \/ \E w \in Workers : \E task :
              /\ Moves(w, task)
              /\ TaskFresh(tasks[w], row', events', stripe') => TaskFresh(task, row', events', stripe')
  PROVE  FreshInv'
<1>1. /\ IInv /\ events \in Seq(Event)
  BY DEF NextInv, AloneInv, IInv, TypeOK
<1>2. /\ Unrecorded(events, row', stripe')
      /\ \A w \in Workers : TaskFresh(tasks[w], row', events, stripe')
  BY FreshHeld
<1>3. Unrecorded(events', row', stripe') /\ \A s : Waiting(events', s) => Waiting(events, s)
  <2>1. CASE UNCHANGED events
    BY <1>2, <2>1
  <2>2. ASSUME NEW e \in Event, e.type # "checkout", events' = Append(events, e)
        PROVE  Unrecorded(events', row', stripe') /\ \A s : Waiting(events', s) => Waiting(events, s)
    BY <1>1, <1>2, <2>2, FreshAppended
  <2>3. ASSUME NEW i \in DOMAIN events, events' = RemoveAt(events, i)
        PROVE  Unrecorded(events', row', stripe') /\ \A s : Waiting(events', s) => Waiting(events, s)
    BY <1>1, <1>2, <2>3, FreshTaken
  <2>4. QED
    BY <2>1, <2>2, <2>3
<1>4. \A w \in Workers : TaskFresh(tasks[w], row', events', stripe')
  BY <1>2, <1>3 DEF TaskFresh
<1>5. \A w \in Workers : TaskFresh(tasks'[w], row', events', stripe')
  BY <1>1, <1>4 DEF Moves, IInv, TypeOK
<1>6. QED
  BY <1>3, <1>5 DEF FreshInv

(* Neither what the row announces nor what Stripe bills for it changes.       *)
LEMMA AgreeStands ==
  ASSUME NextInv, row'.sub = row.sub, row'.plan = row.plan, row'.pending = row.pending,
         row'.cancelled = row.cancelled,
         RowExists /\ Held(stripe'[row.sub].status) =>
           /\ Held(stripe[row.sub].status)
           /\ stripe'[row.sub].plan = stripe[row.sub].plan
           /\ stripe'[row.sub].renews = stripe[row.sub].renews,
         \/ UNCHANGED tasks
         \/ \E w \in Workers : \E task :
              Moves(w, task) /\ ~Between(tasks[w]) /\ (task.pc = "save" => task.kind \in {"look", "confirm", "failed"})
  PROVE  RowAgrees'
<1> SUFFICES ASSUME RowExists', Held(stripe'[row'.sub].status) PROVE RowAgrees'
  BY DEF RowAgrees
<1>1. /\ RowExists /\ Held(stripe[row.sub].status) /\ RowAgrees /\ tasks \in [Workers -> Task]
  BY DEF RowExists, NextInv, AloneInv, IInv, TypeOK
<1>2. NextByStripe' = NextByStripe /\ NextByRow' = NextByRow
  BY DEF NextByStripe, NextByRow, RowExists
<1>3. row'.pending \notin {NoPlan, Free} => ~row'.cancelled
  BY <1>1 DEF RowAgrees
<1>4. \A v \in Workers : TaskAgrees(tasks[v], row, NextByStripe)
  BY <1>1 DEF RowAgrees
<1>5. CASE UNCHANGED tasks
  <2>1. \A v \in Workers : TaskAgrees(tasks'[v], row', NextByStripe')
    BY <1>2, <1>4, <1>5 DEF TaskAgrees, Between
  <2>2. (NextByRow = NextByStripe \/ \E w \in Workers : Between(tasks[w]))'
    BY <1>1, <1>2, <1>5 DEF RowAgrees, Between
  <2>3. QED
    BY <1>3, <2>1, <2>2 DEF RowAgrees
<1>6. ASSUME NEW w \in Workers, NEW task, Moves(w, task), ~Between(tasks[w]),
             task.pc = "save" => task.kind \in {"look", "confirm", "failed"}
      PROVE  RowAgrees'
  <2>1. \A v \in Workers : tasks'[v] = IF v = w THEN task ELSE tasks[v]
    BY <1>1, <1>6 DEF Moves
  <2>2. \A v \in Workers : TaskAgrees(tasks'[v], row', NextByStripe')
    <3> SUFFICES ASSUME NEW v \in Workers
                 PROVE  TaskAgrees(tasks'[v], row', NextByStripe')
      OBVIOUS
    <3>1. CASE v = w
      BY <1>6, <2>1, <3>1 DEF TaskAgrees, Between
    <3>2. CASE v # w
      BY <1>2, <1>4, <2>1, <3>2 DEF TaskAgrees, Between
    <3>3. QED
      BY <3>1, <3>2
  <2>3. (NextByRow = NextByStripe \/ \E v \in Workers : Between(tasks[v]))'
    BY <1>1, <1>2, <1>6, <2>1 DEF RowAgrees, Between
  <2>4. QED
    BY <1>3, <2>2, <2>3 DEF RowAgrees
<1>7. QED
  BY <1>5, <1>6

(* The kinds of the handlers at work.                                         *)
LEMMA KindsStand ==
  ASSUME NextInv,
         \/ UNCHANGED tasks
         \/ \E w \in Workers : \E task :
              Moves(w, task) /\ task.kind \in Simple \cup {"idle", "failed", "confirm"}
  PROVE  \A w \in Workers : tasks'[w].kind \in Simple \cup {"idle", "failed", "confirm"}
  BY DEF NextInv, AloneInv, IInv, TypeOK, Moves

(* Nothing is fresh, or half written, of the idle.                            *)
LEMMA IdleAgrees ==
  /\ ~Between(Idle) /\ Idle.pc # "save" /\ Idle.kind = "idle"
  /\ \A r, billed : TaskAgrees(Idle, r, billed)
  /\ \A r, queue, held : TaskFresh(Idle, r, queue, held)
  BY DEF Between, TaskAgrees, TaskFresh, Idle

(* The initial states.                                                        *)
LEMMA InitNext == Init => NextInv
<1> SUFFICES ASSUME Init PROVE NextInv
  OBVIOUS
<1>1. AloneInv /\ events = <<>> /\ row.sub = NoSub /\ \A w \in Workers : tasks[w] = Idle
  BY InitAlone DEF Init, NoRow
<1>2. \A s \in Subs : stripe[s].status = "unused"
  BY DEF Init, Unused
<1>3. FreshInv
  BY <1>1, <1>2, IdleAgrees DEF FreshInv, Unrecorded
<1>4. QED
  BY <1>1, <1>3, IdleAgrees DEF NextInv, RowAgrees, RowExists

(* Stripe's and the member's steps keep what is announced and what is billed. *)
LEMMA OutsideNext ==
  ASSUME NextInv, AloneInv', "overlap" \notin Faults, Requests \subseteq Simple, Stripe \/ Member
  PROVE  NextInv'
<1>1. /\ IInv /\ RowWithin(row, stripe) /\ stripe \in [Subs -> Subscription]
      /\ events \in Seq(Event)
      /\ \A s \in Subs : stripe[s].status = "offered" => stripe[s].plan = stripe[s].bought
  BY DEF NextInv, FreshInv, AloneInv, IInv, TypeOK
<1>2. RowExists => row.sub \in Subs /\ PaidIn(stripe, row.sub)
  BY <1>1 DEF RowExists, RowWithin, IInv, TypeOK, Row
<1>3. CASE Tick
  BY <1>1, <1>3, FreshStands, AgreeStands, KindsStand DEF Tick, Unamended, NextInv
<1>4. ASSUME NEW s \in Subs, NEW sub, UNCHANGED <<row, tasks>>,
             stripe' = [stripe EXCEPT ![s] = sub], PaidIn(stripe, s),
             sub.plan = stripe[s].plan, sub.bought = stripe[s].bought,
             sub.renews = stripe[s].renews, sub.status # "offered",
             Held(sub.status) => Held(stripe[s].status)
      PROVE  /\ Unamended /\ RowAgrees'
             /\ \A t \in Subs : stripe'[t].status = "offered" => stripe'[t].plan = stripe'[t].bought
             /\ \A w \in Workers : tasks'[w].kind \in Simple \cup {"idle", "failed", "confirm"}
  <2>1. \A t \in Subs : stripe'[t] = IF t = s THEN sub ELSE stripe[t]
    BY <1>1, <1>4
  <2>2. RowExists /\ Held(stripe'[row.sub].status) =>
          /\ Held(stripe[row.sub].status)
          /\ stripe'[row.sub].plan = stripe[row.sub].plan
          /\ stripe'[row.sub].renews = stripe[row.sub].renews
    BY <1>2, <1>4, <2>1
  <2>3. RowAgrees'
    BY <1>4, <2>2, AgreeStands
  <2>4. Unamended /\ \A t \in Subs : stripe'[t].status = "offered" => stripe'[t].plan = stripe'[t].bought
    BY <1>1, <1>4, <2>1 DEF Unamended
  <2>5. QED
    BY <1>4, <2>3, <2>4, KindsStand
<1>5. ASSUME NEW s \in Subs, Renew(s) \/ Retry(s) \/ Lapse(s) PROVE NextInv'
  <2>1. PICK sub \in Subscription, e \in Event :
          /\ UNCHANGED <<row, tasks>> /\ stripe' = [stripe EXCEPT ![s] = sub] /\ PaidIn(stripe, s)
          /\ sub.plan = stripe[s].plan /\ sub.bought = stripe[s].bought
          /\ sub.renews = stripe[s].renews /\ sub.status # "offered" /\ Held(stripe[s].status)
          /\ e.type # "checkout" /\ events' = Append(events, e)
    BY <1>1, <1>5, StripeTurns DEF Turn, PaidIn, Held
  <2>2. QED
    BY <1>4, <2>1, FreshStands DEF NextInv
<1>6. ASSUME NEW s \in Subs, Decline(s) PROVE NextInv'
  <2>1. PICK sub \in Subscription, e \in Event, f \in Event :
          /\ UNCHANGED <<row, tasks>> /\ stripe' = [stripe EXCEPT ![s] = sub] /\ PaidIn(stripe, s)
          /\ sub.plan = stripe[s].plan /\ sub.bought = stripe[s].bought
          /\ sub.renews = stripe[s].renews /\ sub.status # "offered" /\ Held(stripe[s].status)
          /\ e.type # "checkout" /\ f.type # "checkout"
          /\ events' = Append(Append(events, e), f)
    BY <1>1, <1>6, Declines DEF PaidIn, Held
  <2>2. /\ Unamended /\ RowAgrees'
        /\ \A t \in Subs : stripe'[t].status = "offered" => stripe'[t].plan = stripe'[t].bought
        /\ \A w \in Workers : tasks'[w].kind \in Simple \cup {"idle", "failed", "confirm"}
    BY <1>4, <2>1
  <2>3. /\ Unrecorded(events, row', stripe')
        /\ \A w \in Workers : TaskFresh(tasks[w], row', events, stripe')
    BY <2>1, <2>2, FreshHeld
  <2> DEFINE longer == Append(events, e)
  <2>4. /\ longer \in Seq(Event) /\ Unrecorded(longer, row', stripe')
        /\ \A t : Waiting(longer, t) => Waiting(events, t)
    BY <1>1, <2>1, <2>3, FreshAppended
  <2>5. events' = Append(longer, f)
    BY <2>1
  <2> HIDE DEF longer
  <2>6. /\ Unrecorded(events', row', stripe')
        /\ \A t : Waiting(events', t) => Waiting(longer, t)
    BY <2>1, <2>4, <2>5, FreshAppended
  <2>7. \A w \in Workers : TaskFresh(tasks[w], row', events', stripe')
    BY <2>3, <2>4, <2>6 DEF TaskFresh
  <2>8. FreshInv'
    BY <2>1, <2>2, <2>6, <2>7 DEF FreshInv
  <2>9. QED
    BY <2>2, <2>8 DEF NextInv
<1>7. ASSUME NEW s \in Subs, Pay(s) PROVE NextInv'
  <2>1. PICK sub \in Subscription, e \in Event :
          /\ UNCHANGED <<row, tasks>> /\ stripe' = [stripe EXCEPT ![s] = sub]
          /\ stripe[s].status = "offered" /\ sub.status = "active"
          /\ sub.plan = stripe[s].plan /\ sub.bought = stripe[s].bought /\ sub.renews
          /\ e.type = "checkout" /\ e.sub = s /\ events' = Append(events, e)
    BY <1>1, <1>7, Pays
  <2>2. ~PaidIn(stripe, s) /\ row.sub # s
    BY <1>1, <1>2, <2>1, BuyerPlanAssumption DEF PaidIn, RowExists
  <2>3. \A t \in Subs : stripe'[t] = IF t = s THEN sub ELSE stripe[t]
    BY <1>1, <2>1
  <2>4. Unamended
    BY <2>2, <2>3 DEF Unamended
  <2>5. /\ Unrecorded(events, row', stripe')
        /\ \A w \in Workers : TaskFresh(tasks[w], row', events, stripe')
    BY <2>1, <2>4, FreshHeld
  <2>6. ~Waiting(events, s)
    BY <1>1, <2>2 DEF Waiting, IInv, EventsBacked, EventBacked
  <2>7. Fresh(s, row', stripe')
    BY <1>1, <2>1, <2>2, <2>3 DEF Fresh
  <2>8. /\ Unrecorded(events', row', stripe')
        /\ \A t : Waiting(events', t) => Waiting(events, t) \/ t = s
    BY <1>1, <2>1, <2>5, <2>6, <2>7, FreshAppended
  <2>9. \A w \in Workers : tasks[w].kind = "confirm" => tasks[w].sub # s
    BY <1>1, <2>2 DEF IInv, TasksBacked, TaskBacked
  <2>10. FreshInv'
    BY <1>1, <2>1, <2>3, <2>5, <2>8, <2>9 DEF FreshInv, TaskFresh
  <2>11. RowAgrees'
    BY <1>2, <2>1, <2>2, <2>3, AgreeStands
  <2>12. QED
    BY <2>1, <2>10, <2>11, KindsStand DEF NextInv
<1>8. ASSUME NEW s \in Subs, NEW p \in Plans, NEW c \in Cycles, CreateCheckoutSession(s, p, c)
      PROVE  NextInv'
  <2> DEFINE sub == [Unused EXCEPT !.status = "offered", !.bought = p, !.term = c,
                                   !.plan = p, !.cycle = c]
  <2>1. /\ UNCHANGED <<events, row, tasks>> /\ stripe' = [stripe EXCEPT ![s] = sub]
        /\ ~PaidIn(stripe, s) /\ sub.plan = sub.bought
    BY <1>8 DEF CreateCheckoutSession, PaidIn, Unused
  <2> HIDE DEF sub
  <2>2. row.sub # s
    BY <1>1, <1>2, <2>1, BuyerPlanAssumption DEF RowExists
  <2>3. \A t \in Subs : stripe'[t] = IF t = s THEN sub ELSE stripe[t]
    BY <1>1, <2>1
  <2>4. FreshInv'
    BY <1>1, <2>1, <2>3, FreshStands DEF Unamended
  <2>5. RowAgrees'
    BY <1>2, <2>1, <2>2, <2>3, AgreeStands
  <2>6. QED
    BY <2>1, <2>4, <2>5, KindsStand DEF NextInv
<1>9. ASSUME NEW w \in Workers, NEW task, Moves(w, task), Request(task), tasks[w] = Idle,
             UNCHANGED <<stripe, events, row>>
      PROVE  NextInv'
  <2>1. task.kind \in Simple /\ (task.pc = "save" => task.kind = "look")
    BY <1>9 DEF Request, Simple
  <2>2. task.kind # "confirm"
    BY <2>1 DEF Simple
  <2>3. FreshInv'
    BY <1>1, <1>9, <2>2, FreshStands DEF Unamended, TaskFresh
  <2>4. RowAgrees'
    BY <1>9, <2>1, AgreeStands, IdleAgrees
  <2>5. QED
    BY <1>9, <2>1, <2>3, <2>4, KindsStand DEF NextInv
<1>10. CASE Member
  BY <1>1, <1>8, <1>9, <1>10, Begins
<1>11. CASE Stripe
  BY <1>3, <1>5, <1>6, <1>7, <1>11 DEF Stripe
<1>12. QED
  BY <1>10, <1>11

(* A handler that fails while it records a checkout lets Stripe tell of it.   *)
LEMMA FailNext ==
  ASSUME NextInv, AloneInv', NEW w \in Workers, Fail(w), UNCHANGED <<stripe, row>>,
         tasks[w].kind = "confirm", tasks[w].pc # "replace"
  PROVE  NextInv'
<1> DEFINE task == tasks[w]
<1>1. /\ IInv /\ AloneInv /\ events \in Seq(Event) /\ Unrecorded(events, row, stripe)
      /\ Fresh(task.sub, row, stripe) /\ ~Waiting(events, task.sub)
  BY DEF NextInv, FreshInv, TaskFresh, AloneInv, IInv, TypeOK
<1>2. Moves(w, Idle) /\ \A v \in Workers : v # w => tasks[v] = Idle
  BY <1>1, Fails, OthersIdle
<1>3. UNCHANGED events
      \/ \E e \in Event : e.type = "checkout" /\ e.sub = task.sub /\ events' = Append(events, e)
  BY <1>1, Fails
<1>4. Unrecorded(events', row, stripe)
  <2>1. CASE UNCHANGED events
    BY <1>1, <2>1
  <2>2. ASSUME NEW e \in Event, e.type = "checkout", e.sub = task.sub, events' = Append(events, e)
        PROVE  Unrecorded(events', row, stripe)
    BY <1>1, <2>2, FreshAppended
  <2>3. QED
    BY <1>3, <2>1, <2>2
<1>5. \A v \in Workers : tasks'[v] = Idle
  BY <1>1, <1>2 DEF Moves, IInv, TypeOK
<1>6. FreshInv'
  BY <1>4, <1>5, IdleAgrees DEF FreshInv, NextInv
<1>7. RowAgrees'
  BY <1>2, IdleAgrees, AgreeStands DEF Between
<1>8. QED
  BY <1>2, <1>6, <1>7, IdleAgrees, KindsStand DEF NextInv

(* A request's call and its write: one after the other, and nothing between.  *)
LEMMA RequestNext ==
  ASSUME NextInv, AloneInv', NEW w \in Workers, CallStripe(w) \/ Save(w)
  PROVE  NextInv'
<1> DEFINE task == tasks[w]
<1>1. /\ IInv /\ AloneInv /\ stripe \in [Subs -> Subscription] /\ row \in Row /\ task \in Task
      /\ TaskBacked(task, stripe) /\ Current(task, row, now) /\ RowAgrees
      /\ task.kind \in Simple \cup {"idle", "failed", "confirm"}
      /\ \A s \in Subs : stripe[s].status = "offered" => stripe[s].plan = stripe[s].bought
  BY DEF NextInv, FreshInv, AloneInv, AllCurrent, IInv, TypeOK, TasksBacked
<1>3. CASE CallStripe(w)
  <2>1. /\ UNCHANGED row /\ task.pc = "stripe" /\ task.kind \in {"schedule", "unschedule", "cancelNow"}
        /\ task.seen = row /\ row.sub \in Subs
    BY <1>1, <1>3, Calls DEF Current, Calling, Simple
  <2>2. CASE Moves(w, Idle) /\ UNCHANGED <<stripe, events>>
    <3>1. FreshInv'
      BY <1>1, <2>1, <2>2, FreshStands, IdleAgrees DEF Unamended
    <3>2. RowAgrees'
      BY <2>1, <2>2, AgreeStands, IdleAgrees DEF Between
    <3>3. QED
      BY <2>2, <3>1, <3>2, KindsStand, IdleAgrees DEF NextInv
  <2>3. ASSUME NEW e, Turn(task.seen.sub, Amended(task), e),
               Moves(w, [task EXCEPT !.pc = "save"])
        PROVE  NextInv'
    <3> DEFINE next == [task EXCEPT !.pc = "save"]
               sub == Amended(task)
    <3>1. /\ Held(stripe[row.sub].status) /\ stripe' = [stripe EXCEPT ![row.sub] = sub]
          /\ sub.status # "offered"
          /\ e \in Event /\ e.type # "checkout" /\ events' = Append(events, e)
      BY <2>1, <2>3 DEF Turn
    <3>2. next.kind = task.kind /\ next.pc = "save" /\ next.plan = task.plan
      BY <1>1 DEF Task
    <3>3. \A t \in Subs : stripe'[t] = IF t = row.sub THEN sub ELSE stripe[t]
      BY <1>1, <3>1
    <3>4. FreshInv'
      <4>1. Unamended /\ \A t \in Subs : stripe'[t].status = "offered" => stripe'[t].plan = stripe'[t].bought
        BY <1>1, <3>1, <3>3 DEF Unamended
      <4>2. TaskFresh(next, row', events', stripe')
        BY <2>1, <3>2 DEF TaskFresh
      <4> HIDE DEF next
      <4>3. QED
        BY <2>1, <2>3, <3>1, <4>1, <4>2, FreshStands DEF next
    <3>5. stripe[row.sub] \in Subscription
      BY <1>1, <2>1
    <3>6. task.kind = "cancelNow" => ~Held(stripe'[row.sub].status)
      BY <2>1, <3>3, <3>5 DEF Amended, Subscription, Held
    <3>7. task.kind = "schedule" => NextByStripe' = task.plan
      <4>1. CASE task.plan = Free
        BY <2>1, <3>3, <3>5, <4>1 DEF Amended, NextByStripe, Subscription
      <4>2. CASE task.plan # Free
        BY <2>1, <3>3, <3>5, <4>2
           DEF Amended, ScheduleSubscriptionPriceChange, NextByStripe, Subscription
      <4>3. QED
        BY <4>1, <4>2
    <3>8. task.kind = "unschedule" => NextByStripe' = row.plan
      BY <2>1, <3>3, <3>5
         DEF Amended, ScheduleSubscriptionPriceChange, NextByStripe, Subscription
    <3>9. RowAgrees'
      <4> SUFFICES ASSUME RowExists', Held(stripe'[row'.sub].status) PROVE RowAgrees'
        BY DEF RowAgrees
      <4>1. task.kind \in {"schedule", "unschedule"}
        BY <2>1, <3>6
      <4>2. row'.pending \notin {NoPlan, Free} => ~row'.cancelled
        BY <1>1, <2>1, <3>1 DEF RowAgrees, RowExists
      <4>3. \A v \in Workers : tasks'[v] = IF v = w THEN next ELSE Idle
        BY <1>1, <2>1, <2>3, OthersIdle DEF Moves, IInv, TypeOK
      <4>4. TaskAgrees(next, row', NextByStripe') /\ Between(next)
        BY <2>1, <3>2, <3>7, <3>8, <4>1 DEF TaskAgrees, Between
      <4> HIDE DEF next
      <4>5. \A v \in Workers : TaskAgrees(tasks'[v], row', NextByStripe')
        BY <4>3, <4>4, IdleAgrees
      <4>6. \E v \in Workers : Between(tasks'[v])
        BY <4>3, <4>4
      <4>7. QED
        BY <4>2, <4>5, <4>6 DEF RowAgrees
    <3>10. QED
      BY <1>1, <2>3, <3>2, <3>4, <3>9, KindsStand DEF NextInv
  <2>4. QED
    BY <1>1, <1>3, <2>2, <2>3, Calls
<1>4. CASE Save(w)
  <2>1. /\ task.kind # "confirm" /\ task.pc = "save" /\ row' = Written(task)
        /\ Moves(w, Idle) /\ UNCHANGED <<stripe, events>>
    BY <1>4 DEF Save, Finish, Moves
  <2>2. task.kind \in Simple \cup {"failed"} /\ task.kind \in TaskKinds \ {"idle", "confirm"}
    BY <1>1, <2>1 DEF Current, Task, Idle
  <2>3. row'.sub = row.sub /\ row.sub # NoSub
    BY <1>1, <2>1, <2>2, WrittenWithin DEF Current
  <2>4. FreshInv'
    BY <1>1, <2>1, <2>3, FreshStands, IdleAgrees DEF Unamended
  <2>5. \A v \in Workers : tasks'[v] = Idle /\ (v # w => tasks[v] = Idle)
    BY <1>1, <2>1, OthersIdle DEF Moves, IInv, TypeOK
  <2>6. ASSUME Held(stripe[row.sub].status)
        PROVE  /\ row'.pending \notin {NoPlan, Free} => ~row'.cancelled
               /\ NextByRow' = NextByStripe
    <3>1. /\ row.pending \notin {NoPlan, Free} => ~row.cancelled
          /\ TaskAgrees(task, row, NextByStripe)
          /\ ~Between(task) => NextByRow = NextByStripe
      BY <1>1, <2>3, <2>5, <2>6, IdleAgrees DEF RowAgrees, RowExists
    <3>2. CASE task.kind = "schedule"
      <4>1. NextByStripe = task.plan /\ task.plan # NoPlan
        BY <1>1, <2>1, <3>1, <3>2 DEF TaskAgrees, Between, Task, Plans, NoPlan
      <4>2. row' = [row EXCEPT !.pending = task.plan, !.pendingCycle = task.cycle,
                               !.changeAt = task.seen.end, !.cancelled = (task.plan = Free)]
        BY <2>1, <3>2 DEF Written
      <4>3. row'.pending = task.plan
        BY <1>1, <4>2 DEF Row
      <4>4. row'.cancelled = (task.plan = Free)
        BY <1>1, <4>2, Zenon DEF Row
      <4>5. task.plan # Free => ~row'.cancelled
        BY <4>4
      <4>6. QED
        BY <4>1, <4>3, <4>5 DEF NextByRow
    <3>3. CASE task.kind = "unschedule"
      <4>1. /\ row'.pending = NoPlan /\ ~row'.cancelled /\ row'.plan = row.plan
            /\ NextByStripe = row.plan
        BY <1>1, <2>1, <3>1, <3>3 DEF Written, NothingQueued, Row, TaskAgrees, Between
      <4>2. QED
        BY <4>1 DEF NextByRow
    <3>4. CASE task.kind = "look"
      <4>1. /\ row'.pending = NoPlan /\ row'.plan = row.pending /\ row'.cancelled = row.cancelled
            /\ row.pending # NoPlan
        BY <1>1, <2>1, <3>4 DEF Written, NothingQueued, Row, Current
      <4>2. row.pending = NextByStripe
        BY <3>1, <3>4, <4>1 DEF NextByRow, Between
      <4>3. QED
        BY <3>1, <4>1, <4>2 DEF NextByRow
    <3>5. CASE task.kind = "failed"
      <4>1. row'.pending = row.pending /\ row'.plan = row.plan /\ row'.cancelled = row.cancelled
        BY <1>1, <2>1, <3>5 DEF Written, Row
      <4>2. QED
        BY <3>1, <3>5, <4>1 DEF NextByRow, Between
    <3>6. task.kind # "cancelNow"
      BY <2>1, <3>1 DEF TaskAgrees
    <3>7. QED
      BY <2>2, <3>2, <3>3, <3>4, <3>5, <3>6 DEF Simple
  <2>7. NextByStripe' = NextByStripe
    BY <2>1, <2>3 DEF NextByStripe
  <2>8. \A v \in Workers : TaskAgrees(tasks'[v], row', NextByStripe')
    BY <2>5, IdleAgrees
  <2>9. RowAgrees'
    BY <2>1, <2>3, <2>6, <2>7, <2>8 DEF RowAgrees
  <2>10. QED
    BY <2>1, <2>4, <2>9, KindsStand, IdleAgrees DEF NextInv
<1>5. QED
  BY <1>3, <1>4

(* Recording a checkout puts on the row what Stripe bills for it.             *)
LEMMA RecordNext ==
  ASSUME NextInv, AloneInv', NEW w \in Workers,
         Fetch(w) \/ LoadPrevious(w) \/ Upsert(w) \/ CancelReplaced(w)
  PROVE  NextInv'
<1> DEFINE task == tasks[w]
<1>1. /\ IInv /\ AloneInv /\ stripe \in [Subs -> Subscription] /\ row \in Row /\ task \in Task
      /\ events \in Seq(Event)
      /\ TaskBacked(task, stripe) /\ Current(task, row, now) /\ Unrecorded(events, row, stripe)
      /\ TaskFresh(task, row, events, stripe)
      /\ \A s \in Subs : stripe[s].status = "offered" => stripe[s].plan = stripe[s].bought
  BY DEF NextInv, FreshInv, AloneInv, AllCurrent, IInv, TypeOK, TasksBacked
<1>2. ASSUME NEW next, Moves(w, next), UNCHANGED <<stripe, row, events>>, task.kind = "confirm",
             next.kind = "confirm", next.sub = task.sub, task.pc # "replace"
      PROVE  NextInv'
  <2>1. TaskFresh(next, row', events', stripe')
    BY <1>1, <1>2 DEF TaskFresh
  <2>2. FreshInv'
    BY <1>1, <1>2, <2>1, FreshStands DEF Unamended
  <2>3. RowAgrees'
    BY <1>2, AgreeStands DEF Between
  <2>4. QED
    BY <1>2, <2>2, <2>3, KindsStand DEF NextInv
<1>3. CASE Fetch(w)
  <2> DEFINE next == [task EXCEPT !.status = stripe[task.sub].status,
                                  !.end = stripe[task.sub].end, !.pc = "load"]
  <2>1. task.pc = "fetch" /\ task.kind = "confirm" /\ UNCHANGED <<row, stripe>>
    BY <1>1, <1>3 DEF Fetch, TaskBacked
  <2>2. CASE Fail(w)
    BY <2>1, <2>2, FailNext
  <2>3. CASE Moves(w, next) /\ UNCHANGED events
    <3>1. next.kind = "confirm" /\ next.sub = task.sub
      BY <1>1, <2>1 DEF Task
    <3> HIDE DEF next
    <3>2. QED
      BY <1>2, <2>1, <2>3, <3>1
  <2>4. QED
    BY <1>1, <1>3, <2>2, <2>3 DEF Fetch, Moves, IInv, TypeOK
<1>4. CASE LoadPrevious(w)
  <2> DEFINE next == [task EXCEPT !.seen = row, !.pc = "save"]
  <2>1. /\ task.pc = "load" /\ task.kind = "confirm" /\ Moves(w, next)
        /\ UNCHANGED <<row, stripe, events>>
    BY <1>1, <1>4 DEF LoadPrevious, TaskBacked, Moves, IInv, TypeOK
  <2>2. next.kind = task.kind /\ next.sub = task.sub
    BY <1>1 DEF Task
  <2> HIDE DEF next
  <2>3. QED
    BY <1>2, <2>1, <2>2
<1>5. CASE Upsert(w)
  <2>1. task.kind = "confirm" /\ task.pc = "save" /\ UNCHANGED stripe /\ task.sub \in Subs
    BY <1>1, <1>5 DEF Upsert, TaskBacked
  <2>2. CASE Fail(w) /\ UNCHANGED row
    BY <2>1, <2>2, FailNext
  <2>3. CASE /\ row' = [NoRow EXCEPT !.sub = task.sub, !.plan = stripe[task.sub].bought,
                                     !.cycle = stripe[task.sub].term,
                                     !.status = task.status, !.end = task.end]
             /\ IF Replaces(task) THEN Advance(w, "replace") ELSE Finish(w)
             /\ UNCHANGED events
    <3>1. /\ row'.sub = task.sub /\ row'.plan = stripe[task.sub].bought
          /\ row'.pending = NoPlan /\ ~row'.cancelled
      BY <2>3 DEF NoRow
    <3>2. Fresh(task.sub, row, stripe) /\ ~Waiting(events, task.sub)
      BY <1>1, <2>1 DEF TaskFresh
    <3>3. Unrecorded(events, row', stripe)
      BY <1>1, <3>1, <3>2 DEF Unrecorded, Fresh, Waiting
    <3>4. PICK next : /\ Moves(w, next)
                      /\ (next.pc = "replace" /\ next.kind = "confirm") \/ next = Idle
      <4>1. CASE Replaces(task)
        <5> DEFINE next == [task EXCEPT !.pc = "replace"]
        <5>1. Moves(w, next)
          BY <1>1, <2>3, <4>1 DEF Advance, Moves, IInv, TypeOK
        <5>2. next.pc = "replace" /\ next.kind = "confirm"
          BY <1>1, <2>1 DEF Task
        <5>3. QED
          BY <5>1, <5>2
      <4>2. CASE ~Replaces(task)
        BY <2>3, <4>2 DEF Finish, Moves
      <4>3. QED
        BY <4>1, <4>2
    <3>5. \A v \in Workers : tasks'[v] = IF v = w THEN next ELSE Idle
      BY <1>1, <2>1, <3>4, OthersIdle DEF Moves, IInv, TypeOK
    <3>6. /\ \A r, queue, held : TaskFresh(next, r, queue, held)
          /\ \A r, billed : TaskAgrees(next, r, billed)
      BY <3>4, IdleAgrees DEF TaskFresh, TaskAgrees, Between
    <3>7. \A v \in Workers : TaskFresh(tasks'[v], row', events', stripe')
      BY <3>5, <3>6, IdleAgrees
    <3>8. FreshInv'
      BY <1>1, <2>1, <2>3, <3>3, <3>7 DEF FreshInv
    <3>9. NextByRow' = NextByStripe'
      BY <2>1, <3>1, <3>2 DEF NextByRow, NextByStripe, Fresh
    <3>10. \A v \in Workers : TaskAgrees(tasks'[v], row', NextByStripe')
      BY <3>5, <3>6, IdleAgrees
    <3>11. RowAgrees'
      BY <3>1, <3>9, <3>10 DEF RowAgrees
    <3>12. QED
      BY <3>4, <3>8, <3>11, KindsStand, IdleAgrees DEF NextInv
  <2>4. QED
    BY <1>5, <2>2, <2>3 DEF Upsert
<1>6. CASE CancelReplaced(w)
  <2> DEFINE old == task.seen.sub
  <2>1. UNCHANGED row /\ Moves(w, Idle) /\ old \in Subs /\ task.pc = "replace" /\ row.sub # old
    BY <1>1, <1>6, Replacing DEF Current
  <2>2. /\ Unamended
        /\ \A t \in Subs : stripe'[t].status = "offered" => stripe'[t].plan = stripe'[t].bought
        /\ UNCHANGED events \/ \E e \in Event : e.type # "checkout" /\ events' = Append(events, e)
        /\ RowExists => stripe'[row.sub] = stripe[row.sub]
    <3>1. CASE UNCHANGED <<stripe, events>>
      BY <1>1, <3>1 DEF Unamended
    <3>2. ASSUME NEW sub \in Subscription, NEW e, Turn(old, sub, e), sub.status = "canceled",
                 sub.plan = stripe[old].plan, sub.renews = stripe[old].renews
          PROVE  /\ Unamended
                 /\ \A t \in Subs : stripe'[t].status = "offered" => stripe'[t].plan = stripe'[t].bought
                 /\ \E f \in Event : f.type # "checkout" /\ events' = Append(events, f)
                 /\ RowExists => stripe'[row.sub] = stripe[row.sub]
      <4>1. \A t \in Subs : stripe'[t] = IF t = old THEN sub ELSE stripe[t]
        BY <1>1, <3>2 DEF Turn
      <4>2. RowExists => row.sub \in Subs
        BY <1>1 DEF RowExists, Row
      <4>3. sub.bought = stripe[old].bought /\ e \in Event /\ e.type # "checkout"
            /\ events' = Append(events, e)
        BY <3>2 DEF Turn
      <4>4. QED
        BY <1>1, <2>1, <3>2, <4>1, <4>2, <4>3 DEF Unamended
    <3>3. QED
      BY <1>1, <1>6, <3>1, <3>2, Replacing
  <2>3. FreshInv'
    BY <2>1, <2>2, FreshStands, IdleAgrees
  <2>4. RowAgrees'
    BY <2>1, <2>2, AgreeStands, IdleAgrees DEF Between
  <2>5. QED
    BY <2>1, <2>3, <2>4, KindsStand, IdleAgrees DEF NextInv
<1>7. QED
  BY <1>3, <1>4, <1>5, <1>6

(* The webhook takes each checkout off the queue, and records it once.        *)
LEMMA WebhookNext ==
  ASSUME NextInv, AloneInv', "overlap" \notin Faults, "duplicate" \notin Faults,
         NEW w \in Workers, NEW i \in DOMAIN events, Deliver(w, i)
  PROVE  NextInv'
<1> DEFINE e == events[i]
<1>1. /\ IInv /\ events \in Seq(Event) /\ row \in Row /\ Unrecorded(events, row, stripe)
      /\ \A s \in Subs : stripe[s].status = "offered" => stripe[s].plan = stripe[s].bought
  BY DEF NextInv, FreshInv, AloneInv, IInv, TypeOK
<1>2. /\ UNCHANGED stripe /\ \A v \in Workers : tasks[v] = Idle
      /\ events' = RemoveAt(events, i)
  BY <1>1, Delivered DEF Accept
<1>3. CASE UNCHANGED tasks /\ row'.sub = row.sub /\ row'.plan = row.plan
           /\ row'.pending = row.pending /\ row'.cancelled = row.cancelled
  <2>1. FreshInv'
    BY <1>1, <1>2, <1>3, FreshStands DEF Unamended
  <2>2. RowAgrees'
    BY <1>2, <1>3, AgreeStands
  <2>3. QED
    BY <1>3, <2>1, <2>2, KindsStand DEF NextInv
<1>4. ASSUME NEW task, Moves(w, task), UNCHANGED row, task.kind \in {"confirm", "failed"},
             task.kind = "confirm" => e.type = "checkout" /\ task.sub = e.sub /\ task.pc = "fetch"
      PROVE  NextInv'
  <2>1. task.kind = "confirm" => Fresh(e.sub, row, stripe) /\ ~Waiting(events', e.sub)
    BY <1>1, <1>2, <1>4, FreshTaken DEF Unrecorded
  <2>2. TaskFresh(task, row', events', stripe')
    BY <1>2, <1>4, <2>1 DEF TaskFresh
  <2>3. FreshInv'
    BY <1>1, <1>2, <1>4, <2>2, FreshStands DEF Unamended
  <2>4. RowAgrees'
    BY <1>2, <1>4, AgreeStands, IdleAgrees
  <2>5. QED
    BY <1>4, <2>3, <2>4, KindsStand DEF NextInv
<1>5. \/ UNCHANGED <<row, tasks>>
      \/ UNCHANGED tasks /\ row' = [row EXCEPT !.status = e.status, !.end = e.end]
      \/ UNCHANGED tasks /\ row' = Ended(row)
      \/ \E task : /\ Moves(w, task) /\ UNCHANGED row /\ task.kind \in {"confirm", "failed"}
                   /\ task.kind = "confirm" =>
                        e.type = "checkout" /\ task.sub = e.sub /\ task.pc = "fetch"
  <2>1. ASSUME UNCHANGED row,
               \/ \E task : /\ Moves(w, task) /\ task.kind = "confirm" /\ task.pc = "fetch"
                            /\ task.sub = e.sub /\ e.type = "checkout"
               \/ \E task : Moves(w, task) /\ task.kind = "failed"
        PROVE  \E task : /\ Moves(w, task) /\ UNCHANGED row /\ task.kind \in {"confirm", "failed"}
                         /\ task.kind = "confirm" =>
                              e.type = "checkout" /\ task.sub = e.sub /\ task.pc = "fetch"
    BY <2>1
  <2>2. QED
    BY <1>1, <2>1, Delivered
<1>6. CASE UNCHANGED tasks /\ (row' = Ended(row)
           \/ row' = [row EXCEPT !.status = e.status, !.end = e.end])
  BY <1>1, <1>3, <1>6 DEF Ended, Row
<1>7. QED
  BY <1>3, <1>4, <1>5, <1>6

(* The next period the row announces is the one Stripe will charge, where     *)
(* handlers do not overlap nor die half way and Stripe tells of a payment     *)
(* once -- but may tell late, in any order or never, refuse, or not answer:   *)
(* for a member who schedules changes, drops them again or cancels at once.   *)
THEOREM NextPeriodIsKnown ==
  ASSUME {"overlap", "crash", "duplicate"} \cap Faults = {},
         Requests \subseteq {"schedule", "unschedule", "look", "cancelNow"}
  PROVE  Spec => []NextPeriodAgrees
<1>1. NextInv /\ [Next]_vars => NextInv'
  <2> SUFFICES ASSUME NextInv, [Next]_vars PROVE NextInv'
    OBVIOUS
  <2>1. AloneInv'
    BY AloneStep DEF NextInv
  <2>2. \A s \in Subs : stripe[s].status = "offered" => stripe[s].plan = stripe[s].bought
    BY DEF NextInv, FreshInv
  <2>3. CASE UNCHANGED vars
    <3>1. UNCHANGED <<stripe, events, row, tasks>>
      BY <2>3 DEF vars
    <3>2. FreshInv' /\ RowAgrees'
      BY <2>2, <3>1, FreshStands, AgreeStands DEF Unamended
    <3>3. QED
      BY <2>1, <3>1, <3>2, KindsStand DEF NextInv
  <2>4. ASSUME NEW i \in DOMAIN events, Lose(i) PROVE NextInv'
    <3>1. UNCHANGED <<stripe, row, tasks>> /\ events' = RemoveAt(events, i)
      BY <2>4 DEF Lose
    <3>2. FreshInv' /\ RowAgrees'
      BY <2>2, <3>1, FreshStands, AgreeStands DEF Unamended
    <3>3. QED
      BY <2>1, <3>1, <3>2, KindsStand DEF NextInv
  <2>5. QED
    BY <2>1, <2>3, <2>4, OutsideNext, RequestNext, RecordNext, WebhookNext
       DEF Next, Step, Crash, Simple
<1>2. NextInv => NextPeriodAgrees
  <2> SUFFICES ASSUME NextInv, Settled, RowExists, Held(stripe[row.sub].status)
               PROVE  NextByRow = NextByStripe
    BY DEF NextPeriodAgrees
  <2>1. \A w \in Workers : ~Between(tasks[w])
    BY IdleAgrees DEF Settled
  <2>2. QED
    BY <2>1 DEF NextInv, RowAgrees
<1>3. QED
  BY <1>1, <1>2, InitNext, PTL DEF Spec
--------------------------------------------------------------------------------
(* The refinement: plans are sold as Purchase promises.  What is billed must  *)
(* be backed by a payment as what is handed out is, and with it the price of  *)
(* a checkout and what a handler that will call Stripe has read of the row.   *)
BillBacked(sub, held) ==
  /\ Held(sub.status) => Backed(sub.plan, held)
  /\ sub.status = "offered" => sub.plan = sub.bought

SaleInv ==
  /\ IInv
  /\ \A s \in Subs : BillBacked(stripe[s], stripe)
  /\ \A w \in Workers : tasks[w].pc = "stripe" => Backed(tasks[w].seen.plan, stripe)

(* A handler that is to call Stripe has just read the row, or was about to    *)
(* call before.                                                               *)
LEMMA CallersTasks ==
  ASSUME IInv, [Next]_vars, NEW v \in Workers, tasks'[v].pc = "stripe"
  PROVE  \/ tasks'[v].seen = row
         \/ tasks[v].pc = "stripe" /\ tasks'[v].seen = tasks[v].seen
<1> DEFINE Same == tasks[v].pc = "stripe" /\ tasks'[v].seen = tasks[v].seen
<1>1. tasks \in [Workers -> Task] /\ tasks[v] \in Task /\ Idle.pc = "idle"
  BY DEF IInv, TypeOK, Idle
<1>2. CASE UNCHANGED tasks
  BY <1>2
<1>3. ASSUME NEW w \in Workers, NEW task, Moves(w, task), task.pc = "stripe" => task.seen = row
      PROVE  tasks'[v].seen = row \/ Same
  BY <1>1, <1>3 DEF Moves
<1>4. ASSUME NEW w \in Workers, Finish(w) PROVE tasks'[v].seen = row \/ Same
  BY <1>1, <1>3, <1>4 DEF Finish, Moves
<1>5. ASSUME NEW w \in Workers, NEW pc, pc # "stripe", Advance(w, pc)
      PROVE  tasks'[v].seen = row \/ Same
  BY <1>1, <1>5 DEF Advance, Task
<1>6. ASSUME NEW w \in Workers, Step(w) \/ Crash(w) PROVE tasks'[v].seen = row \/ Same
  <2>1. CASE CallStripe(w)
    BY <1>4, <1>5, <2>1 DEF CallStripe
  <2>2. CASE Save(w) \/ Crash(w) \/ CancelReplaced(w)
    BY <1>4, <2>2 DEF Save, Crash, Fail, CancelReplaced
  <2>3. CASE Upsert(w)
    BY <1>4, <1>5, <2>3 DEF Upsert, Fail
  <2>4. CASE Fetch(w)
    BY <1>1, <1>4, <2>4 DEF Fetch, Fail, Task
  <2>5. CASE LoadPrevious(w)
    BY <1>1, <2>5 DEF LoadPrevious, Task
  <2>6. QED
    BY <1>6, <2>1, <2>2, <2>3, <2>4, <2>5 DEF Step
<1>7. CASE Member
  <2>1. ASSUME NEW w \in Workers, NEW task, Begin(w, task), task.seen = row
        PROVE  tasks'[v].seen = row \/ Same
    BY <1>3, <2>1 DEF Begin, Moves
  <2>2. ASSUME NEW w \in Workers, NEW s \in Subs, SyncCheckoutSession(w, s)
        PROVE  tasks'[v].seen = row \/ Same
    <3> DEFINE task == [Idle EXCEPT !.kind = "confirm", !.pc = "fetch", !.sub = s]
    <3>1. Moves(w, task) /\ task.pc = "fetch"
      BY <2>2 DEF SyncCheckoutSession, Begin, Moves, Idle
    <3>2. QED
      BY <1>3, <3>1
  <2>3. ASSUME NEW w \in Workers, NEW p \in Plans, NEW c \in Cycles, ScheduleChange(w, p, c)
        PROVE  tasks'[v].seen = row \/ Same
    BY <2>1, <2>3 DEF ScheduleChange, Idle
  <2>4. ASSUME NEW w \in Workers, NEW kind, NEW pc,
               Begin(w, [Idle EXCEPT !.kind = kind, !.pc = pc, !.seen = row])
        PROVE  tasks'[v].seen = row \/ Same
    <3>1. [Idle EXCEPT !.kind = kind, !.pc = pc, !.seen = row].seen = row
      BY DEF Idle
    <3>2. QED
      BY <2>1, <2>4, <3>1
  <2>5. ASSUME NEW w \in Workers,
               \/ CancelScheduledChange(w)
               \/ \E immediately \in BOOLEAN : CancelSubscription(w, immediately)
               \/ ResumeSubscription(w)
               \/ GetCurrentSubscription(w)
        PROVE  tasks'[v].seen = row \/ Same
    BY <2>4, <2>5 DEF CancelScheduledChange, CancelSubscription, ResumeSubscription,
                      GetCurrentSubscription
  <2>6. ASSUME NEW w \in Workers, NEW c \in Cycles, ChangeBillingCycle(w, c)
        PROVE  tasks'[v].seen = row \/ Same
    BY <2>1, <2>6 DEF ChangeBillingCycle, Idle
  <2>7. QED
    BY <1>2, <1>7, <2>2, <2>3, <2>5, <2>6 DEF Member, CreateCheckoutSession
<1>8. ASSUME NEW w \in Workers, NEW i \in DOMAIN events, Deliver(w, i)
      PROVE  tasks'[v].seen = row \/ Same
  <2>1. ASSUME NEW task, Moves(w, task), task.pc \in {"fetch", "save"}
        PROVE  tasks'[v].seen = row \/ Same
    BY <1>3, <2>1
  <2>2. CASE HandleCheckoutCompleted(w, i)
    BY <2>1, <2>2 DEF HandleCheckoutCompleted, Begin, Moves, Idle
  <2>3. CASE HandlePaymentFailed(w, i)
    BY <1>2, <2>1, <2>3 DEF HandlePaymentFailed, Begin, Moves, Idle
  <2>4. QED
    BY <1>2, <1>8, <2>2, <2>3 DEF Deliver, HandleSubscriptionUpdated, HandleSubscriptionDeleted
<1>9. CASE Stripe \/ UNCHANGED vars \/ \E i \in DOMAIN events : Lose(i)
  BY <1>2, <1>9 DEF Stripe, Tick, Pay, Renew, Decline, Retry, Lapse, Lose, vars
<1>10. QED
  BY <1>6, <1>7, <1>8, <1>9 DEF Next

(* What a call leaves at Stripe to be billed is backed by a payment.          *)
LEMMA AmendedBacked ==
  ASSUME SaleInv, NEW w \in Workers, tasks[w].pc = "stripe", tasks[w].seen.sub \in Subs,
         Held(stripe[tasks[w].seen.sub].status)
  PROVE  Backed(Amended(tasks[w]).plan, stripe)
<1> DEFINE task == tasks[w]
           sub == stripe[task.seen.sub]
<1>1. /\ sub \in Subscription /\ Backed(sub.plan, stripe) /\ Backed(task.seen.plan, stripe)
      /\ task.kind = "schedule" => Backed(task.plan, stripe)
  BY DEF SaleInv, IInv, TypeOK, TasksBacked, TaskBacked, BillBacked
<1> HIDE DEF task
<1>2. Amended(task).plan \in {sub.plan, task.seen.plan}
      \/ (task.kind = "schedule" /\ Amended(task).plan = task.plan)
  BY <1>1 DEF Amended, ScheduleSubscriptionPriceChange, Subscription
<1>3. QED
  BY <1>1, <1>2 DEF task

(* How a step may change what Stripe holds: a checkout opens, it is paid, or  *)
(* a running subscription changes -- bought as it was, and billed for a plan  *)
(* that is backed.  The row moves in steps of its own.                        *)
Opened(s, sub) ==
  stripe[s].status = "unused" /\ sub.status = "offered" /\ sub.plan = sub.bought

Begun(s, sub) ==
  /\ stripe[s].status = "offered" /\ sub.status = "active"
  /\ sub.bought = stripe[s].bought /\ sub.plan = stripe[s].plan

Turned(s, sub) ==
  /\ Held(stripe[s].status) /\ sub.status \in {"active", "past_due", "canceled"}
  /\ sub.bought = stripe[s].bought /\ Backed(sub.plan, stripe)

LEMMA StripeMoves ==
  ASSUME SaleInv, [Next]_vars
  PROVE  \/ UNCHANGED stripe
         \/ /\ UNCHANGED row
            /\ \E s \in Subs, sub \in Subscription :
                 /\ stripe' = [stripe EXCEPT ![s] = sub]
                 /\ Opened(s, sub) \/ Begun(s, sub) \/ Turned(s, sub)
<1> DEFINE Moved == /\ UNCHANGED row
                    /\ \E s \in Subs, sub \in Subscription :
                         /\ stripe' = [stripe EXCEPT ![s] = sub]
                         /\ Opened(s, sub) \/ Begun(s, sub) \/ Turned(s, sub)
<1>1. IInv /\ \A s \in Subs : Held(stripe[s].status) => Backed(stripe[s].plan, stripe)
  BY DEF SaleInv, BillBacked
<1>2. ASSUME NEW s \in Subs, Pay(s) PROVE Moved
  BY <1>1, <1>2, Pays DEF Begun
<1>3. ASSUME NEW s \in Subs, Decline(s) PROVE Moved
  BY <1>1, <1>3, Declines DEF Turned, Held
<1>4. ASSUME NEW s \in Subs, NEW sub \in Subscription, NEW e, Turn(s, sub, e),
             Backed(sub.plan, stripe), UNCHANGED row
      PROVE  Moved
  BY <1>4 DEF Turn, Turned
<1>5. ASSUME NEW s \in Subs, Renew(s) \/ Retry(s) \/ Lapse(s) PROVE Moved
  BY <1>1, <1>4, <1>5, StripeTurns DEF Turn
<1>6. ASSUME NEW s \in Subs, NEW p \in Plans, NEW c \in Cycles, CreateCheckoutSession(s, p, c)
      PROVE  Moved
  <2> DEFINE sub == [Unused EXCEPT !.status = "offered", !.bought = p, !.term = c,
                                   !.plan = p, !.cycle = c]
  <2>1. sub \in Subscription /\ sub.status = "offered" /\ sub.plan = sub.bought
    BY DEF Unused, Subscription, NoDate
  <2>2. stripe[s].status = "unused" /\ stripe' = [stripe EXCEPT ![s] = sub] /\ UNCHANGED row
    BY <1>6 DEF CreateCheckoutSession
  <2> HIDE DEF sub
  <2>3. QED
    BY <2>1, <2>2 DEF Opened
<1>7. ASSUME NEW w \in Workers, CallStripe(w) PROVE UNCHANGED stripe \/ Moved
  <2>1. tasks[w].seen.sub \in Subs /\ tasks[w].pc = "stripe" /\ tasks[w] \in Task /\ UNCHANGED row
    BY <1>1, <1>7, Calls DEF IInv, TypeOK
  <2>2. ASSUME NEW e, Turn(tasks[w].seen.sub, Amended(tasks[w]), e) PROVE Moved
    <3>1. Held(stripe[tasks[w].seen.sub].status)
      BY <2>2 DEF Turn
    <3>2. Amended(tasks[w]) \in Subscription /\ Backed(Amended(tasks[w]).plan, stripe)
      BY <1>1, <2>1, <3>1, AmendedFits, AmendedBacked
    <3>3. QED
      BY <1>4, <2>1, <2>2, <3>2
  <2>3. QED
    BY <1>1, <1>7, <2>2, Calls
<1>8. ASSUME NEW w \in Workers, CancelReplaced(w) PROVE UNCHANGED stripe \/ Moved
  BY <1>1, <1>4, <1>8, Replacing DEF Turn
<1>9. CASE UNCHANGED vars
  BY <1>9 DEF vars
<1>10. CASE Next
  <2>1. CASE Stripe
    BY <1>2, <1>3, <1>5, <2>1 DEF Stripe, Tick
  <2>2. CASE Member
    BY <1>6, <2>2
       DEF Member, ScheduleChange, CancelScheduledChange, CancelSubscription,
           ResumeSubscription, ChangeBillingCycle, GetCurrentSubscription,
           SyncCheckoutSession, Asks
  <2>3. ASSUME NEW w \in Workers, Step(w) \/ Crash(w) PROVE UNCHANGED stripe \/ Moved
    BY <1>7, <1>8, <2>3 DEF Step, Save, Fetch, LoadPrevious, Upsert, Crash
  <2>4. QED
    BY <1>10, <2>1, <2>2, <2>3 DEF Next, Deliver, Lose
<1>11. QED
  BY <1>9, <1>10

(* The strengthened invariant is inductive.                                   *)
LEMMA SaleKept ==
  ASSUME SaleInv, [Next]_vars
  PROVE  SaleInv'
<1>1. IInv /\ IInv' /\ Keeps(stripe, stripe') /\ stripe \in [Subs -> Subscription]
  BY NextBacked, StepKeeps DEF SaleInv, IInv, TypeOK
<1>2. ASSUME NEW v \in Workers, tasks'[v].pc = "stripe"
      PROVE  Backed(tasks'[v].seen.plan, stripe')
  <2>1. Backed(tasks'[v].seen.plan, stripe)
    BY <1>1, <1>2, CallersTasks DEF SaleInv, IInv, RowBacked
  <2>2. QED
    BY <1>1, <2>1, BackedKept
<1>3. ASSUME NEW t \in Subs, BillBacked(stripe'[t], stripe) PROVE BillBacked(stripe'[t], stripe')
  BY <1>1, <1>3, BackedKept DEF BillBacked
<1>4. ASSUME NEW t \in Subs PROVE BillBacked(stripe'[t], stripe')
  <2>1. CASE stripe'[t] = stripe[t]
    BY <1>3, <2>1 DEF SaleInv
  <2>2. ASSUME NEW sub \in Subscription, stripe' = [stripe EXCEPT ![t] = sub], Opened(t, sub)
        PROVE  BillBacked(stripe'[t], stripe')
    BY <1>1, <2>2 DEF Opened, BillBacked, Held
  <2>3. ASSUME NEW sub \in Subscription, stripe' = [stripe EXCEPT ![t] = sub], Begun(t, sub)
        PROVE  BillBacked(stripe'[t], stripe')
    <3>1. stripe'[t] = sub /\ sub.plan = sub.bought /\ sub.bought \in Plans
      BY <1>1, <2>3 DEF Begun, SaleInv, BillBacked, Subscription
    <3>2. sub.bought <= sub.bought /\ PaidIn(stripe', t)
      BY <2>3, <3>1 DEF Begun, PaidIn, Plans
    <3>3. QED
      BY <2>3, <3>1, <3>2 DEF Begun, BillBacked, Backed
  <2>4. ASSUME NEW sub \in Subscription, stripe' = [stripe EXCEPT ![t] = sub], Turned(t, sub)
        PROVE  BillBacked(stripe'[t], stripe')
    BY <1>1, <1>3, <2>4 DEF Turned, BillBacked
  <2>5. QED
    BY <1>1, <2>1, <2>2, <2>3, <2>4, StripeMoves
<1>5. QED
  BY <1>1, <1>2, <1>4 DEF SaleInv

(* What is paid for is owned: an order's life at Stripe.                      *)
LEMMA LifeAt ==
  ASSUME stripe \in [Subs -> Subscription], NEW s \in Subs
  PROVE  /\ Life[s] = "none" <=> stripe[s].status = "unused"
         /\ Life[s] = "open" <=> stripe[s].status = "offered"
         /\ Life[s] = "paid" <=> Held(stripe[s].status)
         /\ Life[s] = "over" <=> stripe[s].status = "canceled"
         /\ Life[s] \in {"paid", "over"} <=> PaidIn(stripe, s)
         /\ Ordered[s] = 1..stripe[s].bought
<1>1. stripe[s].status \in {"unused", "offered", "active", "past_due", "canceled"}
  BY DEF Subscription
<1>2. QED
  BY <1>1 DEF Life, Held, PaidIn, Ordered

(* A plan that is backed is part of what was paid for.                        *)
LEMMA BackedOwned ==
  ASSUME stripe \in [Subs -> Subscription], NEW p \in Plans, Backed(p, stripe)
  PROVE  1..p \subseteq Sale!Owned
<1>1. CASE p = Free
  BY <1>1 DEF Free
<1>2. ASSUME NEW s \in Subs, PaidIn(stripe, s), p <= stripe[s].bought
      PROVE  1..p \subseteq Sale!Owned
  <2>1. stripe[s].bought \in Nat /\ p \in Nat
    BY DEF Subscription, Plans
  <2>2. 1..p \subseteq Ordered[s]
    BY <1>2, <2>1, LifeAt
  <2>3. s \in {q \in Subs : Life[q] \in {"paid", "over"}}
    BY <1>2, LifeAt
  <2>4. QED
    BY <2>2, <2>3 DEF Sale!Owned
<1>3. QED
  BY <1>1, <1>2 DEF Backed

(* What is on the row, and what will be billed, is owned.                     *)
AllPaid == Granted \subseteq Sale!Owned /\ Billed \subseteq Sale!Owned

LEMMA AllOwned == SaleInv => AllPaid
<1> SUFFICES ASSUME SaleInv PROVE AllPaid
  OBVIOUS
<1>1. stripe \in [Subs -> Subscription] /\ row.plan \in Plans /\ Backed(row.plan, stripe)
  BY DEF SaleInv, IInv, TypeOK, Row, RowBacked
<1>2. Granted \subseteq Sale!Owned
  BY <1>1, BackedOwned DEF Granted
<1>3. ASSUME NEW s \in Subs, Held(stripe[s].status) PROVE 1..stripe[s].plan \subseteq Sale!Owned
  <2>1. stripe[s].plan \in Plans /\ Backed(stripe[s].plan, stripe)
    BY <1>1, <1>3 DEF SaleInv, BillBacked, Subscription
  <2>2. QED
    BY <1>1, <2>1, BackedOwned
<1>4. Billed \subseteq Sale!Owned
  BY <1>3 DEF Billed
<1>5. QED
  BY <1>2, <1>4 DEF AllPaid

(* And so it is after a step that keeps the invariant.                        *)
LEMMA AllOwnedNext == SaleInv' => AllPaid'
  BY AllOwned, PTL

(* One order moves on, and no other does.                                     *)
LEMMA OneLife ==
  ASSUME stripe \in [Subs -> Subscription], NEW s \in Subs, NEW sub \in Subscription,
         stripe' = [stripe EXCEPT ![s] = sub], NEW life,
         life = CASE sub.status = "unused" -> "none"
                  [] sub.status = "offered" -> "open"
                  [] sub.status = "canceled" -> "over"
                  [] OTHER -> "paid"
  PROVE  /\ Life' = [Life EXCEPT ![s] = life]
         /\ Ordered' = [Ordered EXCEPT ![s] = 1..sub.bought]
  BY DEF Life, Ordered

(* What is billed, order by order.                                            *)
LEMMA BilledIs ==
  /\ \A x : x \in Billed <=> \E t \in Subs : Held(stripe[t].status) /\ x \in 1..stripe[t].plan
  /\ \A x : x \in Billed' <=> \E t \in Subs : Held(stripe'[t].status) /\ x \in 1..stripe'[t].plan
  BY DEF Billed

(* A change at Stripe is a step of the abstract sale.                         *)
LEMMA MoveSold ==
  ASSUME SaleInv, SaleInv', UNCHANGED row, NEW s \in Subs, NEW sub \in Subscription,
         stripe' = [stripe EXCEPT ![s] = sub],
         Opened(s, sub) \/ Begun(s, sub) \/ Turned(s, sub)
  PROVE  Sale!Next
<1>1. /\ stripe \in [Subs -> Subscription] /\ stripe' \in [Subs -> Subscription]
      /\ stripe[s] \in Subscription
      /\ stripe'[s] = sub /\ \A t \in Subs : t # s => stripe'[t] = stripe[t]
      /\ Granted' = Granted
  BY DEF SaleInv, IInv, TypeOK, Granted
<1>2. Granted \subseteq Sale!Owned /\ Billed' \subseteq Sale!Owned'
  BY AllOwned, AllOwnedNext DEF AllPaid
<1>3. CASE Opened(s, sub)
  <2>1. Life[s] = "none" /\ ~Held(stripe[s].status) /\ ~Held(sub.status)
    BY <1>1, <1>3, LifeAt DEF Opened, Held
  <2>2. Life' = [Life EXCEPT ![s] = "open"] /\ Ordered' = [Ordered EXCEPT ![s] = 1..sub.bought]
    BY <1>1, <1>3, OneLife DEF Opened
  <2>3. 1..sub.bought \in SUBSET (Plans \ {Free})
    BY DEF Subscription, Plans, Free
  <2>4. Billed' = Billed
    BY <1>1, <2>1, BilledIs
  <2>5. Sale!Open(s)
    BY <1>1, <2>1, <2>2, <2>3, <2>4 DEF Sale!Open
  <2>6. QED
    BY <2>5 DEF Sale!Next
<1>4. ASSUME sub.bought = stripe[s].bought PROVE Ordered' = Ordered
  BY <1>1, <1>4 DEF Ordered
<1>5. CASE Begun(s, sub)
  <2>1. /\ Life[s] = "open" /\ ~Held(stripe[s].status) /\ Held(sub.status)
        /\ sub.plan = sub.bought /\ sub.bought = stripe[s].bought
    BY <1>1, <1>5, LifeAt DEF Begun, Held, SaleInv, BillBacked
  <2>2. Life' = [Life EXCEPT ![s] = "paid"]
    <3>1. sub.status = "active"
      BY <1>5 DEF Begun
    <3>2. QED
      BY <1>1, <3>1, OneLife
  <2>3. Ordered[s] = 1..sub.plan
    BY <1>1, <2>1, LifeAt
  <2>4. Billed' = Billed \cup Ordered[s]
    BY <1>1, <2>1, <2>3, BilledIs
  <2>5. Sale!Pay(s)
    BY <1>1, <1>4, <2>1, <2>2, <2>4 DEF Sale!Pay
  <2>6. QED
    BY <2>5 DEF Sale!Next
<1>6. CASE Turned(s, sub)
  <2>1. Life[s] = "paid" /\ Held(stripe[s].status) /\ Ordered' = Ordered
    BY <1>1, <1>4, <1>6, LifeAt DEF Turned
  <2>2. CASE sub.status = "canceled"
    <3>1. Life' = [Life EXCEPT ![s] = "over"]
      BY <1>1, <2>2, OneLife
    <3>2. Billed' \subseteq Billed
      BY <1>1, <2>2, BilledIs DEF Held
    <3>3. Sale!End(s)
      BY <1>1, <1>2, <2>1, <3>1, <3>2 DEF Sale!End
    <3>4. QED
      BY <3>3 DEF Sale!Next
  <2>3. CASE Held(sub.status)
    <3>1. Life' = Life
      BY <1>1, <2>1, <2>3 DEF Life, Held
    <3>2. Sale!Owned' = Sale!Owned
      BY <2>1, <3>1 DEF Sale!Owned
    <3>3. Sale!Reprice
      BY <1>1, <1>2, <2>1, <3>1, <3>2 DEF Sale!Reprice
    <3>4. QED
      BY <3>3 DEF Sale!Next
  <2>4. QED
    BY <1>6, <2>2, <2>3 DEF Turned, Held
<1>7. QED
  BY <1>3, <1>5, <1>6

(* The initial states map to initial states of Purchase.                      *)
LEMMA InitSold == Init => SaleInv /\ Sale!Init
<1> SUFFICES ASSUME Init PROVE SaleInv /\ Sale!Init
  OBVIOUS
<1>1. \A s \in Subs : stripe[s] = Unused
  BY DEF Init
<1>2. \A w \in Workers : tasks[w].pc # "stripe"
  BY DEF Init, Idle
<1>3. SaleInv
  BY <1>1, <1>2, InitBacked DEF SaleInv, BillBacked, Unused, Held
<1>4. Granted = {} /\ Billed = {}
  BY <1>1, BilledIs DEF Init, Granted, NoRow, Free, Unused, Held
<1>5. Life = [s \in Subs |-> "none"] /\ Ordered = [s \in Subs |-> {}]
  BY <1>1 DEF Life, Ordered, Unused, Free
<1>6. QED
  BY <1>3, <1>4, <1>5 DEF Sale!Init

(* Every step maps to a step of Purchase.                                     *)
LEMMA NextSold == SaleInv /\ SaleInv' /\ [Next]_vars => Sale!Next
<1> SUFFICES ASSUME SaleInv, SaleInv', [Next]_vars PROVE Sale!Next
  OBVIOUS
<1>1. CASE UNCHANGED stripe
  <2>1. Life' = Life /\ Ordered' = Ordered /\ Billed' = Billed
    BY <1>1 DEF Life, Ordered, Billed
  <2>2. Granted' \subseteq Sale!Owned'
    BY AllOwnedNext DEF AllPaid
  <2>3. Sale!Owned' = Sale!Owned
    BY <2>1 DEF Sale!Owned
  <2>4. Sale!HandOut
    BY <2>1, <2>2, <2>3 DEF Sale!HandOut
  <2>5. QED
    BY <2>4 DEF Sale!Next
<1>2. QED
  BY <1>1, StripeMoves, MoveSold

(* Plans are sold as Purchase promises, under every fault: what is on the     *)
(* row, and what Stripe is told to bill next, was paid for, and an order      *)
(* neither changes nor comes back.                                            *)
THEOREM Implements == Spec => SoldAsOrdered
<1>1. SaleInv /\ SaleInv' /\ [Next]_vars => [Sale!Next]_(Sale!vars)
  BY NextSold
<1>2. SaleInv /\ [Next]_vars => SaleInv'
  BY SaleKept
<1>3. QED
  BY <1>1, <1>2, InitSold, PTL DEF Spec, SoldAsOrdered, Sale!Spec
================================================================================
