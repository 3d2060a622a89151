--------------------------- MODULE PlacementsProofs ----------------------------
(* For any number of subscriptions, handlers, requests and faults: the        *)
(* variables keep their types, and no listing has a placement, or is shown on *)
(* a page, that nobody paid for.  Where nothing disturbs the handlers: what   *)
(* Stripe bills is what the listing has and says, and each page is billed     *)
(* once.                                                                      *)
(*                                                                            *)
(* PlacementWasPaidFor is not inductive.  A row and a summary are written     *)
(* from what a handler carries across its awaits, so that must be backed by a *)
(* payment too, and so must the checkouts the webhook still has to hear of.   *)
(* A renewal the backend starts by itself backs nothing: its checkout does.   *)
(* The agreement needs more (BillInv): what a checkout still to be recorded   *)
(* will find, and what each handler has done so far.                          *)
(*                                                                            *)
(* Last, the refinement: under every fault placements are sold as Purchase    *)
(* promises.  What Stripe bills must be backed too, renewals that nobody      *)
(* bought included (SaleInv).                                                 *)
EXTENDS Placements, QueueLemmas

PaidIn(held, s) == held[s].kind # "renewal" /\ held[s].status \notin {"unused", "offered"}

BoughtIn(held, a) == \E s \in Subs : PaidIn(held, s) /\ held[s].addon = a

PagesBought(pages, held) ==
  \A p \in pages : \E a \in Addons : p \in Grants(a) /\ BoughtIn(held, a)

(* The purchase a task records is paid for, and so is what it will say of the *)
(* listing.                                                                   *)
TaskBacked(task, held) ==
  /\ task.pc \in {"fetch", "stop", "clear", "check", "create", "upsert"} => task.kind = "record"
  /\ task.pc \in {"heal", "compare"} => task.kind = "look"
  /\ task.pc = "stripe" => task.read[task.addon].sub \in Subs
  /\ task.kind = "record" => /\ task.session \in Subs /\ task.sub \in Subs
                             /\ PaidIn(held, task.session)
                             /\ held[task.session].addon = task.addon
  /\ task.kind = "ended" => task.session \in Subs
  /\ task.hook => task.kind \in {"record", "ended"}
  /\ PagesBought(task.flags.pages, held)

EventBacked(e, held) == e.type = "checkout" => PaidIn(held, e.sub)

(* Only what is sold is offered: a renewal needs no checkout.                 *)
OffersSound == \A s \in Subs : stripe[s].status = "offered" => stripe[s].kind # "renewal"

RowsBacked == \A a \in Addons : Exists(rows[a]) => rows[a].sub \in Subs /\ BoughtIn(stripe, a)

FlagsBacked == PagesBought(flags.pages, stripe)

TasksBacked == \A w \in Workers : TaskBacked(tasks[w], stripe)

EventsBacked == \A i \in DOMAIN events : EventBacked(events[i], stripe)

(* The inductive invariant.                                                   *)
IInv == TypeOK /\ OffersSound /\ RowsBacked /\ FlagsBacked /\ TasksBacked /\ EventsBacked

(* No step takes a payment back.                                              *)
Keeps(before, after) ==
  \A s \in Subs : PaidIn(before, s) =>
    PaidIn(after, s) /\ after[s].addon = before[s].addon
--------------------------------------------------------------------------------
(* What was backed stays backed.                                              *)
LEMMA PagesKept ==
  ASSUME NEW before, NEW after, Keeps(before, after), NEW pages, PagesBought(pages, before)
  PROVE  PagesBought(pages, after)
  BY DEF Keeps, PagesBought, BoughtIn

(* What a task carries stays backed while no payment is taken back.           *)
LEMMA TaskKept ==
  ASSUME NEW before, NEW after, Keeps(before, after), NEW task, TaskBacked(task, before)
  PROVE  TaskBacked(task, after)
  BY PagesKept DEF TaskBacked, Keeps

(* Cycles, and the absence of one, are numbers of periods.                    *)
LEMMA CyclesAreNumbers == ASSUME NEW c \in Cycles \cup {NoCycle} PROVE c \in Nat
  BY PlacementsAssumption DEF NoCycle

(* What an event says of a subscription is an event.                          *)
LEMMA EventTyped ==
  ASSUME NEW type \in {"checkout", "updated", "deleted"}, NEW s \in Subs,
         NEW sub, sub.end \in Nat
  PROVE  /\ EventOf(type, s, sub) \in Event
         /\ EventOf(type, s, sub).type = type
         /\ EventOf(type, s, sub).sub = s
  BY DEF EventOf, Event

(* The absent row is a row, and does not exist.                               *)
LEMMA NoRowTyped == NoRow \in Row /\ ~Exists(NoRow) /\ NoRows \in [Addons -> Row]
  BY DEF NoRow, Row, NoRows, Exists, NoDate, NoCycle

(* A worker with nothing to do carries nothing that needs a payment.          *)
LEMMA IdleTask == Idle \in Task /\ \A held : TaskBacked(Idle, held)
<1>1. Bundle \in Addons /\ NoFlags \in Flags /\ NoDate \in Nat
  BY DEF Addons, NoFlags, Flags, NoDate
<1>2. Idle \in Task
  BY <1>1, NoRowTyped DEF Idle, Task
<1>3. QED
  BY <1>2 DEF TaskBacked, Idle, NoFlags, PagesBought

(* A worker takes up a task, or moves on in it.                               *)
LEMMA TaskSet ==
  ASSUME IInv, Keeps(stripe, stripe'), NEW w \in Workers, NEW task \in Task,
         TaskBacked(task, stripe'), tasks' = [tasks EXCEPT ![w] = task]
  PROVE  tasks' \in [Workers -> Task] /\ TasksBacked'
<1>1. tasks' \in [Workers -> Task]
  BY DEF IInv, TypeOK
<1>2. ASSUME NEW v \in Workers PROVE TaskBacked(tasks'[v], stripe')
  <2>1. CASE v = w
    BY <2>1 DEF IInv, TypeOK
  <2>2. CASE v # w
    <3>1. tasks'[v] = tasks[v] /\ TaskBacked(tasks[v], stripe)
      BY <2>2 DEF IInv, TypeOK, TasksBacked
    <3>2. QED
      BY <3>1, TaskKept
  <2>3. QED
    BY <2>1, <2>2
<1>3. QED
  BY <1>1, <1>2 DEF TasksBacked

(* A handler that ends leaves the tasks typed and backed.                     *)
LEMMA TaskFinished ==
  ASSUME IInv, Keeps(stripe, stripe'), NEW w \in Workers, Finish(w)
  PROVE  tasks' \in [Workers -> Task] /\ TasksBacked'
  BY IdleTask, TaskSet DEF Finish

(* What no step touches stays backed.                                         *)
LEMMA TasksUntouched ==
  ASSUME IInv, Keeps(stripe, stripe'), UNCHANGED tasks
  PROVE  tasks' \in [Workers -> Task] /\ TasksBacked'
  BY TaskKept DEF IInv, TypeOK, TasksBacked

(* Where Stripe does nothing, no payment is taken back.                       *)
LEMMA StripeUntouched ==
  ASSUME IInv, UNCHANGED stripe
  PROVE  stripe' \in [Subs -> Subscription] /\ Keeps(stripe, stripe') /\ OffersSound'
  BY DEF IInv, TypeOK, Keeps, OffersSound

(* Events no step touches stay backed.                                        *)
LEMMA EventsUntouched ==
  ASSUME IInv, Keeps(stripe, stripe'), UNCHANGED events
  PROVE  events' \in Seq(Event) /\ EventsBacked'
<1>1. \A i \in DOMAIN events : events[i] \in Event
  BY ElementOfSeq DEF IInv, TypeOK
<1>2. \A i \in DOMAIN events : events[i].sub \in Subs
  BY <1>1 DEF Event
<1>3. QED
  BY <1>2 DEF IInv, TypeOK, EventsBacked, EventBacked, Keeps

(* A summary no step touches stays backed.                                    *)
LEMMA FlagsUntouched ==
  ASSUME IInv, Keeps(stripe, stripe'), UNCHANGED flags
  PROVE  flags' \in Flags /\ FlagsBacked'
  BY PagesKept DEF IInv, TypeOK, FlagsBacked

(* A row that goes, or changes its dates, needs no payment.                   *)
LEMMA RowsKept ==
  ASSUME IInv, Keeps(stripe, stripe'), rows' \in [Addons -> Row],
         \A a \in Addons : Exists(rows'[a]) => Exists(rows[a]) /\ rows'[a].sub = rows[a].sub
  PROVE  RowsBacked'
  BY DEF IInv, RowsBacked, BoughtIn, Keeps, Exists

(* Rows no step touches stay backed.                                          *)
LEMMA RowsUntouched ==
  ASSUME IInv, Keeps(stripe, stripe'), UNCHANGED rows
  PROVE  rows' \in [Addons -> Row] /\ RowsBacked'
  BY RowsKept DEF IInv, TypeOK

(* A subscription paid for becomes another one paid for.                      *)
LEMMA StripeSet ==
  ASSUME IInv, NEW s \in Subs, NEW sub \in Subscription,
         PaidIn(stripe, s) => /\ sub.status \notin {"unused", "offered"}
                              /\ sub.kind # "renewal" /\ sub.addon = stripe[s].addon,
         sub.status = "offered" => sub.kind # "renewal",
         stripe' = [stripe EXCEPT ![s] = sub]
  PROVE  stripe' \in [Subs -> Subscription] /\ Keeps(stripe, stripe') /\ OffersSound'
  BY DEF IInv, TypeOK, Keeps, PaidIn, OffersSound

(* A backed event joins the queue.                                            *)
LEMMA EventQueued ==
  ASSUME IInv, Keeps(stripe, stripe'), NEW e \in Event,
         EventBacked(e, stripe'), events' = Append(events, e)
  PROVE  events' \in Seq(Event) /\ EventsBacked'
<1>1. events \in Seq(Event)
  BY DEF IInv, TypeOK
<1>2. \A i \in DOMAIN events : events[i] \in Event
  BY <1>1, ElementOfSeq
<1>3. \A i \in DOMAIN events : events[i].sub \in Subs
  BY <1>2 DEF Event
<1>4. \A i \in DOMAIN events : EventBacked(events[i], stripe')
  BY <1>3 DEF IInv, EventsBacked, EventBacked, Keeps
<1>5. QED
  BY <1>1, <1>4, Appended DEF EventsBacked

(* An event is accepted, lost, or kept to be repeated.                        *)
LEMMA EventTaken ==
  ASSUME IInv, UNCHANGED stripe, NEW i \in DOMAIN events,
         events' = RemoveAt(events, i) \/ UNCHANGED events
  PROVE  events' \in Seq(Event) /\ EventsBacked'
<1>1. CASE UNCHANGED events
  BY <1>1, EventsUntouched, StripeUntouched
<1>2. CASE events' = RemoveAt(events, i)
  <2>1. events \in Seq(Event)
    BY DEF IInv, TypeOK
  <2>2. QED
    BY <1>2, <2>1, Removed DEF IInv, EventsBacked
<1>3. QED
  BY <1>1, <1>2

(* A subscription changes and its event is queued: nothing loses its backing. *)
LEMMA BecomesKept ==
  ASSUME IInv, NEW s \in Subs, NEW sub \in Subscription,
         NEW type \in {"checkout", "updated", "deleted"},
         sub.status \in {"paid", "active", "canceled"},
         sub.kind = stripe[s].kind, sub.addon = stripe[s].addon,
         type = "checkout" => sub.kind # "renewal",
         Becomes(type, s, sub)
  PROVE  /\ stripe' \in [Subs -> Subscription] /\ Keeps(stripe, stripe') /\ OffersSound'
         /\ events' \in Seq(Event) /\ EventsBacked'
<1> DEFINE e == EventOf(type, s, sub)
<1>1. stripe' \in [Subs -> Subscription] /\ Keeps(stripe, stripe') /\ OffersSound'
  BY StripeSet DEF Becomes, PaidIn
<1>2. stripe'[s] = sub /\ events' = Append(events, e)
  BY DEF Becomes, IInv, TypeOK
<1>3. sub.end \in Nat
  BY DEF Subscription
<1>4. e \in Event /\ EventBacked(e, stripe')
  BY <1>2, <1>3, EventTyped DEF EventBacked, PaidIn
<1>5. QED
  BY <1>1, <1>2, <1>4, EventQueued
--------------------------------------------------------------------------------
(* A handler that only moves on, without a write.                             *)
LEMMA Moved ==
  ASSUME IInv, NEW w \in Workers, NEW task \in Task, TaskBacked(task, stripe),
         tasks' = [tasks EXCEPT ![w] = task],
         UNCHANGED <<now, stripe, events, rows, flags>>, sold' \in BOOLEAN,
         spent' \in 0..MaxRequests
  PROVE  IInv'
<1>1. tasks' \in [Workers -> Task] /\ TasksBacked'
  BY TaskSet, StripeUntouched
<1>2. QED
  BY <1>1, StripeUntouched, EventsUntouched, RowsUntouched, FlagsUntouched DEF IInv, TypeOK

(* What the rows say of the listing is paid for.                              *)
LEMMA DerivedBacked == ASSUME IInv PROVE Derived \in Flags /\ PagesBought(Derived.pages, stripe)
<1>1. LiveAddons \subseteq Addons
  BY DEF LiveAddons
<1>2. \A a \in Addons : Grants(a) \subseteq Pages
  BY DEF Grants, Addons, Pages
<1>3. UNION {Grants(a) : a \in LiveAddons} \subseteq Pages
  BY <1>1, <1>2
<1>4. \A a \in LiveAddons : BoughtIn(stripe, a)
  BY <1>1 DEF LiveAddons, Live, IInv, RowsBacked
<1>5. \A p \in UNION {Grants(a) : a \in LiveAddons} :
        \E a \in Addons : p \in Grants(a) /\ BoughtIn(stripe, a)
  BY <1>1, <1>4
<1>6. QED
  BY <1>1, <1>3, <1>5 DEF Derived, Flags, PagesBought

(* A task that takes up the rows as they are.                                 *)
LEMMA SettlingBacked ==
  ASSUME IInv, NEW task \in Task, TaskBacked(task, stripe),
         task.kind \in {"look", "subscribe"}
  PROVE  Settling(task) \in Task /\ TaskBacked(Settling(task), stripe)
<1> DEFINE left == {a \in Addons : IsDue(rows[a])}
           pc == IF left = {} THEN IF task.kind = "look" THEN "heal" ELSE "decide" ELSE "settle"
<1>1. /\ left \in SUBSET Addons /\ pc \in {"heal", "decide", "settle"}
      /\ pc = "heal" => task.kind = "look"
      /\ rows \in [Addons -> Row]
  BY DEF IInv, TypeOK
<1>2. Settling(task) = [task EXCEPT !.read = rows, !.left = left, !.pc = pc]
  BY DEF Settling
<1> HIDE DEF left, pc
<1>3. QED
  BY <1>1, <1>2 DEF Task, TaskBacked

(* A recording begins with a checkout that was paid.                          *)
LEMMA RecordingBacked ==
  ASSUME IInv, NEW s \in Subs, PaidIn(stripe, s), NEW hook \in BOOLEAN
  PROVE  Recording(s, hook) \in Task /\ TaskBacked(Recording(s, hook), stripe)
<1> DEFINE addon == stripe[s].addon
           pc == IF stripe[s].kind = "package" THEN "check" ELSE "fetch"
<1>1. addon \in Addons /\ pc \in {"check", "fetch"}
  BY DEF IInv, TypeOK, Subscription
<1>2. Recording(s, hook) = [Idle EXCEPT !.kind = "record", !.session = s, !.sub = s,
                                        !.addon = addon, !.pc = pc, !.hook = hook]
  BY DEF Recording
<1> HIDE DEF pc
<1>3. [Idle EXCEPT !.kind = "record", !.session = s, !.sub = s,
                   !.addon = addon, !.pc = pc, !.hook = hook] \in Task
  BY <1>1, IdleTask DEF Task
<1>4. TaskBacked([Idle EXCEPT !.kind = "record", !.session = s, !.sub = s,
                   !.addon = addon, !.pc = pc, !.hook = hook], stripe)
  BY <1>1, IdleTask DEF TaskBacked, Idle
<1>5. QED
  BY <1>2, <1>3, <1>4
--------------------------------------------------------------------------------
(* The initial states satisfy the inductive invariant.                        *)
THEOREM InitBacked == Init => IInv
<1> SUFFICES ASSUME Init PROVE IInv
  OBVIOUS
<1>1. now \in 1..Horizon /\ spent \in 0..MaxRequests
  BY PlacementsAssumption DEF Init
<1>2. Unused \in Subscription /\ Unused.status = "unused"
  BY DEF Unused, Subscription, Addons, NoCycle, NoDate
<1>3. NoFlags \in Flags
  BY DEF NoFlags, Flags
<1>4. TypeOK
  <2>1. rows \in [Addons -> Row] /\ tasks \in [Workers -> Task]
    BY NoRowTyped, IdleTask DEF Init
  <2>2. stripe \in [Subs -> Subscription] /\ sold \in BOOLEAN
    BY <1>2 DEF Init
  <2>3. /\ now \in 1..Horizon /\ spent \in 0..MaxRequests /\ flags \in Flags
        /\ events \in Seq(Event)
    BY <1>1, <1>3 DEF Init
  <2>4. QED
    BY <2>1, <2>2, <2>3 DEF TypeOK
<1>5. OffersSound /\ EventsBacked
  BY <1>2 DEF Init, OffersSound, EventsBacked
<1>6. RowsBacked
  BY NoRowTyped DEF Init, RowsBacked, NoRows
<1>7. FlagsBacked
  BY DEF Init, FlagsBacked, NoFlags, PagesBought
<1>8. TasksBacked
  BY IdleTask DEF Init, TasksBacked
<1>9. QED
  BY <1>4, <1>5, <1>6, <1>7, <1>8 DEF IInv

(* Stripe's own steps: subscriptions and events move, the backend does not.   *)
LEMMA StripeStep == ASSUME IInv, Stripe PROVE IInv'
<1>1. CASE Tick
  <2>1. now' \in 1..Horizon /\ spent' \in 0..MaxRequests
    BY <1>1, PlacementsAssumption DEF Tick, IInv, TypeOK
  <2>2. QED
    BY <1>1, <2>1, StripeUntouched, EventsUntouched, RowsUntouched, FlagsUntouched,
       TasksUntouched DEF Tick, IInv, TypeOK
<1>2. ASSUME NEW s \in Subs, Pay(s) \/ Renew(s) \/ Lapse(s) \/ GiveUp(s)
      PROVE  IInv'
  <2>0. stripe[s] \in Subscription /\ now \in Nat /\ stripe[s].cycle \in Nat
    BY CyclesAreNumbers DEF IInv, TypeOK, Subscription
  <2>1. /\ stripe' \in [Subs -> Subscription] /\ Keeps(stripe, stripe') /\ OffersSound'
        /\ events' \in Seq(Event) /\ EventsBacked'
    <3>1. CASE Pay(s)
      <4> DEFINE end == now + stripe[s].cycle
      <4>1. end \in Nat
        BY <2>0
      <4>2. stripe[s].kind # "renewal"
        BY <3>1 DEF Pay, IInv, OffersSound
      <4>3. Started(stripe[s]) = [stripe[s] EXCEPT !.status = "active", !.renews = TRUE,
                                                   !.end = end]
        BY DEF Started
      <4> HIDE DEF end
      <4>4. PICK sub \in {[stripe[s] EXCEPT !.status = "paid"],
                          [stripe[s] EXCEPT !.status = "active", !.renews = TRUE, !.end = end]} :
              Becomes("checkout", s, sub)
        BY <3>1, <4>3 DEF Pay
      <4>5. /\ sub \in Subscription /\ sub.status \in {"paid", "active", "canceled"}
            /\ sub.kind = stripe[s].kind /\ sub.addon = stripe[s].addon
        BY <2>0, <4>1, <4>4 DEF Subscription
      <4>6. QED
        BY <4>2, <4>4, <4>5, BecomesKept
    <3>2. CASE Renew(s)
      <4> DEFINE end == stripe[s].end + stripe[s].cycle
                 sub == [stripe[s] EXCEPT !.end = end]
      <4>1. end \in Nat
        BY <2>0 DEF Subscription
      <4>2. Becomes("updated", s, sub) /\ stripe[s].status = "active"
        BY <3>2 DEF Renew, Due, Active
      <4> HIDE DEF end
      <4>3. /\ sub \in Subscription /\ sub.status = "active"
            /\ sub.kind = stripe[s].kind /\ sub.addon = stripe[s].addon
        BY <2>0, <4>1, <4>2 DEF Subscription
      <4> HIDE DEF sub
      <4>4. QED
        BY <4>2, <4>3, BecomesKept
    <3>3. CASE Lapse(s) \/ GiveUp(s)
      <4>1. Becomes("deleted", s, Stopped(stripe[s]))
        BY <3>3 DEF Lapse, GiveUp
      <4>2. /\ Stopped(stripe[s]) \in Subscription /\ Stopped(stripe[s]).status = "canceled"
            /\ Stopped(stripe[s]).kind = stripe[s].kind
            /\ Stopped(stripe[s]).addon = stripe[s].addon
        BY <2>0 DEF Stopped, Subscription
      <4>3. QED
        BY <4>1, <4>2, BecomesKept
    <3>4. QED
      BY <1>2, <3>1, <3>2, <3>3
  <2>2. UNCHANGED <<now, rows, flags, sold, tasks, spent>>
    BY <1>2 DEF Pay, Renew, Lapse, GiveUp, Unhurried
  <2>3. QED
    BY <2>1, <2>2, RowsUntouched, FlagsUntouched, TasksUntouched DEF IInv, TypeOK
<1>3. QED
  BY <1>1, <1>2 DEF Stripe

(* A new checkout: a subscription id that was not in use.                     *)
LEMMA OfferKept ==
  ASSUME IInv, NEW s \in Subs, NEW kind \in {"placement", "package"},
         NEW a \in Addons, NEW c \in Cycles \cup {NoCycle}, NEW replaces \in SUBSET LiveAddons,
         Offer(s, kind, a, c, replaces)
  PROVE  stripe' \in [Subs -> Subscription] /\ Keeps(stripe, stripe') /\ OffersSound'
<1> DEFINE stops == {rows[r].sub : r \in replaces}
           sub == [Unused EXCEPT !.kind = kind, !.status = "offered", !.addon = a,
                                 !.cycle = c, !.replaces = replaces, !.stops = stops]
<1>1. replaces \subseteq Addons /\ \A r \in replaces : rows[r].sub \in Subs
  BY DEF LiveAddons, Live, IInv, RowsBacked
<1>2. stops \in SUBSET Subs /\ replaces \in SUBSET Addons
  BY <1>1
<1>3. stripe' = [stripe EXCEPT ![s] = sub] /\ ~PaidIn(stripe, s)
  BY DEF Offer, PaidIn
<1> HIDE DEF stops
<1>4. sub \in Subscription /\ sub.kind # "renewal"
  BY <1>2 DEF Unused, Subscription, NoDate
<1> HIDE DEF sub
<1>5. QED
  BY <1>3, <1>4, StripeSet

(* What the seller asks for keeps the inductive invariant.                    *)
LEMMA SellerStep == ASSUME IInv, Seller PROVE IInv'
<1>1. ASSUME NEW w \in Workers, NEW a \in Addons, NEW c \in Cycles, Subscribe(w, a, c)
      PROVE  IInv'
  <2> DEFINE task == [Idle EXCEPT !.kind = "subscribe", !.addon = a, !.cycle = c]
  <2>1. task \in Task /\ task.kind = "subscribe"
    BY IdleTask DEF Task
  <2>2. TaskBacked(task, stripe)
    BY IdleTask DEF TaskBacked, Idle
  <2> HIDE DEF task
  <2>3. Settling(task) \in Task /\ TaskBacked(Settling(task), stripe)
    BY <2>1, <2>2, SettlingBacked
  <2>4. /\ tasks' = [tasks EXCEPT ![w] = Settling(task)]
        /\ UNCHANGED <<now, stripe, events, rows, flags, sold>>
        /\ spent' \in 0..MaxRequests
    BY <1>1, PlacementsAssumption DEF Subscribe, Asks, Spends, Begin, task, IInv, TypeOK
  <2>5. QED
    BY <2>3, <2>4, Moved DEF IInv, TypeOK
<1>2. ASSUME NEW w \in Workers, NEW a \in Addons, Cancel(w, a) \/ Reactivate(w, a)
      PROVE  IInv'
  <2>1. PICK kind \in {"cancel", "reactivate"} :
          tasks' = [tasks EXCEPT ![w] = [Idle EXCEPT !.kind = kind, !.pc = "stripe",
                                                     !.addon = a, !.read = rows]]
    BY <1>2 DEF Cancel, Reactivate, Begin
  <2> DEFINE task == [Idle EXCEPT !.kind = kind, !.pc = "stripe", !.addon = a, !.read = rows]
  <2>2. rows \in [Addons -> Row] /\ rows[a].sub \in Subs
    BY <1>2 DEF Cancel, Reactivate, Live, IInv, TypeOK, RowsBacked
  <2>3. task \in Task
    BY <2>2, IdleTask DEF Task
  <2>4. TaskBacked(task, stripe)
    BY <2>2, IdleTask DEF TaskBacked, Idle
  <2>5. UNCHANGED <<now, stripe, events, rows, flags, sold>> /\ spent' \in 0..MaxRequests
    BY <1>2, PlacementsAssumption DEF Cancel, Reactivate, Asks, Spends, IInv, TypeOK
  <2> HIDE DEF task
  <2>6. tasks' = [tasks EXCEPT ![w] = task]
    BY <2>1 DEF task
  <2>7. QED
    BY <2>3, <2>4, <2>5, <2>6, Moved DEF IInv, TypeOK
<1>3. ASSUME NEW w \in Workers, ForListing(w) PROVE IInv'
  <2> DEFINE task == [Idle EXCEPT !.kind = "look"]
  <2>1. task \in Task /\ task.kind = "look"
    BY IdleTask DEF Task
  <2>2. TaskBacked(task, stripe)
    BY IdleTask DEF TaskBacked, Idle
  <2> HIDE DEF task
  <2>3. Settling(task) \in Task /\ TaskBacked(Settling(task), stripe)
    BY <2>1, <2>2, SettlingBacked
  <2>4. /\ tasks' = [tasks EXCEPT ![w] = Settling(task)]
        /\ UNCHANGED <<now, stripe, events, rows, flags, sold, spent>>
    BY <1>3 DEF ForListing, Begin, task
  <2>5. QED
    BY <2>3, <2>4, Moved DEF IInv, TypeOK
<1>4. ASSUME NEW w \in Workers, NEW s \in Subs, SyncCheckoutSession(w, s) PROVE IInv'
  <2>1. PaidIn(stripe, s)
    BY <1>4 DEF SyncCheckoutSession, IsSettled, Paid, PaidIn
  <2>2. Recording(s, FALSE) \in Task /\ TaskBacked(Recording(s, FALSE), stripe)
    BY <2>1, RecordingBacked
  <2>3. /\ tasks' = [tasks EXCEPT ![w] = Recording(s, FALSE)]
        /\ UNCHANGED <<now, stripe, events, rows, flags, sold>>
        /\ spent' \in 0..MaxRequests
    BY <1>4, PlacementsAssumption DEF SyncCheckoutSession, Begin, IInv, TypeOK
  <2>4. QED
    BY <2>2, <2>3, Moved DEF IInv, TypeOK
<1>5. ASSUME NEW s \in Subs, NEW a \in Addons, NEW c \in Cycles,
             NEW kind \in {"placement", "package"}, CreatePackageCheckout(s, a, c, kind)
      PROVE  IInv'
  <2>1. Offer(s, kind, a, c, {}) /\ UNCHANGED <<now, events, rows, flags, sold, tasks, spent>>
    BY <1>5 DEF CreatePackageCheckout
  <2>2. stripe' \in [Subs -> Subscription] /\ Keeps(stripe, stripe') /\ OffersSound'
    BY <2>1, OfferKept
  <2>3. QED
    BY <2>1, <2>2, EventsUntouched, RowsUntouched, FlagsUntouched, TasksUntouched
       DEF IInv, TypeOK
<1>6. QED
  BY <1>1, <1>2, <1>3, <1>4, <1>5 DEF Seller
--------------------------------------------------------------------------------
(* The steps of a handler.                                                    *)

(* What the invariant says of the handler a worker runs.                      *)
LEMMA TaskFacts ==
  ASSUME IInv, NEW w \in Workers
  PROVE  /\ tasks[w] \in Task /\ TaskBacked(tasks[w], stripe)
         /\ tasks[w].addon \in Addons /\ tasks[w].cycle \in Cycles \cup {NoCycle}
         /\ tasks[w].read \in [Addons -> Row] /\ tasks[w].end \in Nat
         /\ tasks[w].stops \in SUBSET Subs /\ tasks[w].flags \in Flags
         /\ tasks[w].left \in SUBSET Addons
         /\ rows \in [Addons -> Row] /\ now \in Nat
  BY DEF IInv, TypeOK, TasksBacked, Task

(* A handler moves on to a step it may take.                                  *)
LEMMA AdvanceKept ==
  ASSUME IInv, Keeps(stripe, stripe'), NEW w \in Workers,
         NEW pc \in {"decide", "heal", "create", "upsert", "sync"},
         pc = "heal" => tasks[w].kind = "look",
         pc \in {"create", "upsert"} => tasks[w].kind = "record",
         Advance(w, pc)
  PROVE  tasks' \in [Workers -> Task] /\ TasksBacked'
<1> DEFINE next == [tasks[w] EXCEPT !.pc = pc]
<1>1. tasks[w] \in Task /\ TaskBacked(tasks[w], stripe')
  BY TaskFacts, TaskKept
<1>2. next \in Task /\ TaskBacked(next, stripe')
  BY <1>1 DEF Task, TaskBacked
<1>3. tasks' = [tasks EXCEPT ![w] = next]
  BY DEF Advance, IInv, TypeOK
<1>4. QED
  BY <1>2, <1>3, TaskSet

(* A row whose dates and cycles change is a row of the same subscription.     *)
LEMMA RowDated ==
  ASSUME NEW row \in Row, NEW endsAt \in Nat
  PROVE  /\ [row EXCEPT !.endsAt = endsAt] \in Row
         /\ [row EXCEPT !.endsAt = endsAt].sub = row.sub
  BY DEF Row

(* A row with a queued cycle is a row of the same subscription.               *)
LEMMA RowQueued ==
  ASSUME NEW row \in Row, NEW pending \in Cycles \cup {NoCycle}, NEW changeAt \in Nat
  PROVE  /\ [row EXCEPT !.pending = pending, !.changeAt = changeAt] \in Row
         /\ [row EXCEPT !.pending = pending, !.changeAt = changeAt].sub = row.sub
  BY DEF Row

(* A cancelled row is a row of the same subscription.                         *)
LEMMA RowEnding ==
  ASSUME NEW row \in Row, NEW endsAt \in Nat
  PROVE  /\ [row EXCEPT !.endsAt = endsAt, !.pending = NoCycle, !.changeAt = NoDate] \in Row
         /\ [row EXCEPT !.endsAt = endsAt, !.pending = NoCycle, !.changeAt = NoDate].sub
               = row.sub
  BY DEF Row, NoDate

(* A row on another cycle is a row of the same subscription.                  *)
LEMMA RowChanged ==
  ASSUME NEW row \in Row, NEW cycle \in Cycles \cup {NoCycle}
  PROVE  /\ [row EXCEPT !.cycle = cycle, !.pending = NoCycle, !.changeAt = NoDate] \in Row
         /\ [row EXCEPT !.cycle = cycle, !.pending = NoCycle, !.changeAt = NoDate].sub
               = row.sub
  BY DEF Row, NoDate

(* The subscription a deferred placement renews with is one.                  *)
LEMMA RenewalTyped ==
  ASSUME NEW addon \in Addons, NEW cycle \in Cycles \cup {NoCycle}
  PROVE  /\ [Unused EXCEPT !.kind = "renewal", !.addon = addon, !.cycle = cycle] \in Subscription
         /\ [Unused EXCEPT !.kind = "renewal", !.addon = addon, !.cycle = cycle].kind = "renewal"
         /\ [Unused EXCEPT !.kind = "renewal", !.addon = addon, !.cycle = cycle].cycle = cycle
  BY DEF Unused, Subscription, NoDate

(* Rows are deleted, whichever they are.                                      *)
LEMMA RowsDeleted ==
  ASSUME IInv, UNCHANGED stripe, NEW gone,
         rows' = [a \in Addons |-> IF a \in gone THEN NoRow ELSE rows[a]]
  PROVE  rows' \in [Addons -> Row] /\ RowsBacked'
<1>1. rows' \in [Addons -> Row]
  BY NoRowTyped DEF IInv, TypeOK
<1>2. \A a \in Addons : Exists(rows'[a]) => Exists(rows[a]) /\ rows'[a].sub = rows[a].sub
  BY NoRowTyped
<1>3. QED
  BY <1>1, <1>2, RowsKept, StripeUntouched

(* A row is written that keeps its subscription, or goes.                     *)
LEMMA RowWritten ==
  ASSUME IInv, UNCHANGED stripe, NEW a \in Addons, NEW row \in Row,
         Exists(row) => Exists(rows[a]) /\ row.sub = rows[a].sub,
         rows' = [rows EXCEPT ![a] = row]
  PROVE  rows' \in [Addons -> Row] /\ RowsBacked'
<1>1. rows' \in [Addons -> Row]
  BY DEF IInv, TypeOK
<1>2. \A b \in Addons : Exists(rows'[b]) => Exists(rows[b]) /\ rows'[b].sub = rows[b].sub
  BY DEF IInv, TypeOK
<1>3. QED
  BY <1>1, <1>2, RowsKept, StripeUntouched

(* Settling one row keeps the inductive invariant.                            *)
LEMMA SettleStep == ASSUME IInv, NEW w \in Workers, SettleDue(w) PROVE IInv'
<1> DEFINE task == tasks[w]
<1>0. UNCHANGED <<now, stripe, events, flags, sold, spent>>
  BY DEF SettleDue
<1>1. PICK a \in task.left :
        \/ /\ StillThere(task, a)
           /\ rows' = [rows EXCEPT ![a] = SettledRow(task, a)]
           /\ Begin(w, [task EXCEPT !.left = @ \ {a},
                                    !.pc = IF task.left = {a} THEN "sync" ELSE @])
        \/ ~StillThere(task, a) /\ Finish(w) /\ UNCHANGED rows
  BY DEF SettleDue
<1>2. CASE Finish(w) /\ UNCHANGED rows
  BY <1>0, <1>2, TaskFinished, StripeUntouched, EventsUntouched, RowsUntouched, FlagsUntouched
     DEF IInv, TypeOK
<1>3. CASE /\ StillThere(task, a)
           /\ rows' = [rows EXCEPT ![a] = SettledRow(task, a)]
           /\ Begin(w, [task EXCEPT !.left = @ \ {a},
                                    !.pc = IF task.left = {a} THEN "sync" ELSE @])
  <2>1. a \in Addons /\ task.read[a] \in Row /\ rows[a] \in Row
    BY TaskFacts
  <2>2. SettledRow(task, a) \in Row
        /\ (Exists(SettledRow(task, a)) => SettledRow(task, a).sub = rows[a].sub)
    <3>1. CASE HasEnded(task.read[a])
      BY <3>1, NoRowTyped DEF SettledRow
    <3>2. CASE ~HasEnded(task.read[a])
      <4> DEFINE read == task.read[a]
                 c == IF read.pending = NoCycle THEN read.cycle ELSE read.pending
      <4>1. c \in Cycles \cup {NoCycle}
        BY <2>1 DEF Row
      <4>2. SettledRow(task, a) = [rows[a] EXCEPT !.cycle = c, !.pending = NoCycle,
                                                  !.changeAt = NoDate]
        BY <3>2 DEF SettledRow
      <4> HIDE DEF c
      <4>3. QED
        BY <2>1, <4>1, <4>2, RowChanged
    <3>3. QED
      BY <3>1, <3>2
  <2>3. rows' \in [Addons -> Row] /\ RowsBacked'
    BY <1>0, <1>3, <2>1, <2>2, RowWritten DEF StillThere
  <2>4. tasks' \in [Workers -> Task] /\ TasksBacked'
    <3> DEFINE left == task.left \ {a}
               pc == IF task.left = {a} THEN "sync" ELSE task.pc
               next == [task EXCEPT !.left = left, !.pc = pc]
    <3>1. left \in SUBSET Addons /\ task.pc = "settle"
      BY TaskFacts DEF SettleDue
    <3>2. pc \in {"settle", "sync"}
      BY <3>1
    <3>3. tasks' = [tasks EXCEPT ![w] = next]
      BY <1>3 DEF Begin
    <3> HIDE DEF left, pc
    <3>4. next \in Task /\ TaskBacked(next, stripe)
      BY <3>1, <3>2, TaskFacts, ZenonT(60) DEF Task, TaskBacked
    <3>5. QED
      BY <1>0, <3>3, <3>4, TaskSet, StripeUntouched
  <2>5. QED
    BY <1>0, <2>3, <2>4, StripeUntouched, EventsUntouched, FlagsUntouched DEF IInv, TypeOK
<1>4. QED
  BY <1>1, <1>2, <1>3

(* The summary is worked out, compared and written.                           *)
LEMMA SummaryStep ==
  ASSUME IInv, NEW w \in Workers, Sync(w) \/ HealFlags(w) \/ Compare(w) \/ WriteFlags(w)
  PROVE  IInv'
<1> DEFINE task == tasks[w]
<1>1. CASE Sync(w) \/ HealFlags(w)
  <2>1. PICK pc \in {"flags", "compare"} :
          /\ tasks' = [tasks EXCEPT ![w].flags = Derived, ![w].pc = pc]
          /\ pc = "compare" => task.pc = "heal"
    BY <1>1 DEF Sync, HealFlags
  <2> DEFINE next == [task EXCEPT !.flags = Derived, !.pc = pc]
  <2>2. tasks' = [tasks EXCEPT ![w] = next]
    BY <2>1 DEF IInv, TypeOK
  <2>3. next \in Task /\ TaskBacked(next, stripe)
    BY <2>1, TaskFacts, DerivedBacked, ZenonT(60) DEF Task, TaskBacked
  <2>4. UNCHANGED <<now, stripe, events, rows, flags, sold, spent>>
    BY <1>1 DEF Sync, HealFlags
  <2> HIDE DEF next
  <2>5. QED
    BY <2>2, <2>3, <2>4, Moved DEF IInv, TypeOK
<1>2. CASE Compare(w)
  <2>1. UNCHANGED <<now, stripe, events, rows, flags, sold, spent>>
    BY <1>2 DEF Compare
  <2>2. CASE Finish(w)
    BY <2>1, <2>2, IdleTask, Moved DEF Finish, IInv, TypeOK
  <2>3. CASE Begin(w, [task EXCEPT !.kind = "heal", !.pc = "flags"])
    <3> DEFINE next == [task EXCEPT !.kind = "heal", !.pc = "flags"]
    <3>1. task.kind = "look"
      BY <1>2, TaskFacts DEF Compare, TaskBacked
    <3>2. next \in Task /\ TaskBacked(next, stripe)
      BY <3>1, TaskFacts, ZenonT(60) DEF Task, TaskBacked
    <3>3. tasks' = [tasks EXCEPT ![w] = next]
      BY <2>3 DEF Begin
    <3> HIDE DEF next
    <3>4. QED
      BY <2>1, <3>2, <3>3, Moved DEF IInv, TypeOK
  <2>4. QED
    BY <1>2, <2>2, <2>3 DEF Compare
<1>3. CASE WriteFlags(w)
  <2>1. UNCHANGED <<now, stripe, events, rows, sold, spent>> /\ flags' = task.flags
    BY <1>3 DEF WriteFlags
  <2>2. flags' \in Flags /\ FlagsBacked'
    BY <2>1, TaskFacts DEF TaskBacked, FlagsBacked
  <2>3. \/ Advance(w, "decide")
        \/ task.kind = "look" /\ Advance(w, "heal")
        \/ Finish(w)
    BY <1>3 DEF WriteFlags
  <2>4. tasks' \in [Workers -> Task] /\ TasksBacked'
    BY <2>1, <2>3, AdvanceKept, TaskFinished, StripeUntouched
  <2>5. QED
    BY <2>1, <2>2, <2>4, StripeUntouched, EventsUntouched, RowsUntouched DEF IInv, TypeOK
<1>4. QED
  BY <1>1, <1>2, <1>3

(* Refusing, queueing or selling a placement keeps the inductive invariant.   *)
LEMMA DecideStep == ASSUME IInv, NEW w \in Workers, Decide(w) PROVE IInv'
<1> DEFINE task == tasks[w]
           next == [task EXCEPT !.read = rows, !.pc = "save"]
<1>0. UNCHANGED <<now, events, rows, flags, sold, spent>>
  BY DEF Decide
<1>1. CASE UNCHANGED stripe /\ Finish(w)
  BY <1>0, <1>1, IdleTask, Moved DEF Finish, IInv, TypeOK
<1>2. CASE UNCHANGED stripe /\ tasks' = [tasks EXCEPT ![w].read = rows, ![w].pc = "save"]
  <2>1. tasks' = [tasks EXCEPT ![w] = next]
    BY <1>2 DEF IInv, TypeOK
  <2>2. next \in Task /\ TaskBacked(next, stripe)
    BY TaskFacts, ZenonT(60) DEF Task, TaskBacked
  <2> HIDE DEF next
  <2>3. QED
    BY <1>0, <1>2, <2>1, <2>2, Moved DEF IInv, TypeOK
<1>3. ASSUME Finish(w),
             NEW s \in Subs, Offer(s, "placement", task.addon, task.cycle, ReplacedBy(task.addon))
      PROVE  IInv'
  <2>1. ReplacedBy(task.addon) \subseteq LiveAddons
    BY DEF ReplacedBy
  <2>2. stripe' \in [Subs -> Subscription] /\ Keeps(stripe, stripe') /\ OffersSound'
    BY <1>3, <2>1, OfferKept, TaskFacts
  <2>3. QED
    BY <1>0, <1>3, <2>2, TaskFinished, EventsUntouched, RowsUntouched, FlagsUntouched
       DEF IInv, TypeOK
<1>4. QED
  BY <1>1, <1>2, <1>3 DEF Decide

(* The Stripe call of a cancellation or reactivation keeps it.                *)
LEMMA CallStep == ASSUME IInv, NEW w \in Workers, CallStripe(w) PROVE IInv'
<1> DEFINE task == tasks[w]
           s == task.read[task.addon].sub
           sub == [stripe[s] EXCEPT !.renews = (task.kind = "reactivate")]
           next == [task EXCEPT !.end = stripe[s].end, !.pc = "save"]
<1>0. UNCHANGED <<now, rows, flags, sold, spent>> /\ s \in Subs
  BY TaskFacts DEF CallStripe, TaskBacked
<1>1. stripe[s] \in Subscription /\ stripe[s].end \in Nat
  BY <1>0 DEF IInv, TypeOK, Subscription
<1>2. CASE Finish(w) /\ UNCHANGED <<stripe, events>>
  BY <1>0, <1>2, IdleTask, Moved DEF Finish, IInv, TypeOK
<1>3. CASE Active(s) /\ Becomes("updated", s, sub) /\ Begin(w, next)
  <2>1. /\ sub \in Subscription /\ sub.status = "active"
        /\ sub.kind = stripe[s].kind /\ sub.addon = stripe[s].addon
    BY <1>1, <1>3 DEF Active, Subscription
  <2>2. next \in Task /\ TaskBacked(next, stripe)
    BY <1>1, TaskFacts, ZenonT(60) DEF Task, TaskBacked
  <2> HIDE DEF sub, next, s
  <2>3. /\ stripe' \in [Subs -> Subscription] /\ Keeps(stripe, stripe') /\ OffersSound'
        /\ events' \in Seq(Event) /\ EventsBacked'
    BY <1>0, <1>3, <2>1, BecomesKept
  <2>4. tasks' \in [Workers -> Task] /\ TasksBacked'
    BY <1>3, <2>2, <2>3, TaskSet, TaskKept DEF Begin
  <2>5. QED
    BY <1>0, <2>3, <2>4, RowsUntouched, FlagsUntouched DEF IInv, TypeOK
<1>4. QED
  BY <1>2, <1>3 DEF CallStripe

(* Writing the row a request changes keeps the inductive invariant.           *)
LEMMA SaveStep == ASSUME IInv, NEW w \in Workers, Save(w) PROVE IInv'
<1> DEFINE task == tasks[w]
           a == task.addon
<1>0. UNCHANGED <<now, stripe, events, flags, sold, spent>>
  BY DEF Save
<1>1. CASE Finish(w) /\ UNCHANGED rows
  BY <1>0, <1>1, IdleTask, Moved DEF Finish, IInv, TypeOK
<1>2. CASE /\ StillThere(task, a)
           /\ rows' = [rows EXCEPT ![a] = Written(task, a)]
           /\ Advance(w, "sync") \/ Finish(w)
  <2>1. rows[a] \in Row /\ task.read[a] \in Row /\ a \in Addons
    BY TaskFacts
  <2>2. PaidUpTo(task.read[a]) \in Nat
    <3>1. task.read[a].end \in Nat /\ task.read[a].cycle \in Nat
      BY <2>1, CyclesAreNumbers DEF Row
    <3>2. QED
      BY <3>1, TaskFacts DEF PaidUpTo
  <2> DEFINE paid == PaidUpTo(task.read[a])
  <2>3. task.end \in Nat /\ task.cycle \in Cycles \cup {NoCycle} /\ paid \in Nat
    BY <2>2, TaskFacts
  <2>4. \/ Written(task, a) = [rows[a] EXCEPT !.endsAt = task.end, !.pending = NoCycle,
                                             !.changeAt = NoDate]
        \/ Written(task, a) = [rows[a] EXCEPT !.endsAt = NoDate]
        \/ Written(task, a) = [rows[a] EXCEPT !.pending = task.cycle, !.changeAt = paid]
    BY DEF Written
  <2>5. Written(task, a) \in Row /\ Written(task, a).sub = rows[a].sub
    <3> HIDE DEF paid, task, a
    <3>1. NoDate \in Nat
      BY DEF NoDate
    <3>2. CASE Written(task, a) = [rows[a] EXCEPT !.endsAt = task.end, !.pending = NoCycle,
                                                  !.changeAt = NoDate]
      BY <2>1, <2>3, <3>2, RowEnding
    <3>3. CASE Written(task, a) = [rows[a] EXCEPT !.endsAt = NoDate]
      BY <2>1, <3>1, <3>3, RowDated
    <3>4. CASE Written(task, a) = [rows[a] EXCEPT !.pending = task.cycle, !.changeAt = paid]
      <4> DEFINE row == rows[a]
                 cycle == task.cycle
      <4>1. row \in Row /\ cycle \in Cycles \cup {NoCycle} /\ paid \in Nat
        BY <2>1, <2>3
      <4>2. Written(task, a) = [row EXCEPT !.pending = cycle, !.changeAt = paid]
        BY <3>4
      <4> HIDE DEF row, cycle
      <4>3. /\ [row EXCEPT !.pending = cycle, !.changeAt = paid] \in Row
            /\ [row EXCEPT !.pending = cycle, !.changeAt = paid].sub = row.sub
        BY <4>1, RowQueued
      <4>4. Written(task, a) \in Row /\ Written(task, a).sub = row.sub
        BY <4>2, <4>3
      <4>5. QED
        BY <4>4 DEF row
    <3>5. QED
      BY <2>4, <3>2, <3>3, <3>4
  <2>6. rows' \in [Addons -> Row] /\ RowsBacked'
    BY <1>0, <1>2, <2>1, <2>5, RowWritten DEF StillThere
  <2>7. tasks' \in [Workers -> Task] /\ TasksBacked'
    BY <1>0, <1>2, AdvanceKept, TaskFinished, StripeUntouched
  <2>8. QED
    BY <1>0, <2>6, <2>7, StripeUntouched, EventsUntouched, FlagsUntouched DEF IInv, TypeOK
<1>3. QED
  BY <1>1, <1>2 DEF Save
--------------------------------------------------------------------------------
(* The steps of a recording.                                                  *)

(* A handler at a step of a recording records a paid checkout.                *)
LEMMA RecordFacts ==
  ASSUME IInv, NEW w \in Workers,
         tasks[w].pc \in {"fetch", "stop", "clear", "check", "create", "upsert"}
  PROVE  /\ tasks[w].kind = "record"
         /\ tasks[w].session \in Subs /\ tasks[w].sub \in Subs
         /\ PaidIn(stripe, tasks[w].session)
         /\ stripe[tasks[w].session].addon = tasks[w].addon
  BY TaskFacts DEF TaskBacked

(* Reading the subscription from Stripe keeps the inductive invariant.        *)
LEMMA FetchStep == ASSUME IInv, NEW w \in Workers, Fetch(w) PROVE IInv'
<1> DEFINE task == tasks[w]
           stops == stripe[task.sub].stops
           pc == IF stops = {} THEN "clear" ELSE "stop"
<1>0. /\ UNCHANGED <<now, stripe, events, rows, flags, sold, spent>>
      /\ task.kind = "record" /\ task.sub \in Subs
  BY RecordFacts DEF Fetch
<1>1. /\ stripe[task.sub].end \in Nat /\ NoDate \in Nat
      /\ stops \in SUBSET Subs /\ pc \in {"clear", "stop"}
  BY <1>0 DEF IInv, TypeOK, Subscription, NoDate
<1>2. PICK end \in Nat : tasks' = [tasks EXCEPT ![w] = [task EXCEPT !.end = end, !.stops = stops,
                                                                    !.pc = pc]]
  BY <1>1 DEF Fetch, Begin
<1> DEFINE next == [task EXCEPT !.end = end, !.stops = stops, !.pc = pc]
<1> HIDE DEF stops, pc
<1>3. next \in Task /\ TaskBacked(next, stripe)
  BY <1>0, <1>1, TaskFacts, ZenonT(60) DEF Task, TaskBacked
<1>4. QED
  BY <1>0, <1>2, <1>3, Moved DEF IInv, TypeOK

(* Stopping a replaced subscription keeps the inductive invariant.            *)
LEMMA StopStep == ASSUME IInv, NEW w \in Workers, StopReplaced(w) PROVE IInv'
<1> DEFINE task == tasks[w]
<1>0. UNCHANGED <<now, rows, flags, sold, spent>> /\ task.kind = "record"
  BY RecordFacts DEF StopReplaced
<1>1. PICK t \in task.stops :
        /\ \/ Active(t) /\ Becomes("deleted", t, Stopped(stripe[t]))
           \/ UNCHANGED <<stripe, events>>
        /\ Begin(w, [task EXCEPT !.stops = @ \ {t},
                                 !.pc = IF task.stops = {t} THEN "clear" ELSE @])
  BY DEF StopReplaced
<1> DEFINE stops == task.stops \ {t}
           pc == IF task.stops = {t} THEN "clear" ELSE task.pc
           next == [task EXCEPT !.stops = stops, !.pc = pc]
<1>2. t \in Subs /\ stops \in SUBSET Subs /\ pc \in {"clear", "stop"}
  BY TaskFacts DEF StopReplaced
<1>3. /\ stripe' \in [Subs -> Subscription] /\ Keeps(stripe, stripe') /\ OffersSound'
      /\ events' \in Seq(Event) /\ EventsBacked'
  <2>1. CASE UNCHANGED <<stripe, events>>
    BY <2>1, StripeUntouched, EventsUntouched
  <2>2. CASE Becomes("deleted", t, Stopped(stripe[t]))
    <3>1. stripe[t] \in Subscription
      BY <1>2 DEF IInv, TypeOK
    <3>2. /\ Stopped(stripe[t]) \in Subscription /\ Stopped(stripe[t]).status = "canceled"
          /\ Stopped(stripe[t]).kind = stripe[t].kind
          /\ Stopped(stripe[t]).addon = stripe[t].addon
      BY <3>1 DEF Stopped, Subscription
    <3>3. QED
      BY <1>2, <2>2, <3>2, BecomesKept
  <2>3. QED
    BY <1>1, <2>1, <2>2
<1>4. tasks' = [tasks EXCEPT ![w] = next]
  BY <1>1 DEF Begin
<1> HIDE DEF stops, pc
<1>5. next \in Task /\ TaskBacked(next, stripe)
  BY <1>0, <1>2, TaskFacts, ZenonT(60) DEF Task, TaskBacked
<1> HIDE DEF next
<1>6. tasks' \in [Workers -> Task] /\ TasksBacked'
  BY <1>3, <1>4, <1>5, TaskSet, TaskKept
<1>7. QED
  BY <1>0, <1>3, <1>6, RowsUntouched, FlagsUntouched DEF IInv, TypeOK

(* Deleting the replaced rows keeps the inductive invariant.                  *)
LEMMA ClearStep == ASSUME IInv, NEW w \in Workers, DeleteReplaced(w) PROVE IInv'
<1> DEFINE replaced == stripe[tasks[w].session].replaces \ {tasks[w].addon}
<1>0. UNCHANGED <<now, stripe, events, flags, sold, spent>> /\ tasks[w].kind = "record"
  BY RecordFacts DEF DeleteReplaced
<1>1. rows' = [a \in Addons |-> IF a \in replaced THEN NoRow ELSE rows[a]]
  BY DEF DeleteReplaced
<1>2. rows' \in [Addons -> Row] /\ RowsBacked'
  BY <1>0, <1>1, RowsDeleted
<1>3. tasks' \in [Workers -> Task] /\ TasksBacked'
  BY <1>0, AdvanceKept, StripeUntouched DEF DeleteReplaced
<1>4. QED
  BY <1>0, <1>2, <1>3, StripeUntouched, EventsUntouched, FlagsUntouched DEF IInv, TypeOK

(* Looking for the row of a deferred placement keeps it.                      *)
LEMMA CheckStep == ASSUME IInv, NEW w \in Workers, CheckHeld(w) PROVE IInv'
<1>0. UNCHANGED <<now, stripe, events, rows, flags, sold, spent>> /\ tasks[w].kind = "record"
  BY RecordFacts DEF CheckHeld
<1>1. Finish(w) \/ Advance(w, "create")
  BY DEF CheckHeld
<1>2. tasks' \in [Workers -> Task] /\ TasksBacked'
  BY <1>0, <1>1, AdvanceKept, TaskFinished, StripeUntouched
<1>3. QED
  BY <1>0, <1>2, StripeUntouched, EventsUntouched, RowsUntouched, FlagsUntouched
     DEF IInv, TypeOK

(* Starting the renewal of a deferred placement keeps it.                     *)
LEMMA CreateStep == ASSUME IInv, NEW w \in Workers, StartDeferredAddon(w) PROVE IInv'
<1> DEFINE task == tasks[w]
           addon == task.addon
           cycle == stripe[task.session].cycle
           unused == [Unused EXCEPT !.kind = "renewal", !.addon = addon, !.cycle = cycle]
           sub == Started(unused)
<1>0. /\ UNCHANGED <<now, events, rows, flags, sold, spent>>
      /\ task.kind = "record" /\ task.session \in Subs
  BY RecordFacts DEF StartDeferredAddon
<1>1. CASE Finish(w) /\ UNCHANGED stripe
  BY <1>0, <1>1, IdleTask, Moved DEF Finish, IInv, TypeOK
<1>2. ASSUME NEW t \in Subs, stripe[t].status = "unused",
             stripe' = [stripe EXCEPT ![t] = sub],
             Begin(w, [task EXCEPT !.sub = t, !.end = sub.end, !.pc = "upsert"])
      PROVE  IInv'
  <2> DEFINE end == now + unused.cycle
             next == [task EXCEPT !.sub = t, !.end = sub.end, !.pc = "upsert"]
  <2>1. cycle \in Cycles \cup {NoCycle} /\ addon \in Addons
    BY <1>0, TaskFacts DEF IInv, TypeOK, Subscription
  <2>2. unused \in Subscription /\ unused.kind = "renewal" /\ unused.cycle = cycle
    <3> HIDE DEF addon, cycle
    <3>1. QED
      BY <2>1, RenewalTyped
  <2>3. end \in Nat
    <3> HIDE DEF unused, cycle
    <3>1. unused.cycle \in Nat /\ now \in Nat
      BY <2>1, <2>2, CyclesAreNumbers, TaskFacts
    <3>2. QED
      BY <3>1
  <2>4. sub = [unused EXCEPT !.status = "active", !.renews = TRUE, !.end = end]
    BY DEF Started
  <2> HIDE DEF unused, end, sub
  <2>5. sub \in Subscription /\ sub.status = "active" /\ sub.end \in Nat
    BY <2>2, <2>3, <2>4 DEF Subscription
  <2>6. stripe' \in [Subs -> Subscription] /\ Keeps(stripe, stripe') /\ OffersSound'
    BY <1>2, <2>5, StripeSet DEF PaidIn
  <2>7. next \in Task /\ TaskBacked(next, stripe)
    BY <1>0, <2>5, TaskFacts, ZenonT(60) DEF Task, TaskBacked
  <2>8. tasks' = [tasks EXCEPT ![w] = next]
    BY <1>2 DEF Begin
  <2> HIDE DEF next
  <2>9. tasks' \in [Workers -> Task] /\ TasksBacked'
    BY <2>6, <2>7, <2>8, TaskSet, TaskKept
  <2>10. QED
    BY <1>0, <2>6, <2>9, EventsUntouched, RowsUntouched, FlagsUntouched DEF IInv, TypeOK
<1>3. QED
  BY <1>1, <1>2 DEF StartDeferredAddon

(* Writing the row of a paid placement keeps the inductive invariant.         *)
LEMMA UpsertStep == ASSUME IInv, NEW w \in Workers, Upsert(w) PROVE IInv'
<1> DEFINE task == tasks[w]
           a == task.addon
           cycle == stripe[task.sub].cycle
<1>0. /\ UNCHANGED <<now, stripe, events, flags, sold, spent>>
      /\ task.kind = "record" /\ task.sub \in Subs /\ a \in Addons
      /\ BoughtIn(stripe, a)
  BY RecordFacts, TaskFacts DEF Upsert, BoughtIn
<1>1. PICK id \in RowIds : rows' = [rows EXCEPT ![a] = Bought(rows[a], task, id)]
  <2>1. Exists(rows[a]) => rows[a].id \in RowIds
    BY <1>0 DEF Exists, IInv, TypeOK, Row
  <2>2. QED
    BY <2>1 DEF Upsert
<1>2. Bought(rows[a], task, id) \in Row /\ Bought(rows[a], task, id).sub = task.sub
  <2> DEFINE sub == task.sub
             end == task.end
  <2>1. cycle \in Cycles \cup {NoCycle} /\ sub \in Subs /\ end \in Nat /\ id \in RowIds
    BY <1>0, <1>1, TaskFacts DEF IInv, TypeOK, Subscription
  <2>2. Bought(rows[a], task, id) = [NoRow EXCEPT !.id = id, !.sub = sub, !.cycle = cycle,
                                                 !.end = end]
    BY DEF Bought
  <2> HIDE DEF cycle, sub, end
  <2>3. /\ [NoRow EXCEPT !.id = id, !.sub = sub, !.cycle = cycle, !.end = end] \in Row
        /\ [NoRow EXCEPT !.id = id, !.sub = sub, !.cycle = cycle, !.end = end].sub = sub
    BY <2>1 DEF NoRow, Row, NoDate
  <2>4. QED
    BY <2>2, <2>3 DEF sub
<1>3. rows' \in [Addons -> Row]
  BY <1>0, <1>1, <1>2 DEF IInv, TypeOK
<1>4. RowsBacked'
  <2>1. ASSUME NEW b \in Addons, Exists(rows'[b])
        PROVE  rows'[b].sub \in Subs /\ BoughtIn(stripe, b)
    <3>1. CASE b = a
      BY <1>0, <1>1, <1>2, <3>1 DEF IInv, TypeOK
    <3>2. CASE b # a
      BY <1>1, <2>1, <3>2 DEF IInv, TypeOK, RowsBacked
    <3>3. QED
      BY <3>1, <3>2
  <2>2. QED
    BY <1>0, <2>1 DEF RowsBacked, BoughtIn, PaidIn
<1>5. tasks' \in [Workers -> Task] /\ TasksBacked'
  BY <1>0, AdvanceKept, StripeUntouched DEF Upsert
<1>6. QED
  BY <1>0, <1>3, <1>4, <1>5, StripeUntouched, EventsUntouched, FlagsUntouched DEF IInv, TypeOK

(* Every step of a handler keeps the inductive invariant.                     *)
LEMMA HandlerStep == ASSUME IInv, NEW w \in Workers, Step(w) PROVE IInv'
  BY SettleStep, SummaryStep, DecideStep, CallStep, SaveStep, FetchStep, StopStep, ClearStep,
     CheckStep, CreateStep, UpsertStep DEF Step
--------------------------------------------------------------------------------
(* An event is delivered, or lost, or a handler dies.                         *)
LEMMA DeliverStep ==
  ASSUME IInv, NEW w \in Workers, NEW i \in DOMAIN events, Deliver(w, i)
  PROVE  IInv'
<1>1. UNCHANGED <<now, stripe, flags, sold, spent>>
  BY DEF Deliver
<1>2. events[i] \in Event
  BY ElementOfSeq DEF IInv, TypeOK
<1>3. events[i].sub \in Subs /\ events[i].end \in Nat
  BY <1>2 DEF Event
<1>4. events' \in Seq(Event) /\ EventsBacked'
  BY <1>1, EventTaken DEF Deliver, Accept
<1>5. CASE HandleCheckoutCompleted(w, i)
  <2> DEFINE task == Recording(events[i].sub, TRUE)
  <2>1. PaidIn(stripe, events[i].sub)
    BY <1>5 DEF HandleCheckoutCompleted, IInv, EventsBacked, EventBacked
  <2>2. task \in Task /\ TaskBacked(task, stripe)
    BY <1>3, <2>1, RecordingBacked
  <2>3. tasks' = [tasks EXCEPT ![w] = task] /\ UNCHANGED rows
    BY <1>5 DEF HandleCheckoutCompleted, Begin
  <2> HIDE DEF task
  <2>4. tasks' \in [Workers -> Task] /\ TasksBacked'
    BY <1>1, <2>2, <2>3, TaskSet, StripeUntouched
  <2>5. QED
    BY <1>1, <1>4, <2>3, <2>4, StripeUntouched, RowsUntouched, FlagsUntouched DEF IInv, TypeOK
<1>6. CASE RecordListingRenewal(w, i)
  <2> DEFINE end == events[i].end
  <2>1. /\ rows' = [a \in Addons |-> IF Exists(rows[a]) /\ rows[a].sub = events[i].sub
                                    THEN [rows[a] EXCEPT !.end = end] ELSE rows[a]]
        /\ UNCHANGED tasks
    BY <1>6 DEF RecordListingRenewal
  <2>2. ASSUME NEW a \in Addons
        PROVE  /\ rows'[a] \in Row
               /\ Exists(rows'[a]) => Exists(rows[a]) /\ rows'[a].sub = rows[a].sub
    <3>1. rows[a] \in Row /\ end \in Nat
      BY <1>3 DEF IInv, TypeOK
    <3> HIDE DEF end
    <3>2. \/ rows'[a] = rows[a]
          \/ Exists(rows[a]) /\ rows'[a] = [rows[a] EXCEPT !.end = end]
      <4>1. rows'[a] = IF Exists(rows[a]) /\ rows[a].sub = events[i].sub
                       THEN [rows[a] EXCEPT !.end = end] ELSE rows[a]
        BY <2>1
      <4>2. QED
        BY <4>1
    <3>3. CASE Exists(rows[a]) /\ rows'[a] = [rows[a] EXCEPT !.end = end]
      <4>1. rows'[a] \in Row /\ rows'[a].sub = rows[a].sub
        BY <3>1, <3>3 DEF Row
      <4>2. QED
        BY <3>3, <4>1
    <3>4. QED
      BY <3>1, <3>2, <3>3
  <2>3. rows' \in [Addons -> Row]
    BY <2>1, <2>2
  <2>4. RowsBacked'
    BY <1>1, <2>2, <2>3, RowsKept, StripeUntouched
  <2>5. QED
    BY <1>1, <1>4, <2>1, <2>3, <2>4, StripeUntouched, FlagsUntouched, TasksUntouched
       DEF IInv, TypeOK
<1>7. CASE EndPlacementsFromStripe(w, i)
  <2> DEFINE ended == {a \in Addons : Exists(rows[a]) /\ rows[a].sub = events[i].sub}
             task == [Idle EXCEPT !.kind = "ended", !.session = events[i].sub,
                                  !.pc = "sync", !.hook = TRUE]
  <2>1. /\ rows' = [a \in Addons |-> IF a \in ended THEN NoRow ELSE rows[a]]
        /\ UNCHANGED tasks \/ tasks' = [tasks EXCEPT ![w] = task]
    BY <1>7 DEF EndPlacementsFromStripe, Begin
  <2> HIDE DEF ended
  <2>2. rows' \in [Addons -> Row] /\ RowsBacked'
    BY <1>1, <2>1, RowsDeleted
  <2>3. task \in Task /\ TaskBacked(task, stripe)
    BY <1>3, IdleTask DEF Task, TaskBacked, Idle
  <2> HIDE DEF task
  <2>4. tasks' \in [Workers -> Task] /\ TasksBacked'
    BY <1>1, <2>1, <2>3, TaskSet, TasksUntouched, StripeUntouched
  <2>5. QED
    BY <1>1, <1>4, <2>2, <2>4, StripeUntouched, FlagsUntouched DEF IInv, TypeOK
<1>8. QED
  BY <1>5, <1>6, <1>7 DEF Deliver

(* A lost event keeps the inductive invariant.                                *)
LEMMA LoseStep == ASSUME IInv, NEW i \in DOMAIN events, Lose(i) PROVE IInv'
<1>1. UNCHANGED <<now, stripe, rows, flags, sold, tasks, spent>> /\ events' = RemoveAt(events, i)
  BY DEF Lose
<1>2. QED
  BY <1>1, EventTaken, StripeUntouched, RowsUntouched, FlagsUntouched, TasksUntouched
     DEF IInv, TypeOK

(* A handler that dies, and its event repeated, keep it.                      *)
LEMMA CrashStep == ASSUME IInv, NEW w \in Workers, Crash(w) PROVE IInv'
<1> DEFINE task == tasks[w]
           type == IF task.kind = "ended" THEN "deleted" ELSE "checkout"
           e == EventOf(type, task.session, stripe[task.session])
<1>0. UNCHANGED <<now, stripe, rows, flags, sold, spent>> /\ Finish(w)
  BY DEF Crash
<1>1. UNCHANGED events \/ (task.hook /\ events' = Append(events, e))
  BY DEF Crash
<1>2. events' \in Seq(Event) /\ EventsBacked'
  <2>1. CASE UNCHANGED events
    BY <1>0, <2>1, StripeUntouched, EventsUntouched
  <2>2. CASE task.hook /\ events' = Append(events, e)
    <3>1. task.session \in Subs /\ (type = "checkout" => PaidIn(stripe, task.session))
      BY <2>2, TaskFacts DEF TaskBacked
    <3>2. stripe[task.session].end \in Nat
      BY <3>1 DEF IInv, TypeOK, Subscription
    <3>3. e \in Event /\ EventBacked(e, stripe')
      BY <1>0, <3>1, <3>2, EventTyped DEF EventBacked, PaidIn
    <3>4. QED
      BY <1>0, <2>2, <3>3, EventQueued, StripeUntouched
  <2>3. QED
    BY <1>1, <2>1, <2>2
<1>3. QED
  BY <1>0, <1>2, TaskFinished, StripeUntouched, RowsUntouched, FlagsUntouched DEF IInv, TypeOK

(* The flags go, or the listing is sold: nothing is added.                    *)
LEMMA ListingStep == ASSUME IInv, DeactivateListingPackage \/ MarkSold PROVE IInv'
<1>1. /\ UNCHANGED <<now, stripe, events, rows, tasks, spent>> /\ sold' \in BOOLEAN
      /\ flags' = [flags EXCEPT !.pages = {}]
  BY DEF DeactivateListingPackage, MarkSold, IInv, TypeOK
<1>2. flags' \in Flags /\ FlagsBacked'
  BY <1>1 DEF IInv, TypeOK, Flags, FlagsBacked, PagesBought
<1>3. QED
  BY <1>1, <1>2, StripeUntouched, EventsUntouched, RowsUntouched, TasksUntouched
     DEF IInv, TypeOK

(* Every step keeps the inductive invariant.                                  *)
THEOREM NextBacked == IInv /\ [Next]_vars => IInv'
<1> SUFFICES ASSUME IInv, [Next]_vars PROVE IInv'
  OBVIOUS
<1>1. CASE Next
  BY <1>1, StripeStep, SellerStep, HandlerStep, DeliverStep, LoseStep, CrashStep, ListingStep
     DEF Next
<1>2. CASE UNCHANGED vars
  BY <1>2, StripeUntouched, EventsUntouched, RowsUntouched, FlagsUntouched, TasksUntouched
     DEF vars, IInv, TypeOK
<1>3. QED
  BY <1>1, <1>2

(* Every reachable state satisfies the inductive invariant.                   *)
THEOREM Invariant == Spec => []IInv
  BY InitBacked, NextBacked, PTL DEF Spec

(* The rows, the summary, the subscriptions, the queue and the tasks keep     *)
(* their types.                                                               *)
THEOREM TypeCorrect == Spec => []TypeOK
<1>1. IInv => TypeOK
  BY DEF IInv
<1>2. QED
  BY <1>1, Invariant, PTL

(* No placement and no page without a payment, for any number of              *)
(* subscriptions and handlers and under every fault.                          *)
THEOREM PlacementPaidFor == Spec => []PlacementWasPaidFor
<1>1. IInv => PlacementWasPaidFor
  BY DEF IInv, RowsBacked, FlagsBacked, PagesBought, BoughtIn, PaidIn, PlacementWasPaidFor,
         WasBought, Paid
<1>2. QED
  BY <1>1, Invariant, PTL
--------------------------------------------------------------------------------
(* What Stripe bills is what the listing has and says.                        *)

(* Handlers come one at a time, except that the webhook and the success page  *)
(* may record a checkout together, and each runs to its end; events arrive,   *)
(* in any order, and may be repeated.  A checkout is recorded before another  *)
(* is opened or anything else asked for, old success pages stay closed, and a *)
(* placement is bought with a package only by a listing that has none.        *)
Undisturbed ==
  /\ Faults \cap {"overlap", "lose", "outage", "crash"} = {}
  /\ Requests \cap {"tabs", "meanwhile", "packageAgain", "replay"} = {}

Ended(row, day) == row.endsAt # NoDate /\ row.endsAt <= day
Lasts(row, day) == Exists(row) /\ ~Ended(row, day)
Lasting(table, day) == {a \in Addons : Lasts(table[a], day)}
Summary(table, day) == [addons |-> Lasting(table, day),
                        pages |-> UNION {Grants(a) : a \in Lasting(table, day)}]

Runs(sub, day) == sub.status = "active" /\ sub.renews /\ sub.end > day
RunsOut(sub, day) == ~sub.renews /\ sub.end <= day
WasBilled(sub) == sub.status \in {"active", "canceled"}

OnTheWay(queue, s) == \E i \in DOMAIN queue : queue[i].type = "checkout" /\ queue[i].sub = s
EndTold(queue, s) == \E i \in DOMAIN queue : queue[i].type = "deleted" /\ queue[i].sub = s

Records(task, s) == task.kind = "record" /\ task.session = s
Unrecorded(queue, work, s) == OnTheWay(queue, s) \/ \E w \in Workers : Records(work[w], s)
Open(held, queue, work, s) == held[s].status = "offered" \/ Unrecorded(queue, work, s)

(* No two handlers are at work but on the same checkout of a placement.       *)
Alone(work, held) ==
  \A v, w \in Workers : v # w /\ work[v] # Idle /\ work[w] # Idle =>
    /\ work[v].kind = "record" /\ Records(work[w], work[v].session)
    /\ held[work[v].session].kind = "placement"

OneOpen(held, queue, work) ==
  \A s, t \in Subs : Open(held, queue, work, s) /\ Open(held, queue, work, t) => s = t

EndsTrue(held, queue) == \A s \in Subs : EndTold(queue, s) => held[s].status = "canceled"

(* What a checkout was opened for, and what it is in the way of.              *)
Clash(a, b) == a = b \/ a = Bundle \/ b = Bundle
OffersFit(held) ==
  \A s \in Subs : held[s].status # "unused" =>
    /\ held[s].cycle \in Cycles
    /\ \A a \in held[s].replaces : Clash(a, held[s].addon)
    /\ held[s].kind = "package" => held[s].replaces = {}
    /\ \A t \in held[s].stops : t # s /\ WasBilled(held[t])

(* Until a checkout is recorded its first period goes on.                     *)
Begun(sub, day) == IF sub.kind = "package" THEN sub.status = "paid" ELSE Runs(sub, day)
Fresh(held, queue, work, day) ==
  \A s \in Subs : Unrecorded(queue, work, s) => Begun(held[s], day)

(* A row has a subscription of its placement, and hears when that has ended.  *)
Linked(row, a, held, queue) ==
  IF Exists(row)
  THEN /\ held[row.sub].addon = a /\ WasBilled(held[row.sub])
       /\ held[row.sub].status = "canceled" => EndTold(queue, row.sub)
  ELSE row.sub = NoSub
RowsLinked(table, held, queue) == \A a \in Addons : Linked(table[a], a, held, queue)

(* Between a handler's call to Stripe and its write, the two may differ.      *)
Dates(task, a) == task.pc = "save" /\ task.kind \in {"cancel", "reactivate"} /\ task.addon = a
DatesAgree(table, held, work) ==
  \A a \in Addons : Exists(table[a]) /\ held[table[a].sub].status = "active" =>
    \/ \E w \in Workers : Dates(work[w], a)
    \/ /\ held[table[a].sub].renews <=> table[a].endsAt = NoDate
       /\ table[a].endsAt # NoDate => table[a].endsAt = held[table[a].sub].end

CyclesAgree(table, held) ==
  "shorter" \notin Requests => \A a \in Addons : Exists(table[a]) =>
    /\ table[a].pending = NoCycle /\ table[a].changeAt = NoDate
    /\ table[a].cycle = held[table[a].sub].cycle

(* The bundle and a placement it includes: one of them has ended.             *)
Apart(table, day) ==
  \A a \in Singles : Exists(table[a]) /\ Exists(table[Bundle]) =>
    Ended(table[a], day) \/ Ended(table[Bundle], day)

(* What a checkout is in the way of it replaces, or it has ended.             *)
Yields(row, a, sub, s, day) ==
  \/ a \in sub.replaces /\ row.sub \in sub.stops
  \/ Ended(row, day)
  \/ a = sub.addon /\ (row.sub = s \/ sub.kind = "package")
MakesWay(table, held, queue, work, day) ==
  \A s \in Subs, a \in Addons :
    Open(held, queue, work, s) /\ Clash(a, held[s].addon) /\ Exists(table[a]) =>
      Yields(table[a], a, held[s], s, day)

(* What is billed is on a row, or will be, or runs out.                       *)
Tends(task, s) ==
  task.kind = "record" /\ task.sub = s /\ task.pc \in {"fetch", "stop", "clear", "upsert"}
Held(s, table, held, queue, work, day) ==
  \/ table[held[s].addon].sub = s
  \/ RunsOut(held[s], day)
  \/ OnTheWay(queue, s)
  \/ \E w \in Workers : Tends(work[w], s)
AllHeld(table, held, queue, work, day) ==
  \A s \in Subs : held[s].status = "active" => Held(s, table, held, queue, work, day)

(* What a handler at a step of recording session s has done so far.           *)
StepFits(task, sub) ==
  IF sub.kind = "package"
  THEN task.pc \in {"check", "create", "upsert", "sync", "flags"}
  ELSE task.pc \in {"fetch", "stop", "clear", "upsert", "sync", "flags"} /\ task.sub = task.session

StopsFit(task, sub, held) ==
  /\ task.pc = "stop" => /\ task.stops \subseteq sub.stops
                         /\ \A t \in sub.stops \ task.stops : held[t].status = "canceled"
  /\ task.pc \in {"clear", "upsert"} /\ sub.kind # "package" =>
       \A t \in sub.stops : held[t].status = "canceled"

WritesFit(task, sub, held, table, day) ==
  /\ sub.kind = "package" /\ task.pc \in {"create", "upsert"} => ~Exists(table[task.addon])
  /\ task.pc \in {"upsert", "sync", "flags"} =>
       /\ Runs(held[task.sub], day) /\ held[task.sub].addon = task.addon
       /\ \A a \in sub.replaces : a # task.addon => ~Exists(table[a])
  /\ task.pc \in {"sync", "flags"} =>
       /\ Exists(table[task.addon]) /\ table[task.addon].sub = task.sub
       /\ table[task.addon].endsAt = NoDate

RecordFits(task, held, table, day) ==
  /\ StepFits(task, held[task.session])
  /\ StopsFit(task, held[task.session], held)
  /\ WritesFit(task, held[task.session], held, table, day)

(* A handler about to change the date a row ends: nothing else touches it.    *)
RequestFits(task, row, held, queue, day) ==
  /\ Exists(row) /\ task.read[task.addon] = row /\ ~OnTheWay(queue, row.sub)
  /\ task.kind = "cancel" => row.endsAt = NoDate
  /\ task.kind = "reactivate" => row.endsAt > day
  /\ task.pc = "save" =>
       /\ task.end = held[row.sub].end
       /\ task.kind = "cancel" => (held[row.sub].status = "active" => ~held[row.sub].renews)
       /\ task.kind = "reactivate" => Runs(held[row.sub], day)

TaskFits(task, held, table, queue, day) ==
  /\ task.kind = "record" => RecordFits(task, held, table, day)
  /\ task.kind = "ended" => task.pc \in {"sync", "flags"}
  /\ task.kind \in {"cancel", "reactivate"} /\ task.pc \in {"stripe", "save"} =>
       RequestFits(task, table[task.addon], held, queue, day)
  /\ task.pc = "stripe" => task.kind \in {"cancel", "reactivate"}
  /\ task.pc = "save" => \/ task.kind \in {"cancel", "reactivate"}
                         \/ task.kind = "subscribe" /\ "shorter" \in Requests
  /\ task.kind = "subscribe" => task.cycle \in Cycles
  /\ task.pc = "decide" => task.kind = "subscribe"
  /\ task.pc = "settle" => /\ task.kind \in {"look", "subscribe"}
                           /\ \A a \in task.left : Exists(table[a]) /\ task.read[a] = table[a]
  /\ task.pc \in {"compare", "flags"} => task.flags = Summary(table, day)
TasksFit(work, held, table, queue, day) ==
  \A w \in Workers : TaskFits(work[w], held, table, queue, day)

(* The summary is true of the rows but for those that have ended, or will be  *)
(* written by a handler at work.                                              *)
Syncs(task) ==
  task.pc \in {"settle", "fetch", "stop", "clear", "create", "upsert", "sync", "flags"}
Says(said, table, day) ==
  /\ said.pages = UNION {Grants(a) : a \in said.addons}
  /\ Lasting(table, day) \subseteq said.addons
  /\ \A a \in said.addons : Exists(table[a])
FlagsFit(said, table, work, day) ==
  Requests \cap {"packageEnds", "sold"} = {} =>
    (\E w \in Workers : Syncs(work[w])) \/ Says(said, table, day)

Checkouts == /\ Alone(tasks, stripe) /\ OneOpen(stripe, events, tasks)
             /\ EndsTrue(stripe, events) /\ OffersFit(stripe)
             /\ Fresh(stripe, events, tasks, now)

RowsFit == /\ RowsLinked(rows, stripe, events) /\ DatesAgree(rows, stripe, tasks)
           /\ CyclesAgree(rows, stripe) /\ Apart(rows, now)
           /\ MakesWay(rows, stripe, events, tasks, now)
           /\ AllHeld(rows, stripe, events, tasks, now)

BillInv == /\ Checkouts /\ RowsFit /\ TasksFit(tasks, stripe, rows, events, now)
           /\ FlagsFit(flags, rows, tasks, now)
--------------------------------------------------------------------------------
(* What an event says, and what stays said when one is accepted.              *)
LEMMA EventsTyped ==
  ASSUME NEW queue \in Seq(Event), NEW i \in DOMAIN queue
  PROVE  /\ queue[i].type \in {"checkout", "updated", "deleted"}
         /\ queue[i].sub \in Subs /\ queue[i].end \in Nat
<1>1. queue[i] \in Event
  BY ElementOfSeq
<1>2. QED
  BY <1>1 DEF Event

(* An event that joins the queue is told with what was told before.           *)
LEMMA ToldMore ==
  ASSUME NEW queue \in Seq(Event), NEW s \in Subs, NEW type \in {"checkout", "updated", "deleted"},
         NEW sub \in Subscription, NEW u
  PROVE  LET longer == Append(queue, EventOf(type, s, sub))
         IN  /\ OnTheWay(longer, u) <=> OnTheWay(queue, u) \/ (type = "checkout" /\ u = s)
             /\ EndTold(longer, u) <=> EndTold(queue, u) \/ (type = "deleted" /\ u = s)
<1> DEFINE e == EventOf(type, s, sub)
           longer == Append(queue, e)
<1>1. e \in Event /\ e.type = type /\ e.sub = s
  BY DEF EventOf, Event, Subscription
<1> HIDE DEF e
<1>2. /\ DOMAIN queue = 1..Len(queue) /\ Len(queue) \in Nat
      /\ DOMAIN longer = 1..(Len(queue) + 1)
      /\ \A j \in DOMAIN queue : j \in DOMAIN longer /\ longer[j] = queue[j]
      /\ longer[Len(queue) + 1] = e
      /\ \A j \in DOMAIN longer : longer[j] = e \/ \E k \in DOMAIN queue : longer[j] = queue[k]
  BY <1>1, AppendedAt, Appended
<1>3. Len(queue) + 1 \in DOMAIN longer
  BY <1>2
<1> HIDE DEF longer
<1>4. OnTheWay(longer, u) <=> OnTheWay(queue, u) \/ (type = "checkout" /\ u = s)
  BY <1>1, <1>2, <1>3 DEF OnTheWay
<1>5. EndTold(longer, u) <=> EndTold(queue, u) \/ (type = "deleted" /\ u = s)
  BY <1>1, <1>2, <1>3 DEF EndTold
<1>6. QED
  BY <1>4, <1>5 DEF longer, e

(* An event that is accepted leaves the others on their way.                  *)
LEMMA ToldLess ==
  ASSUME NEW queue \in Seq(Event), NEW i \in DOMAIN queue, NEW shorter,
         shorter = RemoveAt(queue, i) \/ shorter = queue, NEW u
  PROVE  /\ shorter \in Seq(Event)
         /\ OnTheWay(shorter, u) => OnTheWay(queue, u)
         /\ EndTold(shorter, u) => EndTold(queue, u)
         /\ OnTheWay(queue, u) /\ ~(queue[i].type = "checkout" /\ queue[i].sub = u) =>
              OnTheWay(shorter, u)
         /\ EndTold(queue, u) /\ ~(queue[i].type = "deleted" /\ queue[i].sub = u) =>
              EndTold(shorter, u)
<1>1. CASE shorter = queue
  BY <1>1
<1>2. CASE shorter = RemoveAt(queue, i)
  <2>1. /\ shorter \in Seq(Event)
        /\ \A j \in DOMAIN shorter : \E k \in DOMAIN queue : shorter[j] = queue[k]
    BY <1>2, Removed
  <2>2. \A k \in DOMAIN queue : k # i => \E j \in DOMAIN shorter : shorter[j] = queue[k]
    BY <1>2, StillQueued
  <2>3. /\ OnTheWay(shorter, u) => OnTheWay(queue, u)
        /\ OnTheWay(queue, u) /\ ~(queue[i].type = "checkout" /\ queue[i].sub = u) =>
             OnTheWay(shorter, u)
    BY <2>1, <2>2 DEF OnTheWay
  <2>4. /\ EndTold(shorter, u) => EndTold(queue, u)
        /\ EndTold(queue, u) /\ ~(queue[i].type = "deleted" /\ queue[i].sub = u) =>
             EndTold(shorter, u)
    BY <2>1, <2>2 DEF EndTold
  <2>5. QED
    BY <2>1, <2>3, <2>4
<1>3. QED
  BY <1>1, <1>2

(* A row, as the model says it and as the invariant does.                     *)
LEMMA SaidOfRows ==
  ASSUME IInv
  PROVE  /\ \A row \in Row : HasEnded(row) <=> Ended(row, now)
         /\ \A row \in Row : Live(row) <=> Lasts(row, now)
         /\ LiveAddons = Lasting(rows, now)
         /\ Derived = Summary(rows, now)
<1>1. \A row \in Row : HasEnded(row) <=> Ended(row, now)
  BY DEF HasEnded, Ended
<1>2. \A row \in Row : Live(row) <=> Lasts(row, now)
  BY DEF Live, Lasts, Ended, Row, IInv, TypeOK, NoDate
<1>3. LiveAddons = Lasting(rows, now)
  BY <1>2 DEF LiveAddons, Lasting, IInv, TypeOK
<1>4. QED
  BY <1>1, <1>2, <1>3 DEF Derived, Summary

(* The types of what the rows, the tasks and Stripe hold.                     *)
LEMMA BillTypes ==
  ASSUME IInv
  PROVE  /\ now \in Nat /\ now # 0 /\ events \in Seq(Event)
         /\ \A s \in Subs : stripe[s] \in Subscription /\ stripe[s].addon \in Addons
                            /\ stripe[s].stops \subseteq Subs
                            /\ stripe[s].replaces \subseteq Addons /\ stripe[s].end \in Nat
         /\ \A a \in Addons : rows[a] \in Row /\ (Exists(rows[a]) => rows[a].sub \in Subs)
         /\ \A w \in Workers : tasks[w] \in Task /\ TaskBacked(tasks[w], stripe)
                               /\ tasks[w].addon \in Addons
  BY DEF IInv, TypeOK, RowsBacked, TasksBacked, Subscription, Task

(* A worker with nothing to do is in nobody's way.                            *)
LEMMA IdleFits ==
  /\ Idle.kind = "idle" /\ Idle.pc = "idle" /\ ~Syncs(Idle)
  /\ \A s : ~Records(Idle, s) /\ ~Tends(Idle, s)
  /\ \A a : ~Dates(Idle, a)
  /\ \A held, table, queue, day : TaskFits(Idle, held, table, queue, day)
<1>1. Idle.kind = "idle" /\ Idle.pc = "idle"
  BY DEF Idle
<1> HIDE DEF Idle
<1>2. QED
  BY <1>1 DEF Records, Tends, Dates, TaskFits, Syncs
--------------------------------------------------------------------------------
(* What Stripe does by itself.                                                *)

(* A period paid for, or one cancelled before its end, is left as it is; what *)
(* a subscription was opened for never changes.                               *)
Quiet(held, after, day) ==
  \A s \in Subs : held[s].status # "unused" =>
    /\ after[s].status # "unused"
    /\ after[s].status = "offered" => held[s].status = "offered"
    /\ after[s].kind = held[s].kind /\ after[s].addon = held[s].addon
    /\ after[s].cycle = held[s].cycle /\ after[s].replaces = held[s].replaces
    /\ after[s].stops = held[s].stops
    /\ WasBilled(held[s]) => WasBilled(after[s])
    /\ held[s].status \in {"paid", "canceled"} => after[s] = held[s]
    /\ Runs(held[s], day) => after[s] = held[s]
    /\ held[s].status = "active" =>
         /\ after[s].renews <=> held[s].renews
         /\ ~held[s].renews => after[s].end = held[s].end

(* A handler finds what it has done as it was.                                *)
LEMMA QuietFits ==
  ASSUME NEW held \in [Subs -> Subscription], NEW after, NEW day, Quiet(held, after, day),
         NEW task \in Task, TaskBacked(task, held), NEW table, NEW queue, NEW longer,
         \A a \in Addons : Exists(table[a]) =>
           table[a].sub \in Subs /\ WasBilled(held[table[a].sub]),
         \A s \in Subs : OnTheWay(longer, s) => OnTheWay(queue, s) \/ held[s].status = "offered",
         OffersFit(held), TaskFits(task, held, table, queue, day)
  PROVE  TaskFits(task, after, table, longer, day)
<1>0. task.addon \in Addons
  BY DEF Task
<1>1. ASSUME task.kind = "record" PROVE RecordFits(task, after, table, day)
  <2>1. /\ task.session \in Subs /\ task.sub \in Subs
        /\ held[task.session].status \notin {"unused", "offered"}
    BY <1>1 DEF TaskBacked, PaidIn
  <2>2. /\ after[task.session].kind = held[task.session].kind
        /\ after[task.session].replaces = held[task.session].replaces
        /\ after[task.session].stops = held[task.session].stops
    BY <2>1 DEF Quiet
  <2>3. RecordFits(task, held, table, day)
    BY <1>1 DEF TaskFits
  <2>4. \A t \in held[task.session].stops :
          t \in Subs /\ (held[t].status = "canceled" => after[t].status = "canceled")
    BY <2>1 DEF Subscription, Quiet
  <2>5. Runs(held[task.sub], day) =>
          Runs(after[task.sub], day) /\ after[task.sub].addon = held[task.sub].addon
    BY <2>1 DEF Quiet, Runs
  <2>6. StepFits(task, after[task.session]) /\ StopsFit(task, after[task.session], after)
    BY <2>2, <2>3, <2>4 DEF RecordFits, StepFits, StopsFit
  <2>7. WritesFit(task, after[task.session], after, table, day)
    BY <2>2, <2>3, <2>5 DEF RecordFits, WritesFit
  <2>8. QED
    BY <2>6, <2>7 DEF RecordFits
<1>2. ASSUME task.kind \in {"cancel", "reactivate"}, task.pc \in {"stripe", "save"}
      PROVE  RequestFits(task, table[task.addon], after, longer, day)
  <2> DEFINE row == table[task.addon]
  <2>1. RequestFits(task, row, held, queue, day)
    BY <1>2 DEF TaskFits
  <2>2. Exists(row) /\ row.sub \in Subs /\ WasBilled(held[row.sub])
    BY <1>0, <2>1 DEF RequestFits
  <2>3. ~OnTheWay(longer, row.sub)
    BY <2>1, <2>2 DEF RequestFits, WasBilled
  <2>4. ASSUME task.pc = "save"
        PROVE  /\ after[row.sub].end = held[row.sub].end
               /\ Runs(held[row.sub], day) => Runs(after[row.sub], day)
               /\ (held[row.sub].status = "active" => ~held[row.sub].renews) =>
                    (after[row.sub].status = "active" => ~after[row.sub].renews)
    <3>1. CASE held[row.sub].status = "canceled"
      BY <2>2, <3>1 DEF Quiet, Runs
    <3>2. CASE held[row.sub].status = "active"
      BY <1>2, <2>1, <2>2, <2>4, <3>2 DEF Quiet, Runs, RequestFits
    <3>3. QED
      BY <2>2, <3>1, <3>2 DEF WasBilled
  <2> HIDE DEF row
  <2>5. QED
    BY <2>1, <2>3, <2>4 DEF RequestFits, row
<1>3. QED
  BY <1>1, <1>2 DEF TaskFits

(* Stripe charges, renews, ends or gives up a subscription.                   *)
LEMMA StripeBills ==
  ASSUME IInv, IInv', BillInv, NEW s \in Subs, NEW sub \in Subscription,
         NEW type \in {"checkout", "updated", "deleted"}, Becomes(type, s, sub),
         UNCHANGED <<now, rows, flags, tasks>>,
         Quiet(stripe, stripe', now), stripe[s].status \in {"offered", "active"},
         sub.status \notin {"unused", "offered"},
         sub.status = "canceled" <=> type = "deleted",
         type = "checkout" <=> stripe[s].status = "offered",
         type = "checkout" => Begun(sub, now)
  PROVE  BillInv'
<1>1. /\ stripe'[s] = sub /\ \A u \in Subs : u # s => stripe'[u] = stripe[u]
      /\ \A u : OnTheWay(events', u) <=> OnTheWay(events, u) \/ (type = "checkout" /\ u = s)
      /\ \A u : EndTold(events', u) <=> EndTold(events, u) \/ (type = "deleted" /\ u = s)
  BY ToldMore, BillTypes DEF Becomes, IInv, TypeOK
<1>2. \A u : Unrecorded(events', tasks, u) =>
          Unrecorded(events, tasks, u) \/ (type = "checkout" /\ u = s)
  BY <1>1 DEF Unrecorded
<1>3. \A u \in Subs : Open(stripe', events', tasks, u) => Open(stripe, events, tasks, u)
  BY <1>1, <1>2 DEF Open
<1>4. \A u \in Subs : Open(stripe, events, tasks, u) => stripe[u].status # "unused"
  BY DEF BillInv, Checkouts, Fresh, Begun, Runs, Open
<1>5. \A w \in Workers : tasks[w].kind = "record" =>
         tasks[w].session \in Subs /\ stripe'[tasks[w].session].kind = stripe[tasks[w].session].kind
  BY BillTypes DEF TaskBacked, PaidIn, Quiet
<1>6. Checkouts'
  <2>1. Alone(tasks, stripe')
    BY <1>5 DEF BillInv, Checkouts, Alone
  <2>2. OneOpen(stripe', events', tasks)
    BY <1>3 DEF BillInv, Checkouts, OneOpen
  <2>3. EndsTrue(stripe', events')
    BY <1>1 DEF BillInv, Checkouts, EndsTrue
  <2>4. OffersFit(stripe')
    <3>1. \A u \in Subs : stripe'[u].status # "unused" => stripe[u].status # "unused"
      BY <1>1
    <3>2. \A u \in Subs : WasBilled(stripe[u]) => WasBilled(stripe'[u])
      BY DEF Quiet, WasBilled
    <3>3. QED
      BY <3>1, <3>2, BillTypes DEF BillInv, Checkouts, OffersFit, Quiet
  <2>5. Fresh(stripe', events', tasks, now)
    <3>1. ASSUME NEW u \in Subs, Unrecorded(events, tasks, u), u # s \/ type # "checkout"
          PROVE  Begun(stripe'[u], now)
      <4>1. Begun(stripe[u], now)
        BY <3>1 DEF BillInv, Checkouts, Fresh
      <4>2. stripe'[u] = stripe[u]
        BY <4>1 DEF Begun, Runs, Quiet
      <4>3. QED
        BY <4>1, <4>2
    <3>2. QED
      BY <1>1, <1>2, <3>1 DEF Fresh
  <2>6. QED
    BY <2>1, <2>2, <2>3, <2>4, <2>5 DEF Checkouts
<1>7. \A a \in Addons : Exists(rows[a]) =>
        /\ rows[a].sub \in Subs /\ WasBilled(stripe[rows[a].sub])
        /\ stripe[rows[a].sub].status # "unused"
        /\ Linked(rows[a], a, stripe, events)
  BY BillTypes DEF BillInv, RowsFit, RowsLinked, Linked, WasBilled
<1>8. RowsFit'
  <2>1. RowsLinked(rows, stripe', events')
    <3>1. ASSUME NEW a \in Addons, Exists(rows[a]) PROVE Linked(rows[a], a, stripe', events')
      <4>1. /\ stripe'[rows[a].sub].addon = a /\ WasBilled(stripe'[rows[a].sub])
        BY <1>7, <3>1 DEF Linked, Quiet
      <4>2. stripe'[rows[a].sub].status = "canceled" => EndTold(events', rows[a].sub)
        BY <1>1, <1>7, <3>1 DEF Linked
      <4>3. QED
        BY <3>1, <4>1, <4>2 DEF Linked
    <3>2. QED
      BY <3>1 DEF BillInv, RowsFit, RowsLinked, Linked
  <2>2. DatesAgree(rows, stripe', tasks)
    <3>1. ASSUME NEW a \in Addons, Exists(rows[a]), stripe'[rows[a].sub].status = "active",
                 \A w \in Workers : ~Dates(tasks[w], a)
          PROVE  /\ stripe'[rows[a].sub].renews <=> rows[a].endsAt = NoDate
                 /\ rows[a].endsAt # NoDate => rows[a].endsAt = stripe'[rows[a].sub].end
      <4>1. stripe[rows[a].sub].status = "active"
        BY <1>1, <1>7, <3>1 DEF WasBilled
      <4>2. /\ stripe[rows[a].sub].renews <=> rows[a].endsAt = NoDate
            /\ rows[a].endsAt # NoDate => rows[a].endsAt = stripe[rows[a].sub].end
        BY <3>1, <4>1 DEF BillInv, RowsFit, DatesAgree
      <4>3. QED
        BY <1>7, <3>1, <4>1, <4>2 DEF Quiet
    <3>2. QED
      BY <3>1 DEF DatesAgree
  <2>3. CyclesAgree(rows, stripe') /\ Apart(rows, now)
    BY <1>7 DEF BillInv, RowsFit, CyclesAgree, Quiet
  <2>4. MakesWay(rows, stripe', events', tasks, now)
    <3>1. ASSUME NEW u \in Subs, NEW a \in Addons, Open(stripe', events', tasks, u),
                 Clash(a, stripe'[u].addon), Exists(rows[a])
          PROVE  Yields(rows[a], a, stripe'[u], u, now)
      <4>1. Open(stripe, events, tasks, u) /\ stripe[u].status # "unused"
        BY <1>3, <1>4, <3>1
      <4>2. /\ stripe'[u].addon = stripe[u].addon /\ stripe'[u].kind = stripe[u].kind
            /\ stripe'[u].replaces = stripe[u].replaces /\ stripe'[u].stops = stripe[u].stops
        BY <4>1 DEF Quiet
      <4>3. Yields(rows[a], a, stripe[u], u, now)
        BY <3>1, <4>1, <4>2 DEF BillInv, RowsFit, MakesWay
      <4>4. QED
        BY <4>2, <4>3 DEF Yields
    <3>2. QED
      BY <3>1 DEF MakesWay
  <2>5. AllHeld(rows, stripe', events', tasks, now)
    <3>1. ASSUME NEW u \in Subs, stripe'[u].status = "active"
          PROVE  Held(u, rows, stripe', events', tasks, now)
      <4>1. CASE u = s /\ type = "checkout"
        BY <1>1, <4>1 DEF Held
      <4>2. CASE ~(u = s /\ type = "checkout")
        <5>1. stripe[u].status = "active"
          BY <1>1, <3>1, <4>2
        <5>2. Held(u, rows, stripe, events, tasks, now)
          BY <5>1 DEF BillInv, RowsFit, AllHeld
        <5>3. /\ stripe'[u].addon = stripe[u].addon
              /\ RunsOut(stripe[u], now) => RunsOut(stripe'[u], now)
          BY <5>1 DEF Quiet, RunsOut
        <5>4. QED
          BY <1>1, <5>2, <5>3 DEF Held
      <4>3. QED
        BY <4>1, <4>2
    <3>2. QED
      BY <3>1 DEF AllHeld
  <2>6. QED
    BY <2>1, <2>2, <2>3, <2>4, <2>5 DEF RowsFit
<1>9. TasksFit(tasks, stripe', rows, events', now)
  <2>1. \A u \in Subs : OnTheWay(events', u) => OnTheWay(events, u) \/ stripe[u].status = "offered"
    BY <1>1
  <2>2. stripe \in [Subs -> Subscription] /\ OffersFit(stripe)
    BY DEF IInv, TypeOK, BillInv, Checkouts
  <2>3. ASSUME NEW w \in Workers PROVE TaskFits(tasks[w], stripe', rows, events', now)
    <3>1. TaskFits(tasks[w], stripe, rows, events, now)
      BY DEF BillInv, TasksFit
    <3>2. QED
      BY <1>7, <2>1, <2>2, <3>1, BillTypes, QuietFits
  <2>4. QED
    BY <2>3 DEF TasksFit
<1>10. QED
  BY <1>6, <1>8, <1>9 DEF BillInv

(* A period begins.                                                           *)
LEMMA TickBills == ASSUME IInv, IInv', BillInv, Tick PROVE BillInv'
<1>1. /\ UNCHANGED <<stripe, events, rows, flags, tasks>> /\ now' = now + 1 /\ now \in Nat
      /\ \A w \in Workers : tasks[w] = Idle
      /\ \A u : ~OnTheWay(events, u) /\ ~EndTold(events, u)
  BY BillTypes DEF Tick, OnTheWay, EndTold
<1>2. \A u : ~Unrecorded(events, tasks, u)
  BY <1>1, IdleFits DEF Unrecorded
<1>3. Checkouts'
  BY <1>1, <1>2 DEF BillInv, Checkouts, Fresh
<1>4. \A a \in Addons : Ended(rows[a], now) => Ended(rows[a], now')
  BY <1>1, BillTypes DEF Ended, Row
<1>5. Apart(rows, now')
  <2>1. \A a \in Singles : a \in Addons
    BY DEF Addons
  <2>2. Bundle \in Addons
    BY DEF Addons
  <2>3. QED
    BY <1>4, <2>1, <2>2 DEF BillInv, RowsFit, Apart
<1>6. MakesWay(rows, stripe, events, tasks, now')
  BY <1>4 DEF BillInv, RowsFit, MakesWay, Yields
<1>7. AllHeld(rows, stripe, events, tasks, now')
  <2>1. \A u \in Subs : RunsOut(stripe[u], now) => RunsOut(stripe[u], now')
    BY <1>1, BillTypes DEF RunsOut
  <2>2. QED
    BY <2>1 DEF BillInv, RowsFit, AllHeld, Held
<1>8. TasksFit(tasks, stripe, rows, events, now')
  BY <1>1, IdleFits DEF TasksFit
<1>9. FlagsFit(flags, rows, tasks, now')
  <2>1. Lasting(rows, now') \subseteq Lasting(rows, now)
    BY <1>4 DEF Lasting, Lasts
  <2>2. QED
    BY <1>1, <2>1, IdleFits DEF BillInv, FlagsFit, Says
<1>10. QED
  BY <1>1, <1>3, <1>5, <1>6, <1>7, <1>8, <1>9 DEF BillInv, RowsFit

(* A stopped subscription is the one it was.                                  *)
LEMMA StoppedSame ==
  ASSUME NEW sub \in Subscription
  PROVE  /\ Stopped(sub) \in Subscription /\ Stopped(sub).status = "canceled"
         /\ Stopped(sub).kind = sub.kind /\ Stopped(sub).addon = sub.addon
         /\ Stopped(sub).cycle = sub.cycle /\ Stopped(sub).replaces = sub.replaces
         /\ Stopped(sub).stops = sub.stops /\ Stopped(sub).end = sub.end
         /\ Stopped(sub).renews = sub.renews
  BY DEF Stopped, Subscription

(* A subscription paid for has its first period before it.                    *)
LEMMA StartedSame ==
  ASSUME NEW sub \in Subscription, sub.cycle \in Cycles, now \in Nat
  PROVE  /\ Started(sub) \in Subscription
         /\ Started(sub).kind = sub.kind /\ Started(sub).addon = sub.addon
         /\ Started(sub).cycle = sub.cycle /\ Started(sub).replaces = sub.replaces
         /\ Started(sub).stops = sub.stops /\ Started(sub).status = "active"
         /\ Started(sub).renews /\ Started(sub).end = now + sub.cycle
         /\ Runs(Started(sub), now)
<1> DEFINE end == now + sub.cycle
<1>1. end \in Nat /\ end > now
  <2>1. sub.cycle \in Nat \ {0}
    BY PlacementsAssumption
  <2>2. QED
    BY <2>1
<1>2. Started(sub) = [sub EXCEPT !.status = "active", !.renews = TRUE, !.end = end]
  BY DEF Started
<1> HIDE DEF end
<1>3. /\ Started(sub) \in Subscription
      /\ Started(sub).kind = sub.kind /\ Started(sub).addon = sub.addon
      /\ Started(sub).cycle = sub.cycle /\ Started(sub).replaces = sub.replaces
      /\ Started(sub).stops = sub.stops /\ Started(sub).status = "active"
      /\ Started(sub).renews /\ Started(sub).end = end
  BY <1>1, <1>2 DEF Subscription
<1>4. QED
  BY <1>1, <1>3 DEF Runs, end

(* What Stripe does by itself keeps the agreement.                            *)
LEMMA StripeKeepsBills == ASSUME IInv, IInv', BillInv, Stripe PROVE BillInv'
<1>1. ASSUME NEW s \in Subs, Pay(s) PROVE BillInv'
  <2> DEFINE sub == IF stripe[s].kind = "package" THEN [stripe[s] EXCEPT !.status = "paid"]
                    ELSE Started(stripe[s])
  <2>1. /\ Becomes("checkout", s, sub) /\ stripe[s].status = "offered"
        /\ UNCHANGED <<now, rows, flags, tasks>>
    BY <1>1 DEF Pay, Unhurried
  <2>2. stripe[s] \in Subscription /\ stripe[s].cycle \in Cycles /\ now \in Nat
    BY <2>1, BillTypes DEF BillInv, Checkouts, OffersFit
  <2>3. /\ sub \in Subscription /\ sub.status \in {"paid", "active"} /\ Begun(sub, now)
        /\ sub.kind = stripe[s].kind /\ sub.addon = stripe[s].addon
        /\ sub.cycle = stripe[s].cycle /\ sub.replaces = stripe[s].replaces
        /\ sub.stops = stripe[s].stops
    <3>1. CASE stripe[s].kind = "package"
      <4>1. sub = [stripe[s] EXCEPT !.status = "paid"]
        BY <3>1
      <4> HIDE DEF sub
      <4>2. QED
        BY <2>2, <3>1, <4>1 DEF Subscription, Begun
    <3>2. CASE stripe[s].kind # "package"
      BY <2>2, <3>2, StartedSame DEF Begun
    <3>3. QED
      BY <3>1, <3>2
  <2> HIDE DEF sub
  <2>4. stripe'[s] = sub /\ \A u \in Subs : u # s => stripe'[u] = stripe[u]
    BY <2>1 DEF Becomes, IInv, TypeOK
  <2>5. Quiet(stripe, stripe', now)
    BY <2>1, <2>3, <2>4 DEF Quiet, Runs, WasBilled
  <2>6. QED
    BY <2>1, <2>3, <2>5, StripeBills
<1>2. ASSUME NEW s \in Subs, Renew(s) PROVE BillInv'
  <2> DEFINE end == stripe[s].end + stripe[s].cycle
             sub == [stripe[s] EXCEPT !.end = end]
  <2>1. /\ Becomes("updated", s, sub) /\ stripe[s].status = "active" /\ stripe[s].renews
        /\ stripe[s].end <= now /\ UNCHANGED <<now, rows, flags, tasks>>
    BY <1>2 DEF Renew, Unhurried, Due, Active
  <2>2. stripe[s] \in Subscription /\ end \in Nat
    <3>1. stripe[s].cycle \in Nat /\ stripe[s].end \in Nat
      BY <2>1, BillTypes, PlacementsAssumption DEF BillInv, Checkouts, OffersFit
    <3>2. QED
      BY <3>1, BillTypes
  <2> HIDE DEF end
  <2>3. /\ sub \in Subscription /\ sub.status = "active" /\ sub.renews
        /\ sub.kind = stripe[s].kind /\ sub.addon = stripe[s].addon
        /\ sub.cycle = stripe[s].cycle /\ sub.replaces = stripe[s].replaces
        /\ sub.stops = stripe[s].stops
    BY <2>1, <2>2 DEF Subscription
  <2> HIDE DEF sub
  <2>4. stripe'[s] = sub /\ \A u \in Subs : u # s => stripe'[u] = stripe[u]
    BY <2>1 DEF Becomes, IInv, TypeOK
  <2>5. ~Runs(stripe[s], now)
    BY <2>1, <2>2, BillTypes DEF Runs
  <2>6. Quiet(stripe, stripe', now)
    BY <2>1, <2>3, <2>4, <2>5 DEF Quiet, WasBilled
  <2>7. QED
    BY <2>1, <2>3, <2>6, StripeBills
<1>3. ASSUME NEW s \in Subs, Lapse(s) \/ GiveUp(s) PROVE BillInv'
  <2> DEFINE sub == Stopped(stripe[s])
  <2>1. /\ Becomes("deleted", s, sub) /\ stripe[s].status = "active"
        /\ stripe[s].end <= now /\ UNCHANGED <<now, rows, flags, tasks>>
    BY <1>3 DEF Lapse, GiveUp, Unhurried, Due, Active
  <2>2. /\ sub \in Subscription /\ sub.status = "canceled" /\ sub.renews = stripe[s].renews
        /\ sub.kind = stripe[s].kind /\ sub.addon = stripe[s].addon
        /\ sub.cycle = stripe[s].cycle /\ sub.replaces = stripe[s].replaces
        /\ sub.stops = stripe[s].stops /\ sub.end = stripe[s].end
    BY StoppedSame, BillTypes
  <2> HIDE DEF sub
  <2>3. stripe'[s] = sub /\ \A u \in Subs : u # s => stripe'[u] = stripe[u]
    BY <2>1 DEF Becomes, IInv, TypeOK
  <2>4. ~Runs(stripe[s], now)
    BY <2>1, BillTypes DEF Runs
  <2>5. Quiet(stripe, stripe', now)
    BY <2>1, <2>2, <2>3, <2>4 DEF Quiet, WasBilled
  <2>6. QED
    BY <2>1, <2>2, <2>5, StripeBills
<1>4. QED
  BY <1>1, <1>2, <1>3, TickBills DEF Stripe
--------------------------------------------------------------------------------
(* Who is at work.                                                            *)

(* Whatever is not a recording is at work by itself, and so is the recording  *)
(* of a placement bought with a package.                                      *)
LEMMA OthersIdle ==
  ASSUME BillInv, NEW w \in Workers, tasks[w] # Idle,
         tasks[w].kind # "record" \/ stripe[tasks[w].session].kind = "package"
  PROVE  \A v \in Workers : v # w => tasks[v] = Idle
<1>1. ASSUME NEW v \in Workers, v # w, tasks[v] # Idle PROVE FALSE
  <2>1. Records(tasks[w], tasks[v].session) /\ stripe[tasks[v].session].kind = "placement"
    BY <1>1 DEF BillInv, Checkouts, Alone
  <2>2. QED
    BY <2>1 DEF Records
<1>2. QED
  BY <1>1

(* Others at work with a recording record the same checkout.                  *)
LEMMA OthersRecord ==
  ASSUME BillInv, NEW w \in Workers, tasks[w].kind = "record", NEW v \in Workers,
         v # w, tasks[v] # Idle
  PROVE  Records(tasks[v], tasks[w].session) /\ stripe[tasks[w].session].kind = "placement"
<1>1. tasks[w] # Idle
  BY IdleFits
<1>2. QED
  BY <1>1 DEF BillInv, Checkouts, Alone, Records

(* A handler starts when nobody is at work.                                   *)
LEMMA StartsAlone ==
  ASSUME Undisturbed, NEW w \in Workers, CanStart(w)
  PROVE  \A v \in Workers : tasks[v] = Idle
  BY DEF Undisturbed, CanStart

(* It stays so when a worker starts alone, ends, goes on with its checkout,   *)
(* or takes up the checkout that is being recorded.                           *)
LEMMA StillAlone ==
  ASSUME IInv, NEW w \in Workers, NEW t, tasks' = [tasks EXCEPT ![w] = t], NEW held,
         \/ \A v \in Workers : v # w => tasks[v] = Idle
         \/ /\ Alone(tasks, stripe)
            /\ \A v \in Workers : tasks[v].kind = "record" =>
                 held[tasks[v].session].kind = stripe[tasks[v].session].kind
            /\ t = Idle \/ (tasks[w].kind = "record" /\ Records(t, tasks[w].session))
         \/ \E s \in Subs : /\ held[s].kind = "placement" /\ Records(t, s)
                            /\ \A v \in Workers : tasks[v] = Idle \/ Records(tasks[v], s)
  PROVE  Alone(tasks', held)
<1>1. tasks'[w] = t /\ \A v \in Workers : v # w => tasks'[v] = tasks[v]
  BY DEF IInv, TypeOK
<1>2. CASE \A v \in Workers : v # w => tasks[v] = Idle
  BY <1>1, <1>2 DEF Alone
<1>3. CASE /\ Alone(tasks, stripe)
           /\ \A v \in Workers : tasks[v].kind = "record" =>
                held[tasks[v].session].kind = stripe[tasks[v].session].kind
           /\ t = Idle \/ (tasks[w].kind = "record" /\ Records(t, tasks[w].session))
  <2>1. \A v, u \in Workers : v # u /\ tasks[v] # Idle /\ tasks[u] # Idle =>
          /\ tasks[v].kind = "record" /\ Records(tasks[u], tasks[v].session)
          /\ held[tasks[v].session].kind = "placement"
    BY <1>3 DEF Alone
  <2>2. t # Idle => tasks[w] # Idle /\ t.kind = "record" /\ t.session = tasks[w].session
    BY <1>3, IdleFits DEF Records
  <2>3. QED
    BY <1>1, <2>1, <2>2 DEF Alone, Records
<1>4. CASE \E s \in Subs : /\ held[s].kind = "placement" /\ Records(t, s)
                           /\ \A v \in Workers : tasks[v] = Idle \/ Records(tasks[v], s)
  BY <1>1, <1>4 DEF Alone, Records
<1>5. QED
  BY <1>2, <1>3, <1>4

(* The summary is still right, or will still be written.                      *)
LEMMA FlagsStill ==
  ASSUME IInv, BillInv, NEW w \in Workers, NEW t, tasks' = [tasks EXCEPT ![w] = t],
         Syncs(tasks[w]) => Syncs(t)
  PROVE  FlagsFit(flags, rows, tasks', now)
<1>1. tasks'[w] = t /\ \A v \in Workers : v # w => tasks'[v] = tasks[v]
  BY DEF IInv, TypeOK
<1>2. (\E v \in Workers : Syncs(tasks[v])) => \E v \in Workers : Syncs(tasks'[v])
  BY <1>1
<1>3. QED
  BY <1>2 DEF BillInv, FlagsFit

(* A handler starts, moves on or ends, without a write.                       *)
LEMMA MovedBills ==
  ASSUME IInv, IInv', BillInv, NEW w \in Workers, NEW t, tasks' = [tasks EXCEPT ![w] = t],
         UNCHANGED <<now, stripe, rows>>,
         \A u : OnTheWay(events', u) => OnTheWay(events, u),
         \A u : EndTold(events', u) <=> EndTold(events, u),
         \A u \in Subs : stripe[u].status = "active" /\ OnTheWay(events, u) =>
           OnTheWay(events', u) \/ Tends(t, u),
         \A u : Tends(tasks[w], u) => Tends(t, u),
         \A u \in Subs : Records(t, u) => Unrecorded(events, tasks, u),
         \A a : ~Dates(tasks[w], a),
         Alone(tasks', stripe),
         TaskFits(t, stripe, rows, events', now),
         FlagsFit(flags', rows, tasks', now)
  PROVE  BillInv'
<1>1. tasks'[w] = t /\ \A v \in Workers : v # w => tasks'[v] = tasks[v]
  BY DEF IInv, TypeOK
<1>2. \A u \in Subs : Unrecorded(events', tasks', u) => Unrecorded(events, tasks, u)
  BY <1>1 DEF Unrecorded
<1>3. \A u \in Subs : Open(stripe, events', tasks', u) => Open(stripe, events, tasks, u)
  BY <1>2 DEF Open
<1>4. Checkouts'
  <2>1. OneOpen(stripe, events', tasks') /\ EndsTrue(stripe, events') /\ OffersFit(stripe)
    BY <1>3 DEF BillInv, Checkouts, OneOpen, EndsTrue
  <2>2. Fresh(stripe, events', tasks', now)
    BY <1>2 DEF BillInv, Checkouts, Fresh
  <2>3. QED
    BY <2>1, <2>2 DEF Checkouts
<1>5. RowsFit'
  <2>1. RowsLinked(rows, stripe, events')
    BY DEF BillInv, RowsFit, RowsLinked, Linked
  <2>2. DatesAgree(rows, stripe, tasks')
    <3>1. \A a \in Addons : (\E v \in Workers : Dates(tasks[v], a)) =>
            \E v \in Workers : Dates(tasks'[v], a)
      BY <1>1
    <3>2. QED
      BY <3>1 DEF BillInv, RowsFit, DatesAgree
  <2>3. CyclesAgree(rows, stripe) /\ Apart(rows, now)
    BY DEF BillInv, RowsFit
  <2>4. MakesWay(rows, stripe, events', tasks', now)
    BY <1>3 DEF BillInv, RowsFit, MakesWay
  <2>5. AllHeld(rows, stripe, events', tasks', now)
    <3>1. ASSUME NEW u \in Subs, stripe[u].status = "active"
          PROVE  Held(u, rows, stripe, events', tasks', now)
      <4>1. Held(u, rows, stripe, events, tasks, now)
        BY <3>1 DEF BillInv, RowsFit, AllHeld
      <4>2. (\E v \in Workers : Tends(tasks[v], u)) => \E v \in Workers : Tends(tasks'[v], u)
        BY <1>1
      <4>3. OnTheWay(events, u) => OnTheWay(events', u) \/ \E v \in Workers : Tends(tasks'[v], u)
        BY <1>1, <3>1
      <4>4. QED
        BY <4>1, <4>2, <4>3 DEF Held
    <3>2. QED
      BY <3>1 DEF AllHeld
  <2>6. QED
    BY <2>1, <2>2, <2>3, <2>4, <2>5 DEF RowsFit
<1>6. TasksFit(tasks', stripe, rows, events', now)
  <2>1. ASSUME NEW v \in Workers PROVE TaskFits(tasks'[v], stripe, rows, events', now)
    <3>1. CASE v = w
      BY <1>1, <3>1
    <3>2. CASE v # w
      <4>1. tasks'[v] = tasks[v] /\ TaskFits(tasks[v], stripe, rows, events, now)
        BY <1>1, <3>2 DEF BillInv, TasksFit
      <4>2. QED
        BY <4>1 DEF TaskFits, RequestFits
    <3>3. QED
      BY <3>1, <3>2
  <2>2. QED
    BY <2>1 DEF TasksFit
<1>7. QED
  BY <1>4, <1>5, <1>6 DEF BillInv, Checkouts

(* Reading, and looking at what is due, is no write.                          *)
LEMMA SettlingBills ==
  ASSUME Undisturbed, IInv, IInv', BillInv, NEW w \in Workers, CanStart(w), NEW task \in Task,
         task.kind \in {"look", "subscribe"}, task.kind = "subscribe" => task.cycle \in Cycles,
         tasks' = [tasks EXCEPT ![w] = Settling(task)],
         UNCHANGED <<now, stripe, events, rows, flags>>
  PROVE  BillInv'
<1> DEFINE left == {a \in Addons : IsDue(rows[a])}
           pc == IF left = {} THEN IF task.kind = "look" THEN "heal" ELSE "decide" ELSE "settle"
           t == Settling(task)
<1>1. \A v \in Workers : tasks[v] = Idle
  BY StartsAlone
<1>2. /\ pc \in {"heal", "decide", "settle"} /\ left \subseteq Addons
      /\ \A a \in left : Exists(rows[a])
      /\ pc = "decide" => task.kind = "subscribe"
  BY DEF IsDue
<1>3. t = [task EXCEPT !.read = rows, !.left = left, !.pc = pc]
  BY DEF Settling
<1> HIDE DEF left, pc, t
<1>4. t.kind = task.kind /\ t.cycle = task.cycle /\ t.read = rows /\ t.left = left /\ t.pc = pc
  BY <1>3 DEF Task
<1>5. TaskFits(t, stripe, rows, events, now)
  BY <1>2, <1>4 DEF TaskFits
<1>6. Alone(tasks', stripe)
  BY <1>1, StillAlone DEF t
<1>7. FlagsFit(flags, rows, tasks', now)
  BY <1>1, IdleFits, FlagsStill DEF t
<1>8. \A u : ~Records(t, u)
  BY <1>4 DEF Records
<1>9. QED
  BY <1>1, <1>5, <1>6, <1>7, <1>8, IdleFits, MovedBills DEF t

(* A request to cancel, or to go on, takes up a row nothing else touches.     *)
LEMMA RequestBills ==
  ASSUME Undisturbed, IInv, IInv', BillInv, NEW w \in Workers, NEW a \in Addons,
         Cancel(w, a) \/ Reactivate(w, a)
  PROVE  BillInv'
<1>1. PICK kind \in {"cancel", "reactivate"} :
        /\ tasks' = [tasks EXCEPT ![w] = [Idle EXCEPT !.kind = kind, !.pc = "stripe",
                                                      !.addon = a, !.read = rows]]
        /\ Asks(w, kind) /\ Live(rows[a])
        /\ IF kind = "cancel" THEN rows[a].endsAt = NoDate ELSE rows[a].endsAt # NoDate
  BY DEF Cancel, Reactivate, Begin
<1> DEFINE t == [Idle EXCEPT !.kind = kind, !.pc = "stripe", !.addon = a, !.read = rows]
<1>2. t.kind = kind /\ t.pc = "stripe" /\ t.addon = a /\ t.read = rows
  BY DEF Idle
<1>3. tasks' = [tasks EXCEPT ![w] = t]
  BY <1>1
<1> HIDE DEF t
<1>4. /\ UNCHANGED <<now, stripe, events, rows, flags>> /\ CanStart(w)
      /\ \A s \in Subs : ~OnTheWay(events, s)
  BY <1>1 DEF Asks, Spends, Undisturbed, OnItsWay, OnTheWay
<1>5. \A v \in Workers : tasks[v] = Idle
  BY <1>4, StartsAlone
<1>6. /\ Exists(rows[a]) /\ rows[a].sub \in Subs
      /\ kind = "reactivate" => rows[a].endsAt > now
  BY <1>1, BillTypes DEF Live
<1>7. TaskFits(t, stripe, rows, events, now)
  BY <1>1, <1>2, <1>4, <1>6 DEF TaskFits, RequestFits
<1>8. Alone(tasks', stripe) /\ FlagsFit(flags, rows, tasks', now)
  BY <1>3, <1>5, IdleFits, StillAlone, FlagsStill
<1>9. \A u : ~Records(t, u)
  BY <1>2 DEF Records
<1>10. QED
  BY <1>3, <1>4, <1>5, <1>7, <1>8, <1>9, IdleFits, MovedBills

(* A recording begins, of a checkout that was not recorded before or is being *)
(* recorded.                                                                  *)
LEMMA RecordingBills ==
  ASSUME Undisturbed, IInv, IInv', BillInv, NEW w \in Workers, NEW s \in Subs,
         NEW hook \in BOOLEAN, PaidIn(stripe, s), CanRecord(w, s),
         Unrecorded(events, tasks, s),
         tasks' = [tasks EXCEPT ![w] = Recording(s, hook)],
         UNCHANGED <<now, stripe, rows, flags>>,
         \A u : OnTheWay(events', u) => OnTheWay(events, u),
         \A u : EndTold(events', u) <=> EndTold(events, u),
         \A u \in Subs : u # s /\ OnTheWay(events, u) => OnTheWay(events', u)
  PROVE  BillInv'
<1> DEFINE t == Recording(s, hook)
           addon == stripe[s].addon
           pc == IF stripe[s].kind = "package" THEN "check" ELSE "fetch"
<1>1. t = [Idle EXCEPT !.kind = "record", !.session = s, !.sub = s, !.addon = addon,
                       !.pc = pc, !.hook = hook]
  BY DEF Recording
<1>2. pc \in {"check", "fetch"} /\ (pc = "check" <=> stripe[s].kind = "package")
  OBVIOUS
<1> HIDE DEF t, addon, pc
<1>3. t.kind = "record" /\ t.session = s /\ t.sub = s /\ t.addon = addon /\ t.pc = pc
  BY <1>1 DEF Idle
<1>4. TaskFits(t, stripe, rows, events', now)
  BY <1>2, <1>3 DEF TaskFits, RecordFits, StepFits, StopsFit, WritesFit
<1>5. tasks[w] = Idle
  BY DEF CanRecord, CanStart
<1>6. \/ \A v \in Workers : v # w => tasks[v] = Idle
      \/ /\ stripe[s].kind = "placement" /\ Records(t, s)
         /\ \A v \in Workers : tasks[v] = Idle \/ Records(tasks[v], s)
  BY <1>3, StartsAlone DEF CanRecord, SameCheckout, Records
<1>7. Alone(tasks', stripe)
  BY <1>6, StillAlone DEF t
<1>8. FlagsFit(flags, rows, tasks', now)
  BY <1>5, IdleFits, FlagsStill DEF t
<1>9. \A u \in Subs : Records(t, u) => Unrecorded(events, tasks, u)
  BY <1>3 DEF Records
<1>10. stripe[s].status = "active" => Tends(t, s)
  <2>1. Begun(stripe[s], now)
    BY DEF BillInv, Checkouts, Fresh
  <2>2. QED
    BY <1>2, <1>3, <2>1 DEF Begun, Tends
<1>11. QED
  BY <1>4, <1>5, <1>7, <1>8, <1>9, <1>10, IdleFits, MovedBills DEF t

(* The success page records a checkout the webhook has still to hear of, or   *)
(* is just recording.                                                         *)
LEMMA SuccessPageBills ==
  ASSUME Undisturbed, IInv, IInv', BillInv, NEW w \in Workers, NEW s \in Subs,
         SyncCheckoutSession(w, s)
  PROVE  BillInv'
<1>1. /\ PaidIn(stripe, s) /\ CanRecord(w, s) /\ UNCHANGED <<now, stripe, events, rows, flags>>
      /\ tasks' = [tasks EXCEPT ![w] = Recording(s, FALSE)]
  BY DEF SyncCheckoutSession, IsSettled, Paid, PaidIn, Begin
<1>2. OnTheWay(events, s) \/ \E v \in Workers : tasks[v].session = s
  BY DEF SyncCheckoutSession, Undisturbed, OnItsWay, OnTheWay
<1>3. ASSUME NEW v \in Workers, tasks[v].session = s PROVE Records(tasks[v], s)
  <2>1. tasks[v] # Idle
    BY <1>3, PlacementsAssumption DEF Idle
  <2>2. SameCheckout(v, s)
    BY <1>1, <2>1, StartsAlone DEF CanRecord
  <2>3. QED
    BY <2>2 DEF SameCheckout, Records
<1>4. Unrecorded(events, tasks, s)
  BY <1>2, <1>3 DEF Unrecorded
<1>5. QED
  BY <1>1, <1>4, RecordingBills

(* A checkout is opened when the last one is recorded, and replaces whatever  *)
(* it is in the way of.                                                       *)
LEMMA OfferBills ==
  ASSUME IInv, IInv', BillInv, NEW s \in Subs, NEW kind \in {"placement", "package"},
         NEW a \in Addons, NEW c \in Cycles, NEW replaces \in SUBSET LiveAddons,
         Offer(s, kind, a, c, replaces), AllRecorded, kind = "package" => replaces = {},
         \A b \in Addons : Clash(b, a) /\ Lasts(rows[b], now) => b \in replaces,
         \A b \in replaces : Clash(b, a),
         UNCHANGED <<now, events, rows, flags>>,
         \/ UNCHANGED tasks
         \/ \E w \in Workers : tasks[w].pc = "decide" /\ tasks' = [tasks EXCEPT ![w] = Idle]
  PROVE  BillInv'
<1> DEFINE stops == {rows[r].sub : r \in replaces}
           sub == [Unused EXCEPT !.kind = kind, !.status = "offered", !.addon = a,
                                 !.cycle = c, !.replaces = replaces, !.stops = stops]
<1>1. /\ stripe[s].status = "unused" /\ stripe' = [stripe EXCEPT ![s] = sub]
      /\ replaces \subseteq Addons
  BY DEF Offer, LiveAddons
<1>2. /\ sub.kind = kind /\ sub.status = "offered" /\ sub.addon = a /\ sub.cycle = c
      /\ sub.replaces = replaces /\ sub.stops = stops
  BY DEF Unused
<1> HIDE DEF sub
<1>3. stripe'[s] = sub /\ \A u \in Subs : u # s => stripe'[u] = stripe[u]
  BY <1>1 DEF IInv, TypeOK
<1>4. \A b \in Addons : Exists(rows[b]) =>
        /\ rows[b].sub \in Subs /\ WasBilled(stripe[rows[b].sub]) /\ rows[b].sub # s
        /\ stripe'[rows[b].sub] = stripe[rows[b].sub]
  BY <1>1, <1>3, BillTypes DEF BillInv, RowsFit, RowsLinked, Linked, WasBilled
<1>5. Quiet(stripe, stripe', now)
  BY <1>1, <1>3 DEF Quiet
<1>6. /\ \A u \in Subs : stripe[u].status # "offered" /\ ~OnTheWay(events, u)
      /\ \A v \in Workers : tasks[v].kind # "record"
  BY DEF AllRecorded, OnItsWay, OnTheWay
<1>7. \A v \in Workers :
        \/ tasks'[v] = tasks[v]
        \/ tasks'[v] = Idle /\ ~Syncs(tasks[v]) /\ \A b : ~Dates(tasks[v], b)
  BY DEF IInv, TypeOK, Syncs, Dates
<1>8. \A v \in Workers : tasks'[v].kind # "record"
  BY <1>6, <1>7, IdleFits
<1>9. \A u \in Subs : /\ ~Unrecorded(events, tasks', u)
                      /\ Open(stripe', events, tasks', u) => u = s
  BY <1>3, <1>6, <1>8 DEF Unrecorded, Open, Records
<1>10. Checkouts'
  <2>1. Alone(tasks', stripe')
    BY <1>6, <1>7 DEF BillInv, Checkouts, Alone
  <2>2. OneOpen(stripe', events, tasks') /\ Fresh(stripe', events, tasks', now)
    BY <1>9 DEF OneOpen, Fresh
  <2>3. EndsTrue(stripe', events)
    BY <1>1, <1>3 DEF BillInv, Checkouts, EndsTrue
  <2>4. OffersFit(stripe')
    <3>1. \A u \in Subs : WasBilled(stripe[u]) => WasBilled(stripe'[u])
      BY <1>1, <1>3 DEF WasBilled
    <3>2. ASSUME NEW t \in stops PROVE t # s /\ WasBilled(stripe'[t])
      BY <1>4, <3>1 DEF LiveAddons, Live
    <3>3. ASSUME NEW u \in Subs, u # s, stripe[u].status # "unused"
          PROVE  /\ stripe[u].cycle \in Cycles
                 /\ \A b \in stripe[u].replaces : Clash(b, stripe[u].addon)
                 /\ stripe[u].kind = "package" => stripe[u].replaces = {}
                 /\ \A t \in stripe[u].stops : t # u /\ WasBilled(stripe'[t])
      BY <3>1, <3>3, BillTypes DEF BillInv, Checkouts, OffersFit
    <3>4. QED
      BY <1>2, <1>3, <3>2, <3>3 DEF OffersFit
  <2>5. QED
    BY <2>1, <2>2, <2>3, <2>4 DEF Checkouts
<1>11. RowsFit'
  <2>1. RowsLinked(rows, stripe', events)
    BY <1>4 DEF BillInv, RowsFit, RowsLinked, Linked
  <2>2. DatesAgree(rows, stripe', tasks')
    <3>1. \A b \in Addons : (\E v \in Workers : Dates(tasks[v], b)) =>
            \E v \in Workers : Dates(tasks'[v], b)
      BY <1>7
    <3>2. QED
      BY <1>4, <3>1 DEF BillInv, RowsFit, DatesAgree
  <2>3. CyclesAgree(rows, stripe') /\ Apart(rows, now)
    BY <1>4 DEF BillInv, RowsFit, CyclesAgree
  <2>4. MakesWay(rows, stripe', events, tasks', now)
    <3>1. ASSUME NEW b \in Addons, Clash(b, a), Exists(rows[b])
          PROVE  Yields(rows[b], b, sub, s, now)
      BY <1>2, <3>1 DEF Yields, Lasts
    <3>2. QED
      BY <1>2, <1>3, <1>9, <3>1 DEF MakesWay
  <2>5. AllHeld(rows, stripe', events, tasks', now)
    <3>1. ASSUME NEW u \in Subs, stripe'[u].status = "active"
          PROVE  Held(u, rows, stripe', events, tasks', now)
      <4>1. u # s /\ stripe'[u] = stripe[u]
        BY <1>2, <1>3, <3>1
      <4>2. Held(u, rows, stripe, events, tasks, now)
        BY <3>1, <4>1 DEF BillInv, RowsFit, AllHeld
      <4>3. QED
        BY <1>6, <4>1, <4>2 DEF Held, Tends
    <3>2. QED
      BY <3>1 DEF AllHeld
  <2>6. QED
    BY <2>1, <2>2, <2>3, <2>4, <2>5 DEF RowsFit
<1>12. TasksFit(tasks', stripe', rows, events, now)
  <2>1. stripe \in [Subs -> Subscription] /\ OffersFit(stripe)
    BY DEF IInv, TypeOK, BillInv, Checkouts
  <2>2. ASSUME NEW v \in Workers PROVE TaskFits(tasks'[v], stripe', rows, events, now)
    <3>1. TaskFits(tasks[v], stripe, rows, events, now)
      BY DEF BillInv, TasksFit
    <3>2. TaskFits(tasks[v], stripe', rows, events, now)
      BY <1>4, <1>5, <2>1, <3>1, BillTypes, QuietFits
    <3>3. QED
      BY <1>7, <3>2, IdleFits
  <2>3. QED
    BY <2>2 DEF TasksFit
<1>13. FlagsFit(flags, rows, tasks', now)
  <2>1. (\E v \in Workers : Syncs(tasks[v])) => \E v \in Workers : Syncs(tasks'[v])
    BY <1>7
  <2>2. QED
    BY <2>1 DEF BillInv, FlagsFit
<1>14. QED
  BY <1>10, <1>11, <1>12, <1>13 DEF BillInv

(* What the seller asks for keeps the agreement.                              *)
LEMMA SellerKeepsBills == ASSUME Undisturbed, IInv, IInv', BillInv, Seller PROVE BillInv'
<1>1. ASSUME NEW w \in Workers, NEW a \in Addons, NEW c \in Cycles, Subscribe(w, a, c)
      PROVE  BillInv'
  <2> DEFINE task == [Idle EXCEPT !.kind = "subscribe", !.addon = a, !.cycle = c]
  <2>1. task \in Task /\ task.kind = "subscribe" /\ task.cycle = c
    BY IdleTask DEF Task
  <2> HIDE DEF task
  <2>2. /\ CanStart(w) /\ tasks' = [tasks EXCEPT ![w] = Settling(task)]
        /\ UNCHANGED <<now, stripe, events, rows, flags>>
    BY <1>1 DEF Subscribe, Asks, Spends, Begin, task
  <2>3. QED
    BY <2>1, <2>2, SettlingBills
<1>2. ASSUME NEW w \in Workers, ForListing(w) PROVE BillInv'
  <2> DEFINE task == [Idle EXCEPT !.kind = "look"]
  <2>1. task \in Task /\ task.kind = "look"
    BY IdleTask DEF Task
  <2> HIDE DEF task
  <2>2. /\ CanStart(w) /\ tasks' = [tasks EXCEPT ![w] = Settling(task)]
        /\ UNCHANGED <<now, stripe, events, rows, flags>>
    BY <1>2 DEF ForListing, Begin, task
  <2>3. QED
    BY <2>1, <2>2, SettlingBills
<1>3. ASSUME NEW s \in Subs, NEW a \in Addons, NEW c \in Cycles,
             NEW kind \in {"placement", "package"}, CreatePackageCheckout(s, a, c, kind)
      PROVE  BillInv'
  <2>1. /\ LiveAddons = {} /\ AllRecorded /\ Offer(s, kind, a, c, {})
        /\ UNCHANGED <<now, events, rows, flags, tasks>>
    BY <1>3 DEF CreatePackageCheckout, Undisturbed
  <2>2. \A b \in Addons : ~Lasts(rows[b], now)
    BY <2>1, SaidOfRows DEF Lasting
  <2>3. {} \in SUBSET LiveAddons
    OBVIOUS
  <2>4. QED
    BY <2>1, <2>2, <2>3, OfferBills
<1>4. QED
  BY <1>1, <1>2, <1>3, RequestBills, SuccessPageBills DEF Seller
--------------------------------------------------------------------------------
(* The steps of a handler that write no row and change no subscription.       *)

(* A handler at work goes on or ends, and leaves the checkout it records.     *)
LEMMA GoesOn ==
  ASSUME IInv, IInv', BillInv, NEW w \in Workers, NEW t, tasks' = [tasks EXCEPT ![w] = t],
         UNCHANGED <<now, stripe, events, rows>>, tasks[w].pc # "idle",
         IF tasks[w].kind = "record" THEN t = Idle \/ Records(t, tasks[w].session)
         ELSE t.kind # "record",
         \A u : Tends(tasks[w], u) => Tends(t, u),
         \A a : ~Dates(tasks[w], a),
         TaskFits(t, stripe, rows, events, now),
         FlagsFit(flags', rows, tasks', now)
  PROVE  BillInv'
<1>1. tasks[w] # Idle
  BY IdleFits
<1>2. Alone(tasks', stripe)
  <2>1. CASE tasks[w].kind = "record"
    <3>1. Alone(tasks, stripe)
      BY DEF BillInv, Checkouts
    <3>2. QED
      BY <2>1, <3>1, StillAlone
  <2>2. CASE tasks[w].kind # "record"
    BY <1>1, <2>2, OthersIdle, StillAlone
  <2>3. QED
    BY <2>1, <2>2
<1>3. \A u \in Subs : Records(t, u) => Unrecorded(events, tasks, u)
  BY IdleFits DEF Records, Unrecorded
<1>4. QED
  BY <1>2, <1>3, MovedBills

(* The summary is worked out, compared and written.                           *)
LEMMA SummaryBills ==
  ASSUME IInv, IInv', BillInv, NEW w \in Workers,
         Sync(w) \/ HealFlags(w) \/ Compare(w) \/ WriteFlags(w)
  PROVE  BillInv'
<1> DEFINE task == tasks[w]
<1>1. task \in Task /\ TaskFits(task, stripe, rows, events, now) /\ Derived = Summary(rows, now)
  BY BillTypes, SaidOfRows DEF BillInv, TasksFit
<1>2. CASE Sync(w) \/ HealFlags(w)
  <2>1. PICK pc \in {"flags", "compare"} :
          /\ tasks' = [tasks EXCEPT ![w] = [task EXCEPT !.flags = Derived, !.pc = pc]]
          /\ task.pc = IF pc = "flags" THEN "sync" ELSE "heal"
          /\ UNCHANGED <<now, stripe, events, rows, flags>>
    BY <1>2 DEF Sync, HealFlags, IInv, TypeOK
  <2> DEFINE t == [task EXCEPT !.flags = Derived, !.pc = pc]
  <2>2. /\ t.kind = task.kind /\ t.session = task.session /\ t.sub = task.sub
        /\ t.addon = task.addon /\ t.stops = task.stops /\ t.read = task.read
        /\ t.cycle = task.cycle /\ t.left = task.left /\ t.end = task.end
        /\ t.flags = Derived /\ t.pc = pc
    BY <1>1 DEF Task
  <2>3. tasks' = [tasks EXCEPT ![w] = t]
    BY <2>1
  <2> HIDE DEF t
  <2>4. pc = "compare" => task.kind = "look"
    BY <2>1, BillTypes DEF TaskBacked
  <2>5. task.kind = "record" => RecordFits(t, stripe, rows, now)
    BY <1>1, <2>1, <2>2, <2>4 DEF TaskFits, RecordFits, StepFits, StopsFit, WritesFit
  <2>6. TaskFits(t, stripe, rows, events, now)
    BY <1>1, <2>1, <2>2, <2>4, <2>5 DEF TaskFits
  <2>7. FlagsFit(flags, rows, tasks', now)
    BY <2>1, <2>2, <2>3, FlagsStill DEF Syncs
  <2>8. \A u : ~Tends(task, u) /\ ~Dates(task, u)
    BY <2>1 DEF Tends, Dates
  <2>9. Records(task, task.session) => Records(t, task.session)
    BY <2>2 DEF Records
  <2>10. QED
    BY <2>1, <2>2, <2>3, <2>6, <2>7, <2>8, <2>9, GoesOn DEF Records
<1>3. CASE Compare(w)
  <2>1. /\ task.pc = "compare" /\ task.kind = "look" /\ task.flags = Derived
        /\ UNCHANGED <<now, stripe, events, rows, flags>>
        /\ Finish(w) \/ Begin(w, [task EXCEPT !.kind = "heal", !.pc = "flags"])
    BY <1>1, <1>3, BillTypes DEF Compare, TaskBacked, TaskFits
  <2>2. \A u : ~Tends(task, u) /\ ~Dates(task, u) /\ ~Syncs(task)
    BY <2>1 DEF Tends, Dates, Syncs
  <2>3. CASE Finish(w)
    BY <2>1, <2>2, <2>3, IdleFits, FlagsStill, GoesOn DEF Finish
  <2>4. CASE Begin(w, [task EXCEPT !.kind = "heal", !.pc = "flags"])
    <3> DEFINE t == [task EXCEPT !.kind = "heal", !.pc = "flags"]
    <3>1. t.kind = "heal" /\ t.pc = "flags" /\ t.flags = task.flags
      BY <1>1 DEF Task
    <3>2. tasks' = [tasks EXCEPT ![w] = t]
      BY <2>4 DEF Begin
    <3> HIDE DEF t
    <3>3. TaskFits(t, stripe, rows, events, now)
      BY <1>1, <2>1, <3>1 DEF TaskFits
    <3>4. FlagsFit(flags, rows, tasks', now)
      BY <2>2, <3>2, FlagsStill
    <3>5. QED
      BY <2>1, <2>2, <3>1, <3>2, <3>3, <3>4, GoesOn
  <2>5. QED
    BY <2>1, <2>3, <2>4
<1>4. CASE WriteFlags(w)
  <2>1. /\ task.pc = "flags" /\ flags' = Summary(rows, now)
        /\ UNCHANGED <<now, stripe, events, rows>>
        /\ \/ task.kind = "subscribe" /\ Advance(w, "decide")
           \/ task.kind = "look" /\ Advance(w, "heal")
           \/ Finish(w)
    BY <1>1, <1>4 DEF WriteFlags, TaskFits
  <2>2. FlagsFit(flags', rows, tasks', now)
    BY <2>1 DEF FlagsFit, Says, Summary, Lasting, Lasts
  <2>3. \A u : ~Tends(task, u) /\ ~Dates(task, u)
    BY <2>1 DEF Tends, Dates
  <2>4. CASE Finish(w)
    BY <2>1, <2>2, <2>3, <2>4, IdleFits, GoesOn DEF Finish
  <2>5. ASSUME NEW pc \in {"decide", "heal"}, task.kind \in {"subscribe", "look"},
               pc = "decide" => task.kind = "subscribe", Advance(w, pc)
        PROVE  BillInv'
    <3> DEFINE t == [task EXCEPT !.pc = pc]
    <3>1. t.kind = task.kind /\ t.pc = pc /\ t.cycle = task.cycle
      BY <1>1 DEF Task
    <3>2. tasks' = [tasks EXCEPT ![w] = t]
      BY <2>5 DEF Advance, IInv, TypeOK
    <3> HIDE DEF t
    <3>3. TaskFits(t, stripe, rows, events, now)
      BY <1>1, <2>5, <3>1 DEF TaskFits
    <3>4. QED
      BY <2>1, <2>2, <2>3, <2>5, <3>1, <3>2, <3>3, GoesOn
  <2>6. QED
    BY <2>1, <2>4, <2>5
<1>5. QED
  BY <1>2, <1>3, <1>4

(* A purchase is refused, queued for later, or becomes a checkout.            *)
LEMMA DecideBills ==
  ASSUME Undisturbed, IInv, IInv', BillInv, NEW w \in Workers, Decide(w) PROVE BillInv'
<1> DEFINE task == tasks[w]
           a == task.addon
           c == task.cycle
<1>1. /\ task.pc = "decide" /\ UNCHANGED <<now, events, rows, flags>>
      /\ task \in Task /\ a \in Addons /\ TaskFits(task, stripe, rows, events, now)
  BY BillTypes DEF Decide, BillInv, TasksFit
<1>2. \A u : ~Tends(task, u) /\ ~Dates(task, u) /\ ~Syncs(task)
  BY <1>1 DEF Tends, Dates, Syncs
<1>3. task.kind # "record"
  BY <1>1 DEF TaskFits, RecordFits, StepFits
<1>4. CASE Finish(w) /\ UNCHANGED stripe
  BY <1>1, <1>2, <1>3, <1>4, IdleFits, FlagsStill, GoesOn DEF Finish
<1>5. ASSUME tasks' = [tasks EXCEPT ![w].read = rows, ![w].pc = "save"], UNCHANGED stripe,
             task.kind = "subscribe", "shorter" \in Requests
      PROVE  BillInv'
  <2> DEFINE t == [task EXCEPT !.read = rows, !.pc = "save"]
  <2>1. t.kind = task.kind /\ t.pc = "save" /\ t.cycle = task.cycle
    BY <1>1 DEF Task
  <2>2. tasks' = [tasks EXCEPT ![w] = t]
    BY <1>5 DEF IInv, TypeOK
  <2> HIDE DEF t
  <2>3. TaskFits(t, stripe, rows, events, now)
    BY <1>1, <1>5, <2>1 DEF TaskFits
  <2>4. FlagsFit(flags, rows, tasks', now)
    BY <1>2, <2>2, FlagsStill
  <2>5. QED
    BY <1>1, <1>2, <1>5, <2>1, <2>2, <2>3, <2>4, GoesOn
<1>6. ASSUME NEW s \in Subs, ~Blocked(a), AllRecorded, c \in Cycles,
             Offer(s, "placement", a, c, ReplacedBy(a)), Finish(w)
      PROVE  BillInv'
  <2>1. ReplacedBy(a) \in SUBSET LiveAddons /\ Bundle \in Addons
    BY DEF ReplacedBy, Addons
  <2>2. ASSUME NEW b \in Addons, Clash(b, a), Lasts(rows[b], now) PROVE b \in ReplacedBy(a)
    <3>1. b \in LiveAddons
      BY <2>2, SaidOfRows DEF Lasting
    <3>2. b = Bundle => a = Bundle
      BY <3>1, <1>6 DEF Blocked, LiveAddons
    <3>3. QED
      BY <2>2, <3>1, <3>2 DEF Clash, ReplacedBy
  <2>3. \A b \in ReplacedBy(a) : Clash(b, a)
    BY DEF ReplacedBy, Clash
  <2> HIDE DEF a, c
  <2>4. QED
    BY <1>1, <1>6, <2>1, <2>2, <2>3, OfferBills DEF Finish
<1>7. task.kind = "subscribe" /\ c \in Cycles
  BY <1>1 DEF TaskFits
<1>8. QED
  BY <1>1, <1>3, <1>4, <1>5, <1>6, <1>7 DEF Decide, Undisturbed

(* The end of the period is read, with what is to be stopped.                 *)
LEMMA FetchBills ==
  ASSUME Undisturbed, IInv, IInv', BillInv, NEW w \in Workers, Fetch(w) PROVE BillInv'
<1> DEFINE task == tasks[w]
           stops == stripe[task.sub].stops
           end == stripe[task.sub].end
           pc == IF stops = {} THEN "clear" ELSE "stop"
           t == [task EXCEPT !.end = end, !.stops = stops, !.pc = pc]
<1>1. /\ task.pc = "fetch" /\ UNCHANGED <<now, stripe, events, rows, flags>>
      /\ task \in Task /\ TaskBacked(task, stripe)
      /\ TaskFits(task, stripe, rows, events, now)
  BY BillTypes DEF Fetch, BillInv, TasksFit
<1>2. tasks' = [tasks EXCEPT ![w] = t]
  BY DEF Fetch, Begin, Undisturbed
<1>3. /\ task.kind = "record" /\ task.sub = task.session
      /\ stripe[task.session].kind # "package"
  BY <1>1 DEF TaskBacked, TaskFits, RecordFits, StepFits
<1>4. pc \in {"clear", "stop"} /\ (pc = "clear" => stops = {})
  OBVIOUS
<1> HIDE DEF pc, stops, end
<1>5. /\ t.kind = "record" /\ t.session = task.session /\ t.sub = task.sub
      /\ t.addon = task.addon /\ t.stops = stops /\ t.pc = pc
  BY <1>1, <1>3 DEF Task
<1> HIDE DEF t
<1>6. stops = stripe[task.session].stops
  BY <1>3 DEF stops
<1>7. RecordFits(t, stripe, rows, now)
  BY <1>3, <1>4, <1>5, <1>6 DEF RecordFits, StepFits, StopsFit, WritesFit
<1>8. TaskFits(t, stripe, rows, events, now)
  BY <1>4, <1>5, <1>7 DEF TaskFits
<1>9. FlagsFit(flags, rows, tasks', now)
  BY <1>2, <1>4, <1>5, FlagsStill DEF Syncs
<1>10. \A u : (Tends(task, u) => Tends(t, u)) /\ ~Dates(task, u)
  BY <1>1, <1>3, <1>4, <1>5 DEF Tends, Dates
<1>11. QED
  BY <1>1, <1>2, <1>3, <1>5, <1>8, <1>9, <1>10, GoesOn DEF Records

(* Whether a deferred placement has a row already is looked up.               *)
LEMMA CheckBills ==
  ASSUME IInv, IInv', BillInv, NEW w \in Workers, CheckHeld(w) PROVE BillInv'
<1> DEFINE task == tasks[w]
<1>1. /\ task.pc = "check" /\ UNCHANGED <<now, stripe, events, rows, flags>>
      /\ task \in Task /\ TaskBacked(task, stripe)
      /\ TaskFits(task, stripe, rows, events, now)
  BY BillTypes DEF CheckHeld, BillInv, TasksFit
<1>2. task.kind = "record" /\ stripe[task.session].kind = "package"
  BY <1>1 DEF TaskBacked, TaskFits, RecordFits, StepFits
<1>3. \A u : ~Tends(task, u) /\ ~Dates(task, u) /\ ~Syncs(task)
  BY <1>1 DEF Tends, Dates, Syncs
<1>4. CASE Finish(w)
  BY <1>1, <1>2, <1>3, <1>4, IdleFits, FlagsStill, GoesOn DEF Finish
<1>5. CASE ~Exists(rows[task.addon]) /\ Advance(w, "create")
  <2> DEFINE t == [task EXCEPT !.pc = "create"]
  <2>1. /\ t.kind = "record" /\ t.session = task.session /\ t.addon = task.addon
        /\ t.pc = "create"
    BY <1>1, <1>2 DEF Task
  <2>2. tasks' = [tasks EXCEPT ![w] = t]
    BY <1>5 DEF Advance, IInv, TypeOK
  <2> HIDE DEF t
  <2>3. TaskFits(t, stripe, rows, events, now)
    BY <1>2, <1>5, <2>1 DEF TaskFits, RecordFits, StepFits, StopsFit, WritesFit
  <2>4. FlagsFit(flags, rows, tasks', now)
    BY <1>3, <2>2, FlagsStill
  <2>5. QED
    BY <1>1, <1>2, <1>3, <2>1, <2>2, <2>3, <2>4, GoesOn DEF Records
<1>6. QED
  BY <1>4, <1>5 DEF CheckHeld
--------------------------------------------------------------------------------
(* The steps of a handler that change a subscription.                         *)

(* Those who record a placement are at work on it with its own subscription,  *)
(* which goes on.                                                             *)
LEMMA RecordersFit ==
  ASSUME IInv, BillInv, NEW w \in Workers, tasks[w].kind = "record",
         stripe[tasks[w].session].kind # "package", NEW v \in Workers, tasks[v] # Idle
  PROVE  /\ Records(tasks[v], tasks[w].session) /\ tasks[v].sub = tasks[w].session
         /\ tasks[v].addon = stripe[tasks[w].session].addon
         /\ Runs(stripe[tasks[w].session], now)
         /\ RecordFits(tasks[v], stripe, rows, now)
<1>1. Records(tasks[v], tasks[w].session)
  BY OthersRecord DEF Records
<1>2. TaskBacked(tasks[v], stripe) /\ TaskFits(tasks[v], stripe, rows, events, now)
  BY BillTypes DEF BillInv, TasksFit
<1>3. tasks[w].session \in Subs /\ tasks[v].addon = stripe[tasks[w].session].addon
  BY <1>1, <1>2 DEF TaskBacked, Records
<1>4. RecordFits(tasks[v], stripe, rows, now) /\ tasks[v].sub = tasks[w].session
  BY <1>1, <1>2 DEF TaskFits, RecordFits, StepFits, Records
<1>5. Unrecorded(events, tasks, tasks[w].session)
  BY DEF Unrecorded, Records
<1>6. Runs(stripe[tasks[w].session], now)
  BY <1>3, <1>5 DEF BillInv, Checkouts, Fresh, Begun
<1>7. QED
  BY <1>1, <1>3, <1>4, <1>6

(* A replaced subscription is stopped.                                        *)
LEMMA StopBills ==
  ASSUME Undisturbed, IInv, IInv', BillInv, NEW w \in Workers, StopReplaced(w) PROVE BillInv'
<1> DEFINE task == tasks[w]
           s == task.session
<1>1. PICK u \in task.stops :
        /\ \/ stripe[u].status = "active" /\ Becomes("deleted", u, Stopped(stripe[u]))
           \/ stripe[u].status # "active" /\ UNCHANGED <<stripe, events>>
        /\ Begin(w, [task EXCEPT !.stops = @ \ {u},
                                 !.pc = IF task.stops = {u} THEN "clear" ELSE @])
  BY DEF StopReplaced, Undisturbed, Active
<1> DEFINE stops == task.stops \ {u}
           pc == IF task.stops = {u} THEN "clear" ELSE task.pc
           t == [task EXCEPT !.stops = stops, !.pc = pc]
<1>2. /\ task.pc = "stop" /\ UNCHANGED <<now, rows, flags>>
      /\ task \in Task /\ TaskBacked(task, stripe) /\ TaskFits(task, stripe, rows, events, now)
  BY BillTypes DEF StopReplaced, BillInv, TasksFit
<1>3. /\ task.kind = "record" /\ s \in Subs /\ stripe[s].kind # "package"
      /\ task.stops \subseteq stripe[s].stops
      /\ \A v \in stripe[s].stops \ task.stops : stripe[v].status = "canceled"
      /\ stripe[s].status \notin {"unused", "offered"}
      /\ task.addon = stripe[s].addon /\ task.sub = s
  BY <1>2 DEF TaskBacked, TaskFits, RecordFits, StepFits, StopsFit, PaidIn
<1>4. u \in Subs /\ u # s /\ WasBilled(stripe[u]) /\ u \in stripe[s].stops
  BY <1>3, BillTypes DEF BillInv, Checkouts, OffersFit
<1>5. pc \in {"stop", "clear"} /\ (pc = "clear" => stops = {})
  BY <1>2
<1>6. tasks' = [tasks EXCEPT ![w] = t]
  BY <1>1 DEF Begin
<1> HIDE DEF pc
<1>7. /\ t.kind = "record" /\ t.session = s /\ t.sub = task.sub /\ t.addon = task.addon
      /\ t.stops = stops /\ t.pc = pc
  BY <1>2, <1>3 DEF Task
<1> HIDE DEF t
<1>8. ASSUME NEW held, held[s] = stripe[s], held[u].status = "canceled",
             \A v \in Subs : stripe[v].status = "canceled" => held[v].status = "canceled"
      PROVE  RecordFits(t, held, rows, now)
  <2>1. \A v \in stripe[s].stops : v \in Subs
    BY <1>3, BillTypes
  <2>2. \A v \in stripe[s].stops \ stops : held[v].status = "canceled"
    BY <1>3, <1>8, <2>1
  <2>3. QED
    BY <1>3, <1>5, <1>7, <1>8, <2>2 DEF RecordFits, StepFits, StopsFit, WritesFit
<1>9. /\ tasks'[w] = t /\ \A v \in Workers : v # w => tasks'[v] = tasks[v]
      /\ FlagsFit(flags, rows, tasks', now)
      /\ \A v : (Tends(task, v) => Tends(t, v)) /\ ~Dates(task, v)
      /\ Records(t, s)
  <2>1. tasks'[w] = t /\ \A v \in Workers : v # w => tasks'[v] = tasks[v]
    BY <1>6 DEF IInv, TypeOK
  <2>2. FlagsFit(flags, rows, tasks', now)
    BY <1>5, <1>6, <1>7, FlagsStill DEF Syncs
  <2>3. QED
    BY <1>2, <1>3, <1>5, <1>7, <2>1, <2>2 DEF Tends, Dates, Records
<1>10. CASE stripe[u].status # "active" /\ UNCHANGED <<stripe, events>>
  <2>1. stripe[u].status = "canceled"
    BY <1>4, <1>10 DEF WasBilled
  <2>2. TaskFits(t, stripe, rows, events, now)
    BY <1>5, <1>7, <1>8, <2>1 DEF TaskFits
  <2>3. QED
    BY <1>2, <1>3, <1>6, <1>9, <1>10, <2>2, GoesOn
<1>11. CASE stripe[u].status = "active" /\ Becomes("deleted", u, Stopped(stripe[u]))
  <2> DEFINE sub == Stopped(stripe[u])
  <2>1. /\ stripe'[u] = sub /\ \A v \in Subs : v # u => stripe'[v] = stripe[v]
        /\ \A v : OnTheWay(events', v) <=> OnTheWay(events, v)
        /\ \A v : EndTold(events', v) <=> EndTold(events, v) \/ v = u
    <3>1. sub \in Subscription
      BY <1>4, BillTypes, StoppedSame
    <3>2. QED
      BY <1>4, <1>11, <3>1, ToldMore DEF Becomes, IInv, TypeOK
  <2>2. /\ sub.status = "canceled" /\ sub.kind = stripe[u].kind
        /\ sub.addon = stripe[u].addon /\ sub.cycle = stripe[u].cycle
        /\ sub.replaces = stripe[u].replaces /\ sub.stops = stripe[u].stops
    BY <1>4, BillTypes, StoppedSame
  <2> HIDE DEF sub
  <2>3. \A v \in Subs : /\ stripe'[v].kind = stripe[v].kind
                        /\ stripe'[v].addon = stripe[v].addon
                        /\ stripe'[v].cycle = stripe[v].cycle
                        /\ stripe'[v].replaces = stripe[v].replaces
                        /\ stripe'[v].stops = stripe[v].stops
                        /\ WasBilled(stripe[v]) => WasBilled(stripe'[v])
                        /\ stripe[v].status = "canceled" => stripe'[v].status = "canceled"
                        /\ stripe'[v].status # "canceled" => stripe'[v] = stripe[v]
                        /\ stripe[v].status = "unused" => stripe'[v].status = "unused"
    BY <1>11, <2>1, <2>2 DEF WasBilled
  <2>4. ASSUME NEW v \in Workers, tasks[v] # Idle
        PROVE  /\ Records(tasks[v], s) /\ tasks[v].sub = s
               /\ RecordFits(tasks[v], stripe, rows, now)
    BY <1>3, <2>4, RecordersFit
  <2>5. \A v : Unrecorded(events', tasks', v) => Unrecorded(events, tasks, v)
    BY <1>3, <1>7, <1>9, <2>1 DEF Unrecorded, Records
  <2>6. \A v \in Subs : Open(stripe', events', tasks', v) => Open(stripe, events, tasks, v)
    BY <2>3, <2>5 DEF Open
  <2>7. Unrecorded(events, tasks, s) /\ Open(stripe, events, tasks, s)
    BY <1>3 DEF Unrecorded, Open, Records
  <2>8. \A v \in Subs : Open(stripe, events, tasks, v) => v = s
    BY <1>3, <2>7 DEF BillInv, Checkouts, OneOpen
  <2>9. Checkouts'
    <3>1. Alone(tasks', stripe')
      <4>1. \A v \in Workers : tasks[v].kind = "record" =>
              stripe'[tasks[v].session].kind = stripe[tasks[v].session].kind
        BY <2>3, BillTypes DEF TaskBacked
      <4>2. Alone(tasks, stripe) /\ Records(t, task.session)
        BY <1>9 DEF BillInv, Checkouts
      <4>3. QED
        BY <1>3, <1>6, <4>1, <4>2, StillAlone, ZenonT(60)
    <3>2. OneOpen(stripe', events', tasks')
      BY <2>6, <2>8 DEF OneOpen
    <3>3. EndsTrue(stripe', events')
      BY <2>1, <2>2, <2>3 DEF BillInv, Checkouts, EndsTrue
    <3>4. OffersFit(stripe')
      BY <2>3, BillTypes DEF BillInv, Checkouts, OffersFit
    <3>5. Fresh(stripe', events', tasks', now)
      <4>1. ASSUME NEW v \in Subs, Unrecorded(events', tasks', v) PROVE Begun(stripe'[v], now)
        <5>1. v # u /\ Begun(stripe[v], now)
          BY <1>4, <2>5, <2>8, <4>1 DEF Open, BillInv, Checkouts, Fresh
        <5>2. QED
          BY <2>1, <5>1
      <4>2. QED
        BY <4>1 DEF Fresh
    <3>6. QED
      BY <1>2, <3>1, <3>2, <3>3, <3>4, <3>5 DEF Checkouts
  <2>10. \A a \in Addons : Exists(rows[a]) =>
          /\ rows[a].sub \in Subs /\ WasBilled(stripe[rows[a].sub])
          /\ Linked(rows[a], a, stripe, events)
    BY BillTypes DEF BillInv, RowsFit, RowsLinked, Linked
  <2>11. RowsFit'
    <3>1. RowsLinked(rows, stripe', events')
      <4>1. ASSUME NEW a \in Addons, Exists(rows[a]) PROVE Linked(rows[a], a, stripe', events')
        BY <2>1, <2>3, <2>10, <4>1 DEF Linked
      <4>2. QED
        BY <4>1 DEF BillInv, RowsFit, RowsLinked, Linked
    <3>2. DatesAgree(rows, stripe', tasks')
      <4>1. \A a \in Addons : (\E v \in Workers : Dates(tasks[v], a)) =>
              \E v \in Workers : Dates(tasks'[v], a)
        BY <1>9
      <4>2. QED
        BY <2>3, <2>10, <4>1 DEF BillInv, RowsFit, DatesAgree
    <3>3. CyclesAgree(rows, stripe') /\ Apart(rows, now)
      BY <2>3, <2>10 DEF BillInv, RowsFit, CyclesAgree
    <3>4. MakesWay(rows, stripe', events', tasks', now)
      BY <2>3, <2>6 DEF BillInv, RowsFit, MakesWay, Yields
    <3>5. AllHeld(rows, stripe', events', tasks', now)
      <4>1. ASSUME NEW v \in Subs, stripe'[v].status = "active"
            PROVE  Held(v, rows, stripe', events', tasks', now)
        <5>1. stripe'[v] = stripe[v]
          BY <2>3, <4>1
        <5>2. Held(v, rows, stripe, events, tasks, now)
          BY <4>1, <5>1 DEF BillInv, RowsFit, AllHeld
        <5>3. (\E x \in Workers : Tends(tasks[x], v)) => \E x \in Workers : Tends(tasks'[x], v)
          BY <1>9
        <5>4. QED
          BY <2>1, <5>1, <5>2, <5>3 DEF Held
      <4>2. QED
        BY <4>1 DEF AllHeld
    <3>6. QED
      BY <1>2, <3>1, <3>2, <3>3, <3>4, <3>5 DEF RowsFit
  <2>12. TasksFit(tasks', stripe', rows, events', now)
    <3>1. stripe'[s] = stripe[s] /\ stripe'[u].status = "canceled"
      BY <1>3, <1>4, <2>1, <2>2
    <3>2. TaskFits(t, stripe', rows, events', now)
      <4>1. RecordFits(t, stripe', rows, now)
        BY <1>8, <2>3, <3>1
      <4>2. QED
        BY <1>5, <1>7, <4>1 DEF TaskFits
    <3>3. ASSUME NEW v \in Workers, v # w PROVE TaskFits(tasks[v], stripe', rows, events', now)
      <4>1. CASE tasks[v] = Idle
        BY <4>1, IdleFits
      <4>2. CASE tasks[v] # Idle
        <5>1. /\ tasks[v].kind = "record" /\ tasks[v].session = s /\ tasks[v].sub = s
              /\ RecordFits(tasks[v], stripe, rows, now)
              /\ TaskFits(tasks[v], stripe, rows, events, now)
          BY <2>4, <4>2 DEF Records, BillInv, TasksFit
        <5>2. \A x \in stripe[s].stops : x \in Subs
          BY <1>3, BillTypes
        <5>3. RecordFits(tasks[v], stripe', rows, now)
          BY <2>3, <3>1, <5>1, <5>2 DEF RecordFits, StepFits, StopsFit, WritesFit
        <5>4. QED
          BY <5>1, <5>3 DEF TaskFits
      <4>3. QED
        BY <4>1, <4>2
    <3>4. QED
      BY <1>9, <3>2, <3>3 DEF TasksFit
  <2>13. QED
    BY <1>2, <1>9, <2>9, <2>11, <2>12 DEF BillInv
<1>12. QED
  BY <1>1, <1>10, <1>11

(* Stripe is told to end a subscription with its period, or to go on.         *)
LEMMA CallBills ==
  ASSUME Undisturbed, IInv, IInv', BillInv, NEW w \in Workers, CallStripe(w) PROVE BillInv'
<1> DEFINE task == tasks[w]
           a == task.addon
           s == task.read[a].sub
           renews == (task.kind = "reactivate")
           sub == [stripe[s] EXCEPT !.renews = renews]
           end == stripe[s].end
           t == [task EXCEPT !.end = end, !.pc = "save"]
<1>1. /\ task.pc = "stripe" /\ UNCHANGED <<now, rows, flags>>
      /\ task \in Task /\ TaskFits(task, stripe, rows, events, now) /\ a \in Addons
  BY BillTypes DEF CallStripe, BillInv, TasksFit
<1>2. /\ task.kind \in {"cancel", "reactivate"}
      /\ RequestFits(task, rows[a], stripe, events, now)
  BY <1>1 DEF TaskFits
<1>3. /\ Exists(rows[a]) /\ task.read[a] = rows[a] /\ s = rows[a].sub /\ s \in Subs
      /\ rows[a] \in Row /\ ~OnTheWay(events, s)
      /\ stripe[s].addon = a /\ WasBilled(stripe[s])
  BY <1>1, <1>2, BillTypes DEF RequestFits, BillInv, RowsFit, RowsLinked, Linked
<1>4. \A v \in Workers : v # w => tasks[v] = Idle
  BY <1>1, <1>2, IdleFits, OthersIdle
<1>5. \A u : ~Tends(task, u) /\ ~Dates(task, u) /\ ~Syncs(task)
  BY <1>1 DEF Tends, Dates, Syncs
<1>6. CASE Finish(w) /\ UNCHANGED <<stripe, events>>
  BY <1>1, <1>2, <1>5, <1>6, IdleFits, FlagsStill, GoesOn DEF Finish
<1>7. CASE /\ stripe[s].status = "active"
           /\ Becomes("updated", s, sub)
           /\ Begin(w, t)
  <2>1. stripe[s] \in Subscription /\ renews \in BOOLEAN
    BY <1>3, BillTypes
  <2> HIDE DEF renews
  <2>2. /\ sub \in Subscription /\ sub.renews = renews /\ sub.status = stripe[s].status
        /\ sub.kind = stripe[s].kind /\ sub.addon = stripe[s].addon
        /\ sub.cycle = stripe[s].cycle /\ sub.replaces = stripe[s].replaces
        /\ sub.stops = stripe[s].stops /\ sub.end = stripe[s].end
    BY <2>1 DEF Subscription
  <2>0. /\ stripe' = [stripe EXCEPT ![s] = sub]
        /\ events' = Append(events, EventOf("updated", s, sub))
    BY <1>7 DEF Becomes
  <2>4. /\ tasks'[w] = t /\ \A v \in Workers : v # w => tasks'[v] = Idle
        /\ tasks' = [tasks EXCEPT ![w] = t]
    BY <1>4, <1>7 DEF Begin, IInv, TypeOK
  <2>5. /\ t.kind = task.kind /\ t.addon = a /\ t.read = task.read /\ t.end = end
        /\ t.pc = "save"
    BY <1>1 DEF Task
  <2> HIDE DEF sub, t
  <2>3. /\ stripe'[s] = sub /\ \A u \in Subs : u # s => stripe'[u] = stripe[u]
        /\ \A u : OnTheWay(events', u) <=> OnTheWay(events, u)
        /\ \A u : EndTold(events', u) <=> EndTold(events, u)
    <3>1. /\ stripe'[s] = sub /\ \A u \in Subs : u # s => stripe'[u] = stripe[u]
      BY <1>3, <2>0 DEF IInv, TypeOK
    <3>2. events \in Seq(Event)
      BY DEF IInv, TypeOK
    <3>3. QED
      BY <1>3, <2>0, <2>2, <3>1, <3>2, ToldMore, SMTT(20)
  <2>6. \A u \in Subs : /\ stripe'[u].kind = stripe[u].kind
                        /\ stripe'[u].addon = stripe[u].addon
                        /\ stripe'[u].cycle = stripe[u].cycle
                        /\ stripe'[u].replaces = stripe[u].replaces
                        /\ stripe'[u].stops = stripe[u].stops
                        /\ stripe'[u].status = stripe[u].status
                        /\ stripe'[u].end = stripe[u].end
    BY <2>2, <2>3
  <2>7. /\ \A u : Unrecorded(events', tasks', u) => Unrecorded(events, tasks, u)
        /\ ~Unrecorded(events', tasks', s)
    BY <1>2, <1>3, <2>3, <2>4, <2>5, IdleFits DEF Unrecorded, Records
  <2>8. \A u \in Subs : Open(stripe', events', tasks', u) => Open(stripe, events, tasks, u)
    BY <2>6, <2>7 DEF Open
  <2>9. Checkouts'
    <3>1. Alone(tasks', stripe')
      BY <1>4, <2>4, StillAlone
    <3>2. OneOpen(stripe', events', tasks') /\ EndsTrue(stripe', events')
      BY <2>3, <2>6, <2>8 DEF BillInv, Checkouts, OneOpen, EndsTrue
    <3>3. OffersFit(stripe')
      BY <2>6, BillTypes DEF BillInv, Checkouts, OffersFit, WasBilled
    <3>4. Fresh(stripe', events', tasks', now)
      <4>1. ASSUME NEW u \in Subs, Unrecorded(events', tasks', u) PROVE Begun(stripe'[u], now)
        <5>1. u # s /\ Begun(stripe[u], now)
          BY <2>7, <4>1 DEF BillInv, Checkouts, Fresh
        <5>2. QED
          BY <2>3, <5>1
      <4>2. QED
        BY <4>1 DEF Fresh
    <3>5. QED
      BY <1>1, <3>1, <3>2, <3>3, <3>4 DEF Checkouts
  <2>10. \A b \in Addons : Exists(rows[b]) =>
           /\ rows[b].sub \in Subs /\ Linked(rows[b], b, stripe, events)
           /\ b # a => rows[b].sub # s
    BY <1>3, BillTypes DEF BillInv, RowsFit, RowsLinked, Linked
  <2>11. /\ stripe[s].renews <=> rows[a].endsAt = NoDate
         /\ rows[a].endsAt # NoDate => rows[a].endsAt = stripe[s].end
    <3>1. \A v \in Workers : ~Dates(tasks[v], a)
      BY <1>4, <1>5, IdleFits
    <3>2. QED
      BY <1>1, <1>3, <1>7, <3>1 DEF BillInv, RowsFit, DatesAgree
  <2>12. RowsFit'
    <3>1. RowsLinked(rows, stripe', events')
      <4>1. ASSUME NEW b \in Addons, Exists(rows[b]) PROVE Linked(rows[b], b, stripe', events')
        BY <2>3, <2>6, <2>10, <4>1 DEF Linked, WasBilled
      <4>2. QED
        BY <4>1 DEF BillInv, RowsFit, RowsLinked, Linked
    <3>2. DatesAgree(rows, stripe', tasks')
      <4>1. Dates(tasks'[w], a)
        BY <1>2, <2>4, <2>5 DEF Dates
      <4>2. ASSUME NEW b \in Addons, b # a, Exists(rows[b]), stripe'[rows[b].sub].status = "active"
            PROVE  /\ stripe'[rows[b].sub].renews <=> rows[b].endsAt = NoDate
                   /\ rows[b].endsAt # NoDate => rows[b].endsAt = stripe'[rows[b].sub].end
        <5>1. stripe'[rows[b].sub] = stripe[rows[b].sub]
          BY <2>3, <2>10, <4>2
        <5>2. \A v \in Workers : ~Dates(tasks[v], b)
          BY <1>4, <1>5, IdleFits
        <5>3. QED
          BY <4>2, <5>1, <5>2 DEF BillInv, RowsFit, DatesAgree
      <4>3. QED
        BY <4>1, <4>2 DEF DatesAgree
    <3>3. CyclesAgree(rows, stripe') /\ Apart(rows, now)
      BY <2>6, <2>10 DEF BillInv, RowsFit, CyclesAgree
    <3>4. MakesWay(rows, stripe', events', tasks', now)
      BY <2>6, <2>8 DEF BillInv, RowsFit, MakesWay, Yields
    <3>5. AllHeld(rows, stripe', events', tasks', now)
      <4>1. ASSUME NEW u \in Subs, stripe'[u].status = "active"
            PROVE  Held(u, rows, stripe', events', tasks', now)
        <5>1. CASE u = s
          BY <1>3, <2>6, <5>1 DEF Held
        <5>2. CASE u # s
          <6>1. stripe'[u] = stripe[u] /\ Held(u, rows, stripe, events, tasks, now)
            BY <2>3, <4>1, <5>2 DEF BillInv, RowsFit, AllHeld
          <6>2. \A v \in Workers : ~Tends(tasks[v], u)
            BY <1>4, <1>5, IdleFits
          <6>3. QED
            BY <2>3, <6>1, <6>2 DEF Held
        <5>3. QED
          BY <5>1, <5>2
      <4>2. QED
        BY <4>1 DEF AllHeld
    <3>6. QED
      BY <1>1, <3>1, <3>2, <3>3, <3>4, <3>5 DEF RowsFit
  <2>13. TasksFit(tasks', stripe', rows, events', now)
    <3>1. task.kind = "reactivate" => Runs(stripe'[s], now)
      <4>1. ASSUME task.kind = "reactivate" PROVE Runs(stripe'[s], now)
        <5>1. rows[a].endsAt > now /\ rows[a].endsAt # NoDate
          BY <1>2, <1>3, <4>1, BillTypes DEF RequestFits, NoDate, Row
        <5>2. QED
          BY <1>7, <2>2, <2>3, <2>11, <4>1, <5>1 DEF Runs, renews
      <4>2. QED
        BY <4>1
    <3>2. task.kind = "cancel" => ~stripe'[s].renews
      BY <2>2, <2>3 DEF renews
    <3>3. RequestFits(t, rows[a], stripe', events', now)
      BY <1>2, <1>3, <2>3, <2>5, <2>6, <3>1, <3>2 DEF RequestFits
    <3>4. TaskFits(t, stripe', rows, events', now)
      BY <1>2, <2>5, <3>3 DEF TaskFits
    <3>5. QED
      BY <2>4, <3>4, IdleFits DEF TasksFit
  <2>14. FlagsFit(flags, rows, tasks', now)
    BY <1>5, <2>4, FlagsStill
  <2>15. QED
    BY <1>1, <2>9, <2>12, <2>13, <2>14 DEF BillInv
<1>8. QED
  BY <1>1, <1>6, <1>7 DEF CallStripe, Undisturbed, Active

(* The renewal of a placement bought with a package is started.               *)
LEMMA CreateBills ==
  ASSUME Undisturbed, IInv, IInv', BillInv, NEW w \in Workers, StartDeferredAddon(w)
  PROVE  BillInv'
<1> DEFINE task == tasks[w]
           s == task.session
           unused == [Unused EXCEPT !.kind = "renewal", !.addon = task.addon,
                                    !.cycle = stripe[s].cycle]
           sub == Started(unused)
<1>1. /\ task.pc = "create" /\ UNCHANGED <<now, events, rows, flags>>
      /\ task \in Task /\ TaskBacked(task, stripe)
      /\ TaskFits(task, stripe, rows, events, now) /\ now \in Nat
  BY BillTypes DEF StartDeferredAddon, BillInv, TasksFit
<1>2. /\ task.kind = "record" /\ s \in Subs /\ stripe[s].kind = "package"
      /\ task.addon = stripe[s].addon /\ ~Exists(rows[task.addon])
      /\ task.addon \in Addons /\ stripe[s].status # "unused"
  BY <1>1, BillTypes DEF TaskBacked, TaskFits, RecordFits, StepFits, WritesFit, PaidIn
<1>3. stripe[s].cycle \in Cycles /\ stripe[s].replaces = {}
  BY <1>2 DEF BillInv, Checkouts, OffersFit
<1>4. PICK u \in Subs :
        /\ stripe[u].status = "unused" /\ stripe' = [stripe EXCEPT ![u] = sub]
        /\ Begin(w, [task EXCEPT !.sub = u, !.end = sub.end, !.pc = "upsert"])
  BY DEF StartDeferredAddon, Undisturbed
<1>5. /\ sub.kind = "renewal" /\ sub.addon = task.addon /\ sub.cycle = stripe[s].cycle
      /\ sub.replaces = {} /\ sub.stops = {} /\ sub.status = "active" /\ Runs(sub, now)
  <2> DEFINE cycle == stripe[s].cycle
  <2>1. /\ unused.kind = "renewal" /\ unused.addon = task.addon /\ unused.cycle = cycle
        /\ unused.replaces = {} /\ unused.stops = {}
    BY DEF Unused
  <2>2. unused \in Subscription
    BY <1>2, <1>3, RenewalTyped
  <2> HIDE DEF unused
  <2>3. QED
    BY <1>1, <1>3, <2>1, <2>2, StartedSame
<1> HIDE DEF sub
<1> DEFINE end == sub.end
           t == [task EXCEPT !.sub = u, !.end = end, !.pc = "upsert"]
<1>6. /\ stripe'[u] = sub /\ \A v \in Subs : v # u => stripe'[v] = stripe[v]
      /\ u # s
  BY <1>2, <1>4 DEF IInv, TypeOK
<1>7. \A v \in Workers : v # w => tasks[v] = Idle
  BY <1>1, <1>2, IdleFits, OthersIdle
<1>8. /\ tasks'[w] = t /\ \A v \in Workers : v # w => tasks'[v] = Idle
      /\ tasks' = [tasks EXCEPT ![w] = t]
  BY <1>4, <1>7 DEF Begin, IInv, TypeOK
<1> HIDE DEF end
<1>9. /\ t.kind = "record" /\ t.session = s /\ t.addon = task.addon /\ t.sub = u
      /\ t.pc = "upsert"
  BY <1>1, <1>2 DEF Task
<1> HIDE DEF t
<1>10. \A v : Unrecorded(events, tasks', v) => Unrecorded(events, tasks, v)
  BY <1>2, <1>8, <1>9, IdleFits DEF Unrecorded, Records
<1>11. /\ ~Unrecorded(events, tasks', u)
       /\ \A v \in Subs : Open(stripe', events, tasks', v) =>
            v # u /\ Open(stripe, events, tasks, v)
  <2>1. ~Begun(stripe[u], now)
    BY <1>4 DEF Begun, Runs
  <2>2. ~Unrecorded(events, tasks, u)
    BY <2>1 DEF BillInv, Checkouts, Fresh
  <2>3. QED
    BY <1>5, <1>6, <1>10, <2>2 DEF Open
<1>12. ~EndTold(events, u)
  BY <1>4 DEF BillInv, Checkouts, EndsTrue
<1>13. \A v \in Subs : WasBilled(stripe[v]) => v # u /\ WasBilled(stripe'[v])
  BY <1>4, <1>6 DEF WasBilled
<1>14. Checkouts'
  <2>1. Alone(tasks', stripe')
    BY <1>7, <1>8, StillAlone
  <2>2. OneOpen(stripe', events, tasks') /\ EndsTrue(stripe', events)
    BY <1>6, <1>11, <1>12 DEF BillInv, Checkouts, OneOpen, EndsTrue
  <2>3. OffersFit(stripe')
    <3>1. ASSUME NEW v \in Subs, v # u, stripe[v].status # "unused"
          PROVE  /\ stripe[v].cycle \in Cycles
                 /\ \A b \in stripe[v].replaces : Clash(b, stripe[v].addon)
                 /\ stripe[v].kind = "package" => stripe[v].replaces = {}
                 /\ \A x \in stripe[v].stops : x # v /\ WasBilled(stripe'[x])
      BY <1>13, <3>1, BillTypes DEF BillInv, Checkouts, OffersFit
    <3>2. QED
      BY <1>3, <1>5, <1>6, <3>1 DEF OffersFit
  <2>4. Fresh(stripe', events, tasks', now)
    BY <1>6, <1>10, <1>11 DEF BillInv, Checkouts, Fresh
  <2>5. QED
    BY <1>1, <2>1, <2>2, <2>3, <2>4 DEF Checkouts
<1>15. \A b \in Addons : Exists(rows[b]) =>
         /\ rows[b].sub \in Subs /\ stripe'[rows[b].sub] = stripe[rows[b].sub]
         /\ Linked(rows[b], b, stripe, events)
  BY <1>6, <1>13, BillTypes DEF BillInv, RowsFit, RowsLinked, Linked
<1>16. \A v \in Workers : \A b : ~Dates(tasks[v], b) /\ ~Tends(tasks[v], b)
  BY <1>1, <1>7, IdleFits DEF Dates, Tends
<1>17. RowsFit'
  <2>1. RowsLinked(rows, stripe', events)
    BY <1>15 DEF BillInv, RowsFit, RowsLinked, Linked
  <2>2. DatesAgree(rows, stripe', tasks') /\ CyclesAgree(rows, stripe') /\ Apart(rows, now)
    BY <1>15, <1>16 DEF BillInv, RowsFit, DatesAgree, CyclesAgree
  <2>3. MakesWay(rows, stripe', events, tasks', now)
    BY <1>6, <1>11 DEF BillInv, RowsFit, MakesWay
  <2>4. AllHeld(rows, stripe', events, tasks', now)
    <3>1. ASSUME NEW v \in Subs, stripe'[v].status = "active"
          PROVE  Held(v, rows, stripe', events, tasks', now)
      <4>1. CASE v = u
        BY <1>8, <1>9, <4>1 DEF Held, Tends
      <4>2. CASE v # u
        BY <1>6, <1>16, <3>1, <4>2 DEF BillInv, RowsFit, AllHeld, Held
      <4>3. QED
        BY <4>1, <4>2
    <3>2. QED
      BY <3>1 DEF AllHeld
  <2>5. QED
    BY <1>1, <2>1, <2>2, <2>3, <2>4 DEF RowsFit
<1>18. TasksFit(tasks', stripe', rows, events, now)
  <2>1. stripe'[s] = stripe[s]
    BY <1>2, <1>6
  <2>2. RecordFits(t, stripe', rows, now)
    BY <1>2, <1>3, <1>5, <1>6, <1>9, <2>1 DEF RecordFits, StepFits, StopsFit, WritesFit
  <2>3. TaskFits(t, stripe', rows, events, now)
    BY <1>9, <2>2 DEF TaskFits
  <2>4. QED
    BY <1>8, <2>3, IdleFits DEF TasksFit
<1>19. FlagsFit(flags, rows, tasks', now)
  BY <1>8, <1>9, FlagsStill DEF Syncs
<1>20. QED
  BY <1>1, <1>14, <1>17, <1>18, <1>19 DEF BillInv
--------------------------------------------------------------------------------
(* The steps that change a row.                                               *)

(* A row that goes on keeps its subscription and its end; one that goes had a *)
(* subscription that is over, or runs out today.                              *)
Follows(row, after, held, day) ==
  IF Exists(after)
  THEN /\ Exists(row) /\ after.sub = row.sub
       /\ Ended(row, day) => Ended(after, day)
  ELSE /\ after.sub = NoSub
       /\ Exists(row) /\ held[row.sub].status = "active" => RunsOut(held[row.sub], day)

(* A row lets go of a subscription that is over, or whose period is.          *)
LetsGo ==
  \A a \in Addons : Exists(rows[a]) /\ rows'[a].sub # rows[a].sub =>
    ~Active(rows[a].sub) \/ Due(rows[a].sub)

(* A handler that is alone writes rows, and what a checkout is in the way of  *)
(* stays out of it.                                                           *)
LEMMA RowsChange ==
  ASSUME IInv, IInv', BillInv, NEW w \in Workers, NEW t, tasks' = [tasks EXCEPT ![w] = t],
         UNCHANGED <<now, stripe>>,
         \A v \in Workers : v # w => tasks[v] = Idle,
         tasks[w].kind # "record", t.kind # "record",
         \A u : OnTheWay(events', u) <=> OnTheWay(events, u),
         \A u : EndTold(events', u) => EndTold(events, u),
         \A a \in Addons : Follows(rows[a], rows'[a], stripe, now),
         \A a \in Addons : Exists(rows'[a]) /\ EndTold(events, rows[a].sub) =>
           EndTold(events', rows[a].sub),
         DatesAgree(rows', stripe, tasks'), CyclesAgree(rows', stripe),
         TaskFits(t, stripe, rows', events', now),
         FlagsFit(flags', rows', tasks', now)
  PROVE  BillInv' /\ LetsGo
<1>1. tasks'[w] = t /\ \A v \in Workers : v # w => tasks'[v] = Idle
  BY DEF IInv, TypeOK
<1>2. /\ \A u : Unrecorded(events', tasks', u) => Unrecorded(events, tasks, u)
      /\ \A u : Open(stripe, events', tasks', u) => Open(stripe, events, tasks, u)
  BY <1>1, IdleFits DEF Open, Unrecorded, Records
<1>3. Checkouts'
  <2>1. Alone(tasks', stripe)
    BY StillAlone
  <2>2. OneOpen(stripe, events', tasks') /\ EndsTrue(stripe, events') /\ OffersFit(stripe)
    BY <1>2 DEF BillInv, Checkouts, OneOpen, EndsTrue
  <2>3. Fresh(stripe, events', tasks', now)
    BY <1>2 DEF BillInv, Checkouts, Fresh
  <2>4. QED
    BY <2>1, <2>2, <2>3 DEF Checkouts
<1>4. \A a \in Addons : Exists(rows'[a]) =>
        /\ Exists(rows[a]) /\ rows'[a].sub = rows[a].sub
        /\ Ended(rows[a], now) => Ended(rows'[a], now)
  BY DEF Follows
<1>5. RowsFit'
  <2>1. RowsLinked(rows', stripe, events')
    <3>1. \A a \in Addons : Linked(rows[a], a, stripe, events)
      BY DEF BillInv, RowsFit, RowsLinked
    <3>2. \A a \in Addons : ~Exists(rows'[a]) => rows'[a].sub = NoSub
      BY DEF Follows
    <3>3. QED
      BY <1>4, <3>1, <3>2 DEF RowsLinked, Linked
  <2>2. Apart(rows', now)
    <3>1. Bundle \in Addons /\ Singles \subseteq Addons
      BY DEF Addons
    <3>2. QED
      BY <1>4, <3>1 DEF BillInv, RowsFit, Apart
  <2>3. MakesWay(rows', stripe, events', tasks', now)
    <3>1. ASSUME NEW u \in Subs, NEW a \in Addons, Open(stripe, events', tasks', u),
                 Clash(a, stripe[u].addon), Exists(rows'[a])
          PROVE  Yields(rows'[a], a, stripe[u], u, now)
      <4>1. Yields(rows[a], a, stripe[u], u, now)
        BY <1>2, <1>4, <3>1 DEF BillInv, RowsFit, MakesWay
      <4>2. QED
        BY <1>4, <3>1, <4>1 DEF Yields
    <3>2. QED
      BY <3>1 DEF MakesWay
  <2>4. AllHeld(rows', stripe, events', tasks', now)
    <3>1. ASSUME NEW u \in Subs, stripe[u].status = "active"
          PROVE  Held(u, rows', stripe, events', tasks', now)
      <4> DEFINE a == stripe[u].addon
      <4>1. Held(u, rows, stripe, events, tasks, now) /\ a \in Addons
        BY <3>1, BillTypes DEF BillInv, RowsFit, AllHeld
      <4>2. \A v \in Workers : ~Tends(tasks[v], u)
        BY IdleFits DEF Tends
      <4>3. CASE rows[a].sub = u
        <5>1. Exists(rows[a])
          BY <4>1, <4>3, PlacementsAssumption DEF BillInv, RowsFit, RowsLinked, Linked
        <5>2. Follows(rows[a], rows'[a], stripe, now)
          BY <4>1
        <5>3. rows'[a].sub = u \/ RunsOut(stripe[u], now)
          BY <3>1, <4>3, <5>1, <5>2 DEF Follows
        <5>4. QED
          BY <5>3 DEF Held
      <4>4. QED
        BY <4>1, <4>2, <4>3 DEF Held
    <3>2. QED
      BY <3>1 DEF AllHeld
  <2>5. QED
    BY <2>1, <2>2, <2>3, <2>4 DEF RowsFit
<1>6. TasksFit(tasks', stripe, rows', events', now)
  BY <1>1, IdleFits DEF TasksFit
<1>7. LetsGo
  BY DEF LetsGo, Follows, RunsOut, Active, Due
<1>8. QED
  BY <1>3, <1>5, <1>6, <1>7 DEF BillInv, Checkouts

(* The dates of a row nobody is about to write are those of its subscription. *)
LEMMA RowDates ==
  ASSUME IInv, BillInv, NEW a \in Addons,
         \A v \in Workers : ~Dates(tasks[v], a),
         Exists(rows[a]), stripe[rows[a].sub].status = "active"
  PROVE  /\ stripe[rows[a].sub].renews <=> rows[a].endsAt = NoDate
         /\ rows[a].endsAt # NoDate => rows[a].endsAt = stripe[rows[a].sub].end
  BY DEF BillInv, RowsFit, DatesAgree

(* A row that has ended goes, and a cycle that is due is taken up.            *)
LEMMA SettleBills ==
  ASSUME IInv, IInv', BillInv, NEW w \in Workers, SettleDue(w) PROVE BillInv' /\ LetsGo
<1> DEFINE task == tasks[w]
<1>1. /\ task.pc = "settle" /\ UNCHANGED <<now, stripe, events, flags>>
      /\ task \in Task /\ TaskFits(task, stripe, rows, events, now)
  BY BillTypes DEF SettleDue, BillInv, TasksFit
<1>2. /\ task.kind \in {"look", "subscribe"}
      /\ \A a \in task.left : Exists(rows[a]) /\ task.read[a] = rows[a]
      /\ task.kind = "subscribe" => task.cycle \in Cycles
      /\ task.left \subseteq Addons
  BY <1>1 DEF TaskFits, Task
<1>3. PICK a \in task.left :
        /\ rows' = [rows EXCEPT ![a] = SettledRow(task, a)]
        /\ Begin(w, [task EXCEPT !.left = @ \ {a},
                                 !.pc = IF task.left = {a} THEN "sync" ELSE @])
  BY <1>2 DEF SettleDue, StillThere
<1> DEFINE row == SettledRow(task, a)
           left == task.left \ {a}
           pc == IF task.left = {a} THEN "sync" ELSE task.pc
           t == [task EXCEPT !.left = left, !.pc = pc]
<1>4. /\ tasks' = [tasks EXCEPT ![w] = t]
      /\ pc \in {"sync", "settle"}
      /\ rows'[a] = row /\ \A b \in Addons : b # a => rows'[b] = rows[b]
      /\ a \in Addons /\ rows[a] \in Row /\ Exists(rows[a]) /\ task.read[a] = rows[a]
  BY <1>1, <1>2, <1>3, BillTypes DEF Begin, IInv, TypeOK
<1> HIDE DEF pc, left
<1>5. t.kind = task.kind /\ t.cycle = task.cycle /\ t.left = left /\ t.pc = pc
      /\ t.read = task.read
  BY <1>1 DEF Task
<1> HIDE DEF t
<1>6. /\ \A v \in Workers : v # w => tasks[v] = Idle
      /\ \A v \in Workers : \A b : ~Dates(tasks[v], b)
  BY <1>1, <1>2, IdleFits, OthersIdle DEF Dates
<1>7. /\ tasks'[w] = t /\ \A v \in Workers : v # w => tasks'[v] = tasks[v]
      /\ Syncs(tasks'[w])
  BY <1>4, <1>5 DEF Syncs, IInv, TypeOK
<1>8. IF Ended(rows[a], now) THEN row = NoRow
      ELSE /\ row.id = rows[a].id /\ row.sub = rows[a].sub /\ row.endsAt = rows[a].endsAt
           /\ row.pending = NoCycle /\ row.changeAt = NoDate
           /\ rows[a].pending = NoCycle => row.cycle = rows[a].cycle
  <2>1. HasEnded(rows[a]) <=> Ended(rows[a], now)
    BY <1>4, SaidOfRows
  <2>2. CASE Ended(rows[a], now)
    BY <1>4, <2>1, <2>2 DEF SettledRow
  <2>3. CASE ~Ended(rows[a], now)
    <3> DEFINE cycle == IF rows[a].pending = NoCycle THEN rows[a].cycle ELSE rows[a].pending
    <3>1. row = [rows[a] EXCEPT !.cycle = cycle, !.pending = NoCycle, !.changeAt = NoDate]
      BY <1>4, <2>1, <2>3 DEF SettledRow
    <3>2. rows[a].pending = NoCycle => cycle = rows[a].cycle
      OBVIOUS
    <3> HIDE DEF cycle, row
    <3>3. QED
      BY <1>4, <2>3, <3>1, <3>2 DEF Row
  <2>4. QED
    BY <2>2, <2>3
<1> HIDE DEF row
<1>9. ASSUME stripe[rows[a].sub].status = "active", Ended(rows[a], now)
      PROVE  RunsOut(stripe[rows[a].sub], now)
  BY <1>4, <1>6, <1>9, RowDates DEF Ended, RunsOut
<1>10. NoRow.id = NoId /\ NoRow.sub = NoSub /\ ~Exists(NoRow)
  BY NoRowTyped DEF NoRow
<1>11. \A b \in Addons : Follows(rows[b], rows'[b], stripe, now)
  <2>1. Follows(rows[a], row, stripe, now)
    BY <1>4, <1>8, <1>9, <1>10 DEF Follows, Exists, Ended
  <2>2. \A b \in Addons : Follows(rows[b], rows[b], stripe, now)
    BY DEF Follows, BillInv, RowsFit, RowsLinked, Linked
  <2>3. QED
    BY <1>4, <2>1, <2>2
<1>12. DatesAgree(rows', stripe, tasks')
  <2>1. ASSUME NEW b \in Addons, Exists(rows'[b]), stripe[rows'[b].sub].status = "active"
        PROVE  /\ stripe[rows'[b].sub].renews <=> rows'[b].endsAt = NoDate
               /\ rows'[b].endsAt # NoDate => rows'[b].endsAt = stripe[rows'[b].sub].end
    <3>1. Exists(rows[b]) /\ rows'[b].sub = rows[b].sub /\ rows'[b].endsAt = rows[b].endsAt
      BY <1>4, <1>8, <1>10, <2>1 DEF Exists
    <3>2. QED
      BY <1>6, <2>1, <3>1, RowDates
  <2>2. QED
    BY <2>1 DEF DatesAgree
<1>13. CyclesAgree(rows', stripe)
  BY <1>4, <1>8, <1>10 DEF BillInv, RowsFit, CyclesAgree, Exists
<1>14. TaskFits(t, stripe, rows', events, now)
  <2>1. \A b \in left : Exists(rows'[b]) /\ t.read[b] = rows'[b]
    BY <1>2, <1>4, <1>5 DEF left
  <2>2. QED
    BY <1>2, <1>4, <1>5, <2>1 DEF TaskFits
<1>15. FlagsFit(flags, rows', tasks', now)
  BY <1>7 DEF FlagsFit
<1>16. QED
  BY <1>1, <1>2, <1>4, <1>5, <1>6, <1>11, <1>12, <1>13, <1>14, <1>15, RowsChange

(* What Stripe bills has been paid up to some day.                            *)
PaidUpToADay == \A s \in Subs : stripe[s].status = "active" => stripe[s].end # NoDate

(* A subscription starts with the end of its first period, and keeps one.     *)
LEMMA DaysKept == ASSUME IInv, PaidUpToADay, [Next]_vars PROVE PaidUpToADay'
<1>1. /\ now \in Nat /\ now # 0 /\ \A s \in Subs : stripe[s] \in Subscription
      /\ \A s \in Subs : stripe[s].end \in Nat /\ stripe[s].cycle \in Nat
  BY CyclesAreNumbers, BillTypes DEF Subscription
<1>2. ASSUME NEW s \in Subs, NEW sub, stripe' = [stripe EXCEPT ![s] = sub],
             sub.status = "active" => sub.end # NoDate
      PROVE  PaidUpToADay'
  BY <1>2 DEF PaidUpToADay, IInv, TypeOK
<1>3. CASE UNCHANGED stripe
  BY <1>3 DEF PaidUpToADay
<1>4. ASSUME NEW s \in Subs, Pay(s) \/ Renew(s) \/ Lapse(s) \/ GiveUp(s) PROVE PaidUpToADay'
  <2>1. CASE Pay(s)
    <3> DEFINE end == now + stripe[s].cycle
               sub == [stripe[s] EXCEPT !.status = "active", !.renews = TRUE, !.end = end]
               paid == [stripe[s] EXCEPT !.status = "paid"]
    <3>1. /\ end # NoDate /\ sub.end = end /\ paid.status = "paid"
      BY <1>1 DEF NoDate, Subscription
    <3>2. stripe' = [stripe EXCEPT ![s] = paid] \/ stripe' = [stripe EXCEPT ![s] = sub]
      BY <2>1 DEF Pay, Becomes, Started
    <3> HIDE DEF end, sub, paid
    <3>3. QED
      BY <1>2, <3>1, <3>2
  <2>2. CASE Renew(s)
    <3> DEFINE end == stripe[s].end + stripe[s].cycle
               sub == [stripe[s] EXCEPT !.end = end]
    <3>1. stripe[s].end # NoDate
      BY <2>2 DEF Renew, Due, Active, PaidUpToADay
    <3>2. end # NoDate /\ sub.end = end
      BY <1>1, <3>1 DEF NoDate, Subscription
    <3>3. stripe' = [stripe EXCEPT ![s] = sub]
      BY <2>2 DEF Renew, Becomes
    <3> HIDE DEF end, sub
    <3>4. QED
      BY <1>2, <3>2, <3>3
  <2>3. CASE Lapse(s) \/ GiveUp(s)
    <3>1. stripe' = [stripe EXCEPT ![s] = Stopped(stripe[s])]
      BY <2>3 DEF Lapse, GiveUp, Becomes
    <3>2. Stopped(stripe[s]).status = "canceled"
      BY <1>1, StoppedSame
    <3>3. QED
      BY <1>2, <3>1, <3>2
  <2>4. QED
    BY <1>4, <2>1, <2>2, <2>3
<1>5. ASSUME NEW s \in Subs, NEW kind, NEW a, NEW c, NEW replaces, Offer(s, kind, a, c, replaces)
      PROVE  PaidUpToADay'
  <2> DEFINE stops == {rows[r].sub : r \in replaces}
             sub == [Unused EXCEPT !.kind = kind, !.status = "offered", !.addon = a,
                                   !.cycle = c, !.replaces = replaces, !.stops = stops]
  <2>1. stripe' = [stripe EXCEPT ![s] = sub]
    BY <1>5 DEF Offer
  <2>2. sub.status = "offered"
    BY DEF Unused
  <2> HIDE DEF sub
  <2>3. QED
    BY <1>2, <2>1, <2>2
<1>6. ASSUME NEW w \in Workers, CallStripe(w), ~UNCHANGED stripe PROVE PaidUpToADay'
  <2> DEFINE s == tasks[w].read[tasks[w].addon].sub
             sub == [stripe[s] EXCEPT !.renews = (tasks[w].kind = "reactivate")]
  <2>1. s \in Subs
    BY <1>6, BillTypes DEF CallStripe, TaskBacked
  <2>2. stripe' = [stripe EXCEPT ![s] = sub] /\ stripe[s].status = "active"
    BY <1>6 DEF CallStripe, Becomes, Active
  <2>3. sub.end = stripe[s].end
    BY <1>1, <2>1 DEF Subscription
  <2> HIDE DEF sub, s
  <2>4. QED
    BY <1>2, <2>1, <2>2, <2>3 DEF PaidUpToADay
<1>7. ASSUME NEW w \in Workers, StopReplaced(w), ~UNCHANGED stripe PROVE PaidUpToADay'
  <2>1. PICK s \in tasks[w].stops : stripe' = [stripe EXCEPT ![s] = Stopped(stripe[s])]
    BY <1>7 DEF StopReplaced, Becomes
  <2>2. s \in Subs /\ Stopped(stripe[s]).status = "canceled"
    BY <1>1, TaskFacts, StoppedSame
  <2>3. QED
    BY <1>2, <2>1, <2>2
<1>8. ASSUME NEW w \in Workers, StartDeferredAddon(w), ~UNCHANGED stripe PROVE PaidUpToADay'
  <2> DEFINE cycle == stripe[tasks[w].session].cycle
             unused == [Unused EXCEPT !.kind = "renewal", !.addon = tasks[w].addon,
                                      !.cycle = cycle]
             end == now + cycle
  <2>1. cycle \in Cycles \cup {NoCycle} /\ tasks[w].addon \in Addons /\ end # NoDate
    <3>1. tasks[w].session \in Subs /\ tasks[w].addon \in Addons
      BY <1>8, BillTypes DEF StartDeferredAddon, TaskBacked
    <3>2. cycle \in Cycles \cup {NoCycle} /\ cycle \in Nat
      BY <1>1, <3>1 DEF Subscription
    <3> HIDE DEF cycle
    <3>3. QED
      BY <1>1, <3>1, <3>2 DEF NoDate
  <2>2. PICK s \in Subs : stripe' = [stripe EXCEPT ![s] = Started(unused)]
    BY <1>8 DEF StartDeferredAddon
  <2>3. unused \in Subscription /\ unused.cycle = cycle
    BY <2>1, RenewalTyped
  <2>4. Started(unused) = [unused EXCEPT !.status = "active", !.renews = TRUE, !.end = end]
    BY <2>3 DEF Started
  <2> HIDE DEF unused, end
  <2>5. Started(unused).end = end
    BY <2>3, <2>4 DEF Subscription
  <2>6. QED
    BY <1>2, <2>1, <2>2, <2>5
<1>9. CASE Stripe \/ Seller
  BY <1>3, <1>4, <1>5, <1>9 DEF Stripe, Seller, Tick, Subscribe, Cancel, Reactivate, Asks, Spends,
     ForListing, SyncCheckoutSession, CreatePackageCheckout
<1>10. ASSUME NEW w \in Workers, Step(w) PROVE PaidUpToADay'
  <2>1. CASE Decide(w)
    BY <1>3, <1>5, <2>1 DEF Decide
  <2>2. CASE CallStripe(w) \/ StopReplaced(w) \/ StartDeferredAddon(w)
    BY <1>3, <1>6, <1>7, <1>8, <2>2
  <2>3. QED
    BY <1>3, <1>10, <2>1, <2>2
       DEF Step, SettleDue, Sync, WriteFlags, HealFlags, Compare, Save, Fetch, DeleteReplaced,
           CheckHeld, Upsert
<1>11. QED
  BY <1>3, <1>9, <1>10
     DEF Next, vars, DeactivateListingPackage, MarkSold, Crash, Deliver, Lose

(* The summary does not change when no placement comes, goes or comes back.   *)
LEMMA SaysStill ==
  ASSUME NEW said, NEW table, NEW after, NEW day, Says(said, table, day),
         \A a \in Addons : Exists(after[a]) <=> Exists(table[a]),
         \A a \in Addons : Ended(table[a], day) => Ended(after[a], day),
         said.addons \subseteq Addons
  PROVE  Says(said, after, day)
<1>1. Lasting(after, day) \subseteq Lasting(table, day)
  BY DEF Lasting, Lasts
<1>2. QED
  BY <1>1 DEF Says

(* A handler that ended the period with Stripe writes its date, one that made *)
(* it go on takes the date off, and a shorter cycle is queued.                *)
LEMMA SaveBills ==
  ASSUME Undisturbed, IInv, IInv', PaidUpToADay, BillInv, NEW w \in Workers, Save(w)
  PROVE  BillInv' /\ LetsGo
<1> DEFINE task == tasks[w]
           a == task.addon
           row == Written(task, a)
<1>1. /\ task.pc = "save" /\ UNCHANGED <<now, stripe, events, flags>>
      /\ task \in Task /\ TaskFits(task, stripe, rows, events, now) /\ a \in Addons
  BY BillTypes DEF Save, BillInv, TasksFit
<1>2. /\ \/ task.kind \in {"cancel", "reactivate"}
         \/ task.kind = "subscribe" /\ "shorter" \in Requests
      /\ task.kind \in {"cancel", "reactivate"} => RequestFits(task, rows[a], stripe, events, now)
  BY <1>1 DEF TaskFits
<1>3. \A u : ~Tends(task, u) /\ ~Syncs(task)
  BY <1>1 DEF Tends, Syncs
<1>4. /\ \A v \in Workers : v # w => tasks[v] = Idle
      /\ \A v \in Workers : v # w => \A b : ~Dates(tasks[v], b)
      /\ \A b : Dates(task, b) => b = a
  BY <1>1, <1>2, IdleFits, OthersIdle DEF Dates
<1>5. CASE ~StillThere(task, a)
  <2>1. Finish(w) /\ UNCHANGED rows
    BY <1>5 DEF Save
  <2>2. task.kind = "subscribe"
    BY <1>2, <1>5 DEF RequestFits, StillThere
  <2>3. \A b : ~Dates(task, b)
    BY <2>2 DEF Dates
  <2>4. QED
    BY <1>1, <1>3, <2>1, <2>2, <2>3, IdleFits, FlagsStill, GoesOn DEF Finish, LetsGo
<1>6. CASE StillThere(task, a)
  <2>1. PICK t \in {Idle, [task EXCEPT !.pc = "sync"]} :
          /\ tasks' = [tasks EXCEPT ![w] = t]
          /\ IF task.kind = "reactivate" THEN t = [task EXCEPT !.pc = "sync"] ELSE t = Idle
    BY <1>6 DEF Save, Finish, Advance, IInv, TypeOK
  <2>2. /\ t.kind # "record"
        /\ task.kind = "reactivate" => Syncs(t)
        /\ TaskFits(t, stripe, rows', events, now) /\ \A b : ~Dates(t, b)
    <3>1. CASE task.kind = "reactivate"
      <4>1. t.kind = "reactivate" /\ t.pc = "sync"
        BY <1>1, <2>1, <3>1 DEF Task
      <4>2. QED
        BY <4>1 DEF TaskFits, Syncs, Dates
    <3>2. CASE task.kind # "reactivate"
      BY <2>1, <3>2, IdleFits
    <3>3. QED
      BY <3>1, <3>2
  <2>3. /\ rows[a] \in Row /\ Exists(rows[a]) /\ rows[a].sub \in Subs
        /\ rows'[a] = row /\ \A b \in Addons : b # a => rows'[b] = rows[b]
    BY <1>1, <1>6, BillTypes DEF Save, StillThere, IInv, TypeOK
  <2>4. /\ row.id = rows[a].id /\ row.sub = rows[a].sub /\ row.cycle = rows[a].cycle
        /\ row.endsAt = (CASE task.kind = "cancel" -> task.end
                           [] task.kind = "reactivate" -> NoDate
                           [] OTHER -> rows[a].endsAt)
        /\ task.kind = "cancel" => row.pending = NoCycle /\ row.changeAt = NoDate
        /\ task.kind = "reactivate" =>
             row.pending = rows[a].pending /\ row.changeAt = rows[a].changeAt
    <3>1. CASE task.kind = "cancel"
      <4> DEFINE end == task.end
      <4>1. row = [rows[a] EXCEPT !.endsAt = end, !.pending = NoCycle, !.changeAt = NoDate]
        BY <3>1 DEF Written
      <4> HIDE DEF row, end
      <4>2. /\ row.id = rows[a].id /\ row.sub = rows[a].sub /\ row.cycle = rows[a].cycle
            /\ row.endsAt = end /\ row.pending = NoCycle /\ row.changeAt = NoDate
        BY <2>3, <4>1 DEF Row
      <4>3. QED
        BY <3>1, <4>2 DEF end
    <3>2. CASE task.kind = "reactivate"
      <4>1. row = [rows[a] EXCEPT !.endsAt = NoDate]
        BY <3>2 DEF Written
      <4> HIDE DEF row
      <4>2. QED
        BY <2>3, <3>2, <4>1 DEF Row
    <3>3. CASE task.kind = "subscribe"
      <4> DEFINE cycle == task.cycle
                 changeAt == PaidUpTo(task.read[a])
      <4>1. row = [rows[a] EXCEPT !.pending = cycle, !.changeAt = changeAt]
        BY <3>3 DEF Written
      <4> HIDE DEF row, cycle, changeAt
      <4>2. QED
        BY <2>3, <3>3, <4>1 DEF Row
    <3>4. QED
      BY <1>2, <3>1, <3>2, <3>3
  <2> HIDE DEF row
  <2>5. Ended(rows[a], now) => Ended(row, now)
    <3>1. CASE task.kind \in {"cancel", "reactivate"}
      <4>1. rows[a].endsAt \in Nat /\ now \in Nat
        BY <2>3, BillTypes DEF Row
      <4>2. task.kind = "cancel" => rows[a].endsAt = NoDate
        BY <1>2, <3>1 DEF RequestFits
      <4>3. task.kind = "reactivate" => rows[a].endsAt > now
        BY <1>2, <3>1 DEF RequestFits
      <4>4. QED
        BY <3>1, <4>1, <4>2, <4>3 DEF Ended
    <3>2. CASE task.kind = "subscribe"
      BY <2>4, <3>2 DEF Ended
    <3>3. QED
      BY <1>2, <3>1, <3>2
  <2>6. \A b \in Addons : Follows(rows[b], rows'[b], stripe, now)
    <3>1. Follows(rows[a], row, stripe, now)
      BY <2>3, <2>4, <2>5 DEF Follows, Exists
    <3>2. \A b \in Addons : Follows(rows[b], rows[b], stripe, now)
      BY DEF Follows, BillInv, RowsFit, RowsLinked, Linked
    <3>3. QED
      BY <2>3, <3>1, <3>2
  <2>7. DatesAgree(rows', stripe, tasks')
    <3>1. ASSUME stripe[row.sub].status = "active"
          PROVE  /\ stripe[row.sub].renews <=> row.endsAt = NoDate
                 /\ row.endsAt # NoDate => row.endsAt = stripe[row.sub].end
      <4>1. CASE task.kind = "cancel"
        <5>1. task.end = stripe[row.sub].end /\ ~stripe[row.sub].renews
          BY <1>1, <1>2, <2>4, <3>1, <4>1 DEF RequestFits
        <5>2. stripe[row.sub].end # NoDate
          BY <2>3, <2>4, <3>1 DEF PaidUpToADay
        <5>3. QED
          BY <2>4, <4>1, <5>1, <5>2
      <4>2. CASE task.kind = "reactivate"
        <5>1. stripe[row.sub].renews
          BY <1>1, <1>2, <2>4, <4>2 DEF RequestFits, Runs
        <5>2. QED
          BY <2>4, <4>2, <5>1
      <4>3. CASE task.kind = "subscribe"
        <5>1. \A v \in Workers : ~Dates(tasks[v], a)
          BY <1>4, <4>3 DEF Dates
        <5>2. QED
          BY <1>1, <2>3, <2>4, <3>1, <4>3, <5>1, RowDates
      <4>4. QED
        BY <1>2, <4>1, <4>2, <4>3
    <3>2. ASSUME NEW b \in Addons, b # a, Exists(rows'[b]),
                 stripe[rows'[b].sub].status = "active"
          PROVE  /\ stripe[rows'[b].sub].renews <=> rows'[b].endsAt = NoDate
                 /\ rows'[b].endsAt # NoDate => rows'[b].endsAt = stripe[rows'[b].sub].end
      <4>1. rows'[b] = rows[b] /\ \A v \in Workers : ~Dates(tasks[v], b)
        BY <1>4, <2>3, <3>2
      <4>2. QED
        BY <3>2, <4>1, RowDates
    <3>3. QED
      BY <2>3, <3>1, <3>2 DEF DatesAgree
  <2>8. CyclesAgree(rows', stripe)
    <3>1. CASE "shorter" \in Requests
      BY <3>1 DEF CyclesAgree
    <3>2. CASE "shorter" \notin Requests
      <4>1. task.kind \in {"cancel", "reactivate"}
        BY <1>2, <3>2
      <4>2. QED
        BY <2>3, <2>4, <4>1 DEF BillInv, RowsFit, CyclesAgree, Exists
    <3>3. QED
      BY <3>1, <3>2
  <2>9. FlagsFit(flags, rows', tasks', now)
    <3>1. CASE task.kind = "reactivate"
      <4>1. Syncs(tasks'[w])
        BY <2>1, <2>2, <3>1 DEF IInv, TypeOK
      <4>2. QED
        BY <4>1 DEF FlagsFit
    <3>2. CASE task.kind # "reactivate"
      <4>1. \A v \in Workers : ~Syncs(tasks[v])
        BY <1>3, <1>4, IdleFits
      <4>2. /\ \A b \in Addons : Exists(rows'[b]) <=> Exists(rows[b])
            /\ \A b \in Addons : Ended(rows[b], now) => Ended(rows'[b], now)
        BY <2>3, <2>4, <2>5 DEF Exists
      <4>3. flags.addons \subseteq Addons
        BY DEF IInv, TypeOK, Flags
      <4>4. Says(flags, rows, now) => Says(flags, rows', now)
        BY <4>2, <4>3, SaysStill
      <4>5. QED
        BY <4>1, <4>4 DEF BillInv, FlagsFit
    <3>3. QED
      BY <3>1, <3>2
  <2>10. task.kind # "record"
    BY <1>2
  <2>11. QED
    BY <1>1, <1>4, <2>1, <2>2, <2>6, <2>7, <2>8, <2>9, <2>10, RowsChange
<1>7. QED
  BY <1>5, <1>6

(* A recording writes rows, and goes on with its checkout.                    *)
LEMMA RecordWrites ==
  ASSUME IInv, IInv', BillInv, NEW w \in Workers, NEW t, tasks' = [tasks EXCEPT ![w] = t],
         UNCHANGED <<now, stripe, events>>,
         tasks[w].kind = "record", Records(t, tasks[w].session), Syncs(t),
         RowsLinked(rows', stripe, events), DatesAgree(rows', stripe, tasks'),
         CyclesAgree(rows', stripe), Apart(rows', now),
         MakesWay(rows', stripe, events, tasks, now),
         AllHeld(rows', stripe, events, tasks', now),
         TaskFits(t, stripe, rows', events, now),
         \A v \in Workers : v # w /\ tasks[v] # Idle =>
           TaskFits(tasks[v], stripe, rows', events, now)
  PROVE  BillInv'
<1>1. tasks'[w] = t /\ \A v \in Workers : v # w => tasks'[v] = tasks[v]
  BY DEF IInv, TypeOK
<1>2. /\ \A u : Unrecorded(events, tasks', u) => Unrecorded(events, tasks, u)
      /\ \A u : Open(stripe, events, tasks', u) => Open(stripe, events, tasks, u)
  BY <1>1 DEF Open, Unrecorded, Records
<1>3. Checkouts'
  <2>1. Alone(tasks', stripe)
    BY StillAlone DEF BillInv, Checkouts
  <2>2. OneOpen(stripe, events, tasks') /\ EndsTrue(stripe, events) /\ OffersFit(stripe)
    BY <1>2 DEF BillInv, Checkouts, OneOpen
  <2>3. Fresh(stripe, events, tasks', now)
    BY <1>2 DEF BillInv, Checkouts, Fresh
  <2>4. QED
    BY <2>1, <2>2, <2>3 DEF Checkouts
<1>4. RowsFit'
  <2>1. MakesWay(rows', stripe, events, tasks', now)
    BY <1>2 DEF MakesWay
  <2>2. QED
    BY <2>1 DEF RowsFit
<1>5. TasksFit(tasks', stripe, rows', events, now)
  BY <1>1, IdleFits DEF TasksFit
<1>6. FlagsFit(flags', rows', tasks', now)
  BY <1>1 DEF FlagsFit
<1>7. QED
  BY <1>3, <1>4, <1>5, <1>6 DEF BillInv, Checkouts

(* While a checkout is recorded nobody is about to write a date, and what it  *)
(* is in the way of it replaces, or that has ended, or is its own.            *)
LEMMA RecordFinds ==
  ASSUME IInv, BillInv, NEW w \in Workers, tasks[w].kind = "record"
  PROVE  /\ tasks[w].session \in Subs /\ tasks[w].sub \in Subs
         /\ stripe[tasks[w].session].addon = tasks[w].addon
         /\ stripe[tasks[w].session].status \notin {"unused", "offered"}
         /\ RecordFits(tasks[w], stripe, rows, now)
         /\ Open(stripe, events, tasks, tasks[w].session)
         /\ \A v \in Workers : \A a : ~Dates(tasks[v], a)
         /\ \A a \in Addons : Clash(a, tasks[w].addon) /\ Exists(rows[a]) =>
              Yields(rows[a], a, stripe[tasks[w].session], tasks[w].session, now)
<1>1. /\ TaskBacked(tasks[w], stripe) /\ TaskFits(tasks[w], stripe, rows, events, now)
  BY BillTypes DEF BillInv, TasksFit
<1>2. /\ tasks[w].session \in Subs /\ tasks[w].sub \in Subs
      /\ stripe[tasks[w].session].addon = tasks[w].addon
      /\ stripe[tasks[w].session].status \notin {"unused", "offered"}
      /\ RecordFits(tasks[w], stripe, rows, now)
  BY <1>1 DEF TaskBacked, TaskFits, PaidIn
<1>3. Open(stripe, events, tasks, tasks[w].session)
  BY DEF Open, Unrecorded, Records
<1>4. \A v \in Workers : \A a : ~Dates(tasks[v], a)
  <2>1. \A v \in Workers : v # w => tasks[v] = Idle \/ tasks[v].kind = "record"
    BY OthersRecord DEF Records
  <2>2. QED
    BY <2>1, IdleFits DEF Dates
<1>5. \A a \in Addons : Clash(a, tasks[w].addon) /\ Exists(rows[a]) =>
        Yields(rows[a], a, stripe[tasks[w].session], tasks[w].session, now)
  BY <1>2, <1>3 DEF BillInv, RowsFit, MakesWay
<1>6. QED
  BY <1>2, <1>3, <1>4, <1>5

(* What a checkout replaces goes: it has been stopped, or runs out.           *)
LEMMA ClearBills ==
  ASSUME IInv, IInv', BillInv, NEW w \in Workers, DeleteReplaced(w)
  PROVE  BillInv' /\ LetsGo
<1> DEFINE task == tasks[w]
           s == task.session
           replaced == stripe[s].replaces \ {task.addon}
           t == [task EXCEPT !.pc = "upsert"]
<1>1. /\ task.pc = "clear" /\ UNCHANGED <<now, stripe, events>>
      /\ task \in Task /\ task.addon \in Addons /\ task.kind = "record"
      /\ \A a \in Addons : rows'[a] = IF a \in replaced THEN NoRow ELSE rows[a]
  BY BillTypes DEF DeleteReplaced, TaskBacked
<1>2. tasks' = [tasks EXCEPT ![w] = t]
  BY DEF DeleteReplaced, Advance, IInv, TypeOK
<1>3. /\ t.kind = "record" /\ t.session = s /\ t.sub = task.sub /\ t.addon = task.addon
      /\ t.pc = "upsert"
  BY <1>1 DEF Task
<1> HIDE DEF t
<1>4. /\ s \in Subs /\ stripe[s].addon = task.addon /\ RecordFits(task, stripe, rows, now)
      /\ stripe[s].status # "unused"
      /\ \A v \in Workers : \A a : ~Dates(tasks[v], a)
      /\ \A a \in Addons : Clash(a, task.addon) /\ Exists(rows[a]) =>
           Yields(rows[a], a, stripe[s], s, now)
  BY <1>1, RecordFinds
<1>5. /\ stripe[s].kind # "package" /\ task.sub = s
      /\ \A u \in stripe[s].stops : stripe[u].status = "canceled"
  BY <1>1, <1>4 DEF RecordFits, StepFits, StopsFit
<1>6. \A a \in stripe[s].replaces : a \in Addons /\ Clash(a, task.addon)
  BY <1>4, BillTypes DEF BillInv, Checkouts, OffersFit
<1>7. /\ ~Exists(NoRow) /\ NoRow.sub = NoSub /\ task.addon \notin replaced
      /\ \A a \in Addons : Exists(rows'[a]) => rows'[a] = rows[a] /\ a \notin replaced
      /\ \A a \in Addons : a \notin replaced => rows'[a] = rows[a]
  BY <1>1, NoRowTyped DEF NoRow
<1>8. ASSUME NEW a \in replaced, Exists(rows[a]), stripe[rows[a].sub].status = "active"
      PROVE  RunsOut(stripe[rows[a].sub], now)
  <2>1. Ended(rows[a], now)
    BY <1>4, <1>5, <1>6, <1>8 DEF Yields
  <2>2. QED
    BY <1>4, <1>6, <1>8, <2>1, RowDates DEF Ended, RunsOut
<1>9. \A v \in Workers : tasks[v] # Idle =>
        /\ Records(tasks[v], s) /\ tasks[v].sub = s /\ tasks[v].addon = task.addon
        /\ Runs(stripe[s], now) /\ RecordFits(tasks[v], stripe, rows, now)
  BY <1>1, <1>4, <1>5, RecordersFit
<1>10. RowsLinked(rows', stripe, events)
  BY <1>1, <1>7 DEF BillInv, RowsFit, RowsLinked, Linked
<1>11. DatesAgree(rows', stripe, tasks') /\ CyclesAgree(rows', stripe)
  <2>1. ASSUME NEW a \in Addons, Exists(rows'[a]), stripe[rows'[a].sub].status = "active"
        PROVE  /\ stripe[rows'[a].sub].renews <=> rows'[a].endsAt = NoDate
               /\ rows'[a].endsAt # NoDate => rows'[a].endsAt = stripe[rows'[a].sub].end
    BY <1>4, <1>7, <2>1, RowDates
  <2>2. CyclesAgree(rows', stripe)
    BY <1>7 DEF BillInv, RowsFit, CyclesAgree
  <2>3. QED
    BY <2>1, <2>2 DEF DatesAgree
<1>12. Apart(rows', now)
  BY <1>7 DEF BillInv, RowsFit, Apart, Addons
<1>13. MakesWay(rows', stripe, events, tasks, now)
  BY <1>7 DEF BillInv, RowsFit, MakesWay
<1>14. AllHeld(rows', stripe, events, tasks', now)
  <2>1. ASSUME NEW u \in Subs, stripe[u].status = "active"
        PROVE  Held(u, rows', stripe, events, tasks', now)
    <3> DEFINE a == stripe[u].addon
    <3>1. Held(u, rows, stripe, events, tasks, now) /\ a \in Addons
      BY <2>1, BillTypes DEF BillInv, RowsFit, AllHeld
    <3>2. CASE rows[a].sub = u
      <4>1. Exists(rows[a])
        BY <3>1, <3>2, PlacementsAssumption DEF BillInv, RowsFit, RowsLinked, Linked
      <4>2. a \in replaced => RunsOut(stripe[u], now)
        BY <1>8, <2>1, <3>2, <4>1
      <4>3. a \notin replaced => rows'[a].sub = u
        BY <1>7, <3>1, <3>2
      <4>4. QED
        BY <4>2, <4>3 DEF Held
    <3>3. ASSUME NEW v \in Workers, Tends(tasks[v], u)
          PROVE  \E x \in Workers : Tends(tasks'[x], u)
      <4>1. CASE v = w
        <5>1. tasks'[w] = t /\ Tends(t, u)
          BY <1>2, <1>3, <3>3, <4>1 DEF IInv, TypeOK, Tends
        <5>2. QED
          BY <5>1
      <4>2. CASE v # w
        BY <1>2, <3>3, <4>2 DEF IInv, TypeOK
      <4>3. QED
        BY <4>1, <4>2
    <3>4. QED
      BY <3>1, <3>2, <3>3 DEF Held
  <2>2. QED
    BY <2>1 DEF AllHeld
<1>15. TaskFits(t, stripe, rows', events, now)
  <2>1. Runs(stripe[s], now)
    BY <1>1, <1>9, IdleFits
  <2>2. \A a \in stripe[s].replaces : a # task.addon => ~Exists(rows'[a])
    BY <1>6, <1>7
  <2>3. RecordFits(t, stripe, rows', now)
    BY <1>3, <1>4, <1>5, <2>1, <2>2 DEF RecordFits, StepFits, StopsFit, WritesFit
  <2>4. QED
    BY <1>3, <2>3 DEF TaskFits
<1>16. ASSUME NEW v \in Workers, tasks[v] # Idle
       PROVE  TaskFits(tasks[v], stripe, rows', events, now)
  <2>1. /\ tasks[v].kind = "record" /\ tasks[v].session = s /\ tasks[v].addon = task.addon
        /\ RecordFits(tasks[v], stripe, rows, now)
        /\ TaskFits(tasks[v], stripe, rows, events, now)
    BY <1>9, <1>16 DEF Records, BillInv, TasksFit
  <2>2. \A a \in stripe[s].replaces : a \in Addons
    BY <1>6
  <2>3. RecordFits(tasks[v], stripe, rows', now)
    BY <1>1, <1>5, <1>7, <2>1, <2>2 DEF RecordFits, StepFits, StopsFit, WritesFit
  <2>4. ASSUME tasks[v].pc = "flags" PROVE tasks[v].flags = Summary(rows', now)
    <3>1. \A a \in replaced : ~Exists(rows[a])
      BY <2>1, <2>4 DEF RecordFits, WritesFit
    <3>2. \A a \in Addons : Lasts(rows'[a], now) <=> Lasts(rows[a], now)
      BY <1>7, <3>1 DEF Lasts
    <3>3. Lasting(rows', now) = Lasting(rows, now)
      BY <3>2 DEF Lasting
    <3>4. QED
      BY <2>1, <2>4, <3>3 DEF TaskFits, Summary
  <2>5. tasks[v].pc \notin {"stripe", "save", "decide", "settle", "compare"}
    BY <2>3 DEF RecordFits, StepFits
  <2>6. QED
    BY <2>1, <2>3, <2>4, <2>5 DEF TaskFits
<1>17. LetsGo
  BY <1>7, <1>8 DEF LetsGo, RunsOut, Active, Due
<1>18. QED
  BY <1>1, <1>2, <1>3, <1>10, <1>11, <1>12, <1>13, <1>14, <1>15, <1>16, <1>17, RecordWrites
     DEF Records, Syncs

(* The placement bought is on a row of its own, in the place of what it       *)
(* replaced; a subscription that was there is over, or runs out.              *)
LEMMA UpsertBills ==
  ASSUME IInv, IInv', BillInv, NEW w \in Workers, Upsert(w) PROVE BillInv' /\ LetsGo
<1> DEFINE task == tasks[w]
           s == task.session
           a == task.addon
           old == rows[a]
           t == [task EXCEPT !.pc = "sync"]
<1>1. /\ task.pc = "upsert" /\ UNCHANGED <<now, stripe, events>>
      /\ task \in Task /\ a \in Addons /\ task.kind = "record"
      /\ old \in Row /\ task.end \in Nat
  BY BillTypes, TaskFacts DEF Upsert, TaskBacked
<1>2. PICK id \in RowIds : rows' = [rows EXCEPT ![a] = Bought(old, task, id)]
  BY <1>1 DEF Upsert, Exists, Row
<1> DEFINE row == Bought(old, task, id)
<1>3. tasks' = [tasks EXCEPT ![w] = t]
  BY DEF Upsert, Advance, IInv, TypeOK
<1>4. /\ t.kind = "record" /\ t.session = s /\ t.sub = task.sub /\ t.addon = a
      /\ t.pc = "sync"
  BY <1>1 DEF Task
<1> HIDE DEF t
<1>5. /\ s \in Subs /\ task.sub \in Subs /\ stripe[s].addon = a
      /\ RecordFits(task, stripe, rows, now)
      /\ stripe[s].status # "unused" /\ Open(stripe, events, tasks, s)
      /\ \A v \in Workers : \A b : ~Dates(tasks[v], b)
      /\ \A b \in Addons : Clash(b, a) /\ Exists(rows[b]) =>
           Yields(rows[b], b, stripe[s], s, now)
  BY <1>1, RecordFinds
<1>6. /\ Runs(stripe[task.sub], now) /\ stripe[task.sub].addon = a
      /\ \A b \in stripe[s].replaces : b # a => ~Exists(rows[b])
      /\ stripe[s].kind = "package" => ~Exists(old)
      /\ stripe[s].kind # "package" =>
           task.sub = s /\ \A u \in stripe[s].stops : stripe[u].status = "canceled"
  BY <1>1, <1>5 DEF RecordFits, StepFits, StopsFit, WritesFit
<1>7. /\ Exists(row) /\ row.sub = task.sub /\ row.cycle = stripe[task.sub].cycle
      /\ row.endsAt = NoDate /\ row.pending = NoCycle /\ row.changeAt = NoDate
  <2> DEFINE cycle == stripe[task.sub].cycle
             sub == task.sub
             end == task.end
  <2>1. row = [NoRow EXCEPT !.id = id, !.sub = sub, !.cycle = cycle, !.end = end]
    BY DEF Bought
  <2> HIDE DEF cycle, sub, end, row
  <2>2. /\ row.id = id /\ row.sub = sub /\ row.cycle = cycle
        /\ row.endsAt = NoDate /\ row.pending = NoCycle /\ row.changeAt = NoDate
    BY <2>1 DEF NoRow
  <2>3. QED
    BY <2>2, PlacementsAssumption DEF Exists, cycle, sub
<1>8. rows'[a] = row /\ \A b \in Addons : b # a => rows'[b] = rows[b]
  BY <1>1, <1>2 DEF IInv, TypeOK
<1> HIDE DEF row
<1>9. ASSUME Exists(old), stripe[old.sub].status = "active", old.sub # task.sub
      PROVE  RunsOut(stripe[old.sub], now)
  <2>1. stripe[s].kind # "package" /\ Clash(a, a)
    BY <1>6, <1>9 DEF Clash
  <2>2. Ended(old, now)
    BY <1>1, <1>5, <1>6, <1>9, <2>1 DEF Yields
  <2>3. QED
    BY <1>1, <1>5, <1>9, <2>2, RowDates DEF Ended, RunsOut
<1>10. RowsLinked(rows', stripe, events)
  <2>1. Linked(row, a, stripe, events)
    BY <1>6, <1>7 DEF Linked, WasBilled, Runs
  <2>2. QED
    BY <1>8, <2>1 DEF BillInv, RowsFit, RowsLinked
<1>11. DatesAgree(rows', stripe, tasks') /\ CyclesAgree(rows', stripe)
  <2>1. ASSUME NEW b \in Addons, Exists(rows'[b]), stripe[rows'[b].sub].status = "active"
        PROVE  /\ stripe[rows'[b].sub].renews <=> rows'[b].endsAt = NoDate
               /\ rows'[b].endsAt # NoDate => rows'[b].endsAt = stripe[rows'[b].sub].end
    <3>1. CASE b = a
      BY <1>6, <1>7, <1>8, <3>1 DEF Runs
    <3>2. CASE b # a
      <4>1. rows'[b] = rows[b] /\ \A v \in Workers : ~Dates(tasks[v], b)
        BY <1>5, <1>8, <3>2
      <4>2. QED
        BY <2>1, <4>1, RowDates
    <3>3. QED
      BY <3>1, <3>2
  <2>2. CyclesAgree(rows', stripe)
    BY <1>7, <1>8 DEF BillInv, RowsFit, CyclesAgree
  <2>3. QED
    BY <2>1, <2>2 DEF DatesAgree
<1>12. Apart(rows', now)
  <2>1. ASSUME NEW b \in Addons, b # a, Clash(b, a), Exists(rows[b]) PROVE Ended(rows[b], now)
    <3>1. Yields(rows[b], b, stripe[s], s, now)
      BY <1>5, <2>1
    <3>2. QED
      BY <1>5, <1>6, <2>1, <3>1 DEF Yields
  <2>2. ASSUME NEW b \in Singles, Exists(rows'[b]), Exists(rows'[Bundle])
        PROVE  Ended(rows'[b], now) \/ Ended(rows'[Bundle], now)
    <3>1. b \in Addons /\ Bundle \in Addons /\ b # Bundle
      BY PlacementsAssumption DEF Addons
    <3>2. CASE a = b
      <4>1. rows'[Bundle] = rows[Bundle]
        BY <1>8, <3>1, <3>2
      <4>2. QED
        BY <2>1, <2>2, <3>1, <3>2, <4>1 DEF Clash
    <3>3. CASE a = Bundle
      <4>1. rows'[b] = rows[b]
        BY <1>8, <3>1, <3>3
      <4>2. QED
        BY <2>1, <2>2, <3>1, <3>3, <4>1 DEF Clash
    <3>4. CASE a \notin {b, Bundle}
      <4>1. rows'[b] = rows[b] /\ rows'[Bundle] = rows[Bundle]
        BY <1>8, <3>1, <3>4
      <4>2. Apart(rows, now)
        BY DEF BillInv, RowsFit
      <4>3. QED
        BY <2>2, <4>1, <4>2 DEF Apart
    <3>5. QED
      BY <3>2, <3>3, <3>4
  <2>3. QED
    BY <2>2 DEF Apart
<1>13. MakesWay(rows', stripe, events, tasks, now)
  <2>1. ASSUME NEW u \in Subs, NEW b \in Addons, Open(stripe, events, tasks, u),
               Clash(b, stripe[u].addon), Exists(rows'[b])
        PROVE  Yields(rows'[b], b, stripe[u], u, now)
    <3>1. CASE b # a
      BY <1>8, <2>1, <3>1 DEF BillInv, RowsFit, MakesWay
    <3>2. CASE b = a
      <4>1. u = s
        BY <1>5, <2>1 DEF BillInv, Checkouts, OneOpen
      <4>2. QED
        BY <1>5, <1>6, <1>7, <1>8, <3>2, <4>1 DEF Yields
    <3>3. QED
      BY <3>1, <3>2
  <2>2. QED
    BY <2>1 DEF MakesWay
<1>14. AllHeld(rows', stripe, events, tasks', now)
  <2>1. ASSUME NEW u \in Subs, stripe[u].status = "active"
        PROVE  Held(u, rows', stripe, events, tasks', now)
    <3> DEFINE b == stripe[u].addon
    <3>1. Held(u, rows, stripe, events, tasks, now) /\ b \in Addons
      BY <2>1, BillTypes DEF BillInv, RowsFit, AllHeld
    <3>2. CASE u = task.sub
      BY <1>6, <1>7, <1>8, <3>2 DEF Held
    <3>3. CASE u # task.sub /\ rows[b].sub = u
      <4>1. Exists(rows[b])
        BY <3>1, <3>3, PlacementsAssumption DEF BillInv, RowsFit, RowsLinked, Linked
      <4>2. b = a => RunsOut(stripe[u], now)
        BY <1>9, <2>1, <3>3, <4>1
      <4>3. b # a => rows'[b].sub = u
        BY <1>8, <3>1, <3>3
      <4>4. QED
        BY <4>2, <4>3 DEF Held
    <3>4. ASSUME u # task.sub, NEW v \in Workers, Tends(tasks[v], u)
          PROVE  \E x \in Workers : Tends(tasks'[x], u)
      <4>1. v # w
        BY <3>4 DEF Tends
      <4>2. tasks'[v] = tasks[v]
        BY <1>3, <4>1 DEF IInv, TypeOK
      <4>3. QED
        BY <3>4, <4>2
    <3>5. QED
      BY <3>1, <3>2, <3>3, <3>4 DEF Held
  <2>2. QED
    BY <2>1 DEF AllHeld
<1>15. \A b \in stripe[s].replaces : b # a => ~Exists(rows'[b])
  BY <1>5, <1>6, <1>8, BillTypes
<1>16. TaskFits(t, stripe, rows', events, now)
  <2>1. RecordFits(t, stripe, rows', now)
    BY <1>1, <1>4, <1>5, <1>6, <1>7, <1>8, <1>15 DEF RecordFits, StepFits, StopsFit, WritesFit
  <2>2. QED
    BY <1>4, <2>1 DEF TaskFits
<1>17. ASSUME NEW v \in Workers, v # w, tasks[v] # Idle
       PROVE  TaskFits(tasks[v], stripe, rows', events, now)
  <2>1. stripe[s].kind # "package"
    BY <1>1, <1>17, OthersRecord
  <2>2. /\ tasks[v].kind = "record" /\ tasks[v].session = s /\ tasks[v].addon = a
        /\ tasks[v].sub = s /\ task.sub = s
        /\ RecordFits(tasks[v], stripe, rows, now)
        /\ TaskFits(tasks[v], stripe, rows, events, now)
    BY <1>1, <1>5, <1>6, <1>17, <2>1, RecordersFit DEF Records, BillInv, TasksFit
  <2>3. RecordFits(tasks[v], stripe, rows', now)
    BY <1>6, <1>7, <1>8, <1>15, <2>1, <2>2 DEF RecordFits, StepFits, StopsFit, WritesFit
  <2>4. ASSUME tasks[v].pc = "flags" PROVE tasks[v].flags = Summary(rows', now)
    <3>1. Lasts(rows[a], now) /\ Lasts(rows'[a], now)
      BY <1>7, <1>8, <2>2, <2>4 DEF RecordFits, WritesFit, Lasts, Ended
    <3>2. \A b \in Addons : Lasts(rows'[b], now) <=> Lasts(rows[b], now)
      BY <1>8, <3>1
    <3>3. Lasting(rows', now) = Lasting(rows, now)
      BY <3>2 DEF Lasting
    <3>4. QED
      BY <2>2, <2>4, <3>3 DEF TaskFits, Summary
  <2>5. tasks[v].pc \notin {"stripe", "save", "decide", "settle", "compare"}
    BY <2>1, <2>2, <2>3 DEF RecordFits, StepFits
  <2>6. QED
    BY <2>2, <2>3, <2>4, <2>5 DEF TaskFits
<1>18. LetsGo
  BY <1>7, <1>8, <1>9 DEF LetsGo, RunsOut, Active, Due
<1>19. QED
  BY <1>1, <1>3, <1>4, <1>10, <1>11, <1>12, <1>13, <1>14, <1>16, <1>17, <1>18, RecordWrites
     DEF Records, Syncs
--------------------------------------------------------------------------------
(* What the webhook does, and the whole.                                      *)

(* A period that was charged is written on the row.                           *)
LEMMA RenewalBills ==
  ASSUME Undisturbed, IInv, IInv', BillInv, NEW w \in Workers, NEW i \in DOMAIN events,
         RecordListingRenewal(w, i), events' = RemoveAt(events, i) \/ UNCHANGED events,
         UNCHANGED <<now, stripe, flags>>
  PROVE  BillInv' /\ LetsGo
<1>1. /\ \A v \in Workers : tasks[v] = Idle
      /\ tasks' = [tasks EXCEPT ![w] = Idle] /\ tasks' = tasks
  BY StartsAlone DEF RecordListingRenewal, IInv, TypeOK
<1>2. /\ \A u : OnTheWay(events', u) <=> OnTheWay(events, u)
      /\ \A u : EndTold(events', u) <=> EndTold(events, u)
  BY BillTypes, ToldLess DEF RecordListingRenewal
<1>3. \A a \in Addons :
        /\ rows'[a].id = rows[a].id /\ rows'[a].sub = rows[a].sub
        /\ rows'[a].cycle = rows[a].cycle /\ rows'[a].endsAt = rows[a].endsAt
        /\ rows'[a].pending = rows[a].pending /\ rows'[a].changeAt = rows[a].changeAt
  <2> SUFFICES ASSUME NEW a \in Addons
               PROVE  /\ rows'[a].id = rows[a].id /\ rows'[a].sub = rows[a].sub
                      /\ rows'[a].cycle = rows[a].cycle /\ rows'[a].endsAt = rows[a].endsAt
                      /\ rows'[a].pending = rows[a].pending
                      /\ rows'[a].changeAt = rows[a].changeAt
    OBVIOUS
  <2> DEFINE end == events[i].end
  <2>1. rows[a] \in Row /\ (rows'[a] = [rows[a] EXCEPT !.end = end] \/ rows'[a] = rows[a])
    BY BillTypes DEF RecordListingRenewal
  <2> HIDE DEF end
  <2>2. QED
    BY <2>1 DEF Row
<1>4. \A a \in Addons : /\ Exists(rows'[a]) <=> Exists(rows[a])
                        /\ Ended(rows'[a], now) <=> Ended(rows[a], now)
  BY <1>3 DEF Exists, Ended
<1>5. \A a \in Addons : Follows(rows[a], rows'[a], stripe, now)
  BY <1>3, <1>4 DEF Follows, BillInv, RowsFit, RowsLinked, Linked
<1>6. DatesAgree(rows', stripe, tasks') /\ CyclesAgree(rows', stripe)
  BY <1>1, <1>3, <1>4 DEF BillInv, RowsFit, DatesAgree, CyclesAgree
<1>7. FlagsFit(flags, rows', tasks', now)
  <2>1. flags.addons \subseteq Addons /\ \A v \in Workers : ~Syncs(tasks[v])
    BY <1>1, IdleFits DEF IInv, TypeOK, Flags
  <2>2. Says(flags, rows, now) => Says(flags, rows', now)
    BY <1>4, <2>1, SaysStill
  <2>3. QED
    BY <2>1, <2>2 DEF BillInv, FlagsFit
<1>8. QED
  BY <1>1, <1>2, <1>5, <1>6, <1>7, IdleFits, RowsChange

(* A subscription has ended, and its row goes.                                *)
LEMMA EndedBills ==
  ASSUME Undisturbed, IInv, IInv', BillInv, NEW w \in Workers, NEW i \in DOMAIN events,
         EndPlacementsFromStripe(w, i), events' = RemoveAt(events, i) \/ UNCHANGED events,
         UNCHANGED <<now, stripe, flags>>
  PROVE  BillInv' /\ LetsGo
<1> DEFINE s == events[i].sub
           ended == {a \in Addons : Exists(rows[a]) /\ rows[a].sub = s}
           task == [Idle EXCEPT !.kind = "ended", !.session = s, !.pc = "sync", !.hook = TRUE]
<1>1. /\ events[i].type = "deleted" /\ s \in Subs
      /\ \A v \in Workers : tasks[v] = Idle
      /\ \A a \in Addons : rows'[a] = IF a \in ended THEN NoRow ELSE rows[a]
  BY BillTypes, EventsTyped, StartsAlone DEF EndPlacementsFromStripe
<1>2. stripe[s].status = "canceled"
  BY <1>1 DEF BillInv, Checkouts, EndsTrue, EndTold
<1>3. /\ task.kind = "ended" /\ task.pc = "sync"
  BY DEF Idle
<1>4. PICK t \in {Idle, task} : /\ tasks' = [tasks EXCEPT ![w] = t]
                                /\ t = Idle => ended = {}
  <2>1. CASE ended = {}
    <3>1. tasks' = [tasks EXCEPT ![w] = Idle]
      BY <1>1, <2>1 DEF EndPlacementsFromStripe, IInv, TypeOK
    <3>2. QED
      BY <2>1, <3>1
  <2>2. CASE ended # {}
    <3>1. tasks' = [tasks EXCEPT ![w] = task] /\ task # Idle
      BY <1>3, <2>2, IdleFits DEF EndPlacementsFromStripe, Begin
    <3> HIDE DEF task
    <3>2. QED
      BY <3>1
  <2>3. QED
    BY <2>1, <2>2
<1> HIDE DEF task
<1>5. /\ \A u : OnTheWay(events', u) <=> OnTheWay(events, u)
      /\ \A u : EndTold(events', u) => EndTold(events, u)
      /\ \A u : u # s /\ EndTold(events, u) => EndTold(events', u)
  BY <1>1, BillTypes, ToldLess
<1>6. /\ ~Exists(NoRow) /\ NoRow.sub = NoSub
      /\ \A a \in Addons : Exists(rows'[a]) => rows'[a] = rows[a] /\ rows[a].sub # s
  BY <1>1, NoRowTyped DEF NoRow
<1>7. \A a \in Addons : Follows(rows[a], rows'[a], stripe, now)
  <2>1. \A a \in Addons : a \notin ended => Follows(rows[a], rows[a], stripe, now)
    BY DEF Follows, BillInv, RowsFit, RowsLinked, Linked
  <2>2. \A a \in ended : Follows(rows[a], NoRow, stripe, now)
    BY <1>2, <1>6 DEF Follows
  <2>3. QED
    BY <1>1, <2>1, <2>2
<1>8. DatesAgree(rows', stripe, tasks') /\ CyclesAgree(rows', stripe)
  <2>1. \A v \in Workers : \A a : ~Dates(tasks[v], a)
    BY <1>1, IdleFits
  <2>2. QED
    BY <1>6, <2>1 DEF BillInv, RowsFit, DatesAgree, CyclesAgree
<1>9. FlagsFit(flags, rows', tasks', now)
  <2>1. CASE t = task
    <3>1. Syncs(tasks'[w])
      BY <1>3, <1>4, <2>1 DEF Syncs, IInv, TypeOK
    <3>2. QED
      BY <3>1 DEF FlagsFit
  <2>2. CASE t = Idle
    <3>1. flags.addons \subseteq Addons /\ \A v \in Workers : ~Syncs(tasks[v])
      BY <1>1, IdleFits DEF IInv, TypeOK, Flags
    <3>2. \A a \in Addons : rows'[a] = rows[a]
      BY <1>1, <1>4, <2>2
    <3>3. Says(flags, rows, now) => Says(flags, rows', now)
      BY <3>1, <3>2, SaysStill
    <3>4. QED
      BY <3>1, <3>3 DEF BillInv, FlagsFit
  <2>3. QED
    BY <1>4, <2>1, <2>2
<1>10. t.kind # "record" /\ tasks[w].kind # "record" /\ TaskFits(t, stripe, rows', events', now)
  BY <1>1, <1>3, <1>4, IdleFits DEF TaskFits
<1>11. QED
  BY <1>1, <1>4, <1>5, <1>6, <1>7, <1>8, <1>9, <1>10, RowsChange

(* The webhook accepts an event.                                              *)
LEMMA DeliverBills ==
  ASSUME Undisturbed, IInv, IInv', BillInv, NEW w \in Workers, NEW i \in DOMAIN events,
         Deliver(w, i)
  PROVE  BillInv' /\ LetsGo
<1>1. /\ events' = RemoveAt(events, i) \/ UNCHANGED events
      /\ UNCHANGED <<now, stripe, flags>>
  BY DEF Deliver, Accept
<1>2. CASE HandleCheckoutCompleted(w, i)
  <2> DEFINE s == events[i].sub
  <2>1. /\ events[i].type = "checkout" /\ s \in Subs /\ CanRecord(w, s) /\ UNCHANGED rows
        /\ tasks' = [tasks EXCEPT ![w] = Recording(s, TRUE)]
    BY <1>2, BillTypes, EventsTyped DEF HandleCheckoutCompleted, Begin
  <2>2. PaidIn(stripe, s) /\ Unrecorded(events, tasks, s)
    BY <2>1 DEF IInv, EventsBacked, EventBacked, Unrecorded, OnTheWay
  <2>3. /\ \A u : OnTheWay(events', u) => OnTheWay(events, u)
        /\ \A u : EndTold(events', u) <=> EndTold(events, u)
        /\ \A u : u # s /\ OnTheWay(events, u) => OnTheWay(events', u)
    BY <1>1, <2>1, BillTypes, ToldLess
  <2> HIDE DEF s
  <2>4. BillInv'
    BY <1>1, <2>1, <2>2, <2>3, RecordingBills
  <2>5. QED
    BY <2>1, <2>4 DEF LetsGo
<1>3. CASE RecordListingRenewal(w, i)
  BY <1>1, <1>3, RenewalBills
<1>4. CASE EndPlacementsFromStripe(w, i)
  BY <1>1, <1>4, EndedBills
<1>5. QED
  BY <1>2, <1>3, <1>4 DEF Deliver

(* A step of a handler keeps the agreement.                                   *)
LEMMA HandlerBills ==
  ASSUME Undisturbed, IInv, IInv', PaidUpToADay, BillInv, NEW w \in Workers, Step(w)
  PROVE  BillInv' /\ LetsGo
<1>1. CASE SettleDue(w) \/ Save(w) \/ DeleteReplaced(w) \/ Upsert(w)
  BY <1>1, SettleBills, SaveBills, ClearBills, UpsertBills
<1>2. CASE \/ Sync(w) \/ WriteFlags(w) \/ HealFlags(w) \/ Compare(w)
           \/ Decide(w) \/ CallStripe(w) \/ Fetch(w) \/ StopReplaced(w)
           \/ CheckHeld(w) \/ StartDeferredAddon(w)
  <2>1. BillInv'
    BY <1>2, SummaryBills, DecideBills, CallBills, FetchBills, StopBills, CheckBills, CreateBills
  <2>2. UNCHANGED rows
    BY <1>2 DEF Sync, WriteFlags, HealFlags, Compare, Decide, CallStripe, Fetch, StopReplaced,
                CheckHeld, StartDeferredAddon
  <2>3. QED
    BY <2>1, <2>2 DEF LetsGo
<1>3. QED
  BY <1>1, <1>2 DEF Step

(* Nothing has been bought, and nothing differs.                              *)
LEMMA InitBills == Init => PaidUpToADay /\ BillInv
<1> SUFFICES ASSUME Init PROVE PaidUpToADay /\ BillInv
  OBVIOUS
<1>1. /\ now = 1 /\ events = <<>> /\ flags = NoFlags
      /\ \A s \in Subs : stripe[s].status = "unused"
      /\ \A w \in Workers : tasks[w] = Idle
      /\ \A a \in Addons : ~Exists(rows[a]) /\ rows[a].sub = NoSub
  BY DEF Init, Unused, NoRows, NoRow, Exists
<1>2. \A u : ~OnTheWay(events, u) /\ ~EndTold(events, u)
  BY <1>1 DEF OnTheWay, EndTold
<1>3. \A u \in Subs : ~Unrecorded(events, tasks, u) /\ ~Open(stripe, events, tasks, u)
  BY <1>1, <1>2, IdleFits DEF Open, Unrecorded
<1>4. Checkouts
  BY <1>1, <1>2, <1>3 DEF Checkouts, Alone, OneOpen, EndsTrue, OffersFit, Fresh
<1>5. RowsFit
  BY <1>1, <1>3, PlacementsAssumption
     DEF RowsFit, RowsLinked, Linked, DatesAgree, CyclesAgree, Apart, MakesWay, AllHeld, Addons
<1>6. TasksFit(tasks, stripe, rows, events, now)
  BY <1>1, IdleFits DEF TasksFit
<1>7. FlagsFit(flags, rows, tasks, now)
  BY <1>1 DEF FlagsFit, Says, NoFlags, Lasting, Lasts
<1>8. QED
  BY <1>1, <1>4, <1>5, <1>6, <1>7 DEF BillInv, PaidUpToADay

(* Every step keeps the agreement, and lets go of nothing that goes on.       *)
LEMMA NextBills ==
  ASSUME Undisturbed, IInv, PaidUpToADay, BillInv, [Next]_vars
  PROVE  IInv' /\ PaidUpToADay' /\ BillInv' /\ LetsGo
<1>1. IInv' /\ PaidUpToADay'
  BY NextBacked, DaysKept
<1>2. CASE UNCHANGED <<now, stripe, events, rows, tasks>> /\ FlagsFit(flags', rows, tasks, now)
  <2>1. Checkouts' /\ RowsFit'
    BY <1>2 DEF BillInv, Checkouts, RowsFit
  <2>2. QED
    BY <1>1, <1>2, <2>1 DEF BillInv, LetsGo
<1>3. CASE Stripe
  <2>1. UNCHANGED rows
    BY <1>3 DEF Stripe, Tick, Pay, Renew, Lapse, GiveUp, Unhurried
  <2>2. QED
    BY <1>1, <1>3, <2>1, StripeKeepsBills DEF LetsGo
<1>4. CASE Seller
  <2>1. UNCHANGED rows
    BY <1>4 DEF Seller, Subscribe, Cancel, Reactivate, Asks, Spends, ForListing,
                SyncCheckoutSession, CreatePackageCheckout
  <2>2. QED
    BY <1>1, <1>4, <2>1, SellerKeepsBills DEF LetsGo
<1>5. CASE DeactivateListingPackage \/ MarkSold
  <2>1. UNCHANGED <<now, stripe, events, rows, tasks>>
    BY <1>5 DEF DeactivateListingPackage, MarkSold
  <2>2. FlagsFit(flags', rows, tasks, now)
    BY <1>5 DEF DeactivateListingPackage, MarkSold, FlagsFit
  <2>3. QED
    BY <1>2, <2>1, <2>2
<1>6. ASSUME NEW w \in Workers, Step(w) \/ Crash(w) PROVE BillInv' /\ LetsGo
  BY <1>1, <1>6, HandlerBills DEF Crash, Undisturbed
<1>7. ASSUME NEW w \in Workers, NEW i \in DOMAIN events, Deliver(w, i) PROVE BillInv' /\ LetsGo
  BY <1>1, <1>7, DeliverBills
<1>8. ~\E i \in DOMAIN events : Lose(i)
  BY DEF Lose, Undisturbed
<1>9. CASE UNCHANGED vars
  <2>1. FlagsFit(flags', rows, tasks, now)
    BY <1>9 DEF vars, BillInv
  <2>2. QED
    BY <1>2, <1>9, <2>1 DEF vars
<1>10. QED
  BY <1>1, <1>3, <1>4, <1>5, <1>6, <1>7, <1>8, <1>9 DEF Next

(* So the agreement is always there.                                          *)
LEMMA BillsAlways == ASSUME Undisturbed PROVE Spec => [](IInv /\ PaidUpToADay /\ BillInv)
<1>1. Init => IInv /\ PaidUpToADay /\ BillInv
  BY InitBacked, InitBills
<1>2. IInv /\ PaidUpToADay /\ BillInv /\ [Next]_vars => (IInv /\ PaidUpToADay /\ BillInv)'
  BY NextBills
<1>3. QED
  BY <1>1, <1>2, PTL DEF Spec

(* When nothing is in flight, what is on the listing is billed and lasts, and *)
(* what is billed is on the listing.                                          *)
LEMMA RowsAtRest ==
  ASSUME IInv, BillInv, Settled
  PROVE  /\ \A a \in Addons : Exists(rows[a]) =>
              /\ rows[a].sub \in Subs /\ Active(rows[a].sub) /\ stripe[rows[a].sub].addon = a
              /\ stripe[rows[a].sub].renews <=> rows[a].endsAt = NoDate
              /\ Lasts(rows[a], now)
         /\ \A s \in Subs : Active(s) <=> rows[stripe[s].addon].sub = s
<1>1. /\ \A v \in Workers : tasks[v] = Idle
      /\ \A v \in Workers : \A u : ~Dates(tasks[v], u) /\ ~Tends(tasks[v], u)
      /\ \A u : ~OnTheWay(events, u) /\ ~EndTold(events, u)
  BY IdleFits DEF Settled, OnTheWay, EndTold
<1>2. ASSUME NEW a \in Addons, Exists(rows[a])
      PROVE  /\ rows[a].sub \in Subs /\ Active(rows[a].sub) /\ stripe[rows[a].sub].addon = a
             /\ stripe[rows[a].sub].renews <=> rows[a].endsAt = NoDate
             /\ Lasts(rows[a], now)
  <2> DEFINE s == rows[a].sub
  <2>1. /\ s \in Subs /\ stripe[s].addon = a /\ stripe[s].status = "active"
    BY <1>1, <1>2, BillTypes DEF BillInv, RowsFit, RowsLinked, Linked, WasBilled
  <2>2. /\ stripe[s].renews <=> rows[a].endsAt = NoDate
        /\ rows[a].endsAt # NoDate => rows[a].endsAt = stripe[s].end
    BY <1>1, <1>2, <2>1, RowDates
  <2>3. ~(stripe[s].end <= now)
    BY <2>1 DEF Settled, Due, Active
  <2>4. QED
    BY <1>2, <2>1, <2>2, <2>3 DEF Active, Lasts, Ended
<1>3. ASSUME NEW s \in Subs, Active(s) PROVE rows[stripe[s].addon].sub = s
  <2>1. Held(s, rows, stripe, events, tasks, now)
    BY <1>3 DEF Active, BillInv, RowsFit, AllHeld
  <2>2. ~RunsOut(stripe[s], now)
    BY <1>3 DEF Settled, Due, RunsOut
  <2>3. QED
    BY <1>1, <2>1, <2>2 DEF Held
<1>4. ASSUME NEW s \in Subs, rows[stripe[s].addon].sub = s PROVE Active(s)
  <2>1. stripe[s].addon \in Addons
    BY BillTypes
  <2>2. Exists(rows[stripe[s].addon])
    BY <1>4, <2>1, PlacementsAssumption DEF BillInv, RowsFit, RowsLinked, Linked
  <2>3. QED
    BY <1>2, <1>4, <2>1, <2>2
<1>5. QED
  BY <1>2, <1>3, <1>4

(* The listing's summary says what its rows say, once handlers have ended,    *)
(* unless a package that ends or a sale has taken the pages off: listing      *)
(* addon.activate.ts's sync after every write leaves nothing behind.          *)
THEOREM SummaryIsTrue ==
  ASSUME Undisturbed, Requests \cap {"packageEnds", "sold"} = {}
  PROVE  Spec => []FlagsSayRows
<1>1. ASSUME IInv, BillInv PROVE FlagsSayRows
  <2> SUFFICES ASSUME Settled PROVE flags = Derived
    BY DEF FlagsSayRows
  <2>1. Says(flags, rows, now)
    BY <1>1, IdleFits DEF BillInv, FlagsFit, Settled
  <2>2. flags \in [addons : SUBSET Addons, pages : SUBSET Pages]
    BY <1>1 DEF IInv, TypeOK, Flags
  <2>3. \A a \in Addons : Exists(rows[a]) => Lasts(rows[a], now)
    BY <1>1, RowsAtRest
  <2>4. flags.addons = Lasting(rows, now)
    BY <2>1, <2>2, <2>3 DEF Says, Lasting
  <2>5. flags.pages = UNION {Grants(a) : a \in Lasting(rows, now)}
    BY <2>1, <2>4 DEF Says
  <2>6. flags = Summary(rows, now)
    BY <2>2, <2>4, <2>5 DEF Summary
  <2>7. QED
    BY <1>1, <2>6, SaidOfRows
<1>2. QED
  BY <1>1, BillsAlways, PTL

(* No page is billed twice, whatever is bought after what and however it is   *)
(* cancelled, renewed or given up: the upgrade stops what it replaces.        *)
THEOREM PagesBilledOnce == ASSUME Undisturbed PROVE Spec => []BilledOnce
<1>1. ASSUME IInv, BillInv PROVE BilledOnce
  <2> SUFFICES ASSUME Settled, NEW s \in Subs, NEW t \in Subs, Active(s), Active(t), s # t,
                      NEW p \in Grants(stripe[s].addon) \cap Grants(stripe[t].addon)
               PROVE  FALSE
    BY DEF BilledOnce
  <2> DEFINE a == stripe[s].addon
             b == stripe[t].addon
  <2>1. a \in Addons /\ b \in Addons /\ rows[a].sub = s /\ rows[b].sub = t
    BY <1>1, BillTypes, RowsAtRest
  <2>2. Exists(rows[a]) /\ Exists(rows[b])
    BY <1>1, <2>1, PlacementsAssumption DEF BillInv, RowsFit, RowsLinked, Linked
  <2>3. ~Ended(rows[a], now) /\ ~Ended(rows[b], now)
    BY <1>1, <2>1, <2>2, RowsAtRest DEF Lasts
  <2>4. a # b
    BY <2>1
  <2>5. \/ a = Bundle /\ b \in Singles
        \/ b = Bundle /\ a \in Singles
    BY <2>1, <2>4 DEF Grants, Addons
  <2>6. QED
    BY <1>1, <2>2, <2>3, <2>5 DEF BillInv, RowsFit, Apart
<1>2. QED
  BY <1>1, BillsAlways, PTL

(* What Stripe bills is a placement the listing has, and what the listing has *)
(* is billed, whether the webhook or the success page came first.             *)
THEOREM BilledAsHeld == ASSUME Undisturbed PROVE Spec => []BilledIsHeld
<1>1. ASSUME IInv, BillInv PROVE BilledIsHeld
  BY <1>1, RowsAtRest DEF BilledIsHeld
<1>2. QED
  BY <1>1, BillsAlways, PTL

(* A row says that its placement goes on, and on what cycle, exactly as       *)
(* Stripe will bill it, as long as no shorter cycle is asked for.             *)
THEOREM RenewalIsKnown ==
  ASSUME Undisturbed, "shorter" \notin Requests
  PROVE  Spec => []RenewalAgrees
<1>1. ASSUME IInv, BillInv PROVE RenewalAgrees
  <2>1. CyclesAgree(rows, stripe)
    BY <1>1 DEF BillInv, RowsFit
  <2>2. QED
    BY <1>1, <2>1, RowsAtRest DEF RenewalAgrees, CyclesAgree
<1>2. QED
  BY <1>1, BillsAlways, PTL

(* A row lets go of its subscription only when that is over or its paid       *)
(* period is, at every step of every handler and not only at rest.            *)
THEOREM NothingPaidIsLost == ASSUME Undisturbed PROVE Spec => LetsGoOfWhatIsOver
<1>1. IInv /\ PaidUpToADay /\ BillInv /\ [Next]_vars => [LetsGo]_vars
  BY NextBills
<1>2. Spec => [][LetsGo]_vars
  BY <1>1, BillsAlways, PTL DEF Spec
<1>3. QED
  BY <1>2 DEF LetsGoOfWhatIsOver, LetsGo
--------------------------------------------------------------------------------
(* The refinement: placements are sold as Purchase promises.  What Stripe     *)
(* bills must be backed by a payment, and a renewal the backend started by    *)
(* itself is none: the checkout of its placement is.                          *)
SaleInv == IInv /\ \A s \in Subs : Active(s) => BoughtIn(stripe, stripe[s].addon)

(* How a step may change one subscription.                                    *)
CheckoutOpens(s) ==
  /\ stripe[s].status = "unused"
  /\ stripe'[s].status = "offered" /\ stripe'[s].kind # "renewal"

PaymentBegins(s) ==
  /\ stripe[s].status = "offered" /\ stripe'[s].status \in {"active", "paid"}
  /\ stripe[s].kind # "renewal"
  /\ stripe'[s].kind = stripe[s].kind /\ stripe'[s].addon = stripe[s].addon

SaleEnds(s) ==
  /\ Active(s) /\ stripe[s].kind # "renewal"
  /\ stripe'[s].status = "canceled"
  /\ stripe'[s].kind = stripe[s].kind /\ stripe'[s].addon = stripe[s].addon

RenewalTurns(s) ==
  /\ stripe[s].status = "unused" \/ stripe[s].kind = "renewal"
  /\ stripe'[s].kind = "renewal" /\ stripe'[s].status \in {"active", "canceled"}
  /\ stripe'[s].status = "active" => BoughtIn(stripe, stripe'[s].addon)

PeriodChanges(s) ==
  /\ stripe'[s].status = stripe[s].status
  /\ stripe'[s].kind = stripe[s].kind /\ stripe'[s].addon = stripe[s].addon

OneMoves(s) ==
  /\ UNCHANGED <<rows, flags>>
  /\ \A t \in Subs : t # s => stripe'[t] = stripe[t]
  /\ \/ CheckoutOpens(s) \/ PaymentBegins(s) \/ SaleEnds(s)
     \/ RenewalTurns(s) \/ PeriodChanges(s)

(* Every step leaves Stripe as it was or moves one subscription.              *)
LEMMA StripeMoves ==
  ASSUME SaleInv, [Next]_vars
  PROVE  UNCHANGED stripe \/ \E s \in Subs : OneMoves(s)
<1>1. IInv /\ stripe \in [Subs -> Subscription] /\ \A s \in Subs : stripe[s] \in Subscription
  BY DEF SaleInv, IInv, TypeOK
<1>2. ASSUME NEW s \in Subs, NEW sub, stripe' = [stripe EXCEPT ![s] = sub]
      PROVE  stripe'[s] = sub /\ \A t \in Subs : t # s => stripe'[t] = stripe[t]
  BY <1>1, <1>2
<1>3. ASSUME NEW s \in Subs, Active(s), stripe' = [stripe EXCEPT ![s] = Stopped(stripe[s])],
             UNCHANGED <<rows, flags>>
      PROVE  OneMoves(s)
  <2>1. /\ Stopped(stripe[s]).status = "canceled" /\ Stopped(stripe[s]).kind = stripe[s].kind
        /\ Stopped(stripe[s]).addon = stripe[s].addon
    BY <1>1 DEF Stopped, Subscription
  <2>2. QED
    BY <1>2, <1>3, <2>1 DEF OneMoves, SaleEnds, RenewalTurns
<1>4. ASSUME NEW s \in Subs, NEW sub, stripe' = [stripe EXCEPT ![s] = sub],
             sub.status = stripe[s].status, sub.kind = stripe[s].kind,
             sub.addon = stripe[s].addon, UNCHANGED <<rows, flags>>
      PROVE  OneMoves(s)
  BY <1>2, <1>4 DEF OneMoves, PeriodChanges
<1>5. ASSUME NEW s \in Subs, Pay(s) PROVE OneMoves(s)
  <2> DEFINE end == now + stripe[s].cycle
             paid == [stripe[s] EXCEPT !.status = "paid"]
             started == [stripe[s] EXCEPT !.status = "active", !.renews = TRUE, !.end = end]
  <2>1. Started(stripe[s]) = started
    BY DEF Started
  <2> HIDE DEF end
  <2>2. /\ paid.status = "paid" /\ started.status = "active"
        /\ \A sub \in {paid, started} : sub.kind = stripe[s].kind /\ sub.addon = stripe[s].addon
    BY <1>1 DEF Subscription
  <2> HIDE DEF paid, started
  <2>3. PICK sub \in {paid, started} : stripe' = [stripe EXCEPT ![s] = sub]
    BY <1>5, <2>1 DEF Pay, Becomes, paid
  <2>4. UNCHANGED <<rows, flags>> /\ stripe[s].status = "offered" /\ stripe[s].kind # "renewal"
    BY <1>1, <1>5 DEF Pay, Unhurried, IInv, OffersSound
  <2>5. stripe'[s] = sub /\ \A t \in Subs : t # s => stripe'[t] = stripe[t]
    BY <1>2, <2>3
  <2>6. QED
    BY <2>2, <2>3, <2>4, <2>5 DEF OneMoves, PaymentBegins
<1>6. ASSUME NEW s \in Subs, Renew(s) PROVE OneMoves(s)
  <2> DEFINE end == stripe[s].end + stripe[s].cycle
             sub == [stripe[s] EXCEPT !.end = end]
  <2>1. stripe' = [stripe EXCEPT ![s] = sub] /\ UNCHANGED <<rows, flags>>
    BY <1>6 DEF Renew, Becomes, Unhurried
  <2> HIDE DEF end
  <2>2. sub.status = stripe[s].status /\ sub.kind = stripe[s].kind /\ sub.addon = stripe[s].addon
    BY <1>1 DEF Subscription
  <2> HIDE DEF sub
  <2>3. QED
    BY <1>4, <2>1, <2>2
<1>7. ASSUME NEW s \in Subs, Lapse(s) \/ GiveUp(s) PROVE OneMoves(s)
  BY <1>3, <1>7 DEF Lapse, GiveUp, Due, Becomes, Unhurried
<1>8. ASSUME NEW s \in Subs, NEW kind \in {"placement", "package"}, NEW a, NEW c, NEW replaces,
             Offer(s, kind, a, c, replaces), UNCHANGED <<rows, flags>>
      PROVE  OneMoves(s)
  <2> DEFINE stops == {rows[r].sub : r \in replaces}
             sub == [Unused EXCEPT !.kind = kind, !.status = "offered", !.addon = a, !.cycle = c,
                                   !.replaces = replaces, !.stops = stops]
  <2>1. stripe[s].status = "unused" /\ stripe' = [stripe EXCEPT ![s] = sub]
    BY <1>8 DEF Offer
  <2> HIDE DEF stops
  <2>2. sub.status = "offered" /\ sub.kind = kind
    BY DEF Unused
  <2> HIDE DEF sub
  <2>3. QED
    BY <1>2, <1>8, <2>1, <2>2 DEF OneMoves, CheckoutOpens
<1>9. ASSUME NEW w \in Workers, CallStripe(w)
      PROVE  UNCHANGED stripe \/ \E s \in Subs : OneMoves(s)
  <2> DEFINE task == tasks[w]
             s == task.read[task.addon].sub
             sub == [stripe[s] EXCEPT !.renews = (task.kind = "reactivate")]
  <2>1. s \in Subs
    BY <1>1, <1>9, TaskFacts DEF CallStripe, TaskBacked
  <2>2. UNCHANGED <<rows, flags>> /\ (UNCHANGED stripe \/ stripe' = [stripe EXCEPT ![s] = sub])
    BY <1>9 DEF CallStripe, Becomes
  <2>3. sub.status = stripe[s].status /\ sub.kind = stripe[s].kind /\ sub.addon = stripe[s].addon
    BY <1>1, <2>1 DEF Subscription
  <2> HIDE DEF sub, s
  <2>4. QED
    BY <1>4, <2>1, <2>2, <2>3
<1>10. ASSUME NEW w \in Workers, StopReplaced(w)
       PROVE  UNCHANGED stripe \/ \E s \in Subs : OneMoves(s)
  <2>1. tasks[w].stops \in SUBSET Subs /\ UNCHANGED <<rows, flags>>
    BY <1>1, <1>10, TaskFacts DEF StopReplaced
  <2>2. PICK t \in tasks[w].stops :
          (Active(t) /\ Becomes("deleted", t, Stopped(stripe[t]))) \/ UNCHANGED stripe
    BY <1>10 DEF StopReplaced
  <2>3. QED
    BY <1>3, <2>1, <2>2 DEF Becomes
<1>11. ASSUME NEW w \in Workers, StartDeferredAddon(w)
       PROVE  UNCHANGED stripe \/ \E s \in Subs : OneMoves(s)
  <2> DEFINE task == tasks[w]
             addon == task.addon
             cycle == stripe[task.session].cycle
             unused == [Unused EXCEPT !.kind = "renewal", !.addon = addon, !.cycle = cycle]
             end == now + unused.cycle
             sub == [unused EXCEPT !.status = "active", !.renews = TRUE, !.end = end]
  <2>1. /\ UNCHANGED <<rows, flags>> /\ addon \in Addons /\ BoughtIn(stripe, addon)
    BY <1>1, <1>11, RecordFacts, TaskFacts DEF StartDeferredAddon, BoughtIn
  <2>2. Started(unused) = sub
    BY DEF Started
  <2>3. UNCHANGED stripe \/ \E t \in Subs :
          stripe[t].status = "unused" /\ stripe' = [stripe EXCEPT ![t] = sub]
    BY <1>11, <2>2 DEF StartDeferredAddon
  <2> HIDE DEF end, cycle, addon
  <2>4. sub.kind = "renewal" /\ sub.status = "active" /\ sub.addon = addon
    BY DEF Unused
  <2> HIDE DEF sub
  <2>5. ASSUME NEW t \in Subs, stripe[t].status = "unused", stripe' = [stripe EXCEPT ![t] = sub]
        PROVE  OneMoves(t)
    BY <1>2, <2>1, <2>4, <2>5 DEF OneMoves, RenewalTurns
  <2>6. QED
    BY <2>3, <2>5
<1>12. ASSUME NEW w \in Workers, Decide(w)
       PROVE  UNCHANGED stripe \/ \E s \in Subs : OneMoves(s)
  BY <1>8, <1>12 DEF Decide
<1>13. CASE \E w \in Workers : Step(w)
  BY <1>9, <1>10, <1>11, <1>12, <1>13
     DEF Step, SettleDue, Sync, WriteFlags, HealFlags, Compare, Save, Fetch, DeleteReplaced,
         CheckHeld, Upsert
<1>14. CASE Stripe
  BY <1>5, <1>6, <1>7, <1>14 DEF Stripe, Tick
<1>15. CASE Seller
  <2>1. ASSUME NEW s \in Subs, NEW a \in Addons, NEW c \in Cycles,
               NEW kind \in {"placement", "package"}, CreatePackageCheckout(s, a, c, kind)
        PROVE  OneMoves(s)
    BY <1>8, <2>1 DEF CreatePackageCheckout
  <2>2. QED
    BY <1>15, <2>1 DEF Seller, Subscribe, Cancel, Reactivate, Asks, Spends, ForListing,
                       SyncCheckoutSession
<1>16. CASE \/ DeactivateListingPackage \/ MarkSold \/ UNCHANGED vars
            \/ \E w \in Workers : Crash(w)
            \/ \E w \in Workers, i \in DOMAIN events : Deliver(w, i)
            \/ \E i \in DOMAIN events : Lose(i)
  BY <1>16 DEF DeactivateListingPackage, MarkSold, Crash, Deliver, Lose, vars
<1>17. QED
  BY <1>13, <1>14, <1>15, <1>16 DEF Next

(* The strengthened invariant is inductive.                                   *)
LEMMA SaleKept == ASSUME SaleInv, [Next]_vars PROVE SaleInv'
<1>1. /\ IInv /\ IInv' /\ stripe \in [Subs -> Subscription] /\ stripe' \in [Subs -> Subscription]
      /\ \A s \in Subs : stripe[s].status = "active" => BoughtIn(stripe, stripe[s].addon)
  BY NextBacked DEF SaleInv, IInv, TypeOK, Active
<1>2. Keeps(stripe, stripe')
  <2>1. ASSUME NEW s \in Subs, OneMoves(s) PROVE Keeps(stripe, stripe')
    BY <2>1 DEF OneMoves, CheckoutOpens, PaymentBegins, SaleEnds, RenewalTurns, PeriodChanges,
                Active, Keeps, PaidIn
  <2>2. CASE UNCHANGED stripe
    BY <1>1, <2>2, StripeUntouched
  <2>3. QED
    BY <2>1, <2>2, StripeMoves
<1>3. ASSUME NEW a, BoughtIn(stripe, a) PROVE BoughtIn(stripe', a)
  BY <1>2, <1>3 DEF BoughtIn, Keeps
<1>4. ASSUME NEW s \in Subs, stripe'[s].status = "active" PROVE BoughtIn(stripe', stripe'[s].addon)
  <2>1. CASE stripe'[s] = stripe[s] \/ PeriodChanges(s)
    BY <1>1, <1>3, <1>4, <2>1 DEF PeriodChanges
  <2>2. CASE CheckoutOpens(s) \/ SaleEnds(s)
    BY <1>4, <2>2 DEF CheckoutOpens, SaleEnds
  <2>3. CASE PaymentBegins(s)
    BY <1>4, <2>3 DEF PaymentBegins, BoughtIn, PaidIn
  <2>4. CASE RenewalTurns(s)
    BY <1>3, <1>4, <2>4 DEF RenewalTurns
  <2>5. QED
    BY <2>1, <2>2, <2>3, <2>4, StripeMoves DEF OneMoves
<1>5. QED
  BY <1>1, <1>4 DEF SaleInv, Active

(* What is paid for is owned: an order's life at Stripe.                      *)
LEMMA LifeAt ==
  ASSUME stripe \in [Subs -> Subscription], NEW s \in Subs
  PROVE  /\ stripe[s].status = "unused" \/ stripe[s].kind = "renewal" => Life[s] = "none"
         /\ stripe[s].kind # "renewal" /\ stripe[s].status = "offered" => Life[s] = "open"
         /\ stripe[s].kind # "renewal" /\ stripe[s].status \in {"active", "paid"} => Life[s] = "paid"
         /\ Life[s] \in {"paid", "over"} <=> PaidIn(stripe, s)
         /\ Life[s] # "none" => Ordered[s] = Wares(stripe[s].addon)
<1>1. stripe[s].status \in {"unused", "offered", "paid", "active", "canceled"}
  BY DEF Subscription
<1>2. QED
  BY <1>1 DEF Life, PaidIn, Ordered

(* What was bought, its row and its pages, is part of what was paid for.      *)
LEMMA BackedOwned ==
  ASSUME stripe \in [Subs -> Subscription], NEW a \in Addons, BoughtIn(stripe, a)
  PROVE  Wares(a) \subseteq Sale!Owned
<1>1. PICK s \in Subs : PaidIn(stripe, s) /\ stripe[s].addon = a
  BY DEF BoughtIn
<1>2. Ordered[s] = Wares(a) /\ s \in {q \in Subs : Life[q] \in {"paid", "over"}}
  BY <1>1, LifeAt
<1>3. QED
  BY <1>2 DEF Sale!Owned

(* What is billed, subscription by subscription.                              *)
LEMMA BilledIs ==
  /\ \A x : x \in Billed <=> \E t \in Subs : Active(t) /\ x \in Wares(stripe[t].addon)
  /\ \A x : x \in Billed' <=> \E t \in Subs : Active(t)' /\ x \in Wares(stripe'[t].addon)
  BY DEF Billed, Wares, Active

(* What the listing has, and what is billed, is owned.                        *)
AllPaid == Granted \subseteq Sale!Owned /\ Billed \subseteq Sale!Owned

LEMMA AllOwned == SaleInv => AllPaid
<1> SUFFICES ASSUME SaleInv PROVE AllPaid
  OBVIOUS
<1>1. /\ stripe \in [Subs -> Subscription]
      /\ \A a \in Addons : Exists(rows[a]) => BoughtIn(stripe, a)
      /\ \A p \in flags.pages : \E a \in Addons : p \in Grants(a) /\ BoughtIn(stripe, a)
  BY DEF SaleInv, IInv, TypeOK, RowsBacked, FlagsBacked, PagesBought
<1>2. ASSUME NEW a \in Addons, Exists(rows[a]) PROVE <<"row", a>> \in Sale!Owned
  BY <1>1, <1>2, BackedOwned DEF Wares
<1>3. ASSUME NEW p \in flags.pages PROVE <<"page", p>> \in Sale!Owned
  <2>1. PICK a \in Addons : p \in Grants(a) /\ BoughtIn(stripe, a)
    BY <1>1
  <2>2. <<"page", p>> \in Wares(a)
    BY <2>1 DEF Wares
  <2>3. QED
    BY <1>1, <2>1, <2>2, BackedOwned
<1>4. Granted \subseteq Sale!Owned
  BY <1>2, <1>3 DEF Granted
<1>5. ASSUME NEW s \in Subs, Active(s) PROVE Wares(stripe[s].addon) \subseteq Sale!Owned
  <2>1. stripe[s].addon \in Addons /\ BoughtIn(stripe, stripe[s].addon)
    BY <1>1, <1>5 DEF SaleInv, Subscription
  <2>2. QED
    BY <1>1, <2>1, BackedOwned
<1>6. Billed \subseteq Sale!Owned
  BY <1>5, BilledIs
<1>7. QED
  BY <1>4, <1>6 DEF AllPaid

(* And so it is after a step that keeps the invariant.                        *)
LEMMA AllOwnedNext == SaleInv' => AllPaid'
  BY AllOwned, PTL

(* One order moves on, and no other does.                                     *)
LEMMA OneLife ==
  ASSUME stripe \in [Subs -> Subscription], stripe' \in [Subs -> Subscription],
         NEW s \in Subs, \A t \in Subs : t # s => stripe'[t] = stripe[t]
  PROVE  /\ CheckoutOpens(s) => /\ Life' = [Life EXCEPT ![s] = "open"]
                                /\ Ordered' = [Ordered EXCEPT ![s] = Wares(stripe'[s].addon)]
         /\ PaymentBegins(s) => Life' = [Life EXCEPT ![s] = "paid"] /\ Ordered' = Ordered
         /\ SaleEnds(s) => Life' = [Life EXCEPT ![s] = "over"] /\ Ordered' = Ordered
         /\ RenewalTurns(s) \/ PeriodChanges(s) => Life' = Life /\ Ordered' = Ordered
<1>1. ASSUME NEW life,
             life = CASE stripe'[s].kind = "renewal" \/ stripe'[s].status = "unused" -> "none"
                      [] stripe'[s].kind # "renewal" /\ stripe'[s].status = "offered" -> "open"
                      [] stripe'[s].kind # "renewal" /\ stripe'[s].status = "canceled" -> "over"
                      [] OTHER -> "paid"
      PROVE  Life' = [Life EXCEPT ![s] = life]
  BY <1>1 DEF Life
<1>2. ASSUME NEW goods, goods = IF Life'[s] = "none" THEN {} ELSE Wares(stripe'[s].addon),
             \A t \in Subs : t # s => Life'[t] = Life[t]
      PROVE  Ordered' = [Ordered EXCEPT ![s] = goods]
  <2>1. \A t \in Subs : t # s =>
          (IF Life'[t] = "none" THEN {} ELSE Wares(stripe'[t].addon))
             = (IF Life[t] = "none" THEN {} ELSE Wares(stripe[t].addon))
    BY <1>2
  <2>2. QED
    BY <1>2, <2>1 DEF Ordered, Wares
<1>3. Ordered[s] = (IF Life[s] = "none" THEN {} ELSE Wares(stripe[s].addon))
  BY DEF Ordered
<1>4. Life \in [Subs -> {"none", "open", "paid", "over"}] /\ Ordered = [Ordered EXCEPT ![s] = @]
  BY DEF Life, Ordered
<1>5. ASSUME CheckoutOpens(s)
      PROVE  /\ Life' = [Life EXCEPT ![s] = "open"]
             /\ Ordered' = [Ordered EXCEPT ![s] = Wares(stripe'[s].addon)]
  <2>1. Life' = [Life EXCEPT ![s] = "open"]
    BY <1>1, <1>5 DEF CheckoutOpens
  <2>2. QED
    BY <1>2, <1>4, <2>1
<1>6. ASSUME PaymentBegins(s)
      PROVE  Life' = [Life EXCEPT ![s] = "paid"] /\ Ordered' = Ordered
  <2>1. Life' = [Life EXCEPT ![s] = "paid"] /\ Life[s] = "open"
    BY <1>1, <1>6, LifeAt DEF PaymentBegins
  <2>2. Ordered' = [Ordered EXCEPT ![s] = Ordered[s]]
    BY <1>2, <1>3, <1>4, <1>6, <2>1 DEF PaymentBegins
  <2>3. QED
    BY <1>4, <2>1, <2>2
<1>7. ASSUME SaleEnds(s)
      PROVE  Life' = [Life EXCEPT ![s] = "over"] /\ Ordered' = Ordered
  <2>1. Life' = [Life EXCEPT ![s] = "over"] /\ Life[s] = "paid"
    BY <1>1, <1>7, LifeAt DEF SaleEnds, Active
  <2>2. Ordered' = [Ordered EXCEPT ![s] = Ordered[s]]
    BY <1>2, <1>3, <1>4, <1>7, <2>1 DEF SaleEnds
  <2>3. QED
    BY <1>4, <2>1, <2>2
<1>8. ASSUME RenewalTurns(s) PROVE Life' = Life /\ Ordered' = Ordered
  <2>1. Life' = [Life EXCEPT ![s] = "none"] /\ Life[s] = "none"
    BY <1>1, <1>8, LifeAt DEF RenewalTurns
  <2>2. Ordered' = [Ordered EXCEPT ![s] = Ordered[s]]
    BY <1>2, <1>3, <1>4, <2>1
  <2>3. QED
    BY <1>4, <2>1, <2>2
<1>9. ASSUME PeriodChanges(s) PROVE Life' = Life /\ Ordered' = Ordered
  BY <1>9 DEF PeriodChanges, Life, Ordered
<1>10. QED
  BY <1>5, <1>6, <1>7, <1>8, <1>9

(* A change of one subscription is a step of the abstract sale.               *)
LEMMA MoveSold ==
  ASSUME SaleInv, SaleInv', NEW s \in Subs, OneMoves(s)
  PROVE  Sale!Next
<1>1. /\ stripe \in [Subs -> Subscription] /\ stripe' \in [Subs -> Subscription]
      /\ \A t \in Subs : t # s => stripe'[t] = stripe[t]
      /\ \A t \in Subs : t # s => (Active(t)' <=> Active(t))
      /\ Granted' = Granted
  BY DEF SaleInv, IInv, TypeOK, OneMoves, Active, Granted
<1>2. Granted' \subseteq Sale!Owned' /\ Billed' \subseteq Sale!Owned'
  BY AllOwnedNext DEF AllPaid
<1>3. CASE CheckoutOpens(s)
  <2>1. /\ Life[s] = "none" /\ Life' = [Life EXCEPT ![s] = "open"]
        /\ Ordered' = [Ordered EXCEPT ![s] = Wares(stripe'[s].addon)]
        /\ ~Active(s) /\ ~Active(s)'
    BY <1>1, <1>3, LifeAt, OneLife DEF CheckoutOpens, Active
  <2>2. Wares(stripe'[s].addon) \in SUBSET UNION {Wares(a) : a \in Addons}
    <3>1. stripe'[s].addon \in Addons
      BY <1>1 DEF Subscription
    <3>2. QED
      BY <3>1
  <2>3. Billed' = Billed
    BY <1>1, <2>1, BilledIs
  <2>4. Sale!Open(s)
    BY <1>1, <2>1, <2>2, <2>3 DEF Sale!Open
  <2>5. QED
    BY <2>4 DEF Sale!Next
<1>4. CASE PaymentBegins(s)
  <2>1. /\ Life[s] = "open" /\ Life' = [Life EXCEPT ![s] = "paid"] /\ Ordered' = Ordered
        /\ Ordered[s] = Wares(stripe'[s].addon) /\ ~Active(s)
    BY <1>1, <1>4, LifeAt, OneLife DEF PaymentBegins, Active
  <2>2. Billed' = Billed \/ Billed' = Billed \cup Ordered[s]
    <3>1. CASE Active(s)'
      BY <1>1, <2>1, <3>1, BilledIs
    <3>2. CASE ~Active(s)'
      BY <1>1, <2>1, <3>2, BilledIs
    <3>3. QED
      BY <3>1, <3>2
  <2>3. Sale!Pay(s)
    BY <1>1, <2>1, <2>2 DEF Sale!Pay
  <2>4. QED
    BY <2>3 DEF Sale!Next
<1>5. CASE SaleEnds(s)
  <2>1. /\ Life[s] = "paid" /\ Life' = [Life EXCEPT ![s] = "over"] /\ Ordered' = Ordered
        /\ ~Active(s)'
    BY <1>1, <1>5, LifeAt, OneLife DEF SaleEnds, Active
  <2>2. Billed' \subseteq Billed
    BY <1>1, <2>1, BilledIs
  <2>3. \A t \in Subs : Life'[t] \in {"paid", "over"} <=> Life[t] \in {"paid", "over"}
    BY <2>1 DEF Life
  <2>4. Sale!Owned' = Sale!Owned
    BY <2>1, <2>3 DEF Sale!Owned
  <2>5. Sale!End(s)
    BY <1>2, <2>1, <2>2, <2>4 DEF Sale!End
  <2>6. QED
    BY <2>5 DEF Sale!Next
<1>6. CASE RenewalTurns(s) \/ PeriodChanges(s)
  <2>1. Life' = Life /\ Ordered' = Ordered
    BY <1>1, <1>6, OneLife
  <2>2. Sale!Owned' = Sale!Owned
    BY <2>1 DEF Sale!Owned
  <2>3. Sale!Reprice
    BY <1>1, <1>2, <2>1, <2>2 DEF Sale!Reprice
  <2>4. QED
    BY <2>3 DEF Sale!Next
<1>7. QED
  BY <1>3, <1>4, <1>5, <1>6 DEF OneMoves

(* The initial states map to initial states of Purchase.                      *)
LEMMA InitSold == Init => SaleInv /\ Sale!Init
<1> SUFFICES ASSUME Init PROVE SaleInv /\ Sale!Init
  OBVIOUS
<1>1. \A s \in Subs : stripe[s] = Unused
  BY DEF Init
<1>2. \A s \in Subs : ~Active(s)
  BY <1>1 DEF Active, Unused
<1>3. SaleInv
  BY <1>2, InitBacked DEF SaleInv
<1>4. Granted = {} /\ Billed = {}
  <2>1. \A a \in Addons : ~Exists(rows[a])
    BY NoRowTyped DEF Init, NoRows
  <2>2. flags.pages = {}
    BY DEF Init, NoFlags
  <2>3. QED
    BY <1>2, <2>1, <2>2, BilledIs DEF Granted
<1>5. Life = [s \in Subs |-> "none"] /\ Ordered = [s \in Subs |-> {}]
  BY <1>1 DEF Life, Ordered, Unused
<1>6. QED
  BY <1>3, <1>4, <1>5 DEF Sale!Init

(* Every step maps to a step of Purchase.                                     *)
LEMMA NextSold == SaleInv /\ SaleInv' /\ [Next]_vars => Sale!Next
<1> SUFFICES ASSUME SaleInv, SaleInv', [Next]_vars PROVE Sale!Next
  OBVIOUS
<1>1. CASE UNCHANGED stripe
  <2>1. Life' = Life /\ Ordered' = Ordered /\ Billed' = Billed
    BY <1>1 DEF Life, Ordered, Billed, Active
  <2>2. Granted' \subseteq Sale!Owned'
    BY AllOwnedNext DEF AllPaid
  <2>3. Sale!Owned' = Sale!Owned
    BY <2>1 DEF Sale!Owned
  <2>4. Sale!HandOut
    BY <2>1, <2>2, <2>3 DEF Sale!HandOut
  <2>5. QED
    BY <2>4 DEF Sale!Next
<1>2. QED
  BY <1>1, StripeMoves, MoveSold

(* Placements are sold as Purchase promises, under every fault: what the      *)
(* listing has, the pages it is shown on and what Stripe bills were paid for, *)
(* and an order neither changes nor comes back.                               *)
THEOREM Implements == Spec => SoldAsOrdered
<1>1. SaleInv /\ SaleInv' /\ [Next]_vars => [Sale!Next]_(Sale!vars)
  BY NextSold
<1>2. SaleInv /\ [Next]_vars => SaleInv'
  BY SaleKept
<1>3. QED
  BY <1>1, <1>2, InitSold, PTL DEF Spec, SoldAsOrdered, Sale!Spec
================================================================================
