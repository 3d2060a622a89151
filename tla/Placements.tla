------------------------------- MODULE Placements ------------------------------
(* The placements one listing pays for: a subscription at Stripe and a row each,*)
(* and the listing's own fields that sum the rows up (listing-addon.service.ts, *)
(* listing-addon.activate.ts, listing-addon.util.ts, listing-stripe-sync.ts,    *)
(* listing-checkout.service.ts, listing.service.ts, webhook.controller.ts).     *)
(*                                                                              *)
(* A handler in flight is a task of a worker, and a step of it is what runs     *)
(* between two awaits.  Faults and Requests name the world a property holds in. *)
EXTENDS Naturals, SequencesExt

CONSTANTS
  Subs,         \* Stripe subscription ids; checkout session s pays for sub s
  NoSub,        \* "no subscription"
  Singles,      \* the two single placements; a page is named by the one granting it
  Bundle,       \* the placement that is both of them
  RowIds,       \* ids of rows; one that no handler holds is as good as new
  NoId,         \* "no row"
  Workers,      \* handlers that can be in flight at once
  Cycles,       \* billing cycles, as a number of periods
  Faults,       \* subset of FaultKinds
  Requests,     \* subset of RequestKinds
  Horizon,      \* bound: the clock stops here
  MaxRequests,  \* bound: requests made, besides checkouts and reads
  Backlog       \* bound: Stripe does nothing by itself with as many events waiting

(* "twice" lets the webhook and the success page record one checkout together,  *)
(* "overlap" any two handlers.                                                  *)
FaultKinds == {"twice", "overlap", "reorder", "duplicate", "lose", "decline", "outage", "crash"}

(* "tabs" is a checkout opened before the last one is recorded, "meanwhile" a   *)
(* request with a paid checkout on its way, "packageAgain" a placement bought   *)
(* with a package for a listing that has one, "replay" an old success page.     *)
RequestKinds == {"subscribe", "shorter", "cancel", "reactivate", "look", "package",
                 "packageAgain", "confirm", "replay", "tabs", "meanwhile",
                 "packageEnds", "sold"}

ASSUME PlacementsAssumption ==
  /\ NoSub \notin Subs
  /\ Bundle \notin Singles
  /\ NoId \notin RowIds
  /\ Cycles \subseteq Nat \ {0}
  /\ Faults \subseteq FaultKinds
  /\ Requests \subseteq RequestKinds
  /\ Horizon \in Nat \ {0}
  /\ MaxRequests \in Nat
  /\ Backlog \in Nat

VARIABLES
  now,      \* the date
  stripe,   \* what Stripe holds of each subscription, its checkout included
  events,   \* webhook events not yet accepted by the backend, oldest first
  rows,     \* the listing's ListingAddon row of each add-on
  flags,    \* the listing's packageAddons and featured flags
  sold,     \* the listing has been marked sold
  tasks,    \* the handler each worker is running
  spent     \* requests made so far

vars == <<now, stripe, events, rows, flags, sold, tasks, spent>>

Addons == Singles \cup {Bundle}
Pages == Singles

Grants(addon) == IF addon = Bundle THEN Pages ELSE {addon}

(* Dates start at 1, so that 0 is null.                                         *)
NoDate == 0
NoCycle == 0

Row == [id: RowIds \cup {NoId}, sub: Subs \cup {NoSub}, cycle: Cycles \cup {NoCycle},
        end: Nat, endsAt: Nat, pending: Cycles \cup {NoCycle}, changeAt: Nat]

NoRow == [id |-> NoId, sub |-> NoSub, cycle |-> NoCycle, end |-> NoDate,
          endsAt |-> NoDate, pending |-> NoCycle, changeAt |-> NoDate]

Flags == [addons: SUBSET Addons, pages: SUBSET Pages]

(* "placement": bought on its own.  "package": its first period is a line of a  *)
(* package's invoice, so that the session has no subscription of the placement; *)
(* "renewal" is the subscription the backend then starts for the periods after. *)
(* replaces and stops are the session's metadata.                               *)
Subscription == [kind: {"none", "placement", "package", "renewal"},
                 status: {"unused", "offered", "paid", "active", "canceled"},
                 addon: Addons, cycle: Cycles \cup {NoCycle}, renews: BOOLEAN, end: Nat,
                 replaces: SUBSET Addons, stops: SUBSET Subs]

Unused == [kind |-> "none", status |-> "unused", addon |-> Bundle, cycle |-> NoCycle,
           renews |-> FALSE, end |-> NoDate, replaces |-> {}, stops |-> {}]

Event == [type: {"checkout", "updated", "deleted"}, sub: Subs, end: Nat]

Task == [kind: {"idle", "subscribe", "cancel", "reactivate", "look", "heal",
                "record", "ended"},
         pc: {"idle", "settle", "decide", "heal", "compare", "stripe", "save", "fetch",
              "stop", "clear", "check", "create", "upsert", "sync", "flags"},
         session: Subs \cup {NoSub}, sub: Subs \cup {NoSub}, addon: Addons,
         cycle: Cycles \cup {NoCycle}, read: [Addons -> Row], left: SUBSET Addons,
         stops: SUBSET Subs, end: Nat, flags: Flags, hook: BOOLEAN]

NoRows == [a \in Addons |-> NoRow]
NoFlags == [addons |-> {}, pages |-> {}]

Idle == [kind |-> "idle", pc |-> "idle", session |-> NoSub, sub |-> NoSub,
         addon |-> Bundle, cycle |-> NoCycle, read |-> NoRows, left |-> {},
         stops |-> {}, end |-> NoDate, flags |-> NoFlags, hook |-> FALSE]

TypeOK ==
  /\ now \in 1..Horizon
  /\ stripe \in [Subs -> Subscription]
  /\ events \in Seq(Event)
  /\ rows \in [Addons -> Row]
  /\ flags \in Flags
  /\ sold \in BOOLEAN
  /\ tasks \in [Workers -> Task]
  /\ spent \in 0..MaxRequests

Init ==
  /\ now = 1
  /\ stripe = [s \in Subs |-> Unused]
  /\ events = <<>>
  /\ rows = NoRows
  /\ flags = NoFlags
  /\ sold = FALSE
  /\ tasks = [w \in Workers |-> Idle]
  /\ spent = 0

--------------------------------------------------------------------------------
(* Rows, and what the listing says of them.                                     *)

Exists(row) == row.id # NoId

(* A cancelled placement stays until the day it was paid up to.                 *)
Live(row) == Exists(row) /\ (row.endsAt = NoDate \/ row.endsAt > now)

LiveAddons == {a \in Addons : Live(rows[a])}

Derived == [addons |-> LiveAddons, pages |-> UNION {Grants(a) : a \in LiveAddons}]

\* Mutant: a cancelled placement ends when somebody looks.
WasCancelled(row) == row.endsAt # NoDate

HasEnded(row) == row.endsAt # NoDate /\ row.endsAt <= now
ChangeIsDue(row) == row.changeAt # NoDate /\ row.changeAt <= now
IsDue(row) == Exists(row) /\ (HasEnded(row) \/ ChangeIsDue(row))

Active(s) == stripe[s].status = "active"
Paid(s) == stripe[s].kind # "renewal" /\ stripe[s].status \notin {"unused", "offered"}

--------------------------------------------------------------------------------
(* Stripe, as the backend uses it.                                              *)

EventOf(type, s, sub) == [type |-> type, sub |-> s, end |-> sub.end]

(* A subscription changes, and the webhook hears of it.                         *)
Becomes(type, s, sub) ==
  /\ stripe' = [stripe EXCEPT ![s] = sub]
  /\ events' = Append(events, EventOf(type, s, sub))

Stopped(sub) == [sub EXCEPT !.status = "canceled"]

Unhurried ==
  /\ Len(events) < Backlog
  /\ UNCHANGED <<now, rows, flags, sold, tasks, spent>>

Started(sub) == [sub EXCEPT !.status = "active", !.renews = TRUE, !.end = now + sub.cycle]

Pay(s) ==
  /\ Unhurried
  /\ stripe[s].status = "offered"
  /\ Becomes("checkout", s, IF stripe[s].kind = "package"
                            THEN [stripe[s] EXCEPT !.status = "paid"]
                            ELSE Started(stripe[s]))

Due(s) == Active(s) /\ stripe[s].end <= now

Renew(s) ==
  /\ Unhurried
  /\ Due(s) /\ stripe[s].renews
  /\ Becomes("updated", s, [stripe[s] EXCEPT !.end = @ + stripe[s].cycle])

Lapse(s) ==
  /\ Unhurried
  /\ Due(s) /\ ~stripe[s].renews
  /\ Becomes("deleted", s, Stopped(stripe[s]))

(* The renewal cannot be charged, and Stripe gives it up.                       *)
GiveUp(s) ==
  /\ "decline" \in Faults
  /\ Unhurried
  /\ Due(s) /\ stripe[s].renews
  /\ Becomes("deleted", s, Stopped(stripe[s]))

(* A period is long: handlers have ended, and Stripe has settled what was due   *)
(* and stopped repeating its events.                                            *)
Tick ==
  /\ now < Horizon
  /\ events = <<>>
  /\ \A w \in Workers : tasks[w] = Idle
  /\ \A s \in Subs : ~Due(s)
  /\ now' = now + 1
  /\ UNCHANGED <<stripe, events, rows, flags, sold, tasks, spent>>

--------------------------------------------------------------------------------
(* Tasks.                                                                       *)

Begin(w, task) == tasks' = [tasks EXCEPT ![w] = task]
Finish(w) == tasks' = [tasks EXCEPT ![w] = Idle]
Advance(w, pc) == tasks' = [tasks EXCEPT ![w].pc = pc]

CanStart(w) ==
  /\ tasks[w] = Idle
  /\ "overlap" \in Faults \/ \A v \in Workers : tasks[v] = Idle

SameCheckout(v, s) == tasks[v].kind = "record" /\ tasks[v].session = s /\ tasks[v].pc # "create"

CanRecord(w, s) ==
  \/ CanStart(w)
  \/ /\ "twice" \in Faults
     /\ tasks[w] = Idle
     /\ stripe[s].kind = "placement"
     /\ \A v \in Workers : tasks[v] = Idle \/ SameCheckout(v, s)

OnItsWay(s) == \E i \in DOMAIN events : events[i].type = "checkout" /\ events[i].sub = s

Spends(kind) ==
  /\ kind \in Requests
  /\ spent < MaxRequests
  /\ "meanwhile" \in Requests \/ \A s \in Subs : ~OnItsWay(s)
  /\ spent' = spent + 1
  /\ UNCHANGED <<now, stripe, events, rows, flags, sold>>

Asks(w, kind) == Spends(kind) /\ CanStart(w)

(* The rows as read, and those of them with something due.                      *)
Settling(task) ==
  LET left == {a \in Addons : IsDue(rows[a])}
      next == IF task.kind = "look" THEN "heal" ELSE "decide"
  IN [task EXCEPT !.read = rows, !.left = left,
                  !.pc = IF left = {} THEN next ELSE "settle"]

(* A row is written by the id it was read with: one that is gone throws.        *)
StillThere(task, a) == Exists(rows[a]) /\ rows[a].id = task.read[a].id

SettledRow(task, a) ==
  LET read == task.read[a]
  IN IF HasEnded(read) THEN NoRow
     ELSE [rows[a] EXCEPT !.cycle = IF read.pending = NoCycle THEN read.cycle ELSE read.pending,
                          !.pending = NoCycle, !.changeAt = NoDate]

SettleDue(w) ==
  LET task == tasks[w]
  IN /\ task.pc = "settle"
     /\ \E a \in task.left :
          \/ /\ StillThere(task, a)
             /\ rows' = [rows EXCEPT ![a] = SettledRow(task, a)]
             /\ Begin(w, [task EXCEPT !.left = @ \ {a},
                                      !.pc = IF task.left = {a} THEN "sync" ELSE @])
          \/ /\ ~StillThere(task, a)
             /\ Finish(w)
             /\ UNCHANGED rows
     /\ UNCHANGED <<now, stripe, events, flags, sold, spent>>

(* The summary is worked out from the rows as read, and written afterwards.     *)
Sync(w) ==
  /\ tasks[w].pc = "sync"
  /\ tasks' = [tasks EXCEPT ![w].flags = Derived, ![w].pc = "flags"]
  /\ UNCHANGED <<now, stripe, events, rows, flags, sold, spent>>

WriteFlags(w) ==
  LET task == tasks[w]
  IN /\ task.pc = "flags"
     /\ flags' = task.flags
     /\ CASE task.kind = "subscribe" -> Advance(w, "decide")
          [] task.kind = "look" -> Advance(w, "heal")
          [] OTHER -> Finish(w)
     /\ UNCHANGED <<now, stripe, events, rows, sold, spent>>

--------------------------------------------------------------------------------
(* The seller's requests.                                                       *)

ForListing(w) ==
  /\ "look" \in Requests
  /\ CanStart(w)
  /\ Begin(w, Settling([Idle EXCEPT !.kind = "look"]))
  /\ UNCHANGED <<now, stripe, events, rows, flags, sold, spent>>

HealFlags(w) ==
  /\ tasks[w].pc = "heal"
  /\ tasks' = [tasks EXCEPT ![w].flags = Derived, ![w].pc = "compare"]
  /\ UNCHANGED <<now, stripe, events, rows, flags, sold, spent>>

Compare(w) ==
  LET task == tasks[w]
  IN /\ task.pc = "compare"
     /\ IF flags = task.flags THEN Finish(w)
        ELSE Begin(w, [task EXCEPT !.kind = "heal", !.pc = "flags"])
     /\ UNCHANGED <<now, stripe, events, rows, flags, sold, spent>>

Subscribe(w, a, c) ==
  /\ Asks(w, "subscribe")
  /\ Begin(w, Settling([Idle EXCEPT !.kind = "subscribe", !.addon = a, !.cycle = c]))

Blocked(a) == Live(rows[Bundle]) /\ a # Bundle

IsShorter(a, c) == Live(rows[a]) /\ c < rows[a].cycle
IsSame(a, c) == Live(rows[a]) /\ c = rows[a].cycle

\* Mutant: the bundle takes the place of nothing but itself.
ReplacesItself(a) == LiveAddons \cap {a}

\* Mutant: what the listing does not have is replaced as well.
ReplacesAll(a) == IF a = Bundle THEN Addons ELSE {a}

ReplacedBy(a) == IF a = Bundle THEN LiveAddons ELSE LiveAddons \cap {a}

Offer(s, kind, a, c, replaces) ==
  /\ stripe[s].status = "unused"
  /\ stripe' = [stripe EXCEPT ![s] =
                  [Unused EXCEPT !.kind = kind, !.status = "offered", !.addon = a, !.cycle = c,
                                 !.replaces = replaces,
                                 !.stops = {rows[r].sub : r \in replaces}]]

AllRecorded ==
  /\ \A s \in Subs : stripe[s].status # "offered" /\ ~OnItsWay(s)
  /\ \A w \in Workers : tasks[w].kind # "record"

(* The rows are read again.  A shorter cycle is queued, and anything else new   *)
(* becomes a checkout, with what it replaces in its metadata.                   *)
Decide(w) ==
  LET task == tasks[w]
      a == task.addon
      c == task.cycle
  IN /\ task.pc = "decide"
     /\ \/ /\ Blocked(a) \/ IsSame(a, c)
           /\ Finish(w)
           /\ UNCHANGED stripe
        \/ /\ ~Blocked(a) /\ IsShorter(a, c)
           /\ IF "shorter" \in Requests
              THEN tasks' = [tasks EXCEPT ![w].read = rows, ![w].pc = "save"]
              ELSE Finish(w)
           /\ UNCHANGED stripe
        \/ /\ ~Blocked(a) /\ ~IsSame(a, c) /\ ~IsShorter(a, c)
           /\ IF AllRecorded \/ "tabs" \in Requests
              THEN \E s \in Subs : Offer(s, "placement", a, c, ReplacedBy(a))
              ELSE UNCHANGED stripe
           /\ Finish(w)
     /\ UNCHANGED <<now, events, rows, flags, sold, spent>>

(* A placement bought together with a package, paid or free: of what the listing*)
(* has already, nothing is looked at.                                           *)
CreatePackageCheckout(s, a, c, kind) ==
  /\ IF LiveAddons = {} THEN "package" \in Requests ELSE "packageAgain" \in Requests
  /\ AllRecorded \/ "tabs" \in Requests
  /\ Offer(s, kind, a, c, {})
  /\ UNCHANGED <<now, events, rows, flags, sold, tasks, spent>>

Cancel(w, a) ==
  /\ Asks(w, "cancel")
  /\ Live(rows[a]) /\ rows[a].endsAt = NoDate
  /\ Begin(w, [Idle EXCEPT !.kind = "cancel", !.pc = "stripe", !.addon = a, !.read = rows])

Reactivate(w, a) ==
  /\ Asks(w, "reactivate")
  /\ Live(rows[a]) /\ rows[a].endsAt # NoDate
  /\ Begin(w, [Idle EXCEPT !.kind = "reactivate", !.pc = "stripe", !.addon = a, !.read = rows])

(* A subscription that is over is not changed any more, and the request fails.  *)
CallStripe(w) ==
  LET task == tasks[w]
      s == task.read[task.addon].sub
  IN /\ task.pc = "stripe"
     /\ \/ /\ Active(s)
           /\ Becomes("updated", s, [stripe[s] EXCEPT !.renews = (task.kind = "reactivate")])
           /\ Begin(w, [task EXCEPT !.end = stripe[s].end, !.pc = "save"])
        \/ /\ ~Active(s) \/ "outage" \in Faults
           /\ Finish(w)
           /\ UNCHANGED <<stripe, events>>
     /\ UNCHANGED <<now, rows, flags, sold, spent>>

PaidUpTo(row) == IF row.end = NoDate THEN now + row.cycle ELSE row.end

Written(task, a) ==
  CASE task.kind = "cancel" ->
         [rows[a] EXCEPT !.endsAt = task.end, !.pending = NoCycle, !.changeAt = NoDate]
    [] task.kind = "reactivate" -> [rows[a] EXCEPT !.endsAt = NoDate]
    [] OTHER ->
         [rows[a] EXCEPT !.pending = task.cycle, !.changeAt = PaidUpTo(task.read[a])]

Save(w) ==
  LET task == tasks[w]
      a == task.addon
  IN /\ task.pc = "save"
     /\ \/ /\ StillThere(task, a)
           /\ rows' = [rows EXCEPT ![a] = Written(task, a)]
           /\ IF task.kind = "reactivate" THEN Advance(w, "sync") ELSE Finish(w)
        \/ /\ ~StillThere(task, a)
           /\ Finish(w)
           /\ UNCHANGED rows
     /\ UNCHANGED <<now, stripe, events, flags, sold, spent>>

--------------------------------------------------------------------------------
(* Recording a checkout, from the webhook or the success page.                  *)

Recording(s, hook) ==
  [Idle EXCEPT !.kind = "record", !.session = s, !.sub = s, !.addon = stripe[s].addon,
               !.pc = IF stripe[s].kind = "package" THEN "check" ELSE "fetch",
               !.hook = hook]

\* Mutant: a checkout that was opened is taken for one that was paid.
IsOpened(s) == stripe[s].kind # "renewal" /\ stripe[s].status # "unused"

IsSettled(s) == Paid(s)

SyncCheckoutSession(w, s) ==
  /\ IF OnItsWay(s) \/ \E v \in Workers : tasks[v].session = s
     THEN "confirm" \in Requests ELSE "replay" \in Requests
  /\ spent < MaxRequests
  /\ spent' = spent + 1
  /\ CanRecord(w, s)
  /\ IsSettled(s)
  /\ Begin(w, Recording(s, FALSE))
  /\ UNCHANGED <<now, stripe, events, rows, flags, sold>>

(* A period end that cannot be read is left out.                                *)
Fetch(w) ==
  LET task == tasks[w]
      stops == stripe[task.sub].stops
  IN /\ task.pc = "fetch"
     /\ \E end \in {stripe[task.sub].end} \cup (IF "outage" \in Faults THEN {NoDate} ELSE {}) :
          Begin(w, [task EXCEPT !.end = end, !.stops = stops,
                                !.pc = IF stops = {} THEN "clear" ELSE "stop"])
     /\ UNCHANGED <<now, stripe, events, rows, flags, sold, spent>>

(* What goes wrong here is logged and forgotten.                                *)
StopReplaced(w) ==
  LET task == tasks[w]
  IN /\ task.pc = "stop"
     /\ \E t \in task.stops :
          /\ \/ Active(t) /\ Becomes("deleted", t, Stopped(stripe[t]))
             \/ /\ ~Active(t) \/ "outage" \in Faults
                /\ UNCHANGED <<stripe, events>>
          /\ Begin(w, [task EXCEPT !.stops = @ \ {t},
                                   !.pc = IF task.stops = {t} THEN "clear" ELSE @])
     /\ UNCHANGED <<now, rows, flags, sold, spent>>

DeleteReplaced(w) ==
  LET task == tasks[w]
      replaced == stripe[task.session].replaces \ {task.addon}
  IN /\ task.pc = "clear"
     /\ rows' = [a \in Addons |-> IF a \in replaced THEN NoRow ELSE rows[a]]
     /\ Advance(w, "upsert")
     /\ UNCHANGED <<now, stripe, events, flags, sold, spent>>

(* A placement bought with a package: unless it has a subscription already, one *)
(* is started for the periods after the one that is paid.  Errors are logged.   *)
CheckHeld(w) ==
  /\ tasks[w].pc = "check"
  /\ IF Exists(rows[tasks[w].addon]) THEN Finish(w) ELSE Advance(w, "create")
  /\ UNCHANGED <<now, stripe, events, rows, flags, sold, spent>>

StartDeferredAddon(w) ==
  LET task == tasks[w]
      sub == Started([Unused EXCEPT !.kind = "renewal", !.addon = task.addon,
                                    !.cycle = stripe[task.session].cycle])
  IN /\ task.pc = "create"
     /\ \/ \E t \in Subs :
             /\ stripe[t].status = "unused"
             /\ stripe' = [stripe EXCEPT ![t] = sub]
             /\ Begin(w, [task EXCEPT !.sub = t, !.end = sub.end, !.pc = "upsert"])
        \/ /\ "outage" \in Faults
           /\ Finish(w)
           /\ UNCHANGED stripe
     /\ UNCHANGED <<now, events, rows, flags, sold, spent>>

(* The ids some handler has read the row of an add-on with.                     *)
InUse(a) == {tasks[w].read[a].id : w \in Workers}

\* Mutant: a row that is there keeps the subscription it has.
BoughtUnlinked(old, task, id) ==
  [NoRow EXCEPT !.id = id, !.sub = IF Exists(old) THEN old.sub ELSE task.sub,
                !.cycle = stripe[task.sub].cycle, !.end = task.end]

\* Mutant: a cancellation that was waiting stays.
BoughtStillEnding(old, task, id) ==
  [NoRow EXCEPT !.id = id, !.sub = task.sub, !.cycle = stripe[task.sub].cycle,
                !.end = task.end, !.endsAt = old.endsAt]

(* Buying settles a cancellation and a cycle change that were waiting.          *)
Bought(old, task, id) ==
  [NoRow EXCEPT !.id = id, !.sub = task.sub, !.cycle = stripe[task.sub].cycle,
                !.end = task.end]

Upsert(w) ==
  LET task == tasks[w]
      old == rows[task.addon]
  IN /\ task.pc = "upsert"
     /\ \E id \in IF Exists(old) THEN {old.id} ELSE RowIds \ InUse(task.addon) :
          rows' = [rows EXCEPT ![task.addon] = Bought(old, task, id)]
     /\ Advance(w, "sync")
     /\ UNCHANGED <<now, stripe, events, flags, sold, spent>>

--------------------------------------------------------------------------------
(* The webhook.                                                                 *)

Accept(i) ==
  \/ events' = RemoveAt(events, i)
  \/ "duplicate" \in Faults /\ UNCHANGED events

HandleCheckoutCompleted(w, i) ==
  /\ events[i].type = "checkout"
  /\ CanRecord(w, events[i].sub)
  /\ Begin(w, Recording(events[i].sub, TRUE))
  /\ UNCHANGED rows

(* Filtered on the subscription id, so one step with the look-up before it.     *)
RecordListingRenewal(w, i) ==
  /\ events[i].type = "updated"
  /\ CanStart(w)
  /\ rows' = [a \in Addons |-> IF Exists(rows[a]) /\ rows[a].sub = events[i].sub
                               THEN [rows[a] EXCEPT !.end = events[i].end] ELSE rows[a]]
  /\ UNCHANGED tasks

\* Mutant: the row goes and the summary stays.
EndRowsOnly(w, i) ==
  /\ events[i].type = "deleted"
  /\ CanStart(w)
  /\ rows' = [a \in Addons |-> IF Exists(rows[a]) /\ rows[a].sub = events[i].sub
                               THEN NoRow ELSE rows[a]]
  /\ UNCHANGED tasks

EndPlacementsFromStripe(w, i) ==
  LET ended == {a \in Addons : Exists(rows[a]) /\ rows[a].sub = events[i].sub}
  IN /\ events[i].type = "deleted"
     /\ CanStart(w)
     /\ rows' = [a \in Addons |-> IF a \in ended THEN NoRow ELSE rows[a]]
     /\ IF ended = {} THEN UNCHANGED tasks
        ELSE Begin(w, [Idle EXCEPT !.kind = "ended", !.session = events[i].sub,
                                   !.pc = "sync", !.hook = TRUE])

Deliver(w, i) ==
  /\ i = 1 \/ "reorder" \in Faults
  /\ Accept(i)
  /\ \/ HandleCheckoutCompleted(w, i)
     \/ RecordListingRenewal(w, i)
     \/ EndPlacementsFromStripe(w, i)
  /\ UNCHANGED <<now, stripe, flags, sold, spent>>

Lose(i) ==
  /\ "lose" \in Faults
  /\ events' = RemoveAt(events, i)
  /\ UNCHANGED <<now, stripe, rows, flags, sold, tasks, spent>>

(* The process restarts, or a database call fails, in the middle of a handler.  *)
(* Stripe may deliver the event again.                                          *)
Crash(w) ==
  LET task == tasks[w]
      type == IF task.kind = "ended" THEN "deleted" ELSE "checkout"
  IN /\ "crash" \in Faults
     /\ task # Idle
     /\ Finish(w)
     /\ \/ UNCHANGED events
        \/ /\ task.hook
           /\ \A i \in DOMAIN events : events[i].type # type \/ events[i].sub # task.session
           /\ events' = Append(events, EventOf(type, task.session, stripe[task.session]))
     /\ UNCHANGED <<now, stripe, rows, flags, sold, spent>>

(* The listing's package ends at Stripe.                                        *)
DeactivateListingPackage ==
  /\ "packageEnds" \in Requests
  /\ flags.pages # {}
  /\ flags' = [flags EXCEPT !.pages = {}]
  /\ UNCHANGED <<now, stripe, events, rows, sold, tasks, spent>>

(* The team marks the listing sold: the package's subscription is stopped.      *)
MarkSold ==
  /\ "sold" \in Requests
  /\ ~sold
  /\ sold' = TRUE
  /\ flags' = [flags EXCEPT !.pages = {}]
  /\ UNCHANGED <<now, stripe, events, rows, tasks, spent>>

--------------------------------------------------------------------------------
Stripe ==
  \/ Tick
  \/ \E s \in Subs : Pay(s) \/ Renew(s) \/ Lapse(s) \/ GiveUp(s)

Seller ==
  \/ \E w \in Workers :
       \/ \E a \in Addons, c \in Cycles : Subscribe(w, a, c)
       \/ \E a \in Addons : Cancel(w, a) \/ Reactivate(w, a)
       \/ ForListing(w)
       \/ \E s \in Subs : SyncCheckoutSession(w, s)
  \/ \E s \in Subs, a \in Addons, c \in Cycles, kind \in {"placement", "package"} :
       CreatePackageCheckout(s, a, c, kind)

Step(w) ==
  \/ SettleDue(w) \/ Sync(w) \/ WriteFlags(w) \/ HealFlags(w) \/ Compare(w)
  \/ Decide(w) \/ CallStripe(w) \/ Save(w)
  \/ Fetch(w) \/ StopReplaced(w) \/ DeleteReplaced(w)
  \/ CheckHeld(w) \/ StartDeferredAddon(w) \/ Upsert(w)

Next ==
  \/ Stripe
  \/ Seller
  \/ DeactivateListingPackage
  \/ MarkSold
  \/ \E w \in Workers : Step(w) \/ Crash(w)
  \/ \E w \in Workers, i \in DOMAIN events : Deliver(w, i)
  \/ \E i \in DOMAIN events : Lose(i)

Spec == Init /\ [][Next]_vars

--------------------------------------------------------------------------------
(* Nothing in flight, nothing left to tell the backend or for Stripe to settle. *)
Settled ==
  /\ events = <<>>
  /\ \A w \in Workers : tasks[w] = Idle
  /\ \A s \in Subs : ~Due(s)

(* The listing's summary says what its rows say: sync after every write leaves  *)
(* no sequence of changes after which the two differ.                           *)
FlagsSayRows == Settled => flags = Derived

(* No page is billed twice: neither two subscriptions of one placement, nor the *)
(* bundle and a placement it includes.                                          *)
BilledOnce ==
  Settled => \A s, t \in Subs :
    Active(s) /\ Active(t) /\ s # t => Grants(stripe[s].addon) \cap Grants(stripe[t].addon) = {}

(* What Stripe bills is a placement the listing has and the seller can cancel,  *)
(* and what the listing has is billed.                                          *)
BilledIsHeld ==
  Settled => \A s \in Subs : Active(s) <=> rows[stripe[s].addon].sub = s

(* A row says that its placement goes on, and on what cycle, exactly as Stripe  *)
(* will bill it.                                                                *)
RenewalAgrees ==
  Settled => \A a \in Addons : Exists(rows[a]) /\ Active(rows[a].sub) =>
    /\ stripe[rows[a].sub].renews <=> rows[a].endsAt = NoDate
    /\ rows[a].pending = NoCycle => rows[a].cycle = stripe[rows[a].sub].cycle

(* A row lets go of a subscription only when that is over or its paid period is:*)
(* nobody loses a day they paid for, and nothing goes on with no row to stop it.*)
LetsGoOfWhatIsOver ==
  [][\A a \in Addons : Exists(rows[a]) /\ rows'[a].sub # rows[a].sub =>
       ~Active(rows[a].sub) \/ Due(rows[a].sub)]_vars

(* Every placement on the listing, and every page it is shown on, was paid for, *)
(* whatever handlers overlap and whatever arrives late, twice or not at all.    *)
WasBought(a) == \E s \in Subs : Paid(s) /\ stripe[s].addon = a

PlacementWasPaidFor ==
  /\ \A a \in Addons : Exists(rows[a]) => WasBought(a)
  /\ \A p \in flags.pages : \E a \in Addons : p \in Grants(a) /\ WasBought(a)

(* Each checkout as an order; a renewal the backend starts by itself is none.   *)
Life == [s \in Subs |->
  CASE stripe[s].kind = "renewal" \/ stripe[s].status = "unused" -> "none"
    [] stripe[s].kind # "renewal" /\ stripe[s].status = "offered" -> "open"
    [] stripe[s].kind # "renewal" /\ stripe[s].status = "canceled" -> "over"
    [] OTHER -> "paid"]

(* A placement, and the pages it is shown on.                                   *)
Wares(a) == {<<"row", a>>} \cup {<<"page", p>> : p \in Grants(a)}

Ordered == [s \in Subs |-> IF Life[s] = "none" THEN {} ELSE Wares(stripe[s].addon)]
Granted == {<<"row", a>> : a \in {b \in Addons : Exists(rows[b])}}
             \cup {<<"page", p>> : p \in flags.pages}
Billed == UNION {Wares(stripe[s].addon) : s \in {t \in Subs : Active(t)}}

Sale == INSTANCE Purchase WITH Orders <- Subs, Goods <- UNION {Wares(a) : a \in Addons},
                               life <- Life, order <- Ordered, held <- Granted, billed <- Billed

(* Placements are sold as every purchase is promised to be: the rows, the pages *)
(* and what Stripe bills, renewals the backend started by itself included, are  *)
(* part of an order that was paid for, and an order neither changes nor returns.*)
SoldAsOrdered == Sale!Spec

(* A sale stops every subscription the listing has: the seller does not go on   *)
(* paying for a business they no longer own.                                    *)
SaleStopsBilling ==
  [][sold' # sold =>
       \A a \in Addons : Exists(rows[a]) => stripe'[rows[a].sub].status # "active"]_vars
================================================================================
