-------------------------- MODULE ConfidentialAccess ---------------------------
(* Who may see a listing's confidential details.  A buyer who accepts the       *)
(* agreement is let in at once, or, while the seller approves buyers by hand,   *)
(* waits; the seller approves, declines, takes access away, or stops approving  *)
(* by hand, which lets everyone in who waits.  What happens is posted in the    *)
(* conversation with the buyer.  Each database call of a request is a step.     *)
EXTENDS Integers

CONSTANTS
  Buyers,
  Desks         \* requests being served at once

VARIABLES
  switch,       \* approveBuyersManually
  access,       \* each buyer's ListingConfidentialAccess, "none" without one
  notice,       \* the last notice in the conversation with each buyer
  desks,        \* what each request being served is about to do
  \* history
  letIn,        \* buyers the seller let in, or whom the listing let in unvetted
  unvetted,     \* buyers last let in because the listing did not vet them
  crossed       \* buyers about whom two requests overlapped, or one failed

accessVars == <<switch, access, notice, desks, letIn, unvetted, crossed>>

\* selectedPackage and packageActive. They change at any time and by none of these
\* operations, so each request reads any of them.
Packages == {"paid", "lapsed", "minimum"}

Status == {"none", "PENDING", "APPROVED", "DECLINED"}
Kinds == {"none", "REQUESTED", "APPROVED", "DECLINED"}
Desk == [step : {"idle", "room", "request", "open", "before", "approve", "decline",
                 "tell", "sweep", "list", "write"},
         buyer : SUBSET Buyers, todo : SUBSET Buyers, told : Kinds, silent : BOOLEAN,
         to : BOOLEAN]

Free == [step |-> "idle", buyer |-> {}, todo |-> {}, told |-> "none", silent |-> FALSE,
         to |-> FALSE]

AccessInit ==
  /\ switch \in BOOLEAN
  /\ access = [b \in Buyers |-> "none"]
  /\ notice = [b \in Buyers |-> "none"]
  /\ desks = [d \in Desks |-> Free]
  /\ letIn = {} /\ unvetted = {}
  /\ crossed = {}

--------------------------------------------------------------------------------

\* A mistake: vetting ends with the paid package, as it once did
AppliesWhilePaid(package) == switch /\ package = "paid"

\* The switch alone decides whether buyers are vetted, whatever the package
ManualApprovalApplies(package) == switch

\* No answer once the paid package behind the switch has ended
ApprovalLocked(package) == package = "lapsed" \/ (switch /\ package = "minimum")

\* A paid package is needed to switch it on
CanApproveBuyersManually(package) == package # "minimum"

Concerned(d) == desks[d].buyer \cup desks[d].todo

\* A request of its own, about these buyers
Begin(d, bs, record) ==
  /\ desks[d] = Free
  /\ desks' = [desks EXCEPT ![d] = record]
  /\ crossed' = crossed \cup (bs \cap UNION {Concerned(e) : e \in Desks \ {d}})

\* The next buyer of those being let in, if any
NextOrEnd(d) ==
  desks' = [desks EXCEPT ![d] =
    IF desks[d].todo = {} THEN Free ELSE [Free EXCEPT !.step = "list", !.todo = desks[d].todo]]

Of(d, b) == desks[d].buyer = {b}

--------------------------------------------------------------------------------
(* A buyer accepts the agreement                                                *)

AcceptAgreement(d, b, package) ==
  /\ desks[d] = Free
  /\ IF ManualApprovalApplies(package)
       THEN Begin(d, {b}, [Free EXCEPT !.step = "room", !.buyer = {b}])
       ELSE Begin(d, {b}, [Free EXCEPT !.step = "open", !.buyer = {b}])
  /\ letIn' = IF switch THEN letIn ELSE letIn \cup {b}
  /\ UNCHANGED <<switch, access, notice, unvetted>>

\* A decision stands; a request that waits is not announced again
ReadRequest(d, b) ==
  /\ desks[d].step = "room" /\ Of(d, b)
  /\ desks' = [desks EXCEPT ![d] =
       IF access[b] \in {"APPROVED", "DECLINED"}
         THEN Free
         ELSE [@ EXCEPT !.step = "request", !.silent = access[b] = "PENDING"]]
  /\ UNCHANGED <<switch, access, notice, letIn, crossed, unvetted>>

WriteRequest(d, b) ==
  /\ desks[d].step = "request" /\ Of(d, b)
  /\ access' = [access EXCEPT ![b] = "PENDING"]
  /\ desks' = [desks EXCEPT ![d] =
       IF desks[d].silent THEN Free ELSE [@ EXCEPT !.step = "tell", !.told = "REQUESTED"]]
  /\ UNCHANGED <<switch, notice, letIn, crossed, unvetted>>

\* Nothing is posted where accepting is enough
LetInUnvetted(d, b) ==
  /\ desks[d].step = "open" /\ Of(d, b)
  /\ access' = [access EXCEPT ![b] = "APPROVED"]
  /\ desks' = [desks EXCEPT ![d] = Free]
  /\ unvetted' = unvetted \cup {b}
  /\ UNCHANGED <<switch, notice, letIn, crossed>>

Tell(d, b) ==
  /\ desks[d].step = "tell" /\ Of(d, b)
  /\ notice' = [notice EXCEPT ![b] = desks[d].told]
  /\ NextOrEnd(d)
  /\ UNCHANGED <<switch, access, letIn, crossed, unvetted>>

--------------------------------------------------------------------------------
(* The seller decides                                                           *)

Grant(d, b, package) ==
  /\ ~ApprovalLocked(package)
  /\ Begin(d, {b}, [Free EXCEPT !.step = "before", !.buyer = {b}])
  /\ letIn' = letIn \cup {b}
  /\ UNCHANGED <<switch, access, notice, unvetted>>

\* A mistake: whoever has a row counts as having access
HadRow(b) == access[b] # "none"

\* Approving somebody who has access already changes nothing and says nothing
HadAccess(b) == access[b] = "APPROVED"

ReadBefore(d, b) ==
  /\ desks[d].step = "before" /\ Of(d, b)
  /\ desks' = [desks EXCEPT ![d].step = "approve", ![d].silent = HadAccess(b)]
  /\ UNCHANGED <<switch, access, notice, letIn, crossed, unvetted>>

Approve(d, b) ==
  /\ desks[d].step = "approve" /\ Of(d, b)
  /\ access' = [access EXCEPT ![b] = "APPROVED"]
  /\ IF desks[d].silent
       THEN NextOrEnd(d)
       ELSE desks' = [desks EXCEPT ![d].step = "tell", ![d].told = "APPROVED"]
  /\ unvetted' = IF desks[d].silent THEN unvetted ELSE unvetted \ {b}
  /\ UNCHANGED <<switch, notice, letIn, crossed>>

Decline(d, b, package) ==
  /\ ~ApprovalLocked(package)
  /\ access[b] = "PENDING"
  /\ Begin(d, {b}, [Free EXCEPT !.step = "decline", !.buyer = {b}])
  /\ UNCHANGED <<switch, access, notice, letIn, unvetted>>

\* The row is updated, not created: a request taken away meanwhile is an error
WriteDecline(d, b) ==
  /\ desks[d].step = "decline" /\ Of(d, b)
  /\ IF access[b] = "none"
       THEN desks' = [desks EXCEPT ![d] = Free] /\ UNCHANGED access
       ELSE /\ access' = [access EXCEPT ![b] = "DECLINED"]
            /\ desks' = [desks EXCEPT ![d].step = "tell", ![d].told = "DECLINED"]
  /\ UNCHANGED <<switch, notice, letIn, crossed, unvetted>>

\* Those about to be let in
LettingIn(d) ==
  desks[d].todo \cup
    (IF desks[d].step \in {"open", "before", "approve"} THEN desks[d].buyer ELSE {})

Revoke(b) ==
  /\ access[b] # "none"
  /\ access' = [access EXCEPT ![b] = "none"]
  /\ letIn' = IF \E d \in Desks : b \in LettingIn(d) THEN letIn ELSE letIn \ {b}
  /\ crossed' = IF \E d \in Desks : b \in Concerned(d) THEN crossed \cup {b} ELSE crossed
  /\ UNCHANGED <<switch, notice, desks, unvetted>>

\* "Approve buyers manually" is switched off, and those who wait are let in
DisableManualApproval(d) ==
  /\ desks[d] = Free
  /\ switch' = FALSE
  /\ desks' = [desks EXCEPT ![d] = [Free EXCEPT !.step = "sweep"]]
  /\ UNCHANGED <<access, notice, letIn, crossed, unvetted>>

ReadWaiting(d) ==
  LET waiting == {b \in Buyers : access[b] = "PENDING"} IN
  /\ desks[d].step = "sweep"
  /\ desks' = [desks EXCEPT ![d] =
       IF waiting = {} THEN Free ELSE [Free EXCEPT !.step = "list", !.todo = waiting]]
  /\ crossed' = crossed \cup (waiting \cap UNION {Concerned(e) : e \in Desks \ {d}})
  /\ letIn' = letIn \cup waiting
  /\ UNCHANGED <<switch, access, notice, unvetted>>

LetNextIn(d, b) ==
  /\ desks[d].step = "list" /\ b \in desks[d].todo
  /\ desks' = [desks EXCEPT ![d].step = "before", ![d].buyer = {b}, ![d].todo = @ \ {b}]
  /\ UNCHANGED <<switch, access, notice, letIn, crossed, unvetted>>

--------------------------------------------------------------------------------
(* The listing is saved; a request stops                                        *)

\* Without a paid package a save writes back the switch it has read
SaveListing(d, wanted, package) ==
  /\ desks[d] = Free
  /\ desks' = [desks EXCEPT ![d] = [Free EXCEPT !.step = "write",
       !.to = IF CanApproveBuyersManually(package) THEN wanted ELSE switch]]
  /\ UNCHANGED <<switch, access, notice, letIn, crossed, unvetted>>

WriteListing(d) ==
  /\ desks[d].step = "write"
  /\ switch' = desks[d].to
  /\ desks' = [desks EXCEPT ![d] = Free]
  /\ UNCHANGED <<access, notice, letIn, crossed, unvetted>>

\* A database call fails or the process stops. A notice that cannot be posted is
\* let go of; anything else ends the request, or the turn of one who waited.
Break(d) ==
  /\ desks[d] # Free
  /\ NextOrEnd(d) \/ desks' = [desks EXCEPT ![d] = Free]
  /\ crossed' = crossed \cup Concerned(d)
  /\ UNCHANGED <<switch, access, notice, letIn, unvetted>>

AccessNext ==
  \/ \E d \in Desks, b \in Buyers :
       \/ \E package \in Packages :
            AcceptAgreement(d, b, package) \/ Grant(d, b, package) \/ Decline(d, b, package)
       \/ ReadRequest(d, b) \/ WriteRequest(d, b) \/ LetInUnvetted(d, b) \/ Tell(d, b)
       \/ ReadBefore(d, b) \/ Approve(d, b) \/ WriteDecline(d, b) \/ LetNextIn(d, b)
  \/ \E b \in Buyers : Revoke(b)
  \/ \E d \in Desks :
       \/ DisableManualApproval(d) \/ ReadWaiting(d) \/ WriteListing(d) \/ Break(d)
       \/ \E wanted \in BOOLEAN, package \in Packages : SaveListing(d, wanted, package)

AccessSpec == AccessInit /\ [][AccessNext]_accessVars

--------------------------------------------------------------------------------

\* The state of the access to a listing has its type.
AccessTypeOK ==
  /\ switch \in BOOLEAN
  /\ access \in [Buyers -> Status]
  /\ notice \in [Buyers -> Kinds]
  /\ desks \in [Desks -> Desk]
  /\ letIn \subseteq Buyers /\ unvetted \subseteq Buyers
  /\ crossed \subseteq Buyers

\* A buyer sees the details only if, since access was last taken away, the seller
\* approved them or stopped approving by hand, or they accepted while the listing did
\* not vet buyers; a package that lapses or is dropped lets nobody in.
LetInBySomeone == \A b \in Buyers : access[b] = "APPROVED" => b \in letIn

\* The last notice in the conversation says how the buyer's request stands, unless two
\* requests about that buyer overlapped or one failed: whoever waits, was declined or
\* was approved has been told so last; only where the listing does not vet is nothing
\* said.
NoticesTellTheRow ==
  \A b \in Buyers \ crossed :
    (\A d \in Desks : b \notin Concerned(d)) =>
      /\ access[b] = "PENDING" => notice[b] = "REQUESTED"
      /\ access[b] = "DECLINED" => notice[b] = "DECLINED"
      /\ access[b] = "APPROVED" /\ b \notin unvetted => notice[b] = "APPROVED"

\* Whatever the seller has decided is never turned back into a request that waits. The
\* code's comment says so of accepting the agreement again; it fails when the decision
\* falls between the request's reading of the row and its writing.
DecisionsStand ==
  [][\A b \in Buyers : access[b] \in {"APPROVED", "DECLINED"} => access'[b] # "PENDING"]_accessVars
================================================================================
