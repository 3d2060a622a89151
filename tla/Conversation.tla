----------------------------- MODULE Conversation ------------------------------
(* One conversation: the messages two people and the team write into it, the    *)
(* platform's own posts (the deal prompt of every so many messages, the notice  *)
(* that somebody asked to begin a deal, the notice of a blocked message), the   *)
(* offers that go through the message queue, and each person's own archive.     *)
(* Chat service, the sending handlers of the gateway, and the queue's worker.   *)
(* Every database call of a handler is a step of its own, so handlers overlap.  *)
EXTENDS Integers, FiniteSets

CONSTANTS
  Parties,      \* the buyer and the seller of the conversation
  Team,         \* the accounts whose role is ADMIN or MONITER
  Outsiders,    \* members who are signed in and have no part in it
  Texts,        \* what can be written
  Nobody,       \* the sender of the platform's own posts
  Every,        \* REMINDER_EVERY
  Callers,      \* requests being served at once
  Filers,       \* bound: who archives the conversation at all
  MaxRequests,  \* bound: requests made in all
  MaxFailures   \* bound: failing database calls and stopping processes

ASSUME ConversationAssumption ==
  /\ Every \in Nat \ {0}
  /\ Filers \subseteq Parties \cup Team
  /\ MaxRequests \in Nat
  /\ MaxFailures \in Nat
  /\ Nobody \notin Parties \cup Team \cup Outsiders \cup Texts

VARIABLES
  rows,         \* the messages stored, newest with the greatest id
  isOffered,    \* Chat.isOffered
  archived,     \* who has ChatLabel.archived set for it
  jobs,         \* the messages in the conversation's queue
  calls,        \* what each request being served is about to do
  ids,          \* ids given out so far
  asked,        \* bound: requests so far
  \* history
  peak,         \* the most messages people ever had in the conversation
  unseen,       \* who has it archived while somebody else has written since
  promised,     \* the offers queued without an id, unless their sender deleted them
  everOffered,  \* was a deal ever begun
  failed        \* what has failed so far

threadVars == <<rows, isOffered, archived, jobs, calls, ids, asked, peak, unseen,
                promised, everOffered, failed>>

People == Parties \cup Team \cup Outsiders
Anyone == People \cup {Nobody}

\* "by" is who asked to begin the deal, "at" the milestone of a prompt
Row == [id : Nat, kind : {"text", "team", "call", "offer", "prompt", "deal", "blocked"},
        from : Anyone, text : Texts \cup {Nobody}, by : Anyone, at : Nat, recent : BOOLEAN]
\* "named" is a job whose message carries an id of its client's
Job == [id : Nat, from : People, text : Texts, named : BOOLEAN]
Steps == {"none", "create", "unarchive", "offered", "count", "find", "post",
          "notice", "add", "take", "look", "save", "remove"}
Call == [op : {"none", "text", "team", "call", "deal", "offer"}, step : Steps,
         who : Anyone, text : Texts \cup {Nobody}, named : BOOLEAN, at : Nat,
         took : SUBSET Job, save : SUBSET Job]

Idle == [op |-> "none", step |-> "none", who |-> Nobody, text |-> Nobody,
         named |-> FALSE, at |-> 0, took |-> {}, save |-> {}]

--------------------------------------------------------------------------------

\* The message the platform or a person adds next
Post(kind, from, text, by, at) ==
  [id |-> ids + 1, kind |-> kind, from |-> from, text |-> text, by |-> by, at |-> at,
   recent |-> from # Nobody]

\* What people said; the platform's own posts carry no sender
Said(rs) == {r \in rs : r.from # Nobody}

\* The latest milestone that a conversation of n messages has reached
Milestone(n) == (n \div Every) * Every

Prompts(rs) == {r \in rs : r.kind = "prompt"}

\* The same words by the same person, a few seconds ago
Repeats(u, x) == {r \in rows : r.from = u /\ r.text = x /\ r.recent}

\* The message of a job, stored already
Stored(j) == \E r \in rows : r.kind = "offer" /\ r.from = j.from /\ r.text = j.text

DealNotices(u) == {r \in rows : r.kind = "deal" /\ r.by = u}

Request(c) == calls[c] = Idle /\ asked < MaxRequests /\ asked' = asked + 1
Step(c, step) == calls[c].step = step /\ UNCHANGED asked
Goto(c, step) == calls' = [calls EXCEPT ![c].step = step]
Done(c) == calls' = [calls EXCEPT ![c] = Idle]

\* What follows the saving of a message: only send:message looks for a milestone
AfterSaving(c) == IF calls[c].op = "text" THEN Goto(c, "offered") ELSE Done(c)

ThreadInit ==
  /\ rows = {} /\ isOffered = FALSE /\ archived = {}
  /\ jobs = {} /\ calls = [c \in Callers |-> Idle] /\ ids = 0 /\ asked = 0
  /\ peak = 0 /\ unseen = {} /\ promised = {}
  /\ everOffered = FALSE /\ failed = 0

kept == <<isOffered, archived, jobs, unseen, promised, everOffered, failed>>

\* History: the most messages there ever were
Peak == LET n == Cardinality(Said(rows')) IN peak' = IF n > peak THEN n ELSE peak

\* One message more in the conversation
Store(row) ==
  /\ rows' = rows \cup {row}
  /\ ids' = ids + 1
  /\ Peak

--------------------------------------------------------------------------------
(* Writing a message                                                            *)

\* createMessage looks for a repeat; a repeat is answered with the row there is
Say(c, op, u, x) ==
  /\ Request(c)
  /\ op \in {"text", "call"} => u \in Parties
  /\ op = "team" => u \in Team
  /\ \/ /\ Repeats(u, x) # {}
        /\ IF op = "text"
             THEN calls' = [calls EXCEPT ![c] =
                    [Idle EXCEPT !.op = op, !.step = "offered", !.who = u]]
             ELSE UNCHANGED calls
     \/ /\ Repeats(u, x) = {}
        /\ calls' = [calls EXCEPT ![c] =
             [Idle EXCEPT !.op = op, !.step = "create", !.who = u, !.text = x]]
  /\ UNCHANGED <<rows, ids, peak, kept>>

Create(c) ==
  /\ Step(c, "create")
  /\ Store(Post(calls[c].op, calls[c].who, calls[c].text, Nobody, 0))
  /\ unseen' = unseen \cup (archived \ {calls[c].who})
  /\ Goto(c, "unarchive")
  /\ UNCHANGED <<isOffered, archived, jobs, promised, everOffered, failed>>

\* A mistake: it comes out of the writer's own archive
UnarchiveOwn(c) ==
  /\ Step(c, "unarchive")
  /\ archived' = archived \ {calls[c].who}
  /\ unseen' = unseen \ {calls[c].who}
  /\ AfterSaving(c)
  /\ UNCHANGED <<rows, isOffered, jobs, ids, peak, promised, everOffered, failed>>

\* A new message pulls the conversation out of everybody else's archive
Unarchive(c) ==
  /\ Step(c, "unarchive")
  /\ archived' = archived \cap {calls[c].who}
  /\ unseen' = unseen \cap {calls[c].who}
  /\ AfterSaving(c)
  /\ UNCHANGED <<rows, isOffered, jobs, ids, peak, promised, everOffered, failed>>

\* A message with contact details or a prohibited word is kept back; both are told
Block(c) ==
  /\ Request(c)
  /\ Store(Post("blocked", Nobody, Nobody, Nobody, 0))
  /\ UNCHANGED <<calls, kept>>

\* One may delete what one wrote
Delete(u, r) ==
  /\ asked < MaxRequests /\ asked' = asked + 1
  /\ r \in rows /\ r.from = u
  /\ rows' = rows \ {r}
  /\ promised' = IF r.kind = "offer" THEN promised \ {<<u, r.text>>} ELSE promised
  /\ UNCHANGED <<isOffered, archived, jobs, calls, ids, peak, unseen,
                 everOffered, failed>>

--------------------------------------------------------------------------------
(* The deal prompt, looked for after each message sent                          *)

\* None once a deal has begun, none where the team is one of the two
CheckOffered(c) ==
  /\ Step(c, "offered")
  /\ IF isOffered \/ Parties \cap Team # {} THEN Done(c) ELSE Goto(c, "count")
  /\ UNCHANGED <<rows, ids, peak, kept>>

\* A mistake: only a count that is itself a milestone is one
ExactCount(c) ==
  LET n == Cardinality(Said(rows)) IN
  /\ Step(c, "count")
  /\ IF n = 0 \/ n % Every # 0
       THEN Done(c)
       ELSE calls' = [calls EXCEPT ![c].step = "find", ![c].at = n]
  /\ UNCHANGED <<rows, ids, peak, kept>>

Count(c) ==
  LET m == Milestone(Cardinality(Said(rows))) IN
  /\ Step(c, "count")
  /\ IF m < Every
       THEN Done(c)
       ELSE calls' = [calls EXCEPT ![c].step = "find", ![c].at = m]
  /\ UNCHANGED <<rows, ids, peak, kept>>

Announced(m) == \E r \in Prompts(rows) : r.at = m

Find(c) ==
  /\ Step(c, "find")
  /\ IF Announced(calls[c].at) THEN Done(c) ELSE Goto(c, "post")
  /\ UNCHANGED <<rows, ids, peak, kept>>

\* A mistake: an id drawn at random, which no second insert meets
PromptWithAnyId(c) ==
  /\ Step(c, "post")
  /\ Store(Post("prompt", Nobody, Nobody, Nobody, calls[c].at))
  /\ Done(c)
  /\ UNCHANGED kept

\* The prompt's id is made of the milestone: a second insert is refused
Prompt(c) ==
  /\ Step(c, "post")
  /\ \/ ~Announced(calls[c].at) /\ Store(Post("prompt", Nobody, Nobody, Nobody, calls[c].at))
     \/ Announced(calls[c].at) /\ UNCHANGED <<rows, ids, peak>>
  /\ Done(c)
  /\ UNCHANGED kept

--------------------------------------------------------------------------------
(* Beginning a deal                                                             *)

StartDeal(c, u) ==
  /\ Request(c)
  /\ u \in Parties
  /\ DealNotices(u) = {}
  /\ calls' = [calls EXCEPT ![c] = [Idle EXCEPT !.op = "deal", !.step = "notice", !.who = u]]
  /\ UNCHANGED <<rows, ids, peak, kept>>

\* The notice and the chat's flag are written in one transaction
Notice(c) ==
  /\ Step(c, "notice")
  /\ Store(Post("deal", Nobody, Nobody, calls[c].who, 0))
  /\ isOffered' = TRUE
  /\ everOffered' = TRUE
  /\ Done(c)
  /\ UNCHANGED <<archived, jobs, unseen, promised, failed>>

--------------------------------------------------------------------------------
(* Offers and answers to them: the chat's flag, then the queue, then its worker *)

\* Any member's message, with an id if its client gave it one
Offer(c, u, x, yes, named) ==
  /\ Request(c)
  /\ isOffered' = yes
  /\ everOffered' = (everOffered \/ yes)
  /\ calls' = [calls EXCEPT ![c] =
       [Idle EXCEPT !.op = "offer", !.step = "add", !.who = u, !.text = x, !.named = named]]
  /\ UNCHANGED <<rows, archived, jobs, ids, peak, unseen, promised, failed>>

Add(c) ==
  /\ Step(c, "add")
  /\ jobs' = jobs \cup {[id |-> ids + 1, from |-> calls[c].who, text |-> calls[c].text,
                         named |-> calls[c].named]}
  /\ ids' = ids + 1
  /\ promised' = IF calls[c].named
                   THEN promised ELSE promised \cup {<<calls[c].who, calls[c].text>>}
  /\ Goto(c, "take")
  /\ UNCHANGED <<rows, isOffered, archived, peak, unseen, everOffered, failed>>

\* A message with an id counts as saved
ToSave(js) == {j \in js : ~j.named}

\* The worker reads every job there is, its own or not, and looks for those to save
Take(c) ==
  /\ Step(c, "take")
  /\ IF jobs = {}
       THEN Done(c)
       ELSE calls' = [calls EXCEPT
              ![c].step = IF ToSave(jobs) = {} THEN "remove" ELSE "look", ![c].took = jobs]
  /\ UNCHANGED <<rows, ids, peak, kept>>

\* A job stored already is left out. One that carries its client's date counts as
\* stored only beside a message of about that date, so that any may be taken for new.
Look(c) ==
  /\ Step(c, "look")
  /\ \E known \in SUBSET {j \in ToSave(calls[c].took) : Stored(j)} :
       LET new == ToSave(calls[c].took) \ known
       IN  calls' = [calls EXCEPT ![c].step = IF new = {} THEN "remove" ELSE "save",
                                  ![c].save = new]
  /\ UNCHANGED <<rows, ids, peak, kept>>

Bundle(js) == {[Post("offer", j.from, j.text, Nobody, 0) EXCEPT !.id = ids + j.id] : j \in js}

\* Nobody's archive is touched
Save(c) ==
  /\ Step(c, "save")
  /\ rows' = rows \cup Bundle(calls[c].save)
  /\ ids' = ids + ids
  /\ Peak
  /\ Goto(c, "remove")
  /\ UNCHANGED kept

\* A mistake: the queue is emptied of whatever is in it by now
RemoveAll(c) ==
  /\ Step(c, "remove")
  /\ jobs' = {}
  /\ Done(c)
  /\ UNCHANGED <<rows, isOffered, archived, ids, peak, unseen, promised,
                 everOffered, failed>>

Remove(c) ==
  /\ Step(c, "remove")
  /\ jobs' = jobs \ calls[c].took
  /\ Done(c)
  /\ UNCHANGED <<rows, isOffered, archived, ids, peak, unseen, promised,
                 everOffered, failed>>

--------------------------------------------------------------------------------
(* Each person's own archive; time; failures                                    *)

Archive(u) ==
  /\ archived' = archived \cup {u}
  /\ unseen' = unseen \ {u}
  /\ UNCHANGED <<rows, isOffered, jobs, calls, ids, asked, peak, promised, everOffered, failed>>

BringBack(u) ==
  /\ archived' = archived \ {u}
  /\ unseen' = unseen \ {u}
  /\ UNCHANGED <<rows, isOffered, jobs, calls, ids, asked, peak, promised, everOffered, failed>>

\* Five seconds without a message. Only a request still to be made would notice (bound)
FewSecondsPass ==
  /\ asked < MaxRequests
  /\ \E r \in rows : r.recent
  /\ rows' = {[r EXCEPT !.recent = FALSE] : r \in rows}
  /\ UNCHANGED <<jobs, calls, ids, asked, peak, isOffered, archived, unseen,
                 promised, everOffered, failed>>

\* A database call fails: unarchiving goes on without it, anything else stops there
Fail(c) ==
  /\ failed < MaxFailures
  /\ calls[c] # Idle
  /\ IF calls[c].step = "unarchive" THEN AfterSaving(c) ELSE Done(c)
  /\ failed' = failed + 1
  /\ UNCHANGED <<rows, isOffered, archived, jobs, ids, asked, peak, unseen,
                 promised, everOffered>>

\* The process stops; messages and queue are elsewhere
Crash ==
  /\ failed < MaxFailures
  /\ \E c \in Callers : calls[c] # Idle
  /\ calls' = [c \in Callers |-> Idle]
  /\ failed' = failed + 1
  /\ UNCHANGED <<rows, isOffered, archived, jobs, ids, asked, peak, unseen,
                 promised, everOffered>>

ThreadNext ==
  \/ \E c \in Callers, u \in People, x \in Texts, op \in {"text", "team", "call"} :
       Say(c, op, u, x)
  \/ \E c \in Callers, u \in People, x \in Texts, yes, named \in BOOLEAN :
       Offer(c, u, x, yes, named)
  \/ \E c \in Callers, u \in Parties : StartDeal(c, u)
  \/ \E c \in Callers :
       \/ Create(c) \/ Unarchive(c) \/ Block(c)
       \/ CheckOffered(c) \/ Count(c) \/ Find(c) \/ Prompt(c)
       \/ Notice(c) \/ Add(c) \/ Take(c) \/ Look(c) \/ Save(c) \/ Remove(c)
       \/ Fail(c)
  \/ \E u \in Filers : Archive(u) \/ BringBack(u)
  \/ \E u \in People, r \in rows : Delete(u, r)
  \/ FewSecondsPass
  \/ Crash

ThreadSpec == ThreadInit /\ [][ThreadNext]_threadVars

--------------------------------------------------------------------------------

Quiet == \A c \in Callers : calls[c] = Idle

\* The conversation's state has its type.
ThreadTypeOK ==
  /\ rows \subseteq Row
  /\ isOffered \in BOOLEAN
  /\ archived \subseteq Filers
  /\ jobs \subseteq Job
  /\ calls \in [Callers -> Call]
  /\ ids \in Nat /\ asked \in Nat /\ peak \in Nat
  /\ unseen \subseteq Filers
  /\ promised \subseteq People \X Texts
  /\ everOffered \in BOOLEAN
  /\ failed \in 0..MaxFailures

\* The platform prompts once per milestone, and only at a milestone that the
\* messages of people alone have reached: its own posts never bring a prompt on.
PromptsAreDue ==
  \A r \in Prompts(rows) :
    /\ r.at # 0 /\ r.at % Every = 0 /\ r.at <= peak
    /\ \A s \in Prompts(rows) : s.at = r.at => s = r

\* No milestone is skipped: when all is done and the last thing said was sent as a
\* message, the milestone the conversation stands at, or a later one, is announced,
\* whichever messages were stored on other paths, together, or deleted on the way.
\* A conversation with one of the team is never prompted.
NoMilestoneSkipped ==
  (Quiet /\ failed = 0 /\ ~everOffered /\ Parties \cap Team = {}) =>
    \A last \in Said(rows) :
      (last.kind = "text" /\ \A r \in Said(rows) : r.id <= last.id) =>
        LET m == Milestone(Cardinality(Said(rows)))
        IN  m >= Every => \E r \in Prompts(rows) : r.at >= m

\* A message that somebody else wrote after one archived the conversation is not
\* left lying in the archive: the conversation has been brought back, or the request
\* that stored the message is about to, unless something failed there. The messages
\* are those createMessage stores; the offers of the queue are not among them.
ArchivedHidesNothingNew ==
  \A u \in unseen :
    \/ failed > 0
    \/ \E c \in Callers : calls[c].step = "unarchive" /\ calls[c].who # u

\* An offer stored while somebody else has the conversation archived brings it back:
\* chat.service.ts:1883-1886 gives an offer in the archive as the reason why a new
\* message does.  The queue's worker, which stores offers, does not.
OffersAreBroughtBack ==
  [][\A r \in rows' \ rows : \A u \in archived \ {r.from} :
       r.kind = "offer" => \E c \in Callers : calls'[c].step = "unarchive"]_threadVars

\* An offer that was queued without an id is stored or still queued, whatever workers
\* overlap, fail or stop on the way, until its sender deletes it.
OffersAreKept ==
  \A p \in promised :
    \/ \E j \in jobs : p = <<j.from, j.text>>
    \/ \E r \in rows : r.kind = "offer" /\ p = <<r.from, r.text>>

\* message-queue.service.ts:59-60: what the worker leaves out for the id it carries
\* is saved already, and may be removed from the queue.
NamedJobsAreSaved ==
  \A c \in Callers : calls[c].step = "remove" =>
    \A j \in calls[c].took : j.named =>
      \E r \in rows : r.from = j.from /\ r.text = j.text

================================================================================
