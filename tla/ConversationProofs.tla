-------------------------- MODULE ConversationProofs ---------------------------
(* One conversation, for any number of people, texts, requests and failures.  *)
(*                                                                            *)
(* That an offer is kept rests on what each overlapping worker is going to do *)
(* with the job it has read: as long as the offer is not stored, one of its   *)
(* jobs is safe from all of them.  That a prompt is due rests on what each    *)
(* request has counted, which messages deleted meanwhile do not undo.  That   *)
(* no milestone is skipped rests on each message's own milestone: it is       *)
(* announced already, or some request is still to look for it or for a later  *)
(* one.                                                                       *)
EXTENDS Conversation, FiniteSetTheorems, TLAPS

(* The messages stored, and the prompts among them.                           *)
RowsFit ==
  /\ rows \subseteq Row /\ IsFiniteSet(rows)
  /\ ids \in Nat /\ peak \in Nat /\ Cardinality(Said(rows)) <= peak
  /\ PromptsAreDue

(* A milestone, made of messages that were there.                             *)
Reached(m, most) == m # 0 /\ m % Every = 0 /\ m <= most

(* What a request may hold, by what it is about to do.                        *)
Able(call, n, most) ==
  /\ call \in Call
  /\ call.step = "create" => call.op \in {"text", "team", "call"}
  /\ call.step = "add" => call.who \in People /\ call.text \in Texts
  /\ call.step \in {"find", "post"} => Reached(call.at, most)
  /\ IsFiniteSet(call.took) /\ IsFiniteSet(call.save)
  /\ \A j \in call.took : j.id <= n

CallsFit ==
  /\ calls \in [Callers -> Call]
  /\ \A c \in Callers : Able(calls[c], ids, peak)
  /\ jobs \subseteq Job /\ IsFiniteSet(jobs)
  /\ \A j \in jobs : j.id <= ids

FlagsFit ==
  /\ isOffered \in BOOLEAN /\ everOffered \in BOOLEAN
  /\ archived \subseteq Filers /\ unseen \subseteq Filers
  /\ promised \subseteq People \X Texts
  /\ asked \in Nat /\ failed \in 0..MaxFailures

(* A worker will not remove the job before it has stored its message, unless  *)
(* the message carries an id.                                                 *)
Spares(call, j) ==
  j \in call.took /\ ~j.named =>
    call.step # "remove" /\ (call.step = "save" => j \in call.save)

OfferStored(p) == \E r \in rows : r.kind = "offer" /\ p = <<r.from, r.text>>

OfferQueued(p) ==
  \E j \in jobs :
    ~j.named /\ p = <<j.from, j.text>> /\ \A c \in Callers : Spares(calls[c], j)

OffersFit == \A p \in promised : OfferStored(p) \/ OfferQueued(p)

ThreadInv == RowsFit /\ CallsFit /\ FlagsFit /\ ArchivedHidesNothingNew /\ OffersFit

--------------------------------------------------------------------------------
(* Sets and numbers                                                           *)

(* A request with nothing to do holds nothing.                                *)
LEMMA IdleIsAble ==
  /\ Idle \in Call /\ Idle.step = "none" /\ Idle.took = {}
  /\ \A n, most \in Nat : Able(Idle, n, most)
<1>1. /\ Idle.step = "none" /\ Idle.took = {} /\ Idle.save = {} /\ Idle.op = "none"
      /\ Idle.who = Nobody /\ Idle.text = Nobody /\ Idle.named = FALSE /\ Idle.at = 0
  BY DEF Idle
<1>2. Idle \in Call
  BY DEF Idle, Call, Steps, Anyone
<1>3. QED
  BY <1>1, <1>2, FS_EmptySet DEF Able

(* A number of messages and the milestone it has reached.                     *)
LEMMA MilestoneReached ==
  ASSUME NEW n \in Nat, Milestone(n) >= Every
  PROVE  Milestone(n) \in Nat /\ Reached(Milestone(n), n)
<1> DEFINE q == n \div Every
<1>1. Every \in Nat \ {0}
  BY ConversationAssumption
<1>2. n = Every * q + (n % Every) /\ n % Every \in 0..(Every - 1) /\ q \in Int
  BY <1>1
<1>3. q \in Nat
  BY <1>1, <1>2
<1>4. q * Every = Every * q /\ q * Every \in Nat
  BY <1>1, <1>3
<1>5. Milestone(n) = q * Every
  BY DEF Milestone
<1> HIDE DEF q
<1>6. (q * Every) % Every = 0
  BY <1>1, <1>3
<1>7. Milestone(n) <= n /\ Milestone(n) # 0
  BY <1>1, <1>2, <1>4, <1>5
<1>8. QED
  BY <1>4, <1>5, <1>6, <1>7 DEF Reached

(* What people said is finite.                                                *)
LEMMA SaidIsFinite ==
  ASSUME NEW rs, IsFiniteSet(rs)
  PROVE  IsFiniteSet(Said(rs)) /\ Cardinality(Said(rs)) \in Nat
<1>1. Said(rs) \in SUBSET rs
  BY DEF Said
<1>2. IsFiniteSet(Said(rs))
  BY <1>1, FS_Subset
<1>3. QED
  BY <1>2, FS_CardinalityType

(* The most messages there ever were.                                         *)
LEMMA PeakHolds ==
  ASSUME RowsFit, IsFiniteSet(rows'), Peak
  PROVE  peak' \in Nat /\ peak <= peak' /\ Cardinality(Said(rows')) <= peak'
<1> DEFINE n == Cardinality(Said(rows'))
<1>1. n \in Nat
  BY SaidIsFinite
<1>2. peak' = IF n > peak THEN n ELSE peak
  BY DEF Peak
<1> HIDE DEF n
<1>3. peak' \in Nat /\ peak <= peak' /\ n <= peak'
  BY <1>1, <1>2 DEF RowsFit
<1>4. QED
  BY <1>3 DEF n

--------------------------------------------------------------------------------
(* Rows                                                                       *)

(* A message is stored that is no prompt, or a prompt that is due and new.    *)
LEMMA RowStored ==
  ASSUME RowsFit, NEW row \in Row, Store(row),
         row.kind = "prompt" => Reached(row.at, peak) /\ ~Announced(row.at)
  PROVE  /\ RowsFit' /\ ids' = ids + 1 /\ ids <= ids' /\ peak <= peak' /\ peak' \in Nat
         /\ rows \subseteq rows'
<1>1. rows' = rows \cup {row} /\ ids' = ids + 1 /\ Peak
  BY DEF Store
<1>2. IsFiniteSet(rows')
  BY <1>1, FS_AddElement DEF RowsFit
<1>3. peak' \in Nat /\ peak <= peak' /\ Cardinality(Said(rows')) <= peak'
  BY <1>1, <1>2, PeakHolds
<1>4. \A r \in Prompts(rows') : r \in Prompts(rows) \/ (r = row /\ row.kind = "prompt")
  BY <1>1 DEF Prompts
<1>5. PromptsAreDue'
  <2>1. ASSUME NEW r \in Prompts(rows')
        PROVE  r.at # 0 /\ r.at % Every = 0 /\ r.at <= peak'
    <3>1. r.at \in Nat
      BY <1>1 DEF RowsFit, Prompts, Row
    <3>2. r.at # 0 /\ r.at % Every = 0 /\ r.at <= peak
      BY <1>4, <2>1 DEF RowsFit, PromptsAreDue, Reached
    <3>3. peak \in Nat
      BY DEF RowsFit
    <3>4. r.at <= peak'
      BY <1>3, <3>1, <3>2, <3>3
    <3>5. QED
      BY <3>2, <3>4
  <2>2. ASSUME NEW r \in Prompts(rows'), NEW s \in Prompts(rows'), s.at = r.at
        PROVE  s = r
    <3>1. \A q \in Prompts(rows) : row.kind = "prompt" => q.at # row.at
      BY DEF Announced
    <3>2. \A q \in Prompts(rows) : q.at = r.at /\ r \in Prompts(rows) => q = r
      BY DEF RowsFit, PromptsAreDue
    <3>3. QED
      BY <1>4, <2>2, <3>1, <3>2
  <2>3. QED
    BY <2>1, <2>2 DEF PromptsAreDue
<1>6. ids' \in Nat /\ ids <= ids'
  BY <1>1 DEF RowsFit
<1>7. QED
  BY <1>1, <1>2, <1>3, <1>5, <1>6 DEF RowsFit

(* The rows are left alone.                                                   *)
LEMMA RowsLeft ==
  ASSUME RowsFit, UNCHANGED <<rows, peak>>, ids' \in Nat
  PROVE  RowsFit'
  BY DEF RowsFit, PromptsAreDue

--------------------------------------------------------------------------------
(* Requests                                                                   *)

(* One request goes on with something it may hold.                            *)
LEMMA CallMoved ==
  ASSUME CallsFit, NEW c \in Callers, NEW call, calls' = [calls EXCEPT ![c] = call],
         ids \in Nat, ids' \in Nat, ids <= ids', peak \in Nat, peak' \in Nat, peak <= peak',
         Able(call, ids', peak'), jobs' \subseteq jobs
  PROVE  CallsFit'
<1>1. \A e \in Callers : calls'[e] = IF e = c THEN call ELSE calls[e]
  BY DEF CallsFit
<1>2. calls' \in [Callers -> Call]
  BY DEF CallsFit, Able
<1>3. ASSUME NEW e \in Callers PROVE Able(calls'[e], ids', peak')
  <2>1. CASE e = c
    BY <1>1, <2>1
  <2>2. CASE e # c
    <3>1. calls'[e] = calls[e] /\ Able(calls[e], ids, peak)
      BY <1>1, <2>2 DEF CallsFit
    <3>2. calls[e].at \in Nat /\ \A j \in calls[e].took : j.id \in Nat
      BY DEF CallsFit, Call, Job
    <3>3. calls[e].at <= peak => calls[e].at <= peak'
      BY <3>2
    <3>4. \A j \in calls[e].took : j.id <= ids => j.id <= ids'
      BY <3>2
    <3>5. QED
      BY <3>1, <3>3, <3>4 DEF Able, Reached
  <2>3. QED
    BY <2>1, <2>2
<1>4. IsFiniteSet(jobs')
  BY FS_Subset DEF CallsFit
<1>5. ASSUME NEW j \in jobs' PROVE j.id <= ids'
  <2>1. j.id \in Nat /\ j.id <= ids
    BY DEF CallsFit, Job
  <2>2. QED
    BY <2>1
<1>6. QED
  BY <1>2, <1>3, <1>4, <1>5 DEF CallsFit

(* A request that moves on leaves the others what they hold.                  *)
LEMMA CallMovedOnly ==
  ASSUME CallsFit, NEW c \in Callers, NEW call, calls' = [calls EXCEPT ![c] = call],
         UNCHANGED <<ids, peak, jobs>>, ids \in Nat, peak \in Nat, Able(call, ids, peak)
  PROVE  CallsFit'
<1>1. /\ ids' \in Nat /\ ids <= ids' /\ peak' \in Nat /\ peak <= peak'
      /\ jobs' \subseteq jobs
  OBVIOUS
<1>2. Able(call, ids', peak')
  <2>1. ids' = ids /\ peak' = peak
    OBVIOUS
  <2>2. QED
    BY <2>1
<1>3. QED
  BY <1>1, <1>2, CallMoved

(* A request goes on to another step with all it holds.                       *)
LEMMA WentOn ==
  ASSUME CallsFit, NEW c \in Callers, NEW step \in Steps, Goto(c, step)
  PROVE  \E call \in Call :
           /\ calls' = [calls EXCEPT ![c] = call] /\ call.step = step
           /\ call.op = calls[c].op /\ call.who = calls[c].who /\ call.text = calls[c].text
           /\ call.at = calls[c].at /\ call.took = calls[c].took /\ call.save = calls[c].save
<1> DEFINE call == [calls[c] EXCEPT !.step = step]
<1>1. calls[c] \in Call /\ calls' = [calls EXCEPT ![c] = call]
  BY DEF CallsFit, Goto
<1>2. /\ call \in Call /\ call.step = step
      /\ call.op = calls[c].op /\ call.who = calls[c].who /\ call.text = calls[c].text
      /\ call.at = calls[c].at /\ call.took = calls[c].took /\ call.save = calls[c].save
  BY <1>1 DEF Call
<1>3. QED
  BY <1>1, <1>2

(* What was written since stays in nobody's archive without a request about   *)
(* to bring it back.                                                          *)
LEMMA StillBringing ==
  ASSUME CallsFit, ArchivedHidesNothingNew, NEW c \in Callers, NEW call,
         calls' = [calls EXCEPT ![c] = call],
         calls[c].step # "unarchive", unseen' \subseteq unseen, failed' = failed
  PROVE  ArchivedHidesNothingNew'
<1>1. \A e \in Callers \ {c} : calls'[e] = calls[e]
  BY DEF CallsFit
<1>2. ASSUME NEW u \in unseen', ~(failed' > 0)
      PROVE  \E e \in Callers : calls'[e].step = "unarchive" /\ calls'[e].who # u
  <2>1. PICK e \in Callers : calls[e].step = "unarchive" /\ calls[e].who # u
    BY <1>2 DEF ArchivedHidesNothingNew
  <2>2. calls'[e] = calls[e]
    BY <1>1, <2>1
  <2>3. QED
    BY <2>1, <2>2
<1>3. QED
  BY <1>2 DEF ArchivedHidesNothingNew

(* An offer is still kept when a request does it no harm.                     *)
LEMMA StillKept ==
  ASSUME CallsFit, OffersFit, NEW c \in Callers, NEW call,
         calls' = [calls EXCEPT ![c] = call], rows \subseteq rows', UNCHANGED <<jobs, promised>>,
         \A j \in jobs : Spares(calls[c], j) => Spares(call, j) \/ OfferStored(<<j.from, j.text>>)'
  PROVE  OffersFit'
<1>1. \A e \in Callers : calls'[e] = IF e = c THEN call ELSE calls[e]
  BY DEF CallsFit
<1>2. ASSUME NEW p \in promised PROVE OfferStored(p)' \/ OfferQueued(p)'
  <2>1. CASE OfferStored(p)
    BY <2>1 DEF OfferStored
  <2>2. CASE OfferQueued(p)
    <3>1. PICK j \in jobs :
            ~j.named /\ p = <<j.from, j.text>> /\ \A e \in Callers : Spares(calls[e], j)
      BY <2>2 DEF OfferQueued
    <3>2. CASE Spares(call, j)
      <4>1. \A e \in Callers : Spares(calls'[e], j)
        BY <1>1, <3>1, <3>2
      <4>2. QED
        BY <3>1, <4>1 DEF OfferQueued
    <3>3. CASE OfferStored(<<j.from, j.text>>)'
      <4>1. p = <<j.from, j.text>>
        BY <3>1
      <4>2. QED
        BY <3>3, <4>1 DEF OfferStored
    <3>4. QED
      BY <3>1, <3>2, <3>3
  <2>3. QED
    BY <2>1, <2>2 DEF OffersFit
<1>3. QED
  BY <1>2 DEF OffersFit

--------------------------------------------------------------------------------
(* The steps that read, and change what their own request holds only          *)

(* A step that only moves one request keeps the inductive invariant.          *)
LEMMA OneCall ==
  ASSUME ThreadInv, NEW c \in Callers, NEW call, calls' = [calls EXCEPT ![c] = call],
         Able(call, ids, peak), calls[c].step # "unarchive",
         UNCHANGED <<rows, ids, peak, kept>>, asked' \in Nat,
         \A j \in jobs : Spares(call, j) \/ OfferStored(<<j.from, j.text>>)
  PROVE  ThreadInv'
<1>1. ids \in Nat /\ peak \in Nat /\ ids <= ids /\ peak <= peak
  BY DEF ThreadInv, RowsFit
<1>2. /\ UNCHANGED <<isOffered, archived, jobs, unseen, promised, everOffered, failed>>
      /\ RowsFit /\ CallsFit /\ OffersFit /\ ArchivedHidesNothingNew
  BY DEF kept, ThreadInv
<1>3. RowsFit'
  BY <1>1, <1>2, RowsLeft
<1>4. CallsFit'
  BY <1>1, <1>2, CallMoved
<1>5. ArchivedHidesNothingNew'
  BY <1>2, StillBringing
<1>6. OffersFit'
  <2>1. \A j \in jobs : OfferStored(<<j.from, j.text>>)' <=> OfferStored(<<j.from, j.text>>)
    BY DEF OfferStored
  <2>2. QED
    BY <1>2, <2>1, StillKept
<1>7. FlagsFit'
  BY <1>2 DEF ThreadInv, FlagsFit
<1>8. QED
  BY <1>3, <1>4, <1>5, <1>6, <1>7 DEF ThreadInv

(* A request that ends so.                                                    *)
LEMMA OneEnds ==
  ASSUME ThreadInv, NEW c \in Callers, Done(c), calls[c].step # "unarchive",
         UNCHANGED <<rows, ids, peak, kept, asked>>
  PROVE  ThreadInv'
<1>1. /\ calls' = [calls EXCEPT ![c] = Idle] /\ Able(Idle, ids, peak)
      /\ asked' \in Nat /\ UNCHANGED <<rows, ids, peak, kept>>
      /\ \A j \in jobs : Spares(Idle, j)
  BY IdleIsAble DEF Done, ThreadInv, RowsFit, FlagsFit, Spares
<1>2. QED
  BY <1>1, OneCall

(* A request that goes on to a step that asks nothing of what it holds.       *)
LEMMA OneGoesOn ==
  ASSUME ThreadInv, NEW c \in Callers, NEW step \in {"offered", "count", "find", "post"},
         Goto(c, step), calls[c].step # "unarchive",
         step \in {"find", "post"} => Reached(calls[c].at, peak),
         UNCHANGED <<rows, ids, peak, kept, asked>>
  PROVE  ThreadInv'
<1>1. PICK call \in Call :
        /\ calls' = [calls EXCEPT ![c] = call] /\ call.step = step
        /\ call.op = calls[c].op /\ call.who = calls[c].who /\ call.text = calls[c].text
        /\ call.at = calls[c].at /\ call.took = calls[c].took /\ call.save = calls[c].save
  BY WentOn DEF ThreadInv, Steps
<1>2. Able(call, ids, peak)
  BY <1>1 DEF ThreadInv, CallsFit, Able
<1>3. \A j \in jobs : Spares(call, j)
  BY <1>1 DEF Spares
<1>4. asked' \in Nat /\ UNCHANGED <<rows, ids, peak, kept>>
  BY DEF ThreadInv, FlagsFit
<1>5. QED
  BY <1>1, <1>2, <1>3, <1>4, OneCall

(* Somebody writes: a repeat is answered with the row there is.               *)
LEMMA SayStep ==
  ASSUME ThreadInv, NEW c \in Callers, NEW op \in {"text", "team", "call"}, NEW u \in People,
         NEW x \in Texts, Say(c, op, u, x)
  PROVE  ThreadInv'
<1> DEFINE repeat == [Idle EXCEPT !.op = op, !.step = "offered", !.who = u]
           fresh == [Idle EXCEPT !.op = op, !.step = "create", !.who = u, !.text = x]
<1>1. /\ calls[c] = Idle /\ asked' = asked + 1 /\ asked \in Nat
      /\ UNCHANGED <<rows, ids, peak, kept>> /\ ids \in Nat /\ peak \in Nat
  BY DEF Say, Request, ThreadInv, FlagsFit, RowsFit
<1>2. /\ \/ UNCHANGED calls
         \/ calls' = [calls EXCEPT ![c] = repeat]
         \/ calls' = [calls EXCEPT ![c] = fresh]
      /\ calls[c].step # "unarchive" /\ asked' \in Nat
  BY <1>1, IdleIsAble DEF Say
<1>3. /\ repeat \in Call /\ repeat.step = "offered" /\ repeat.took = {} /\ repeat.save = {}
      /\ fresh \in Call /\ fresh.step = "create" /\ fresh.took = {} /\ fresh.save = {}
      /\ fresh.op = op
  BY DEF Idle, Call, Steps, Anyone
<1> HIDE DEF repeat, fresh
<1>4. Able(repeat, ids, peak) /\ Able(fresh, ids, peak)
  BY <1>3, FS_EmptySet DEF Able
<1>5. \A j \in jobs : Spares(repeat, j) /\ Spares(fresh, j)
  BY <1>3 DEF Spares
<1>6. CASE UNCHANGED calls
  <2>1. calls' = [calls EXCEPT ![c] = Idle]
    BY <1>1, <1>6 DEF ThreadInv, CallsFit
  <2>2. Able(Idle, ids, peak) /\ \A j \in jobs : Spares(Idle, j)
    BY <1>1, IdleIsAble DEF Spares
  <2>3. QED
    BY <1>1, <1>2, <2>1, <2>2, OneCall
<1>7. QED
  BY <1>1, <1>2, <1>4, <1>5, <1>6, OneCall

(* Looking whether a deal has begun keeps the inductive invariant.            *)
LEMMA CheckOfferedStep ==
  ASSUME ThreadInv, NEW c \in Callers, CheckOffered(c)
  PROVE  ThreadInv'
<1>1. /\ calls[c].step = "offered" /\ UNCHANGED <<rows, ids, peak, kept, asked>>
      /\ Done(c) \/ Goto(c, "count")
  BY DEF CheckOffered, Step
<1>2. QED
  BY <1>1, OneEnds, OneGoesOn

(* The milestone is that of the messages there are now.                       *)
LEMMA CountStep ==
  ASSUME ThreadInv, NEW c \in Callers, Count(c)
  PROVE  ThreadInv'
<1> DEFINE n == Cardinality(Said(rows))
           m == Milestone(n)
           found == [calls[c] EXCEPT !.step = "find", !.at = m]
<1>1. /\ calls[c].step = "count" /\ UNCHANGED <<rows, ids, peak, kept, asked>>
      /\ \/ Done(c)
         \/ ~(m < Every) /\ calls' = [calls EXCEPT ![c].step = "find", ![c].at = m]
  BY DEF Count, Step
<1>2. CASE Done(c)
  BY <1>1, <1>2, OneEnds
<1>3. CASE ~(m < Every) /\ calls' = [calls EXCEPT ![c].step = "find", ![c].at = m]
  <2>1. n \in Nat /\ n <= peak /\ peak \in Nat
    BY SaidIsFinite DEF ThreadInv, RowsFit
  <2>2. Every \in Nat \ {0} /\ m \in Int
    <3>1. n \div Every \in Int
      BY <2>1, ConversationAssumption
    <3>2. QED
      BY <3>1, ConversationAssumption DEF Milestone
  <2>3. m >= Every
    BY <1>3, <2>2
  <2> HIDE DEF n
  <2>4. m \in Nat /\ Reached(m, n)
    BY <2>1, <2>3, MilestoneReached
  <2> HIDE DEF m
  <2>5. Reached(m, peak)
    BY <2>1, <2>4 DEF Reached
  <2>6. calls' = [calls EXCEPT ![c] = found] /\ calls[c] \in Call
    BY <1>3 DEF ThreadInv, CallsFit
  <2>7. /\ found \in Call /\ found.step = "find" /\ found.at = m
        /\ found.took = calls[c].took /\ found.save = calls[c].save
    BY <2>4, <2>6 DEF Call, Steps
  <2> HIDE DEF found
  <2>8. Able(found, ids, peak)
    BY <2>5, <2>7 DEF Able, ThreadInv, CallsFit
  <2>9. \A j \in jobs : Spares(found, j)
    BY <2>7 DEF Spares
  <2>10. asked' \in Nat /\ calls[c].step # "unarchive" /\ UNCHANGED <<rows, ids, peak, kept>>
    BY <1>1 DEF ThreadInv, FlagsFit
  <2>11. QED
    BY <2>6, <2>8, <2>9, <2>10, OneCall
<1>4. QED
  BY <1>1, <1>2, <1>3

(* Looking for the prompt of a milestone keeps the invariant.                 *)
LEMMA FindStep ==
  ASSUME ThreadInv, NEW c \in Callers, Find(c)
  PROVE  ThreadInv'
<1>1. /\ calls[c].step = "find" /\ UNCHANGED <<rows, ids, peak, kept, asked>>
      /\ Done(c) \/ Goto(c, "post")
  BY DEF Find, Step
<1>2. Reached(calls[c].at, peak)
  BY <1>1 DEF ThreadInv, CallsFit, Able
<1>3. QED
  BY <1>1, <1>2, OneEnds, OneGoesOn

(* Somebody asks to begin a deal.                                             *)
LEMMA StartDealStep ==
  ASSUME ThreadInv, NEW c \in Callers, NEW u \in Parties, StartDeal(c, u)
  PROVE  ThreadInv'
<1> DEFINE call == [Idle EXCEPT !.op = "deal", !.step = "notice", !.who = u]
<1>1. /\ calls[c] = Idle /\ asked' = asked + 1 /\ asked \in Nat
      /\ calls' = [calls EXCEPT ![c] = call]
      /\ UNCHANGED <<rows, ids, peak, kept>>
  BY DEF StartDeal, Request, ThreadInv, FlagsFit
<1>2. call \in Call /\ call.step = "notice" /\ call.took = {} /\ call.save = {}
  BY DEF Idle, Call, Steps, Anyone, People
<1> HIDE DEF call
<1>3. Able(call, ids, peak) /\ \A j \in jobs : Spares(call, j)
  BY <1>2, FS_EmptySet DEF Able, Spares
<1>4. calls[c].step # "unarchive" /\ asked' \in Nat
  BY <1>1, IdleIsAble
<1>5. QED
  BY <1>1, <1>3, <1>4, OneCall

(* A worker reads the queue.                                                  *)
LEMMA TakeStep ==
  ASSUME ThreadInv, NEW c \in Callers, Take(c)
  PROVE  ThreadInv'
<1> DEFINE step == IF ToSave(jobs) = {} THEN "remove" ELSE "look"
           call == [calls[c] EXCEPT !.step = step, !.took = jobs]
<1>1. /\ calls[c].step = "take" /\ UNCHANGED <<rows, ids, peak, kept, asked>>
      /\ Done(c) \/ calls' = [calls EXCEPT ![c].step = step, ![c].took = jobs]
  BY DEF Take, Step
<1>2. CASE Done(c)
  BY <1>1, <1>2, OneEnds
<1>3. CASE calls' = [calls EXCEPT ![c].step = step, ![c].took = jobs]
  <2>0. step \in {"remove", "look"} /\ (step = "remove" => ToSave(jobs) = {})
    OBVIOUS
  <2> HIDE DEF step
  <2>1. calls' = [calls EXCEPT ![c] = call] /\ calls[c] \in Call /\ jobs \subseteq Job
    BY <1>3 DEF ThreadInv, CallsFit
  <2>2. /\ call \in Call /\ call.step = step /\ call.took = jobs
        /\ call.save = calls[c].save
    BY <2>0, <2>1 DEF Call, Steps
  <2> HIDE DEF call
  <2>6. Able(call, ids, peak)
    BY <2>0, <2>2 DEF Able, ThreadInv, CallsFit
  <2>7. \A j \in jobs : Spares(call, j)
    BY <2>0, <2>2 DEF Spares, ToSave
  <2>3. Able(call, ids, peak) /\ \A j \in jobs : Spares(call, j)
    BY <2>6, <2>7
  <2>4. asked' \in Nat /\ calls[c].step # "unarchive" /\ UNCHANGED <<rows, ids, peak, kept>>
    BY <1>1 DEF ThreadInv, FlagsFit
  <2>5. QED
    BY <2>1, <2>3, <2>4, OneCall
<1>4. QED
  BY <1>1, <1>2, <1>3

(* It looks which of those jobs are stored already: only those are left out.  *)
LEMMA LookStep ==
  ASSUME ThreadInv, NEW c \in Callers, Look(c)
  PROVE  ThreadInv'
<1> DEFINE js == ToSave(calls[c].took)
<1>1. PICK known \in SUBSET {j \in js : Stored(j)} :
        calls' = [calls EXCEPT ![c].step = IF js \ known = {} THEN "remove" ELSE "save",
                               ![c].save = js \ known]
  BY DEF Look
<1>0. js \subseteq calls[c].took /\ \A j \in calls[c].took : ~j.named => j \in js
  BY DEF ToSave
<1> HIDE DEF js
<1> DEFINE step == IF js \ known = {} THEN "remove" ELSE "save"
           call == [calls[c] EXCEPT !.step = step, !.save = js \ known]
<1>10. step \in {"remove", "save"} /\ (step = "remove" => js \subseteq known)
  OBVIOUS
<1>2. /\ calls[c].step = "look" /\ UNCHANGED <<rows, ids, peak, kept>> /\ asked' \in Nat
      /\ calls[c].step # "unarchive"
  BY DEF Look, Step, ThreadInv, FlagsFit
<1>3. calls' = [calls EXCEPT ![c] = call] /\ calls[c] \in Call /\ calls[c].took \subseteq Job
  BY <1>1 DEF ThreadInv, CallsFit, Call
<1> HIDE DEF step
<1>4. /\ call \in Call /\ call.step = step /\ call.took = calls[c].took
      /\ call.save = js \ known
  BY <1>0, <1>3, <1>10 DEF Call, Steps
<1> HIDE DEF call
<1>5. IsFiniteSet(calls[c].took) /\ \A j \in calls[c].took : j.id <= ids
  BY DEF ThreadInv, CallsFit, Able
<1>6. IsFiniteSet(js \ known)
  BY <1>0, <1>5, FS_Subset
<1>7. Able(call, ids, peak)
  BY <1>4, <1>5, <1>6, <1>10 DEF Able
<1>8. \A j \in jobs : Spares(call, j) \/ OfferStored(<<j.from, j.text>>)
  BY <1>0, <1>1, <1>4, <1>10 DEF Spares, Stored, OfferStored
<1>9. QED
  BY <1>2, <1>3, <1>7, <1>8, OneCall

--------------------------------------------------------------------------------
(* The steps that store a message                                             *)

(* A message that is no offer, or a due prompt, is stored, and its request    *)
(* ends or goes on.                                                           *)
LEMMA OneStores ==
  ASSUME ThreadInv, NEW c \in Callers, NEW row \in Row, Store(row),
         row.kind = "prompt" => Reached(row.at, peak) /\ ~Announced(row.at),
         NEW call, calls' = [calls EXCEPT ![c] = call], Able(call, ids + 1, peak'),
         UNCHANGED <<jobs, promised>>, \A j \in jobs : Spares(call, j)
  PROVE  RowsFit' /\ CallsFit' /\ OffersFit'
<1>1. RowsFit /\ CallsFit /\ OffersFit /\ ids \in Nat /\ peak \in Nat
  BY DEF ThreadInv, RowsFit
<1>2. /\ RowsFit' /\ ids' = ids + 1 /\ ids <= ids' /\ peak <= peak' /\ peak' \in Nat
      /\ rows \subseteq rows'
  BY <1>1, RowStored
<1>3. ids' \in Nat
  BY <1>1, <1>2
<1>4. CallsFit'
  BY <1>1, <1>2, <1>3, CallMoved
<1>5. OffersFit'
  BY <1>1, <1>2, StillKept
<1>6. QED
  BY <1>2, <1>4, <1>5

(* What is posted is a message of the kind it was posted as.                  *)
LEMMA PostIsRow ==
  ASSUME ids \in Nat,
         NEW kind \in {"text", "team", "call", "prompt", "deal", "blocked"},
         NEW from \in Anyone, NEW text \in Texts \cup {Nobody}, NEW by \in Anyone, NEW at \in Nat
  PROVE  /\ Post(kind, from, text, by, at) \in Row
         /\ Post(kind, from, text, by, at).kind = kind
         /\ Post(kind, from, text, by, at).at = at
  BY DEF Post, Row

(* What somebody wrote: it is to be brought out of the archives it is new in. *)
LEMMA CreateStep ==
  ASSUME ThreadInv, NEW c \in Callers, Create(c)
  PROVE  ThreadInv'
<1> DEFINE row == Post(calls[c].op, calls[c].who, calls[c].text, Nobody, 0)
<1>1. /\ calls[c].step = "create" /\ Store(row) /\ Goto(c, "unarchive")
      /\ unseen' = unseen \cup (archived \ {calls[c].who})
      /\ UNCHANGED <<asked, isOffered, archived, jobs, promised, everOffered, failed>>
  BY DEF Create, Step
<1>2. calls[c] \in Call /\ calls[c].op \in {"text", "team", "call"} /\ ids \in Nat
  BY <1>1 DEF ThreadInv, CallsFit, Able, RowsFit
<1>3. row \in Row /\ row.kind # "prompt"
  <2>0. Nobody \in Anyone
    BY DEF Anyone
  <2>1. calls[c].who \in Anyone /\ calls[c].text \in Texts \cup {Nobody}
    BY DEF ThreadInv, CallsFit, Call
  <2>2. row \in Row /\ row.kind = calls[c].op
    BY <1>2, <2>0, <2>1 DEF Post, Row
  <2>3. QED
    BY <1>2, <2>2
<1> HIDE DEF row
<1>4. PICK call \in Call :
        /\ calls' = [calls EXCEPT ![c] = call] /\ call.step = "unarchive"
        /\ call.op = calls[c].op /\ call.who = calls[c].who /\ call.text = calls[c].text
        /\ call.at = calls[c].at /\ call.took = calls[c].took /\ call.save = calls[c].save
  BY <1>1, WentOn DEF ThreadInv, Steps
<1>5. Able(call, ids + 1, peak') /\ \A j \in jobs : Spares(call, j)
  <2>1. Able(calls[c], ids, peak) /\ \A j \in call.took : j.id \in Nat
    BY <1>4 DEF ThreadInv, CallsFit, Call, Job
  <2>2. \A j \in call.took : j.id <= ids + 1
    BY <1>2, <1>4, <2>1 DEF Able
  <2>3. QED
    BY <1>4, <2>1, <2>2 DEF Able, Spares
<1>6. RowsFit' /\ CallsFit' /\ OffersFit'
  BY <1>1, <1>3, <1>4, <1>5, OneStores
<1>7. FlagsFit'
  BY <1>1 DEF ThreadInv, FlagsFit
<1>8. ArchivedHidesNothingNew'
  <2>1. \A e \in Callers : calls'[e] = IF e = c THEN call ELSE calls[e]
    BY <1>4 DEF ThreadInv, CallsFit
  <2>2. ASSUME NEW u \in unseen', ~(failed' > 0)
        PROVE  \E e \in Callers : calls'[e].step = "unarchive" /\ calls'[e].who # u
    <3>1. CASE u \in archived \ {calls[c].who}
      <4>1. calls'[c].step = "unarchive" /\ calls'[c].who # u
        BY <1>4, <2>1, <3>1
      <4>2. QED
        BY <4>1
    <3>2. CASE u \in unseen
      <4>1. PICK e \in Callers : calls[e].step = "unarchive" /\ calls[e].who # u
        BY <1>1, <2>2, <3>2 DEF ThreadInv, ArchivedHidesNothingNew
      <4>2. e # c
        BY <1>1, <4>1
      <4>3. calls'[e] = calls[e]
        BY <2>1, <4>2
      <4>4. QED
        BY <4>1, <4>3
    <3>3. QED
      BY <1>1, <2>2, <3>1, <3>2
  <2>3. QED
    BY <2>2 DEF ArchivedHidesNothingNew
<1>9. QED
  BY <1>6, <1>7, <1>8 DEF ThreadInv

(* A notice that something was kept back.                                     *)
LEMMA BlockStep ==
  ASSUME ThreadInv, NEW c \in Callers, Block(c)
  PROVE  ThreadInv'
<1> DEFINE row == Post("blocked", Nobody, Nobody, Nobody, 0)
<1>1. /\ Store(row) /\ UNCHANGED <<calls, kept>> /\ calls[c] = Idle /\ asked' = asked + 1
  BY DEF Block, Request
<1>2. row \in Row /\ row.kind = "blocked"
  BY PostIsRow DEF ThreadInv, RowsFit, Anyone
<1> HIDE DEF row
<1>3. /\ calls' = [calls EXCEPT ![c] = Idle]
      /\ UNCHANGED <<isOffered, archived, jobs, unseen, promised, everOffered, failed>>
  BY <1>1 DEF ThreadInv, CallsFit, kept
<1>4. ids \in Nat /\ ids + 1 \in Nat /\ peak' \in Nat
  BY <1>1, <1>2, RowStored DEF ThreadInv, RowsFit
<1>5. Able(Idle, ids + 1, peak') /\ \A j \in jobs : Spares(Idle, j)
  BY <1>4, IdleIsAble DEF Spares
<1>6. RowsFit' /\ CallsFit' /\ OffersFit'
  BY <1>1, <1>2, <1>3, <1>5, OneStores
<1>7. ArchivedHidesNothingNew'
  BY <1>1, <1>3, StillBringing, IdleIsAble DEF ThreadInv
<1>8. FlagsFit'
  BY <1>1, <1>3 DEF ThreadInv, FlagsFit
<1>9. QED
  BY <1>6, <1>7, <1>8 DEF ThreadInv

(* A prompt whose milestone nobody has announced meanwhile.                   *)
LEMMA PromptStep ==
  ASSUME ThreadInv, NEW c \in Callers, Prompt(c)
  PROVE  ThreadInv'
<1> DEFINE row == Post("prompt", Nobody, Nobody, Nobody, calls[c].at)
<1>1. /\ calls[c].step = "post" /\ Done(c) /\ UNCHANGED <<kept, asked>>
      /\ \/ ~Announced(calls[c].at) /\ Store(row)
         \/ UNCHANGED <<rows, ids, peak>>
  BY DEF Prompt, Step
<1>2. CASE UNCHANGED <<rows, ids, peak>>
  BY <1>1, <1>2, OneEnds
<1>3. CASE ~Announced(calls[c].at) /\ Store(row)
  <2>0. Able(calls[c], ids, peak) /\ ids \in Nat
    BY DEF ThreadInv, CallsFit, RowsFit
  <2>1. calls[c].at \in Nat /\ Reached(calls[c].at, peak)
    BY <1>1, <2>0 DEF Able, Call
  <2>2. row \in Row /\ row.kind = "prompt" /\ row.at = calls[c].at
    <3>1. Nobody \in Anyone
      BY DEF Anyone
    <3>2. QED
      BY <2>0, <2>1, <3>1, PostIsRow
  <2> HIDE DEF row
  <2>3. /\ calls' = [calls EXCEPT ![c] = Idle]
        /\ UNCHANGED <<isOffered, archived, jobs, unseen, promised, everOffered, failed>>
    BY <1>1 DEF Done, kept
  <2>4. ids + 1 \in Nat /\ peak' \in Nat
    BY <1>3, <2>0, <2>1, <2>2, RowStored DEF ThreadInv
  <2>5. Able(Idle, ids + 1, peak') /\ \A j \in jobs : Spares(Idle, j)
    BY <2>4, IdleIsAble DEF Spares
  <2>6. RowsFit' /\ CallsFit' /\ OffersFit'
    BY <1>3, <2>1, <2>2, <2>3, <2>5, OneStores
  <2>7. ArchivedHidesNothingNew'
    BY <1>1, <2>3, StillBringing DEF ThreadInv
  <2>8. FlagsFit'
    BY <1>1, <2>3 DEF ThreadInv, FlagsFit
  <2>9. QED
    BY <2>6, <2>7, <2>8 DEF ThreadInv
<1>4. QED
  BY <1>1, <1>2, <1>3

(* A deal's notice is neither a prompt nor an offer.                          *)
LEMMA NoticeStep ==
  ASSUME ThreadInv, NEW c \in Callers, Notice(c)
  PROVE  ThreadInv'
<1> DEFINE row == Post("deal", Nobody, Nobody, calls[c].who, 0)
<1>1. /\ calls[c].step = "notice" /\ Done(c) /\ Store(row)
      /\ isOffered' = TRUE /\ everOffered' = TRUE
      /\ UNCHANGED <<asked, archived, jobs, unseen, promised, failed>>
  BY DEF Notice, Step
<1>2. calls[c].who \in Anyone /\ Nobody \in Anyone /\ ids \in Nat
  BY DEF ThreadInv, CallsFit, Call, RowsFit, Anyone
<1>3. row \in Row /\ row.kind = "deal"
  BY <1>2, PostIsRow
<1> HIDE DEF row
<1>4. calls' = [calls EXCEPT ![c] = Idle]
  BY <1>1 DEF Done
<1>5. ids + 1 \in Nat /\ peak' \in Nat
  BY <1>1, <1>2, <1>3, RowStored DEF ThreadInv
<1>6. Able(Idle, ids + 1, peak') /\ \A j \in jobs : Spares(Idle, j)
  BY <1>5, IdleIsAble DEF Spares
<1>7. RowsFit' /\ CallsFit' /\ OffersFit'
  BY <1>1, <1>3, <1>4, <1>6, OneStores
<1>8. ArchivedHidesNothingNew'
  BY <1>1, <1>4, StillBringing DEF ThreadInv
<1>9. FlagsFit'
  BY <1>1 DEF ThreadInv, FlagsFit
<1>10. QED
  BY <1>7, <1>8, <1>9 DEF ThreadInv

--------------------------------------------------------------------------------
(* Archives, offers and their workers                                         *)

(* A message has been brought out of all archives but its writer's.           *)
LEMMA UnarchiveStep ==
  ASSUME ThreadInv, NEW c \in Callers, Unarchive(c)
  PROVE  ThreadInv'
<1>1. /\ calls[c].step = "unarchive" /\ AfterSaving(c)
      /\ archived' = archived \cap {calls[c].who} /\ unseen' = unseen \cap {calls[c].who}
      /\ UNCHANGED <<asked, rows, isOffered, jobs, ids, peak, promised, everOffered, failed>>
      /\ ids \in Nat /\ peak \in Nat /\ CallsFit
  BY DEF Unarchive, Step, ThreadInv, RowsFit
<1>2. PICK call \in Call :
        /\ calls' = [calls EXCEPT ![c] = call] /\ Able(call, ids, peak)
        /\ call.step \in {"offered", "none"}
  <2>1. CASE Goto(c, "offered")
    <3>1. PICK call \in Call :
            /\ calls' = [calls EXCEPT ![c] = call] /\ call.step = "offered"
            /\ call.op = calls[c].op /\ call.who = calls[c].who /\ call.text = calls[c].text
            /\ call.at = calls[c].at /\ call.took = calls[c].took /\ call.save = calls[c].save
      BY <1>1, <2>1, WentOn DEF Steps
    <3>2. Able(call, ids, peak)
      BY <1>1, <3>1 DEF CallsFit, Able
    <3>3. QED
      BY <3>1, <3>2
  <2>2. CASE Done(c)
    BY <1>1, <2>2, IdleIsAble DEF Done
  <2>3. QED
    BY <1>1, <2>1, <2>2 DEF AfterSaving
<1>3. RowsFit'
  <2>1. RowsFit /\ UNCHANGED <<rows, peak>> /\ ids' \in Nat
    BY <1>1 DEF ThreadInv
  <2>2. QED
    BY <2>1, RowsLeft
<1>4. CallsFit'
  BY <1>1, <1>2, CallMovedOnly
<1>5. OffersFit'
  BY <1>1, <1>2, StillKept DEF ThreadInv, Spares
<1>6. FlagsFit'
  BY <1>1 DEF ThreadInv, FlagsFit
<1>7. ArchivedHidesNothingNew'
  <2>1. ASSUME NEW u \in unseen', ~(failed' > 0)
        PROVE  \E e \in Callers : calls'[e].step = "unarchive" /\ calls'[e].who # u
    <3>1. u \in unseen /\ u = calls[c].who
      BY <1>1, <2>1
    <3>2. PICK e \in Callers : calls[e].step = "unarchive" /\ calls[e].who # u
      BY <1>1, <2>1, <3>1 DEF ThreadInv, ArchivedHidesNothingNew
    <3>3. e # c
      BY <3>1, <3>2
    <3>4. calls'[e] = calls[e]
      BY <1>1, <1>2, <3>3 DEF CallsFit
    <3>5. QED
      BY <3>2, <3>4
  <2>2. QED
    BY <2>1 DEF ArchivedHidesNothingNew
<1>8. QED
  BY <1>3, <1>4, <1>5, <1>6, <1>7 DEF ThreadInv

(* An offer is made, or answered.                                             *)
LEMMA OfferStep ==
  ASSUME ThreadInv, NEW c \in Callers, NEW u \in People, NEW x \in Texts, NEW yes \in BOOLEAN,
         NEW named \in BOOLEAN, Offer(c, u, x, yes, named)
  PROVE  ThreadInv'
<1> DEFINE call == [Idle EXCEPT !.op = "offer", !.step = "add", !.who = u, !.text = x,
                                !.named = named]
<1>1. /\ calls[c] = Idle /\ asked' = asked + 1 /\ calls' = [calls EXCEPT ![c] = call]
      /\ isOffered' = yes /\ everOffered' = (everOffered \/ yes)
      /\ UNCHANGED <<rows, archived, jobs, ids, peak, unseen, promised, failed>>
      /\ ids \in Nat /\ peak \in Nat
  BY DEF Offer, Request, ThreadInv, RowsFit
<1>2. /\ call \in Call /\ call.step = "add" /\ call.took = {} /\ call.save = {}
      /\ call.who = u /\ call.text = x
  BY DEF Idle, Call, Steps, Anyone, People
<1> HIDE DEF call
<1>3. Able(call, ids, peak) /\ \A j \in jobs : Spares(call, j)
  BY <1>2, FS_EmptySet DEF Able, Spares, People
<1>4. RowsFit'
  <2>1. RowsFit /\ UNCHANGED <<rows, peak>> /\ ids' \in Nat
    BY <1>1 DEF ThreadInv
  <2>2. QED
    BY <2>1, RowsLeft
<1>5. CallsFit'
  BY <1>1, <1>3, CallMovedOnly DEF ThreadInv
<1>6. OffersFit'
  BY <1>1, <1>3, StillKept DEF ThreadInv
<1>7. ArchivedHidesNothingNew'
  BY <1>1, IdleIsAble, StillBringing DEF ThreadInv
<1>8. FlagsFit'
  <2>1. everOffered' \in BOOLEAN
    <3>1. everOffered = TRUE \/ everOffered = FALSE
      BY DEF ThreadInv, FlagsFit
    <3>2. QED
      BY <1>1, <3>1
  <2>2. QED
    BY <1>1, <2>1 DEF ThreadInv, FlagsFit
<1>9. QED
  BY <1>4, <1>5, <1>6, <1>7, <1>8 DEF ThreadInv

(* Its job is new: no worker has read it.                                     *)
LEMMA AddStep ==
  ASSUME ThreadInv, NEW c \in Callers, Add(c)
  PROVE  ThreadInv'
<1> DEFINE job == [id |-> ids + 1, from |-> calls[c].who, text |-> calls[c].text,
                   named |-> calls[c].named]
<1>0. PICK pair : pair = <<calls[c].who, calls[c].text>>
  OBVIOUS
<1>1. /\ calls[c].step = "add" /\ Goto(c, "take")
      /\ jobs' = jobs \cup {job} /\ ids' = ids + 1 
      /\ promised' = IF calls[c].named THEN promised ELSE promised \cup {pair}
      /\ UNCHANGED <<asked, rows, isOffered, archived, peak, unseen, everOffered, failed>>
  BY <1>0 DEF Add, Step
<1>2. /\ calls[c].who \in People /\ calls[c].text \in Texts /\ calls[c].named \in BOOLEAN
      /\ ids \in Nat /\ peak \in Nat /\ CallsFit
  BY <1>1 DEF ThreadInv, CallsFit, Able, Call, RowsFit
<1>3. ids' \in Nat /\ ids <= ids' /\ ids' = ids + 1
  BY <1>1, <1>2
<1>4. /\ job \in Job /\ job.id = ids' /\ pair = <<job.from, job.text>>
      /\ job.named = calls[c].named
      /\ pair \in People \X Texts
  BY <1>0, <1>1, <1>2, <1>3 DEF Job
<1> HIDE DEF job
<1>5. PICK call \in Call :
        /\ calls' = [calls EXCEPT ![c] = call] /\ call.step = "take"
        /\ call.op = calls[c].op /\ call.who = calls[c].who /\ call.text = calls[c].text
        /\ call.at = calls[c].at /\ call.took = calls[c].took /\ call.save = calls[c].save
  BY <1>1, <1>2, WentOn DEF Steps
<1>6. \A e \in Callers : calls'[e] = IF e = c THEN call ELSE calls[e]
  BY <1>2, <1>5 DEF CallsFit
<1>7. CallsFit'
  <2>1. IsFiniteSet(jobs') /\ jobs' \subseteq Job
    BY <1>1, <1>2, <1>4, FS_AddElement DEF CallsFit
  <2>2. \A j \in jobs' : j.id <= ids'
    <3>1. \A j \in jobs : j.id <= ids'
      BY <1>2, <1>3 DEF CallsFit, Job
    <3>2. QED
      BY <1>1, <1>3, <1>4, <3>1
  <2>3. ASSUME NEW e \in Callers PROVE Able(calls'[e], ids', peak')
    <3>1. Able(calls[e], ids, peak) /\ \A j \in calls[e].took : j.id \in Nat
      BY <1>2 DEF CallsFit, Call, Job
    <3>2. \A j \in calls[e].took : j.id <= ids'
      BY <1>2, <1>3, <3>1 DEF Able
    <3>3. calls'[e].took = calls[e].took /\ calls'[e].save = calls[e].save
      BY <1>5, <1>6
    <3>4. CASE e = c
      BY <1>5, <1>6, <3>1, <3>2, <3>4 DEF Able
    <3>5. CASE e # c
      BY <1>1, <1>6, <3>1, <3>2, <3>5 DEF Able
    <3>6. QED
      BY <3>4, <3>5
  <2>4. calls' \in [Callers -> Call]
    BY <1>2, <1>5 DEF CallsFit
  <2>5. QED
    BY <2>1, <2>2, <2>3, <2>4 DEF CallsFit
<1>8. OffersFit'
  <2>1. ASSUME NEW e \in Callers PROVE Spares(calls'[e], job)
    <3>1. calls'[e].took = calls[e].took
      BY <1>5, <1>6
    <3>2. job \notin calls[e].took
      <4>1. \A j \in calls[e].took : j.id <= ids
        BY <1>2 DEF CallsFit, Able
      <4>2. ~(job.id <= ids)
        BY <1>2, <1>3, <1>4
      <4>3. QED
        BY <4>1, <4>2
    <3>3. QED
      BY <3>1, <3>2 DEF Spares
  <2>2. ~calls[c].named => OfferQueued(pair)'
    BY <1>1, <1>4, <2>1 DEF OfferQueued
  <2>3. ASSUME NEW p \in promised PROVE OfferStored(p)' \/ OfferQueued(p)'
    <3>1. CASE OfferStored(p)
      BY <1>1, <3>1 DEF OfferStored
    <3>2. CASE OfferQueued(p)
      <4>1. PICK j \in jobs :
            ~j.named /\ p = <<j.from, j.text>> /\ \A e \in Callers : Spares(calls[e], j)
        BY <3>2 DEF OfferQueued
      <4>2. \A e \in Callers : Spares(calls'[e], j)
        BY <1>5, <1>6, <4>1 DEF Spares
      <4>3. QED
        BY <1>1, <4>1, <4>2 DEF OfferQueued
    <3>3. QED
      BY <3>1, <3>2 DEF ThreadInv, OffersFit
  <2>4. QED
    BY <1>1, <2>2, <2>3 DEF OffersFit
<1>9. RowsFit'
  BY <1>1, <1>3, RowsLeft DEF ThreadInv
<1>10. ArchivedHidesNothingNew'
  BY <1>1, <1>5, StillBringing DEF ThreadInv
<1>11. FlagsFit'
  BY <1>1, <1>4 DEF ThreadInv, FlagsFit
<1>12. QED
  BY <1>7, <1>8, <1>9, <1>10, <1>11 DEF ThreadInv

(* A worker's messages are offers, one for each of its jobs.                  *)
LEMMA Bundled ==
  ASSUME NEW js, js \subseteq Job, IsFiniteSet(js), ids \in Nat
  PROVE  /\ Bundle(js) \subseteq Row /\ IsFiniteSet(Bundle(js))
         /\ \A r \in Bundle(js) : r.kind = "offer"
         /\ \A j \in js : \E r \in Bundle(js) :
              r.kind = "offer" /\ <<j.from, j.text>> = <<r.from, r.text>>
<1> DEFINE row(j) == [Post("offer", j.from, j.text, Nobody, 0) EXCEPT !.id = ids + j.id]
           f == [j \in js |-> row(j)]
<1>1. Bundle(js) = {row(j) : j \in js}
  BY DEF Bundle
<1>2. ASSUME NEW j \in js
      PROVE  /\ row(j) \in Row /\ row(j).kind = "offer"
             /\ row(j).from = j.from /\ row(j).text = j.text
  <2>1. j.id \in Nat /\ j.from \in People /\ j.text \in Texts
    BY DEF Job
  <2>2. ids + j.id \in Nat /\ j.from \in Anyone /\ Nobody \in Anyone
    BY <2>1 DEF Anyone
  <2>3. QED
    BY <2>1, <2>2 DEF Post, Row
<1> HIDE DEF row
<1>3. f \in Surjection(js, Bundle(js))
  BY <1>1 DEF Surjection
<1>4. IsFiniteSet(Bundle(js))
  BY <1>3, FS_Surjection
<1>5. QED
  BY <1>1, <1>2, <1>4

(* A worker stores each job it has read, or one just like it is stored.       *)
LEMMA SaveStep ==
  ASSUME ThreadInv, NEW c \in Callers, Save(c)
  PROVE  ThreadInv'
<1> DEFINE js == calls[c].save
<1>1. /\ calls[c].step = "save" /\ Goto(c, "remove")
      /\ rows' = rows \cup Bundle(js) /\ ids' = ids + ids /\ Peak
      /\ UNCHANGED <<asked, isOffered, archived, jobs, unseen, promised, everOffered, failed>>
  BY DEF Save, Step, kept
<1>2. /\ js \subseteq Job /\ IsFiniteSet(js) /\ ids \in Nat /\ peak \in Nat
      /\ RowsFit /\ CallsFit /\ OffersFit
  BY DEF ThreadInv, CallsFit, Able, Call, RowsFit
<1> HIDE DEF js
<1>3. /\ Bundle(js) \subseteq Row /\ IsFiniteSet(Bundle(js))
      /\ \A r \in Bundle(js) : r.kind = "offer"
      /\ \A j \in js : \E r \in Bundle(js) :
           r.kind = "offer" /\ <<j.from, j.text>> = <<r.from, r.text>>
  BY <1>2, Bundled
<1>4. ids' \in Nat /\ ids <= ids'
  BY <1>1, <1>2
<1>5. IsFiniteSet(rows')
  BY <1>1, <1>2, <1>3, FS_Union DEF RowsFit
<1>6. peak' \in Nat /\ peak <= peak' /\ Cardinality(Said(rows')) <= peak'
  BY <1>1, <1>2, <1>5, PeakHolds
<1>7. RowsFit'
  <2>1. Prompts(rows') = Prompts(rows)
    BY <1>1, <1>3 DEF Prompts
  <2>2. ASSUME NEW r \in Prompts(rows) PROVE r.at <= peak'
    <3>1. r.at \in Nat /\ r.at <= peak
      BY <1>2 DEF RowsFit, PromptsAreDue, Prompts, Row
    <3>2. QED
      BY <1>2, <1>6, <3>1
  <2>3. PromptsAreDue'
    BY <1>2, <2>1, <2>2 DEF RowsFit, PromptsAreDue
  <2>4. QED
    BY <1>1, <1>2, <1>3, <1>4, <1>5, <1>6, <2>3 DEF RowsFit
<1>8. PICK call \in Call :
        /\ calls' = [calls EXCEPT ![c] = call] /\ call.step = "remove"
        /\ call.op = calls[c].op /\ call.who = calls[c].who /\ call.text = calls[c].text
        /\ call.at = calls[c].at /\ call.took = calls[c].took /\ call.save = calls[c].save
  BY <1>1, <1>2, WentOn DEF Steps
<1>9. CallsFit'
  <2>1. Able(calls[c], ids, peak) /\ \A j \in calls[c].took : j.id \in Nat
    BY <1>2 DEF CallsFit, Call, Job
  <2>2. \A j \in calls[c].took : j.id <= ids'
    BY <1>2, <1>4, <2>1 DEF Able
  <2>3. Able(call, ids', peak')
    BY <1>8, <2>1, <2>2 DEF Able
  <2>4. QED
    BY <1>1, <1>2, <1>4, <1>6, <1>8, <2>3, CallMoved
<1>10. OffersFit'
  <2>1. ASSUME NEW j \in jobs, Spares(calls[c], j)
        PROVE  Spares(call, j) \/ OfferStored(<<j.from, j.text>>)'
    <3>1. CASE j \in calls[c].took /\ ~j.named
      <4>1. j \in js
        BY <1>1, <2>1, <3>1 DEF Spares, js
      <4>2. PICK r \in Bundle(js) : r.kind = "offer" /\ <<j.from, j.text>> = <<r.from, r.text>>
        BY <1>3, <4>1
      <4>3. r \in rows'
        BY <1>1, <4>2
      <4>4. QED
        BY <4>2, <4>3 DEF OfferStored
    <3>2. CASE ~(j \in calls[c].took /\ ~j.named)
      BY <1>8, <3>2 DEF Spares
    <3>3. QED
      BY <3>1, <3>2
  <2>2. rows \subseteq rows'
    BY <1>1
  <2>3. QED
    BY <1>1, <1>2, <1>8, <2>1, <2>2, StillKept
<1>11. ArchivedHidesNothingNew'
  BY <1>1, <1>2, <1>8, StillBringing DEF ThreadInv
<1>12. FlagsFit'
  BY <1>1 DEF ThreadInv, FlagsFit
<1>13. QED
  BY <1>7, <1>9, <1>10, <1>11, <1>12 DEF ThreadInv

(* A worker removes what it took: none of it was safe but for being stored.   *)
LEMMA RemoveStep ==
  ASSUME ThreadInv, NEW c \in Callers, Remove(c)
  PROVE  ThreadInv'
<1>1. /\ calls[c].step = "remove" /\ calls' = [calls EXCEPT ![c] = Idle]
      /\ jobs' = jobs \ calls[c].took
      /\ UNCHANGED <<asked, rows, isOffered, archived, ids, peak, unseen, promised,
                     everOffered, failed>>
      /\ ids \in Nat /\ peak \in Nat /\ CallsFit /\ RowsFit
  BY DEF Remove, Step, Done, ThreadInv, RowsFit
<1>2. RowsFit'
  <2>1. UNCHANGED <<rows, peak>> /\ ids' \in Nat
    BY <1>1
  <2>2. QED
    BY <1>1, <2>1, RowsLeft
<1>3. CallsFit'
  <2>1. /\ ids' \in Nat /\ ids <= ids' /\ peak' \in Nat /\ peak <= peak'
        /\ jobs' \subseteq jobs
    BY <1>1
  <2>2. Able(Idle, ids', peak')
    BY <2>1, IdleIsAble
  <2>3. QED
    BY <1>1, <2>1, <2>2, CallMoved
<1>4. OffersFit'
  <2>1. \A e \in Callers : calls'[e] = IF e = c THEN Idle ELSE calls[e]
    BY <1>1 DEF CallsFit
  <2>2. ASSUME NEW p \in promised PROVE OfferStored(p)' \/ OfferQueued(p)'
    <3>1. CASE OfferStored(p)
      BY <1>1, <3>1 DEF OfferStored
    <3>2. CASE OfferQueued(p)
      <4>1. PICK j \in jobs :
            ~j.named /\ p = <<j.from, j.text>> /\ \A e \in Callers : Spares(calls[e], j)
        BY <3>2 DEF OfferQueued
      <4>2. j \in jobs'
        BY <1>1, <4>1 DEF Spares
      <4>3. Spares(Idle, j)
        BY IdleIsAble DEF Spares
      <4>4. \A e \in Callers : Spares(calls'[e], j)
        BY <2>1, <4>1, <4>3
      <4>5. QED
        BY <4>1, <4>2, <4>4 DEF OfferQueued
    <3>3. QED
      BY <3>1, <3>2 DEF ThreadInv, OffersFit
  <2>3. QED
    BY <1>1, <2>2 DEF OffersFit
<1>5. ArchivedHidesNothingNew'
  BY <1>1, StillBringing DEF ThreadInv
<1>6. FlagsFit'
  BY <1>1 DEF ThreadInv, FlagsFit
<1>7. QED
  BY <1>2, <1>3, <1>4, <1>5, <1>6 DEF ThreadInv

--------------------------------------------------------------------------------
(* Deleting, archives, time, failures                                         *)

(* Deleting an offer takes back the promise.                                  *)
LEMMA DeleteStep ==
  ASSUME ThreadInv, NEW u \in People, NEW r \in rows, Delete(u, r)
  PROVE  ThreadInv'
<1>1. /\ asked' = asked + 1 /\ rows' = rows \ {r} /\ r.from = u
      /\ promised' = IF r.kind = "offer" THEN promised \ {<<u, r.text>>} ELSE promised
      /\ UNCHANGED <<isOffered, archived, jobs, calls, ids, peak, unseen,
                     everOffered, failed>>
  BY DEF Delete
<1>2. RowsFit'
  <2>1. /\ rows' \in SUBSET rows /\ IsFiniteSet(rows) /\ Cardinality(Said(rows)) <= peak
        /\ peak \in Nat /\ ids \in Nat /\ rows \subseteq Row
    BY <1>1 DEF ThreadInv, RowsFit
  <2>2. IsFiniteSet(rows')
    BY <2>1, FS_Subset
  <2>3. Said(rows') \in SUBSET Said(rows)
    BY <2>1 DEF Said
  <2>4. /\ IsFiniteSet(Said(rows)) /\ Cardinality(Said(rows)) \in Nat
        /\ Cardinality(Said(rows')) \in Nat
    BY <2>1, <2>2, SaidIsFinite
  <2>5. Cardinality(Said(rows')) <= Cardinality(Said(rows))
    BY <2>3, <2>4, FS_Subset
  <2>6. Cardinality(Said(rows')) <= peak
    BY <2>1, <2>4, <2>5
  <2>7. PromptsAreDue'
    BY <1>1, <2>1 DEF ThreadInv, RowsFit, PromptsAreDue, Prompts
  <2>8. QED
    BY <1>1, <2>1, <2>2, <2>6, <2>7 DEF RowsFit
<1>3. CallsFit'
  BY <1>1 DEF ThreadInv, CallsFit
<1>4. ArchivedHidesNothingNew'
  BY <1>1 DEF ThreadInv, ArchivedHidesNothingNew
<1>5. OffersFit'
  <2>1. ASSUME NEW p \in promised' PROVE OfferStored(p)' \/ OfferQueued(p)'
    <3>1. p \in promised /\ (r.kind = "offer" => p # <<r.from, r.text>>)
      BY <1>1, <2>1
    <3>2. CASE OfferStored(p)
      <4>1. PICK q \in rows : q.kind = "offer" /\ p = <<q.from, q.text>>
        BY <3>2 DEF OfferStored
      <4>2. q # r
        BY <3>1, <4>1
      <4>3. QED
        BY <1>1, <4>1, <4>2 DEF OfferStored
    <3>3. CASE OfferQueued(p)
      BY <1>1, <3>3 DEF OfferQueued
    <3>4. QED
      BY <3>1, <3>2, <3>3 DEF ThreadInv, OffersFit
  <2>2. QED
    BY <2>1 DEF OffersFit
<1>6. FlagsFit'
  BY <1>1 DEF ThreadInv, FlagsFit
<1>7. QED
  BY <1>2, <1>3, <1>4, <1>5, <1>6 DEF ThreadInv

(* Archiving clears what is new for that person.                              *)
LEMMA ArchiveStep ==
  ASSUME ThreadInv, NEW u \in Filers, Archive(u) \/ BringBack(u)
  PROVE  ThreadInv'
<1>1. /\ archived' \in {archived \cup {u}, archived \ {u}} /\ unseen' = unseen \ {u}
      /\ UNCHANGED <<rows, isOffered, jobs, calls, ids, asked, peak, promised, everOffered,
                     failed>>
  BY DEF Archive, BringBack
<1>2. RowsFit' /\ CallsFit'
  BY <1>1 DEF ThreadInv, RowsFit, CallsFit, PromptsAreDue
<1>3. ArchivedHidesNothingNew'
  BY <1>1 DEF ThreadInv, ArchivedHidesNothingNew
<1>4. OffersFit'
  BY <1>1 DEF ThreadInv, OffersFit, OfferStored, OfferQueued
<1>5. FlagsFit'
  BY <1>1 DEF ThreadInv, FlagsFit
<1>6. QED
  BY <1>2, <1>3, <1>4, <1>5 DEF ThreadInv

(* Time changes nothing of a message but that it is recent.                   *)
LEMMA TimeStep ==
  ASSUME ThreadInv, FewSecondsPass
  PROVE  ThreadInv'
<1> DEFINE aged(r) == [r EXCEPT !.recent = FALSE]
           f == [r \in Said(rows) |-> aged(r)]
           g == [r \in rows |-> aged(r)]
<1>1. /\ rows' = {aged(r) : r \in rows}
      /\ UNCHANGED <<jobs, calls, ids, asked, peak, isOffered, archived, unseen, promised,
                     everOffered, failed>>
  BY DEF FewSecondsPass
<1>2. /\ rows \subseteq Row /\ IsFiniteSet(rows) /\ Cardinality(Said(rows)) <= peak
      /\ peak \in Nat /\ PromptsAreDue /\ ids \in Nat
  BY DEF ThreadInv, RowsFit
<1>3. ASSUME NEW r \in rows
      PROVE  /\ aged(r) \in Row /\ aged(r).kind = r.kind /\ aged(r).from = r.from
             /\ aged(r).text = r.text /\ aged(r).at = r.at
  BY <1>2 DEF Row
<1> HIDE DEF aged
<1>4. IsFiniteSet(rows')
  <2>1. g \in Surjection(rows, rows')
    BY <1>1 DEF Surjection
  <2>2. QED
    BY <1>2, <2>1, FS_Surjection
<1>5. Cardinality(Said(rows')) <= peak
  <2>1. Said(rows') = {aged(r) : r \in Said(rows)}
    BY <1>1, <1>3 DEF Said
  <2>2. f \in Surjection(Said(rows), Said(rows'))
    BY <2>1 DEF Surjection
  <2>3. /\ IsFiniteSet(Said(rows)) /\ Cardinality(Said(rows)) \in Nat
        /\ Cardinality(Said(rows')) \in Nat
    BY <1>2, <1>4, SaidIsFinite
  <2>4. Cardinality(Said(rows')) <= Cardinality(Said(rows))
    BY <2>2, <2>3, FS_Surjection
  <2>5. QED
    BY <1>2, <2>3, <2>4
<1>6. PromptsAreDue'
  <2>1. \A r \in Prompts(rows') : \E q \in Prompts(rows) : r = aged(q) /\ r.at = q.at
    BY <1>1, <1>3 DEF Prompts
  <2>2. ASSUME NEW r \in Prompts(rows'), NEW s \in Prompts(rows'), s.at = r.at
        PROVE  s = r
    <3>1. PICK q \in Prompts(rows) : r = aged(q) /\ r.at = q.at
      BY <2>1
    <3>2. PICK t \in Prompts(rows) : s = aged(t) /\ s.at = t.at
      BY <2>1
    <3>3. t = q
      BY <1>2, <2>2, <3>1, <3>2 DEF PromptsAreDue
    <3>4. QED
      BY <3>1, <3>2, <3>3
  <2>3. \A r \in Prompts(rows') : r.at # 0 /\ r.at % Every = 0 /\ r.at <= peak
    BY <1>2, <2>1 DEF PromptsAreDue
  <2>4. QED
    BY <1>1, <2>2, <2>3 DEF PromptsAreDue
<1>7. RowsFit'
  <2>1. rows' \subseteq Row
    BY <1>1, <1>3
  <2>2. QED
    BY <1>1, <1>2, <1>4, <1>5, <1>6, <2>1 DEF RowsFit
<1>8. CallsFit' /\ FlagsFit'
  BY <1>1 DEF ThreadInv, CallsFit, FlagsFit
<1>9. ArchivedHidesNothingNew'
  BY <1>1 DEF ThreadInv, ArchivedHidesNothingNew
<1>10. OffersFit'
  <2>1. ASSUME NEW p \in promised, OfferStored(p) PROVE OfferStored(p)'
    <3>1. PICK r \in rows : r.kind = "offer" /\ p = <<r.from, r.text>>
      BY <2>1 DEF OfferStored
    <3>2. /\ aged(r) \in rows' /\ aged(r).kind = "offer"
          /\ p = <<aged(r).from, aged(r).text>>
      BY <1>1, <1>3, <3>1
    <3>3. QED
      BY <3>2 DEF OfferStored
  <2>2. ASSUME NEW p \in promised, OfferQueued(p) PROVE OfferQueued(p)'
    BY <1>1, <2>2 DEF OfferQueued
  <2>3. QED
    BY <1>1, <2>1, <2>2 DEF ThreadInv, OffersFit
<1>11. QED
  BY <1>7, <1>8, <1>9, <1>10 DEF ThreadInv

(* Something fails: from here on the archives may hide what is new.           *)
LEMMA Failed ==
  ASSUME FlagsFit, failed < MaxFailures, failed' = failed + 1,
         UNCHANGED <<isOffered, archived, asked, unseen, promised, everOffered>>
  PROVE  FlagsFit' /\ ArchivedHidesNothingNew'
<1>1. failed \in Nat /\ MaxFailures \in Nat
  BY ConversationAssumption DEF FlagsFit
<1>2. failed' \in 0..MaxFailures /\ failed' > 0
  BY <1>1
<1>3. QED
  BY <1>2 DEF FlagsFit, ArchivedHidesNothingNew

(* A request that stops, or goes on without having brought anything back.     *)
LEMMA FailStep ==
  ASSUME ThreadInv, NEW c \in Callers, Fail(c)
  PROVE  ThreadInv'
<1>1. /\ failed < MaxFailures /\ failed' = failed + 1
      /\ UNCHANGED <<rows, isOffered, archived, jobs, ids, asked, peak, unseen, promised,
                     everOffered>>
  BY DEF Fail
<1>2. ids \in Nat /\ peak \in Nat /\ RowsFit /\ CallsFit /\ OffersFit /\ FlagsFit
  BY DEF ThreadInv, RowsFit
<1>3. FlagsFit' /\ ArchivedHidesNothingNew'
  BY <1>1, <1>2, Failed
<1>4. PICK call \in Call :
        /\ calls' = [calls EXCEPT ![c] = call] /\ Able(call, ids, peak)
        /\ call.step \in {"offered", "none"}
  <2>1. CASE Goto(c, "offered")
    <3>1. PICK call \in Call :
            /\ calls' = [calls EXCEPT ![c] = call] /\ call.step = "offered"
            /\ call.op = calls[c].op /\ call.who = calls[c].who /\ call.text = calls[c].text
            /\ call.at = calls[c].at /\ call.took = calls[c].took /\ call.save = calls[c].save
      BY <1>2, <2>1, WentOn DEF Steps
    <3>2. Able(call, ids, peak)
      BY <1>2, <3>1 DEF CallsFit, Able
    <3>3. QED
      BY <3>1, <3>2
  <2>2. CASE Done(c)
    BY <1>2, <2>2, IdleIsAble DEF Done
  <2>3. QED
    BY <2>1, <2>2 DEF Fail, AfterSaving
<1>5. CallsFit'
  BY <1>1, <1>2, <1>4, CallMovedOnly
<1>6. OffersFit'
  BY <1>1, <1>2, <1>4, StillKept DEF Spares
<1>7. RowsFit'
  BY <1>1, <1>2, RowsLeft
<1>8. QED
  BY <1>3, <1>5, <1>6, <1>7 DEF ThreadInv

(* The process stops: no worker holds a job any more.                         *)
LEMMA CrashStep ==
  ASSUME ThreadInv, Crash
  PROVE  ThreadInv'
<1>1. /\ failed < MaxFailures /\ failed' = failed + 1 /\ calls' = [c \in Callers |-> Idle]
      /\ UNCHANGED <<rows, isOffered, archived, jobs, ids, asked, peak, unseen, promised,
                     everOffered>>
  BY DEF Crash
<1>2. ids \in Nat /\ peak \in Nat /\ RowsFit /\ CallsFit /\ OffersFit /\ FlagsFit
  BY DEF ThreadInv, RowsFit
<1>3. FlagsFit' /\ ArchivedHidesNothingNew'
  BY <1>1, <1>2, Failed
<1>4. RowsFit'
  BY <1>1, <1>2, RowsLeft
<1>5. CallsFit'
  <2>1. \A c \in Callers : calls'[c] = Idle /\ Able(Idle, ids', peak')
    BY <1>1, <1>2, IdleIsAble
  <2>2. QED
    BY <1>1, <1>2, <2>1, IdleIsAble DEF CallsFit
<1>6. OffersFit'
  <2>1. \A c \in Callers : \A j \in jobs : Spares(calls'[c], j)
    BY <1>1, IdleIsAble DEF Spares
  <2>2. \A p \in promised : OfferStored(p)' <=> OfferStored(p)
    BY <1>1 DEF OfferStored
  <2>3. \A p \in promised : OfferQueued(p) => OfferQueued(p)'
    BY <1>1, <2>1 DEF OfferQueued
  <2>4. QED
    BY <1>1, <1>2, <2>2, <2>3 DEF OffersFit
<1>7. QED
  BY <1>3, <1>4, <1>5, <1>6 DEF ThreadInv

--------------------------------------------------------------------------------

(* The initial states satisfy the inductive invariant.                        *)
LEMMA ThreadBegins == ThreadInit => ThreadInv
<1> SUFFICES ASSUME ThreadInit PROVE ThreadInv
  OBVIOUS
<1>1. Said({}) = {} /\ Cardinality({}) = 0 /\ IsFiniteSet({})
  BY FS_EmptySet DEF Said
<1>2. RowsFit
  BY <1>1 DEF ThreadInit, RowsFit, PromptsAreDue, Prompts
<1>3. CallsFit
  <2>1. /\ calls = [c \in Callers |-> Idle] /\ jobs = {}
        /\ ids \in Nat /\ peak \in Nat
    BY DEF ThreadInit
  <2>2. Able(Idle, ids, peak)
    BY <2>1, IdleIsAble
  <2>3. QED
    BY <1>1, <2>1, <2>2, IdleIsAble DEF CallsFit
<1>4. FlagsFit
  <2>1. MaxFailures \in Nat /\ 0 \in 0..MaxFailures
    BY ConversationAssumption
  <2>2. QED
    BY <2>1 DEF ThreadInit, FlagsFit
<1>5. ArchivedHidesNothingNew /\ OffersFit
  BY DEF ThreadInit, ArchivedHidesNothingNew, OffersFit
<1>6. QED
  BY <1>2, <1>3, <1>4, <1>5 DEF ThreadInv

(* Every step of the conversation keeps the inductive invariant.              *)
LEMMA ThreadStep == ThreadInv /\ [ThreadNext]_threadVars => ThreadInv'
<1> SUFFICES ASSUME ThreadInv, [ThreadNext]_threadVars PROVE ThreadInv'
  OBVIOUS
<1>1. CASE UNCHANGED threadVars
  BY <1>1 DEF threadVars, ThreadInv, RowsFit, CallsFit, FlagsFit, ArchivedHidesNothingNew,
              OffersFit, OfferStored, OfferQueued, PromptsAreDue
<1>2. ASSUME NEW c \in Callers, NEW u \in People, NEW x \in Texts,
             NEW op \in {"text", "team", "call"}, Say(c, op, u, x)
      PROVE  ThreadInv'
  BY <1>2, SayStep
<1>3. ASSUME NEW c \in Callers, NEW u \in People, NEW x \in Texts,
             NEW yes \in BOOLEAN, NEW named \in BOOLEAN, Offer(c, u, x, yes, named)
      PROVE  ThreadInv'
  BY <1>3, OfferStep
<1>4. ASSUME NEW c \in Callers, NEW u \in Parties, StartDeal(c, u) PROVE ThreadInv'
  BY <1>4, StartDealStep
<1>5. ASSUME NEW c \in Callers,
             \/ Create(c) \/ Unarchive(c) \/ Block(c)
             \/ CheckOffered(c) \/ Count(c) \/ Find(c) \/ Prompt(c)
      PROVE  ThreadInv'
  BY <1>5, CreateStep, UnarchiveStep, BlockStep, CheckOfferedStep, CountStep, FindStep,
     PromptStep
<1>6. ASSUME NEW c \in Callers,
             \/ Notice(c) \/ Add(c) \/ Take(c) \/ Look(c) \/ Save(c) \/ Remove(c)
             \/ Fail(c)
      PROVE  ThreadInv'
  BY <1>6, NoticeStep, AddStep, TakeStep, LookStep, SaveStep, RemoveStep, FailStep
<1>7. ASSUME NEW u \in Filers, Archive(u) \/ BringBack(u) PROVE ThreadInv'
  BY <1>7, ArchiveStep
<1>8. ASSUME NEW u \in People, NEW r \in rows, Delete(u, r) PROVE ThreadInv'
  BY <1>8, DeleteStep
<1>9. CASE FewSecondsPass
  BY <1>9, TimeStep
<1>10. CASE Crash
  BY <1>10, CrashStep
<1>11. QED
  BY <1>1, <1>2, <1>3, <1>4, <1>5, <1>6, <1>7, <1>8, <1>9, <1>10 DEF ThreadNext

(* Every reachable state satisfies the inductive invariant.                   *)
LEMMA ThreadAlways == ThreadSpec => []ThreadInv
BY ThreadBegins, ThreadStep, PTL DEF ThreadSpec

(* The conversation's state has its type, for any number of people, texts,    *)
(* requests and failures.                                                     *)
THEOREM ThreadTyped == ThreadSpec => []ThreadTypeOK
<1>1. ThreadInv => ThreadTypeOK
  BY DEF ThreadInv, RowsFit, CallsFit, FlagsFit, ThreadTypeOK
<1>2. QED
  BY <1>1, ThreadAlways, PTL

(* A prompt is posted once for its milestone, and only for one that the       *)
(* messages of people have reached, however many requests look for it at      *)
(* once.                                                                      *)
THEOREM PromptsDue == ThreadSpec => []PromptsAreDue
<1>1. ThreadInv => PromptsAreDue
  BY DEF ThreadInv, RowsFit
<1>2. QED
  BY <1>1, ThreadAlways, PTL

(* An archive hides no message that createMessage stored for somebody else    *)
(* since, unless something failed or the request that stored it is still at   *)
(* work.  Of the offers that the queue stores nothing is claimed: they do not *)
(* bring the conversation back.                                               *)
THEOREM NothingHidden == ThreadSpec => []ArchivedHidesNothingNew
<1>1. ThreadInv => ArchivedHidesNothingNew
  BY DEF ThreadInv
<1>2. QED
  BY <1>1, ThreadAlways, PTL

(* An offer that was queued without an id is stored or still queued, whatever *)
(* workers overlap, fail or stop.  One whose message carries an id is removed *)
(* unstored.                                                                  *)
THEOREM OffersKept == ThreadSpec => []OffersAreKept
<1>1. ThreadInv => OffersAreKept
  BY DEF ThreadInv, OffersFit, OfferStored, OfferQueued, OffersAreKept
<1>2. QED
  BY <1>1, ThreadAlways, PTL

--------------------------------------------------------------------------------
(* The milestones, each announced or about to be                              *)

(* What people had said when r was stored, as far as it is still there.       *)
Before(rs, r) == {q \in Said(rs) : q.id <= r.id}

(* A request that will look for milestone m, or for a later one.              *)
Looks(call, m) ==
  \/ call.step = "unarchive" /\ call.op = "text"
  \/ call.step \in {"offered", "count"}
  \/ call.step \in {"find", "post"} /\ call.at >= m

(* Milestone m, or a later one, is announced or looked for.                   *)
Covered(rs, cs, m) ==
  \/ \E p \in Prompts(rs) : p.at >= m
  \/ \E c \in Callers : Looks(cs[c], m)

(* The milestone reached by each message that was sent as one.                *)
MilestonesFit ==
  failed = 0 /\ ~everOffered /\ Parties \cap Team = {} =>
    \A r \in rows : r.kind = "text" /\ Milestone(Cardinality(Before(rows, r))) >= Every =>
      Covered(rows, calls, Milestone(Cardinality(Before(rows, r))))

(* Messages are stored in the order of their ids, a job's message after it;   *)
(* and nobody can delete what the platform posted.                            *)
IdsFit ==
  /\ \A r \in rows : r.id <= ids
  /\ \A j \in jobs : j.id # 0
  /\ \A c \in Callers : \A j \in calls[c].took \cup calls[c].save : j.id # 0 /\ j.id <= ids
  /\ \A p \in Prompts(rows) : p.from = Nobody
  /\ isOffered => everOffered

MilestoneInv == ThreadInv /\ IdsFit /\ MilestonesFit

(* More messages, no earlier milestone.                                       *)
LEMMA MilestoneGrows ==
  ASSUME NEW a \in Nat, NEW b \in Nat, a <= b
  PROVE  Milestone(a) \in Nat /\ Milestone(a) <= Milestone(b)
<1> DEFINE p == a \div Every
           q == b \div Every
<1>1. Every \in Nat \ {0}
  BY ConversationAssumption
<1>2. /\ a = Every * p + (a % Every) /\ a % Every \in 0..(Every - 1) /\ p \in Int
      /\ b = Every * q + (b % Every) /\ b % Every \in 0..(Every - 1) /\ q \in Int
  BY <1>1
<1>3. p \in Nat /\ q \in Nat
  BY <1>1, <1>2
<1>4. Milestone(a) = p * Every /\ Milestone(b) = q * Every
  BY DEF Milestone
<1> HIDE DEF p, q
<1>5. p <= q
  <2>1. SUFFICES ASSUME p >= q + 1 PROVE FALSE
    BY <1>3
  <2>2. Every * p >= Every * (q + 1)
    BY <1>1, <1>3, <2>1
  <2>3. Every * (q + 1) = Every * q + Every
    BY <1>1, <1>3
  <2>4. Every * p \in Nat /\ Every * q \in Nat
    BY <1>1, <1>3
  <2>5. QED
    BY <1>1, <1>2, <2>2, <2>3, <2>4
<1>6. p * Every <= q * Every
  BY <1>1, <1>3, <1>5
<1>7. p * Every \in Nat
  BY <1>1, <1>3
<1>8. QED
  BY <1>4, <1>6, <1>7

(* What was said before a message is a finite part of all that was said.      *)
LEMMA BeforeIsFinite ==
  ASSUME NEW rs, IsFiniteSet(rs), NEW r
  PROVE  /\ IsFiniteSet(Before(rs, r)) /\ Cardinality(Before(rs, r)) \in Nat
         /\ Cardinality(Before(rs, r)) <= Cardinality(Said(rs))
<1>1. IsFiniteSet(Said(rs)) /\ Before(rs, r) \in SUBSET Said(rs)
  BY SaidIsFinite DEF Before
<1>2. IsFiniteSet(Before(rs, r)) /\ Cardinality(Before(rs, r)) <= Cardinality(Said(rs))
  BY <1>1, FS_Subset
<1>3. QED
  BY <1>2, FS_CardinalityType

(* Who looks for a milestone, or has announced it, did so for those before.   *)
LEMMA CoveredBefore ==
  ASSUME NEW rs \in SUBSET Row, NEW cs \in [Callers -> Call],
         NEW m \in Nat, NEW k \in Nat, k <= m, Covered(rs, cs, m)
  PROVE  Covered(rs, cs, k)
<1>1. /\ \A p \in Prompts(rs) : p.at \in Nat
      /\ \A c \in Callers : cs[c].at \in Nat
  BY DEF Prompts, Row, Call
<1>2. \A c \in Callers : Looks(cs[c], m) => Looks(cs[c], k)
  BY <1>1 DEF Looks
<1>3. \A p \in Prompts(rs) : p.at >= m => p.at >= k
  BY <1>1
<1>4. QED
  BY <1>2, <1>3 DEF Covered

(* Milestones stay announced or looked for where every message has no more    *)
(* before it than one there was, or is about to be looked after, and no       *)
(* milestone that had been reached is given up.                               *)
LEMMA StillCovered ==
  ASSUME MilestoneInv, ThreadInv',
         failed' = 0 => failed = 0, everOffered => everOffered',
         \A r \in rows' : r.kind = "text" =>
           \/ \E q \in rows : q.kind = "text" /\
                Cardinality(Before(rows', r)) <= Cardinality(Before(rows, q))
           \/ \E c \in Callers : calls'[c].step = "unarchive" /\ calls'[c].op = "text",
         ASSUME NEW m \in Nat, m >= Every, m <= Milestone(Cardinality(Said(rows))),
                Covered(rows, calls, m), ~everOffered', Parties \cap Team = {}
         PROVE  Covered(rows', calls', m)
  PROVE  MilestonesFit'
<1> SUFFICES ASSUME failed' = 0, ~everOffered', Parties \cap Team = {},
                    NEW r \in rows', r.kind = "text",
                    Milestone(Cardinality(Before(rows', r))) >= Every
             PROVE  Covered(rows', calls', Milestone(Cardinality(Before(rows', r))))
  BY DEF MilestonesFit
<1> DEFINE n == Cardinality(Before(rows', r))
<1>1. /\ IsFiniteSet(rows) /\ IsFiniteSet(rows')
      /\ rows' \in SUBSET Row /\ calls' \in [Callers -> Call]
  BY DEF MilestoneInv, ThreadInv, RowsFit, CallsFit
<1>2. n \in Nat
  BY <1>1, BeforeIsFinite
<1>3. CASE \E c \in Callers : calls'[c].step = "unarchive" /\ calls'[c].op = "text"
  BY <1>3 DEF Covered, Looks
<1>4. ASSUME NEW q \in rows, q.kind = "text", n <= Cardinality(Before(rows, q))
      PROVE  Covered(rows', calls', Milestone(n))
  <2> DEFINE k == Cardinality(Before(rows, q))
             all == Cardinality(Said(rows))
  <2>1. k \in Nat /\ all \in Nat /\ k <= all
    BY <1>1, BeforeIsFinite, SaidIsFinite
  <2>2. /\ Milestone(n) \in Nat /\ Milestone(k) \in Nat
        /\ Milestone(n) <= Milestone(k) /\ Milestone(k) <= Milestone(all)
    BY <1>2, <1>4, <2>1, MilestoneGrows
  <2>3. Every \in Nat /\ Milestone(k) >= Every
    BY <2>2, ConversationAssumption
  <2>4. Covered(rows, calls, Milestone(k))
    BY <1>4, <2>3 DEF MilestoneInv, MilestonesFit
  <2>5. Covered(rows', calls', Milestone(k))
    BY <2>2, <2>3, <2>4
  <2>6. QED
    BY <1>1, <2>2, <2>5, CoveredBefore
<1>5. QED
  BY <1>3, <1>4

(* A message has as many before it when later ones are added.                 *)
LEMMA LaterAdded ==
  ASSUME NEW old, NEW new, NEW n \in Nat, NEW r \in old,
         \A q \in old : q.id \in Nat /\ q.id <= n,
         \A q \in new : q.id \in Nat /\ q.id > n
  PROVE  Before(old \cup new, r) = Before(old, r)
<1>1. \A q \in new : ~(q.id <= r.id)
  OBVIOUS
<1>2. QED
  BY <1>1 DEF Before, Said

(* One request moves on, and what it stores is new.                           *)
LEMMA OneMovesOn ==
  ASSUME MilestoneInv, ThreadInv', NEW c \in Callers, NEW call, NEW new,
         calls' = [calls EXCEPT ![c] = call], rows' = rows \cup new,
         failed' = failed, everOffered => everOffered', isOffered' => everOffered',
         \A j \in jobs' : j \in jobs \/ j.id # 0, ids <= ids',
         \A j \in call.took \cup call.save :
           j \in calls[c].took \cup calls[c].save \cup jobs,
         \A q \in new : q.id > ids /\ q.id <= ids',
         \A q \in new : q.kind = "text" => call.step = "unarchive" /\ call.op = "text",
         \A q \in new : q.kind = "prompt" => q.from = Nobody,
         ASSUME NEW m \in Nat, m >= Every, m <= Milestone(Cardinality(Said(rows))),
                Looks(calls[c], m), ~everOffered', Parties \cap Team = {}
         PROVE  Looks(call, m) \/ \E p \in Prompts(rows') : p.at >= m
  PROVE  MilestoneInv'
<1>1. /\ ids \in Nat /\ ids' \in Nat /\ calls \in [Callers -> Call]
      /\ \A q \in rows' : q.id \in Nat
      /\ \A q \in rows : q.id <= ids
  BY DEF MilestoneInv, IdsFit, ThreadInv, RowsFit, CallsFit, Row
<1>2. \A e \in Callers : calls'[e] = IF e = c THEN call ELSE calls[e]
  BY <1>1
<1>3. \A p \in Prompts(rows') : p \in Prompts(rows) \/ (p \in new /\ p.kind = "prompt")
  BY DEF Prompts
<1>4. IdsFit'
  <2>1. \A r \in rows' : r.id <= ids'
    BY <1>1
  <2>2. ASSUME NEW e \in Callers, NEW j \in calls'[e].took \cup calls'[e].save
        PROVE  j.id # 0 /\ j.id <= ids'
    <3>1. j \in calls[e].took \cup calls[e].save \cup jobs
      BY <1>2
    <3>2. j.id \in Nat /\ j.id # 0 /\ j.id <= ids
      BY <1>1, <3>1 DEF MilestoneInv, IdsFit, ThreadInv, CallsFit, Call, Job
    <3>3. QED
      BY <1>1, <3>2
  <2>3. QED
    BY <1>3, <2>1, <2>2 DEF MilestoneInv, IdsFit
<1>5. MilestonesFit'
  <2>1. ASSUME NEW r \in rows', r.kind = "text"
        PROVE  \/ \E q \in rows : q.kind = "text" /\
                    Cardinality(Before(rows', r)) <= Cardinality(Before(rows, q))
               \/ \E e \in Callers : calls'[e].step = "unarchive" /\ calls'[e].op = "text"
    <3>1. CASE r \in new
      BY <1>2, <2>1, <3>1
    <3>2. CASE r \in rows
      <4>1. \A q \in new : q.id \in Nat /\ q.id > ids
        BY <1>1
      <4>2. Before(rows', r) = Before(rows, r)
        BY <1>1, <3>2, <4>1, LaterAdded, ZenonT(60)
      <4>3. Cardinality(Before(rows, r)) \in Nat
        BY BeforeIsFinite DEF MilestoneInv, ThreadInv, RowsFit
      <4>4. QED
        BY <2>1, <3>2, <4>2, <4>3
    <3>3. QED
      BY <3>1, <3>2
  <2>2. ASSUME NEW m \in Nat, m >= Every, m <= Milestone(Cardinality(Said(rows))),
               Covered(rows, calls, m), ~everOffered', Parties \cap Team = {}
        PROVE  Covered(rows', calls', m)
    <3>1. CASE \E p \in Prompts(rows) : p.at >= m
      BY <3>1 DEF Covered, Prompts
    <3>2. CASE \E e \in Callers \ {c} : Looks(calls[e], m)
      BY <1>2, <3>2 DEF Covered
    <3>3. CASE Looks(calls[c], m)
      <4>1. Looks(call, m) \/ \E p \in Prompts(rows') : p.at >= m
        BY <2>2, <3>3
      <4>2. calls'[c] = call
        BY <1>2
      <4>3. QED
        BY <4>1, <4>2 DEF Covered
    <3>4. QED
      BY <2>2, <3>1, <3>2, <3>3 DEF Covered
  <2>3. QED
    BY <2>1, <2>2, StillCovered
<1>6. QED
  BY <1>4, <1>5 DEF MilestoneInv

(* One request moves on and stores nothing.                                   *)
LEMMA OneMovesOnly ==
  ASSUME MilestoneInv, ThreadInv', NEW c \in Callers, NEW call,
         calls' = [calls EXCEPT ![c] = call], rows' = rows,
         failed' = failed, everOffered => everOffered', isOffered' => everOffered',
         \A j \in jobs' : j \in jobs \/ j.id # 0, ids <= ids',
         \A j \in call.took \cup call.save :
           j \in calls[c].took \cup calls[c].save \cup jobs,
         ASSUME NEW m \in Nat, m >= Every, m <= Milestone(Cardinality(Said(rows))),
                Looks(calls[c], m), ~everOffered', Parties \cap Team = {}
         PROVE  Looks(call, m) \/ \E p \in Prompts(rows) : p.at >= m
  PROVE  MilestoneInv'
<1> DEFINE none == {}
<1>1. rows' = rows \cup none
  OBVIOUS
<1>2. \A q \in none : FALSE
  OBVIOUS
<1> HIDE DEF none
<1>3. ASSUME NEW m \in Nat, m >= Every, m <= Milestone(Cardinality(Said(rows))),
             Looks(calls[c], m), ~everOffered', Parties \cap Team = {}
      PROVE  Looks(call, m) \/ \E p \in Prompts(rows') : p.at >= m
  BY <1>3
<1>4. QED
  BY <1>1, <1>2, <1>3, OneMovesOn

(* A request with nothing to do looks for nothing and holds no jobs.          *)
LEMMA IdleLooks == (\A m : ~Looks(Idle, m)) /\ Idle.took \cup Idle.save = {}
  BY DEF Idle, Looks

(* Somebody writes, is answered, or is told that a message was kept back.     *)
LEMMA MilestoneAsked ==
  ASSUME MilestoneInv, ThreadInv', NEW c \in Callers, calls[c] = Idle,
         NEW call, calls' = [calls EXCEPT ![c] = call], call.took = {}, call.save = {},
         UNCHANGED <<rows, jobs, ids, failed>>,
         everOffered => everOffered', isOffered' => everOffered'
  PROVE  MilestoneInv'
<1>1. ids \in Nat /\ ids <= ids'
  BY DEF MilestoneInv, ThreadInv, RowsFit
<1>2. \A m : ~Looks(calls[c], m)
  BY IdleLooks
<1>3. call.took \cup call.save = {}
  OBVIOUS
<1>4. QED
  BY <1>1, <1>2, <1>3, OneMovesOnly

(* Beginning a request brings no milestone on and forgets none.               *)
LEMMA MilestoneBegun ==
  ASSUME MilestoneInv, ThreadInv', NEW c \in Callers,
         \/ \E u \in People, x \in Texts, op \in {"text", "team", "call"} : Say(c, op, u, x)
         \/ \E u \in People, x \in Texts, yes, named \in BOOLEAN :
              Offer(c, u, x, yes, named)
         \/ \E u \in Parties : StartDeal(c, u)
  PROVE  MilestoneInv'
<1>1. /\ calls[c] = Idle /\ UNCHANGED <<rows, jobs, ids, failed>>
      /\ everOffered => everOffered'
      /\ isOffered' => everOffered'
  <2>1. ASSUME NEW u \in People, NEW x \in Texts, NEW yes \in BOOLEAN,
               NEW named \in BOOLEAN, Offer(c, u, x, yes, named)
        PROVE  /\ calls[c] = Idle /\ UNCHANGED <<rows, jobs, ids, failed>>
               /\ everOffered => everOffered'
               /\ isOffered' => everOffered'
    BY <2>1 DEF Offer, Request
  <2>2. ASSUME UNCHANGED kept, calls[c] = Idle, UNCHANGED <<rows, ids>>
        PROVE  /\ UNCHANGED <<rows, jobs, ids, failed>>
               /\ everOffered => everOffered'
               /\ isOffered' => everOffered'
    BY <2>2 DEF kept, MilestoneInv, IdsFit
  <2>3. QED
    BY <2>1, <2>2 DEF Say, StartDeal, Request
<1>2. \E call : calls' = [calls EXCEPT ![c] = call] /\ call.took = {} /\ call.save = {}
  <2>1. CASE UNCHANGED calls
    <3>1. calls' = [calls EXCEPT ![c] = Idle] /\ Idle.took = {} /\ Idle.save = {}
      BY <1>1, <2>1 DEF Idle, MilestoneInv, ThreadInv, CallsFit
    <3>2. QED
      BY <3>1
  <2>2. ASSUME NEW u, NEW x, NEW op, NEW step,
               calls' = [calls EXCEPT ![c] =
                 [Idle EXCEPT !.op = op, !.step = step, !.who = u, !.text = x]]
        PROVE  \E call : calls' = [calls EXCEPT ![c] = call] /\ call.took = {} /\ call.save = {}
    <3> DEFINE call == [Idle EXCEPT !.op = op, !.step = step, !.who = u, !.text = x]
    <3>1. calls' = [calls EXCEPT ![c] = call] /\ call.took = {} /\ call.save = {}
      BY <2>2 DEF Idle
    <3>2. QED
      BY <3>1
  <2>3. ASSUME NEW u, NEW op, NEW step,
               calls' = [calls EXCEPT ![c] =
                 [Idle EXCEPT !.op = op, !.step = step, !.who = u]]
        PROVE  \E call : calls' = [calls EXCEPT ![c] = call] /\ call.took = {} /\ call.save = {}
    <3> DEFINE call == [Idle EXCEPT !.op = op, !.step = step, !.who = u]
    <3>1. calls' = [calls EXCEPT ![c] = call] /\ call.took = {} /\ call.save = {}
      BY <2>3 DEF Idle
    <3>2. QED
      BY <3>1
  <2>4. ASSUME NEW u, NEW x, NEW yes, NEW named, Offer(c, u, x, yes, named)
        PROVE  \E call : calls' = [calls EXCEPT ![c] = call] /\ call.took = {} /\ call.save = {}
    <3> DEFINE call == [Idle EXCEPT !.op = "offer", !.step = "add", !.who = u, !.text = x,
                                    !.named = named]
    <3>1. calls' = [calls EXCEPT ![c] = call] /\ call.took = {} /\ call.save = {}
      BY <2>4 DEF Idle, Offer
    <3>2. QED
      BY <3>1
  <2>5. QED
    BY <2>1, <2>2, <2>3, <2>4 DEF Say, StartDeal
<1>3. QED
  BY <1>1, <1>2, MilestoneAsked

(* A message is stored: who sent it as one is going to look.                  *)
LEMMA MilestoneCreated ==
  ASSUME MilestoneInv, ThreadInv', NEW c \in Callers, Create(c)
  PROVE  MilestoneInv'
<1> DEFINE row == Post(calls[c].op, calls[c].who, calls[c].text, Nobody, 0)
           new == {row}
           call == [calls[c] EXCEPT !.step = "unarchive"]
<1>1. /\ calls[c].step = "create" /\ rows' = rows \cup new /\ ids' = ids + 1
      /\ UNCHANGED <<isOffered, jobs, everOffered, failed>>
  BY DEF Create, Step, Store
<1>2. calls[c] \in Call /\ calls' = [calls EXCEPT ![c] = call]
  BY DEF Create, Goto, MilestoneInv, ThreadInv, CallsFit
<1>3. /\ call.step = "unarchive" /\ call.op = calls[c].op
      /\ call.took = calls[c].took /\ call.save = calls[c].save
  BY <1>2 DEF Call
<1>4. ids \in Nat /\ ids <= ids'
  BY <1>1 DEF MilestoneInv, ThreadInv, RowsFit
<1>5. row.id = ids + 1 /\ row.kind = calls[c].op /\ row.kind # "prompt"
  BY <1>1 DEF Post, MilestoneInv, ThreadInv, CallsFit, Able
<1> HIDE DEF row, call
<1>6. /\ \A q \in new : q.id > ids /\ q.id <= ids'
      /\ \A q \in new : q.kind = "text" => call.step = "unarchive" /\ call.op = "text"
      /\ \A q \in new : q.kind # "prompt"
  BY <1>1, <1>3, <1>4, <1>5
<1>7. \A m : ~Looks(calls[c], m)
  BY <1>1 DEF Looks
<1>8. /\ isOffered' => everOffered'
      /\ call.took \cup call.save = calls[c].took \cup calls[c].save
  BY <1>1, <1>3 DEF MilestoneInv, IdsFit
<1> HIDE DEF new
<1>9. QED
  BY <1>1, <1>2, <1>4, <1>6, <1>7, <1>8, OneMovesOn

(* The platform posts that something was kept back.                           *)
LEMMA MilestoneBlocked ==
  ASSUME MilestoneInv, ThreadInv', NEW c \in Callers, Block(c)
  PROVE  MilestoneInv'
<1> DEFINE row == Post("blocked", Nobody, Nobody, Nobody, 0)
           new == {row}
<1>1. /\ calls[c] = Idle /\ rows' = rows \cup new /\ ids' = ids + 1
      /\ UNCHANGED <<isOffered, jobs, everOffered, failed>>
      /\ calls' = [calls EXCEPT ![c] = Idle]
  BY DEF Block, Request, Store, kept, MilestoneInv, ThreadInv, CallsFit
<1>2. ids \in Nat /\ ids <= ids'
  BY <1>1 DEF MilestoneInv, ThreadInv, RowsFit
<1>3. row.id = ids + 1 /\ row.kind = "blocked"
  BY DEF Post
<1> HIDE DEF row
<1>4. \A q \in new : q.id > ids /\ q.id <= ids' /\ q.kind = "blocked"
  BY <1>1, <1>2, <1>3
<1>5. isOffered' => everOffered'
  BY <1>1 DEF MilestoneInv, IdsFit
<1> HIDE DEF new
<1>6. QED
  BY <1>1, <1>2, <1>4, <1>5, IdleLooks, OneMovesOn

(* Having brought the conversation out of the archives, it is going to look.  *)
LEMMA MilestoneUnarchived ==
  ASSUME MilestoneInv, ThreadInv', NEW c \in Callers, Unarchive(c)
  PROVE  MilestoneInv'
<1>1. /\ calls[c].step = "unarchive" /\ AfterSaving(c)
      /\ UNCHANGED <<rows, isOffered, jobs, ids, everOffered, failed>>
  BY DEF Unarchive, Step
<1>2. ids \in Nat /\ ids <= ids' /\ (isOffered' => everOffered') /\ calls[c] \in Call
  BY <1>1 DEF MilestoneInv, IdsFit, ThreadInv, RowsFit, CallsFit
<1>3. CASE calls[c].op = "text"
  <2> DEFINE call == [calls[c] EXCEPT !.step = "offered"]
  <2>1. /\ calls' = [calls EXCEPT ![c] = call]
        /\ call.step = "offered" /\ call.took = calls[c].took /\ call.save = calls[c].save
    BY <1>1, <1>2, <1>3 DEF AfterSaving, Goto, MilestoneInv, ThreadInv, CallsFit, Call
  <2> HIDE DEF call
  <2>2. call.took \cup call.save = calls[c].took \cup calls[c].save
    BY <2>1
  <2>3. \A m : Looks(call, m)
    BY <2>1 DEF Looks
  <2>4. QED
    BY <1>1, <1>2, <2>1, <2>2, <2>3, OneMovesOnly
<1>4. CASE calls[c].op # "text"
  <2>1. calls' = [calls EXCEPT ![c] = Idle]
    BY <1>1, <1>4 DEF AfterSaving, Done
  <2>2. \A m : ~Looks(calls[c], m)
    BY <1>1, <1>4 DEF Looks
  <2>3. QED
    BY <1>1, <1>2, <2>1, <2>2, IdleLooks, OneMovesOnly
<1>5. QED
  BY <1>3, <1>4

(* Where no deal has begun, and no party is of the team, it goes on looking.  *)
LEMMA MilestoneOffered ==
  ASSUME MilestoneInv, ThreadInv', NEW c \in Callers, CheckOffered(c)
  PROVE  MilestoneInv'
<1>1. /\ calls[c].step = "offered"
      /\ UNCHANGED <<rows, isOffered, jobs, ids, everOffered, failed>>
      /\ IF isOffered \/ Parties \cap Team # {} THEN Done(c) ELSE Goto(c, "count")
  BY DEF CheckOffered, Step, kept
<1>2. ids \in Nat /\ ids <= ids' /\ (isOffered' => everOffered') /\ calls[c] \in Call
  BY <1>1 DEF MilestoneInv, IdsFit, ThreadInv, RowsFit, CallsFit
<1>3. CASE isOffered \/ Parties \cap Team # {}
  <2>1. calls' = [calls EXCEPT ![c] = Idle]
    BY <1>1, <1>3 DEF Done
  <2>2. ~(~everOffered' /\ Parties \cap Team = {})
    BY <1>1, <1>2, <1>3
  <2>3. QED
    BY <1>1, <1>2, <2>1, <2>2, IdleLooks, OneMovesOnly
<1>4. CASE ~(isOffered \/ Parties \cap Team # {})
  <2> DEFINE call == [calls[c] EXCEPT !.step = "count"]
  <2>1. /\ calls' = [calls EXCEPT ![c] = call]
        /\ call.step = "count" /\ call.took = calls[c].took /\ call.save = calls[c].save
    BY <1>1, <1>2, <1>4 DEF Goto, MilestoneInv, ThreadInv, CallsFit, Call
  <2> HIDE DEF call
  <2>2. call.took \cup call.save = calls[c].took \cup calls[c].save
    BY <2>1
  <2>3. \A m : Looks(call, m)
    BY <2>1 DEF Looks
  <2>4. QED
    BY <1>1, <1>2, <2>1, <2>2, <2>3, OneMovesOnly
<1>5. QED
  BY <1>3, <1>4

(* The milestone counted is the latest one that any message has reached.      *)
LEMMA MilestoneCounted ==
  ASSUME MilestoneInv, ThreadInv', NEW c \in Callers, Count(c)
  PROVE  MilestoneInv'
<1> DEFINE m == Milestone(Cardinality(Said(rows)))
           call == [calls[c] EXCEPT !.step = "find", !.at = m]
<1>1. /\ calls[c].step = "count"
      /\ UNCHANGED <<rows, isOffered, jobs, ids, everOffered, failed>>
      /\ IF m < Every THEN Done(c)
         ELSE calls' = [calls EXCEPT ![c].step = "find", ![c].at = m]
  BY DEF Count, Step, kept
<1>2. ids \in Nat /\ ids <= ids' /\ (isOffered' => everOffered') /\ calls[c] \in Call
  BY <1>1 DEF MilestoneInv, IdsFit, ThreadInv, RowsFit, CallsFit
<1>3. m \in Nat /\ Every \in Nat
  <2>1. Cardinality(Said(rows)) \in Nat
    BY SaidIsFinite DEF MilestoneInv, ThreadInv, RowsFit
  <2>2. QED
    BY <2>1, MilestoneGrows, ConversationAssumption
<1>4. CASE m < Every
  <2>1. calls' = [calls EXCEPT ![c] = Idle]
    BY <1>1, <1>4 DEF Done
  <2>2. \A k \in Nat : ~(k >= Every /\ k <= m)
    BY <1>3, <1>4
  <2> HIDE DEF m
  <2>3. ASSUME NEW k \in Nat, k >= Every, k <= Milestone(Cardinality(Said(rows)))
        PROVE  FALSE
    BY <2>2, <2>3 DEF m
  <2>4. QED
    BY <1>1, <1>2, <2>1, <2>3, IdleLooks, OneMovesOnly
<1>5. CASE ~(m < Every)
  <2>1. calls' = [calls EXCEPT ![c] = call]
    BY <1>1, <1>5 DEF MilestoneInv, ThreadInv, CallsFit
  <2> HIDE DEF m
  <2>2. /\ call.step = "find" /\ call.at = m
        /\ call.took = calls[c].took /\ call.save = calls[c].save
    BY <1>2, <1>3 DEF Call
  <2> HIDE DEF call
  <2>3. call.took \cup call.save = calls[c].took \cup calls[c].save
    BY <2>2
  <2>4. ASSUME NEW k \in Nat, k <= Milestone(Cardinality(Said(rows)))
        PROVE  Looks(call, k)
    BY <1>3, <2>2, <2>4 DEF Looks, m
  <2>5. QED
    BY <1>1, <1>2, <2>1, <2>3, <2>4, OneMovesOnly
<1>6. QED
  BY <1>4, <1>5

(* The milestone is announced already, or it goes on to announce it.          *)
LEMMA MilestoneFound ==
  ASSUME MilestoneInv, ThreadInv', NEW c \in Callers, Find(c)
  PROVE  MilestoneInv'
<1>1. /\ calls[c].step = "find"
      /\ UNCHANGED <<rows, isOffered, jobs, ids, everOffered, failed>>
      /\ IF Announced(calls[c].at) THEN Done(c) ELSE Goto(c, "post")
  BY DEF Find, Step, kept
<1>2. ids \in Nat /\ ids <= ids' /\ (isOffered' => everOffered') /\ calls[c] \in Call
  BY <1>1 DEF MilestoneInv, IdsFit, ThreadInv, RowsFit, CallsFit
<1>3. \A k : Looks(calls[c], k) => calls[c].at >= k
  BY <1>1 DEF Looks
<1>4. CASE Announced(calls[c].at)
  <2>1. calls' = [calls EXCEPT ![c] = Idle]
    BY <1>1, <1>4 DEF Done
  <2>2. \A k : Looks(calls[c], k) => \E p \in Prompts(rows) : p.at >= k
    BY <1>3, <1>4 DEF Announced
  <2>3. QED
    BY <1>1, <1>2, <2>1, <2>2, IdleLooks, OneMovesOnly
<1>5. CASE ~Announced(calls[c].at)
  <2> DEFINE call == [calls[c] EXCEPT !.step = "post"]
  <2>1. /\ calls' = [calls EXCEPT ![c] = call] /\ call.step = "post" /\ call.at = calls[c].at
        /\ call.took = calls[c].took /\ call.save = calls[c].save
    BY <1>1, <1>2, <1>5 DEF Goto, MilestoneInv, ThreadInv, CallsFit, Call
  <2> HIDE DEF call
  <2>2. call.took \cup call.save = calls[c].took \cup calls[c].save
    BY <2>1
  <2>3. \A k : Looks(calls[c], k) => Looks(call, k)
    BY <1>3, <2>1 DEF Looks
  <2>4. QED
    BY <1>1, <1>2, <2>1, <2>2, <2>3, OneMovesOnly
<1>6. QED
  BY <1>4, <1>5

(* The prompt is there, stored by this request or by another.                 *)
LEMMA MilestonePrompted ==
  ASSUME MilestoneInv, ThreadInv', NEW c \in Callers, Prompt(c)
  PROVE  MilestoneInv'
<1> DEFINE row == Post("prompt", Nobody, Nobody, Nobody, calls[c].at)
<1>1. /\ calls[c].step = "post" /\ calls' = [calls EXCEPT ![c] = Idle]
      /\ UNCHANGED <<isOffered, jobs, everOffered, failed>>
      /\ \/ rows' = rows \cup {row} /\ ids' = ids + 1
         \/ Announced(calls[c].at) /\ UNCHANGED <<rows, ids>>
  BY DEF Prompt, Step, Store, Done, kept
<1>2. ids \in Nat /\ (isOffered' => everOffered') /\ calls[c].at \in Nat
  BY <1>1 DEF MilestoneInv, IdsFit, ThreadInv, RowsFit, CallsFit, Call
<1>3. \A k : Looks(calls[c], k) => calls[c].at >= k
  BY <1>1 DEF Looks
<1>4. CASE Announced(calls[c].at) /\ UNCHANGED <<rows, ids>>
  <2>1. \A k : Looks(calls[c], k) => \E p \in Prompts(rows) : p.at >= k
    BY <1>3, <1>4 DEF Announced
  <2>2. ids <= ids'
    BY <1>2, <1>4
  <2>3. QED
    BY <1>1, <1>2, <1>4, <2>1, <2>2, IdleLooks, OneMovesOnly
<1>5. CASE rows' = rows \cup {row} /\ ids' = ids + 1
  <2> DEFINE new == {row}
  <2>1. row.id = ids + 1 /\ row.kind = "prompt" /\ row.from = Nobody /\ row.at = calls[c].at
    BY DEF Post
  <2> HIDE DEF row
  <2>2. /\ \A q \in new : q.id > ids /\ q.id <= ids' /\ q.kind = "prompt" /\ q.from = Nobody
        /\ ids <= ids' /\ rows' = rows \cup new
    BY <1>2, <1>5, <2>1
  <2>3. row \in Prompts(rows')
    BY <1>5, <2>1 DEF Prompts
  <2>4. \A k : Looks(calls[c], k) => \E p \in Prompts(rows') : p.at >= k
    BY <1>3, <2>1, <2>3
  <2> HIDE DEF new
  <2>5. QED
    BY <1>1, <1>2, <2>2, <2>4, IdleLooks, OneMovesOn
<1>6. QED
  BY <1>1, <1>4, <1>5

(* A deal has begun: from here on there are no prompts.                       *)
LEMMA MilestoneNotice ==
  ASSUME MilestoneInv, ThreadInv', NEW c \in Callers, Notice(c)
  PROVE  MilestoneInv'
<1> DEFINE row == Post("deal", Nobody, Nobody, calls[c].who, 0)
           new == {row}
<1>1. /\ calls' = [calls EXCEPT ![c] = Idle] /\ rows' = rows \cup new /\ ids' = ids + 1
      /\ everOffered' = TRUE /\ UNCHANGED <<jobs, failed>>
  BY DEF Notice, Step, Store, Done
<1>2. ids \in Nat /\ ids <= ids'
  BY <1>1 DEF MilestoneInv, ThreadInv, RowsFit
<1>3. row.id = ids + 1 /\ row.kind = "deal"
  BY DEF Post
<1> HIDE DEF row
<1>4. \A q \in new : q.id > ids /\ q.id <= ids' /\ q.kind = "deal"
  BY <1>1, <1>2, <1>3
<1> HIDE DEF new
<1>5. QED
  BY <1>1, <1>2, <1>4, IdleLooks, OneMovesOn

(* The offers' own requests look for no milestone and store what is newer.    *)
LEMMA MilestoneQueue ==
  ASSUME MilestoneInv, ThreadInv', NEW c \in Callers,
         Add(c) \/ Take(c) \/ Look(c) \/ Save(c) \/ Remove(c)
  PROVE  MilestoneInv'
<1>1. /\ ids \in Nat /\ calls[c] \in Call /\ calls \in [Callers -> Call]
      /\ UNCHANGED <<isOffered, everOffered, failed>>
      /\ isOffered' => everOffered'
      /\ calls[c].step \in {"add", "take", "look", "save", "remove"}
  BY DEF MilestoneInv, ThreadInv, RowsFit, CallsFit, IdsFit, Add, Take, Look, Save, Remove,
         Step, kept
<1>2. \A m : ~Looks(calls[c], m)
  BY <1>1 DEF Looks
<1>3. CASE Add(c)
  <2> DEFINE call == [calls[c] EXCEPT !.step = "take"]
             job == [id |-> ids + 1, from |-> calls[c].who, text |-> calls[c].text,
                     named |-> calls[c].named]
  <2>1. /\ calls' = [calls EXCEPT ![c] = call] /\ rows' = rows
        /\ ids' = ids + 1 /\ jobs' = jobs \cup {job}
    BY <1>1, <1>3 DEF Add, Goto
  <2>2. call.took = calls[c].took /\ call.save = calls[c].save
    BY <1>1 DEF Call
  <2>3. ids <= ids' /\ job.id # 0
    BY <1>1, <2>1
  <2> HIDE DEF call, job
  <2>4. \A j \in jobs' : j \in jobs \/ j.id # 0
    BY <2>1, <2>3
  <2>5. call.took \cup call.save = calls[c].took \cup calls[c].save
    BY <2>2
  <2>6. QED
    BY <1>1, <1>2, <2>1, <2>3, <2>4, <2>5, OneMovesOnly
<1>4. CASE Take(c) \/ Look(c) \/ Remove(c)
  <2>1. rows' = rows /\ ids' = ids /\ jobs' \subseteq jobs /\ ids <= ids'
    BY <1>1, <1>4 DEF Take, Look, Remove, kept
  <2>2. \E call : /\ calls' = [calls EXCEPT ![c] = call]
                  /\ call.took \cup call.save \subseteq calls[c].took \cup calls[c].save \cup jobs
    <3>1. CASE Done(c)
      <4>1. Idle.took \cup Idle.save \subseteq calls[c].took \cup calls[c].save \cup jobs
        BY IdleLooks
      <4>2. QED
        BY <3>1, <4>1 DEF Done
    <3>2. ASSUME NEW step, calls' = [calls EXCEPT ![c].step = step, ![c].took = jobs]
          PROVE  \E call : /\ calls' = [calls EXCEPT ![c] = call]
                           /\ call.took \cup call.save \subseteq
                                calls[c].took \cup calls[c].save \cup jobs
      <4> DEFINE call == [calls[c] EXCEPT !.step = step, !.took = jobs]
      <4>1. calls' = [calls EXCEPT ![c] = call] /\ call.took = jobs /\ call.save = calls[c].save
        BY <1>1, <3>2 DEF Call
      <4> HIDE DEF call
      <4>2. call.took \cup call.save \subseteq calls[c].took \cup calls[c].save \cup jobs
        BY <4>1
      <4>3. QED
        BY <4>1, <4>2
    <3>3. ASSUME NEW known, NEW step,
                 calls' = [calls EXCEPT ![c].step = step,
                                        ![c].save = ToSave(calls[c].took) \ known]
          PROVE  \E call : /\ calls' = [calls EXCEPT ![c] = call]
                           /\ call.took \cup call.save \subseteq
                                calls[c].took \cup calls[c].save \cup jobs
      <4> DEFINE call == [calls[c] EXCEPT !.step = step,
                                          !.save = ToSave(calls[c].took) \ known]
      <4>1. /\ calls' = [calls EXCEPT ![c] = call]
            /\ call.took = calls[c].took /\ call.save = ToSave(calls[c].took) \ known
        BY <1>1, <3>3 DEF Call
      <4> HIDE DEF call
      <4>2. call.took \cup call.save \subseteq calls[c].took \cup calls[c].save \cup jobs
        BY <4>1 DEF ToSave
      <4>3. QED
        BY <4>1, <4>2
    <3>4. QED
      BY <1>4, <3>1, <3>2, <3>3 DEF Take, Look, Remove
  <2>3. QED
    BY <1>1, <1>2, <2>1, <2>2, OneMovesOnly
<1>5. CASE Save(c)
  <2> DEFINE call == [calls[c] EXCEPT !.step = "remove"]
             new == Bundle(calls[c].save)
  <2>1. /\ calls' = [calls EXCEPT ![c] = call] /\ rows' = rows \cup new
        /\ ids' = ids + ids /\ jobs' = jobs
    BY <1>1, <1>5 DEF Save, Goto, kept
  <2>2. call.took = calls[c].took /\ call.save = calls[c].save
    BY <1>1 DEF Call
  <2>3. ids <= ids'
    BY <1>1, <2>1
  <2> HIDE DEF call
  <2>4. ASSUME NEW q \in new PROVE q.id > ids /\ q.id <= ids' /\ q.kind = "offer"
    <3>1. PICK j \in calls[c].save :
            q = [Post("offer", j.from, j.text, Nobody, 0) EXCEPT !.id = ids + j.id]
      BY DEF Bundle
    <3>2. q.id = ids + j.id /\ q.kind = "offer"
      BY <3>1 DEF Post
    <3>3. j.id \in Nat /\ j.id # 0 /\ j.id <= ids
      BY <1>1 DEF Call, Job, MilestoneInv, IdsFit
    <3>4. QED
      BY <1>1, <2>1, <3>2, <3>3
  <2>5. call.took \cup call.save = calls[c].took \cup calls[c].save
    BY <2>2
  <2> HIDE DEF new
  <2>6. QED
    BY <1>1, <1>2, <2>1, <2>3, <2>4, <2>5, OneMovesOn
<1>6. QED
  BY <1>3, <1>4, <1>5

(* A message deleted leaves the others no more before them than there were,   *)
(* and no prompt can be deleted.                                              *)
LEMMA MilestoneDeleted ==
  ASSUME MilestoneInv, ThreadInv', NEW u \in People, NEW d \in rows, Delete(u, d)
  PROVE  MilestoneInv'
<1>1. /\ rows' = rows \ {d} /\ d.from = u
      /\ UNCHANGED <<isOffered, jobs, calls, ids, everOffered, failed>>
  BY DEF Delete
<1>2. IdsFit'
  BY <1>1 DEF MilestoneInv, IdsFit, Prompts
<1>3. \A p \in Prompts(rows) : p \in Prompts(rows')
  BY <1>1, ConversationAssumption DEF MilestoneInv, IdsFit, Prompts, People
<1>4. ASSUME NEW r \in rows', r.kind = "text"
      PROVE  \E q \in rows : q.kind = "text" /\
               Cardinality(Before(rows', r)) <= Cardinality(Before(rows, q))
  <2>1. r \in rows /\ Before(rows', r) \in SUBSET Before(rows, r)
    BY <1>1 DEF Before, Said
  <2>2. IsFiniteSet(Before(rows, r))
    BY BeforeIsFinite DEF MilestoneInv, ThreadInv, RowsFit
  <2>3. Cardinality(Before(rows', r)) <= Cardinality(Before(rows, r))
    BY <2>1, <2>2, FS_Subset
  <2>4. QED
    BY <1>4, <2>1, <2>3
<1>5. \A m : Covered(rows, calls, m) => Covered(rows', calls', m)
  BY <1>1, <1>3 DEF Covered
<1>6. MilestonesFit'
  BY <1>1, <1>4, <1>5, StillCovered
<1>7. QED
  BY <1>2, <1>6 DEF MilestoneInv

(* Messages that are no longer recent are as many as they were.               *)
LEMMA MilestoneAged ==
  ASSUME MilestoneInv, ThreadInv', FewSecondsPass
  PROVE  MilestoneInv'
<1> DEFINE aged(r) == [r EXCEPT !.recent = FALSE]
<1>1. /\ rows' = {aged(r) : r \in rows}
      /\ UNCHANGED <<isOffered, jobs, calls, ids, everOffered, failed>>
  BY DEF FewSecondsPass
<1>2. ASSUME NEW r \in rows
      PROVE  /\ aged(r).kind = r.kind /\ aged(r).from = r.from
             /\ aged(r).id = r.id /\ aged(r).at = r.at
  BY DEF MilestoneInv, ThreadInv, RowsFit, Row
<1> HIDE DEF aged
<1>3. \A p \in Prompts(rows') : \E q \in Prompts(rows) : p = aged(q) /\ p.from = q.from
  BY <1>1, <1>2 DEF Prompts
<1>4. \A p \in Prompts(rows) : aged(p) \in Prompts(rows') /\ aged(p).at = p.at
  BY <1>1, <1>2 DEF Prompts
<1>5. IdsFit'
  <2>1. \A r \in rows' : r.id <= ids'
    BY <1>1, <1>2 DEF MilestoneInv, IdsFit
  <2>2. QED
    BY <1>1, <1>3, <2>1 DEF MilestoneInv, IdsFit
<1>6. ASSUME NEW r \in rows', r.kind = "text"
      PROVE  \E q \in rows : q.kind = "text" /\
               Cardinality(Before(rows', r)) <= Cardinality(Before(rows, q))
  <2>1. PICK q \in rows : r = aged(q)
    BY <1>1
  <2> DEFINE f == [s \in Before(rows, q) |-> aged(s)]
  <2>2. Before(rows', r) = {aged(s) : s \in Before(rows, q)}
    BY <1>1, <1>2, <2>1 DEF Before, Said
  <2>3. f \in Surjection(Before(rows, q), Before(rows', r))
    BY <2>2 DEF Surjection
  <2>4. IsFiniteSet(Before(rows, q))
    BY BeforeIsFinite DEF MilestoneInv, ThreadInv, RowsFit
  <2>5. Cardinality(Before(rows', r)) <= Cardinality(Before(rows, q))
    BY <2>3, <2>4, FS_Surjection
  <2>6. QED
    BY <1>2, <1>6, <2>1, <2>5
<1>7. \A m : Covered(rows, calls, m) => Covered(rows', calls', m)
  BY <1>1, <1>4 DEF Covered
<1>8. MilestonesFit'
  BY <1>1, <1>6, <1>7, StillCovered
<1>9. QED
  BY <1>5, <1>8 DEF MilestoneInv

(* Where something has failed nothing is promised of the milestones.          *)
LEMMA MilestoneFailed ==
  ASSUME MilestoneInv, ThreadInv', Crash \/ \E c \in Callers : Fail(c)
  PROVE  MilestoneInv'
<1>1. /\ UNCHANGED <<rows, isOffered, jobs, ids, everOffered>>
      /\ failed \in Nat /\ failed' = failed + 1 /\ calls \in [Callers -> Call]
  BY ConversationAssumption
     DEF Crash, Fail, MilestoneInv, ThreadInv, FlagsFit, CallsFit
<1>2. MilestonesFit'
  BY <1>1 DEF MilestonesFit
<1>3. ASSUME NEW e \in Callers
      PROVE  calls'[e].took \cup calls'[e].save \subseteq calls[e].took \cup calls[e].save
  <2>1. CASE Crash
    BY <2>1, IdleLooks DEF Crash
  <2>2. ASSUME NEW c \in Callers, Fail(c)
        PROVE  calls'[e].took \cup calls'[e].save \subseteq calls[e].took \cup calls[e].save
    <3>1. calls'[e] \in {calls[e], Idle, [calls[e] EXCEPT !.step = "offered"]}
      BY <1>1, <2>2 DEF Fail, AfterSaving, Goto, Done
    <3>2. calls[e] \in Call
      BY <1>1
    <3>3. QED
      BY <3>1, <3>2, IdleLooks DEF Call
  <2>3. QED
    BY <2>1, <2>2
<1>4. IdsFit'
  BY <1>1, <1>3 DEF MilestoneInv, IdsFit
<1>5. QED
  BY <1>2, <1>4 DEF MilestoneInv

(* The steps that touch neither messages nor requests.                        *)
LEMMA MilestoneLeft ==
  ASSUME MilestoneInv, ThreadInv',
         UNCHANGED <<rows, isOffered, jobs, calls, ids, everOffered, failed>>
  PROVE  MilestoneInv'
BY DEF MilestoneInv, IdsFit, MilestonesFit, Covered

(* Every step keeps the invariant of the milestones.                          *)
LEMMA MilestoneStep == MilestoneInv /\ ThreadInv' /\ [ThreadNext]_threadVars => MilestoneInv'
<1> SUFFICES ASSUME MilestoneInv, ThreadInv', [ThreadNext]_threadVars PROVE MilestoneInv'
  OBVIOUS
<1>1. CASE UNCHANGED threadVars
  BY <1>1, MilestoneLeft DEF threadVars
<1>2. ASSUME NEW c \in Callers, NEW u \in People, NEW x \in Texts,
             NEW op \in {"text", "team", "call"}, Say(c, op, u, x)
      PROVE  MilestoneInv'
  BY <1>2, MilestoneBegun
<1>3. ASSUME NEW c \in Callers, NEW u \in People, NEW x \in Texts,
             NEW yes \in BOOLEAN, NEW named \in BOOLEAN, Offer(c, u, x, yes, named)
      PROVE  MilestoneInv'
  BY <1>3, MilestoneBegun
<1>4. ASSUME NEW c \in Callers, NEW u \in Parties, StartDeal(c, u) PROVE MilestoneInv'
  BY <1>4, MilestoneBegun
<1>5. ASSUME NEW c \in Callers,
             \/ Create(c) \/ Unarchive(c) \/ Block(c)
             \/ CheckOffered(c) \/ Count(c) \/ Find(c) \/ Prompt(c)
      PROVE  MilestoneInv'
  BY <1>5, MilestoneCreated, MilestoneUnarchived, MilestoneBlocked, MilestoneOffered,
     MilestoneCounted, MilestoneFound, MilestonePrompted
<1>6. ASSUME NEW c \in Callers,
             \/ Notice(c) \/ Add(c) \/ Take(c) \/ Look(c) \/ Save(c) \/ Remove(c)
             \/ Fail(c)
      PROVE  MilestoneInv'
  BY <1>6, MilestoneNotice, MilestoneQueue, MilestoneFailed
<1>7. ASSUME NEW u \in Filers, Archive(u) \/ BringBack(u) PROVE MilestoneInv'
  BY <1>7, MilestoneLeft DEF Archive, BringBack
<1>8. ASSUME NEW u \in People, NEW r \in rows, Delete(u, r) PROVE MilestoneInv'
  BY <1>8, MilestoneDeleted
<1>9. CASE FewSecondsPass
  BY <1>9, MilestoneAged
<1>10. CASE Crash
  BY <1>10, MilestoneFailed
<1>11. QED
  BY <1>1, <1>2, <1>3, <1>4, <1>5, <1>6, <1>7, <1>8, <1>9, <1>10 DEF ThreadNext

(* The last message has everything said before it, and with nothing at work   *)
(* its milestone is not looked for: it is announced.                          *)
LEMMA MilestonesAnnounced == MilestoneInv => NoMilestoneSkipped
<1> SUFFICES ASSUME MilestoneInv, Quiet, failed = 0, ~everOffered, Parties \cap Team = {},
                    NEW last \in Said(rows), last.kind = "text",
                    \A r \in Said(rows) : r.id <= last.id,
                    Milestone(Cardinality(Said(rows))) >= Every
             PROVE  \E r \in Prompts(rows) : r.at >= Milestone(Cardinality(Said(rows)))
  BY DEF NoMilestoneSkipped
<1>1. last \in rows /\ Before(rows, last) = Said(rows)
  BY DEF Before, Said
<1>2. Covered(rows, calls, Milestone(Cardinality(Said(rows))))
  BY <1>1 DEF MilestoneInv, MilestonesFit
<1>3. \A c \in Callers : ~Looks(calls[c], Milestone(Cardinality(Said(rows))))
  BY IdleLooks DEF Quiet
<1>4. QED
  BY <1>2, <1>3 DEF Covered

(* No milestone is skipped in a conversation of two who are not of the team   *)
(* while nothing fails and no deal begins, however many requests overlap and  *)
(* whatever is deleted, or stored on other paths, meanwhile.                  *)
THEOREM MilestonesKept == ThreadSpec => []NoMilestoneSkipped
<1>1. ThreadInit => MilestoneInv
  <2> SUFFICES ASSUME ThreadInit PROVE MilestoneInv
    OBVIOUS
  <2>1. IdsFit
    BY IdleLooks DEF ThreadInit, IdsFit, Prompts
  <2>2. MilestonesFit
    BY DEF ThreadInit, MilestonesFit
  <2>3. QED
    BY <2>1, <2>2, ThreadBegins DEF MilestoneInv
<1>2. ThreadSpec => []MilestoneInv
  BY <1>1, MilestoneStep, ThreadAlways, PTL DEF ThreadSpec
<1>3. QED
  BY <1>2, MilestonesAnnounced, PTL
================================================================================
