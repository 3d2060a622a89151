---------------------------- MODULE GroupCallProofs ----------------------------
(* For any people, conversations, connections and number of calls: the timers *)
(* that run are those of running calls, a call ends for a reason, and the     *)
(* registry with its handlers implements CallStory.                           *)
(*                                                                            *)
(* A line is written long after the call it tells of, so it is carried by the *)
(* invariant: what is still to be written of a call is true of the answers it *)
(* got, tells of nobody twice, and tells of nobody the log tells of already.  *)
EXTENDS GroupCall, SequenceTheorems, TLAPS

CallFacts(gc, ans, socks) ==
  /\ gc.stage # "placed" => gc.joined = {} /\ gc.declined = {}
  /\ gc.stage # "unused" =>
       /\ socks[gc.socket] # "new"
       /\ gc.host \notin gc.invited
       /\ gc.kind = "direct" => \E u \in Users : gc.invited = {u}
  /\ gc.joined \cup gc.declined \subseteq gc.invited
  /\ \A u \in Users : /\ u \in gc.joined <=> ans[u] = "came"
                      /\ u \in gc.declined <=> ans[u] = "declined"

(* A line about call c is what its answers say.                               *)
TellsOf(line, c, ans) ==
  /\ line \in Lines
  /\ line.call = c
  /\ line.what = "completed" => \E u \in Users : ans[u] = "came"
  /\ line.what = "declined" => ans[line.about] = "declined"
  /\ line.what = "no_answer" => ans[line.about] = "none"

OncePerPerson(lines) == \A l, m \in lines : l.about = m.about => l = m

LoggedOf(c, told) == {i \in DOMAIN told : told[i].call = c}

LineFacts(gc, c, over, ans, lines, told) ==
  /\ lines # {} \/ LoggedOf(c, told) # {} => gc.stage = "refused" \/ over
  /\ \A l \in lines : TellsOf(l, c, ans) /\ (l.what = "offline" <=> gc.stage = "refused")
  /\ OncePerPerson(lines)
  /\ \A l \in lines, i \in LoggedOf(c, told) : told[i].about # l.about

IsOver(c) == call[c].stage = "placed" /\ ~IsLive(c)

ReasonToEnd(gc, c, socks, hung, ans) ==
  \/ socks[gc.socket] = "closed"
  \/ \E u \in Users : <<c, u>> \in hung /\ (u = gc.host \/ gc.kind = "direct")
  \/ gc.kind = "direct" /\ \E u \in gc.invited : ans[u] = "declined"
  \/ \A u \in Users : ans[u] # "came"

(* The inductive invariant, call by call.                                     *)
Sound(c) ==
  /\ CallFacts(call[c], answer[c], sockets)
  /\ LineFacts(call[c], c, IsOver(c), answer[c], unwritten[c], log)
  /\ IsOver(c) => ReasonToEnd(call[c], c, sockets, hungUp, answer[c])
  /\ c \in ringTimers => call[c].stage = "placed" /\ IsLive(c)

IInv == TypeOK /\ \A c \in CallIds : Sound(c)

--------------------------------------------------------------------------------
(* A call not yet placed is a call record.                                    *)
LEMMA BlankIsCall == Blank \in Call
<1>1. /\ (CHOOSE ch \in Chats : TRUE) \in Chats
      /\ (CHOOSE s \in Sockets : TRUE) \in Sockets
  BY GroupCallAssumption
<1>2. Owner[CHOOSE s \in Sockets : TRUE] \in Users
  BY <1>1, GroupCallAssumption
<1>3. QED
  BY <1>1, <1>2 DEF Blank, Call

(* The lines a call leaves behind tell what its answers say, once per person. *)
LEMMA StoryTells ==
  ASSUME NEW c \in CallIds, NEW gc \in Call, NEW ans \in [Users -> Answers],
         NEW socks, CallFacts(gc, ans, socks), gc.stage = "placed"
  PROVE  /\ Story(c, gc) \in SUBSET Lines
         /\ \A l \in Story(c, gc) : TellsOf(l, c, ans) /\ l.what # "offline"
         /\ OncePerPerson(Story(c, gc))
<1> DEFINE done(u) == [call |-> c, about |-> gc.host, what |-> "completed"]
           missed(u) == [call |-> c, about |-> u,
                         what |-> IF u \in gc.declined THEN "declined" ELSE "no_answer"]
<1>1. /\ gc.host \in Users /\ gc.invited \subseteq Users /\ gc.joined \subseteq Users
      /\ gc.host \notin gc.invited
  BY DEF Call, CallFacts
<1>2. ASSUME NEW l \in Story(c, gc)
      PROVE  \/ \E u \in gc.joined : l = done(u)
             \/ \E u \in gc.invited \ gc.joined : l = missed(u)
  BY DEF Story
<1>3. ASSUME NEW u \in gc.joined
      PROVE  /\ done(u) \in Lines /\ TellsOf(done(u), c, ans)
             /\ done(u).what # "offline" /\ done(u).about = gc.host
  <2>1. done(u) \in Lines
    BY <1>1 DEF Lines
  <2>2. ans[u] = "came" /\ u \in Users
    BY <1>1 DEF CallFacts
  <2>3. QED
    BY <2>1, <2>2 DEF TellsOf
<1>4. ASSUME NEW u \in gc.invited \ gc.joined
      PROVE  /\ missed(u) \in Lines /\ TellsOf(missed(u), c, ans)
             /\ missed(u).what # "offline" /\ missed(u).about = u
  <2>1. missed(u) \in Lines
    BY <1>1 DEF Lines
  <2>2. /\ u \in Users /\ ans[u] \in Answers /\ ans[u] # "came"
        /\ u \in gc.declined <=> ans[u] = "declined"
    BY <1>1 DEF CallFacts
  <2>3. QED
    BY <2>1, <2>2 DEF TellsOf, Answers
<1> HIDE DEF done, missed
<1>5. /\ Story(c, gc) \in SUBSET Lines
      /\ \A l \in Story(c, gc) : TellsOf(l, c, ans) /\ l.what # "offline"
  BY <1>2, <1>3, <1>4
<1>6. ASSUME NEW l \in Story(c, gc), NEW m \in Story(c, gc), l.about = m.about
      PROVE  l = m
  <2>1. CASE \E u \in gc.joined : l = done(u)
    <3>1. l.about = gc.host
      BY <2>1, <1>3
    <3>2. \E u \in gc.joined : m = done(u)
      BY <1>1, <1>2, <1>4, <1>6, <3>1, ZenonT(60)
    <3>3. QED
      BY <2>1, <3>2 DEF done
  <2>2. CASE \E u \in gc.invited \ gc.joined : l = missed(u)
    <3>1. l.about \in gc.invited /\ l = missed(l.about)
      BY <2>2, <1>4
    <3>2. \E u \in gc.invited \ gc.joined : m = missed(u)
      BY <1>1, <1>2, <1>3, <1>6, <3>1
    <3>3. m = missed(m.about)
      BY <3>2, <1>4
    <3>4. QED
      BY <3>1, <3>3, <1>6
  <2>3. QED
    BY <1>2, <2>1, <2>2
<1>7. QED
  BY <1>5, <1>6 DEF OncePerPerson

(* Ending calls takes exactly them out of the registry.                       *)
LEMMA FinishedNotLive ==
  ASSUME TypeOK, NEW over \in SUBSET CallIds, Finish(over),
         \A c \in CallIds : call[c].chat \in Chats /\ call'[c].chat = call[c].chat
  PROVE  \A c \in CallIds : IsLive(c)' <=> IsLive(c) /\ c \notin over
<1>1. \A c \in CallIds : c # NoCall
  BY DEF CallIds, NoCall
<1>2. QED
  BY <1>1 DEF Finish, IsLive

(* A call that ends leaves its story; nothing was told of it before.          *)
LEMMA FinishedSound ==
  ASSUME NEW c \in CallIds, NEW gc \in Call, NEW ans \in [Users -> Answers], NEW socks,
         CallFacts(gc, ans, socks), gc.stage = "placed",
         NEW told, LoggedOf(c, told) = {}
  PROVE  LineFacts(gc, c, TRUE, ans, Story(c, gc), told)
  BY StoryTells DEF LineFacts

--------------------------------------------------------------------------------
(* Type correctness.                                                          *)
LEMMA InitTyped == Init => TypeOK
<1>1. Blank \in Call
  BY BlankIsCall
<1>2. <<>> \in Seq(Lines)
  OBVIOUS
<1>3. QED
  BY <1>1, <1>2 DEF Init, TypeOK, NoCall, Answers

(* Setting the stage of a call touches no other field.                        *)
LEMMA StageChanges ==
  ASSUME NEW gc \in Call, NEW st \in {"unused", "asked", "refused", "placed"}
  PROVE  [gc EXCEPT !.stage = st] \in Call
  BY DEF Call

(* A call whose people or lines change stays a call record.                   *)
LEMMA CallChanges ==
  ASSUME NEW gc \in Call, NEW u \in Users
  PROVE  /\ [gc EXCEPT !.declined = @ \cup {u}] \in Call
         /\ [gc EXCEPT !.present = @ \ {u}] \in Call
         /\ [gc EXCEPT !.joined = @ \cup {u}, !.present = @ \cup {u},
                       !.declined = @ \ {u}] \in Call
<1> DEFINE a == [gc EXCEPT !.joined = @ \cup {u}]
           b == [a EXCEPT !.present = @ \cup {u}]
<1>1. a \in Call /\ a = [gc EXCEPT !.joined = gc.joined \cup {u}]
  BY DEF Call
<1>2. b \in Call
  BY <1>1 DEF Call
<1>3. [b EXCEPT !.declined = @ \ {u}] \in Call
  BY <1>2 DEF Call
<1>4. [gc EXCEPT !.joined = @ \cup {u}, !.present = @ \cup {u}, !.declined = @ \ {u}]
      = [b EXCEPT !.declined = @ \ {u}]
  BY DEF Call
<1>5. /\ [gc EXCEPT !.declined = @ \cup {u}] \in Call
      /\ [gc EXCEPT !.present = @ \ {u}] \in Call
  BY DEF Call
<1>6. QED
  BY <1>3, <1>4, <1>5

(* Ending any set of calls keeps the types.                                   *)
LEMMA FinishTyped ==
  ASSUME TypeOK, NEW over \in SUBSET Running, Finish(over), call' \in [CallIds -> Call],
         answer' \in [CallIds -> [Users -> Answers]],
         \A c \in over : CallFacts(call'[c], answer'[c], sockets) /\ call'[c].stage = "placed"
  PROVE  /\ byChat' \in [Chats -> CallIds \cup {NoCall}]
         /\ ringTimers' \subseteq CallIds
         /\ unwritten' \in [CallIds -> SUBSET Lines]
         /\ log' \in Seq(Lines)
<1>1. \A c \in over : c \in CallIds /\ Story(c, call'[c]) \in SUBSET Lines
  <2>1. TAKE c \in over
  <2>2. /\ c \in CallIds /\ call'[c] \in Call /\ answer'[c] \in [Users -> Answers]
        /\ CallFacts(call'[c], answer'[c], sockets) /\ call'[c].stage = "placed"
    BY DEF Running
  <2>3. QED
    BY <2>2, StoryTells
<1>2. QED
  BY <1>1 DEF Finish, TypeOK

(* What a decline makes of the answers and of the call.                       *)
LEMMA DeclineFacts ==
  ASSUME NEW gc \in Call, NEW ans \in [Users -> Answers], NEW socks,
         CallFacts(gc, ans, socks), gc.stage = "placed",
         NEW u \in gc.invited \ gc.joined
  PROVE  CallFacts([gc EXCEPT !.declined = @ \cup {u}],
                   [ans EXCEPT ![u] = "declined"], socks)
  BY DEF CallFacts, Call, Answers

(* What joining makes of the answers and of the call.                         *)
LEMMA JoinFacts ==
  ASSUME NEW gc \in Call, NEW ans \in [Users -> Answers], NEW socks,
         CallFacts(gc, ans, socks), gc.stage = "placed",
         NEW u \in gc.invited
  PROVE  CallFacts([gc EXCEPT !.joined = @ \cup {u}, !.present = @ \cup {u},
                              !.declined = @ \ {u}],
                   [ans EXCEPT ![u] = "came"], socks)
  BY DEF CallFacts, Call, Answers

(* Every step keeps the types.                                                *)
LEMMA NextTyped == ASSUME IInv, [Next]_vars PROVE TypeOK'
<1> USE DEF IInv
<1>0. /\ TypeOK
      /\ \A c \in CallIds : CallFacts(call[c], answer[c], sockets)
      /\ call \in [CallIds -> Call] /\ answer \in [CallIds -> [Users -> Answers]]
  BY DEF Sound, TypeOK
<1>1. ASSUME NEW s \in Sockets, Connect(s) PROVE TypeOK'
  BY <1>1 DEF TypeOK, Connect
<1>2. ASSUME NEW s \in Sockets, Disconnect(s) PROVE TypeOK'
  <2>1. HostedBySocket(s) \in SUBSET Running /\ HostedBySocket(s) \subseteq Running
    BY DEF HostedBySocket
  <2>2. \A c \in HostedBySocket(s) : c \in CallIds /\ call[c].stage = "placed"
    BY DEF HostedBySocket, Running
  <2>3. QED
    BY <1>0, <1>2, <2>1, <2>2, FinishTyped DEF Disconnect, TypeOK
<1>3. ASSUME NEW s \in Sockets, NEW c \in CallIds, NEW ch \in Chats,
             NEW kind \in {"direct", "group"}, NEW invited \in SUBSET PartiesOf[ch],
             Ask(s, c, ch, kind, invited)
      PROVE  TypeOK'
  <2>1. invited \subseteq Users /\ Owner[s] \in Users
    BY GroupCallAssumption
  <2>2. [Blank EXCEPT !.stage = "asked", !.kind = kind, !.chat = ch, !.host = Owner[s],
                      !.socket = s, !.invited = invited] \in Call
    BY <2>1, BlankIsCall DEF Call
  <2>3. call' \in [CallIds -> Call]
    BY <1>3, <2>2 DEF Ask, TypeOK
  <2>4. QED
    BY <1>3, <2>3 DEF Ask, TypeOK
<1>4. ASSUME NEW c \in CallIds, Place(c) PROVE TypeOK'
  <2>1. call' \in [CallIds -> Call]
    BY <1>0, <1>4, StageChanges DEF Place
  <2>2. QED
    BY <1>4, <2>1 DEF Place, TypeOK
<1>5. ASSUME NEW c \in CallIds, Refuse(c) PROVE TypeOK'
  <2>1. call' \in [CallIds -> Call]
    BY <1>0, <1>5, StageChanges DEF Refuse
  <2>2. {[call |-> c, about |-> u, what |-> "offline"] : u \in call[c].invited} \in SUBSET Lines
    BY DEF TypeOK, Call, Lines
  <2>3. unwritten' \in [CallIds -> SUBSET Lines]
    BY <1>5, <2>2 DEF Refuse, TypeOK
  <2>4. QED
    BY <1>5, <2>1, <2>3 DEF Refuse, TypeOK
<1>6. ASSUME NEW c \in CallIds, RingOut(c) PROVE TypeOK'
  <2>1. CASE ~(IsLive(c) /\ GivesUp(c))
    BY <1>6, <2>1 DEF RingOut, TypeOK
  <2>2. CASE IsLive(c) /\ GivesUp(c)
    <3>1. c \in Running /\ call[c].stage = "placed"
      BY <1>6 DEF RingOut, Sound, Running
    <3>2. QED
      BY <1>0, <1>6, <2>2, <3>1, FinishTyped DEF RingOut, TypeOK
  <2>3. QED
    BY <2>1, <2>2
<1>7. ASSUME NEW s \in Sockets, NEW c \in CallIds, Join(s, c) PROVE TypeOK'
  <2>1. Owner[s] \in Users
    BY GroupCallAssumption
  <2>2. call' \in [CallIds -> Call]
    BY <1>0, <1>7, <2>1, CallChanges DEF Join
  <2>3. answer' \in [CallIds -> [Users -> Answers]]
    BY <1>7, <2>1 DEF Join, TypeOK, Answers
  <2>4. QED
    BY <1>7, <2>2, <2>3 DEF Join, TypeOK, GoesOn
<1>8. ASSUME NEW s \in Sockets, NEW c \in CallIds, Decline(s, c) PROVE TypeOK'
  <2>1. Owner[s] \in Users
    BY GroupCallAssumption
  <2>2. call' \in [CallIds -> Call]
    BY <1>0, <1>8, <2>1, CallChanges DEF Decline
  <2>3. answer' \in [CallIds -> [Users -> Answers]]
    BY <1>8, <2>1 DEF Decline, TypeOK, Answers
  <2>4. CASE call[c].kind # "direct"
    BY <1>8, <2>2, <2>3, <2>4 DEF Decline, TypeOK, GoesOn
  <2>5. CASE call[c].kind = "direct"
    <3>1. CallFacts([call[c] EXCEPT !.declined = @ \cup {Owner[s]}],
                    [answer[c] EXCEPT ![Owner[s]] = "declined"], sockets)
      BY <1>0, <1>8, DeclineFacts DEF Decline, MayDecline
    <3>2. /\ call'[c] = [call[c] EXCEPT !.declined = @ \cup {Owner[s]}]
          /\ answer'[c] = [answer[c] EXCEPT ![Owner[s]] = "declined"]
      BY <1>0, <1>8 DEF Decline
    <3>3. call'[c].stage = "placed" /\ c \in Running
      BY <1>0, <1>8, <3>2 DEF Decline, Call, Running
    <3>4. Finish({c}) /\ {c} \in SUBSET Running
      BY <1>8, <2>5, <3>3 DEF Decline
    <3>5. /\ byChat' \in [Chats -> CallIds \cup {NoCall}]
          /\ ringTimers' \subseteq CallIds
          /\ unwritten' \in [CallIds -> SUBSET Lines]
          /\ log' \in Seq(Lines)
      BY <1>0, <2>2, <2>3, <3>1, <3>2, <3>3, <3>4, FinishTyped
    <3>6. QED
      BY <1>8, <2>2, <2>3, <3>5 DEF Decline, TypeOK
  <2>6. QED
    BY <2>4, <2>5
<1>9. ASSUME NEW s \in Sockets, NEW c \in CallIds, Leave(s, c) PROVE TypeOK'
  <2>1. CASE EndsByLeaving(c, Owner[s])
    <3>1. Named(c) = {c} /\ c \in Running /\ call[c].stage = "placed"
      BY <1>9 DEF Leave, Named, Running, IsLive
    <3>2. hungUp' \subseteq CallIds \X Users
      <4>1. hungUp' = hungUp \cup {<<c, Owner[s]>>} /\ Owner[s] \in Users
        BY <1>9, <2>1, GroupCallAssumption DEF Leave
      <4>2. QED
        BY <4>1 DEF TypeOK
    <3>3. QED
      BY <1>0, <1>9, <2>1, <3>1, <3>2, FinishTyped DEF Leave, TypeOK
  <2>2. CASE ~EndsByLeaving(c, Owner[s])
    <3>0. Owner[s] \in Users
      BY GroupCallAssumption
    <3>1. call' \in [CallIds -> Call]
      <4>1. call' = [call EXCEPT ![c].present = @ \ {Owner[s]}]
        BY <1>9, <2>2 DEF Leave
      <4>2. QED
        BY <1>0, <3>0, <4>1, CallChanges
    <3>2. QED
      BY <1>9, <2>2, <3>1 DEF Leave, TypeOK, GoesOn
  <2>3. QED
    BY <2>1, <2>2
<1>10. ASSUME NEW c \in CallIds, NEW line \in unwritten[c], Post(c, line) PROVE TypeOK'
  <2>1. line \in Lines
    BY <1>0 DEF TypeOK
  <2>2. log' \in Seq(Lines)
    <3>1. log \in Seq(Lines) /\ Append(log, line) \in Seq(Lines)
      BY <1>0, <2>1 DEF TypeOK
    <3>2. log' = Append(log, line) \/ log' = log
      BY <1>10 DEF Post
    <3>3. QED
      BY <3>1, <3>2
  <2>3. QED
    BY <1>10, <2>2 DEF Post, TypeOK
<1>11. CASE Restart
  <2>1. call' \in [CallIds -> Call]
    BY <1>0, <1>11, StageChanges DEF Restart
  <2>2. QED
    BY <1>11, <2>1 DEF Restart, TypeOK
<1>12. CASE UNCHANGED vars
  BY <1>12 DEF vars, TypeOK
<1>13. QED
  BY <1>1, <1>2, <1>3, <1>4, <1>5, <1>6, <1>7, <1>8, <1>9, <1>10, <1>11, <1>12 DEF Next

--------------------------------------------------------------------------------
(* The invariant, one call at a time.                                         *)

(* Nothing moves a connection back.                                           *)
Later(socks, socks2) ==
  \A s \in Sockets : /\ socks[s] = "closed" => socks2[s] = "closed"
                     /\ socks[s] # "new" => socks2[s] # "new"

(* A step that leaves a call's own record, answers and lines alone.           *)
LEMMA Undisturbed ==
  ASSUME TypeOK, NEW c \in CallIds, Sound(c),
         call'[c] = call[c], answer'[c] = answer[c], unwritten'[c] = unwritten[c],
         IsLive(c)' <=> IsLive(c), log' = log, Later(sockets, sockets'),
         hungUp \subseteq hungUp', c \in ringTimers' => c \in ringTimers
  PROVE  Sound(c)'
<1>1. call[c].socket \in Sockets
  BY DEF TypeOK, Call
<1>2. CallFacts(call[c], answer[c], sockets')
  BY <1>1 DEF Sound, CallFacts, Later
<1>3. IsOver(c)' <=> IsOver(c)
  BY DEF IsOver
<1>4. IsOver(c) => ReasonToEnd(call[c], c, sockets', hungUp', answer[c])
  BY <1>1 DEF Sound, ReasonToEnd, Later
<1>5. LineFacts(call[c], c, IsOver(c)', answer[c], unwritten[c], log)
  BY <1>3 DEF Sound, LineFacts
<1>6. QED
  BY <1>2, <1>3, <1>4, <1>5 DEF Sound

(* A running call has no line, written or to write.                           *)
LEMMA NothingToldYet ==
  ASSUME NEW c \in CallIds, Sound(c), call[c].stage # "refused", ~IsOver(c)
  PROVE  unwritten[c] = {} /\ LoggedOf(c, log) = {}
  BY DEF Sound, LineFacts

(* A call that is still going, whatever its new record.                       *)
LEMMA StillGoing ==
  ASSUME NEW c \in CallIds, Sound(c), call[c].stage # "refused", ~IsOver(c),
         CallFacts(call'[c], answer'[c], sockets'), unwritten'[c] = unwritten[c],
         log' = log, ~IsOver(c)',
         c \in ringTimers' => call'[c].stage = "placed" /\ IsLive(c)'
  PROVE  Sound(c)'
<1>1. unwritten'[c] = {} /\ LoggedOf(c, log') = {}
  BY NothingToldYet
<1>2. LineFacts(call'[c], c, IsOver(c)', answer'[c], unwritten'[c], log')
  BY <1>1 DEF LineFacts, OncePerPerson
<1>3. QED
  BY <1>2 DEF Sound

(* A call that a step ends.                                                   *)
LEMMA Ended ==
  ASSUME TypeOK, TypeOK', NEW over \in SUBSET CallIds, Finish(over), NEW c \in over,
         Sound(c), call[c].stage = "placed", IsLive(c), ~IsLive(c)',
         call'[c].stage = "placed", CallFacts(call'[c], answer'[c], sockets'),
         ReasonToEnd(call'[c], c, sockets', hungUp', answer'[c])
  PROVE  Sound(c)'
<1>1. ~IsOver(c) /\ IsOver(c)'
  BY DEF IsOver
<1>2. LoggedOf(c, log) = {} /\ log' = log
  BY <1>1, NothingToldYet DEF Finish
<1>3. unwritten'[c] = Story(c, call'[c])
  BY DEF Finish
<1>4. call'[c] \in Call /\ answer'[c] \in [Users -> Answers]
  BY DEF TypeOK
<1>5. LineFacts(call'[c], c, TRUE, answer'[c], Story(c, call'[c]), log)
  BY <1>2, <1>4, FinishedSound
<1>6. LineFacts(call'[c], c, IsOver(c)', answer'[c], unwritten'[c], log')
  BY <1>1, <1>2, <1>3, <1>5
<1>7. c \notin ringTimers'
  BY DEF Finish
<1>8. QED
  BY <1>6, <1>7 DEF Sound

(* A step that ends calls and leaves every record alone.                      *)
LEMMA FinishKeepsSound ==
  ASSUME IInv, TypeOK', NEW over \in SUBSET Running, Finish(over),
         UNCHANGED <<call, answer>>, Later(sockets, sockets'), hungUp \subseteq hungUp',
         \A c \in over : ReasonToEnd(call[c], c, sockets', hungUp', answer[c])
  PROVE  \A c \in CallIds : Sound(c)'
<1>1. over \in SUBSET CallIds /\ \A c \in over : call[c].stage = "placed" /\ IsLive(c)
  BY DEF Running
<1>2. TypeOK /\ \A c \in CallIds : call[c].chat \in Chats /\ call'[c].chat = call[c].chat
  BY DEF IInv, TypeOK, Call
<1>3. \A c \in CallIds : IsLive(c)' <=> IsLive(c) /\ c \notin over
  BY <1>1, <1>2, FinishedNotLive
<1>4. ASSUME NEW c \in CallIds PROVE Sound(c)'
  <2>1. Sound(c)
    BY DEF IInv
  <2>2. CASE c \notin over
    <3>1. /\ unwritten'[c] = unwritten[c] /\ log' = log
          /\ c \in ringTimers' => c \in ringTimers
      BY <2>2 DEF Finish
    <3>2. QED
      BY <1>2, <1>3, <2>1, <2>2, <3>1, Undisturbed
  <2>3. CASE c \in over
    <3>1. CallFacts(call'[c], answer'[c], sockets')
      <4>1. CallFacts(call[c], answer[c], sockets) /\ call[c].socket \in Sockets
        BY <1>2, <2>1 DEF Sound, TypeOK, Call
      <4>2. QED
        BY <4>1 DEF CallFacts, Later
    <3>2. call'[c] = call[c] /\ answer'[c] = answer[c] /\ ~IsLive(c)'
      BY <1>3, <2>3
    <3>3. QED
      BY <1>1, <1>2, <2>1, <2>3, <3>1, <3>2, Ended
  <2>4. QED
    BY <2>2, <2>3
<1>5. QED
  BY <1>4

(* A tab that opens keeps every call sound.                                   *)
LEMMA ConnectSound ==
  ASSUME IInv, TypeOK', NEW s \in Sockets, Connect(s) PROVE \A c \in CallIds : Sound(c)'
<1>1. Later(sockets, sockets')
  BY DEF Connect, Later, IInv, TypeOK
<1>2. TAKE c \in CallIds
<1>3. /\ TypeOK /\ Sound(c) /\ (IsLive(c)' <=> IsLive(c))
      /\ UNCHANGED <<call, ringTimers, unwritten, log, answer, hungUp>>
  BY DEF IInv, Connect, IsLive
<1>4. QED
  BY <1>1, <1>3, Undisturbed

(* A tab that closes, with the calls it hosted, keeps every call sound.       *)
LEMMA DisconnectSound ==
  ASSUME IInv, TypeOK', NEW s \in Sockets, Disconnect(s)
  PROVE  \A c \in CallIds : Sound(c)'
<1>1. Later(sockets, sockets') /\ sockets'[s] = "closed"
  BY DEF Disconnect, Later, IInv, TypeOK
<1>2. \A c \in HostedBySocket(s) : ReasonToEnd(call[c], c, sockets', hungUp', answer[c])
  BY <1>1 DEF HostedBySocket, ReasonToEnd
<1>3. /\ HostedBySocket(s) \in SUBSET Running /\ Finish(HostedBySocket(s))
      /\ UNCHANGED <<call, answer>> /\ hungUp' = hungUp
  BY DEF HostedBySocket, Disconnect
<1>4. QED
  BY <1>1, <1>2, <1>3, FinishKeepsSound

(* Asking for a call, before the database has answered, keeps every call      *)
(* sound.                                                                     *)
LEMMA AskSound ==
  ASSUME IInv, TypeOK', NEW s \in Sockets, NEW c \in CallIds, NEW ch \in Chats,
         NEW kind \in {"direct", "group"}, NEW invited \in SUBSET PartiesOf[ch],
         Ask(s, c, ch, kind, invited)
  PROVE  \A d \in CallIds : Sound(d)'
<1>1. /\ TypeOK /\ Later(sockets, sockets')
      /\ UNCHANGED <<sockets, byChat, ringTimers, unwritten, log, answer, hungUp>>
  BY DEF IInv, Later, Ask
<1>2. ASSUME NEW d \in CallIds, d # c PROVE Sound(d)'
  <2>1. Sound(d) /\ call'[d] = call[d]
    BY <1>2 DEF IInv, TypeOK, Ask
  <2>2. IsLive(d)' <=> IsLive(d)
    BY <1>1, <2>1 DEF IsLive
  <2>3. QED
    BY <1>1, <2>1, <2>2, Undisturbed
<1>3. Sound(c)'
  <2>1. Sound(c) /\ call[c].stage = "unused" /\ ~IsOver(c) /\ sockets[s] = "open"
    BY DEF IInv, Ask, IsOver
  <2>2. /\ call'[c].stage = "asked" /\ call'[c].host = Owner[s] /\ call'[c].socket = s
        /\ call'[c].invited = invited /\ call'[c].kind = kind
        /\ call'[c].joined = {} /\ call'[c].declined = {}
    BY DEF Ask, Blank, IInv, TypeOK
  <2>3. \A u \in Users : answer[c][u] # "came" /\ answer[c][u] # "declined"
    BY <2>1 DEF Sound, CallFacts
  <2>4. Owner[s] \notin invited /\ (kind = "direct" => \E u \in Users : invited = {u})
    BY GroupCallAssumption DEF Ask, MayInvite
  <2>5. CallFacts(call'[c], answer'[c], sockets')
    BY <1>1, <2>1, <2>2, <2>3, <2>4 DEF CallFacts
  <2>6. ~IsOver(c)' /\ c \notin ringTimers'
    BY <1>1, <2>1, <2>2 DEF IsOver, Sound
  <2>7. QED
    BY <1>1, <2>1, <2>5, <2>6, StillGoing
<1>4. QED
  BY <1>2, <1>3

(* Placing a call keeps every call sound.                                     *)
LEMMA PlaceSound ==
  ASSUME IInv, TypeOK', NEW c \in CallIds, Place(c) PROVE \A d \in CallIds : Sound(d)'
<1>1. /\ TypeOK /\ Later(sockets, sockets') /\ call[c] \in Call
      /\ call[c].stage = "asked" /\ byChat[call[c].chat] = NoCall
      /\ call' = [call EXCEPT ![c].stage = "placed"]
      /\ byChat' = [byChat EXCEPT ![call[c].chat] = c]
      /\ ringTimers' = ringTimers \cup {c}
      /\ UNCHANGED <<sockets, unwritten, log, answer, hungUp>>
  BY DEF IInv, Later, Place, TypeOK
<1>2. ASSUME NEW d \in CallIds, d # c PROVE Sound(d)'
  <2>1. Sound(d) /\ call'[d] = call[d] /\ (d \in ringTimers' => d \in ringTimers)
    BY <1>1, <1>2 DEF IInv, TypeOK
  <2>2. d # NoCall /\ call[d].chat \in Chats /\ call[c].chat \in Chats
    BY <1>1 DEF CallIds, NoCall, TypeOK, Call
  <2>3. IsLive(d)' <=> IsLive(d)
    BY <1>1, <1>2, <2>1, <2>2 DEF IsLive, TypeOK
  <2>4. QED
    BY <1>1, <2>1, <2>3, Undisturbed
<1>3. Sound(c)'
  <2>1. Sound(c) /\ ~IsOver(c)
    BY <1>1 DEF IInv, IsOver
  <2>2. call'[c] = [call[c] EXCEPT !.stage = "placed"]
    BY <1>1 DEF TypeOK
  <2>3. /\ call'[c].stage = "placed" /\ call'[c].chat = call[c].chat
        /\ CallFacts(call'[c], answer'[c], sockets')
    BY <1>1, <2>1, <2>2 DEF Sound, CallFacts, Call
  <2>4. IsLive(c)' /\ ~IsOver(c)'
    BY <1>1, <2>3 DEF IsLive, IsOver, TypeOK, Call
  <2>5. QED
    BY <1>1, <2>1, <2>3, <2>4, StillGoing
<1>4. QED
  BY <1>2, <1>3

(* Refusing to place a call keeps every call sound.                           *)
LEMMA RefuseSound ==
  ASSUME IInv, TypeOK', NEW c \in CallIds, Refuse(c) PROVE \A d \in CallIds : Sound(d)'
<1> DEFINE lines == {[call |-> c, about |-> u, what |-> "offline"] : u \in call[c].invited}
<1>1. /\ TypeOK /\ Later(sockets, sockets') /\ call[c] \in Call
      /\ call[c].stage = "asked"
      /\ call' = [call EXCEPT ![c].stage = "refused"]
      /\ unwritten' = [unwritten EXCEPT ![c] = IF Offline(c) THEN lines ELSE {}]
      /\ UNCHANGED <<sockets, byChat, ringTimers, log, answer, hungUp>>
  BY DEF IInv, Later, Refuse, TypeOK
<1>2. ASSUME NEW d \in CallIds, d # c PROVE Sound(d)'
  <2>1. Sound(d) /\ call'[d] = call[d] /\ unwritten'[d] = unwritten[d]
    BY <1>1, <1>2 DEF IInv, TypeOK
  <2>2. IsLive(d)' <=> IsLive(d)
    BY <1>1, <2>1 DEF IsLive
  <2>3. QED
    BY <1>1, <2>1, <2>2, Undisturbed
<1>3. Sound(c)'
  <2>1. Sound(c) /\ ~IsOver(c)
    BY <1>1 DEF IInv, IsOver
  <2>2. call'[c] = [call[c] EXCEPT !.stage = "refused"]
    BY <1>1 DEF TypeOK
  <2>3. /\ call'[c].stage = "refused"
        /\ CallFacts(call'[c], answer'[c], sockets')
    BY <1>1, <2>1, <2>2 DEF Sound, CallFacts, Call
  <2>4. ~IsOver(c)' /\ c \notin ringTimers'
    BY <1>1, <2>1, <2>3 DEF IsOver, Sound
  <2>5. unwritten'[c] \in {lines, {}} /\ LoggedOf(c, log') = {}
    BY <1>1, <2>1, NothingToldYet DEF TypeOK
  <2>6. ASSUME NEW l \in lines
        PROVE  TellsOf(l, c, answer[c]) /\ l.what = "offline" /\
               l = [call |-> c, about |-> l.about, what |-> "offline"]
    BY <1>1 DEF TellsOf, Lines, Call
  <2>7. LineFacts(call'[c], c, IsOver(c)', answer'[c], unwritten'[c], log')
    <3> HIDE DEF lines
    <3>1. QED
      BY <1>1, <2>3, <2>5, <2>6 DEF LineFacts, OncePerPerson
  <2>8. QED
    BY <2>3, <2>4, <2>7 DEF Sound
<1>4. QED
  BY <1>2, <1>3

(* A handler that changes the record and the answers of one running call and  *)
(* ends nothing.                                                              *)
LEMMA AnswerSound ==
  ASSUME IInv, TypeOK', NEW c \in CallIds, call[c].stage = "placed", IsLive(c),
         GoesOn, UNCHANGED <<sockets, hungUp>>,
         \A d \in CallIds \ {c} : call'[d] = call[d] /\ answer'[d] = answer[d],
         call'[c].stage = "placed", call'[c].chat = call[c].chat,
         CallFacts(call'[c], answer'[c], sockets)
  PROVE  \A d \in CallIds : Sound(d)'
<1>1. TypeOK /\ Later(sockets, sockets') /\ \A d \in CallIds : Sound(d)
  BY DEF IInv, Later
<1>2. \A d \in CallIds : IsLive(d)' <=> IsLive(d)
  BY DEF GoesOn, IsLive
<1>3. ASSUME NEW d \in CallIds, d # c PROVE Sound(d)'
  BY <1>1, <1>2, <1>3, Undisturbed DEF GoesOn
<1>4. Sound(c)'
  BY <1>1, <1>2, StillGoing DEF GoesOn, IsOver
<1>5. QED
  BY <1>3, <1>4

(* Somebody coming keeps every call sound.                                    *)
LEMMA JoinSound ==
  ASSUME IInv, TypeOK', NEW s \in Sockets, NEW c \in CallIds, Join(s, c)
  PROVE  \A d \in CallIds : Sound(d)'
<1> DEFINE u == Owner[s]
<1>1. /\ TypeOK /\ call[c] \in Call /\ answer[c] \in [Users -> Answers] /\ Sound(c)
      /\ call[c].stage = "placed" /\ IsLive(c) /\ u \in call[c].invited
      /\ GoesOn /\ UNCHANGED <<sockets, hungUp>>
  BY DEF IInv, Join, TypeOK
<1>2. /\ \A d \in CallIds \ {c} : call'[d] = call[d] /\ answer'[d] = answer[d]
      /\ call'[c] = [call[c] EXCEPT !.joined = @ \cup {u}, !.present = @ \cup {u},
                                   !.declined = @ \ {u}]
      /\ answer'[c] = [answer[c] EXCEPT ![u] = "came"]
  BY <1>1 DEF Join, TypeOK
<1>3. CallFacts(call'[c], answer'[c], sockets)
  <2>1. CallFacts(call[c], answer[c], sockets)
    BY <1>1 DEF Sound
  <2>2. CallFacts([call[c] EXCEPT !.joined = @ \cup {u}, !.present = @ \cup {u},
                                  !.declined = @ \ {u}],
                  [answer[c] EXCEPT ![u] = "came"], sockets)
    <3> HIDE DEF u
    <3>1. QED
      BY <1>1, <2>1, JoinFacts
  <2>3. QED
    BY <1>2, <2>2
<1>4. call'[c].stage = "placed" /\ call'[c].chat = call[c].chat
  BY <1>1, <1>2 DEF Call
<1>5. QED
  BY <1>1, <1>2, <1>3, <1>4, AnswerSound

(* A refusal, and the end it may bring, keeps every call sound.               *)
LEMMA DeclineSound ==
  ASSUME IInv, TypeOK', NEW s \in Sockets, NEW c \in CallIds, Decline(s, c)
  PROVE  \A d \in CallIds : Sound(d)'
<1> DEFINE u == Owner[s]
<1>1. /\ TypeOK /\ call[c] \in Call /\ answer[c] \in [Users -> Answers] /\ Sound(c)
      /\ call[c].stage = "placed" /\ IsLive(c) /\ u \in call[c].invited \ call[c].joined
      /\ UNCHANGED <<sockets, hungUp>>
  BY DEF IInv, Decline, MayDecline, TypeOK
<1>2. /\ \A d \in CallIds \ {c} : call'[d] = call[d] /\ answer'[d] = answer[d]
      /\ call'[c] = [call[c] EXCEPT !.declined = @ \cup {u}]
      /\ answer'[c] = [answer[c] EXCEPT ![u] = "declined"]
  BY <1>1 DEF Decline, TypeOK
<1>3. CallFacts(call'[c], answer'[c], sockets)
  BY <1>1, <1>2, DeclineFacts DEF Sound
<1>4. /\ call'[c].stage = "placed" /\ call'[c].chat = call[c].chat
      /\ call'[c].kind = call[c].kind /\ call'[c].invited = call[c].invited
  BY <1>1, <1>2 DEF Call
<1>5. CASE call[c].kind # "direct"
  <2>1. GoesOn
    BY <1>5 DEF Decline
  <2>2. QED
    BY <1>1, <1>2, <1>3, <1>4, <2>1, AnswerSound
<1>6. CASE call[c].kind = "direct"
  <2>1. Finish({c}) /\ {c} \in SUBSET CallIds
    BY <1>6 DEF Decline
  <2>2. \A d \in CallIds : call[d].chat \in Chats /\ call'[d].chat = call[d].chat
    BY <1>1, <1>2, <1>4 DEF TypeOK, Call
  <2>3. \A d \in CallIds : IsLive(d)' <=> IsLive(d) /\ d # c
    BY <1>1, <2>1, <2>2, FinishedNotLive
  <2>4. ASSUME NEW d \in CallIds, d # c PROVE Sound(d)'
    <3>1. /\ Sound(d) /\ unwritten'[d] = unwritten[d] /\ log' = log
          /\ (d \in ringTimers' => d \in ringTimers) /\ Later(sockets, sockets')
          /\ hungUp' = hungUp
      BY <1>1, <2>1, <2>4 DEF IInv, Finish, Later
    <3>2. call'[d] = call[d] /\ answer'[d] = answer[d] /\ (IsLive(d)' <=> IsLive(d))
      BY <1>2, <2>3, <2>4
    <3>3. QED
      BY <1>1, <3>1, <3>2, Undisturbed
  <2>5. Sound(c)'
    <3>1. answer[c][u] \in Answers /\ u \in Users
      BY <1>1 DEF Call
    <3>2. ReasonToEnd(call'[c], c, sockets', hungUp', answer'[c])
      BY <1>1, <1>2, <1>4, <1>6, <3>1 DEF ReasonToEnd
    <3>3. ~IsLive(c)' /\ CallFacts(call'[c], answer'[c], sockets')
      BY <1>1, <1>3, <2>3
    <3>4. QED
      BY <1>1, <1>4, <2>1, <3>2, <3>3, Ended
  <2>6. QED
    BY <2>4, <2>5
<1>7. QED
  BY <1>5, <1>6

(* Hanging up keeps every call sound.                                         *)
LEMMA LeaveSound ==
  ASSUME IInv, TypeOK', NEW s \in Sockets, NEW c \in CallIds, Leave(s, c)
  PROVE  \A d \in CallIds : Sound(d)'
<1> DEFINE u == Owner[s]
<1>1. /\ TypeOK /\ call[c] \in Call /\ Sound(c) /\ call[c].stage = "placed"
      /\ Named(c) = {c} /\ IsLive(c) /\ c \in Running
      /\ UNCHANGED <<sockets, answer>> /\ Later(sockets, sockets')
  BY DEF IInv, Leave, Named, IsLive, Running, TypeOK, Later
<1>2. CASE EndsByLeaving(c, u)
  <2>1. /\ Finish({c}) /\ hungUp' = hungUp \cup {<<c, u>>} /\ UNCHANGED <<call, answer>>
        /\ hungUp \subseteq hungUp'
    BY <1>1, <1>2 DEF Leave
  <2>2. ReasonToEnd(call[c], c, sockets', hungUp', answer[c])
    <3>1. u \in Users
      BY GroupCallAssumption
    <3>2. QED
      BY <1>2, <2>1, <3>1 DEF ReasonToEnd, EndsByLeaving
  <2>3. QED
    BY <1>1, <2>1, <2>2, FinishKeepsSound
<1>3. CASE ~EndsByLeaving(c, u)
  <2>1. /\ GoesOn /\ UNCHANGED <<sockets, hungUp>>
        /\ call' = [call EXCEPT ![c].present = @ \ {u}]
    BY <1>3 DEF Leave
  <2>2. /\ \A d \in CallIds \ {c} : call'[d] = call[d] /\ answer'[d] = answer[d]
        /\ call'[c] = [call[c] EXCEPT !.present = @ \ {u}] /\ answer'[c] = answer[c]
    BY <1>1, <2>1 DEF TypeOK
  <2>3. /\ call'[c].stage = "placed" /\ call'[c].chat = call[c].chat
        /\ CallFacts(call'[c], answer'[c], sockets)
    BY <1>1, <2>2 DEF Call, Sound, CallFacts
  <2>4. QED
    BY <1>1, <2>1, <2>2, <2>3, AnswerSound
<1>4. QED
  BY <1>2, <1>3

(* The end of a call's minute keeps every call sound.                         *)
LEMMA RingOutSound ==
  ASSUME IInv, TypeOK', NEW c \in CallIds, RingOut(c) PROVE \A d \in CallIds : Sound(d)'
<1>1. /\ TypeOK /\ call[c] \in Call /\ Sound(c) /\ c \in Running /\ c \in ringTimers
      /\ UNCHANGED <<sockets, call, answer, hungUp>> /\ Later(sockets, sockets')
  BY DEF IInv, RingOut, Running, Sound, TypeOK, Later
<1>2. CASE IsLive(c) /\ GivesUp(c)
  <2>1. Finish({c})
    BY <1>2 DEF RingOut
  <2>2. call[c].joined = {}
    BY <1>1, <1>2 DEF GivesUp, Unanswered, Sound, CallFacts, Running
  <2>3. ReasonToEnd(call[c], c, sockets', hungUp', answer[c])
    BY <1>1, <2>2 DEF ReasonToEnd, Sound, CallFacts
  <2>4. QED
    BY <1>1, <2>1, <2>3, FinishKeepsSound
<1>3. CASE ~(IsLive(c) /\ GivesUp(c))
  <2>1. ringTimers' \subseteq ringTimers /\ UNCHANGED <<byChat, unwritten, log>>
    BY <1>3 DEF RingOut
  <2>2. TAKE d \in CallIds
  <2>3. Sound(d) /\ (IsLive(d)' <=> IsLive(d))
    BY <1>1, <2>1 DEF IInv, IsLive
  <2>4. QED
    BY <1>1, <2>1, <2>3, Undisturbed
<1>4. QED
  BY <1>2, <1>3

(* Writing one line of a finished call keeps every call sound.                *)
LEMMA PostSound ==
  ASSUME IInv, TypeOK', NEW c \in CallIds, NEW line \in unwritten[c], Post(c, line)
  PROVE  \A d \in CallIds : Sound(d)'
<1>1. /\ TypeOK /\ log \in Seq(Lines) /\ Sound(c) /\ line \in Lines /\ line.call = c
      /\ unwritten' = [unwritten EXCEPT ![c] = @ \ {line}]
      /\ log' = Append(log, line) \/ log' = log
      /\ UNCHANGED <<sockets, call, byChat, ringTimers, answer, hungUp>>
  BY DEF IInv, Post, TypeOK, Sound, LineFacts, TellsOf
<1>2. ASSUME NEW d \in CallIds, NEW i \in LoggedOf(d, log')
      PROVE  \/ i \in LoggedOf(d, log) /\ log'[i] = log[i]
             \/ d = c /\ log'[i] = line
  <2>1. CASE log' = log
    BY <1>2, <2>1 DEF LoggedOf
  <2>2. CASE log' = Append(log, line)
    <3>1. i \in DOMAIN log' /\ log'[i].call = d
      BY <1>2 DEF LoggedOf
    <3>2. /\ Len(log) \in Nat /\ DOMAIN log = 1..Len(log)
          /\ DOMAIN log' = 1..(Len(log) + 1)
          /\ log'[Len(log) + 1] = line
          /\ \A j \in 1..Len(log) : log'[j] = log[j]
      BY <1>1, <2>2, AppendProperties, LenProperties
    <3>3. CASE i = Len(log) + 1
      BY <1>1, <3>1, <3>2, <3>3
    <3>4. CASE i # Len(log) + 1
      <4>1. i \in 1..Len(log)
        BY <3>1, <3>2, <3>4
      <4>2. log'[i] = log[i] /\ i \in DOMAIN log
        BY <3>2, <4>1
      <4>3. QED
        BY <3>1, <4>2 DEF LoggedOf
    <3>5. QED
      BY <3>3, <3>4
  <2>3. QED
    BY <1>1, <2>1, <2>2
<1>3. ASSUME NEW d \in CallIds PROVE Sound(d)'
  <2>1. Sound(d) /\ (IsOver(d)' <=> IsOver(d)) /\ (IsLive(d)' <=> IsLive(d))
    BY <1>1 DEF IInv, IsOver, IsLive
  <2>2. LineFacts(call[d], d, IsOver(d), answer[d], unwritten[d], log)
    BY <2>1 DEF Sound
  <2>3. unwritten'[d] \subseteq unwritten[d] /\ (d = c => line \notin unwritten'[d])
    BY <1>1 DEF TypeOK
  <2>4. ASSUME NEW l \in unwritten'[d], NEW i \in LoggedOf(d, log')
        PROVE  log'[i].about # l.about
    <3>1. CASE i \in LoggedOf(d, log) /\ log'[i] = log[i]
      BY <2>2, <2>3, <3>1 DEF LineFacts
    <3>2. CASE d = c /\ log'[i] = line
      BY <2>2, <2>3, <3>2 DEF LineFacts, OncePerPerson
    <3>3. QED
      BY <1>2, <3>1, <3>2
  <2>5. unwritten'[d] # {} \/ LoggedOf(d, log') # {}
          => unwritten[d] # {} \/ LoggedOf(d, log) # {}
    BY <1>2, <2>3
  <2>6. LineFacts(call[d], d, IsOver(d), answer[d], unwritten'[d], log')
    BY <2>2, <2>3, <2>4, <2>5 DEF LineFacts, OncePerPerson
  <2>7. /\ CallFacts(call[d], answer[d], sockets)
        /\ IsOver(d)' => ReasonToEnd(call[d], d, sockets, hungUp, answer[d])
        /\ d \in ringTimers => call[d].stage = "placed" /\ IsLive(d)'
    BY <2>1 DEF Sound
  <2>8. LineFacts(call[d], d, IsOver(d)', answer[d], unwritten'[d], log')
    BY <2>1, <2>6 DEF LineFacts
  <2>9. QED
    BY <1>1, <2>7, <2>8 DEF Sound
<1>4. QED
  BY <1>3

(* A restart, which forgets every call, keeps every call sound.               *)
LEMMA RestartSound ==
  ASSUME IInv, TypeOK', Restart PROVE \A c \in CallIds : Sound(c)'
<1>1. TAKE c \in CallIds
<1>2. /\ TypeOK /\ call[c] \in Call /\ Sound(c) /\ call[c].socket \in Sockets
      /\ UNCHANGED <<log, answer, hungUp>> /\ unwritten'[c] = {} /\ ringTimers' = {}
      /\ call'[c] = IF call[c].stage = "asked" THEN [call[c] EXCEPT !.stage = "refused"]
                                               ELSE call[c]
      /\ \A s \in Sockets : sockets'[s] = IF sockets[s] = "open" THEN "closed" ELSE sockets[s]
      /\ \A s \in Sockets : sockets[s] \in {"new", "open", "closed"}
  BY DEF IInv, Restart, TypeOK, Call
<1>3. /\ call'[c] \in Call /\ call'[c].chat = call[c].chat /\ call'[c].socket = call[c].socket
      /\ call'[c].host = call[c].host /\ call'[c].invited = call[c].invited
      /\ call'[c].joined = call[c].joined /\ call'[c].declined = call[c].declined
      /\ call'[c].kind = call[c].kind
      /\ call'[c].stage = IF call[c].stage = "asked" THEN "refused" ELSE call[c].stage
  <2>1. CASE call[c].stage = "asked"
    <3>1. call'[c] = [call[c] EXCEPT !.stage = "refused"]
      BY <1>2, <2>1
    <3>2. QED
      BY <1>2, <2>1, <3>1 DEF Call
  <2>2. CASE call[c].stage # "asked"
    BY <1>2, <2>2
  <2>3. QED
    BY <2>1, <2>2
<1>4. CallFacts(call'[c], answer'[c], sockets')
  BY <1>2, <1>3 DEF Sound, CallFacts, Call
<1>5. ~IsLive(c)' /\ (IsOver(c)' <=> call[c].stage = "placed")
  BY <1>2, <1>3 DEF IsLive, IsOver, Restart, NoCall, CallIds, Call
<1>6. LineFacts(call'[c], c, IsOver(c)', answer'[c], unwritten'[c], log')
  BY <1>2, <1>3, <1>5 DEF Sound, LineFacts, OncePerPerson, IsOver, Call
<1>7. IsOver(c)' => sockets'[call'[c].socket] = "closed"
  BY <1>2, <1>3, <1>5 DEF Sound, CallFacts
<1>8. QED
  BY <1>2, <1>4, <1>6, <1>7 DEF Sound, ReasonToEnd

--------------------------------------------------------------------------------
(* The invariant holds at the start and is kept by every step.                *)
THEOREM InitSound == Init => IInv
<1> SUFFICES ASSUME Init PROVE IInv
  OBVIOUS
<1>1. TypeOK
  BY InitTyped
<1>2. ASSUME NEW c \in CallIds PROVE Sound(c)
  <2>1. /\ call[c].stage = "unused" /\ call[c].joined = {} /\ call[c].declined = {}
        /\ unwritten[c] = {} /\ answer[c] = [u \in Users |-> "none"] /\ ringTimers = {}
        /\ log = <<>>
    BY DEF Init, Blank
  <2>2. LoggedOf(c, log) = {}
    BY <2>1 DEF LoggedOf
  <2>3. QED
    BY <2>1, <2>2 DEF Sound, CallFacts, LineFacts, OncePerPerson, IsOver
<1>3. QED
  BY <1>1, <1>2 DEF IInv

(* Whatever handler, timer, write or restart comes next, the invariant stays. *)
THEOREM NextSound == IInv /\ [Next]_vars => IInv'
<1> SUFFICES ASSUME IInv, [Next]_vars PROVE IInv'
  OBVIOUS
<1>1. TypeOK'
  BY NextTyped
<1>2. CASE Next
  <2>1. \A c \in CallIds : Sound(c)'
    BY <1>1, <1>2, ConnectSound, DisconnectSound, AskSound, PlaceSound, RefuseSound,
       RingOutSound, JoinSound, DeclineSound, LeaveSound, PostSound, RestartSound DEF Next
  <2>2. QED
    BY <1>1, <2>1 DEF IInv
<1>3. CASE UNCHANGED vars
  <2>1. ASSUME NEW c \in CallIds PROVE Sound(c)'
    <3>1. TypeOK /\ Sound(c) /\ (IsLive(c)' <=> IsLive(c)) /\ Later(sockets, sockets')
      BY <1>3 DEF IInv, vars, IsLive, Later
    <3>2. /\ call'[c] = call[c] /\ answer'[c] = answer[c] /\ unwritten'[c] = unwritten[c]
          /\ log' = log /\ hungUp' = hungUp /\ ringTimers' = ringTimers
      BY <1>3 DEF vars
    <3>3. QED
      BY <3>1, <3>2, Undisturbed
  <2>2. QED
    BY <1>1, <2>1 DEF IInv
<1>4. QED
  BY <1>2, <1>3

(* Every reachable state satisfies the invariant.                             *)
THEOREM Invariant == Spec => []IInv
  BY InitSound, NextSound, PTL DEF Spec

(* Type correctness of the gateway's call state.                              *)
THEOREM TypeCorrect == Spec => []TypeOK
<1>1. IInv => TypeOK
  BY DEF IInv
<1>2. QED
  BY <1>1, Invariant, PTL

(* No timer outlives its call: finishGroupCall clears what scheduleNoAnswer   *)
(* set.                                                                       *)
THEOREM TimersCleared == Spec => []TimersBelongToRunningCalls
<1>1. IInv => TimersBelongToRunningCalls
  BY DEF IInv, Sound, TimersBelongToRunningCalls, Running, TypeOK
<1>2. QED
  BY <1>1, Invariant, PTL

(* Every call that is over ended for one of the reasons a call may end for.   *)
THEOREM NoCallCutShort == Spec => []EndsForAReason
<1>1. IInv => EndsForAReason
  BY DEF IInv, Sound, EndsForAReason, EndsByLeaving, Over, IsOver, ReasonToEnd
<1>2. QED
  BY <1>1, Invariant, PTL

--------------------------------------------------------------------------------
(* The gateway implements CallStory.                                          *)

(* The phase of one call, as the abstract specification sees it.              *)
LEMMA PhaseAt ==
  \A c \in CallIds :
    /\ Phase[c] = "unplaced" <=> call[c].stage # "placed"
    /\ Phase[c] = "running" <=> call[c].stage = "placed" /\ IsLive(c)
    /\ Phase[c] = "over" <=> IsOver(c)
  BY DEF Phase, IsOver

(* Two phases with the same values are the same.                              *)
LEMMA SamePhase ==
  ASSUME \A c \in CallIds : /\ call'[c].stage = "placed" <=> call[c].stage = "placed"
                            /\ call[c].stage = "placed" => (IsLive(c)' <=> IsLive(c))
  PROVE  Phase' = Phase
  BY DEF Phase

(* Calls leave the registry: the promise sees them end.                       *)
LEMMA FinishEnds ==
  ASSUME IInv, NEW over \in SUBSET Running, Finish(over), UNCHANGED <<call, answer>>
  PROVE  Promise!End(over)
<1>1. over \in SUBSET CallIds /\ \A c \in over : call[c].stage = "placed" /\ IsLive(c)
  BY DEF Running
<1>2. TypeOK /\ \A c \in CallIds : call[c].chat \in Chats /\ call'[c].chat = call[c].chat
  BY DEF IInv, TypeOK, Call
<1>3. \A c \in CallIds : IsLive(c)' <=> IsLive(c) /\ c \notin over
  BY <1>1, <1>2, FinishedNotLive
<1>4. Phase' = [c \in CallIds |-> IF c \in over THEN "over" ELSE Phase[c]]
  BY <1>1, <1>3 DEF Phase
<1>5. log' = log /\ answer' = answer
  BY DEF Finish
<1>6. QED
  BY <1>1, <1>4, <1>5, PhaseAt DEF Promise!End

(* The initial states map to initial states of CallStory.                     *)
LEMMA InitPromised == Init => Promise!Init
  BY DEF Init, Promise!Init, Phase, Blank

(* Every step maps to a step of CallStory or to a stutter.                    *)
LEMMA NextPromised ==
  ASSUME IInv, IInv', [Next]_vars PROVE [Promise!Next]_(Promise!vars)
<1>1. TypeOK /\ \A c \in CallIds : Sound(c)
  BY DEF IInv
<1>2. ASSUME UNCHANGED <<answer, log>>, Phase' = Phase
      PROVE  UNCHANGED Promise!vars
  BY <1>2 DEF Promise!vars
<1>3. ASSUME NEW over \in SUBSET CallIds, Promise!End(over) PROVE Promise!Next
  BY <1>3 DEF Promise!Next
<1>4. ASSUME NEW s \in Sockets, Connect(s) PROVE UNCHANGED Promise!vars
  <2>1. Phase' = Phase
    BY <1>4, SamePhase DEF Connect, IsLive
  <2>2. QED
    BY <1>2, <1>4, <2>1 DEF Connect
<1>5. ASSUME NEW s \in Sockets, Disconnect(s) PROVE Promise!Next
  <2>1. HostedBySocket(s) \in SUBSET Running /\ HostedBySocket(s) \in SUBSET CallIds
    BY DEF HostedBySocket, Running
  <2>2. QED
    BY <1>3, <1>5, <2>1, FinishEnds DEF Disconnect
<1>6. ASSUME NEW s \in Sockets, NEW c \in CallIds, NEW ch \in Chats,
             NEW kind \in {"direct", "group"}, NEW invited \in SUBSET PartiesOf[ch],
             Ask(s, c, ch, kind, invited)
      PROVE  UNCHANGED Promise!vars
  <2>1. /\ \A d \in CallIds \ {c} : call'[d] = call[d]
        /\ call[c].stage = "unused" /\ call'[c].stage = "asked"
        /\ UNCHANGED <<byChat, log, answer>>
    BY <1>1, <1>6 DEF Ask, TypeOK, Blank
  <2>2. Phase' = Phase
    BY <2>1, SamePhase DEF IsLive
  <2>3. QED
    BY <1>2, <2>1, <2>2
<1>7. ASSUME NEW c \in CallIds, Place(c) PROVE Promise!Next
  <2>1. /\ call[c] \in Call /\ call[c].stage = "asked" /\ byChat[call[c].chat] = NoCall
        /\ call' = [call EXCEPT ![c].stage = "placed"]
        /\ byChat' = [byChat EXCEPT ![call[c].chat] = c]
        /\ UNCHANGED <<log, answer>>
    BY <1>1, <1>7 DEF Place, TypeOK
  <2>2. /\ call'[c].stage = "placed" /\ IsLive(c)'
        /\ \A d \in CallIds \ {c} : call'[d] = call[d]
    BY <1>1, <2>1 DEF TypeOK, Call, IsLive
  <2>3. ASSUME NEW d \in CallIds \ {c} PROVE IsLive(d)' <=> IsLive(d)
    <3>1. d # NoCall /\ call[d].chat \in Chats /\ call[c].chat \in Chats
      BY <1>1, <2>1 DEF CallIds, NoCall, TypeOK, Call
    <3>2. QED
      BY <1>1, <2>1, <2>2, <3>1 DEF IsLive, TypeOK
  <2>4. Phase' = [Phase EXCEPT ![c] = "running"]
    BY <2>2, <2>3 DEF Phase
  <2>5. Phase[c] = "unplaced"
    BY <2>1 DEF Phase
  <2>6. Promise!Place(c)
    BY <2>1, <2>4, <2>5 DEF Promise!Place
  <2>7. QED
    BY <2>6 DEF Promise!Next
<1>8. ASSUME NEW c \in CallIds, Refuse(c) PROVE UNCHANGED Promise!vars
  <2>1. /\ \A d \in CallIds \ {c} : call'[d] = call[d]
        /\ call[c].stage = "asked" /\ call'[c].stage = "refused"
        /\ UNCHANGED <<byChat, log, answer>>
    BY <1>1, <1>8 DEF Refuse, TypeOK, Call
  <2>2. Phase' = Phase
    BY <2>1, SamePhase DEF IsLive
  <2>3. QED
    BY <1>2, <2>1, <2>2
<1>9. ASSUME NEW c \in CallIds, RingOut(c) PROVE Promise!Next \/ UNCHANGED Promise!vars
  <2>1. CASE IsLive(c) /\ GivesUp(c)
    <3>1. {c} \in SUBSET Running /\ {c} \in SUBSET CallIds
      BY <1>1, <1>9 DEF RingOut, Sound, Running
    <3>2. QED
      BY <1>3, <1>9, <2>1, <3>1, FinishEnds DEF RingOut
  <2>2. CASE ~(IsLive(c) /\ GivesUp(c))
    <3>1. UNCHANGED <<call, byChat, log, answer>>
      BY <1>9, <2>2 DEF RingOut
    <3>2. QED
      BY <1>2, <3>1, SamePhase DEF IsLive
  <2>3. QED
    BY <2>1, <2>2
<1>10. ASSUME NEW s \in Sockets, NEW c \in CallIds, Join(s, c) PROVE Promise!Next
  <2>1. /\ call[c].stage = "placed" /\ IsLive(c) /\ Owner[s] \in Users
        /\ answer' = [answer EXCEPT ![c][Owner[s]] = "came"] /\ UNCHANGED <<byChat, log>>
    BY <1>10, GroupCallAssumption DEF Join, GoesOn
  <2>2. \A d \in CallIds : call'[d].stage = call[d].stage /\ call'[d].chat = call[d].chat
    BY <1>1, <1>10 DEF Join, TypeOK, Call
  <2>3. Phase' = Phase
    BY <2>1, <2>2, SamePhase DEF IsLive
  <2>4. Promise!Answer(c, Owner[s], "came")
    BY <2>1, <2>3, PhaseAt DEF Promise!Answer
  <2>5. QED
    BY <2>1, <2>4 DEF Promise!Next, Promise!Answers
<1>11. ASSUME NEW s \in Sockets, NEW c \in CallIds, Decline(s, c) PROVE Promise!Next
  <2>1. /\ call[c].stage = "placed" /\ IsLive(c) /\ Owner[s] \in Users
        /\ answer' = [answer EXCEPT ![c][Owner[s]] = "declined"]
        /\ Owner[s] \notin call[c].joined
    BY <1>11, GroupCallAssumption DEF Decline, MayDecline
  <2>2. answer[c][Owner[s]] # "came"
    BY <1>1, <2>1 DEF Sound, CallFacts
  <2>3. \A d \in CallIds : call'[d].stage = call[d].stage /\ call'[d].chat = call[d].chat
    BY <1>1, <1>11 DEF Decline, TypeOK, Call
  <2>4. log' = log /\ Phase' \in {Phase, [Phase EXCEPT ![c] = "over"]}
    <3>1. CASE call[c].kind # "direct"
      <4>1. UNCHANGED <<byChat, log>>
        BY <1>11, <3>1 DEF Decline, GoesOn
      <4>2. QED
        BY <2>3, <4>1, SamePhase DEF IsLive
    <3>2. CASE call[c].kind = "direct"
      <4>1. Finish({c}) /\ {c} \in SUBSET CallIds /\ log' = log
        BY <1>11, <3>2 DEF Decline, Finish
      <4>2. \A d \in CallIds : call[d].chat \in Chats
        BY <1>1 DEF TypeOK, Call
      <4>3. \A d \in CallIds : IsLive(d)' <=> IsLive(d) /\ d # c
        BY <1>1, <2>3, <4>1, <4>2, FinishedNotLive
      <4>4. Phase' = [Phase EXCEPT ![c] = "over"]
        BY <2>1, <2>3, <4>3 DEF Phase
      <4>5. QED
        BY <4>1, <4>4
    <3>3. QED
      BY <3>1, <3>2
  <2>5. Promise!Answer(c, Owner[s], "declined")
    BY <2>1, <2>2, <2>4, PhaseAt DEF Promise!Answer
  <2>6. QED
    BY <2>1, <2>5 DEF Promise!Next, Promise!Answers
<1>12. ASSUME NEW s \in Sockets, NEW c \in CallIds, Leave(s, c)
       PROVE  Promise!Next \/ UNCHANGED Promise!vars
  <2>1. CASE EndsByLeaving(c, Owner[s])
    <3>1. /\ Named(c) \in SUBSET Running /\ Named(c) \in SUBSET CallIds
          /\ Finish(Named(c)) /\ UNCHANGED <<call, answer>>
      BY <1>12, <2>1 DEF Leave, Named, Running, IsLive
    <3>2. QED
      BY <1>3, <3>1, FinishEnds
  <2>2. CASE ~EndsByLeaving(c, Owner[s])
    <3>1. UNCHANGED <<byChat, log, answer>>
      BY <1>12, <2>2 DEF Leave, GoesOn
    <3>2. \A d \in CallIds : call'[d].stage = call[d].stage /\ call'[d].chat = call[d].chat
      BY <1>1, <1>12, <2>2 DEF Leave, TypeOK, Call
    <3>3. QED
      BY <1>2, <3>1, <3>2, SamePhase DEF IsLive
  <2>3. QED
    BY <2>1, <2>2
<1>13. ASSUME NEW c \in CallIds, NEW line \in unwritten[c], Post(c, line)
       PROVE  Promise!Next \/ UNCHANGED Promise!vars
  <2>1. /\ UNCHANGED <<call, byChat, answer>>
        /\ log' = Append(log, line) \/ log' = log
    BY <1>13 DEF Post
  <2>2. Phase' = Phase
    BY <2>1, SamePhase DEF IsLive
  <2>3. CASE log' = log
    BY <1>2, <2>1, <2>2, <2>3
  <2>4. CASE log' = Append(log, line)
    <3>1. /\ TellsOf(line, c, answer[c]) /\ (line.what = "offline" <=> call[c].stage = "refused")
          /\ call[c].stage = "refused" \/ IsOver(c)
          /\ \A i \in LoggedOf(c, log) : log[i].about # line.about
      BY <1>1 DEF Sound, LineFacts
    <3>2. line.call = c /\ line \in Promise!Lines
      BY <3>1 DEF TellsOf, Lines, Promise!Lines
    <3>3. /\ line.what # "offline" => Phase[c] = "over"
          /\ line.what = "offline" => Phase[c] = "unplaced"
      BY <3>1, PhaseAt
    <3>4. Promise!True(line)
      BY <3>1, <3>2, <3>3 DEF Promise!True, Promise!Lines, TellsOf
    <3>5. Promise!Tell(line)
      BY <2>1, <2>2, <2>4, <3>1, <3>2, <3>3, <3>4 DEF Promise!Tell, LoggedOf
    <3>6. QED
      BY <3>2, <3>5 DEF Promise!Next
  <2>5. QED
    BY <2>1, <2>3, <2>4
<1>14. CASE Restart
  <2>1. UNCHANGED <<log, answer>>
    BY <1>14 DEF Restart
  <2>2. \A c \in CallIds : call'[c].stage = "placed" <=> call[c].stage = "placed"
    BY <1>1, <1>14 DEF Restart, TypeOK, Call
  <2>3. \A c \in CallIds : ~IsLive(c)'
    <3>1. \A c \in CallIds : c # NoCall /\ call'[c].chat \in Chats
      BY DEF CallIds, NoCall, IInv, TypeOK, Call
    <3>2. QED
      BY <1>14, <3>1 DEF Restart, IsLive
  <2>4. Phase' = [c \in CallIds |-> IF c \in Running THEN "over" ELSE Phase[c]]
    BY <2>2, <2>3 DEF Phase, Running
  <2>5. Promise!End(Running)
    BY <2>1, <2>4, PhaseAt DEF Promise!End, Running
  <2>6. QED
    BY <1>3, <2>5 DEF Running
<1>15. CASE UNCHANGED vars
  BY <1>2, <1>15, SamePhase DEF vars, IsLive
<1>16. QED
  BY <1>4, <1>5, <1>6, <1>7, <1>8, <1>9, <1>10, <1>11, <1>12, <1>13, <1>14, <1>15 DEF Next

(* What the conversation is told of its calls is the story CallStory          *)
(* promises.                                                                  *)
THEOREM Implements == Spec => TellsTheStory
<1>1. IInv /\ IInv' /\ [Next]_vars => [Promise!Next]_(Promise!vars)
  BY NextPromised
<1>2. QED
  BY <1>1, InitPromised, Invariant, PTL DEF Spec, TellsTheStory, Promise!Spec
================================================================================
