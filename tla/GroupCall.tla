------------------------------- MODULE GroupCall -------------------------------
(* The video calls of the chat gateway: the registry of running calls, one per  *)
(* conversation (group-call.ts), and the socket handlers, the one-minute timer  *)
(* and the call log around it (chat.gateway.ts).                                *)
(*                                                                              *)
(* A handler that awaits nothing is one action.  Two of them await: placing a   *)
(* call reads the database first (Ask ... Place), and ending one writes its     *)
(* lines into the conversation afterwards, one message at a time (Post).        *)
EXTENDS Naturals, SequencesExt

CONSTANTS
  Users,      \* everyone: members and the team
  Team,       \* those whose role may call from a conversation they are not in
  Chats,      \* conversations
  PartiesOf,  \* the buyer and the seller of each conversation
  Sockets,    \* connections; a connection that closed never comes back
  Owner,      \* who signed in on each connection
  MaxCalls,   \* bound: calls asked for
  Faults      \* subset of {"restart", "lose"}: of the server, of a log write

ASSUME GroupCallAssumption ==
  /\ Team \subseteq Users
  /\ PartiesOf \in [Chats -> SUBSET Users]
  /\ Owner \in [Sockets -> Users]
  /\ Chats # {} /\ Sockets # {}
  /\ MaxCalls \in Nat
  /\ Faults \subseteq {"restart", "lose"}

VARIABLES
  sockets,    \* "new", "open" (connected and signed in) or "closed"
  call,       \* what was asked for and, once placed, the GroupCall object
  byChat,     \* the registry: the running call of each conversation
  ringTimers, \* calls whose minute to be answered has not passed
  unwritten,  \* lines a finished call has still to write
  log,        \* the call lines in the conversations, oldest first
  answer,     \* history: what each person last did about each call
  hungUp      \* history: who ended which call by leaving it

vars == <<sockets, call, byChat, ringTimers, unwritten, log, answer, hungUp>>

CallIds == 1..MaxCalls
NoCall == 0

Answers == {"none", "declined", "came"}

Lines == [call: CallIds, about: Users,
          what: {"completed", "declined", "no_answer", "offline"}]

Call == [stage: {"unused", "asked", "refused", "placed"},
         kind: {"direct", "group"}, chat: Chats, host: Users, socket: Sockets,
         invited: SUBSET Users, joined: SUBSET Users, present: SUBSET Users,
         declined: SUBSET Users]

Blank == [stage |-> "unused", kind |-> "group", chat |-> CHOOSE ch \in Chats : TRUE,
          host |-> Owner[CHOOSE s \in Sockets : TRUE],
          socket |-> CHOOSE s \in Sockets : TRUE, invited |-> {}, joined |-> {},
          present |-> {}, declined |-> {}]

Init ==
  /\ sockets = [s \in Sockets |-> "new"]
  /\ call = [c \in CallIds |-> Blank]
  /\ byChat = [ch \in Chats |-> NoCall]
  /\ ringTimers = {}
  /\ unwritten = [c \in CallIds |-> {}]
  /\ log = <<>>
  /\ answer = [c \in CallIds |-> [u \in Users |-> "none"]]
  /\ hungUp = {}

--------------------------------------------------------------------------------
(* What the handlers ask of the registry.                                       *)

IsOnSite(u) == \E s \in Sockets : sockets[s] = "open" /\ Owner[s] = u

(* The call a request names is the one running in the conversation it names.    *)
IsLive(c) == byChat[call[c].chat] = c

Unanswered(c) == call[c].invited \ (call[c].joined \cup call[c].declined)

Running == {c \in CallIds : call[c].stage = "placed" /\ IsLive(c)}

\* Mutant: every missed line is just "missed", whatever its reason.
UnnamedReasons(c, gc) ==
  {[call |-> c, about |-> u, what |-> "missed"] : u \in gc.invited \ gc.joined}

\* Mutant: whoever is not in the call when it ends is told to have missed it.
ByPresence(c, gc) ==
  {[call |-> c, about |-> gc.host, what |-> "completed"] : u \in gc.present}
  \cup {[call |-> c, about |-> u,
         what |-> IF u \in gc.declined THEN "declined" ELSE "no_answer"] :
          u \in gc.invited \ gc.present}

\* Mutant: a call somebody came to has no missed line for the others.
CompletedOnly(c, gc) ==
  IF gc.joined # {}
    THEN {[call |-> c, about |-> gc.host, what |-> "completed"]}
    ELSE {[call |-> c, about |-> u,
           what |-> IF u \in gc.declined THEN "declined" ELSE "no_answer"] :
            u \in gc.invited}

(* The lines a call leaves behind: one for the call if anybody joined the host, *)
(* and a missed call for each person invited who never came in.                 *)
Story(c, gc) ==
  {[call |-> c, about |-> gc.host, what |-> "completed"] :
     u \in gc.joined}
  \cup {[call |-> c, about |-> u,
         what |-> IF u \in gc.declined THEN "declined" ELSE "no_answer"] :
          u \in gc.invited \ gc.joined}

\* Mutant: the timer of a finished call keeps running.
FinishedStillRinging(over) ==
  /\ byChat' = [ch \in Chats |-> IF byChat[ch] \in over THEN NoCall ELSE byChat[ch]]
  /\ unwritten' = [c \in CallIds |-> IF c \in over THEN Story(c, call'[c]) ELSE unwritten[c]]
  /\ UNCHANGED <<ringTimers, log>>

(* registry.end, the timer cleared, the lines to write drawn up.                *)
Finish(over) ==
  /\ byChat' = [ch \in Chats |-> IF byChat[ch] \in over THEN NoCall ELSE byChat[ch]]
  /\ ringTimers' = ringTimers \ over
  /\ unwritten' = [c \in CallIds |-> IF c \in over THEN Story(c, call'[c]) ELSE unwritten[c]]
  /\ UNCHANGED log

GoesOn == UNCHANGED <<byChat, ringTimers, unwritten, log>>

--------------------------------------------------------------------------------
(* The team may call either party of any conversation, or both at once; a party *)
(* may call the other.                                                          *)
MayInvite(host, ch, kind, invited) ==
  /\ host \notin invited
  /\ IF kind = "direct"
       THEN host \in PartiesOf[ch] \cup Team /\ \E u \in PartiesOf[ch] : invited = {u}
       ELSE host \in Team /\ invited = PartiesOf[ch]

Connect(s) ==
  /\ sockets[s] = "new"
  /\ sockets' = [sockets EXCEPT ![s] = "open"]
  /\ UNCHANGED <<call, byChat, ringTimers, unwritten, log, answer, hungUp>>

(* handleGroupCallStart up to its last await: it reads the conversation, the    *)
(* caller's role and everyone's name from the database.                         *)
Ask(s, c, ch, kind, invited) ==
  /\ sockets[s] = "open"
  /\ call[c].stage = "unused"
  /\ \A d \in 1..(c - 1) : call[d].stage # "unused"
  /\ MayInvite(Owner[s], ch, kind, invited)
  /\ call' = [call EXCEPT ![c] = [Blank EXCEPT !.stage = "asked", !.kind = kind,
                 !.chat = ch, !.host = Owner[s], !.socket = s, !.invited = invited]]
  /\ UNCHANGED <<sockets, byChat, ringTimers, unwritten, log, answer, hungUp>>

(* The rest of it.  A call between two people needs the other on the site; one  *)
(* call runs in a conversation at a time.                                       *)
Offline(c) == call[c].kind = "direct" /\ \A u \in call[c].invited : ~IsOnSite(u)

Refuse(c) ==
  /\ call[c].stage = "asked"
  /\ Offline(c) \/ byChat[call[c].chat] # NoCall
  /\ call' = [call EXCEPT ![c].stage = "refused"]
  /\ unwritten' = [unwritten EXCEPT ![c] =
        IF Offline(c)
          THEN {[call |-> c, about |-> u, what |-> "offline"] : u \in call[c].invited}
          ELSE {}]
  /\ UNCHANGED <<sockets, byChat, ringTimers, log, answer, hungUp>>

Place(c) ==
  /\ call[c].stage = "asked"
  /\ ~Offline(c)
  /\ byChat[call[c].chat] = NoCall
  /\ call' = [call EXCEPT ![c].stage = "placed"]
  /\ byChat' = [byChat EXCEPT ![call[c].chat] = c]
  /\ ringTimers' = ringTimers \cup {c}
  /\ UNCHANGED <<sockets, unwritten, log, answer, hungUp>>

Join(s, c) ==
  /\ sockets[s] = "open"
  /\ call[c].stage = "placed" /\ IsLive(c)
  /\ Owner[s] \in call[c].invited
  /\ call' = [call EXCEPT ![c].joined = @ \cup {Owner[s]},
                          ![c].present = @ \cup {Owner[s]},
                          ![c].declined = @ \ {Owner[s]}]
  /\ answer' = [answer EXCEPT ![c][Owner[s]] = "came"]
  /\ GoesOn
  /\ UNCHANGED <<sockets, hungUp>>

MayDecline(c, u) == u \in call[c].invited /\ u \notin call[c].joined

(* Between two people, a no is the end of the call.                             *)
Decline(s, c) ==
  /\ sockets[s] = "open"
  /\ call[c].stage = "placed" /\ IsLive(c)
  /\ MayDecline(c, Owner[s])
  /\ call' = [call EXCEPT ![c].declined = @ \cup {Owner[s]}]
  /\ answer' = [answer EXCEPT ![c][Owner[s]] = "declined"]
  /\ IF call[c].kind = "direct" THEN Finish({c}) ELSE GoesOn
  /\ UNCHANGED <<sockets, hungUp>>

(* Leaving ends a call for its host, and a call between two for whoever is signed *)
(* in and names it: whether they are one of the two is not asked.               *)
EndsByLeaving(c, u) == u = call[c].host \/ call[c].kind = "direct"

\* Mutant: hanging up ends whatever call runs in the conversation.
CurrentCall(c) == {byChat[call[c].chat]} \ {NoCall}

(* The call ended is the one running in the conversation, if that is the one    *)
(* named.                                                                       *)
Named(c) == {byChat[call[c].chat]} \cap {c}

Leave(s, c) ==
  /\ sockets[s] = "open"
  /\ call[c].stage = "placed"
  /\ Named(c) # {}
  /\ IF EndsByLeaving(c, Owner[s])
       THEN /\ UNCHANGED call
            /\ Finish(Named(c))
            /\ hungUp' = hungUp \cup {<<c, Owner[s]>>}
       ELSE /\ GoesOn
            /\ call' = [call EXCEPT ![c].present = @ \ {Owner[s]}]
            /\ UNCHANGED hungUp
  /\ UNCHANGED <<sockets, answer>>

\* Mutant: only a call between two people gives up.
DirectSilent(c) == Unanswered(c) # {} /\ call[c].kind = "direct"

(* After a minute a call nobody came to is over; a group call goes on without   *)
(* the silent.                                                                  *)
GivesUp(c) == Unanswered(c) # {} /\ (call[c].kind = "direct" \/ call[c].joined = {})

RingOut(c) ==
  /\ c \in ringTimers
  /\ UNCHANGED call
  /\ IF IsLive(c) /\ GivesUp(c)
       THEN Finish({c})
       ELSE /\ ringTimers' = ringTimers \ {c}
            /\ UNCHANGED <<byChat, unwritten, log>>
  /\ UNCHANGED <<sockets, answer, hungUp>>

HostedBySocket(s) == {c \in Running : call[c].socket = s}

(* A host who closed the tab has ended their call, whatever other tabs they     *)
(* have open.                                                                   *)
Disconnect(s) ==
  /\ sockets[s] = "open"
  /\ sockets' = [sockets EXCEPT ![s] = "closed"]
  /\ UNCHANGED call
  /\ Finish(HostedBySocket(s))
  /\ UNCHANGED <<answer, hungUp>>

(* postCallMessage swallows a write that fails.  The line of the call itself    *)
(* goes first.                                                                  *)
Post(c, line) ==
  /\ line \in unwritten[c]
  /\ line.what = "completed" \/ \A other \in unwritten[c] : other.what # "completed"
  /\ unwritten' = [unwritten EXCEPT ![c] = @ \ {line}]
  /\ \/ log' = Append(log, line)
     \/ "lose" \in Faults /\ UNCHANGED log
  /\ UNCHANGED <<sockets, call, byChat, ringTimers, answer, hungUp>>

(* Everything but the conversations lives in the server's memory.               *)
Restart ==
  /\ "restart" \in Faults
  /\ sockets' = [s \in Sockets |-> IF sockets[s] = "open" THEN "closed" ELSE sockets[s]]
  /\ call' = [c \in CallIds |->
       IF call[c].stage = "asked" THEN [call[c] EXCEPT !.stage = "refused"] ELSE call[c]]
  /\ byChat' = [ch \in Chats |-> NoCall]
  /\ ringTimers' = {}
  /\ unwritten' = [c \in CallIds |-> {}]
  /\ UNCHANGED <<log, answer, hungUp>>

Next ==
  \/ \E s \in Sockets : Connect(s) \/ Disconnect(s)
  \/ \E s \in Sockets, c \in CallIds, ch \in Chats :
       \E kind \in {"direct", "group"}, invited \in SUBSET PartiesOf[ch] :
         Ask(s, c, ch, kind, invited)
  \/ \E c \in CallIds : Place(c) \/ Refuse(c) \/ RingOut(c)
  \/ \E s \in Sockets, c \in CallIds : Join(s, c) \/ Decline(s, c) \/ Leave(s, c)
  \/ \E c \in CallIds : \E line \in unwritten[c] : Post(c, line)
  \/ Restart

Spec == Init /\ [][Next]_vars

(* A timer fires, a database answers: what is left to people is not fair.       *)
Fairness ==
  /\ \A c \in CallIds : WF_vars(RingOut(c)) /\ WF_vars(Place(c) \/ Refuse(c))
  /\ \A c \in CallIds : WF_vars(\E line \in unwritten[c] : Post(c, line))

FairSpec == Spec /\ Fairness

--------------------------------------------------------------------------------
(* Each variable has its type, and a conversation's call is one placed in it.   *)
TypeOK ==
  /\ sockets \in [Sockets -> {"new", "open", "closed"}]
  /\ call \in [CallIds -> Call]
  /\ byChat \in [Chats -> CallIds \cup {NoCall}]
  /\ ringTimers \subseteq CallIds
  /\ unwritten \in [CallIds -> SUBSET Lines]
  /\ log \in Seq(Lines)
  /\ answer \in [CallIds -> [Users -> Answers]]
  /\ hungUp \subseteq CallIds \X Users

(* scheduleNoAnswer and finishGroupCall: a timer is that of a running call.     *)
(* finishGroupCall clears it, so no minute of an old call is left to run out in *)
(* a newer one.                                                                 *)
TimersBelongToRunningCalls == ringTimers \subseteq Running

Over == {c \in CallIds : call[c].stage = "placed" /\ ~IsLive(c)}

(* Every way a call ends: a call is over only if its host's tab is gone, its     *)
(* host hung up, or, on a call between two, anyone who named that very call did *)
(* or its one invitee said no, or nobody ever came.  A request or a timer of    *)
(* one call never ends another, and a group call that somebody joined goes on   *)
(* however many others leave, decline or stay silent.                           *)
EndsForAReason ==
  \A c \in Over :
    \/ sockets[call[c].socket] = "closed"
    \/ \E u \in Users : <<c, u>> \in hungUp /\ EndsByLeaving(c, u)
    \/ call[c].kind = "direct" /\ \E u \in call[c].invited : answer[c][u] = "declined"
    \/ \A u \in Users : answer[c][u] # "came"

(* What a call promises: see CallStory.  A call ends once, whoever ends it, and *)
(* the conversation tells each person's part in it truly and once, though its   *)
(* lines are written one by one after the call is gone and another may run.     *)
Phase == [c \in CallIds |-> IF call[c].stage # "placed" THEN "unplaced"
                           ELSE IF IsLive(c) THEN "running" ELSE "over"]

Promise == INSTANCE CallStory WITH phase <- Phase

TellsTheStory == Promise!Spec

Ringing(c) == c \in Running /\ Unanswered(c) # {} /\ call[c].joined = {}

(* scheduleNoAnswer: a call that somebody has yet to answer and nobody came to  *)
(* does not ring forever.                                                       *)
NobodyRingsForever == \A c \in CallIds : Ringing(c) ~> ~Ringing(c)

ToldOf(c, u) == \E i \in DOMAIN log : log[i].call = c /\ log[i].about = u

(* finishGroupCall: once a call is over, the conversation comes to show it for  *)
(* whoever came and a missed call for each person who did not.                  *)
EveryoneIsToldOf ==
  \A c \in CallIds, u \in Users :
    c \in Over /\ u \in call[c].invited
      ~> ToldOf(c, IF answer[c][u] = "came" THEN call[c].host ELSE u)

--------------------------------------------------------------------------------
(* What the comments say and the handlers do not keep.                          *)

(* chat.gateway.ts:1753 of leaving: the host, or either person in a call between *)
(* two, ends it, and by that nobody else.                                       *)
OnlyItsPeopleHangUp ==
  \A h \in hungUp : h[2] \in call[h[1]].invited \cup {call[h[1]].host}

(* group-call.ts:29 of hostSocketId: losing it ends the call.                   *)
HostGoneEndsCall == \A c \in Running : sockets[call[c].socket] # "closed"

(* scheduleNoAnswer: a group call goes on with whoever came, and ends only if   *)
(* nobody did: past its minute, a running call has somebody in it.              *)
PastItsMinuteSomebodyCame ==
  \A c \in Running : c \notin ringTimers => call[c].joined # {}
================================================================================
