------------------------------- MODULE CallStory -------------------------------
(* What the video calls of a marketplace conversation promise, whatever the     *)
(* server does to keep it: a call is placed once, is answered while it runs, is *)
(* over once, and the conversation then tells of each person at most once, and  *)
(* only what they did.                                                          *)
EXTENDS Sequences, SequencesExt

CONSTANTS CallIds, Users

VARIABLES
  phase,    \* of each call: not placed, running, over
  answer,   \* what each person last did about each call
  log       \* the lines of the conversations

vars == <<phase, answer, log>>

Answers == {"none", "declined", "came"}

Lines == [call: CallIds, about: Users,
          what: {"completed", "declined", "no_answer", "offline"}]

Init ==
  /\ phase = [c \in CallIds |-> "unplaced"]
  /\ answer = [c \in CallIds |-> [u \in Users |-> "none"]]
  /\ log = <<>>

Place(c) ==
  /\ phase[c] = "unplaced"
  /\ phase' = [phase EXCEPT ![c] = "running"]
  /\ UNCHANGED <<answer, log>>

End(over) ==
  /\ \A c \in over : phase[c] = "running"
  /\ phase' = [c \in CallIds |-> IF c \in over THEN "over" ELSE phase[c]]
  /\ UNCHANGED <<answer, log>>

Answer(c, u, a) ==
  /\ phase[c] = "running"
  /\ a = "declined" => answer[c][u] # "came"
  /\ answer' = [answer EXCEPT ![c][u] = a]
  /\ phase' \in {phase, [phase EXCEPT ![c] = "over"]}
  /\ UNCHANGED log

(* A completed call had somebody in it besides the host; a missed one is missed *)
(* by someone who never came, and says whether they turned it down.             *)
True(line) ==
  CASE line.what = "completed" -> \E u \in Users : answer[line.call][u] = "came"
    [] line.what = "declined"  -> answer[line.call][line.about] = "declined"
    [] line.what = "no_answer" -> answer[line.call][line.about] = "none"
    [] line.what = "offline"   -> phase[line.call] = "unplaced"

Tell(line) ==
  /\ line.what # "offline" => phase[line.call] = "over"
  /\ True(line)
  /\ \A i \in DOMAIN log : log[i].call = line.call => log[i].about # line.about
  /\ log' = Append(log, line)
  /\ UNCHANGED <<phase, answer>>

Next ==
  \/ \E c \in CallIds : Place(c)
  \/ \E over \in SUBSET CallIds : End(over)
  \/ \E c \in CallIds, u \in Users, a \in Answers : Answer(c, u, a)
  \/ \E line \in Lines : Tell(line)

Spec == Init /\ [][Next]_vars
================================================================================
