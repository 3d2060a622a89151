---------------------------- MODULE PresenceProofs -----------------------------
(* Whether a member is shown online, for any number of connections, restarts, *)
(* sign-outs and failing writes.                                              *)
(*                                                                            *)
(* What is shown is wrong for a while after every event, so it is not what    *)
(* the column says but what it will say with the last write there is that     *)
(* agrees with the sockets counted; and every socket a member can tell is     *)
(* open is one that is counted, which keeps the member from being forgotten.  *)
EXTENDS Presence, QueueLemmas

(* What the column will say when the last write has reached it.               *)
Wanted == IF writes = <<>> THEN online ELSE writes[Len(writes)] = "on"

(* Open sockets are counted ones, and whose sockets are counted has been      *)
(* seen.                                                                      *)
Seen ==
  /\ Here \subseteq counted
  /\ \A s \in named : socket[s] \in {"open", "closed"}
  /\ counted # {} => lastSeen # "none"
  /\ boot = "redis" => \A i \in DOMAIN writes : writes[i] # "reset"

(* Shown offline only with nothing open, or by what looks at no socket; shown *)
(* online only, once the start is over, with something that will end it.      *)
AsCounted(shown) ==
  /\ ~shown => Here = {} \/ unasked
  /\ shown /\ boot # "redis" => Here # {} \/ pending \/ lastSeen # "none"

PresenceInv == PresenceTypeOK /\ Seen /\ (~astray => AsCounted(Wanted))

(* The initial states satisfy the inductive invariant.                        *)
LEMMA PresenceBegins == PresenceInit => PresenceInv
<1> SUFFICES ASSUME PresenceInit PROVE PresenceInv
  OBVIOUS
<1>1. MaxRestarts \in Nat /\ MaxSignOuts \in Nat /\ MaxFailures \in Nat
  BY PresenceAssumption
<1>2. 0 \in 0..MaxRestarts /\ 0 \in 0..MaxSignOuts /\ 0 \in 0..MaxFailures
  BY <1>1
<1>3. <<>> \in Seq({"on", "off", "reset"}) /\ DOMAIN <<>> = {}
  OBVIOUS
<1>4. PresenceTypeOK
  BY <1>2, <1>3 DEF PresenceInit, PresenceTypeOK
<1>5. Here = {}
  BY DEF PresenceInit, Here
<1>6. Seen /\ AsCounted(Wanted)
  BY <1>3, <1>5 DEF PresenceInit, Seen, AsCounted
<1>7. QED
  BY <1>4, <1>6 DEF PresenceInv

(* A write is issued: it is the last one, and what will be shown.             *)
LEMMA Issued ==
  ASSUME PresenceTypeOK, NEW w \in {"on", "off", "reset"}, Issue(w)
  PROVE  /\ writes' \in Seq({"on", "off", "reset"}) /\ astray' = FALSE
         /\ Wanted' = (w = "on")
         /\ \A i \in DOMAIN writes' : writes'[i] = w \/ \E j \in DOMAIN writes : writes'[i] = writes[j]
<1>1. writes \in Seq({"on", "off", "reset"}) /\ writes' = Append(writes, w) /\ astray' = FALSE
  BY DEF PresenceTypeOK, Issue
<1>2. /\ writes' \in Seq({"on", "off", "reset"})
      /\ \A i \in DOMAIN writes' : writes'[i] = w \/ \E j \in DOMAIN writes : writes'[i] = writes[j]
  BY <1>1, Appended
<1>3. Len(writes') = Len(writes) + 1 /\ writes'[Len(writes) + 1] = w /\ writes' # <<>>
  BY <1>1
<1>4. Wanted' = (w = "on")
  BY <1>3 DEF Wanted
<1>5. QED
  BY <1>1, <1>2, <1>4

(* A write is answered that was not the last one: the last one stays.         *)
LEMMA LastStays ==
  ASSUME NEW S, NEW queue \in Seq(S), NEW i \in DOMAIN queue
  PROVE  /\ Len(RemoveAt(queue, i)) = Len(queue) - 1
         /\ i # Len(queue) =>
              RemoveAt(queue, i)[Len(queue) - 1] = queue[Len(queue)]
<1> DEFINE front == SubSeq(queue, 1, i - 1)
           back == SubSeq(queue, i + 1, Len(queue))
<1>0. Len(queue) \in Nat /\ i \in 1..Len(queue)
  OBVIOUS
<1>1. front \in Seq(S) /\ Len(front) = i - 1
  BY <1>0, SubSeqProperties
<1>2. /\ back \in Seq(S) /\ Len(back) = Len(queue) - i
      /\ \A j \in 1..(Len(queue) - i) : back[j] = queue[i + j]
  BY <1>0, SubSeqProperties
<1>3. RemoveAt(queue, i) = front \o back
  BY DEF RemoveAt
<1> HIDE DEF front, back
<1>4. /\ Len(front \o back) = Len(front) + Len(back)
      /\ \A j \in 1..(Len(front) + Len(back)) :
           (front \o back)[j] = IF j <= Len(front) THEN front[j] ELSE back[j - Len(front)]
  BY <1>1, <1>2, ConcatProperties
<1>5. Len(front) + Len(back) = Len(queue) - 1
  BY <1>0, <1>1, <1>2
<1>6. ASSUME i # Len(queue)
      PROVE  (front \o back)[Len(queue) - 1] = queue[Len(queue)]
  <2>0. PICK n \in Nat : n = Len(queue)
    BY <1>0
  <2>1. /\ Len(queue) - 1 \in 1..(Len(queue) - 1) /\ ~(Len(queue) - 1 <= i - 1)
        /\ (Len(queue) - 1) - (i - 1) = Len(queue) - i
        /\ Len(queue) - i \in 1..(Len(queue) - i) /\ i + (Len(queue) - i) = Len(queue)
    <3>1. i \in 1..n /\ i # n
      BY <1>0, <1>6, <2>0
    <3>2. i \in Nat /\ 1 <= i /\ i < n
      BY <3>1
    <3>3. n - 1 \in 1..(n - 1) /\ ~(n - 1 <= i - 1)
      BY <3>2
    <3>4. (n - 1) - (i - 1) = n - i /\ n - i \in 1..(n - i) /\ i + (n - i) = n
      BY <3>2
    <3>5. QED
      BY <2>0, <3>3, <3>4
  <2>2. (front \o back)[Len(queue) - 1] = back[(Len(queue) - 1) - (i - 1)]
    BY <1>1, <1>4, <1>5, <2>1
  <2>3. back[Len(queue) - i] = queue[Len(queue)]
    BY <1>2, <2>1
  <2>4. QED
    BY <2>1, <2>2, <2>3
<1>7. QED
  BY <1>3, <1>4, <1>5, <1>6

(* What will be shown stays the same, unless the last write overtook another. *)
LEMMA StillWanted ==
  ASSUME PresenceTypeOK, NEW i \in DOMAIN writes, writes' = Without(i),
         Latest(i) => i = 1 /\ online' = (writes[i] = "on")
  PROVE  Wanted' = Wanted
<1>1. /\ writes \in Seq({"on", "off", "reset"}) /\ writes' = RemoveAt(writes, i)
      /\ i \in 1..Len(writes) /\ Len(writes) \in Nat /\ writes # <<>>
  BY DEF PresenceTypeOK, Without
<1>2. /\ Len(writes') = Len(writes) - 1 /\ writes' \in Seq({"on", "off", "reset"})
      /\ i # Len(writes) => writes'[Len(writes) - 1] = writes[Len(writes)]
  BY <1>1, LastStays, Removed
<1>3. CASE Latest(i)
  <2>1. Len(writes) = 1 /\ online' = (writes[Len(writes)] = "on")
    BY <1>3 DEF Latest
  <2>2. writes' = <<>>
    BY <1>2, <2>1
  <2>3. QED
    BY <1>1, <2>1, <2>2 DEF Wanted
<1>4. CASE ~Latest(i)
  <2>1. i # Len(writes) /\ Len(writes') # 0
    BY <1>1, <1>2, <1>4 DEF Latest
  <2>2. writes' # <<>>
    BY <2>1
  <2>3. QED
    BY <1>1, <1>2, <2>1, <2>2 DEF Wanted
<1>5. QED
  BY <1>3, <1>4

--------------------------------------------------------------------------------
(* Connections                                                                *)

(* A connection whose token is being verified is not counted yet.             *)
LEMMA ConnectStep ==
  ASSUME PresenceInv, NEW s \in Sockets, Connect(s)
  PROVE  PresenceInv'
<1>1. /\ socket[s] = "unused" /\ socket' = [socket EXCEPT ![s] = "open"]
      /\ UNCHANGED <<named, counted, lastSeen, pending, boot, writes, online, bounds, astray,
                     unasked>>
      /\ socket \in [Sockets -> {"unused", "open", "closed", "refused"}] /\ named \subseteq Sockets
      /\ \A t \in named : socket[t] \in {"open", "closed"}
  BY DEF Connect, PresenceInv, PresenceTypeOK, Seen
<1>2. \A t \in named : socket'[t] = socket[t]
  BY <1>1
<1>3. Here' = Here
  BY <1>1, <1>2 DEF Here
<1>4. PresenceTypeOK'
  BY <1>1 DEF PresenceInv, PresenceTypeOK, bounds
<1>5. Seen'
  BY <1>1, <1>2, <1>3 DEF PresenceInv, Seen
<1>6. ~astray' => AsCounted(Wanted)'
  BY <1>1, <1>3 DEF PresenceInv, AsCounted, Wanted
<1>7. QED
  BY <1>4, <1>5, <1>6 DEF PresenceInv

(* The socket is counted, and the member shown online when this write is      *)
(* through.                                                                   *)
LEMMA VerifiedStep ==
  ASSUME PresenceInv, NEW s \in Sockets, Verified(s)
  PROVE  PresenceInv'
<1>1. /\ s \in Verifying /\ named' = named \cup {s} /\ pending' = FALSE
      /\ counted' = counted \cup {s} /\ lastSeen' = "recent" /\ Issue("on")
      /\ unasked' = FALSE /\ UNCHANGED <<socket, boot, online, bounds>>
      /\ PresenceTypeOK /\ Seen
  BY DEF Verified, PresenceInv
<1>2. /\ writes' \in Seq({"on", "off", "reset"}) /\ astray' = FALSE /\ Wanted' = TRUE
      /\ \A i \in DOMAIN writes' :
           writes'[i] = "on" \/ \E j \in DOMAIN writes : writes'[i] = writes[j]
  BY <1>1, Issued
<1>3. PresenceTypeOK'
  BY <1>1, <1>2 DEF PresenceTypeOK, bounds
<1>4. Seen'
  BY <1>1, <1>2 DEF Seen, Here, Verifying
<1>5. AsCounted(Wanted)'
  BY <1>1, <1>2 DEF AsCounted
<1>6. QED
  BY <1>3, <1>4, <1>5 DEF PresenceInv

(* A connection that is refused was never counted.                            *)
LEMMA RefusedStep ==
  ASSUME PresenceInv, NEW s \in Sockets, Refused(s)
  PROVE  PresenceInv'
<1>1. /\ s \notin named /\ socket' = [socket EXCEPT ![s] = "refused"]
      /\ UNCHANGED <<named, counted, lastSeen, pending, boot, writes, online, bounds, astray,
                     unasked>>
      /\ socket \in [Sockets -> {"unused", "open", "closed", "refused"}] /\ named \subseteq Sockets
  BY DEF Refused, Verifying, PresenceInv, PresenceTypeOK
<1>2. \A t \in named : socket'[t] = socket[t]
  BY <1>1
<1>3. Here' = Here
  BY <1>1, <1>2 DEF Here
<1>4. PresenceTypeOK'
  BY <1>1 DEF PresenceInv, PresenceTypeOK, bounds
<1>5. Seen'
  BY <1>1, <1>2, <1>3 DEF PresenceInv, Seen
<1>6. ~astray' => AsCounted(Wanted)'
  BY <1>1, <1>3 DEF PresenceInv, AsCounted, Wanted
<1>7. QED
  BY <1>4, <1>5, <1>6 DEF PresenceInv

(* Fewer sockets are open, and the member was seen just now.                  *)
LEMMA DisconnectStep ==
  ASSUME PresenceInv, NEW s \in Sockets, Disconnect(s)
  PROVE  PresenceInv'
<1>1. /\ socket[s] = "open" /\ socket' = [socket EXCEPT ![s] = "closed"]
      /\ UNCHANGED <<named, boot, writes, online, bounds, astray, unasked>>
      /\ PresenceTypeOK /\ Seen
      /\ socket \in [Sockets -> {"unused", "open", "closed", "refused"}] /\ named \subseteq Sockets
  BY DEF Disconnect, PresenceInv, PresenceTypeOK
<1>2. \A t \in named : socket'[t] = IF t = s THEN "closed" ELSE socket[t]
  BY <1>1
<1>3. Here' = Here \ {s} /\ Wanted' = Wanted
  BY <1>1, <1>2 DEF Here, Wanted
<1>4. CASE s \in named
  <2>1. /\ counted' = counted \ {s} /\ lastSeen' = "recent" /\ pending' \in BOOLEAN
    BY <1>1, <1>4 DEF Disconnect, Uncount, PresenceTypeOK
  <2>2. PresenceTypeOK'
    BY <1>1, <2>1 DEF PresenceTypeOK, bounds
  <2>3. Seen'
    BY <1>1, <1>2, <1>3, <2>1 DEF Seen
  <2>4. ~astray' => AsCounted(Wanted)'
    BY <1>1, <1>3, <2>1 DEF PresenceInv, AsCounted
  <2>5. QED
    BY <2>2, <2>3, <2>4 DEF PresenceInv
<1>5. CASE s \notin named
  <2>1. UNCHANGED <<counted, lastSeen, pending>> /\ Here' = Here
    BY <1>3, <1>5 DEF Disconnect, Here
  <2>2. PresenceTypeOK'
    BY <1>1, <2>1 DEF PresenceTypeOK, bounds
  <2>3. Seen'
    BY <1>1, <1>2, <2>1 DEF Seen
  <2>4. ~astray' => AsCounted(Wanted)'
    BY <1>1, <1>3, <2>1 DEF PresenceInv, AsCounted
  <2>5. QED
    BY <2>2, <2>3, <2>4 DEF PresenceInv
<1>6. QED
  BY <1>4, <1>5

--------------------------------------------------------------------------------
(* Time                                                                       *)

(* A heartbeat, or the want of one.                                           *)
LEMMA HeardStep ==
  ASSUME PresenceInv, Silence \/ \E s \in Sockets : Heartbeat(s)
  PROVE  PresenceInv'
<1>1. /\ lastSeen' \in {"recent", "longAgo"}
      /\ UNCHANGED <<socket, named, counted, pending, boot, writes, online, bounds, astray,
                     unasked>>
  BY DEF Silence, Heartbeat
<1>2. Here' = Here /\ Wanted' = Wanted
  BY <1>1 DEF Here, Wanted
<1>3. PresenceTypeOK'
  BY <1>1 DEF PresenceInv, PresenceTypeOK, bounds
<1>4. Seen'
  BY <1>1, <1>2 DEF PresenceInv, Seen
<1>5. ~astray' => AsCounted(Wanted)'
  BY <1>1, <1>2 DEF PresenceInv, AsCounted
<1>6. QED
  BY <1>3, <1>4, <1>5 DEF PresenceInv

(* Nothing is counted when the minute of grace ends in a write, so nothing is *)
(* open.                                                                      *)
LEMMA GraceIsOverStep ==
  ASSUME PresenceInv, GraceIsOver
  PROVE  PresenceInv'
<1>1. /\ pending' = FALSE /\ UNCHANGED <<socket, named, counted, boot, online, bounds, unasked>>
      /\ PresenceTypeOK /\ Seen /\ Here' = Here
  BY DEF GraceIsOver, PresenceInv, Here
<1>2. CASE counted # {}
  <2>1. UNCHANGED <<lastSeen, writes, astray>> /\ lastSeen # "none"
    BY <1>1, <1>2 DEF GraceIsOver, Seen
  <2>2. PresenceTypeOK' /\ Seen'
    BY <1>1, <2>1 DEF PresenceTypeOK, Seen, bounds
  <2>3. ~astray' => AsCounted(Wanted)'
    BY <1>1, <2>1 DEF PresenceInv, AsCounted, Wanted
  <2>4. QED
    BY <2>2, <2>3 DEF PresenceInv
<1>3. CASE counted = {}
  <2>1. lastSeen' = "none" /\ Issue("off")
    BY <1>3 DEF GraceIsOver
  <2>2. /\ writes' \in Seq({"on", "off", "reset"}) /\ astray' = FALSE /\ Wanted' = FALSE
        /\ \A i \in DOMAIN writes' :
             writes'[i] = "off" \/ \E j \in DOMAIN writes : writes'[i] = writes[j]
    BY <1>1, <2>1, Issued
  <2>3. Here' = {}
    BY <1>1, <1>3 DEF Seen
  <2>4. PresenceTypeOK'
    BY <1>1, <2>1, <2>2 DEF PresenceTypeOK, bounds
  <2>5. Seen'
    BY <1>1, <1>3, <2>1, <2>2, <2>3 DEF Seen
  <2>6. AsCounted(Wanted)'
    BY <2>2, <2>3 DEF AsCounted
  <2>7. QED
    BY <2>4, <2>5, <2>6 DEF PresenceInv
<1>4. QED
  BY <1>2, <1>3

(* The sweep closes all that is counted, which is all that is open.           *)
LEMMA SweepStep ==
  ASSUME PresenceInv, Sweep
  PROVE  PresenceInv'
<1>1. /\ socket' = [t \in Sockets |-> IF t \in counted THEN "closed" ELSE socket[t]]
      /\ counted' = {} /\ lastSeen' = "none" /\ pending' = FALSE /\ Issue("off")
      /\ UNCHANGED <<named, boot, online, bounds, unasked>>
      /\ PresenceTypeOK /\ Seen
  BY DEF Sweep, PresenceInv
<1>2. /\ writes' \in Seq({"on", "off", "reset"}) /\ astray' = FALSE /\ Wanted' = FALSE
      /\ \A i \in DOMAIN writes' :
           writes'[i] = "off" \/ \E j \in DOMAIN writes : writes'[i] = writes[j]
  BY <1>1, Issued
<1>3. ASSUME NEW t \in Sockets
      PROVE  socket'[t] = IF t \in counted THEN "closed" ELSE socket[t]
  BY <1>1
<1>4. named \subseteq Sockets
  BY <1>1 DEF PresenceTypeOK
<1>5. Here' = {}
  BY <1>1, <1>3, <1>4 DEF Here, Seen
<1>6. socket' \in [Sockets -> {"unused", "open", "closed", "refused"}]
  BY <1>1, <1>3 DEF PresenceTypeOK
<1>7. PresenceTypeOK'
  BY <1>1, <1>2, <1>6 DEF PresenceTypeOK, bounds
<1>8. Seen'
  BY <1>1, <1>2, <1>3, <1>4, <1>5 DEF Seen
<1>9. AsCounted(Wanted)'
  BY <1>2, <1>5 DEF AsCounted
<1>10. QED
  BY <1>7, <1>8, <1>9 DEF PresenceInv

--------------------------------------------------------------------------------
(* The column; restarts                                                       *)

(* A write is answered, or fails: what will be shown stays, or the last write *)
(* has gone astray.                                                           *)
LEMMA Answered ==
  ASSUME PresenceInv, NEW i \in DOMAIN writes, writes' = Without(i),
         boot' = IF writes[i] = "reset" THEN "up" ELSE boot,
         UNCHANGED <<socket, named, counted, lastSeen, pending, unasked>>,
         online' \in BOOLEAN, astray' \in BOOLEAN, astray => astray',
         restarts' \in 0..MaxRestarts, signOuts' \in 0..MaxSignOuts, failures' \in 0..MaxFailures,
         ~astray' /\ Latest(i) => i = 1 /\ online' = (writes[i] = "on")
  PROVE  PresenceInv'
<1>1. /\ PresenceTypeOK /\ Seen /\ Here' = Here
      /\ writes \in Seq({"on", "off", "reset"})
  BY DEF PresenceInv, PresenceTypeOK, Here
<1>2. /\ writes' \in Seq({"on", "off", "reset"})
      /\ \A j \in DOMAIN writes' : \E k \in DOMAIN writes : writes'[j] = writes[k]
  BY <1>1, Removed DEF Without
<1>3. PresenceTypeOK'
  BY <1>1, <1>2 DEF PresenceTypeOK
<1>4. boot' = "redis" => boot = "redis"
  OBVIOUS
<1>5. boot = "redis" => boot' = "redis"
  BY <1>1 DEF Seen
<1>6. Seen'
  BY <1>1, <1>2, <1>4 DEF Seen
<1>7. ~astray' => AsCounted(Wanted)'
  <2>1. SUFFICES ASSUME ~astray' PROVE AsCounted(Wanted)'
    OBVIOUS
  <2>2. Wanted' = Wanted
    BY <1>1, <2>1, StillWanted
  <2>3. AsCounted(Wanted)
    BY <2>1 DEF PresenceInv
  <2>4. QED
    BY <1>1, <1>5, <2>2, <2>3 DEF AsCounted
<1>8. QED
  BY <1>3, <1>6, <1>7 DEF PresenceInv

(* The last write decides, unless it overtakes another.                       *)
LEMMA CommitStep ==
  ASSUME PresenceInv, NEW i \in DOMAIN writes, Commit(i)
  PROVE  PresenceInv'
<1>1. /\ writes' = Without(i) /\ online' = (writes[i] = "on")
      /\ boot' = IF writes[i] = "reset" THEN "up" ELSE boot
      /\ UNCHANGED <<socket, named, counted, lastSeen, pending, unasked>>
      /\ UNCHANGED <<restarts, signOuts, failures>>
      /\ astray' = (astray \/ (Latest(i) /\ i # 1))
  BY DEF Commit, bounds
<1>2. /\ restarts' \in 0..MaxRestarts /\ signOuts' \in 0..MaxSignOuts
      /\ failures' \in 0..MaxFailures
  BY <1>1 DEF PresenceInv, PresenceTypeOK
<1>3. online' \in BOOLEAN /\ astray' \in BOOLEAN /\ (astray => astray')
  <2>1. astray = TRUE \/ astray = FALSE
    BY DEF PresenceInv, PresenceTypeOK
  <2>2. QED
    BY <1>1, <2>1
<1>4. ~astray' /\ Latest(i) => i = 1 /\ online' = (writes[i] = "on")
  BY <1>1
<1>5. QED
  BY <1>1, <1>2, <1>3, <1>4, Answered

(* The last write decides, unless it fails.                                   *)
LEMMA WriteFailsStep ==
  ASSUME PresenceInv, NEW i \in DOMAIN writes, WriteFails(i)
  PROVE  PresenceInv'
<1>1. /\ writes' = Without(i) /\ UNCHANGED online
      /\ failures < MaxFailures /\ failures' = failures + 1
      /\ boot' = IF writes[i] = "reset" THEN "up" ELSE boot
      /\ UNCHANGED <<socket, named, counted, lastSeen, pending, unasked>>
      /\ UNCHANGED <<restarts, signOuts>>
      /\ astray' = (astray \/ Latest(i))
  BY DEF WriteFails
<1>2. restarts' \in 0..MaxRestarts /\ signOuts' \in 0..MaxSignOuts
  BY <1>1 DEF PresenceInv, PresenceTypeOK
<1>3. failures' \in 0..MaxFailures
  <2>1. failures \in 0..MaxFailures /\ MaxFailures \in Nat
    BY PresenceAssumption DEF PresenceInv, PresenceTypeOK
  <2>2. QED
    BY <1>1, <2>1
<1>4. online' \in BOOLEAN /\ astray' \in BOOLEAN /\ (astray => astray')
  <2>1. (astray = TRUE \/ astray = FALSE) /\ online \in BOOLEAN
    BY DEF PresenceInv, PresenceTypeOK
  <2>2. QED
    BY <1>1, <2>1
<1>5. ~astray' /\ Latest(i) => i = 1 /\ online' = (writes[i] = "on")
  BY <1>1
<1>6. QED
  BY <1>1, <1>2, <1>3, <1>4, <1>5, Answered

(* Another service writes "offline": over an open socket, nobody asked for    *)
(* it.                                                                        *)
LEMMA SignOutStep ==
  ASSUME PresenceInv, SignOut
  PROVE  PresenceInv'
<1>1. /\ signOuts < MaxSignOuts /\ signOuts' = signOuts + 1 /\ Issue("off")
      /\ unasked' = (unasked \/ counted # {})
      /\ UNCHANGED <<socket, named, counted, lastSeen, pending, boot, online, restarts, failures>>
      /\ PresenceTypeOK /\ Seen /\ Here' = Here
  BY DEF SignOut, PresenceInv, Here
<1>2. /\ writes' \in Seq({"on", "off", "reset"}) /\ astray' = FALSE /\ Wanted' = FALSE
      /\ \A i \in DOMAIN writes' :
           writes'[i] = "off" \/ \E j \in DOMAIN writes : writes'[i] = writes[j]
  BY <1>1, Issued
<1>3. signOuts' \in 0..MaxSignOuts
  <2>1. signOuts \in 0..MaxSignOuts /\ MaxSignOuts \in Nat
    BY <1>1, PresenceAssumption DEF PresenceTypeOK
  <2>2. QED
    BY <1>1, <2>1
<1>4. unasked' \in BOOLEAN
  <2>1. unasked = TRUE \/ unasked = FALSE
    BY <1>1 DEF PresenceTypeOK
  <2>2. QED
    BY <1>1, <2>1
<1>5. PresenceTypeOK'
  BY <1>1, <1>2, <1>3, <1>4 DEF PresenceTypeOK
<1>6. Seen'
  BY <1>1, <1>2 DEF Seen
<1>7. AsCounted(Wanted)'
  <2>1. counted = {} => Here' = {}
    BY <1>1 DEF Seen
  <2>2. QED
    BY <1>1, <1>2, <2>1 DEF AsCounted
<1>8. QED
  BY <1>5, <1>6, <1>7 DEF PresenceInv

(* A restart forgets everything but the column.                               *)
LEMMA RestartStep ==
  ASSUME PresenceInv, Restart
  PROVE  PresenceInv'
<1>1. /\ restarts < MaxRestarts /\ restarts' = restarts + 1
      /\ socket' = [s \in Sockets |-> IF socket[s] = "unused" THEN "unused" ELSE "refused"]
      /\ named' = {} /\ counted' = {} /\ lastSeen' = "none" /\ pending' = FALSE
      /\ boot' = "redis" /\ writes' = <<>> /\ astray' = FALSE /\ unasked' = FALSE
      /\ UNCHANGED <<signOuts, failures>> /\ PresenceTypeOK
  BY DEF Restart, PresenceInv
<1>2. restarts' \in 0..MaxRestarts
  <2>1. restarts \in 0..MaxRestarts /\ MaxRestarts \in Nat
    BY <1>1, PresenceAssumption DEF PresenceTypeOK
  <2>2. QED
    BY <1>1, <2>1
<1>3. online' \in BOOLEAN
  BY <1>1 DEF Restart, PresenceTypeOK
<1>4. writes' \in Seq({"on", "off", "reset"}) /\ DOMAIN writes' = {}
  BY <1>1
<1>5. socket' \in [Sockets -> {"unused", "open", "closed", "refused"}]
  BY <1>1
<1>6. PresenceTypeOK'
  BY <1>1, <1>2, <1>3, <1>4, <1>5 DEF PresenceTypeOK
<1>7. Here' = {}
  BY <1>1 DEF Here
<1>8. Seen'
  BY <1>1, <1>4, <1>7 DEF Seen
<1>9. AsCounted(Wanted)'
  BY <1>1, <1>7 DEF AsCounted
<1>10. QED
  BY <1>6, <1>8, <1>9 DEF PresenceInv

(* Everybody is written offline, sockets that came early unasked.             *)
LEMMA ResetOnBootStep ==
  ASSUME PresenceInv, ResetOnBoot
  PROVE  PresenceInv'
<1>1. /\ boot' = "reset" /\ Issue("reset") /\ unasked' = (counted # {})
      /\ UNCHANGED <<socket, named, counted, lastSeen, pending, online, bounds>>
      /\ PresenceTypeOK /\ Seen /\ Here' = Here
  BY DEF ResetOnBoot, PresenceInv, Here
<1>2. /\ writes' \in Seq({"on", "off", "reset"}) /\ astray' = FALSE /\ Wanted' = FALSE
  BY <1>1, Issued
<1>3. unasked' \in BOOLEAN
  BY <1>1
<1>4. PresenceTypeOK'
  BY <1>1, <1>2, <1>3 DEF PresenceTypeOK, bounds
<1>5. Seen'
  BY <1>1 DEF Seen
<1>6. AsCounted(Wanted)'
  <2>1. counted = {} => Here' = {}
    BY <1>1 DEF Seen
  <2>2. QED
    BY <1>1, <1>2, <2>1 DEF AsCounted
<1>7. QED
  BY <1>4, <1>5, <1>6 DEF PresenceInv

--------------------------------------------------------------------------------

(* Every step keeps the inductive invariant.                                  *)
LEMMA PresenceStep == PresenceInv /\ [PresenceNext]_presenceVars => PresenceInv'
<1> SUFFICES ASSUME PresenceInv, [PresenceNext]_presenceVars PROVE PresenceInv'
  OBVIOUS
<1>1. CASE UNCHANGED presenceVars
  BY <1>1 DEF presenceVars, bounds, PresenceInv, PresenceTypeOK, Seen, Here, AsCounted, Wanted
<1>2. ASSUME NEW s \in Sockets,
             Connect(s) \/ Verified(s) \/ Refused(s) \/ Disconnect(s) \/ Heartbeat(s)
      PROVE  PresenceInv'
  BY <1>2, ConnectStep, VerifiedStep, RefusedStep, DisconnectStep, HeardStep
<1>3. CASE Silence \/ GraceIsOver \/ Sweep
  BY <1>3, HeardStep, GraceIsOverStep, SweepStep
<1>4. ASSUME NEW i \in DOMAIN writes, Commit(i) \/ WriteFails(i) PROVE PresenceInv'
  BY <1>4, CommitStep, WriteFailsStep
<1>5. CASE SignOut \/ Restart \/ ResetOnBoot
  BY <1>5, SignOutStep, RestartStep, ResetOnBootStep
<1>6. QED
  BY <1>1, <1>2, <1>3, <1>4, <1>5 DEF PresenceNext

(* Every reachable state satisfies the inductive invariant.                   *)
LEMMA PresenceAlways == PresenceSpec => []PresenceInv
BY PresenceBegins, PresenceStep, PTL DEF PresenceSpec

(* The gateway's memory of a member, and what is on its way to the database,  *)
(* have their type, however often the process restarts.                       *)
THEOREM PresenceTyped == PresenceSpec => []PresenceTypeOK
<1>1. PresenceInv => PresenceTypeOK
  BY DEF PresenceInv
<1>2. QED
  BY <1>1, PresenceAlways, PTL

(* With every write answered and none astray, a member is shown as the        *)
(* sockets counted say, for any number of connections, restarts and failures. *)
THEOREM ShownRight == PresenceSpec => []ShownAsCounted
<1>1. PresenceInv => ShownAsCounted
  BY DEF PresenceInv, AsCounted, Wanted, ShownAsCounted
<1>2. QED
  BY <1>1, PresenceAlways, PTL

================================================================================
