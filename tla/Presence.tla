------------------------------- MODULE Presence --------------------------------
(* Whether one member is shown online: the sockets of their tabs as the gateway *)
(* counts them, the minute of grace after the last of them closes, the sweep of *)
(* those who have been silent for five minutes, and the column is_online that   *)
(* everybody else reads.  The column is written without waiting for the write   *)
(* before, and by services that do not look at the sockets; the process may     *)
(* restart, which drops every socket and forgets every count and timer.         *)
EXTENDS Integers, SequencesExt

CONSTANTS
  Sockets,      \* bound: connections ever made
  MaxRestarts,  \* bound: restarts of the process
  MaxSignOuts,  \* bound: writes by other services
  MaxFailures   \* bound: writes that fail

ASSUME PresenceAssumption ==
  MaxRestarts \in Nat /\ MaxSignOuts \in Nat /\ MaxFailures \in Nat

VARIABLES
  socket,       \* each connection: the tab's end of it
  named,        \* connections whose token was verified: client.userId is set
  counted,      \* userSockets
  lastSeen,     \* lastSeenByUser: none, within five minutes, or longer ago
  pending,      \* pendingOffline: is a timer set
  boot,         \* how far afterInit has come
  writes,       \* updates of is_online on their way, the oldest first
  online,       \* is_online
  restarts, signOuts, failures,
  \* history
  astray,       \* did the latest write overtake another, or fail
  unasked       \* was "offline" written over an open connection, with none new since

presenceVars == <<socket, named, counted, lastSeen, pending, boot, writes, online,
                  restarts, signOuts, failures, astray, unasked>>

PresenceTypeOK ==
  /\ socket \in [Sockets -> {"unused", "open", "closed", "refused"}]
  /\ named \subseteq Sockets /\ counted \subseteq named
  /\ lastSeen \in {"none", "recent", "longAgo"}
  /\ pending \in BOOLEAN /\ online \in BOOLEAN
  /\ boot \in {"redis", "reset", "up"}
  /\ writes \in Seq({"on", "off", "reset"})
  /\ restarts \in 0..MaxRestarts /\ signOuts \in 0..MaxSignOuts /\ failures \in 0..MaxFailures
  /\ astray \in BOOLEAN /\ unasked \in BOOLEAN

PresenceInit ==
  /\ socket = [s \in Sockets |-> "unused"]
  /\ named = {} /\ counted = {}
  /\ lastSeen = "none"
  /\ pending = FALSE
  /\ boot = "redis"
  /\ writes = <<>>
  /\ online \in BOOLEAN
  /\ restarts = 0 /\ signOuts = 0 /\ failures = 0
  /\ astray = FALSE /\ unasked = FALSE

--------------------------------------------------------------------------------

bounds == <<restarts, signOuts, failures>>

\* Connections whose token is still being verified, closed meanwhile or not
Verifying == {s \in Sockets : socket[s] \in {"open", "closed"} /\ s \notin named}

\* Open as far as the member can tell
Here == {s \in named : socket[s] = "open"}

Issue(w) == writes' = Append(writes, w) /\ astray' = FALSE

--------------------------------------------------------------------------------
(* Connections                                                                  *)

\* A mistake: the socket is counted before its token has been verified
ConnectCounted(s) ==
  /\ socket[s] = "unused"
  /\ socket' = [socket EXCEPT ![s] = "open"]
  /\ counted' = counted \cup {s}
  /\ UNCHANGED <<named, lastSeen, pending, boot, writes, online, bounds, astray, unasked>>

\* A tab connects: handleConnection begins to verify its token
Connect(s) ==
  /\ socket[s] = "unused"
  /\ socket' = [socket EXCEPT ![s] = "open"]
  /\ UNCHANGED <<named, counted, lastSeen, pending, boot, writes, online, bounds, astray,
                 unasked>>

\* A mistake: only a heartbeat says when a member was last seen
VerifiedUnseen(s) ==
  /\ s \in Verifying
  /\ named' = named \cup {s}
  /\ pending' = FALSE
  /\ counted' = counted \cup {s}
  /\ Issue("on")
  /\ unasked' = FALSE
  /\ UNCHANGED <<socket, lastSeen, boot, online, bounds>>

\* The token was verified: whether or not the socket is still there, it is counted
Verified(s) ==
  /\ s \in Verifying
  /\ named' = named \cup {s}
  /\ pending' = FALSE
  /\ counted' = counted \cup {s}
  /\ lastSeen' = "recent"
  /\ Issue("on")
  /\ unasked' = FALSE
  /\ UNCHANGED <<socket, boot, online, bounds>>

\* The token is not valid, or there is none: the gateway closes the socket
Refused(s) ==
  /\ s \in Verifying
  /\ socket' = [socket EXCEPT ![s] = "refused"]
  /\ UNCHANGED <<named, counted, lastSeen, pending, boot, writes, online, bounds, astray,
                 unasked>>

\* A mistake: the member is forgotten with the first tab that closes
UncountMember(s) ==
  /\ counted' = {}
  /\ lastSeen' = "recent"
  /\ pending' = TRUE

\* What handleDisconnect does for a socket that has been named
Uncount(s) ==
  /\ counted' = counted \ {s}
  /\ lastSeen' = "recent"
  /\ pending' = IF counted' = {} THEN TRUE ELSE pending

\* The tab closes, or the network drops it
Disconnect(s) ==
  /\ socket[s] = "open"
  /\ socket' = [socket EXCEPT ![s] = "closed"]
  /\ IF s \in named THEN Uncount(s) ELSE UNCHANGED <<counted, lastSeen, pending>>
  /\ UNCHANGED <<named, boot, writes, online, bounds, astray, unasked>>

\* A tab says it is there, every 25 seconds
Heartbeat(s) ==
  /\ s \in Here
  /\ lastSeen' = "recent"
  /\ UNCHANGED <<socket, named, counted, pending, boot, writes, online, bounds, astray,
                 unasked>>

--------------------------------------------------------------------------------
(* Timers                                                                       *)

\* Five minutes without a sign; a minute of grace that began meanwhile is over by then
Silence ==
  /\ lastSeen = "recent" /\ ~pending
  /\ lastSeen' = "longAgo"
  /\ UNCHANGED <<socket, named, counted, pending, boot, writes, online, bounds, astray,
                 unasked>>

\* A minute after the last socket closed
GraceIsOver ==
  /\ pending
  /\ pending' = FALSE
  /\ IF counted # {}
       THEN UNCHANGED <<lastSeen, writes, astray>>
       ELSE lastSeen' = "none" /\ Issue("off")
  /\ UNCHANGED <<socket, named, counted, boot, online, bounds, unasked>>

\* Every 30 seconds: whoever is silent is put off, the sockets still there closed
Sweep ==
  /\ boot = "up"
  /\ lastSeen = "longAgo"
  /\ socket' = [s \in Sockets |-> IF s \in counted THEN "closed" ELSE socket[s]]
  /\ counted' = {}
  /\ lastSeen' = "none"
  /\ pending' = FALSE
  /\ Issue("off")
  /\ UNCHANGED <<named, boot, online, bounds, unasked>>

--------------------------------------------------------------------------------
(* The column                                                                   *)

Without(i) == RemoveAt(writes, i)
Latest(i) == i = Len(writes)

\* A write reaches the database, perhaps before one that was issued earlier
Commit(i) ==
  /\ i \in DOMAIN writes
  /\ online' = (writes[i] = "on")
  /\ boot' = IF writes[i] = "reset" THEN "up" ELSE boot
  /\ writes' = Without(i)
  /\ astray' = (astray \/ (Latest(i) /\ i # 1))
  /\ UNCHANGED <<socket, named, counted, lastSeen, pending, bounds, unasked>>

\* A write fails, which is logged and left
WriteFails(i) ==
  /\ i \in DOMAIN writes
  /\ failures < MaxFailures
  /\ failures' = failures + 1
  /\ boot' = IF writes[i] = "reset" THEN "up" ELSE boot
  /\ writes' = Without(i)
  /\ astray' = (astray \/ Latest(i))
  /\ UNCHANGED <<socket, named, counted, lastSeen, pending, online, restarts, signOuts, unasked>>

\* Signing out, being blocked and closing the account write "offline" themselves
SignOut ==
  /\ signOuts < MaxSignOuts
  /\ signOuts' = signOuts + 1
  /\ Issue("off")
  /\ unasked' = (unasked \/ counted # {})
  /\ UNCHANGED <<socket, named, counted, lastSeen, pending, boot, online, restarts, failures>>

--------------------------------------------------------------------------------
(* Restarts                                                                     *)

\* What was on its way to the database may still reach it
Restart ==
  /\ restarts < MaxRestarts
  /\ restarts' = restarts + 1
  /\ socket' = [s \in Sockets |-> IF socket[s] = "unused" THEN "unused" ELSE "refused"]
  /\ named' = {}
  /\ counted' = {}
  /\ lastSeen' = "none"
  /\ pending' = FALSE
  /\ boot' = "redis"
  /\ writes' = <<>>
  /\ \/ UNCHANGED online
     \/ \E i \in DOMAIN writes : online' = (writes[i] = "on")
  /\ astray' = FALSE /\ unasked' = FALSE
  /\ UNCHANGED <<signOuts, failures>>

\* With Redis connected or given up on, everybody is written offline; sockets that
\* have come meanwhile are not looked at
ResetOnBoot ==
  /\ boot = "redis"
  /\ boot' = "reset"
  /\ Issue("reset")
  /\ unasked' = (counted # {})
  /\ UNCHANGED <<socket, named, counted, lastSeen, pending, online, bounds>>

PresenceNext ==
  \/ \E s \in Sockets : Connect(s) \/ Verified(s) \/ Refused(s) \/ Disconnect(s) \/ Heartbeat(s)
  \/ Silence \/ GraceIsOver \/ Sweep
  \/ \E i \in DOMAIN writes : Commit(i) \/ WriteFails(i)
  \/ SignOut
  \/ Restart \/ ResetOnBoot

PresenceSpec == PresenceInit /\ [][PresenceNext]_presenceVars

\* Verifying a token ends, a write is answered, timers fire, silence lasts
PresenceFairness ==
  /\ \A s \in Sockets : WF_presenceVars(Verified(s) \/ Refused(s))
  /\ WF_presenceVars(\E i \in DOMAIN writes : Commit(i) \/ WriteFails(i))
  /\ WF_presenceVars(GraceIsOver) /\ WF_presenceVars(Silence) /\ WF_presenceVars(Sweep)
  /\ WF_presenceVars(ResetOnBoot)

FairPresence == PresenceSpec /\ PresenceFairness

--------------------------------------------------------------------------------

\* With every write answered and none astray, whoever is shown offline has no
\* connection open, and whoever is shown online has one, or a minute of grace, or will
\* be swept for their silence; but for "offline" written by what looks at no socket.
ShownAsCounted ==
  (boot = "up" /\ writes = <<>> /\ ~astray) =>
    /\ ~online => Here = {} \/ unasked
    /\ online => Here # {} \/ pending \/ lastSeen # "none"

\* Who closes their last tab for good is shown offline in the end, whatever socket was
\* counted after it had closed, unless the last write failed or overtook another.
GoneIsShownOffline ==
  <>[](\A s \in Sockets : socket[s] # "open") => <>[](~online \/ astray)
================================================================================
