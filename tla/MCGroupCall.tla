------------------------------ MODULE MCGroupCall ------------------------------
(* One or two conversations between the same buyer and seller, and one moderator *)
(* who may call them; the moderator may have two tabs open.                      *)
EXTENDS GroupCall

CONSTANTS buyer, seller, moderator, onBuyer, onSeller, onTeam, onTeam2

TheUsers == {buyer, seller, moderator}
Parties == [ch \in Chats |-> {buyer, seller}]
SignedIn == [s \in Sockets |->
  CASE s = onBuyer -> buyer [] s = onSeller -> seller [] OTHER -> moderator]
================================================================================
