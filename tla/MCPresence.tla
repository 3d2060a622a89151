------------------------------ MODULE MCPresence -------------------------------
(* Presence on a small instance                                                 *)
EXTENDS Presence, TLC
================================================================================
