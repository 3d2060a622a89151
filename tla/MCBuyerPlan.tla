------------------------------ MODULE MCBuyerPlan ------------------------------
(* Small instances of BuyerPlan for TLC: the subscription ids and the workers   *)
(* are interchangeable.                                                         *)
EXTENDS BuyerPlan

Interchangeable == Permutations(Subs) \cup Permutations(Workers)
================================================================================
