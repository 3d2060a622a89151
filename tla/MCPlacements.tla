------------------------------ MODULE MCPlacements -----------------------------
(* Small instances of Placements for TLC: subscription ids, and the two single  *)
(* placements, are interchangeable.                                             *)
EXTENDS Placements

Interchangeable == {p @@ q : p \in Permutations(Subs), q \in Permutations(Singles)}
================================================================================
