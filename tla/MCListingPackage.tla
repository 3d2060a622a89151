--------------------------- MODULE MCListingPackage ----------------------------
(* Small instances of ListingPackage for TLC: the subscription ids are          *)
(* interchangeable.                                                             *)
EXTENDS ListingPackage

Interchangeable == Permutations(Subs)
================================================================================
