---------------------------- MODULE MCConfigEntries ----------------------------
(***************************************************************************)
(* Three entries of any version and two flows, which are alike, as are the *)
(* two addresses.                                                          *)
(***************************************************************************)
EXTENDS ConfigEntriesProperties, TLC

Alike == Permutations(Entries) \cup Permutations(Flows) \cup Permutations(Addresses)
===============================================================================
