--------------------------- MODULE MCHostDirectory ---------------------------
(* An instance of HostDirectory for TLC: the order of the addresses does   *)
(* not matter.                                                             *)
EXTENDS HostDirectory, TLC

CONSTANTS a, b, c, d

Addresses == Permutations(Address)
=============================================================================
