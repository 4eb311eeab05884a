---------------------------- MODULE MCPushChannel ----------------------------
(* An instance of PushChannel for TLC: neither endpoints nor users have an *)
(* order.                                                                  *)
EXTENDS PushChannel, TLC

CONSTANTS u1, u2, e1, e2, e3

Interchangeable == Permutations(Endpoint) \cup Permutations(User)
=============================================================================
