----------------------------- MODULE MCAccounts -----------------------------
(* An instance of Accounts for TLC: two accounts, sessions and requests.   *)
EXTENDS Accounts

CONSTANTS a, b, t1, t2, r1, r2
=============================================================================
