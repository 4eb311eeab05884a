---------------------------- MODULE MCSmsEngine -----------------------------
(* An instance of SmsEngine for TLC: one host, two codes, one text.        *)
EXTENDS SmsEngine

CONSTANTS h1, a7, b3, m1
=============================================================================
