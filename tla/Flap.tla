-------------------------------- MODULE Flap --------------------------------
(***************************************************************************)
(* Flap damping (src/src/engine/flap.rs): the pure decision procedure that *)
(* turns a stream of poll outcomes into confirmed status transitions.      *)
(*                                                                         *)
(* The code stores the instant a streak began and compares `now - start'   *)
(* with the threshold.  Only that difference matters, so a state carries   *)
(* the age of its streak instead, counted in ticks and saturated at        *)
(* MaxAge; the clock itself needs no bound.                                *)
(***************************************************************************)
EXTENDS Integers

CONSTANT MaxAge     \* where the age of a streak saturates: a bound, at least
                    \* as large as every threshold it is compared with

ASSUME MaxAgeAssumption == MaxAge \in Nat

Status  == {"unknown", "up", "down"}
Outcome == {"success", "fail"}

HostMonitorState == [status : Status, streak : Outcome, age : 0..MaxAge]

FromPersisted(status) ==
  [status |-> status,
   streak |-> IF status = "down" THEN "fail" ELSE "success",
   age    |-> 0]

Older(s) == [s EXCEPT !.age = IF @ < MaxAge THEN @ + 1 ELSE @]

(* A streak that has lasted its period turns the status over.              *)
ConfirmsDown(s, outcome, failPeriod) ==
  s.status # "down" /\ outcome = "fail" /\ s.age >= failPeriod

(* Mutant: only a host that was never judged can come up.                  *)
ConfirmsFirstUp(s, outcome, successPeriod) ==
  s.status = "unknown" /\ outcome = "success" /\ s.age >= successPeriod

ConfirmsUp(s, outcome, successPeriod) ==
  s.status # "up" /\ outcome = "success" /\ s.age >= successPeriod

RegisterPoll(s, outcome, failPeriod, successPeriod) ==
  IF outcome # s.streak
  THEN [s EXCEPT !.streak = outcome, !.age = 0]
  ELSE [s EXCEPT !.status =
          IF ConfirmsDown(s, outcome, failPeriod) THEN "down"
          ELSE IF ConfirmsUp(s, outcome, successPeriod) THEN "up"
          ELSE @]
=============================================================================
