------------------------------ MODULE SlowAlarm ------------------------------
(***************************************************************************)
(* The latency alarm (src/src/engine/slow.rs): a tracker in memory that is *)
(* fed with the measurements of a host.                                    *)
(***************************************************************************)
EXTENDS Integers

CONSTANTS
  Normal,   \* there is no streak
  AlarmSec  \* slowAlarmSec

ASSUME SlowAlarmAssumption == AlarmSec \in Nat /\ Normal \notin 0..AlarmSec

(* slow: a measurement above the threshold; fast: one below; none: it      *)
(* failed, or the host is not confirmed up.                                *)
Measurement == {"slow", "fast", "none"}

(* streak: the age of the streak, AlarmSec if it is older.  Whether it has *)
(* been logged that the alarm is held back changes nothing else.           *)
Tracker == [streak : 0..AlarmSec \cup {Normal}, delivered : BOOLEAN]

NewTracker == [streak |-> Normal, delivered |-> FALSE]

(* Mutant: a failed measurement says nothing about the streak.             *)
FedThroughFailures(t, m) ==
  CASE m = "fast" -> NewTracker
    [] m = "none" -> t
    [] OTHER -> [t EXCEPT !.streak = IF @ = Normal THEN 0 ELSE @]

(* register: the tracker afterwards ...                                    *)
Fed(t, m) ==
  IF m = "slow" THEN [t EXCEPT !.streak = IF @ = Normal THEN 0 ELSE @] ELSE NewTracker

(* Mutant: a streak that was not told of is recovered from as well.        *)
VerdictUntold(t, m) ==
  IF m = "slow" THEN IF ~t.delivered /\ Fed(t, m).streak = AlarmSec THEN "slow" ELSE "none"
  ELSE IF m = "fast" /\ t.streak # Normal THEN "slow_ok" ELSE "none"

(* ... and what is to be told.                                             *)
Verdict(t, m) ==
  IF m = "slow" THEN IF ~t.delivered /\ Fed(t, m).streak = AlarmSec THEN "slow" ELSE "none"
  ELSE IF m = "fast" /\ t.delivered THEN "slow_ok" ELSE "none"

OlderStreak(t) ==
  IF t.streak \in {Normal, AlarmSec} THEN t ELSE [t EXCEPT !.streak = @ + 1]
=============================================================================
