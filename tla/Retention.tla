----------------------------- MODULE Retention -----------------------------
(***************************************************************************)
(* The clean-up of old rows (src/src/retention.rs): one task, one timer,   *)
(* three tables.  Time is counted in days.  Every day brings new rows, so  *)
(* all that matters of a table is the age of the oldest row the task may   *)
(* delete.  (That it leaves pending deliveries alone is in DeliveryQueue.) *)
(***************************************************************************)
EXTENDS Integers

CONSTANT Horizon   \* days after which a run of the model stops counting

VARIABLES
  uptime,   \* days since the process started: the timer starts with it
  oldest    \* oldest[t]: age in days of the oldest row of table t

vars == <<uptime, oldest>>

(* SAMPLES_RETENTION_DAYS and the two like it.                             *)
KeepDays == [samples |-> 180, deliveries |-> 30, events |-> 7]

Table == DOMAIN KeepDays

DAY_MS == 86400000
SecondsPerDay == 86400

(* tokio::time::interval(Duration::from_secs(DAY_MS as u64)), in days.     *)
Period == DAY_MS \div SecondsPerDay

(* The rows beyond the cut-off go, those of the last day are not beyond it.*)
Swept(ages) ==
  [t \in Table |-> IF ages[t] > KeepDays[t] THEN KeepDays[t] ELSE ages[t]]

(* The first tick of an interval fires at once.                            *)
Init ==
  /\ uptime = 0
  /\ oldest = [t \in Table |-> 0]

NewDay ==
  /\ uptime < Horizon
  /\ uptime' = uptime + 1
  /\ LET aged == [t \in Table |-> oldest[t] + 1]
     IN  oldest' = IF uptime' % Period = 0 THEN Swept(aged) ELSE aged

Restart ==
  /\ uptime > 0
  /\ uptime' = 0
  /\ oldest' = Swept(oldest)

Next == NewDay \/ Restart

Spec == Init /\ [][Next]_vars

-----------------------------------------------------------------------------
(* The table in the header of retention.rs: rows are kept 180, 30 and 7    *)
(* days, plus at most the day until the next clean-up.                     *)
KeptNoLonger == \A t \in Table : oldest[t] <= KeepDays[t] + 1
=============================================================================
