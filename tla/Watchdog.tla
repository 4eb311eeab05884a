------------------------------ MODULE Watchdog ------------------------------
(***************************************************************************)
(* The heartbeat for external monitors (src/src/watchdog.rs): a loop that  *)
(* reads the settings at intervals and opens or closes a port, with a      *)
(* grace after the monitoring has been paused.  Its steps come with the    *)
(* rest of the process in Supervision.                                     *)
(***************************************************************************)
EXTENDS Integers

CONSTANTS
  Port,
  Closed,   \* no port is open
  Running,  \* no pause has been noticed
  Grace     \* watchdogGraceMin

ASSUME WatchdogAssumption ==
  /\ Closed \notin Port
  /\ Grace \in Nat /\ Running \notin 0..Grace

VARIABLES
  live,     \* settings.live
  enabled,  \* watchdogEnabled
  port,     \* watchdogPort
  open,     \* current: the port that is listened on
  paused    \* time since paused_since; Grace: that long or longer

watchdogSettings == <<enabled, port>>
listener == <<open, paused>>

WatchdogTypeOK ==
  /\ live \in BOOLEAN /\ enabled \in BOOLEAN
  /\ port \in Port
  /\ open \in Port \cup {Closed}
  /\ paused \in 0..Grace \cup {Running}

WatchdogInit ==
  /\ live = TRUE /\ enabled \in BOOLEAN
  /\ port \in Port
  /\ open = Closed /\ paused = Running

(* Mutant: a listener is a listener.                                       *)
EnsureRunningAnyPort(bound) ==
  IF open # Closed THEN open ELSE IF bound THEN port ELSE Closed

(* ensure_running: what is open afterwards.  The old port is closed before *)
(* the new one is bound, which fails if another program has it.            *)
EnsureRunning(bound) ==
  IF open = port \/ bound THEN port ELSE Closed

(* Mutant: each look at the settings begins the pause anew.                *)
PausedForAnew == 0

PausedFor == IF paused = Running THEN 0 ELSE paused

(* One round of run, with settings that could be read.  A grace of 0 is no  *)
(* special case of the comparison.                                         *)
Round(bound) ==
  \/ ~enabled /\ open' = Closed /\ paused' = Running
  \/ enabled /\ live /\ open' = EnsureRunning(bound) /\ paused' = Running
  \/ /\ enabled /\ ~live
     /\ paused' = PausedFor
     /\ open' = IF PausedFor >= Grace THEN Closed ELSE EnsureRunning(bound)

(* Settings that cannot be read change nothing.                            *)
RoundFails == UNCHANGED listener

Aged(t) == IF t = Running \/ t = Grace THEN t ELSE t + 1
=============================================================================
