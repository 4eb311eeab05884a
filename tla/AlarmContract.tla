--------------------------- MODULE AlarmContract ----------------------------
(***************************************************************************)
(* What the monitor promises the people who read its alarms, with sweeps,  *)
(* snapshots, persistence and restarts abstracted away.                    *)
(*                                                                         *)
(* For every host the monitor holds an opinion (confirmed) and remembers   *)
(* what it last told the world (told).  feed[h][c] is the last event put   *)
(* on channel c for host h.  News is compared and announced atomically:    *)
(* an announcement always agrees with the opinion of that moment, differs  *)
(* from what was told before, and is "up" only after "down" was told.  The *)
(* channels are chosen anew for every announcement, and passed[h] are the  *)
(* ones that the last one left out.                                        *)
(***************************************************************************)
CONSTANTS Host, Status, Channel

VARIABLES confirmed, told, feed, passed

vars == <<confirmed, told, feed, passed>>

IsNews(s, t) == s # t /\ s # "unknown" /\ ~(s = "up" /\ t # "down")

Init ==
  /\ confirmed = [h \in Host |-> "unknown"]
  /\ told = [h \in Host |-> "unknown"]
  /\ feed = [h \in Host |-> [c \in Channel |-> "none"]]
  /\ passed = [h \in Host |-> {}]

(* The monitor changes its mind about any number of hosts: new             *)
(* measurements, or a restart that falls back on what was persisted.       *)
ChangeOpinion ==
  /\ confirmed' \in [Host -> Status]
  /\ UNCHANGED <<told, feed, passed>>

(* A first "up" is not news: it is noted, nobody is told.                  *)
NoteUp(h) ==
  /\ confirmed[h] = "up" /\ told[h] = "unknown"
  /\ told' = [told EXCEPT ![h] = "up"]
  /\ UNCHANGED <<confirmed, feed, passed>>

Tell(h, channels) ==
  feed' = [feed EXCEPT ![h] = [c \in Channel |->
             IF c \in channels THEN confirmed[h] ELSE feed[h][c]]]

Announce(h) ==
  /\ IsNews(confirmed[h], told[h])
  /\ \E channels \in SUBSET Channel :
       Tell(h, channels) /\ passed' = [passed EXCEPT ![h] = Channel \ channels]
  /\ told' = [told EXCEPT ![h] = confirmed[h]]
  /\ UNCHANGED confirmed

(* The announcement is cut short: some channels have it, but it does not   *)
(* count as told.                                                          *)
CutShort(h) ==
  /\ IsNews(confirmed[h], told[h])
  /\ \E channels \in SUBSET Channel : Tell(h, channels)
  /\ UNCHANGED <<confirmed, told, passed>>

Next ==
  \/ ChangeOpinion
  \/ \E h \in Host : NoteUp(h) \/ Announce(h) \/ CutShort(h)

Spec == Init /\ [][Next]_vars
=============================================================================
