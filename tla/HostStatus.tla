----------------------------- MODULE HostStatus -----------------------------
(***************************************************************************)
(* Hosts that come, go and move (src/src/api/hosts.rs) while sweeps run    *)
(* (src/src/engine/monitor.rs, at periods of zero).  A host is a row of    *)
(* hosts; its status is kept under its address, in host_status and in the  *)
(* monitor's memory, and a sweep writes statuses of the hosts it has read  *)
(* at its start.  What a fixed table of hosts does is Monitor's matter.    *)
(***************************************************************************)
EXTENDS Integers

CONSTANTS
  Address,
  Id,        \* the hosts ever created
  NoHost,    \* no host has this address
  NoRow      \* no status is stored for it

VARIABLES
  host,      \* the id of the host by address
  up,        \* whether an address answers
  row,       \* host_status: status and reported_status
  mem,       \* Monitor.state
  swept,     \* the sweep: id and reported status read, by address to be written
  gate,      \* addresses of the sweep whose news wait for the gate
  told       \* history: the last alarm about each id; "new" before its creation

vars == <<host, up, row, mem, swept, gate, told>>

Hosts  == {a \in Address : host[a] # NoHost}
Status == {"unknown", "up", "down"}
Row    == [status : Status, reported : Status]

Reported(a) == IF row[a] = NoRow THEN "unknown" ELSE row[a].reported

News(status, reported) ==
  status # reported /\ status # "unknown" /\ ~(status = "up" /\ reported # "down")

Idle == swept = [a \in Address |-> NoRow]

(* The reads of sweep, the probes, and what comes of their answers.        *)
SweepStart ==
  /\ Idle /\ gate = {}
  /\ swept' = [a \in Address |->
                 IF a \in Hosts THEN [id |-> host[a], reported |-> Reported(a)] ELSE NoRow]
  /\ UNCHANGED <<host, up, row, mem, gate, told>>

(* The poll is recorded with the status that it confirms.  How many equal  *)
(* outcomes that takes (flap.rs:94-98) is in Flap: here the answers of the *)
(* address stand for what lasts, and one measurement confirms it.          *)
Measure(a) ==
  /\ swept[a] # NoRow /\ a \notin gate
  /\ mem' = [mem EXCEPT ![a] = IF up[a] THEN "up" ELSE "down"]
  /\ row' = [row EXCEPT ![a] =
       [status |-> mem'[a],
        reported |-> IF News(mem'[a], swept[a].reported) THEN swept[a].reported
                     ELSE mem'[a]]]
  /\ gate' = IF News(mem'[a], swept[a].reported) THEN gate \cup {a} ELSE gate
  /\ swept' = IF a \in gate' THEN swept ELSE [swept EXCEPT ![a] = NoRow]
  /\ UNCHANGED <<host, up, told>>

(* The alarm carries the host as it was read.                              *)
Alarm(a) ==
  /\ a \in gate
  /\ told' = [told EXCEPT ![swept[a].id] = mem[a]]
  /\ row' = [row EXCEPT ![a] = [status |-> mem[a], reported |-> mem[a]]]
  /\ gate' = gate \ {a} /\ swept' = [swept EXCEPT ![a] = NoRow]
  /\ UNCHANGED <<host, up, mem>>

-----------------------------------------------------------------------------
(* create, or a host of an imported file.                                  *)
Create(a, i) ==
  /\ a \notin Hosts /\ told[i] = "new"
  /\ host' = [host EXCEPT ![a] = i]
  /\ told' = [told EXCEPT ![i] = "nothing"]
  /\ UNCHANGED <<up, row, mem, swept, gate>>

(* update with a new address.                                              *)
Move(a, b) ==
  /\ a \in Hosts /\ b \notin Hosts
  /\ host' = [host EXCEPT ![a] = NoHost, ![b] = host[a]]
  /\ UNCHANGED <<up, row, mem, swept, gate, told>>

(* delete takes the stored status with it.                                 *)
Delete(a) ==
  /\ a \in Hosts
  /\ host' = [host EXCEPT ![a] = NoHost]
  /\ row' = [row EXCEPT ![a] = NoRow]
  /\ UNCHANGED <<up, mem, swept, gate, told>>

LinkChanges(a) ==
  /\ up' = [up EXCEPT ![a] = ~@]
  /\ UNCHANGED <<host, row, mem, swept, gate, told>>

(* The memory is made from the rows again.                                 *)
Restart ==
  /\ mem' = [a \in Address |-> IF row[a] = NoRow THEN "unknown" ELSE row[a].status]
  /\ swept' = [a \in Address |-> NoRow] /\ gate' = {}
  /\ UNCHANGED <<host, up, row, told>>

Init ==
  /\ host = [a \in Address |-> NoHost]
  /\ up \in [Address -> BOOLEAN]
  /\ row = [a \in Address |-> NoRow]
  /\ mem = [a \in Address |-> "unknown"]
  /\ swept = [a \in Address |-> NoRow] /\ gate = {}
  /\ told = [i \in Id |-> "new"]

Next ==
  \/ SweepStart \/ Restart
  \/ \E a \in Address :
       \/ Measure(a) \/ Alarm(a)
       \/ Delete(a) \/ LinkChanges(a)
       \/ \E i \in Id : Create(a, i)
       \/ \E b \in Address : Move(a, b)

Spec == Init /\ [][Next]_vars

-----------------------------------------------------------------------------
(* "up" without "down" before it is no news (engine/monitor.rs:316-323):   *)
(* no host is announced to be up again that was not announced to be down.  *)
OwnNews == [][\A i \in Id : told'[i] = "up" => told[i] \in {"down", "up"}]_vars
=============================================================================
