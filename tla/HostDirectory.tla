---------------------------- MODULE HostDirectory ----------------------------
(***************************************************************************)
(* The table of hosts and the guard against circular dependencies          *)
(* (src/src/api/hosts.rs, validate_dependency in src/src/engine/repo.rs,   *)
(* import in src/src/api/transfer.rs).                                     *)
(*                                                                         *)
(* Hosts name their parent by address, and the address may be one that no  *)
(* host has (yet, or any more).  Hosts that lie on a cycle, all of them    *)
(* down, silence each other; the guard is to refuse the write that closes  *)
(* one.  Create, update and import are transactions, and a refused one     *)
(* leaves nothing behind: it is no step.                                   *)
(***************************************************************************)
EXTENDS Integers, FiniteSets

CONSTANTS
  Address,
  None,      \* depends_on_address is NULL
  NoHost,    \* no row has this address
  MaxWalk,   \* the guard looks at so many hosts, 64
  MaxFile    \* bound on the hosts of an imported file

ASSUME DirectoryAssumption ==
  /\ None \notin Address /\ NoHost \notin Address /\ None # NoHost
  /\ MaxWalk \in Nat \ {0}
  /\ MaxFile \in Nat

VARIABLES
  parent,    \* depends_on_address by address
  unguarded  \* history: hosts whose present place among the others nobody validated

vars == <<parent, unguarded>>

Host == {a \in Address : parent[a] # NoHost}

(* A dependency as it is written: any address or none.                     *)
Dependency == Address \cup {None}

Init ==
  /\ parent = [a \in Address |-> NoHost]
  /\ unguarded = {}

(* The walk of validate_dependency through the table p, from the parent d  *)
(* upwards: it ends at a host without parent, or where there is no host,   *)
(* and has not met own.                                                    *)
Ends(p, own, d) ==
  \E k \in 0..(MaxWalk - 1) : \E walk \in [0..k -> Address] :
    /\ walk[0] = d
    /\ \A i \in 0..k : walk[i] # own
    /\ \A i \in 0..(k - 1) : walk[i + 1] = p[walk[i]]
    /\ p[walk[k]] \notin Address

(* Mutant: only the parent's own parent is looked at.                      *)
ValidParent(p, own) ==
  p[own] \in Address => p[own] # own /\ p[p[own]] # own

(* Mutant: a parent that does not exist (yet) is an error.                 *)
ValidKnown(p, own) ==
  p[own] \in Address => p[p[own]] # NoHost /\ Ends(p, own, p[own])

(* The dependency of own is checked in the table that is to be.            *)
Valid(p, own) == p[own] \in Address => Ends(p, own, p[own])

Create(a, d) ==
  /\ a \notin Host
  /\ parent' = [parent EXCEPT ![a] = d]
  /\ Valid(parent', a)
  /\ UNCHANGED unguarded

(* update with a dependency, and with a new address b if that is not a.    *)
Depend(a, b, d) ==
  /\ a \in Host
  /\ b = a \/ b \notin Host
  /\ parent' = [x \in Address |-> IF x = b THEN d ELSE IF x = a THEN NoHost ELSE parent[x]]
  /\ Valid(parent', b)
  /\ unguarded' = unguarded \ {a}

(* update with a new address only.  Nobody looks at the dependency, and    *)
(* those who depend on the old address are left alone.                     *)
Move(a, b) ==
  /\ a \in Host /\ b \notin Host
  /\ parent' = [x \in Address |-> IF x = b THEN parent[a] ELSE IF x = a THEN NoHost ELSE parent[x]]
  /\ unguarded' = (unguarded \ {a}) \cup {b}

(* delete: the dependencies on the host are cleared, then its row goes.    *)
(* The statements are not a transaction (hosts.rs:384-398), but nobody     *)
(* else has the database between them; if the last one fails, some hosts   *)
(* have lost their dependency, as they may by an update each.              *)
Delete(a) ==
  /\ a \in Host
  /\ parent' = [x \in Address |-> IF x = a THEN NoHost
                                  ELSE IF parent[x] = a THEN None ELSE parent[x]]
  /\ unguarded' = unguarded \ {a}

(* import: hosts whose address is taken are skipped, the others come in    *)
(* with the dependency of the file.                                        *)
Import(file) ==
  LET new == DOMAIN file \ Host IN
  /\ parent' = [x \in Address |-> IF x \in new THEN file[x] ELSE parent[x]]
  /\ unguarded' = unguarded \cup new

Next ==
  \/ \E a \in Address :
       \/ \E d \in Dependency : Create(a, d) \/ \E b \in Address : Depend(a, b, d)
       \/ \E b \in Address : Move(a, b)
       \/ Delete(a)
  \/ \E S \in SUBSET Address :
       /\ IsFiniteSet(S) /\ Cardinality(S) <= MaxFile
       /\ \E file \in [S -> Dependency] : Import(file)

Spec == Init /\ [][Next]_vars

-----------------------------------------------------------------------------
(* A set of hosts whose parents are all among themselves: every walk       *)
(* upwards from it goes round for ever.                                    *)
Closed(p, S) == S # {} /\ \A x \in S : p[x] \in S

TypeOK ==
  /\ parent \in [Address -> Address \cup {None, NoHost}]
  /\ unguarded \subseteq Host

(* Whatever is created, changed, moved, deleted and imported, in whatever  *)
(* order and with dependencies on hosts that come and go: a cycle needs a  *)
(* host that was moved or imported past the guard.  In particular a later  *)
(* guarded change never makes two harmless hosts into one.                 *)
LoopsPastTheGuard ==
  \A S \in SUBSET Address : Closed(parent, S) => S \cap unguarded # {}

(* The guard refuses only what it must: a dependency that would close a    *)
(* cycle or lead into one, or has more than MaxWalk hosts above it.  What  *)
(* is above d is the least set with d that has the parents of its members. *)
Above(p, d) ==
  {x \in Address : \A S \in SUBSET Address :
      d \in S /\ (\A y \in S : p[y] \in Address => p[y] \in S) => x \in S}

GuardExact ==
  \A a \in Host, d \in Address :
    LET p == [parent EXCEPT ![a] = d] IN
    Valid(p, a) <=> /\ \A S \in SUBSET Above(p, d) : ~Closed(p, S)
                    /\ Cardinality(Above(p, d)) <= MaxWalk

(* A cycle of dependencies cannot come about: the guard is the one place   *)
(* that could stop it (api/hosts.rs:4-8, engine/repo.rs:183-192).          *)
NoSilentLoop == \A S \in SUBSET Address : ~Closed(parent, S)
=============================================================================
