------------------------- MODULE HostDirectoryProof -------------------------
(***************************************************************************)
(* What holds of HostDirectory for every set of addresses, finite or not,  *)
(* every length of the walk and files of any size.                         *)
(***************************************************************************)
EXTENDS HostDirectory, TLAPS, WellFoundedInduction, FunctionTheorems,
        FiniteSetTheorems

NatLess == {ss \in Nat \X Nat : ss[1] < ss[2]}

LEMMA NatLessWellFounded == IsWellFoundedOn(NatLess, Nat)
BY NatLessThanWellFounded DEF OpToRel, NatLess

(* Every set of natural numbers that is not empty has a least member.      *)
LEMMA LeastNat ==
  ASSUME NEW T \in SUBSET Nat, T # {}
  PROVE  \E i \in T : \A j \in T : ~(j < i)
<1>1. PICK i \in T : \A j \in T : <<j, i>> \notin NatLess
  BY NatLessWellFounded, WFMin
<1>2. QED
  BY <1>1 DEF NatLess

(* A walk that is in a closed set never leaves it again: a first step out  *)
(* of it would be one from a host whose parent is in it.                   *)
LEMMA WalkStays ==
  ASSUME NEW p, NEW S, Closed(p, S), NEW k \in Nat, NEW walk,
         NEW i \in 0..k, walk[i] \in S,
         \A n \in 0..(k - 1) : walk[n + 1] = p[walk[n]]
  PROVE  walk[k] \in S
<1> DEFINE Out == {n \in i..k : walk[n] \notin S}
<1>1. SUFFICES ASSUME walk[k] \notin S PROVE FALSE
  OBVIOUS
<1>2. k \in Out /\ Out \subseteq Nat /\ Out # {}
  BY <1>1
<1>3. PICK n \in Out : \A m \in Out : ~(m < n)
  BY <1>2, LeastNat
<1>4. n # i /\ n - 1 \in 0..(k - 1) /\ n - 1 \in i..k
  BY <1>3
<1>5. walk[n] = p[walk[n - 1]]
  BY <1>4
<1>6. walk[n - 1] \in S
  <2>1. SUFFICES ASSUME walk[n - 1] \notin S PROVE FALSE
    OBVIOUS
  <2>2. n - 1 \in Out
    BY <1>4, <2>1
  <2>3. QED
    BY <1>3, <1>4, <2>2
<1>7. QED
  BY <1>3, <1>5, <1>6 DEF Closed

(* What the guard accepts lies on no cycle and leads into none.            *)
LEMMA ValidOutside ==
  ASSUME NEW p, NEW own, Valid(p, own), NEW S \in SUBSET Address, Closed(p, S)
  PROVE  own \notin S
<1> SUFFICES ASSUME own \in S PROVE FALSE
  OBVIOUS
<1>1. p[own] \in S /\ p[own] \in Address
  BY DEF Closed
<1>2. PICK k \in 0..(MaxWalk - 1) : \E walk \in [0..k -> Address] :
        /\ walk[0] = p[own]
        /\ \A i \in 0..(k - 1) : walk[i + 1] = p[walk[i]]
        /\ p[walk[k]] \notin Address
  BY <1>1 DEF Valid, Ends
<1>3. PICK walk \in [0..k -> Address] :
        /\ walk[0] = p[own]
        /\ \A i \in 0..(k - 1) : walk[i + 1] = p[walk[i]]
        /\ p[walk[k]] \notin Address
  BY <1>2
<1>4. k \in Nat /\ 0 \in 0..k
  BY DirectoryAssumption
<1>5. walk[k] \in S
  BY <1>1, <1>3, <1>4, WalkStays
<1>6. QED
  BY <1>3, <1>5 DEF Closed

IInv == TypeOK /\ LoopsPastTheGuard

LEMMA InitInv == Init => IInv
BY DirectoryAssumption DEF Init, IInv, TypeOK, LoopsPastTheGuard, Closed, Host

(* Every step keeps the types.                                             *)
LEMMA TypeNext == TypeOK /\ [Next]_vars => TypeOK'
<1> SUFFICES ASSUME TypeOK, [Next]_vars PROVE TypeOK'
  OBVIOUS
<1> USE DirectoryAssumption DEF TypeOK, Host, Dependency
<1>1. ASSUME NEW x \in Address, NEW y \in Dependency, Create(x, y) PROVE TypeOK'
  BY <1>1 DEF Create
<1>2. ASSUME NEW x \in Address, NEW y \in Address, NEW z \in Dependency, Depend(x, y, z)
      PROVE TypeOK'
  BY <1>2 DEF Depend
<1>3. ASSUME NEW x \in Address, NEW y \in Address, Move(x, y) PROVE TypeOK'
  BY <1>3 DEF Move
<1>4. ASSUME NEW x \in Address, Delete(x) PROVE TypeOK'
  BY <1>4 DEF Delete
<1>5. ASSUME NEW S \in SUBSET Address, NEW file \in [S -> Dependency], Import(file)
      PROVE TypeOK'
  BY <1>5 DEF Import
<1>6. CASE UNCHANGED vars
  BY <1>6 DEF vars
<1>7. QED
  BY <1>1, <1>2, <1>3, <1>4, <1>5, <1>6 DEF Next

(* A set that is closed after a step and has only guarded hosts was so     *)
(* before it, or has a host that the guard has just refused.               *)
LEMMA LoopNext == IInv /\ [Next]_vars => LoopsPastTheGuard'
<1> SUFFICES ASSUME IInv, [Next]_vars, NEW S \in SUBSET Address, Closed(parent', S),
                    S \cap unguarded' = {}
             PROVE  FALSE
  BY DEF LoopsPastTheGuard
<1> USE DirectoryAssumption DEF Host
<1>0. /\ TypeOK
      /\ Closed(parent, S) => S \cap unguarded # {}
  BY DEF IInv, LoopsPastTheGuard
<1>1. ASSUME NEW x \in Address, NEW y \in Dependency, Create(x, y) PROVE FALSE
  <2>1. x \notin S
    BY <1>1, ValidOutside DEF Create
  <2>2. Closed(parent, S)
    BY <1>0, <1>1, <2>1 DEF Create, Closed, TypeOK
  <2>3. QED
    BY <1>0, <1>1, <2>2 DEF Create
<1>2. ASSUME NEW x \in Address, NEW y \in Address, NEW z \in Dependency, Depend(x, y, z)
      PROVE FALSE
  <2>1. y \notin S
    BY <1>2, ValidOutside DEF Depend
  <2>2. x \notin S
    BY <1>2, <2>1 DEF Depend, Closed
  <2>3. Closed(parent, S)
    BY <1>2, <2>1, <2>2 DEF Depend, Closed
  <2>4. QED
    BY <1>0, <1>2, <2>2, <2>3 DEF Depend
<1>3. ASSUME NEW x \in Address, NEW y \in Address, Move(x, y) PROVE FALSE
  <2>1. y \notin S
    BY <1>3 DEF Move
  <2>2. x \notin S
    BY <1>3, <2>1 DEF Move, Closed
  <2>3. Closed(parent, S)
    BY <1>3, <2>1, <2>2 DEF Move, Closed
  <2>4. QED
    BY <1>0, <1>3, <2>2, <2>3 DEF Move
<1>4. ASSUME NEW x \in Address, Delete(x) PROVE FALSE
  <2>1. \A z \in S : parent[z] = parent'[z] /\ z # x
    BY <1>4 DEF Delete, Closed
  <2>2. Closed(parent, S)
    BY <2>1 DEF Closed
  <2>3. QED
    BY <1>0, <1>4, <2>1, <2>2 DEF Delete
<1>5. ASSUME NEW F \in SUBSET Address, NEW file \in [F -> Dependency], Import(file)
      PROVE FALSE
  <2>1. \A z \in S : parent[z] = parent'[z]
    BY <1>5 DEF Import
  <2>2. Closed(parent, S)
    BY <2>1 DEF Closed
  <2>3. QED
    BY <1>0, <1>5, <2>2 DEF Import
<1>6. CASE UNCHANGED vars
  BY <1>0, <1>6 DEF vars
<1>7. QED
  BY <1>1, <1>2, <1>3, <1>4, <1>5, <1>6 DEF Next

LEMMA AlwaysIInv == Spec => []IInv
<1>1. IInv /\ [Next]_vars => IInv'
  BY TypeNext, LoopNext DEF IInv
<1>2. QED
  BY InitInv, <1>1, PTL DEF Spec

-----------------------------------------------------------------------------
(* The table is a table: hosts have a dependency or none, and only hosts   *)
(* are past the guard (schema.sql:39-76).                                  *)
THEOREM TypeCorrect == Spec => []TypeOK
<1>1. IInv => TypeOK
  BY DEF IInv
<1>2. QED
  BY <1>1, AlwaysIInv, PTL

(* Every cycle has a host that was moved or imported: create, update with  *)
(* a dependency and delete never close one, whatever the table is by then  *)
(* (engine/repo.rs:183-233).                                               *)
THEOREM LoopsPastTheGuardCorrect == Spec => []LoopsPastTheGuard
<1>1. IInv => LoopsPastTheGuard
  BY DEF IInv
<1>2. QED
  BY <1>1, AlwaysIInv, PTL

-----------------------------------------------------------------------------
(***************************************************************************)
(* The guard is exact.  Walk(p, d, k, walk): walk goes k steps up from d.  *)
(***************************************************************************)
Walk(p, d, k, walk) ==
  /\ walk \in [0..k -> Address]
  /\ walk[0] = d
  /\ \A i \in 0..(k - 1) : walk[i + 1] = p[walk[i]]

(* Whatever d is in and that has the parents of its members is above d.    *)
LEMMA AboveLeast ==
  ASSUME NEW p, NEW d, NEW S \in SUBSET Address, d \in S,
         \A y \in S : p[y] \in Address => p[y] \in S
  PROVE  Above(p, d) \subseteq S
BY DEF Above

(* A walk from d passes only what is above d.                              *)
LEMMA WalkAbove ==
  ASSUME NEW p, NEW d, NEW k \in Nat, NEW walk, Walk(p, d, k, walk), NEW i \in 0..k
  PROVE  walk[i] \in Above(p, d)
<1> SUFFICES ASSUME NEW S \in SUBSET Address, d \in S,
                    \A y \in S : p[y] \in Address => p[y] \in S,
                    walk[i] \notin S
             PROVE  FALSE
  BY DEF Above, Walk
<1> DEFINE Out == {n \in 0..k : walk[n] \notin S}
<1>1. i \in Out /\ Out \subseteq Nat /\ Out # {}
  OBVIOUS
<1>2. PICK n \in Out : \A m \in Out : ~(m < n)
  BY <1>1, LeastNat
<1>3. n # 0 /\ n - 1 \in 0..(k - 1) /\ n - 1 \in 0..k
  BY <1>2 DEF Walk
<1>4. walk[n] = p[walk[n - 1]] /\ walk[n] \in Address
  BY <1>2, <1>3 DEF Walk
<1>5. walk[n - 1] \in S
  <2>1. SUFFICES ASSUME walk[n - 1] \notin S PROVE FALSE
    OBVIOUS
  <2>2. n - 1 \in Out
    BY <1>3, <2>1
  <2>3. QED
    BY <1>2, <1>3, <2>2
<1>6. QED
  BY <1>2, <1>4, <1>5

(* A part of a walk that ends with a step back to where it begins is a     *)
(* closed set above d.                                                     *)
LEMMA WalkRound ==
  ASSUME NEW p, NEW d, NEW k \in Nat, NEW walk, Walk(p, d, k, walk),
         NEW i \in 0..k, NEW j \in 0..k, i <= j, p[walk[j]] = walk[i]
  PROVE  \E S \in SUBSET Above(p, d) : Closed(p, S)
<1> DEFINE S == {walk[n] : n \in i..j}
<1>1. S \in SUBSET Above(p, d)
  BY WalkAbove
<1>2. walk[i] \in S
  OBVIOUS
<1>3. ASSUME NEW n \in i..j PROVE p[walk[n]] \in S
  <2>1. CASE n = j
    BY <1>2, <2>1
  <2>2. CASE n # j
    <3>1. n \in 0..(k - 1) /\ n + 1 \in i..j
      BY <2>2
    <3>2. p[walk[n]] = walk[n + 1]
      BY <3>1 DEF Walk
    <3>3. QED
      BY <3>1, <3>2
  <2>3. QED
    BY <2>1, <2>2
<1>4. Closed(p, S)
  BY <1>2, <1>3 DEF Closed
<1>5. QED
  BY <1>1, <1>4

(* What the guard accepts has no cycle above it, and not more hosts than   *)
(* the guard looks at.                                                     *)
LEMMA EndsBounds ==
  ASSUME NEW p, NEW own, NEW d \in Address, Ends(p, own, d)
  PROVE  /\ \A S \in SUBSET Above(p, d) : ~Closed(p, S)
         /\ Cardinality(Above(p, d)) <= MaxWalk
<1>1. PICK k \in 0..(MaxWalk - 1) : \E walk \in [0..k -> Address] :
        /\ walk[0] = d
        /\ \A i \in 0..(k - 1) : walk[i + 1] = p[walk[i]]
        /\ p[walk[k]] \notin Address
  BY DEF Ends
<1>2. PICK walk \in [0..k -> Address] : Walk(p, d, k, walk) /\ p[walk[k]] \notin Address
  BY <1>1 DEF Walk
<1>3. k \in Nat /\ MaxWalk \in Nat /\ k + 1 \in Nat /\ k + 1 <= MaxWalk
  BY DirectoryAssumption
<1> DEFINE Passed == {walk[i] : i \in 0..k}
<1>4. Above(p, d) \subseteq Passed
  <2>1. Passed \in SUBSET Address
    BY <1>2 DEF Walk
  <2>2. d \in Passed
    BY <1>2, <1>3 DEF Walk
  <2>3. ASSUME NEW i \in 0..k, p[walk[i]] \in Address PROVE p[walk[i]] \in Passed
    <3>1. i \in 0..(k - 1) /\ i + 1 \in 0..k
      BY <1>2, <1>3, <2>3
    <3>2. QED
      BY <1>2, <3>1 DEF Walk
  <2>4. \A y \in Passed : p[y] \in Address => p[y] \in Passed
    BY <2>3
  <2> HIDE DEF Passed
  <2>5. QED
    BY <2>1, <2>2, <2>4, AboveLeast
<1>5. ASSUME NEW S \in SUBSET Above(p, d), Closed(p, S) PROVE FALSE
  <2>1. PICK i \in 0..k : walk[i] \in S
    BY <1>4, <1>5 DEF Closed
  <2>2. walk[k] \in S
    BY <1>2, <1>3, <1>5, <2>1, WalkStays DEF Walk
  <2>3. p[walk[k]] \in Address
    BY <1>5, <2>2 DEF Closed, Above
  <2>4. QED
    BY <1>2, <2>3
<1>6. Cardinality(Above(p, d)) <= MaxWalk
  <2> DEFINE f == [n \in 1..(k + 1) |-> walk[n - 1]]
  <2>1. f \in Surjection(1..(k + 1), Passed)
    <3>1. \A n \in 1..(k + 1) : n - 1 \in 0..k
      BY <1>3
    <3>2. f \in [1..(k + 1) -> Passed]
      BY <3>1
    <3>3. ASSUME NEW i \in 0..k PROVE i + 1 \in 1..(k + 1) /\ f[i + 1] = walk[i]
      BY <1>3
    <3>4. QED
      BY <3>2, <3>3 DEF Surjection
  <2> HIDE DEF f
  <2>2. IsFiniteSet(Passed) /\ Cardinality(Passed) <= k + 1
    <3>1. IsFiniteSet(1..(k + 1)) /\ Cardinality(1..(k + 1)) = k + 1
      BY <1>3, FS_Interval
    <3>2. QED
      BY <2>1, <3>1, FS_Surjection
  <2> HIDE DEF Passed
  <2>3. IsFiniteSet(Above(p, d)) /\ Cardinality(Above(p, d)) <= Cardinality(Passed)
    BY <1>4, <2>2, FS_Subset
  <2>4. Cardinality(Passed) \in Nat /\ Cardinality(Above(p, d)) \in Nat
    BY <2>2, <2>3, FS_CardinalityType
  <2>5. QED
    BY <1>3, <2>2, <2>3, <2>4
<1>7. QED
  BY <1>5, <1>6

(* Without a cycle and with few enough hosts above it, the walk comes to   *)
(* its end: if it did not, it would go on for MaxWalk steps, and so many   *)
(* different hosts there are not.                                          *)
LEMMA BoundsEnd ==
  ASSUME NEW p, NEW own, NEW d \in Address, p[own] = d,
         \A S \in SUBSET Above(p, d) : ~Closed(p, S),
         IsFiniteSet(Above(p, d)), Cardinality(Above(p, d)) <= MaxWalk
  PROVE  Ends(p, own, d)
<1> SUFFICES ASSUME ~Ends(p, own, d) PROVE FALSE
  OBVIOUS
<1>0. MaxWalk \in Nat /\ MaxWalk # 0 /\ Cardinality(Above(p, d)) \in Nat
  BY DirectoryAssumption, FS_CardinalityType
<1>1. ASSUME NEW k \in Nat, NEW walk, Walk(p, d, k, walk), NEW i \in 0..k
      PROVE  walk[i] # own
  <2>1. SUFFICES ASSUME walk[i] = own PROVE FALSE
    OBVIOUS
  <2>2. 0 \in 0..k /\ 0 <= i /\ p[walk[i]] = walk[0]
    BY <1>1, <2>1 DEF Walk
  <2>3. QED
    BY <1>1, <2>2, WalkRound
<1>2. ASSUME NEW k \in 0..(MaxWalk - 1), NEW walk, Walk(p, d, k, walk)
      PROVE  p[walk[k]] \in Address
  <2>1. k \in Nat
    BY <1>0
  <2>2. \A i \in 0..k : walk[i] # own
    BY <1>1, <1>2, <2>1
  <2>3. QED
    BY <1>2, <2>2 DEF Walk, Ends
<1> DEFINE Missing == {k \in 0..MaxWalk : \A walk : ~Walk(p, d, k, walk)}
<1>3. Missing = {}
  <2>1. SUFFICES ASSUME Missing # {} PROVE FALSE
    OBVIOUS
  <2>2. Missing \in SUBSET Nat
    BY <1>0
  <2>3. PICK k \in Missing : \A j \in Missing : ~(j < k)
    BY <2>1, <2>2, LeastNat
  <2>4. k \in Nat
    BY <2>2, <2>3
  <2>5. k # 0
    <3>1. Walk(p, d, 0, [i \in 0..0 |-> d])
      BY DEF Walk
    <3>2. QED
      BY <2>3, <3>1
  <2>6. k - 1 \in 0..(MaxWalk - 1) /\ k - 1 \in 0..MaxWalk /\ k - 1 < k
    BY <1>0, <2>3, <2>4, <2>5
  <2>7. k - 1 \notin Missing
    BY <2>3, <2>6
  <2>8. PICK walk : Walk(p, d, k - 1, walk)
    BY <2>6, <2>7
  <2>9. p[walk[k - 1]] \in Address
    BY <1>2, <2>6, <2>8
  <2> DEFINE longer == [i \in 0..k |-> IF i = k THEN p[walk[k - 1]] ELSE walk[i]]
  <2>10. Walk(p, d, k, longer)
    <3>1. longer \in [0..k -> Address]
      BY <2>4, <2>5, <2>8, <2>9 DEF Walk
    <3>2. longer[0] = d
      BY <2>4, <2>5, <2>8 DEF Walk
    <3>3. ASSUME NEW i \in 0..(k - 1) PROVE longer[i + 1] = p[longer[i]]
      <4>1. longer[i] = walk[i]
        BY <2>4
      <4>2. CASE i = k - 1
        BY <2>4, <2>5, <4>1, <4>2
      <4>3. CASE i # k - 1
        <5>1. i \in 0..((k - 1) - 1) /\ i + 1 \in 0..k /\ i + 1 # k
          BY <2>4, <4>3
        <5>2. longer[i + 1] = walk[i + 1]
          BY <5>1
        <5>3. QED
          BY <2>8, <4>1, <5>1, <5>2 DEF Walk
      <4>4. QED
        BY <4>2, <4>3
    <3>4. QED
      BY <3>1, <3>2, <3>3 DEF Walk
  <2>11. QED
    BY <2>3, <2>10
<1>4. PICK walk : Walk(p, d, MaxWalk, walk)
  BY <1>0, <1>3
<1>5. \A i \in 0..MaxWalk : walk[i] \in Above(p, d)
  BY <1>0, <1>4, WalkAbove
<1>6. PICK i \in 0..MaxWalk, j \in 0..MaxWalk : i # j /\ walk[i] = walk[j]
  <2>1. IsFiniteSet(0..MaxWalk) /\ Cardinality(0..MaxWalk) = MaxWalk + 1
    BY <1>0, FS_Interval
  <2>2. Cardinality(Above(p, d)) < Cardinality(0..MaxWalk)
    BY <1>0, <2>1
  <2>3. walk \in [0..MaxWalk -> Above(p, d)]
    BY <1>4, <1>5 DEF Walk
  <2>4. QED
    BY <2>1, <2>2, <2>3, FS_PigeonHole
<1>7. ASSUME NEW m \in 0..MaxWalk, NEW n \in 0..MaxWalk, m < n, walk[m] = walk[n]
      PROVE  FALSE
  <2>1. n - 1 \in 0..(MaxWalk - 1) /\ n - 1 \in 0..MaxWalk /\ m <= n - 1
        /\ (n - 1) + 1 = n
    BY <1>0, <1>7
  <2>2. p[walk[n - 1]] = walk[m]
    BY <1>4, <1>7, <2>1 DEF Walk
  <2>3. QED
    BY <1>0, <1>4, <2>1, <2>2, WalkRound
<1>8. QED
  BY <1>0, <1>6, <1>7

(* At any time the table has finitely many hosts, and so there are only    *)
(* finitely many above any address.                                        *)
FiniteHosts == IsFiniteSet(Host)

LEMMA FiniteInit == Init => FiniteHosts
<1> SUFFICES ASSUME Init PROVE FiniteHosts
  OBVIOUS
<1>1. Host = {}
  BY DEF Init, Host
<1>2. QED
  BY <1>1, FS_EmptySet DEF FiniteHosts

LEMMA FiniteNext == FiniteHosts /\ TypeOK /\ [Next]_vars => FiniteHosts'
<1> SUFFICES ASSUME FiniteHosts, TypeOK, [Next]_vars PROVE FiniteHosts'
  OBVIOUS
<1>1. ASSUME NEW x, Host' \subseteq Host \cup {x} PROVE FiniteHosts'
  BY <1>1, FS_AddElement, FS_Subset DEF FiniteHosts
<1>2. ASSUME NEW x \in Address, NEW y \in Dependency, Create(x, y) PROVE FiniteHosts'
  BY <1>1, <1>2 DEF Create, Host, TypeOK
<1>3. ASSUME NEW x \in Address, NEW y \in Address, NEW z \in Dependency, Depend(x, y, z)
      PROVE FiniteHosts'
  BY <1>1, <1>3 DEF Depend, Host
<1>4. ASSUME NEW x \in Address, NEW y \in Address, Move(x, y) PROVE FiniteHosts'
  BY <1>1, <1>4 DEF Move, Host
<1>5. ASSUME NEW x \in Address, Delete(x) PROVE FiniteHosts'
  BY <1>1, <1>5, DirectoryAssumption DEF Delete, Host
<1>6. ASSUME NEW S \in SUBSET Address, IsFiniteSet(S),
             NEW file \in [S -> Dependency], Import(file)
      PROVE FiniteHosts'
  <2>1. Host' \subseteq Host \cup S
    BY <1>6 DEF Import, Host
  <2>2. IsFiniteSet(Host \cup S)
    BY <1>6, FS_Union DEF FiniteHosts
  <2>3. QED
    BY <2>1, <2>2, FS_Subset DEF FiniteHosts
<1>7. CASE UNCHANGED vars
  BY <1>7 DEF vars, FiniteHosts, Host
<1>8. QED
  BY <1>2, <1>3, <1>4, <1>5, <1>6, <1>7, Zenon DEF Next

LEMMA AboveFinite ==
  ASSUME FiniteHosts, TypeOK, NEW a \in Host, NEW d \in Address
  PROVE  IsFiniteSet(Above([parent EXCEPT ![a] = d], d))
<1> DEFINE p == [parent EXCEPT ![a] = d]
           Up == {p[x] : x \in Host}
           f == [x \in Host |-> p[x]]
           S == {x \in Up \cup {d} : x \in Address}
<1>1. f \in Surjection(Host, Up)
  BY DEF Surjection
<1>2. IsFiniteSet(Up)
  <2> HIDE DEF f, Up
  <2>1. QED
    BY <1>1, FS_Surjection DEF FiniteHosts
<1>3. IsFiniteSet(S)
  <2>1. IsFiniteSet(Up \cup {d})
    BY <1>2, FS_AddElement
  <2>2. S \in SUBSET (Up \cup {d})
    OBVIOUS
  <2> HIDE DEF S, Up
  <2>3. QED
    BY <2>1, <2>2, FS_Subset
<1>4. \A y \in S : p[y] \in Address => p[y] \in S
  <2> SUFFICES ASSUME NEW y \in S, p[y] \in Address PROVE p[y] \in Up
    OBVIOUS
  <2>1. y \in Host
    BY DirectoryAssumption DEF TypeOK, Host
  <2>2. QED
    BY <2>1
<1>5. d \in S /\ S \in SUBSET Address
  OBVIOUS
<1> HIDE DEF p, S
<1>6. Above(p, d) \subseteq S
  BY <1>4, <1>5, AboveLeast
<1>7. QED
  BY <1>3, <1>6, FS_Subset DEF p

LEMMA ExactNow == TypeOK /\ FiniteHosts => GuardExact
<1> SUFFICES ASSUME TypeOK, FiniteHosts, NEW a \in Host, NEW d \in Address
             PROVE  LET p == [parent EXCEPT ![a] = d] IN
                    Valid(p, a) <=> /\ \A S \in SUBSET Above(p, d) : ~Closed(p, S)
                                    /\ Cardinality(Above(p, d)) <= MaxWalk
  BY DEF GuardExact
<1> DEFINE p == [parent EXCEPT ![a] = d]
<1>1. p[a] = d
  BY DEF TypeOK, Host
<1>2. IsFiniteSet(Above(p, d))
  BY AboveFinite
<1> HIDE DEF p
<1>3. Valid(p, a) <=> Ends(p, a, d)
  BY <1>1 DEF Valid
<1>4. Valid(p, a) <=> /\ \A S \in SUBSET Above(p, d) : ~Closed(p, S)
                      /\ Cardinality(Above(p, d)) <= MaxWalk
  BY <1>1, <1>2, <1>3, EndsBounds, BoundsEnd
<1>5. QED
  BY <1>4 DEF p

(* The guard accepts a dependency exactly when it leads neither into a     *)
(* cycle nor past more than MaxWalk hosts, in every table that a sequence  *)
(* of operations can leave, with loops that were moved or imported past    *)
(* the guard in it too (engine/repo.rs:183-233).                           *)
THEOREM GuardExactCorrect == Spec => []GuardExact
<1>1. Init => FiniteHosts
  BY FiniteInit
<1>2. FiniteHosts /\ TypeOK /\ [Next]_vars => FiniteHosts'
  BY FiniteNext
<1>3. Spec => []FiniteHosts
  BY <1>1, <1>2, TypeCorrect, PTL DEF Spec
<1>4. QED
  BY <1>3, TypeCorrect, ExactNow, PTL
-----------------------------------------------------------------------------
(* The two operations that put hosts where nobody asked the guard.         *)
PastTheGuard ==
  \/ \E a, b \in Address : Move(a, b)
  \/ \E S \in SUBSET Address : \E file \in [S -> Dependency] : Import(file)

(* As long as hosts are only created, given dependencies (and addresses    *)
(* along with them) and deleted, no cycle comes about at all: changing an  *)
(* address alone and importing are the only ways past the guard            *)
(* (api/hosts.rs:344, api/transfer.rs:228-254).                            *)
THEOREM NoLoopWithoutBypass == Spec /\ [][~PastTheGuard]_vars => []NoSilentLoop
<1>1. Init => unguarded = {}
  BY DEF Init
<1>2. unguarded = {} /\ [Next]_vars /\ [~PastTheGuard]_vars => (unguarded = {})'
  <2> SUFFICES ASSUME unguarded = {}, Next, ~PastTheGuard PROVE unguarded' = {}
    BY DEF vars
  <2>1. ASSUME NEW a \in Address, NEW d \in Dependency, Create(a, d) PROVE unguarded' = {}
    BY <2>1 DEF Create
  <2>2. ASSUME NEW a \in Address, NEW b \in Address, NEW d \in Dependency, Depend(a, b, d)
        PROVE  unguarded' = {}
    BY <2>2 DEF Depend
  <2>3. ASSUME NEW a \in Address, Delete(a) PROVE unguarded' = {}
    BY <2>3 DEF Delete
  <2>4. QED
    BY <2>1, <2>2, <2>3, Zenon DEF Next, PastTheGuard
<1>3. LoopsPastTheGuard /\ unguarded = {} => NoSilentLoop
  BY DEF LoopsPastTheGuard, NoSilentLoop
<1>4. Spec /\ [][~PastTheGuard]_vars => [](unguarded = {})
  BY <1>1, <1>2, PTL DEF Spec
<1>5. QED
  BY <1>3, <1>4, LoopsPastTheGuardCorrect, PTL
=============================================================================
