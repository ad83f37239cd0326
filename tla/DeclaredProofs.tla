--------------------------- MODULE DeclaredProofs ---------------------------
(***************************************************************************)
(* From the text of a configuration to limits that bind.                   *)
(*                                                                         *)
(* For any number of processes in a container (module Isolation): its      *)
(* limits hold and its counts are exact.  The two need each other: an      *)
(* exact count is what a limit is tested against, and a count under a      *)
(* limit is what never saturates.                                          *)
(*                                                                         *)
(* For documents of any length (module ConfigParser): what the parser      *)
(* makes of them is right, and a container has its own ports.  The         *)
(* invariant says at which place of the document the parser is (Somewhere) *)
(* and, place by place, which lines follow it, which containers have been  *)
(* pushed and what the builder holds.                                      *)
(*                                                                         *)
(* Of the two together (module DeclaredContainers): the boot implements    *)
(* the specification of Isolation, under the limit the text declares.      *)
(***************************************************************************)
EXTENDS DeclaredContainers, FiniteSetTheorems, SequenceTheorems, TLAPS

-----------------------------------------------------------------------------
(* Induction without an operator as parameter: over a set of numbers.       *)

\* A set of natural numbers that is not empty has a least element.
LEMMA LeastElement ==
  ASSUME NEW T \in SUBSET Nat, T # {}
  PROVE  \E k \in T : \A j \in T : k <= j
<1> DEFINE R == OpToRel(<, Nat)
<1>1. IsWellFoundedOn(R, Nat)
  BY NatLessThanWellFounded
<1>2. \A i, j \in Nat : i < j => <<i, j>> \in R
  BY Zenon DEF OpToRel
<1> HIDE DEF R
<1>3. PICK k \in T : \A j \in T : <<j, k>> \notin R
  BY <1>1, WFMin
<1> SUFFICES ASSUME NEW j \in T PROVE k <= j
  OBVIOUS
<1>4. j \in Nat /\ k \in Nat /\ ~ (j < k)
  BY <1>2, <1>3
<1> QED BY <1>4

\* A set of natural numbers with 0 and each successor is all of Nat.
LEMMA Inductively ==
  ASSUME NEW S \in SUBSET Nat, 0 \in S, \A n \in S : n + 1 \in S
  PROVE  S = Nat
<1> SUFFICES ASSUME Nat \ S # {} PROVE FALSE
  OBVIOUS
<1>1. PICK k \in Nat \ S : \A j \in Nat \ S : k <= j
  BY LeastElement
<1>2. k # 0 /\ k - 1 \in Nat /\ k - 1 \notin Nat \ S
  BY <1>1
<1> QED BY <1>2
-----------------------------------------------------------------------------
(* How much is held: what one process adds to a total, and what all can.    *)

\* The bytes of all but one process.
Rest(f, p) == {b \in Bytes(f) : b[1] # p}

LEMMA BytesFinite ==
  ASSUME NEW B \in Nat, NEW f \in [Procs -> 0 .. B]
  PROVE  /\ Bytes(f) \subseteq Procs \X (1 .. B)
         /\ IsFiniteSet(Bytes(f)) /\ Total(f) \in Nat
<1>1. Bytes(f) \subseteq Procs \X (1 .. B)
  BY DEF Bytes
<1>2. IsFiniteSet(Procs) /\ IsFiniteSet(1 .. B)
  BY IsolationAssumption, FS_Interval
<1>3. IsFiniteSet(Procs \X (1 .. B))
  BY <1>2, FS_Product
<1>4. IsFiniteSet(Bytes(f))
  BY <1>1, <1>3, FS_Subset
<1> QED BY <1>1, <1>4, FS_CardinalityType DEF Total

\* A total is what one process holds and what the rest do.
LEMMA TotalSplit ==
  ASSUME NEW B \in Nat, NEW f \in [Procs -> 0 .. B], NEW p \in Procs
  PROVE  /\ IsFiniteSet(Rest(f, p)) /\ Cardinality(Rest(f, p)) \in Nat
         /\ Total(f) = Cardinality(Rest(f, p)) + f[p]
<1> DEFINE Own == {p} \X (1 .. f[p])
<1>1. IsFiniteSet(Rest(f, p))
  BY BytesFinite, FS_Subset DEF Rest
<1>2. IsFiniteSet({p}) /\ Cardinality({p}) = 1
  BY FS_Singleton
<1>3. f[p] \in Nat
  OBVIOUS
<1>4. IsFiniteSet(1 .. f[p]) /\ Cardinality(1 .. f[p]) = f[p]
  BY <1>3, FS_Interval
<1>5. IsFiniteSet(Own) /\ Cardinality(Own) = 1 * f[p]
  BY <1>2, <1>4, FS_Product
<1>6. Bytes(f) = Rest(f, p) \cup Own /\ Rest(f, p) \cap Own = {}
  BY DEF Rest, Bytes
<1>7. Cardinality({}) = 0 /\ Cardinality(Rest(f, p)) \in Nat
  BY <1>1, FS_EmptySet, FS_CardinalityType
<1> HIDE DEF Own
<1>8. Cardinality(Bytes(f)) = Cardinality(Rest(f, p)) + Cardinality(Own) - Cardinality({})
  BY <1>1, <1>5, <1>6, FS_Union
<1>9. 1 * f[p] = f[p]
  BY <1>3
<1> QED BY <1>1, <1>3, <1>5, <1>7, <1>8, <1>9 DEF Total

\* What the rest hold does not depend on the one.
LEMMA RestSame ==
  ASSUME NEW f, NEW g, NEW p \in Procs, DOMAIN f = Procs, DOMAIN g = Procs,
         \A q \in Procs \ {p} : f[q] = g[q]
  PROVE  Rest(f, p) = Rest(g, p)
BY DEF Rest, Bytes

LEMMA ConstantFacts ==
  /\ UsizeMax \in Nat /\ MachineMemory \in Nat /\ MachineMemory <= UsizeMax
  /\ CgroupPids \in Nat /\ CgroupPids <= UsizeMax
  /\ \A r \in Requests : r \in Nat /\ r > 0
BY IsolationAssumption

\* A process that holds more or less changes the total by as much.
LEMMA TotalChanges ==
  ASSUME NEW f \in [Procs -> 0 .. MachineMemory], NEW p \in Procs, NEW n \in 0 .. MachineMemory
  PROVE  /\ Total(f) \in Nat /\ f[p] <= Total(f)
         /\ [f EXCEPT ![p] = n] \in [Procs -> 0 .. MachineMemory]
         /\ Total([f EXCEPT ![p] = n]) = (Total(f) - f[p]) + n
<1> DEFINE g == [f EXCEPT ![p] = n]
           a == Cardinality(Rest(f, p))
<1>1. g \in [Procs -> 0 .. MachineMemory] /\ g[p] = n /\ \A q \in Procs \ {p} : f[q] = g[q]
  OBVIOUS
<1>2. MachineMemory \in Nat
  BY ConstantFacts
<1>3. a \in Nat /\ Total(f) = a + f[p]
  BY <1>2, TotalSplit
<1>4. Rest(f, p) = Rest(g, p)
  <2> HIDE DEF g
  <2> QED BY <1>1, RestSame
<1>5. Total(g) = a + n
  <2> HIDE DEF g
  <2> QED BY <1>1, <1>2, <1>4, TotalSplit
<1>6. f[p] \in Nat
  BY <1>2
<1> HIDE DEF a, g
<1>7. Total(g) = (Total(f) - f[p]) + n /\ Total(f) \in Nat /\ f[p] <= Total(f)
  BY <1>2, <1>3, <1>5, <1>6
<1> QED BY <1>1, <1>7 DEF g
-----------------------------------------------------------------------------
(* The container: its counts are exact, which is what keeps the saturating  *)
(* sums from ever saturating, and hence its limits hold.                    *)

LEMMA TotalAfter ==
  ASSUME NEW f \in [Procs -> 0 .. MachineMemory], NEW p \in Procs, NEW n \in 0 .. MachineMemory,
         NEW g, g = [f EXCEPT ![p] = n]
  PROVE  Total(g) = (Total(f) - f[p]) + n
BY TotalChanges

Phases == {"absent", "alive", "exited"}

ProcessesOK ==
    /\ phase \in [Procs -> Phases]
    /\ held \in [Procs -> 0 .. MachineMemory]
    /\ Total(held) <= MachineMemory

NotYet == \A p \in Procs : phase[p] = "absent" /\ held[p] = 0

Counted ==
    /\ container \in Cgroup /\ container.pids_max = CgroupPids
    /\ container.memory_used = Total(held) /\ Total(held) <= container.memory_limit
    /\ container.pids_current = Cardinality(Alive) /\ Cardinality(Alive) <= CgroupPids

IsolationInv ==
    /\ ProcessesOK
    /\ ~Exists => NotYet
    /\ Exists => Counted

LEMMA CgroupExists == container \in Cgroup => Exists
BY IsolationAssumption DEF Exists

LEMMA CgroupFacts ==
  ASSUME container \in Cgroup
  PROVE  /\ container.memory_used \in Nat /\ container.pids_current \in Nat
         /\ container.memory_limit \in Nat /\ container.memory_limit <= UsizeMax
BY ConstantFacts DEF Cgroup

LEMMA NothingHeld ==
  ASSUME NotYet, ProcessesOK
  PROVE  Total(held) = 0 /\ Cardinality(Alive) = 0
<1>1. Bytes(held) = {} /\ Alive = {}
  BY DEF NotYet, ProcessesOK, Bytes, Alive
<1> QED BY <1>1, FS_EmptySet DEF Total

LEMMA InitIsolation == IsolationInit => IsolationInv
<1> SUFFICES ASSUME IsolationInit PROVE IsolationInv
  OBVIOUS
<1>1. ~Exists /\ NotYet
  BY DEF IsolationInit, Exists, NotYet
<1>2. Bytes(held) = {}
  BY DEF IsolationInit, Bytes
<1>3. Total(held) = 0
  BY <1>2, FS_EmptySet DEF Total
<1>4. ProcessesOK
  BY <1>3, ConstantFacts DEF IsolationInit, ProcessesOK, Phases
<1> QED BY <1>1, <1>4 DEF IsolationInv

LEMMA StartKeeps ==
  ASSUME IsolationInv, NEW memory_bytes \in 0 .. UsizeMax, Start(memory_bytes)
  PROVE  IsolationInv' /\ Exists' /\ container'.memory_limit = Effective(memory_bytes)
<1>1. NotYet /\ ProcessesOK
  BY DEF IsolationInv, Start, Exists
<1>2. UNCHANGED <<phase, held>>
  BY DEF Start
<1>3. NotYet' /\ ProcessesOK' /\ Total(held)' = Total(held) /\ Alive' = Alive
  BY <1>1, <1>2 DEF NotYet, ProcessesOK, Total, Bytes, Alive
<1>4. Effective(memory_bytes) \in 0 .. UsizeMax
  BY IsolationAssumption DEF Effective
<1>5. container' = [state |-> "Running", memory_limit |-> Effective(memory_bytes),
                    memory_used |-> 0, pids_max |-> CgroupPids, pids_current |-> 0]
  BY DEF Start
<1>6. /\ container' \in Cgroup /\ container'.memory_limit = Effective(memory_bytes)
      /\ container'.memory_used = 0 /\ container'.pids_current = 0
      /\ container'.pids_max = CgroupPids
  BY <1>4, <1>5, ConstantFacts DEF Cgroup
<1>7. Exists'
  BY <1>6, IsolationAssumption DEF Exists
<1>8. Total(held)' = 0 /\ Cardinality(Alive)' = 0
  BY <1>1, <1>3, NothingHeld
<1>9. Counted'
  BY <1>4, <1>6, <1>8, ConstantFacts DEF Counted
<1> QED BY <1>3, <1>6, <1>7, <1>9 DEF IsolationInv

\* What is granted fits under the limit and, as the machine has it, under the
\* largest usize.
LEMMA AllocateKeeps ==
  ASSUME IsolationInv, NEW p \in Procs, NEW r \in Requests, Allocate(p, r)
  PROVE  IsolationInv' /\ Exists' /\ container'.memory_limit = container.memory_limit
<1>1. /\ Exists /\ check_memory(r) /\ Total(held) + r <= MachineMemory
      /\ container' = [container EXCEPT !.memory_used = SatAdd(container.memory_used, r)]
      /\ held' = [held EXCEPT ![p] = held[p] + r] /\ phase' = phase
  BY DEF Allocate, charge_memory, Exists
<1>2. ProcessesOK /\ Counted
  BY <1>1 DEF IsolationInv
<1>3. /\ held \in [Procs -> 0 .. MachineMemory] /\ MachineMemory \in Nat /\ r \in Nat
      /\ held[p] \in Nat /\ UsizeMax \in Nat /\ MachineMemory <= UsizeMax
  BY <1>2, ConstantFacts DEF ProcessesOK
<1>4. Total(held) \in Nat /\ held[p] <= Total(held)
  BY <1>3, TotalChanges
<1>5. held[p] + r \in 0 .. MachineMemory
  BY <1>1, <1>3, <1>4
<1>6. held' \in [Procs -> 0 .. MachineMemory] /\ Total(held') = Total(held) + r
  <2>1. Total(held') = (Total(held) - held[p]) + (held[p] + r)
    BY <1>1, <1>3, <1>5, TotalChanges
  <2>2. held' \in [Procs -> 0 .. MachineMemory]
    BY <1>1, <1>3, <1>5, TotalChanges
  <2> QED BY <1>3, <1>4, <2>1, <2>2
<1>7. container \in Cgroup /\ container.memory_used = Total(held)
  BY <1>2 DEF Counted
<1>8. SatAdd(container.memory_used, r) = Total(held) + r
  BY <1>1, <1>3, <1>4, <1>7 DEF SatAdd
<1>9. Total(held) + r <= container.memory_limit
  BY <1>1, <1>8 DEF check_memory
<1>10. /\ container' \in Cgroup /\ container'.memory_used = Total(held) + r
       /\ container'.memory_limit = container.memory_limit
       /\ container'.pids_max = container.pids_max
       /\ container'.pids_current = container.pids_current
  BY <1>1, <1>3, <1>4, <1>7, <1>8 DEF Cgroup
<1>11. Total(held)' = Total(held') /\ Alive' = Alive
  BY <1>1 DEF Total, Bytes, Alive
<1>12. Counted'
  BY <1>2, <1>6, <1>9, <1>10, <1>11 DEF Counted
<1>13. ProcessesOK'
  BY <1>1, <1>2, <1>6, <1>11 DEF ProcessesOK
<1>14. Exists'
  BY <1>10, IsolationAssumption DEF Exists
<1> QED BY <1>10, <1>12, <1>13, <1>14 DEF IsolationInv

LEMMA FreeKeeps ==
  ASSUME IsolationInv, NEW p \in Procs, NEW n \in 1 .. held[p], Free(p, n)
  PROVE  IsolationInv' /\ Exists' /\ container'.memory_limit = container.memory_limit
<1>1. /\ Exists
      /\ container' = [container EXCEPT !.memory_used = SatSub(container.memory_used, n)]
      /\ held' = [held EXCEPT ![p] = held[p] - n] /\ phase' = phase
  BY DEF Free, release_memory, Exists
<1>2. ProcessesOK /\ Counted
  BY <1>1 DEF IsolationInv
<1>3. /\ held \in [Procs -> 0 .. MachineMemory] /\ MachineMemory \in Nat
      /\ held[p] \in Nat /\ held[p] <= MachineMemory /\ n \in Nat /\ n <= held[p]
  BY <1>2, ConstantFacts DEF ProcessesOK
<1>4. Total(held) \in Nat /\ held[p] <= Total(held)
  BY <1>3, TotalChanges
<1>5. held[p] - n \in 0 .. MachineMemory
  BY <1>3
<1>6. held' \in [Procs -> 0 .. MachineMemory] /\ Total(held') = Total(held) - n
  <2> DEFINE left == held[p] - n
  <2>3. left \in 0 .. MachineMemory
    BY <1>5
  <2> HIDE DEF left
  <2>5. held \in [Procs -> 0 .. MachineMemory]
    BY <1>3
  <2>6. held' = [held EXCEPT ![p] = left]
    BY <1>1 DEF left
  <2>4. Total(held') = (Total(held) - held[p]) + left
    BY <2>3, <2>5, <2>6, TotalAfter
  <2>1. Total(held') = (Total(held) - held[p]) + (held[p] - n)
    BY <2>4 DEF left
  <2>2. held' \in [Procs -> 0 .. MachineMemory]
    BY <1>1, <1>3, <1>5, TotalChanges
  <2> QED BY <1>3, <1>4, <2>1, <2>2
<1>7. container \in Cgroup /\ container.memory_used = Total(held)
      /\ Total(held) <= container.memory_limit /\ container.memory_limit \in Nat
  BY <1>2, CgroupFacts DEF Counted
<1>8. SatSub(container.memory_used, n) = Total(held) - n /\ Total(held) - n \in Nat
  BY <1>3, <1>4, <1>7 DEF SatSub
<1>9. /\ container' \in Cgroup /\ container'.memory_used = Total(held) - n
      /\ container'.memory_limit = container.memory_limit
      /\ container'.pids_max = container.pids_max
      /\ container'.pids_current = container.pids_current
  BY <1>1, <1>7, <1>8 DEF Cgroup
<1>10. Total(held)' = Total(held') /\ Alive' = Alive
  BY <1>1 DEF Total, Bytes, Alive
<1>11. Total(held') <= container.memory_limit /\ Total(held') <= MachineMemory
  BY <1>2, <1>3, <1>4, <1>6, <1>7 DEF ProcessesOK
<1>12. Counted'
  BY <1>2, <1>6, <1>9, <1>10, <1>11 DEF Counted
<1>13. ProcessesOK'
  BY <1>1, <1>2, <1>6, <1>10, <1>11 DEF ProcessesOK
<1>14. Exists'
  BY <1>9, IsolationAssumption DEF Exists
<1> QED BY <1>9, <1>12, <1>13, <1>14 DEF IsolationInv

LEMMA AliveFinite == IsFiniteSet(Alive) /\ Cardinality(Alive) \in Nat
<1>1. Alive \subseteq Procs /\ IsFiniteSet(Procs)
  BY IsolationAssumption DEF Alive
<1> QED BY <1>1, FS_Subset, FS_CardinalityType

LEMMA SpawnKeeps ==
  ASSUME IsolationInv, NEW p \in Procs, Spawn(p)
  PROVE  IsolationInv' /\ Exists' /\ container'.memory_limit = container.memory_limit
<1>1. /\ Exists /\ phase[p] = "absent" /\ check_pids /\ held' = held
      /\ container' = [container EXCEPT !.pids_current = SatAdd(container.pids_current, 1)]
      /\ phase' = [phase EXCEPT ![p] = "alive"]
  BY DEF Spawn, charge_pid, Exists
<1>2. ProcessesOK /\ Counted
  BY <1>1 DEF IsolationInv
<1>3. phase \in [Procs -> Phases]
  BY <1>2 DEF ProcessesOK
<1>4. phase' \in [Procs -> Phases]
  BY <1>1, <1>3 DEF Phases
<1>5. Alive' = Alive \cup {p} /\ p \notin Alive
  BY <1>1, <1>3 DEF Alive
<1>6. Cardinality(Alive') = Cardinality(Alive) + 1 /\ Cardinality(Alive) \in Nat
  BY <1>5, AliveFinite, FS_AddElement
<1>7. /\ container \in Cgroup /\ container.pids_current = Cardinality(Alive)
      /\ Cardinality(Alive) < CgroupPids
  BY <1>1, <1>2 DEF Counted, check_pids
<1>8. SatAdd(container.pids_current, 1) = Cardinality(Alive) + 1
  BY <1>6, <1>7, ConstantFacts DEF SatAdd
<1>9. /\ container' \in Cgroup /\ container'.pids_current = Cardinality(Alive) + 1
      /\ container'.memory_limit = container.memory_limit
      /\ container'.pids_max = container.pids_max
      /\ container'.memory_used = container.memory_used
  BY <1>1, <1>6, <1>7, <1>8 DEF Cgroup
<1>10. Cardinality(Alive)' = Cardinality(Alive') /\ Cardinality(Alive') <= CgroupPids
  BY <1>6, <1>7, ConstantFacts
<1>11. Total(held)' = Total(held)
  BY <1>1 DEF Total, Bytes
<1>12. Counted'
  BY <1>2, <1>6, <1>9, <1>10, <1>11 DEF Counted
<1>13. ProcessesOK'
  BY <1>1, <1>2, <1>4, <1>11 DEF ProcessesOK
<1>14. Exists'
  BY <1>9, IsolationAssumption DEF Exists
<1> QED BY <1>9, <1>12, <1>13, <1>14 DEF IsolationInv

LEMMA ExitKeeps ==
  ASSUME IsolationInv, NEW p \in Procs, Exit(p)
  PROVE  IsolationInv' /\ Exists' /\ container'.memory_limit = container.memory_limit
<1>1. /\ Exists /\ phase[p] = "alive"
      /\ container' = [container EXCEPT
             !.memory_used = SatSub(container.memory_used, held[p]),
             !.pids_current = SatSub(container.pids_current, 1),
             !.state = IF pid[p] = 1 THEN "Stopped" ELSE container.state]
      /\ held' = [held EXCEPT ![p] = 0]
      /\ phase' = [phase EXCEPT ![p] = "exited"]
  <2>1. Exists /\ phase[p] = "alive"
        /\ container' = [release_pid(release_memory(held[p])) EXCEPT
              !.state = IF pid[p] = 1 THEN "Stopped"
                        ELSE release_pid(release_memory(held[p])).state]
        /\ held' = [held EXCEPT ![p] = 0] /\ phase' = [phase EXCEPT ![p] = "exited"]
    BY DEF Exit, Exists
  <2>2. container \in Cgroup
    BY <2>1 DEF IsolationInv, Counted
  <2> QED BY <2>1, <2>2 DEF release_pid, release_memory, Cgroup
<1>2. ProcessesOK /\ Counted
  BY <1>1 DEF IsolationInv
<1>3. /\ held \in [Procs -> 0 .. MachineMemory] /\ MachineMemory \in Nat
      /\ held[p] \in Nat
  BY <1>2, ConstantFacts DEF ProcessesOK
<1>17. phase \in [Procs -> Phases]
  BY <1>2 DEF ProcessesOK
<1>4. Total(held) \in Nat /\ held[p] <= Total(held)
  BY <1>3, TotalChanges
<1>5. held' \in [Procs -> 0 .. MachineMemory] /\ Total(held') = Total(held) - held[p]
  <2> DEFINE left == 0
  <2>1. left \in 0 .. MachineMemory
    BY <1>3
  <2> HIDE DEF left
  <2>6. held \in [Procs -> 0 .. MachineMemory]
    BY <1>3
  <2>5. [held EXCEPT ![p] = left] \in [Procs -> 0 .. MachineMemory]
    BY <1>3, <2>1
  <2>3. held' = [held EXCEPT ![p] = left]
    BY <1>1 DEF left
  <2>2. Total(held') = (Total(held) - held[p]) + left
    BY <2>1, <2>3, <2>6, TotalAfter
  <2>4. Total(held') = (Total(held) - held[p]) + 0
    BY <2>2 DEF left
  <2> QED BY <1>3, <1>4, <2>3, <2>4, <2>5
<1>6. phase' \in [Procs -> Phases]
  BY <1>1, <1>17 DEF Phases
<1>7. Alive' = Alive \ {p} /\ p \in Alive
  BY <1>1, <1>17 DEF Alive
<1>8. Cardinality(Alive') = Cardinality(Alive) - 1 /\ Cardinality(Alive) \in Nat
      /\ Cardinality(Alive') \in Nat
  <2>1. Cardinality(Alive') = Cardinality(Alive) - 1
    BY <1>7, AliveFinite, FS_RemoveElement
  <2>2. IsFiniteSet(Alive')
    BY <1>7, AliveFinite, FS_RemoveElement
  <2> QED BY <2>1, <2>2, AliveFinite, FS_CardinalityType
<1>9. /\ container \in Cgroup /\ container.memory_used = Total(held)
      /\ Total(held) <= container.memory_limit /\ container.memory_limit \in Nat
      /\ container.pids_current = Cardinality(Alive) /\ Cardinality(Alive) <= CgroupPids
  BY <1>2, CgroupFacts DEF Counted
<1>10. /\ SatSub(container.memory_used, held[p]) = Total(held) - held[p]
       /\ Total(held) - held[p] \in Nat
       /\ SatSub(container.pids_current, 1) = Cardinality(Alive) - 1
  BY <1>3, <1>4, <1>8, <1>9 DEF SatSub
<1>11. /\ container' \in Cgroup /\ container'.memory_used = Total(held) - held[p]
       /\ container'.pids_current = Cardinality(Alive')
       /\ container'.memory_limit = container.memory_limit
       /\ container'.pids_max = container.pids_max
  <2>1. (IF pid[p] = 1 THEN "Stopped" ELSE container.state) \in {"Running", "Stopping", "Stopped"}
    BY <1>9 DEF Cgroup
  <2> DEFINE st == IF pid[p] = 1 THEN "Stopped" ELSE container.state
             m == SatSub(container.memory_used, held[p])
             n == SatSub(container.pids_current, 1)
  <2>2. container' = [container EXCEPT !.memory_used = m, !.pids_current = n, !.state = st]
    BY <1>1
  <2>3. m \in Nat /\ n \in Nat /\ m = Total(held) - held[p] /\ n = Cardinality(Alive')
    BY <1>8, <1>10
  <2>4. st \in {"Running", "Stopping", "Stopped"}
    BY <2>1
  <2> HIDE DEF st, m, n
  <2> QED BY <1>9, <2>2, <2>3, <2>4 DEF Cgroup
<1>12. Total(held)' = Total(held') /\ Cardinality(Alive)' = Cardinality(Alive')
  BY DEF Total, Bytes
<1>13. Total(held') <= container.memory_limit /\ Total(held') <= MachineMemory
       /\ Cardinality(Alive') <= CgroupPids
  BY <1>2, <1>3, <1>4, <1>5, <1>8, <1>9, ConstantFacts DEF ProcessesOK
<1>14. Counted'
  BY <1>2, <1>5, <1>11, <1>12, <1>13 DEF Counted
<1>15. ProcessesOK'
  BY <1>5, <1>6, <1>12, <1>13 DEF ProcessesOK
<1>16. Exists'
  BY <1>11, IsolationAssumption DEF Exists
<1> QED BY <1>11, <1>14, <1>15, <1>16 DEF IsolationInv

LEMMA StopKeeps ==
  ASSUME IsolationInv, stop \/ UNCHANGED isolationVars
  PROVE  /\ IsolationInv'
         /\ Exists => Exists' /\ container'.memory_limit = container.memory_limit
<1>1. UNCHANGED <<phase, held>>
  BY DEF stop, isolationVars
<1>2. Total(held)' = Total(held) /\ Alive' = Alive
  BY <1>1 DEF Total, Bytes, Alive
<1>3. ProcessesOK' /\ (NotYet => NotYet')
  BY <1>1, <1>2 DEF IsolationInv, ProcessesOK, NotYet
<1>4. CASE UNCHANGED isolationVars
  <2>1. container' = container
    BY <1>4 DEF isolationVars
  <2> QED BY <1>2, <1>3, <2>1 DEF IsolationInv, Exists, Counted
<1>5. CASE stop
  <2>1. Exists /\ container' = [container EXCEPT !.state = "Stopping"]
    BY <1>5 DEF stop, Exists
  <2>2. Counted
    BY <2>1 DEF IsolationInv
  <2>3. /\ container' \in Cgroup
        /\ container'.memory_used = container.memory_used
        /\ container'.memory_limit = container.memory_limit
        /\ container'.pids_max = container.pids_max
        /\ container'.pids_current = container.pids_current
    BY <2>1, <2>2 DEF Cgroup, Counted
  <2>4. Counted'
    BY <1>2, <2>2, <2>3 DEF Counted
  <2>5. Exists'
    BY <2>3, IsolationAssumption DEF Exists
  <2> QED BY <1>3, <2>3, <2>4, <2>5 DEF IsolationInv
<1> QED BY <1>4, <1>5

\* Processes come and go; their container stays, under the same limit.
LEMMA ProcessesKeep ==
  ASSUME IsolationInv, Processes
  PROVE  IsolationInv' /\ Exists' /\ container'.memory_limit = container.memory_limit
<1>1. CASE \E p \in Procs, r \in Requests : Allocate(p, r)
  BY <1>1, AllocateKeeps
<1>2. CASE \E p \in Procs : \E n \in 1 .. held[p] : Free(p, n)
  BY <1>2, FreeKeeps
<1>3. CASE \E p \in Procs : Spawn(p)
  BY <1>3, SpawnKeeps
<1>4. CASE \E p \in Procs : Exit(p)
  BY <1>4, ExitKeeps
<1>5. CASE stop
  BY <1>5, StopKeeps DEF stop
<1> QED BY <1>1, <1>2, <1>3, <1>4, <1>5 DEF Processes

\* However many processes share a container and whatever they ask for: neither
\* of its limits is passed, and the counts they are tested against are exact,
\* though every sum and difference in them saturates (cgroup.rs:34-74).
THEOREM LimitsHold == IsolationSpec => []LimitsAreHard
<1>1. IsolationInv /\ [IsolationNext]_isolationVars => IsolationInv'
  <2> SUFFICES ASSUME IsolationInv, [IsolationNext]_isolationVars PROVE IsolationInv'
    OBVIOUS
  <2>1. CASE \E memory_bytes \in 0 .. UsizeMax : Start(memory_bytes)
    BY <2>1, StartKeeps
  <2>2. CASE Processes
    BY <2>2, ProcessesKeep
  <2>3. CASE UNCHANGED isolationVars
    BY <2>3, StopKeeps
  <2> QED BY <2>1, <2>2, <2>3 DEF IsolationNext
<1>2. IsolationInv => LimitsAreHard
  BY DEF IsolationInv, Counted, LimitsAreHard
<1> QED BY <1>1, <1>2, InitIsolation, PTL DEF IsolationSpec
-----------------------------------------------------------------------------
(* What FlattenSeq returns: it is defined by a recursion over indices.      *)

LEMMA SameSequence ==
  ASSUME NEW S, NEW u \in Seq(S), NEW v \in Seq(S), Len(u) = Len(v),
         \A i \in 1 .. Len(v) : u[i] = v[i]
  PROVE  u = v
BY SeqEqual

FlatStep(s, f, i) == IF i = 1 THEN s[i] ELSE f[i - 1] \o s[i]
IsFlat(s, f, m) == \A i \in 1 .. m : f[i] = FlatStep(s, f, i)

\* The recursion over the first m elements has one result.
LEMMA FlatUnique ==
  ASSUME NEW s, NEW t, NEW f, NEW g, NEW m \in Nat \ {0},
         \A i \in 1 .. m : s[i] = t[i], IsFlat(s, f, m), IsFlat(t, g, m)
  PROVE  f[m] = g[m]
<1> DEFINE T == {n \in Nat : n \in 1 .. m => f[n] = g[n]}
<1>1. 0 \in T
  OBVIOUS
<1>2. ASSUME NEW n \in T PROVE n + 1 \in T
  <2> SUFFICES ASSUME n + 1 \in 1 .. m PROVE f[n + 1] = g[n + 1]
    OBVIOUS
  <2>1. f[n + 1] = FlatStep(s, f, n + 1) /\ g[n + 1] = FlatStep(t, g, n + 1) /\ s[n + 1] = t[n + 1]
    BY DEF IsFlat
  <2>2. n + 1 - 1 = n /\ (n + 1 # 1 => f[n] = g[n])
    OBVIOUS
  <2> QED BY <2>1, <2>2 DEF FlatStep
<1>3. T \in SUBSET Nat
  OBVIOUS
<1> HIDE DEF T
<1>4. m \in T
  BY <1>1, <1>2, <1>3, Inductively
<1> QED BY <1>4 DEF T

LEMMA FlatExists == \A s : \A m \in Nat : \E f : IsFlat(s, f, m)
<1> SUFFICES ASSUME NEW s PROVE \A m \in Nat : \E f : IsFlat(s, f, m)
  OBVIOUS
<1> DEFINE T == {m \in Nat : \E f : IsFlat(s, f, m)}
<1>1. 0 \in T
  BY DEF IsFlat
<1>2. ASSUME NEW m \in T PROVE m + 1 \in T
  <2>1. PICK f : IsFlat(s, f, m)
    BY <1>2
  <2> DEFINE g == [n \in 1 .. (m + 1) |-> IF n = m + 1 THEN FlatStep(s, f, m + 1) ELSE f[n]]
  <2>2. \A n \in 1 .. m : g[n] = f[n]
    OBVIOUS
  <2>3. g[m + 1] = FlatStep(s, f, m + 1)
    OBVIOUS
  <2> HIDE DEF g
  <2>4. ASSUME NEW n \in 1 .. (m + 1) PROVE g[n] = FlatStep(s, g, n)
    <3>1. n # 1 => n - 1 \in 1 .. m /\ g[n - 1] = f[n - 1]
      BY <2>2
    <3>2. FlatStep(s, g, n) = FlatStep(s, f, n)
      BY <3>1 DEF FlatStep
    <3>3. CASE n = m + 1
      BY <2>3, <3>2, <3>3
    <3>4. CASE n # m + 1
      <4>1. n \in 1 .. m
        BY <3>4
      <4> QED BY <2>1, <2>2, <3>2, <4>1 DEF IsFlat
    <3> QED BY <3>3, <3>4
  <2>5. IsFlat(s, g, m + 1)
    BY <2>4 DEF IsFlat
  <2> QED BY <2>5
<1>3. T \in SUBSET Nat
  OBVIOUS
<1> HIDE DEF T
<1>4. T = Nat
  BY <1>1, <1>2, <1>3, Inductively
<1> QED BY <1>4 DEF T

LEMMA FlattenIs ==
  ASSUME NEW s, Len(s) \in Nat \ {0}
  PROVE  \E f : IsFlat(s, f, Len(s)) /\ FlattenSeq(s) = f[Len(s)]
<1>1. PICK f : IsFlat(s, f, Len(s))
  BY FlatExists
<1> DEFINE h == [i \in 1 .. Len(s) |-> f[i]]
           Fixed(g) == g = [i \in 1 .. Len(s) |-> IF i = 1 THEN s[i] ELSE g[i - 1] \o s[i]]
<1>2. \A i \in 1 .. Len(s) : h[i] = f[i] /\ (i # 1 => i - 1 \in 1 .. Len(s) /\ h[i - 1] = f[i - 1])
  OBVIOUS
<1>3. h = [i \in 1 .. Len(s) |-> h[i]]
  OBVIOUS
<1> HIDE DEF h
<1>4. \A i \in 1 .. Len(s) : h[i] = IF i = 1 THEN s[i] ELSE h[i - 1] \o s[i]
  BY <1>1, <1>2 DEF IsFlat, FlatStep
<1>5. Fixed(h)
  BY <1>3, <1>4
<1> HIDE DEF Fixed
<1>6. Fixed(CHOOSE g : Fixed(g))
  BY <1>5
<1>7. FlattenSeq(s) = (CHOOSE g : Fixed(g))[Len(s)]
  BY DEF FlattenSeq, Fixed
<1>8. \A g : Fixed(g) => IsFlat(s, g, Len(s))
  <2> SUFFICES ASSUME NEW g, Fixed(g), NEW i \in 1 .. Len(s) PROVE g[i] = FlatStep(s, g, i)
    BY DEF IsFlat
  <2> QED BY DEF Fixed, FlatStep
<1> QED BY <1>6, <1>7, <1>8

LEMMA FlattenNothing == FlattenSeq(<<>>) = <<>>
BY DEF FlattenSeq

LEMMA FlattenAppend ==
  ASSUME NEW S, NEW s \in Seq(Seq(S)), NEW e \in Seq(S)
  PROVE  FlattenSeq(Append(s, e)) = FlattenSeq(s) \o e
<1> DEFINE t == Append(s, e)
           n == Len(s)
<1>1. /\ Len(t) = n + 1 /\ n \in Nat /\ t[n + 1] = e
      /\ \A i \in 1 .. n : s[i] = t[i]
  OBVIOUS
<1> HIDE DEF t
<1>2. PICK f : IsFlat(t, f, n + 1) /\ FlattenSeq(t) = f[n + 1]
  BY <1>1, FlattenIs
<1>3. f[n + 1] = FlatStep(t, f, n + 1)
  BY <1>1, <1>2 DEF IsFlat
<1>4. CASE n = 0
  <2>1. FlattenSeq(s) = <<>>
    BY <1>4 DEF FlattenSeq
  <2>2. FlattenSeq(t) = e
    BY <1>1, <1>2, <1>3, <1>4 DEF FlatStep
  <2> QED BY <2>1, <2>2 DEF t
<1>5. CASE n # 0
  <2>1. PICK g : IsFlat(s, g, n) /\ FlattenSeq(s) = g[n]
    BY <1>1, <1>5, FlattenIs
  <2>2. IsFlat(t, f, n)
    BY <1>2 DEF IsFlat
  <2>3. f[n] = g[n]
    <3>1. n \in Nat \ {0} /\ \A i \in 1 .. n : t[i] = s[i]
      BY <1>1, <1>5
    <3> HIDE DEF n
    <3> QED BY <3>1, <2>1, <2>2, FlatUnique
  <2>4. f[n + 1] = f[n] \o e
    BY <1>1, <1>3, <1>5 DEF FlatStep
  <2> QED BY <1>2, <2>1, <2>3, <2>4 DEF t
<1> QED BY <1>4, <1>5

\* The first elements of a sequence, and the others.
Upto(g, k) == [i \in 1 .. k |-> g[i]]
From(g, k) == [i \in 1 .. (Len(g) - k) |-> g[k + i]]
FlatUpto(g, k) == FlattenSeq(Upto(g, k))
FlatFrom(g, k) == FlattenSeq(From(g, k))

LEMMA UptoFacts ==
  ASSUME NEW S, NEW g \in Seq(Seq(S))
  PROVE  /\ FlatUpto(g, 0) = <<>> /\ Upto(g, Len(g)) = g
         /\ \A k \in 0 .. Len(g) : FlatUpto(g, k) \in Seq(S)
         /\ \A k \in 0 .. Len(g) - 1 : FlatUpto(g, k + 1) = FlatUpto(g, k) \o g[k + 1]
<1>1. Upto(g, 0) = <<>> /\ Upto(g, Len(g)) = g
  BY DEF Upto
<1>2. FlatUpto(g, 0) = <<>>
  BY <1>1, FlattenNothing DEF FlatUpto
<1>3. ASSUME NEW k \in 0 .. Len(g) - 1 PROVE FlatUpto(g, k + 1) = FlatUpto(g, k) \o g[k + 1]
  <2>1. Upto(g, k) \in Seq(Seq(S)) /\ g[k + 1] \in Seq(S)
    BY DEF Upto
  <2>2. Upto(g, k + 1) = Append(Upto(g, k), g[k + 1])
    BY DEF Upto
  <2> QED BY <2>1, <2>2, FlattenAppend DEF FlatUpto
<1> DEFINE T == {k \in Nat : k <= Len(g) => FlatUpto(g, k) \in Seq(S)}
<1>4. 0 \in T
  <2>1. <<>> \in Seq(S)
    OBVIOUS
  <2> QED BY <1>2, <2>1
<1>5. ASSUME NEW k \in T PROVE k + 1 \in T
  <2> SUFFICES ASSUME k + 1 <= Len(g) PROVE FlatUpto(g, k + 1) \in Seq(S)
    OBVIOUS
  <2>1. k \in 0 .. Len(g) - 1 /\ g[k + 1] \in Seq(S) /\ FlatUpto(g, k) \in Seq(S)
    OBVIOUS
  <2>2. FlatUpto(g, k) \o g[k + 1] \in Seq(S)
    BY <2>1, ConcatProperties
  <2> QED BY <1>3, <2>1, <2>2
<1>6. T \in SUBSET Nat
  OBVIOUS
<1> HIDE DEF T
<1>7. T = Nat
  BY <1>4, <1>5, <1>6, Inductively
<1>8. \A k \in 0 .. Len(g) : FlatUpto(g, k) \in Seq(S)
  BY <1>7 DEF T
<1> QED BY <1>1, <1>2, <1>3, <1>8

\* FlattenSeq from the other end.
LEMMA FlattenFirst ==
  ASSUME NEW S, NEW g \in Seq(Seq(S)), NEW k \in 1 .. Len(g)
  PROVE  FlatUpto(g, k) = g[1] \o FlatUpto(Tail(g), k - 1)
<1> DEFINE t == Tail(g)
<1>1. t \in Seq(Seq(S)) /\ Len(t) = Len(g) - 1 /\ \A i \in 1 .. Len(t) : t[i] = g[i + 1]
  OBVIOUS
<1> HIDE DEF t
<1> DEFINE T == {n \in Nat : n + 1 <= Len(g) => FlatUpto(g, n + 1) = g[1] \o FlatUpto(t, n)}
<1>2. 0 \in T
  <2>1. g[1] \in Seq(S) /\ 0 \in 0 .. Len(g) - 1
    OBVIOUS
  <2>2. FlatUpto(g, 1) = FlatUpto(g, 0) \o g[1] /\ FlatUpto(g, 0) = <<>>
    BY <2>1, UptoFacts
  <2>3. FlatUpto(t, 0) = <<>>
    BY <1>1, UptoFacts
  <2>4. <<>> \o g[1] = g[1] /\ g[1] \o <<>> = g[1]
    BY <2>1, ConcatEmptySeq
  <2> QED BY <2>2, <2>3, <2>4
<1>3. ASSUME NEW n \in T PROVE n + 1 \in T
  <2>0. n \in Nat /\ n + 1 \in Nat /\ Len(g) \in Nat /\ (n + 1) + 1 = n + 2
        /\ (n + 1 <= Len(g) => FlatUpto(g, n + 1) = g[1] \o FlatUpto(t, n))
    BY <1>3
  <2> SUFFICES ASSUME n + 2 <= Len(g) PROVE FlatUpto(g, n + 2) = g[1] \o FlatUpto(t, n + 1)
    BY <2>0
  <2> HIDE DEF T
  <2>1. n + 1 \in 0 .. Len(g) - 1 /\ n \in 0 .. Len(t) - 1 /\ n \in 0 .. Len(t)
        /\ n + 1 + 1 = n + 2 /\ t[n + 1] = g[n + 2]
    <3>1. Len(t) = Len(g) - 1
      BY <1>1
    <3>2. n + 1 \in 0 .. Len(g) - 1 /\ n \in 0 .. Len(t) - 1 /\ n \in 0 .. Len(t)
          /\ n + 1 + 1 = n + 2 /\ n + 1 \in 1 .. Len(t)
      BY ONLY <2>0, n + 2 <= Len(g), <3>1
    <3>3. t[n + 1] = g[n + 1 + 1]
      BY <1>1, <3>2
    <3> QED BY <3>2, <3>3
  <2>2. FlatUpto(g, n + 2) = FlatUpto(g, n + 1) \o g[n + 2]
    BY <2>1, UptoFacts
  <2>3. FlatUpto(t, n + 1) = FlatUpto(t, n) \o g[n + 2] /\ FlatUpto(t, n) \in Seq(S)
    BY <1>1, <2>1, UptoFacts
  <2>4. FlatUpto(g, n + 1) = g[1] \o FlatUpto(t, n)
    BY <2>0
  <2>5. g[1] \in Seq(S) /\ g[n + 2] \in Seq(S)
    BY <2>0
  <2>6. (g[1] \o FlatUpto(t, n)) \o g[n + 2] = g[1] \o (FlatUpto(t, n) \o g[n + 2])
    <3> DEFINE a == g[1]
               b == FlatUpto(t, n)
               c == g[n + 2]
    <3>1. a \in Seq(S) /\ b \in Seq(S) /\ c \in Seq(S)
      BY <2>3, <2>5
    <3> HIDE DEF a, b, c
    <3>2. (a \o b) \o c = a \o (b \o c)
      BY ONLY <3>1, ConcatAssociative, SMTT(30)
    <3> QED BY <3>2 DEF a, b, c
  <2> QED BY <2>2, <2>3, <2>4, <2>6
<1>4. T \in SUBSET Nat
  OBVIOUS
<1> HIDE DEF T
<1>5. T = Nat
  BY <1>2, <1>3, <1>4, Inductively
<1>6. k - 1 \in Nat /\ k - 1 + 1 = k /\ k <= Len(g)
  OBVIOUS
<1>7. k - 1 \in T
  BY <1>5, <1>6
<1> QED BY <1>6, <1>7 DEF T, t

LEMMA FromFacts ==
  ASSUME NEW S, NEW g \in Seq(Seq(S))
  PROVE  /\ FlatFrom(g, 0) = FlattenSeq(g) /\ FlatFrom(g, 0) \in Seq(S)
         /\ FlatFrom(g, Len(g)) = <<>>
         /\ \A k \in 0 .. Len(g) : FlatFrom(g, k) \in Seq(S)
         /\ \A k \in 0 .. Len(g) - 1 : FlatFrom(g, k) = g[k + 1] \o FlatFrom(g, k + 1)
<1>1. From(g, 0) = g /\ From(g, Len(g)) = <<>>
  BY DEF From
<1>2. FlatFrom(g, Len(g)) = <<>>
  BY <1>1, FlattenNothing DEF FlatFrom
<1>3. ASSUME NEW k \in 0 .. Len(g) PROVE
        From(g, k) \in Seq(Seq(S)) /\ Len(From(g, k)) = Len(g) - k
        /\ Len(g) - k \in Nat /\ Upto(From(g, k), Len(g) - k) = From(g, k)
  BY DEF From, Upto
<1>4. ASSUME NEW k \in 0 .. Len(g) PROVE FlatFrom(g, k) \in Seq(S)
  BY <1>3, UptoFacts DEF FlatFrom, FlatUpto
<1>5. ASSUME NEW k \in 0 .. Len(g) - 1 PROVE FlatFrom(g, k) = g[k + 1] \o FlatFrom(g, k + 1)
  <2> DEFINE s == From(g, k)
  <2>0. k \in 0 .. Len(g) /\ k + 1 \in 0 .. Len(g) /\ Len(g) \in Nat
    OBVIOUS
  <2>1. s \in Seq(Seq(S)) /\ Len(s) = Len(g) - k /\ Upto(s, Len(s)) = s
    BY <1>3, <2>0
  <2>2. s[1] = g[k + 1] /\ \A i \in 1 .. (Len(g) - k) : s[i] = g[k + i]
    BY <2>0 DEF From
  <2>3. Tail(s) \in Seq(Seq(S)) /\ Len(Tail(s)) = Len(g) - (k + 1)
        /\ \A i \in 1 .. (Len(g) - (k + 1)) : Tail(s)[i] = g[k + 1 + i]
    <3> HIDE DEF s
    <3>1. s # <<>> /\ Len(Tail(s)) = Len(s) - 1 /\ Tail(s) \in Seq(Seq(S))
          /\ \A i \in 1 .. (Len(s) - 1) : Tail(s)[i] = s[i + 1]
      BY <2>0, <2>1
    <3>2. \A i \in 1 .. (Len(g) - (k + 1)) : i + 1 \in 1 .. (Len(g) - k) /\ k + (i + 1) = k + 1 + i
      BY <2>0
    <3> QED BY <2>0, <2>1, <2>2, <3>1, <3>2
  <2>4. Tail(s) = From(g, k + 1)
    <3> DEFINE u == Tail(s)
               v == From(g, k + 1)
    <3>1. v \in Seq(Seq(S)) /\ Len(v) = Len(g) - (k + 1)
      BY <1>3, <2>0
    <3>2. \A i \in 1 .. (Len(g) - (k + 1)) : v[i] = g[k + 1 + i]
      BY DEF From
    <3> HIDE DEF v
    <3>3. u \in Seq(Seq(S)) /\ Len(u) = Len(v) /\ \A i \in 1 .. Len(v) : u[i] = v[i]
      BY <2>3, <3>1, <3>2
    <3> HIDE DEF u
    <3>4. u = v
      BY <3>1, <3>3, SameSequence
    <3> QED BY <3>4 DEF u, v
  <2> HIDE DEF s
  <2>5. FlatUpto(s, Len(s)) = s[1] \o FlatUpto(Tail(s), Len(s) - 1)
    <3>1. Len(s) \in 1 .. Len(s)
      BY <2>0, <2>1
    <3> QED BY <2>1, <3>1, FlattenFirst
  <2>6. Upto(Tail(s), Len(s) - 1) = Tail(s)
    <3>1. Len(s) - 1 = Len(g) - (k + 1)
      BY <2>0, <2>1
    <3> QED BY <1>3, <2>0, <2>4, <3>1
  <2> QED BY <2>1, <2>2, <2>4, <2>5, <2>6 DEF FlatUpto, FlatFrom, s
<1>6. FlatFrom(g, 0) = FlattenSeq(g)
  BY <1>1 DEF FlatFrom
<1>7. 0 \in 0 .. Len(g)
  OBVIOUS
<1> QED BY <1>2, <1>4, <1>5, <1>6, <1>7
-----------------------------------------------------------------------------
(* The lines of a document that follow a place in it.                       *)

Vals == Nat \cup {None} \cup STRING \cup {"ignored"} \cup Policies \cup Sizes
Keys == {"other", "containers", "image_item", "ports", "host_item", "container", "restart",
         "resources", "memory", "cpu_shares", "pids_max", "unknown"}
AllLines == [indent : Nat, key : Keys, val : Vals]

Count == Len(doc.containers)
Secs(k) == doc.containers[k].sections
Key(k, j) == Secs(k)[j].key

TailLines == IF doc.tail THEN <<Line(0, "other", None)>> ELSE <<>>

PortTexts(s) == [m \in DOMAIN s.ports |-> PortLines(s.ports[m], s.at)]
SectionTexts(k) == [j \in DOMAIN Secs(k) |-> SectionLines(Secs(k)[j])]
ContainerTexts == [k \in DOMAIN doc.containers |-> ContainerLines(doc.containers[k])]

\* What follows container k; its section j; mapping m of a section.
ContainersFrom(k) == FlatFrom(ContainerTexts, k) \o TailLines
SectionsFrom(k, j) == FlatFrom(SectionTexts(k), j) \o ContainersFrom(k)
PortsFrom(k, j, m) == FlatFrom(PortTexts(Secs(k)[j]), m) \o SectionsFrom(k, j)

LEMMA ConsFacts ==
  ASSUME NEW S, NEW x \in S, NEW r \in Seq(S)
  PROVE  /\ Cons(x, r) \in Seq(S) /\ Cons(x, r) # <<>>
         /\ Head(Cons(x, r)) = x /\ Tail(Cons(x, r)) = r
         /\ Len(Cons(x, r)) = Len(r) + 1 /\ Cons(x, r)[1] = x
         /\ \A i \in 1 .. Len(r) : Cons(x, r)[i + 1] = r[i]
<1> DEFINE c == Cons(x, r)
<1>1. c \in Seq(S) /\ Len(c) = Len(r) + 1 /\ c[1] = x /\ \A i \in 1 .. Len(r) : c[i + 1] = r[i]
  BY DEF Cons
<1> HIDE DEF c
<1>2. c # <<>> /\ Head(c) = x
  BY <1>1
<1>3. Tail(c) \in Seq(S) /\ Len(Tail(c)) = Len(r) /\ \A i \in 1 .. Len(r) : Tail(c)[i] = r[i]
  BY <1>1, <1>2
<1>4. Tail(c) = r
  BY <1>3, SameSequence
<1> QED BY <1>1, <1>2, <1>4 DEF c

LEMMA ConsTwo ==
  ASSUME NEW S, NEW x \in S, NEW y \in S, NEW t \in Seq(S)
  PROVE  <<x, y>> \o t = Cons(x, Cons(y, t))
<1> DEFINE l == <<x, y>> \o t
           c == Cons(y, t)
           d == Cons(x, c)
<1>1. l \in Seq(S) /\ Len(l) = Len(t) + 2 /\ l[1] = x /\ l[2] = y
      /\ \A i \in 1 .. Len(t) : l[i + 2] = t[i]
  OBVIOUS
<1>2. c \in Seq(S) /\ Len(c) = Len(t) + 1 /\ c[1] = y /\ \A i \in 1 .. Len(t) : c[i + 1] = t[i]
  BY ConsFacts
<1> HIDE DEF l, c
<1>3. d \in Seq(S) /\ Len(d) = Len(c) + 1 /\ d[1] = x /\ \A i \in 1 .. Len(c) : d[i + 1] = c[i]
  BY <1>2 DEF Cons
<1> HIDE DEF d
<1>4. ASSUME NEW i \in 1 .. Len(d) PROVE l[i] = d[i]
  <2>1. CASE i = 1
    BY <1>1, <1>3, <2>1
  <2>2. CASE i = 2
    <3>1. 1 \in 1 .. Len(c) /\ 1 + 1 = 2
      BY <1>2
    <3> QED BY <1>1, <1>2, <1>3, <2>2, <3>1
  <2>3. CASE i > 2
    <3>1. i - 2 \in 1 .. Len(t) /\ i - 1 \in 1 .. Len(c) /\ (i - 2) + 2 = i /\ (i - 1) + 1 = i
          /\ (i - 2) + 1 = i - 1
      BY <1>2, <1>3, <2>3
    <3> QED BY <1>1, <1>2, <1>3, <3>1
  <2> QED BY <1>2, <1>3, <2>1, <2>2, <2>3
<1>5. l = d
  BY <1>1, <1>2, <1>3, <1>4, SameSequence
<1> QED BY <1>5 DEF l, c, d

LEMMA ConsFront ==
  ASSUME NEW S, NEW x \in S, NEW r \in Seq(S), NEW t \in Seq(S)
  PROVE  (<<x>> \o r) \o t = Cons(x, r \o t)
<1> DEFINE u == <<x>>
<1>1. u \in Seq(S)
  OBVIOUS
<1> HIDE DEF u
<1>2. (u \o r) \o t = u \o (r \o t)
  BY <1>1, ConcatAssociative
<1> QED BY <1>2 DEF Cons, u

LEMMA ConsThree ==
  ASSUME NEW S, NEW x \in S, NEW y \in S, NEW z \in S, NEW t \in Seq(S)
  PROVE  <<x, y, z>> \o t = Cons(x, Cons(y, Cons(z, t)))
<1> DEFINE u == <<x>>
           v == <<y, z>>
<1>1. u \in Seq(S) /\ v \in Seq(S) /\ <<x, y, z>> = u \o v
  OBVIOUS
<1>2. u \o (v \o t) = Cons(x, v \o t)
  BY DEF Cons
<1>3. v \o t = Cons(y, Cons(z, t))
  BY ConsTwo
<1> HIDE DEF u, v
<1>4. (u \o v) \o t = u \o (v \o t)
  <2>1. u \in Seq(S) /\ v \in Seq(S) /\ t \in Seq(S)
    BY <1>1
  <2> QED BY ONLY <2>1, ConcatAssociative
<1> QED BY <1>1, <1>2, <1>3, <1>4

\* Documents are what ParserAssumption says.
LEMMA DocFacts ==
  ASSUME doc \in Docs
  PROVE  /\ doc.containers \in Seq([image : STRING, sections : Seq(Sections)])
         /\ Count \in Nat /\ DOMAIN doc.containers = 1 .. Count /\ doc.tail \in BOOLEAN
         /\ \A k \in 1 .. Count :
              /\ doc.containers[k].image \in STRING /\ Secs(k) \in Seq(Sections)
              /\ Len(Secs(k)) \in Nat /\ DOMAIN Secs(k) = 1 .. Len(Secs(k))
              /\ \A j \in 1 .. Len(Secs(k)) : Secs(k)[j] \in Sections
              /\ \A i, j \in 1 .. Len(Secs(k)) :
                   Key(k, i) = Key(k, j) /\ Key(k, i) \in {"restart", "resources"} => i = j
<1>1. doc \in [containers : Seq([image : STRING, sections : Seq(Sections)]), tail : BOOLEAN]
  BY ParserAssumption
<1>2. /\ doc.containers \in Seq([image : STRING, sections : Seq(Sections)])
      /\ Count \in Nat /\ DOMAIN doc.containers = 1 .. Count /\ doc.tail \in BOOLEAN
  BY <1>1 DEF Count
<1>3. ASSUME NEW k \in 1 .. Count
      PROVE  doc.containers[k].image \in STRING /\ Secs(k) \in Seq(Sections)
  <2> DEFINE R == [image : STRING, sections : Seq(Sections)]
             s == doc.containers
  <2>2. s \in Seq(R) /\ k \in 1 .. Len(s)
    BY <1>2 DEF Count
  <2> HIDE DEF R, s
  <2>3. s[k] \in R
    BY <2>2
  <2>1. doc.containers[k] \in [image : STRING, sections : Seq(Sections)]
    BY <2>3 DEF R, s
  <2> QED BY <2>1 DEF Secs
<1>4. ASSUME NEW k \in 1 .. Count
      PROVE  /\ Len(Secs(k)) \in Nat /\ DOMAIN Secs(k) = 1 .. Len(Secs(k))
             /\ \A j \in 1 .. Len(Secs(k)) : Secs(k)[j] \in Sections
  <2>1. Secs(k) \in Seq(Sections)
    BY <1>3
  <2> QED BY <2>1
<1>5. ASSUME NEW k \in 1 .. Count, NEW i \in 1 .. Len(Secs(k)), NEW j \in 1 .. Len(Secs(k)),
             Key(k, i) = Key(k, j), Key(k, i) \in {"restart", "resources"}
      PROVE  i = j
  <2>1. k \in DOMAIN doc.containers /\ i \in DOMAIN Secs(k) /\ j \in DOMAIN Secs(k)
    BY <1>2, <1>4
  <2> QED BY <1>5, <2>1, ParserAssumption DEF Secs, Key
<1> QED BY <1>2, <1>3, <1>4, <1>5

LEMMA SectionKinds ==
  ASSUME NEW s \in Sections
  PROVE  /\ s.key \in {"ports", "restart", "resources", "unknown"}
         /\ s.key = "ports" => s.ports \in Seq(Mappings) /\ s.at \in {4, 6}
         /\ s.key = "restart" => s.val \in Policies
         /\ s.key = "resources" => s.memory \in Sizes \cup {None} /\ s.pids \in Nat \cup {None}
BY DEF Sections

LEMMA LineTypes ==
  /\ \A n \in Nat : \A key \in Keys : \A val \in Vals : Line(n, key, val) \in AllLines
  /\ None \in Vals /\ Ports \subseteq Vals /\ STRING \subseteq Vals /\ Policies \subseteq Vals
  /\ Sizes \cup {None} \subseteq Vals /\ Nat \cup {None} \subseteq Vals
<1>2. \A n \in Nat : \A key \in Keys : \A val \in Vals : Line(n, key, val) \in AllLines
  BY DEF Line, AllLines
<1> QED BY <1>2 DEF Vals, Ports

LEMMA PortTextTypes ==
  ASSUME NEW s \in Sections, s.key = "ports"
  PROVE  PortTexts(s) \in Seq(Seq(AllLines)) /\ Len(PortTexts(s)) = Len(s.ports)
<1>1. s.ports \in Seq(Mappings) /\ s.at \in {4, 6}
  BY SectionKinds
<1>2. ASSUME NEW m \in DOMAIN s.ports PROVE PortLines(s.ports[m], s.at) \in Seq(AllLines)
  <2>1. s.ports[m] \in Mappings
    BY <1>1
  <2>2. s.ports[m][1] \in Vals /\ s.ports[m][2] \in Vals
    BY <2>1 DEF Mappings, Ports, Vals
  <2>3. s.at \in Nat /\ s.at + 2 \in Nat /\ "host_item" \in Keys /\ "container" \in Keys
    BY <1>1 DEF Keys
  <2>4. Line(s.at, "host_item", s.ports[m][1]) \in AllLines
        /\ Line(s.at + 2, "container", s.ports[m][2]) \in AllLines
    BY <2>2, <2>3, LineTypes
  <2> DEFINE a == Line(s.at, "host_item", s.ports[m][1])
             b == Line(s.at + 2, "container", s.ports[m][2])
  <2>5. PortLines(s.ports[m], s.at) = <<a, b>>
    BY DEF PortLines
  <2> HIDE DEF a, b
  <2>6. a \in AllLines /\ b \in AllLines
    BY <2>4 DEF a, b
  <2> QED BY <2>5, <2>6
<1> QED BY <1>1, <1>2 DEF PortTexts

LEMMA SectionLinesType ==
  ASSUME NEW s \in Sections
  PROVE  SectionLines(s) \in Seq(AllLines)
<1>1. CASE s.key = "ports"
  <2>1. FlattenSeq(PortTexts(s)) \in Seq(AllLines)
    BY <1>1, PortTextTypes, UptoFacts DEF FlatUpto
  <2>2. Line(4, "ports", None) \in AllLines
    BY LineTypes DEF Keys
  <2>3. SectionLines(s) = <<Line(4, "ports", None)>> \o FlattenSeq(PortTexts(s))
    BY <1>1 DEF SectionLines, PortTexts
  <2>4. <<Line(4, "ports", None)>> \in Seq(AllLines)
    BY <2>2
  <2> QED BY <2>1, <2>3, <2>4, ConcatProperties
<1>2. CASE s.key = "restart"
  <2>1. Line(4, "restart", s.val) \in AllLines
    BY <1>2, SectionKinds, LineTypes DEF Keys
  <2>2. SectionLines(s) = <<Line(4, "restart", s.val)>>
    BY <1>2 DEF SectionLines
  <2> QED BY <2>1, <2>2
<1>3. CASE s.key = "resources"
  <2>1. /\ Line(4, "resources", None) \in AllLines /\ Line(6, "memory", s.memory) \in AllLines
        /\ Line(6, "cpu_shares", None) \in AllLines /\ Line(6, "pids_max", s.pids) \in AllLines
    BY <1>3, SectionKinds, LineTypes DEF Keys
  <2>2. SectionLines(s) = <<Line(4, "resources", None), Line(6, "memory", s.memory),
                            Line(6, "cpu_shares", None), Line(6, "pids_max", s.pids)>>
    BY <1>3 DEF SectionLines
  <2> QED BY <2>1, <2>2
<1>4. CASE s.key = "unknown"
  <2>1. Line(4, "unknown", None) \in AllLines
    BY LineTypes DEF Keys
  <2>2. SectionLines(s) = <<Line(4, "unknown", None)>>
    BY <1>4 DEF SectionLines
  <2> QED BY <2>1, <2>2
<1> QED BY <1>1, <1>2, <1>3, <1>4, SectionKinds

LEMMA SectionTextTypes ==
  ASSUME doc \in Docs, NEW k \in 1 .. Count
  PROVE  SectionTexts(k) \in Seq(Seq(AllLines)) /\ Len(SectionTexts(k)) = Len(Secs(k))
<1> DEFINE s == Secs(k)
<1>1. Len(s) \in Nat /\ DOMAIN s = 1 .. Len(s) /\ \A j \in 1 .. Len(s) : s[j] \in Sections
  BY DocFacts
<1>2. SectionTexts(k) = [j \in DOMAIN s |-> SectionLines(s[j])]
  BY DEF SectionTexts
<1> HIDE DEF s
<1>3. \A j \in 1 .. Len(s) : SectionLines(s[j]) \in Seq(AllLines)
  BY <1>1, SectionLinesType
<1> QED BY <1>1, <1>2, <1>3 DEF s

LEMMA ContainerLinesAre ==
  ASSUME doc \in Docs, NEW k \in 1 .. Count
  PROVE  /\ ContainerLines(doc.containers[k])
              = <<Line(2, "image_item", doc.containers[k].image)>> \o FlatFrom(SectionTexts(k), 0)
         /\ FlatFrom(SectionTexts(k), 0) \in Seq(AllLines)
         /\ Line(2, "image_item", doc.containers[k].image) \in AllLines
         /\ ContainerLines(doc.containers[k]) \in Seq(AllLines)
<1> DEFINE g == SectionTexts(k)
           l == Line(2, "image_item", doc.containers[k].image)
<1>1. ContainerLines(doc.containers[k]) = <<l>> \o FlattenSeq(g)
  BY DEF ContainerLines, SectionTexts, Secs
<1>2. g \in Seq(Seq(AllLines))
  BY SectionTextTypes
<1>3. l \in AllLines
  <2>1. doc.containers[k].image \in Vals
    BY DocFacts DEF Vals
  <2> QED BY <2>1, LineTypes DEF Keys
<1> HIDE DEF g, l
<1>4. FlatFrom(g, 0) = FlattenSeq(g) /\ FlatFrom(g, 0) \in Seq(AllLines)
  BY <1>2, FromFacts
<1>5. <<l>> \in Seq(AllLines)
  BY <1>3
<1> DEFINE u == <<l>>
<1> HIDE DEF u
<1>6. u \o FlatFrom(g, 0) \in Seq(AllLines)
  BY <1>4, <1>5, ConcatProperties DEF u
<1> QED BY <1>1, <1>3, <1>4, <1>6 DEF g, l, u

LEMMA ContainerTextTypes ==
  ASSUME doc \in Docs
  PROVE  /\ ContainerTexts \in Seq(Seq(AllLines)) /\ Len(ContainerTexts) = Count
         /\ \A k \in 1 .. Count : ContainerTexts[k] = ContainerLines(doc.containers[k])
         /\ TailLines \in Seq(AllLines)
<1>1. Count \in Nat /\ DOMAIN doc.containers = 1 .. Count
  BY DocFacts
<1>2. \A k \in 1 .. Count : ContainerLines(doc.containers[k]) \in Seq(AllLines)
  BY ContainerLinesAre
<1>3. ContainerTexts = [k \in 1 .. Count |-> ContainerLines(doc.containers[k])]
  BY <1>1 DEF ContainerTexts
<1>4. Line(0, "other", None) \in AllLines
  BY LineTypes DEF Keys
<1>5. TailLines \in Seq(AllLines)
  BY <1>4 DEF TailLines
<1> QED BY <1>1, <1>2, <1>3, <1>5

\* Container by container, section by section and mapping by mapping.
LEMMA FromContainer ==
  ASSUME doc \in Docs
  PROVE  /\ \A k \in 0 .. Count : ContainersFrom(k) \in Seq(AllLines)
         /\ ContainersFrom(Count) = TailLines
         /\ \A k \in 1 .. Count :
              /\ ContainersFrom(k - 1)
                   = Cons(Line(2, "image_item", doc.containers[k].image), SectionsFrom(k, 0))
              /\ Line(2, "image_item", doc.containers[k].image) \in AllLines
<1> DEFINE g == ContainerTexts
<1>1. /\ g \in Seq(Seq(AllLines)) /\ Len(g) = Count /\ Count \in Nat
      /\ \A k \in 1 .. Count : g[k] = ContainerLines(doc.containers[k])
      /\ TailLines \in Seq(AllLines)
  BY ContainerTextTypes, DocFacts
<1>2. \A k : ContainersFrom(k) = FlatFrom(g, k) \o TailLines
  BY DEF ContainersFrom
<1> HIDE DEF g
<1>3. ASSUME NEW k \in 0 .. Count
      PROVE  FlatFrom(g, k) \in Seq(AllLines) /\ ContainersFrom(k) \in Seq(AllLines)
  <2>1. FlatFrom(g, k) \in Seq(AllLines)
    BY <1>1, FromFacts
  <2> QED BY <1>1, <1>2, <2>1, ConcatProperties
<1>4. ContainersFrom(Count) = TailLines
  <2>1. FlatFrom(g, Count) = <<>>
    BY <1>1, FromFacts
  <2> QED BY <1>1, <1>2, <2>1, ConcatEmptySeq
<1>5. ASSUME NEW k \in 1 .. Count
      PROVE  /\ ContainersFrom(k - 1)
                  = Cons(Line(2, "image_item", doc.containers[k].image), SectionsFrom(k, 0))
             /\ Line(2, "image_item", doc.containers[k].image) \in AllLines
  <2> DEFINE l == Line(2, "image_item", doc.containers[k].image)
             b == FlatFrom(SectionTexts(k), 0)
             f == FlatFrom(g, k)
             u == <<l>>
  <2>0. g[k] = u \o b /\ b \in Seq(AllLines) /\ l \in AllLines
    BY <1>1, ContainerLinesAre
  <2>1. g[k] = u \o b /\ b \in Seq(AllLines) /\ l \in AllLines /\ u \in Seq(AllLines)
    <3> HIDE DEF l, b
    <3> QED BY <2>0
  <2>2. k - 1 \in 0 .. Len(g) - 1 /\ k - 1 + 1 = k /\ k \in 0 .. Count /\ k - 1 \in 0 .. Count
    BY <1>1
  <2>3. FlatFrom(g, k - 1) = g[k] \o f
    BY <1>1, <2>2, FromFacts
  <2>4. f \in Seq(AllLines)
    BY <1>3, <2>2
  <2>5. SectionsFrom(k, 0) = b \o ContainersFrom(k) /\ ContainersFrom(k) = f \o TailLines
        /\ ContainersFrom(k - 1) = FlatFrom(g, k - 1) \o TailLines
    BY <1>2 DEF SectionsFrom
  <2> DEFINE w == f \o TailLines
  <2>8. w \in Seq(AllLines)
    BY <1>1, <2>4, ConcatProperties
  <2> HIDE DEF b, f, w
  <2>6. Cons(l, b \o w) = u \o (b \o w)
    BY DEF Cons
  <2> HIDE DEF l, u
  <2>7. ((u \o b) \o f) \o TailLines = u \o (b \o w)
    <3>1. u \o b \in Seq(AllLines)
      BY <2>1, ConcatProperties
    <3> DEFINE v == u \o b
    <3> HIDE DEF v
    <3>4. v \in Seq(AllLines) /\ f \in Seq(AllLines) /\ TailLines \in Seq(AllLines)
      BY <1>1, <2>4, <3>1 DEF v
    <3>2. (v \o f) \o TailLines = v \o (f \o TailLines)
      BY ONLY <3>4, ConcatAssociative, SMTT(30)
    <3>3. (u \o b) \o w = u \o (b \o w)
      BY <2>1, <2>8, ConcatAssociative, SMTT(30)
    <3> QED BY <3>2, <3>3 DEF v, w
  <2> QED BY <2>1, <2>3, <2>5, <2>6, <2>7 DEF l, w
<1> QED BY <1>3, <1>4, <1>5

LEMMA FromSection ==
  ASSUME doc \in Docs, NEW k \in 1 .. Count
  PROVE  /\ \A j \in 0 .. Len(Secs(k)) : SectionsFrom(k, j) \in Seq(AllLines)
         /\ SectionsFrom(k, Len(Secs(k))) = ContainersFrom(k)
         /\ \A j \in 1 .. Len(Secs(k)) :
              SectionsFrom(k, j - 1) = SectionLines(Secs(k)[j]) \o SectionsFrom(k, j)
<1> DEFINE g == SectionTexts(k)
           c == ContainersFrom(k)
           n == Len(Secs(k))
<1>1. /\ g \in Seq(Seq(AllLines)) /\ Len(g) = n /\ n \in Nat
      /\ \A j \in 1 .. n : g[j] = SectionLines(Secs(k)[j])
      /\ c \in Seq(AllLines)
  <2>1. k \in 0 .. Count
    BY DocFacts
  <2> QED BY <2>1, SectionTextTypes, DocFacts, FromContainer DEF SectionTexts
<1>2. \A j : SectionsFrom(k, j) = FlatFrom(g, j) \o c
  BY DEF SectionsFrom
<1> HIDE DEF g, c, n
<1>3. ASSUME NEW j \in 0 .. n
      PROVE  FlatFrom(g, j) \in Seq(AllLines) /\ SectionsFrom(k, j) \in Seq(AllLines)
  <2>1. FlatFrom(g, j) \in Seq(AllLines)
    BY <1>1, FromFacts
  <2> QED BY <1>1, <1>2, <2>1, ConcatProperties
<1>4. SectionsFrom(k, n) = c
  <2>1. FlatFrom(g, n) = <<>>
    BY <1>1, FromFacts
  <2> QED BY <1>1, <1>2, <2>1, ConcatEmptySeq
<1>5. ASSUME NEW j \in 1 .. n
      PROVE  SectionsFrom(k, j - 1) = SectionLines(Secs(k)[j]) \o SectionsFrom(k, j)
  <2> DEFINE a == g[j]
             f == FlatFrom(g, j)
  <2>1. j - 1 \in 0 .. Len(g) - 1 /\ j - 1 + 1 = j /\ j \in 0 .. n
    BY <1>1
  <2>2. FlatFrom(g, j - 1) = a \o f
    BY <1>1, <2>1, FromFacts
  <2>3. f \in Seq(AllLines) /\ a \in Seq(AllLines) /\ a = SectionLines(Secs(k)[j])
    BY <1>1, <1>3, <2>1
  <2> HIDE DEF a, f
  <2>5. a \in Seq(AllLines) /\ f \in Seq(AllLines) /\ c \in Seq(AllLines)
    BY <1>1, <2>3
  <2>4. (a \o f) \o c = a \o (f \o c)
    BY ONLY <2>5, ConcatAssociative
  <2> QED BY <1>2, <2>2, <2>3, <2>4 DEF f
<1> QED BY <1>3, <1>4, <1>5 DEF c, n

\* What is read next at each place.
LEMMA FromPorts ==
  ASSUME doc \in Docs, NEW k \in 1 .. Count, NEW j \in 1 .. Len(Secs(k)), Key(k, j) = "ports"
  PROVE  LET s == Secs(k)[j] IN
         /\ s.ports \in Seq(Mappings) /\ s.at \in {4, 6}
         /\ \A m \in 0 .. Len(s.ports) : PortsFrom(k, j, m) \in Seq(AllLines)
         /\ SectionsFrom(k, j - 1) = Cons(Line(4, "ports", None), PortsFrom(k, j, 0))
         /\ PortsFrom(k, j, Len(s.ports)) = SectionsFrom(k, j)
         /\ \A m \in 1 .. Len(s.ports) :
              /\ Line(s.at, "host_item", s.ports[m][1]) \in AllLines
              /\ Line(s.at + 2, "container", s.ports[m][2]) \in AllLines
              /\ PortsFrom(k, j, m - 1)
                  = Cons(Line(s.at, "host_item", s.ports[m][1]),
                      Cons(Line(s.at + 2, "container", s.ports[m][2]), PortsFrom(k, j, m)))
<1> DEFINE s == Secs(k)[j]
           g == PortTexts(s)
           c == SectionsFrom(k, j)
           n == Len(s.ports)
<1>0. s \in Sections /\ s.key = "ports" /\ j \in 0 .. Len(Secs(k))
  <2>1. Len(Secs(k)) \in Nat /\ s \in Sections
    BY DocFacts
  <2>2. s.key = "ports"
    BY DEF Key
  <2> QED BY <2>1, <2>2
<1>1. /\ g \in Seq(Seq(AllLines)) /\ Len(g) = n /\ n \in Nat
      /\ \A m \in 1 .. n : g[m] = PortLines(s.ports[m], s.at)
      /\ c \in Seq(AllLines) /\ s.ports \in Seq(Mappings) /\ s.at \in {4, 6}
  <2>1. s.ports \in Seq(Mappings) /\ s.at \in {4, 6}
    BY <1>0, SectionKinds
  <2>2. n \in Nat /\ DOMAIN s.ports = 1 .. n
    BY <2>1
  <2>3. g \in Seq(Seq(AllLines)) /\ Len(g) = n
    BY <1>0, PortTextTypes
  <2>4. \A m \in 1 .. n : g[m] = PortLines(s.ports[m], s.at)
    BY <2>2 DEF PortTexts
  <2>5. c \in Seq(AllLines)
    BY <1>0, FromSection
  <2> QED BY <2>1, <2>2, <2>3, <2>4, <2>5
<1>2. \A m : PortsFrom(k, j, m) = FlatFrom(g, m) \o c
  BY DEF PortsFrom
<1>3. SectionLines(s) = <<Line(4, "ports", None)>> \o FlattenSeq(g)
  BY <1>0 DEF SectionLines, PortTexts
<1>4. SectionsFrom(k, j - 1) = SectionLines(s) \o c
  BY FromSection
<1>9. ASSUME NEW m \in 1 .. n
      PROVE /\ Line(s.at, "host_item", s.ports[m][1]) \in AllLines
            /\ Line(s.at + 2, "container", s.ports[m][2]) \in AllLines
            /\ g[m] = <<Line(s.at, "host_item", s.ports[m][1]), Line(s.at + 2, "container", s.ports[m][2])>>
  <2>1. s.ports[m] \in Mappings
    BY <1>1
  <2>2. s.ports[m][1] \in Vals /\ s.ports[m][2] \in Vals
    BY <2>1 DEF Mappings, Ports, Vals
  <2>3. s.at \in Nat /\ s.at + 2 \in Nat /\ "host_item" \in Keys /\ "container" \in Keys
    BY <1>1, SMTT(30) DEF Keys
  <2> HIDE DEF s, g
  <2> QED BY <1>1, <2>2, <2>3, LineTypes DEF PortLines
<1> HIDE DEF s, g, c, n
<1>5. ASSUME NEW m \in 0 .. n
      PROVE  FlatFrom(g, m) \in Seq(AllLines) /\ PortsFrom(k, j, m) \in Seq(AllLines)
  <2>0. m \in 0 .. Len(g) /\ g \in Seq(Seq(AllLines)) /\ c \in Seq(AllLines)
    BY <1>1
  <2>1. FlatFrom(g, m) \in Seq(AllLines)
    BY <2>0, FromFacts
  <2> DEFINE f == FlatFrom(g, m)
  <2> HIDE DEF f
  <2>2. f \o c \in Seq(AllLines)
    BY ONLY <2>0, <2>1, ConcatProperties DEF f
  <2> QED BY <1>2, <2>1, <2>2 DEF f
<1>6. PortsFrom(k, j, n) = c
  <2>1. FlatFrom(g, n) = <<>>
    BY <1>1, FromFacts
  <2> QED BY <1>1, <1>2, <2>1, ConcatEmptySeq
<1>7. SectionsFrom(k, j - 1) = Cons(Line(4, "ports", None), PortsFrom(k, j, 0))
  <2> DEFINE l == Line(4, "ports", None)
             f == FlatFrom(g, 0)
  <2>1. f = FlattenSeq(g) /\ f \in Seq(AllLines)
    BY <1>1, FromFacts
  <2>2. l \in AllLines
    BY LineTypes DEF Keys
  <2> HIDE DEF l, f
  <2>4. l \in AllLines /\ f \in Seq(AllLines) /\ c \in Seq(AllLines)
    BY <1>1, <2>1, <2>2
  <2>3. (<<l>> \o f) \o c = Cons(l, f \o c)
    BY ONLY <2>4, ConsFront
  <2> QED BY <1>2, <1>3, <1>4, <2>1, <2>3 DEF l, f
<1>8. ASSUME NEW m \in 1 .. n
      PROVE  PortsFrom(k, j, m - 1)
                = Cons(Line(s.at, "host_item", s.ports[m][1]),
                    Cons(Line(s.at + 2, "container", s.ports[m][2]), PortsFrom(k, j, m)))
  <2> DEFINE a == Line(s.at, "host_item", s.ports[m][1])
             b == Line(s.at + 2, "container", s.ports[m][2])
             f == FlatFrom(g, m)
             p == <<a, b>>
  <2>1. m - 1 \in 0 .. Len(g) - 1 /\ m - 1 + 1 = m /\ m \in 0 .. n
    BY <1>1
  <2>2. FlatFrom(g, m - 1) = g[m] \o f
    BY <1>1, <2>1, FromFacts
  <2>3. f \in Seq(AllLines) /\ g[m] = p /\ a \in AllLines /\ b \in AllLines
    BY <1>5, <1>9, <2>1
  <2> HIDE DEF a, b, f
  <2>4. p \in Seq(AllLines)
    BY <2>3
  <2>5. f \o c \in Seq(AllLines)
    BY <1>1, <2>3, ConcatProperties
  <2> DEFINE w == f \o c
  <2>6. p \o w = Cons(a, Cons(b, w))
    <3> HIDE DEF w
    <3>1. w \in Seq(AllLines) /\ a \in AllLines /\ b \in AllLines
      BY <2>3, <2>5 DEF w
    <3> QED BY ONLY <3>1, ConsTwo
  <2> HIDE DEF p
  <2>9. p \in Seq(AllLines) /\ f \in Seq(AllLines) /\ c \in Seq(AllLines)
    BY <1>1, <2>3, <2>4
  <2>7. (p \o f) \o c = p \o (f \o c)
    BY ONLY <2>9, ConcatAssociative
  <2>8. PortsFrom(k, j, m - 1) = (p \o f) \o c /\ PortsFrom(k, j, m) = w
    BY <1>2, <2>2, <2>3 DEF f
  <2> QED BY <2>6, <2>7, <2>8 DEF a, b
<1> QED BY <1>1, <1>5, <1>6, <1>7, <1>8, <1>9 DEF s, n, c

LEMMA FromOthers ==
  ASSUME doc \in Docs, NEW k \in 1 .. Count, NEW j \in 1 .. Len(Secs(k))
  PROVE  LET s == Secs(k)[j]
             r == SectionsFrom(k, j)
         IN  /\ Key(k, j) = "restart" =>
                  SectionsFrom(k, j - 1) = Cons(Line(4, "restart", s.val), r)
             /\ Key(k, j) = "unknown" =>
                  SectionsFrom(k, j - 1) = Cons(Line(4, "unknown", None), r)
             /\ Key(k, j) = "resources" =>
                  SectionsFrom(k, j - 1)
                    = Cons(Line(4, "resources", None), Cons(Line(6, "memory", s.memory),
                        Cons(Line(6, "cpu_shares", None), Cons(Line(6, "pids_max", s.pids), r))))
<1> DEFINE s == Secs(k)[j]
           r == SectionsFrom(k, j)
<1>1. s \in Sections /\ s.key = Key(k, j) /\ j \in 0 .. Len(Secs(k))
  BY DocFacts DEF Key
<1>2. r \in Seq(AllLines) /\ SectionsFrom(k, j - 1) = SectionLines(s) \o r
  BY <1>1, FromSection
<1> HIDE DEF s, r
<1>3. CASE Key(k, j) = "restart"
  <2> DEFINE l == Line(4, "restart", s.val)
  <2>1. SectionLines(s) = <<l>>
    BY <1>1, <1>3 DEF SectionLines
  <2> HIDE DEF l
  <2>2. <<l>> \o r = Cons(l, r)
    BY DEF Cons
  <2> QED BY <1>2, <1>3, <2>1, <2>2 DEF l, s, r
<1>4. CASE Key(k, j) = "unknown"
  <2> DEFINE l == Line(4, "unknown", None)
  <2>1. SectionLines(s) = <<l>>
    BY <1>1, <1>4 DEF SectionLines
  <2> HIDE DEF l
  <2>2. <<l>> \o r = Cons(l, r)
    BY DEF Cons
  <2> QED BY <1>2, <1>4, <2>1, <2>2 DEF l, s, r
<1>5. CASE Key(k, j) = "resources"
  <2> DEFINE a == Line(4, "resources", None)
             b == Line(6, "memory", s.memory)
             c == Line(6, "cpu_shares", None)
             d == Line(6, "pids_max", s.pids)
             u == <<a>>
             v == <<b, c, d>>
  <2>1. SectionLines(s) = <<a, b, c, d>>
    BY <1>1, <1>5 DEF SectionLines
  <2>2. a \in AllLines /\ b \in AllLines /\ c \in AllLines /\ d \in AllLines
    BY <1>1, <1>5, SectionKinds, LineTypes DEF Keys
  <2> HIDE DEF a, b, c, d
  <2>3. u \in Seq(AllLines) /\ v \in Seq(AllLines) /\ <<a, b, c, d>> = u \o v
    BY <2>2
  <2>8. b \in AllLines /\ c \in AllLines /\ d \in AllLines /\ r \in Seq(AllLines)
    BY <1>2, <2>2
  <2>4. <<b, c, d>> \o r = Cons(b, Cons(c, Cons(d, r)))
    BY ONLY <2>8, ConsThree
  <2>5. u \o (v \o r) = Cons(a, v \o r)
    BY DEF Cons
  <2> HIDE DEF u, v
  <2>9. u \in Seq(AllLines) /\ v \in Seq(AllLines) /\ r \in Seq(AllLines)
    BY <2>3, <2>8
  <2>6. (u \o v) \o r = u \o (v \o r)
    BY ONLY <2>9, ConcatAssociative, SMTT(30)
  <2>7. SectionsFrom(k, j - 1) = Cons(a, Cons(b, Cons(c, Cons(d, r))))
    BY <1>2, <2>1, <2>3, <2>4, <2>5, <2>6 DEF v
  <2> QED BY <1>5, <2>7 DEF a, b, c, d, s, r
<1> QED BY <1>3, <1>4, <1>5 DEF s, r

LEMMA WholeText ==
  ASSUME doc \in Docs
  PROVE  Lines(doc) = Cons(Line(0, "other", None), Cons(Line(2, "image_item", "ignored"),
                        Cons(Line(0, "containers", None), ContainersFrom(0))))
<1> DEFINE a == Line(0, "other", None)
           b == Line(2, "image_item", "ignored")
           c == Line(0, "containers", None)
           p == <<a, b, c>>
           f == FlattenSeq(ContainerTexts)
           t == TailLines
<1>1. Lines(doc) = (p \o f) \o t
  BY DEF Lines, ContainerTexts, TailLines
<1>2. ContainerTexts \in Seq(Seq(AllLines)) /\ t \in Seq(AllLines)
  BY ContainerTextTypes
<1>3. f = FlatFrom(ContainerTexts, 0) /\ f \in Seq(AllLines) /\ ContainersFrom(0) = f \o t
  BY <1>2, FromFacts DEF ContainersFrom
<1>4. a \in AllLines /\ b \in AllLines /\ c \in AllLines
  <2>1. "ignored" \in Vals
    BY DEF Vals
  <2> QED BY <2>1, LineTypes DEF Keys
<1> HIDE DEF a, b, c, f, t
<1>5. p \in Seq(AllLines) /\ f \o t \in Seq(AllLines)
  BY <1>2, <1>3, <1>4, ConcatProperties
<1>6. p \o (f \o t) = Cons(a, Cons(b, Cons(c, f \o t)))
  <2> DEFINE w == f \o t
  <2> HIDE DEF w
  <2>1. w \in Seq(AllLines)
    BY <1>5 DEF w
  <2>2. <<a, b, c>> \o w = Cons(a, Cons(b, Cons(c, w)))
    BY ONLY <1>4, <2>1, ConsThree
  <2> QED BY <2>2 DEF w
<1> HIDE DEF p
<1>8. p \in Seq(AllLines) /\ f \in Seq(AllLines) /\ t \in Seq(AllLines)
  BY <1>2, <1>3, <1>5
<1>7. (p \o f) \o t = p \o (f \o t)
  BY ONLY <1>8, ConcatAssociative
<1> QED BY <1>1, <1>3, <1>6, <1>7 DEF a, b, c
-----------------------------------------------------------------------------
(* What a document means, read section by section.                          *)

Singles(ports) == [m \in DOMAIN ports |-> IF Complete(ports[m]) THEN <<ports[m]>> ELSE <<>>]
PortsOf(k) == [j \in DOMAIN Secs(k) |-> IF Key(k, j) = "ports" THEN CompleteOnes(Secs(k)[j].ports)
                                        ELSE <<>>]
MeantPorts == [k \in DOMAIN doc.containers |-> Meaning(doc.containers[k]).ports]

\* The mappings of the first k containers; of a container's first j sections; of
\* a section's first m.
AllMapped(k) == FlatUpto(MeantPorts, k)
Mapped(k, j) == FlatUpto(PortsOf(k), j)
MappedIn(k, j, m) == FlatUpto(Singles(Secs(k)[j].ports), m)

LEMMA Constants ==
  /\ None \notin Nat /\ None \notin Policies /\ None \notin Sizes /\ None \notin Mappings
  /\ None \notin Builders /\ Overflow \notin Nat /\ Overflow # None
  /\ DefaultMemory \in Nat /\ DefaultPids \in Nat /\ Kilo \in Nat /\ SizeMax \in Nat
BY ParserAssumption

LEMMA SinglesFacts ==
  ASSUME NEW ports \in Seq(Mappings)
  PROVE  /\ Singles(ports) \in Seq(Seq(Mappings)) /\ Len(Singles(ports)) = Len(ports)
         /\ \A m \in 1 .. Len(ports) :
               Singles(ports)[m] = IF Complete(ports[m]) THEN <<ports[m]>> ELSE <<>>
         /\ CompleteOnes(ports) = FlatUpto(Singles(ports), Len(ports))
         /\ CompleteOnes(ports) \in Seq(Mappings)
<1> DEFINE g == Singles(ports)
<1>1. \A m \in 1 .. Len(ports) : <<ports[m]>> \in Seq(Mappings)
  <2> SUFFICES ASSUME NEW m \in 1 .. Len(ports) PROVE <<ports[m]>> \in Seq(Mappings)
    OBVIOUS
  <2> DEFINE p == ports[m]
  <2>1. p \in Mappings
    OBVIOUS
  <2> HIDE DEF p
  <2> QED BY <2>1 DEF p
<1>2. /\ g = [m \in 1 .. Len(ports) |-> IF Complete(ports[m]) THEN <<ports[m]>> ELSE <<>>]
      /\ Len(ports) \in Nat /\ CompleteOnes(ports) = FlattenSeq(g)
  BY DEF Singles, CompleteOnes
<1> HIDE DEF g
<1>3. g \in Seq(Seq(Mappings)) /\ Len(g) = Len(ports)
  BY <1>1, <1>2
<1>4. FlatUpto(g, Len(g)) = FlattenSeq(g) /\ FlatUpto(g, Len(g)) \in Seq(Mappings)
  <2>1. Len(g) \in 0 .. Len(g)
    BY <1>2, <1>3
  <2> QED BY <1>3, <2>1, UptoFacts DEF FlatUpto
<1> QED BY <1>2, <1>3, <1>4 DEF g

LEMMA PortsOfFacts ==
  ASSUME doc \in Docs, NEW k \in 1 .. Count
  PROVE  /\ PortsOf(k) \in Seq(Seq(Mappings)) /\ Len(PortsOf(k)) = Len(Secs(k))
         /\ Len(Secs(k)) \in Nat
         /\ \A j \in 1 .. Len(Secs(k)) : PortsOf(k)[j] =
               IF Key(k, j) = "ports" THEN CompleteOnes(Secs(k)[j].ports) ELSE <<>>
<1>1. /\ Len(Secs(k)) \in Nat /\ DOMAIN Secs(k) = 1 .. Len(Secs(k))
      /\ \A j \in 1 .. Len(Secs(k)) : Secs(k)[j] \in Sections
  BY DocFacts
<1>2. ASSUME NEW j \in 1 .. Len(Secs(k)), Key(k, j) = "ports"
      PROVE  CompleteOnes(Secs(k)[j].ports) \in Seq(Mappings)
  BY <1>1, <1>2, SectionKinds, SinglesFacts DEF Key
<1>3. PortsOf(k) = [j \in 1 .. Len(Secs(k)) |->
                      IF Key(k, j) = "ports" THEN CompleteOnes(Secs(k)[j].ports) ELSE <<>>]
  BY <1>1 DEF PortsOf
<1>4. \A j \in 1 .. Len(Secs(k)) : PortsOf(k)[j] \in Seq(Mappings)
  BY <1>2, <1>3
<1> QED BY <1>1, <1>3, <1>4

LEMMA ParsedMemory ==
  ASSUME NEW m \in Sizes \cup {None}
  PROVE  /\ parse_memory(m) \in 0 .. SizeMax \cup {None, Overflow}
         /\ parse_memory(m) = None <=> Absent(m)
         /\ parse_memory(m) = Overflow <=> ~Absent(m) /\ Size(m) > SizeMax
         /\ parse_memory(m) \in Nat => parse_memory(m) = Size(m)
<1>1. CASE Absent(m)
  BY <1>1, Constants DEF parse_memory
<1>2. CASE ~Absent(m)
  <2>1. m \in Sizes /\ m.n \in Nat /\ m.unit \in {"", "kb", "mb", "gb"}
    BY <1>2 DEF Absent, Sizes
  <2>2. Kilo * Kilo \in Nat /\ Kilo \in Nat
    BY Constants
  <2> DEFINE q == Kilo * Kilo
  <2>3. q * Kilo \in Nat
    <3> HIDE DEF q
    <3> QED BY <2>2 DEF q
  <2>4. Factor(m.unit) \in Nat
    BY <2>1, <2>2, <2>3 DEF Factor
  <2> DEFINE f == Factor(m.unit)
             n == m.n
  <2>5. n * f \in Nat
    <3>1. n \in Nat /\ f \in Nat
      BY <2>1, <2>4
    <3> HIDE DEF n, f
    <3> QED BY <3>1
  <2>6. Size(m) \in Nat
    BY <2>5 DEF Size
  <2> QED BY <1>2, <2>6, Constants DEF parse_memory
<1> QED BY <1>1, <1>2

LEMMA MeaningFacts ==
  ASSUME doc \in Docs, NEW k \in 1 .. Count
  PROVE  LET m == Meaning(doc.containers[k])
             n == Len(Secs(k))
         IN  /\ m = [image |-> doc.containers[k].image, ports |-> Mapped(k, n),
                     restart |-> m.restart, memory |-> m.memory, pids |-> m.pids]
             /\ \A j \in 1 .. n : Key(k, j) = "restart" => m.restart = Secs(k)[j].val
             /\ (\A j \in 1 .. n : Key(k, j) # "restart") => m.restart = "never"
             /\ \A j \in 1 .. n : Key(k, j) = "resources" =>
                   /\ m.memory = IF Absent(Secs(k)[j].memory) THEN DefaultMemory
                                 ELSE Size(Secs(k)[j].memory)
                   /\ m.pids = IF Secs(k)[j].pids = None THEN DefaultPids ELSE Secs(k)[j].pids
             /\ (\A j \in 1 .. n : Key(k, j) # "resources") =>
                   m.memory = DefaultMemory /\ m.pids = DefaultPids
<1> DEFINE m == Meaning(doc.containers[k])
           n == Len(Secs(k))
           ks(key) == {j \in DOMAIN Secs(k) : Key(k, j) = key}
<1>1. /\ n \in Nat /\ DOMAIN Secs(k) = 1 .. n
      /\ \A j \in 1 .. n : Secs(k)[j] \in Sections
      /\ \A i, j \in 1 .. n :
           Key(k, i) = Key(k, j) /\ Key(k, i) \in {"restart", "resources"} => i = j
  BY DocFacts
<1>2. m = [image |-> doc.containers[k].image,
           ports |-> FlattenSeq(PortsOf(k)),
           restart |-> IF ks("restart") = {} THEN "never"
                       ELSE LET v == Secs(k)[CHOOSE j \in ks("restart") : TRUE]["val"]
                            IN  IF v = None THEN "never" ELSE v,
           memory |-> LET x == IF ks("resources") = {} THEN None
                               ELSE LET v == Secs(k)[CHOOSE j \in ks("resources") : TRUE]["memory"]
                                    IN  IF v = None THEN None ELSE v
                      IN  IF Absent(x) THEN DefaultMemory ELSE Size(x),
           pids |-> IF ks("resources") = {} THEN DefaultPids
                    ELSE LET v == Secs(k)[CHOOSE j \in ks("resources") : TRUE]["pids"]
                         IN  IF v = None THEN DefaultPids ELSE v]
  BY Zenon DEF Meaning, PortsOf, Secs, Key
<1>3. m.ports = Mapped(k, n)
  <2>1. Upto(PortsOf(k), n) = PortsOf(k)
    BY PortsOfFacts, UptoFacts
  <2> HIDE DEF m
  <2> QED BY <1>2, <2>1 DEF Mapped, FlatUpto
<1>4. /\ m = [image |-> m.image, ports |-> m.ports, restart |-> m.restart, memory |-> m.memory,
             pids |-> m.pids]
      /\ m.image = doc.containers[k].image
      /\ m.restart = IF ks("restart") = {} THEN "never"
                     ELSE LET v == Secs(k)[CHOOSE j \in ks("restart") : TRUE]["val"]
                          IN  IF v = None THEN "never" ELSE v
      /\ m.memory = LET x == IF ks("resources") = {} THEN None
                             ELSE LET v == Secs(k)[CHOOSE j \in ks("resources") : TRUE]["memory"]
                                  IN  IF v = None THEN None ELSE v
                    IN  IF Absent(x) THEN DefaultMemory ELSE Size(x)
      /\ m.pids = IF ks("resources") = {} THEN DefaultPids
                  ELSE LET v == Secs(k)[CHOOSE j \in ks("resources") : TRUE]["pids"]
                       IN  IF v = None THEN DefaultPids ELSE v
  <2> HIDE DEF m, ks
  <2> QED BY <1>2
<1> HIDE DEF m
<1>5. ASSUME NEW key \in {"restart", "resources"}, NEW j \in 1 .. n, Key(k, j) = key
      PROVE  ks(key) # {} /\ (CHOOSE i \in ks(key) : TRUE) = j
  <2>1. ks(key) = {j}
    BY <1>1, <1>5
  <2> HIDE DEF ks
  <2> QED BY <2>1
<1>6. ASSUME NEW key, \A j \in 1 .. n : Key(k, j) # key PROVE ks(key) = {}
  BY <1>1, <1>6
<1> HIDE DEF ks
<1>7. ASSUME NEW j \in 1 .. n, Key(k, j) = "restart" PROVE m.restart = Secs(k)[j].val
  <2>1. Secs(k)[j].val \in Policies
    BY <1>1, <1>7, SectionKinds DEF Key
  <2>2. ks("restart") # {} /\ (CHOOSE i \in ks("restart") : TRUE) = j
    BY <1>5, <1>7
  <2>3. m.restart = IF Secs(k)[j]["val"] = None THEN "never" ELSE Secs(k)[j]["val"]
    BY <1>4, <2>2
  <2> QED BY <2>1, <2>3, Constants
<1>8. ASSUME NEW j \in 1 .. n, Key(k, j) = "resources"
      PROVE  /\ m.memory = IF Absent(Secs(k)[j].memory) THEN DefaultMemory
                           ELSE Size(Secs(k)[j].memory)
             /\ m.pids = IF Secs(k)[j].pids = None THEN DefaultPids ELSE Secs(k)[j].pids
  <2>2. ks("resources") # {} /\ (CHOOSE i \in ks("resources") : TRUE) = j
    BY <1>5, <1>8
  <2>3. m.pids = IF Secs(k)[j]["pids"] = None THEN DefaultPids ELSE Secs(k)[j]["pids"]
    BY <1>4, <2>2
  <2>4. m.memory = LET x == IF Secs(k)[j]["memory"] = None THEN None ELSE Secs(k)[j]["memory"]
                   IN  IF Absent(x) THEN DefaultMemory ELSE Size(x)
    BY <1>4, <2>2
  <2>5. m.memory = IF Absent(Secs(k)[j].memory) THEN DefaultMemory ELSE Size(Secs(k)[j].memory)
    BY <2>4
  <2> QED BY <2>3, <2>5
<1>9. ASSUME \A j \in 1 .. n : Key(k, j) # "restart" PROVE m.restart = "never"
  BY <1>4, <1>6, <1>9
<1>10. ASSUME \A j \in 1 .. n : Key(k, j) # "resources"
       PROVE  m.memory = DefaultMemory /\ m.pids = DefaultPids
  BY <1>4, <1>6, <1>10 DEF Absent
<1> QED BY <1>3, <1>4, <1>7, <1>8, <1>9, <1>10 DEF m
-----------------------------------------------------------------------------
(* The places of the parser in a document, and what it knows there.         *)

\* The container has no mapping of another; a mapping may be in progress.
Own(k) == ~(k > 1 /\ Loose(k - 1))
Came(k, j) == IF j > 0 THEN Key(k, j) = "ports" ELSE k > 1 /\ Loose(k - 1)
Pending == IF current_port # None /\ Complete(current_port) THEN <<current_port>> ELSE <<>>

\* What builder c holds once j sections of container k are read.
HasPolicy(c, k, j) ==
    /\ \A i \in 1 .. j : Key(k, i) = "restart" => c.restart = Secs(k)[i].val
    /\ (\A i \in 1 .. j : Key(k, i) # "restart") => c.restart = "never"
HasLimits(c, k, j) ==
    /\ \A i \in 1 .. j : Key(k, i) = "resources" =>
          c.memory = parse_memory(Secs(k)[i].memory) /\ c.pids = Secs(k)[i].pids
    /\ (\A i \in 1 .. j : Key(k, i) # "resources") => c.memory = None /\ c.pids = None

\* A container that was pushed.
PushedRight(i) ==
    LET c == containers[i]
        m == Meaning(doc.containers[i])
    IN  /\ m \in Builders
        /\ c.image = m.image /\ c.restart = m.restart /\ c.memory = m.memory /\ c.pids = m.pids
        /\ c.memory \in 0 .. SizeMax \cup {DefaultMemory}
        /\ \A j \in 1 .. Len(Secs(i)) :
              Key(i, j) = "resources" => parse_memory(Secs(i)[j].memory) # Overflow
        /\ Own(i) /\ ~(Loose(i) /\ Followed(i)) => c.ports = m.ports
Pushed(k) ==
    /\ containers \in Seq(Builders) /\ Len(containers) = k
    /\ \A i \in 1 .. k : PushedRight(i)

\* Within container k; b are the mappings it got from the one before.
Reading(k, b) ==
    /\ k \in 1 .. Count /\ Pushed(k - 1)
    /\ in_containers = TRUE /\ in_ports \in BOOLEAN /\ in_resources \in BOOLEAN
    /\ current \in Builders
    /\ current.image = doc.containers[k].image
    /\ current.memory \in 0 .. SizeMax \cup {None}
    /\ current_port \in Mappings \cup {None}
    /\ b \in Seq(Mappings) /\ AllPorts(containers) \o b = AllMapped(k - 1)
    /\ Own(k) => b = <<>>

\* Behind section j.
AtSection(k, j, b) ==
    /\ Reading(k, b) /\ j \in 0 .. Len(Secs(k)) /\ lines = SectionsFrom(k, j)
    /\ HasPolicy(current, k, j) /\ HasLimits(current, k, j)
    /\ current.ports \o Pending = b \o Mapped(k, j)
    /\ current_port # None => Came(k, j)

\* Within section j, behind its mapping m.
AtPort(k, j, m, b) ==
    /\ Reading(k, b) /\ j \in 1 .. Len(Secs(k)) /\ Key(k, j) = "ports"
    /\ m \in 0 .. Len(Secs(k)[j].ports)
    /\ lines = PortsFrom(k, j, m) /\ in_ports = TRUE
    /\ HasPolicy(current, k, j) /\ HasLimits(current, k, j)
    /\ current.ports \o Pending = b \o (Mapped(k, j - 1) \o MappedIn(k, j, m))

\* Between the two lines of mapping m.
MidPort(k, j, m, b) ==
    /\ Reading(k, b) /\ j \in 1 .. Len(Secs(k)) /\ Key(k, j) = "ports"
    /\ m \in 1 .. Len(Secs(k)[j].ports)
    /\ lines = Cons(Line(Secs(k)[j].at + 2, "container", Secs(k)[j].ports[m][2]),
                    PortsFrom(k, j, m))
    /\ in_ports = TRUE
    /\ HasPolicy(current, k, j) /\ HasLimits(current, k, j)
    /\ current_port = <<Secs(k)[j].ports[m][1], None>>
    /\ current.ports = b \o (Mapped(k, j - 1) \o MappedIn(k, j, m - 1))

\* Behind i lines of the resources.
LimitLines(k, j, i) ==
    LET s == Secs(k)[j]
        last == Cons(Line(6, "pids_max", s.pids), SectionsFrom(k, j))
    IN  IF i = 0 THEN Cons(Line(6, "memory", s.memory), Cons(Line(6, "cpu_shares", None), last))
        ELSE IF i = 1 THEN Cons(Line(6, "cpu_shares", None), last)
        ELSE last
AtLimit(k, j, i, b) ==
    /\ Reading(k, b) /\ j \in 1 .. Len(Secs(k)) /\ Key(k, j) = "resources"
    /\ i \in 0 .. 2 /\ lines = LimitLines(k, j, i)
    /\ in_resources = TRUE /\ in_ports = FALSE /\ current_port = None
    /\ HasPolicy(current, k, j)
    /\ i = 0 => current.memory = None
    /\ i # 0 => current.memory = parse_memory(Secs(k)[j].memory)
    /\ current.pids = None
    /\ current.ports = b \o Mapped(k, j)

\* Before the first container, whose list starts after line 3.
HeadLines(i) ==
    LET last == Cons(Line(0, "containers", None), ContainersFrom(0))
        second == Cons(Line(2, "image_item", "ignored"), last)
    IN  IF i = 0 THEN Cons(Line(0, "other", None), second)
        ELSE IF i = 1 THEN second ELSE IF i = 2 THEN last ELSE ContainersFrom(0)
AtHead(i) ==
    /\ i \in 0 .. 3 /\ lines = HeadLines(i)
    /\ (i = 3 => in_containers = TRUE) /\ (i # 3 => in_containers = FALSE)
    /\ containers = <<>> /\ current = None /\ current_port = None
    /\ in_ports = FALSE /\ in_resources = FALSE

\* Behind the key that ends the list, and at the end.
AllRead == Pushed(Count) /\ IsPrefix(AllPorts(containers), AllMapped(Count))
AtTail == lines = <<>> /\ current = None /\ AllRead

Somewhere ==
    \/ \E i \in 0 .. 3 : AtHead(i)
    \/ \E k, j \in Nat, b \in Seq(Mappings) : AtSection(k, j, b)
    \/ \E k, j, m \in Nat, b \in Seq(Mappings) : AtPort(k, j, m, b) \/ MidPort(k, j, m, b)
    \/ \E k, j, i \in Nat, b \in Seq(Mappings) : AtLimit(k, j, i, b)
    \/ AtTail

ParserInv ==
    /\ doc \in Docs
    /\ \/ panicked = TRUE /\ done = FALSE /\ Impossible(doc)
       \/ panicked = FALSE /\ done = TRUE /\ AllRead
       \/ panicked = FALSE /\ done = FALSE /\ Somewhere

\* The document stays, and with it all that is said about it.
LEMMA SameDoc ==
  ASSUME doc' = doc
  PROVE  /\ Count' = Count /\ TailLines' = TailLines
         /\ \A k : /\ Secs(k)' = Secs(k) /\ ContainersFrom(k)' = ContainersFrom(k)
                   /\ AllMapped(k)' = AllMapped(k) /\ Own(k)' = Own(k)
                   /\ Loose(k)' = Loose(k) /\ Followed(k)' = Followed(k)
                   /\ \A j : /\ Key(k, j)' = Key(k, j) /\ SectionsFrom(k, j)' = SectionsFrom(k, j)
                             /\ Mapped(k, j)' = Mapped(k, j) /\ Came(k, j)' = Came(k, j)
                             /\ \A m : /\ PortsFrom(k, j, m)' = PortsFrom(k, j, m)
                                       /\ MappedIn(k, j, m)' = MappedIn(k, j, m)
<1>1. \A k : Secs(k)' = Secs(k) /\ \A j : Key(k, j)' = Key(k, j)
  BY DEF Secs, Key
<1>2. Count' = Count /\ TailLines' = TailLines /\ ContainerTexts' = ContainerTexts
      /\ MeantPorts' = MeantPorts
  BY DEF Count, TailLines, ContainerTexts, MeantPorts
<1>3. \A k : Loose(k)' = Loose(k) /\ Followed(k)' = Followed(k)
  BY DEF Loose, Followed
<1>4. \A k : SectionTexts(k)' = SectionTexts(k) /\ PortsOf(k)' = PortsOf(k)
  BY <1>1 DEF SectionTexts, PortsOf
<1>5. \A k : /\ ContainersFrom(k)' = ContainersFrom(k) /\ AllMapped(k)' = AllMapped(k)
             /\ Own(k)' = Own(k)
  BY <1>2, <1>3 DEF ContainersFrom, AllMapped, Own
<1>6. \A k, j : /\ SectionsFrom(k, j)' = SectionsFrom(k, j) /\ Mapped(k, j)' = Mapped(k, j)
                /\ Came(k, j)' = Came(k, j)
  BY <1>1, <1>3, <1>4, <1>5 DEF SectionsFrom, Mapped, Came
<1>7. \A k, j, m : /\ PortsFrom(k, j, m)' = PortsFrom(k, j, m)
                   /\ MappedIn(k, j, m)' = MappedIn(k, j, m)
  BY <1>1, <1>6 DEF PortsFrom, MappedIn
<1> QED BY <1>1, <1>2, <1>3, <1>5, <1>6, <1>7

LEMMA SamePushed ==
  ASSUME doc' = doc, containers' = containers
  PROVE  \A k : Pushed(k)' = Pushed(k)
<1>1. \A i : PushedRight(i)' = PushedRight(i)
  BY SameDoc DEF PushedRight
<1> QED BY <1>1 DEF Pushed
-----------------------------------------------------------------------------
(* Which action reads which line.                                           *)

LEMMA EachLine ==
  ASSUME ParserNext, done = FALSE, panicked = FALSE, NEW x \in AllLines, NEW r \in Seq(AllLines),
         lines = Cons(x, r)
  PROVE  /\ L = x
         /\ MemoryOverflow \/ (lines' = r /\ doc' = doc /\ done' = done /\ panicked' = panicked)
         /\ x.indent = 0 => TopLevel
         /\ in_containers = FALSE /\ x.indent # 0 => Outside
         /\ in_containers = TRUE =>
              /\ x.indent = 2 /\ x.key = "image_item" => ImageItem
              /\ x.indent = 4 => ContainerKey
              /\ x.indent = 6 /\ x.key = "host_item" /\ in_ports = TRUE => HostItem
              /\ x.indent \in {6, 8} /\ x.key = "container" /\ in_ports = TRUE => ContainerPort
              /\ x.indent = 6 /\ x.key = "cpu_shares" => Unmatched
              /\ in_ports = FALSE /\ in_resources = TRUE =>
                   /\ x.indent = 6 /\ x.key = "memory" => ResourceKey \/ MemoryOverflow
                   /\ x.indent = 6 /\ x.key = "pids_max" => ResourceKey
<1>1. lines # <<>> /\ L = x /\ Tail(lines) = r
  BY ConsFacts, ZenonT(60) DEF L
<1>0. x.indent \in Nat
  BY DEF AllLines
<1> HIDE DEF L
<1>2. \/ TopLevel \/ Outside \/ ImageItem \/ ContainerKey \/ HostItem
      \/ ContainerPort \/ ResourceKey \/ MemoryOverflow \/ Unmatched
  BY <1>1 DEF ParserNext, EndOfInput
<1>3. MemoryOverflow \/ Read
  BY <1>2 DEF TopLevel, Outside, ImageItem, ContainerKey, HostItem, ContainerPort, ResourceKey,
              Unmatched
<1>4. MemoryOverflow \/ (lines' = r /\ doc' = doc /\ done' = done /\ panicked' = panicked)
  BY <1>1, <1>3 DEF Read
\* What each action reads.
<1>5. /\ TopLevel => x.indent = 0
      /\ Outside => x.indent # 0 /\ ~in_containers
      /\ ImageItem => in_containers /\ x.indent = 2 /\ x.key = "image_item"
      /\ ContainerKey => in_containers /\ x.indent = 4
  BY <1>1, Zenon DEF TopLevel, Outside, ImageItem, ContainerKey, Is
<1>6. /\ HostItem => in_containers /\ x.indent = 6 /\ x.key = "host_item"
      /\ ContainerPort => in_containers /\ x.indent \in {6, 8} /\ x.key = "container"
  BY <1>1, Zenon DEF HostItem, ContainerPort, Is
<1>7. /\ ResourceKey \/ MemoryOverflow =>
           in_containers /\ in_ports # TRUE /\ x.indent = 6 /\ x.key \in {"memory", "pids_max"}
      /\ MemoryOverflow => x.key = "memory"
  BY <1>1, Zenon DEF ResourceKey, MemoryOverflow, Panics, AtResource
<1>8. Unmatched =>
           /\ in_containers /\ x.indent \notin {0, 4} /\ ~ (x.indent = 2 /\ x.key = "image_item")
           /\ ~ (in_ports /\ x.indent = 6 /\ x.key = "host_item")
           /\ ~ (in_ports /\ x.key = "container" /\ x.indent \in {6, 8})
           /\ ~ (/\ in_containers /\ in_resources /\ ~in_ports
                 /\ x.indent = 6 /\ x.key \in {"memory", "pids_max"})
  BY <1>1, Zenon DEF Unmatched, AtResource, Is
<1>9. x.indent = 0 => TopLevel
  BY <1>2, <1>5, <1>6, <1>7, <1>8
<1>10. in_containers = FALSE /\ x.indent # 0 => Outside
  BY <1>2, <1>5, <1>6, <1>7, <1>8
<1>11. in_containers = TRUE /\ x.indent = 2 /\ x.key = "image_item" => ImageItem
  BY <1>2, <1>5, <1>6, <1>7, <1>8
<1>12. in_containers = TRUE /\ x.indent = 4 => ContainerKey
  BY <1>2, <1>5, <1>6, <1>7, <1>8
<1>13. in_containers = TRUE /\ x.indent = 6 /\ x.key = "host_item" /\ in_ports = TRUE
         => HostItem
  BY <1>2, <1>5, <1>6, <1>7, <1>8
<1>14. in_containers = TRUE /\ x.indent \in {6, 8} /\ x.key = "container" /\ in_ports = TRUE
         => ContainerPort
  BY <1>2, <1>5, <1>6, <1>7, <1>8
<1>15. in_containers = TRUE /\ x.indent = 6 /\ x.key = "cpu_shares" => Unmatched
  BY <1>2, <1>5, <1>6, <1>7, <1>8
<1>16. ASSUME in_containers = TRUE, in_ports = FALSE, in_resources = TRUE,
              x.indent = 6, x.key \in {"memory", "pids_max"}
       PROVE  ResourceKey \/ MemoryOverflow
  <2>1. ~ (x.indent = 0) /\ ~ (x.indent = 4) /\ ~ (x.indent = 2) /\ ~ (x.key = "container")
        /\ ~ (x.key = "host_item")
    BY <1>16
  <2> QED BY <1>2, <1>5, <1>6, <1>7, <1>8, <1>16, <2>1, Zenon
<1> QED BY <1>1, <1>4, <1>7, <1>9, <1>10, <1>11, <1>12, <1>13, <1>14, <1>15, <1>16
-----------------------------------------------------------------------------
(* Mappings.                                                                *)

LEMMA MeantTypes ==
  ASSUME doc \in Docs
  PROVE  /\ MeantPorts \in Seq(Seq(Mappings)) /\ Len(MeantPorts) = Count /\ Count \in Nat
         /\ \A k \in 1 .. Count : MeantPorts[k] = Mapped(k, Len(Secs(k)))
<1>1. Count \in Nat /\ DOMAIN doc.containers = 1 .. Count
  BY DocFacts
<1>2. ASSUME NEW k \in 1 .. Count
      PROVE  MeantPorts[k] = Mapped(k, Len(Secs(k))) /\ MeantPorts[k] \in Seq(Mappings)
  <2> DEFINE m == Meaning(doc.containers[k])
  <2>1. m = [image |-> doc.containers[k].image, ports |-> Mapped(k, Len(Secs(k))),
             restart |-> m.restart, memory |-> m.memory, pids |-> m.pids]
    BY MeaningFacts
  <2> HIDE DEF m
  <2>2. m.ports = Mapped(k, Len(Secs(k)))
    BY <2>1
  <2>3. MeantPorts[k] = m.ports
    BY <1>1 DEF MeantPorts, m
  <2>4. Mapped(k, Len(Secs(k))) \in Seq(Mappings)
    <3>1. PortsOf(k) \in Seq(Seq(Mappings)) /\ Len(PortsOf(k)) = Len(Secs(k)) /\ Len(Secs(k)) \in Nat
      BY PortsOfFacts
    <3>2. Len(Secs(k)) \in 0 .. Len(PortsOf(k))
      BY <3>1
    <3> QED BY <3>1, <3>2, UptoFacts DEF Mapped
  <2> QED BY <2>2, <2>3, <2>4
<1> QED BY <1>1, <1>2, SMTT(30) DEF MeantPorts

\* The mappings of a container, section by section and one by one; of them all,
\* container by container.
LEMMA MappedFacts ==
  ASSUME doc \in Docs, NEW k \in 1 .. Count
  PROVE  /\ AllMapped(k - 1) \in Seq(Mappings) /\ AllMapped(0) = <<>>
         /\ AllMapped(k) = AllMapped(k - 1) \o Mapped(k, Len(Secs(k)))
         /\ Mapped(k, 0) = <<>>
         /\ \A j \in 0 .. Len(Secs(k)) : Mapped(k, j) \in Seq(Mappings)
         /\ \A j \in 1 .. Len(Secs(k)) :
              /\ Key(k, j) # "ports" => Mapped(k, j) = Mapped(k, j - 1)
              /\ Key(k, j) = "ports" =>
                   /\ Mapped(k, j) = Mapped(k, j - 1) \o MappedIn(k, j, Len(Secs(k)[j].ports))
                   /\ MappedIn(k, j, 0) = <<>>
                   /\ \A m \in 0 .. Len(Secs(k)[j].ports) : MappedIn(k, j, m) \in Seq(Mappings)
                   /\ \A m \in 1 .. Len(Secs(k)[j].ports) :
                        MappedIn(k, j, m) = MappedIn(k, j, m - 1)
                          \o IF Complete(Secs(k)[j].ports[m]) THEN <<Secs(k)[j].ports[m]>> ELSE <<>>
<1>1. /\ PortsOf(k) \in Seq(Seq(Mappings)) /\ Len(PortsOf(k)) = Len(Secs(k)) /\ Len(Secs(k)) \in Nat
      /\ \A j \in 1 .. Len(Secs(k)) : PortsOf(k)[j] =
            IF Key(k, j) = "ports" THEN CompleteOnes(Secs(k)[j].ports) ELSE <<>>
  BY PortsOfFacts
<1>2. /\ AllMapped(k - 1) \in Seq(Mappings) /\ AllMapped(0) = <<>>
      /\ AllMapped(k) = AllMapped(k - 1) \o Mapped(k, Len(Secs(k)))
  <2>1. /\ MeantPorts \in Seq(Seq(Mappings)) /\ Len(MeantPorts) = Count /\ Count \in Nat
        /\ MeantPorts[k] = Mapped(k, Len(Secs(k)))
    BY MeantTypes
  <2>2. k - 1 \in 0 .. Len(MeantPorts) - 1 /\ k - 1 \in 0 .. Len(MeantPorts) /\ (k - 1) + 1 = k
    BY <2>1
  <2> QED BY <2>1, <2>2, UptoFacts DEF AllMapped
<1>3. Mapped(k, 0) = <<>> /\ \A j \in 0 .. Len(Secs(k)) : Mapped(k, j) \in Seq(Mappings)
  BY <1>1, UptoFacts DEF Mapped
<1>4. ASSUME NEW j \in 1 .. Len(Secs(k)) PROVE Mapped(k, j) = Mapped(k, j - 1) \o PortsOf(k)[j]
  <2>1. j - 1 \in 0 .. Len(PortsOf(k)) - 1 /\ (j - 1) + 1 = j
    BY <1>1
  <2> QED BY <1>1, <2>1, UptoFacts DEF Mapped
<1>5. ASSUME NEW j \in 1 .. Len(Secs(k)), Key(k, j) # "ports"
      PROVE  Mapped(k, j) = Mapped(k, j - 1)
  <2>1. Mapped(k, j - 1) \in Seq(Mappings) /\ PortsOf(k)[j] = <<>>
    BY <1>1, <1>3, <1>5
  <2> QED BY <1>4, <2>1, ConcatEmptySeq
<1>6. ASSUME NEW j \in 1 .. Len(Secs(k)), Key(k, j) = "ports"
      PROVE  /\ Mapped(k, j) = Mapped(k, j - 1) \o MappedIn(k, j, Len(Secs(k)[j].ports))
             /\ MappedIn(k, j, 0) = <<>>
             /\ \A m \in 0 .. Len(Secs(k)[j].ports) : MappedIn(k, j, m) \in Seq(Mappings)
             /\ \A m \in 1 .. Len(Secs(k)[j].ports) :
                  MappedIn(k, j, m) = MappedIn(k, j, m - 1)
                    \o IF Complete(Secs(k)[j].ports[m]) THEN <<Secs(k)[j].ports[m]>> ELSE <<>>
  <2> DEFINE p == Secs(k)[j].ports
  <2>1. p \in Seq(Mappings)
    BY <1>6, FromPorts
  <2> HIDE DEF p
  <2>2. /\ Singles(p) \in Seq(Seq(Mappings)) /\ Len(Singles(p)) = Len(p)
        /\ \A m \in 1 .. Len(p) : Singles(p)[m] = IF Complete(p[m]) THEN <<p[m]>> ELSE <<>>
        /\ CompleteOnes(p) = FlatUpto(Singles(p), Len(p))
    BY <2>1, SinglesFacts
  <2>3. PortsOf(k)[j] = FlatUpto(Singles(p), Len(p))
    BY <1>1, <1>6, <2>2 DEF p
  <2>4. FlatUpto(Singles(p), 0) = <<>>
        /\ \A m \in 0 .. Len(p) : FlatUpto(Singles(p), m) \in Seq(Mappings)
    BY <2>2, UptoFacts
  <2>5. ASSUME NEW m \in 1 .. Len(p)
        PROVE  FlatUpto(Singles(p), m) = FlatUpto(Singles(p), m - 1)
                 \o IF Complete(p[m]) THEN <<p[m]>> ELSE <<>>
    <3>1. m - 1 \in 0 .. Len(Singles(p)) - 1 /\ (m - 1) + 1 = m
      BY <2>1, <2>2
    <3>2. FlatUpto(Singles(p), m) = FlatUpto(Singles(p), m - 1) \o Singles(p)[m]
      BY <2>2, <3>1, UptoFacts
    <3> QED BY <2>2, <3>2
  <2> QED BY <1>4, <2>3, <2>4, <2>5 DEF p, MappedIn
<1> QED BY <1>2, <1>3, <1>5, <1>6

\* The mappings of the containers read so far.
LEMMA AllPortsFacts ==
  ASSUME NEW cs \in Seq(Builders), NEW c \in Builders
  PROVE  /\ AllPorts(cs) \in Seq(Mappings) /\ AllPorts(<<>>) = <<>>
         /\ AllPorts(Append(cs, c)) = AllPorts(cs) \o c.ports
<1> DEFINE P(s) == [k \in DOMAIN s |-> s[k].ports]
<1>1. \A d \in Builders : d.ports \in Seq(Mappings)
  BY DEF Builders
<1>2. P(cs) \in Seq(Seq(Mappings)) /\ P(<<>>) = <<>>
  BY <1>1
<1>3. P(Append(cs, c)) = Append(P(cs), c.ports)
  <2> DEFINE u == P(Append(cs, c))
             v == Append(P(cs), c.ports)
  <2>1. u \in Seq(Seq(Mappings)) /\ Len(u) = Len(cs) + 1
        /\ \A i \in 1 .. Len(cs) + 1 : u[i] = IF i = Len(cs) + 1 THEN c.ports ELSE cs[i].ports
    <3>1. Append(cs, c) \in Seq(Builders) /\ Len(Append(cs, c)) = Len(cs) + 1
      OBVIOUS
    <3> QED BY <1>1, <3>1
  <2>2. v \in Seq(Seq(Mappings)) /\ Len(v) = Len(cs) + 1
        /\ \A i \in 1 .. Len(cs) + 1 : v[i] = IF i = Len(cs) + 1 THEN c.ports ELSE cs[i].ports
    BY <1>1, <1>2
  <2> HIDE DEF u, v
  <2>3. u = v
    BY <2>1, <2>2, SameSequence
  <2> QED BY <2>3 DEF u, v
<1>4. c.ports \in Seq(Mappings)
  BY <1>1
<1>5. AllPorts(cs) = FlattenSeq(P(cs)) /\ AllPorts(<<>>) = FlattenSeq(P(<<>>))
      /\ AllPorts(Append(cs, c)) = FlattenSeq(P(Append(cs, c)))
  BY DEF AllPorts
<1> HIDE DEF P
<1>6. FlattenSeq(P(cs)) \in Seq(Mappings)
  <2>1. Upto(P(cs), Len(P(cs))) = P(cs) /\ Len(P(cs)) \in 0 .. Len(P(cs))
        /\ FlatUpto(P(cs), Len(P(cs))) \in Seq(Mappings)
    BY <1>2, UptoFacts
  <2> QED BY <2>1 DEF FlatUpto
<1> QED BY <1>2, <1>3, <1>4, <1>5, <1>6, FlattenNothing, FlattenAppend
-----------------------------------------------------------------------------
(* A container that is closed is what the document means.                   *)

LEMMA BuiltRight ==
  ASSUME doc \in Docs, NEW k \in 1 .. Count, NEW c \in Builders,
         c.image = doc.containers[k].image, c.memory \in 0 .. SizeMax \cup {None},
         HasPolicy(c, k, Len(Secs(k))), HasLimits(c, k, Len(Secs(k)))
  PROVE  LET m == Meaning(doc.containers[k])
             d == Build(c)
         IN  /\ d \in Builders /\ m \in Builders
             /\ d.ports = c.ports /\ m.ports = Mapped(k, Len(Secs(k)))
             /\ d.image = m.image /\ d.restart = m.restart /\ d.memory = m.memory /\ d.pids = m.pids
             /\ d.memory \in 0 .. SizeMax \cup {DefaultMemory}
             /\ \A j \in 1 .. Len(Secs(k)) :
                   Key(k, j) = "resources" => parse_memory(Secs(k)[j].memory) # Overflow
<1> DEFINE m == Meaning(doc.containers[k])
           d == Build(c)
           n == Len(Secs(k))
<1>1. /\ m = [image |-> doc.containers[k].image, ports |-> Mapped(k, n),
              restart |-> m.restart, memory |-> m.memory, pids |-> m.pids]
      /\ \A j \in 1 .. n : Key(k, j) = "restart" => m.restart = Secs(k)[j].val
      /\ (\A j \in 1 .. n : Key(k, j) # "restart") => m.restart = "never"
      /\ \A j \in 1 .. n : Key(k, j) = "resources" =>
            /\ m.memory = IF Absent(Secs(k)[j].memory) THEN DefaultMemory
                          ELSE Size(Secs(k)[j].memory)
            /\ m.pids = IF Secs(k)[j].pids = None THEN DefaultPids ELSE Secs(k)[j].pids
      /\ (\A j \in 1 .. n : Key(k, j) # "resources") => m.memory = DefaultMemory /\ m.pids = DefaultPids
  BY MeaningFacts
<1>2. /\ c.image \in STRING /\ c.ports \in Seq(Mappings) /\ c.restart \in Policies
      /\ c.pids \in Nat \cup {None}
      /\ c = [image |-> c.image, ports |-> c.ports, restart |-> c.restart,
              memory |-> c.memory, pids |-> c.pids]
  BY DEF Builders
<1>3. d = [image |-> c.image, ports |-> c.ports, restart |-> c.restart,
           memory |-> IF c.memory = None THEN DefaultMemory ELSE c.memory,
           pids |-> IF c.pids = None THEN DefaultPids ELSE c.pids]
  <2> DEFINE v == IF c.memory = None THEN DefaultMemory ELSE c.memory
             w == IF c.pids = None THEN DefaultPids ELSE c.pids
  <2>1. d = [c EXCEPT !.memory = v, !.pids = w]
    BY DEF Build
  <2>2. DOMAIN c = {"image", "ports", "restart", "memory", "pids"}
    BY <1>2
  <2> HIDE DEF v, w, d
  <2>3. d = [image |-> c.image, ports |-> c.ports, restart |-> c.restart, memory |-> v, pids |-> w]
    BY <2>1, <2>2
  <2> QED BY <2>3 DEF v, w
<1>4. \A j \in 1 .. n : Key(k, j) = "resources" =>
         /\ Secs(k)[j].memory \in Sizes \cup {None} /\ Secs(k)[j].pids \in Nat \cup {None}
         /\ c.memory = parse_memory(Secs(k)[j].memory) /\ c.pids = Secs(k)[j].pids
  <2>1. \A j \in 1 .. n : Secs(k)[j] \in Sections
    BY DocFacts
  <2>2. \A j \in 1 .. n : Key(k, j) = Secs(k)[j].key
    BY DEF Key
  <2> QED BY <2>1, <2>2, SectionKinds DEF HasLimits
<1>5. (\A j \in 1 .. n : Key(k, j) # "resources") => c.memory = None /\ c.pids = None
  BY DEF HasLimits
<1>6. /\ \A j \in 1 .. n : Key(k, j) = "restart" => c.restart = Secs(k)[j].val
      /\ (\A j \in 1 .. n : Key(k, j) # "restart") => c.restart = "never"
  BY DEF HasPolicy
<1> HIDE DEF m, d, n
<1>7. c.restart = m.restart
  BY <1>1, <1>6
<1>8. /\ m.memory = IF c.memory = None THEN DefaultMemory ELSE c.memory
      /\ m.pids = IF c.pids = None THEN DefaultPids ELSE c.pids
  <2>1. CASE \A j \in 1 .. n : Key(k, j) # "resources"
    BY <1>1, <1>5, <2>1
  <2>2. ASSUME NEW j \in 1 .. n, Key(k, j) = "resources"
        PROVE  /\ m.memory = IF c.memory = None THEN DefaultMemory ELSE c.memory
               /\ m.pids = IF c.pids = None THEN DefaultPids ELSE c.pids
    <3>1. c.memory = parse_memory(Secs(k)[j].memory) /\ c.pids = Secs(k)[j].pids
          /\ Secs(k)[j].memory \in Sizes \cup {None}
      BY <1>4, <2>2
    <3>2. /\ c.memory = None <=> Absent(Secs(k)[j].memory)
          /\ c.memory \in Nat => c.memory = Size(Secs(k)[j].memory)
      BY <3>1, ParsedMemory
    <3>3. c.memory = None \/ c.memory \in Nat
      BY Constants
    <3>4. /\ m.memory = IF Absent(Secs(k)[j].memory) THEN DefaultMemory
                        ELSE Size(Secs(k)[j].memory)
          /\ m.pids = IF Secs(k)[j].pids = None THEN DefaultPids ELSE Secs(k)[j].pids
      BY <1>1, <2>2
    <3> QED BY <3>1, <3>2, <3>3, <3>4
  <2> QED BY <2>1, <2>2
<1>9. /\ d.ports = c.ports /\ m.ports = Mapped(k, n)
      /\ d.image = m.image /\ d.restart = m.restart /\ d.memory = m.memory /\ d.pids = m.pids
  BY <1>1, <1>3, <1>7, <1>8
<1>10. d.memory \in 0 .. SizeMax \cup {DefaultMemory}
  BY <1>3, Constants
<1>11. d \in Builders
  BY <1>2, <1>3, <1>10, Constants DEF Builders
<1>12. m \in Builders
  <2>1. Mapped(k, n) \in Seq(Mappings)
    <3>1. n \in 0 .. n
      BY DocFacts DEF n
    <3> QED BY <3>1, MappedFacts DEF n
  <2> QED BY <1>1, <1>2, <1>7, <1>8, <1>9, <1>10, <2>1, Constants DEF Builders
<1>13. \A j \in 1 .. n : Key(k, j) = "resources" => parse_memory(Secs(k)[j].memory) # Overflow
  BY <1>4, Constants
<1> QED BY <1>9, <1>10, <1>11, <1>12, <1>13 DEF m, d, n

\* A mapping in progress behind the last section.
LEMMA CameIsLoose ==
  ASSUME doc \in Docs, NEW k \in 1 .. Count
  PROVE  Came(k, Len(Secs(k))) => Loose(k)
<1>1. Len(Secs(k)) \in Nat /\ Secs(k) \in Seq(Sections) /\ Secs(k) = doc.containers[k].sections
      /\ k \in Nat /\ Count \in Nat
  BY DocFacts DEF Secs
<1>2. CASE Len(Secs(k)) > 0
  <2>1. ASSUME Came(k, Len(Secs(k))) PROVE Loose(k)
    <3>1. Secs(k) # <<>> /\ Last(Secs(k)).key = "ports"
      BY <1>1, <1>2, <2>1 DEF Came, Key, Last
    <3>2. k \in 1 .. k /\ \A i \in (k + 1) .. k : doc.containers[i].sections = <<>>
      BY <1>1
    <3> QED BY <1>1, <3>1, <3>2 DEF Loose
  <2> QED BY <2>1
<1>3. CASE Len(Secs(k)) = 0
  <2>1. ASSUME Came(k, Len(Secs(k))) PROVE Loose(k)
    <3>1. Loose(k - 1) /\ Secs(k) = <<>>
      BY <1>1, <1>3, <2>1 DEF Came
    <3>2. PICK j \in 1 .. (k - 1) :
            /\ LET s == doc.containers[j].sections IN s # <<>> /\ Last(s).key = "ports"
            /\ \A i \in (j + 1) .. (k - 1) : doc.containers[i].sections = <<>>
      BY <3>1 DEF Loose
    <3>3. j \in 1 .. k /\ \A i \in (j + 1) .. k : i = k \/ i \in (j + 1) .. (k - 1)
      BY <1>1
    <3>4. \A i \in (j + 1) .. k : doc.containers[i].sections = <<>>
      BY <1>1, <3>1, <3>2, <3>3
    <3> QED BY <3>2, <3>3, <3>4 DEF Loose
  <2> QED BY <2>1
<1> QED BY <1>1, <1>2, <1>3

\* One container more.
LEMMA PushedNext ==
  ASSUME doc \in Docs, doc' = doc, NEW CONSTANT k \in Nat, k \in 1 .. Count, Pushed(k - 1),
         NEW CONSTANT d \in Builders, containers' = Append(containers, d),
         LET m == Meaning(doc.containers[k]) IN
           /\ m \in Builders
           /\ d.image = m.image /\ d.restart = m.restart /\ d.memory = m.memory /\ d.pids = m.pids
           /\ d.memory \in 0 .. SizeMax \cup {DefaultMemory}
           /\ \A j \in 1 .. Len(Secs(k)) :
                 Key(k, j) = "resources" => parse_memory(Secs(k)[j].memory) # Overflow
           /\ Own(k) /\ ~(Loose(k) /\ Followed(k)) => d.ports = m.ports
  PROVE  Pushed(k)' /\ AllPorts(containers)' = AllPorts(containers) \o d.ports
<1>1. containers \in Seq(Builders) /\ Len(containers) = k - 1 /\ \A i \in 1 .. k - 1 : PushedRight(i)
  BY DEF Pushed
<1>2. /\ containers' \in Seq(Builders) /\ Len(containers') = k /\ containers'[k] = d
      /\ \A i \in 1 .. k - 1 : containers'[i] = containers[i]
  BY <1>1
<1>3. ASSUME NEW CONSTANT i \in 1 .. k - 1 PROVE PushedRight(i)'
  BY <1>1, <1>2, SameDoc DEF PushedRight
<1>4. PushedRight(k)'
  BY <1>2, SameDoc DEF PushedRight
<1>5. \A i \in 1 .. k : PushedRight(i)'
  <2>1. \A i \in 1 .. k : i = k \/ i \in 1 .. k - 1
    OBVIOUS
  <2> QED BY <1>3, <1>4, <2>1
<1>6. AllPorts(containers)' = AllPorts(Append(containers, d))
  BY DEF AllPorts
<1> QED BY <1>1, <1>2, <1>5, <1>6, AllPortsFacts DEF Pushed
-----------------------------------------------------------------------------
(* One line further, from each place to the next.                           *)

\* What each step starts from, and what it leaves.
Running == doc \in Docs /\ done = FALSE /\ panicked = FALSE /\ ParserNext
Onward == doc' = doc /\ done' = FALSE /\ panicked' = FALSE

LEMMA SamePlace ==
  ASSUME NEW CONSTANT k, NEW CONSTANT j, doc' = doc
  PROVE  /\ HasPolicy(current, k, j)' <=> HasPolicy(current', k, j)
         /\ HasLimits(current, k, j)' <=> HasLimits(current', k, j)
<1>1. Secs(k)' = Secs(k) /\ \A i : Key(k, i)' = Key(k, i)
  BY SameDoc
<1>2. \A m : parse_memory(m)' = parse_memory(m)
  BY DEF parse_memory
<1> QED BY <1>1, <1>2 DEF HasPolicy, HasLimits

\* A line of the same container is read.
LEMMA StillReading ==
  ASSUME doc' = doc, NEW CONSTANT k, NEW CONSTANT b, Reading(k, b), containers' = containers,
         in_containers' = in_containers, in_ports' \in BOOLEAN, in_resources' \in BOOLEAN,
         current' \in Builders, current'.image = current.image,
         current'.memory \in 0 .. SizeMax \cup {None},
         current_port' \in Mappings \cup {None}
  PROVE  Reading(k, b)'
<1>1. Pushed(k - 1)' /\ Count' = Count /\ AllMapped(k - 1)' = AllMapped(k - 1) /\ Own(k)' = Own(k)
  BY SameDoc, SamePushed DEF Reading
<1>2. AllPorts(containers)' = AllPorts(containers)
  BY DEF AllPorts
<1> QED BY <1>1, <1>2 DEF Reading

\* What flushing the mapping in progress makes of a builder.
LEMMA Flushed ==
  ASSUME NEW k, NEW b, Reading(k, b)
  PROVE  LET c == current
             f == FlushPort(c)
         IN  /\ f \in Builders /\ f # None /\ Pending \in Seq(Mappings) /\ c.ports \in Seq(Mappings)
             /\ f.image = c.image /\ f.restart = c.restart /\ f.memory = c.memory /\ f.pids = c.pids
             /\ f.ports = c.ports \o Pending
<1> DEFINE c == current
           f == FlushPort(c)
<1>1. /\ c \in Builders /\ c # None /\ current_port \in Mappings \cup {None}
      /\ c.ports \in Seq(Mappings)
  BY Constants DEF Reading, Builders
<1>2. Pending \in Seq(Mappings)
  BY <1>1 DEF Pending
<1>3. CASE current_port # None /\ Complete(current_port)
  <2>1. f = [c EXCEPT !.ports = Append(@, current_port)] /\ Pending = <<current_port>>
    BY <1>1, <1>3 DEF FlushPort, Pending
  <2>2. current_port \in Mappings
    BY <1>1, <1>3
  <2> HIDE DEF c, f
  <2>3. Append(c.ports, current_port) = c.ports \o <<current_port>>
    BY <1>1, <2>2
  <2>4. Append(c.ports, current_port) \in Seq(Mappings)
    BY <1>1, <2>2
  <2>5. /\ f \in Builders /\ f.ports = Append(c.ports, current_port)
        /\ f.image = c.image /\ f.restart = c.restart /\ f.memory = c.memory /\ f.pids = c.pids
    BY <1>1, <2>1, <2>4 DEF Builders
  <2> QED BY <1>1, <1>2, <2>1, <2>3, <2>5, Constants DEF c, f
<1>4. CASE ~(current_port # None /\ Complete(current_port))
  <2>1. f = c /\ Pending = <<>>
    BY <1>4 DEF FlushPort, Pending
  <2>2. c.ports \o <<>> = c.ports
    BY <1>1, ConcatEmptySeq
  <2> QED BY <1>1, <1>2, <2>1, <2>2
<1> QED BY <1>3, <1>4

\* Before the list.
LEMMA HeadStep ==
  ASSUME Running, NEW CONSTANT i \in 0 .. 2, AtHead(i)
  PROVE  Onward /\ AtHead(i + 1)'
<1>0. ContainersFrom(0) \in Seq(AllLines)
  <2>1. 0 \in 0 .. Count
    BY DocFacts DEF Running
  <2> QED BY <2>1, FromContainer DEF Running
<1> DEFINE a == Line(0, "other", None)
           e == Line(2, "image_item", "ignored")
           l == Line(0, "containers", None)
<1>1. a \in AllLines /\ e \in AllLines /\ l \in AllLines
  <2>1. "ignored" \in Vals
    BY DEF Vals
  <2> QED BY <2>1, LineTypes DEF Keys
<1>2. /\ a.indent = 0 /\ a.key = "other" /\ e.indent = 2
      /\ l.indent = 0 /\ l.key = "containers"
  BY DEF Line
<1>3. /\ HeadLines(0) = Cons(a, HeadLines(1)) /\ HeadLines(1) = Cons(e, HeadLines(2))
      /\ HeadLines(2) = Cons(l, HeadLines(3)) /\ HeadLines(3) = ContainersFrom(0)
  BY DEF HeadLines
<1> HIDE DEF a, e, l
<1>4. HeadLines(3) \in Seq(AllLines) /\ HeadLines(2) \in Seq(AllLines) /\ HeadLines(1) \in Seq(AllLines)
  BY <1>0, <1>1, <1>3, ConsFacts
<1>5. ASSUME doc' = doc, NEW CONSTANT n PROVE HeadLines(n)' = HeadLines(n)
  <2>1. ContainersFrom(0)' = ContainersFrom(0)
    BY <1>5, SameDoc
  <2> QED BY <2>1 DEF HeadLines
<1>6. /\ lines = HeadLines(i) /\ in_containers = FALSE /\ containers = <<>>
      /\ current = None /\ current_port = None
      /\ in_ports = FALSE /\ in_resources = FALSE
  BY DEF AtHead
<1>7. WithPending = <<>>
  BY <1>6 DEF WithPending
<1>8. ASSUME NEW x \in AllLines, NEW r \in Seq(AllLines), lines = Cons(x, r)
      PROVE  /\ L = x /\ Onward /\ lines' = r
             /\ x.indent = 0 => TopLevel
             /\ in_containers = FALSE /\ x.indent # 0 => Outside
  <2>1. ~MemoryOverflow
    BY <1>6 DEF MemoryOverflow, Panics, AtResource
  <2> QED BY <1>8, <2>1, EachLine DEF Running, Onward
<1>9. CASE i = 0
  <2>1. L = a /\ Onward /\ lines' = HeadLines(1) /\ TopLevel
    BY <1>1, <1>2, <1>3, <1>4, <1>6, <1>8, <1>9
  <2>2. /\ containers' = <<>> /\ current' = None /\ in_containers' = FALSE
        /\ in_ports' = FALSE /\ in_resources' = FALSE /\ current_port' = None
    BY <1>2, <1>6, <1>7, <2>1 DEF TopLevel
  <2>3. lines' = HeadLines(1)'
    BY <1>5, <2>1 DEF Onward
  <2>4. AtHead(1)'
    BY <2>2, <2>3 DEF AtHead
  <2> QED BY <1>9, <2>1, <2>4
<1>10. CASE i = 1
  <2>0. lines = Cons(e, HeadLines(2)) /\ e.indent # 0
    BY <1>2, <1>3, <1>6, <1>10
  <2>1. Onward /\ lines' = HeadLines(2) /\ Outside
    BY <1>1, <1>4, <1>6, <1>8, <2>0
  <2>2. /\ containers' = <<>> /\ current' = None /\ in_containers' = FALSE
        /\ in_ports' = FALSE /\ in_resources' = FALSE /\ current_port' = None
    BY <1>6, <2>1 DEF Outside, flags
  <2>3. lines' = HeadLines(2)'
    BY <1>5, <2>1 DEF Onward
  <2>4. AtHead(2)'
    BY <2>2, <2>3 DEF AtHead
  <2> QED BY <1>10, <2>1, <2>4
<1>11. CASE i = 2
  <2>1. L = l /\ Onward /\ lines' = HeadLines(3) /\ TopLevel
    BY <1>1, <1>2, <1>3, <1>4, <1>6, <1>8, <1>11
  <2>2. /\ containers' = <<>> /\ current' = None /\ in_containers' = TRUE
        /\ in_ports' = FALSE /\ in_resources' = FALSE /\ current_port' = None
    BY <1>2, <1>6, <1>7, <2>1 DEF TopLevel
  <2>3. lines' = HeadLines(3)'
    BY <1>5, <2>1 DEF Onward
  <2>4. AtHead(3)'
    BY <2>2, <2>3 DEF AtHead
  <2> QED BY <1>11, <2>1, <2>4
<1> QED BY <1>9, <1>10, <1>11
-----------------------------------------------------------------------------
(* Within a container: its sections.                                        *)

LEMMA GivenOnce ==
  ASSUME doc \in Docs, NEW k \in 1 .. Count, NEW j \in 1 .. Len(Secs(k)), NEW c, NEW d
  PROVE  /\ Key(k, j) # "restart" /\ HasPolicy(c, k, j - 1) /\ d.restart = c.restart
              => HasPolicy(d, k, j)
         /\ Key(k, j) # "resources" /\ HasLimits(c, k, j - 1)
              /\ d.memory = c.memory /\ d.pids = c.pids => HasLimits(d, k, j)
         /\ Key(k, j) = "restart" /\ d.restart = Secs(k)[j].val => HasPolicy(d, k, j)
         /\ Key(k, j) = "resources" /\ d.memory = parse_memory(Secs(k)[j].memory)
              /\ d.pids = Secs(k)[j].pids => HasLimits(d, k, j)
         /\ Key(k, j) = "resources" /\ HasLimits(c, k, j - 1) => c.memory = None /\ c.pids = None
<1>1. Len(Secs(k)) \in Nat /\ j \in 1 .. j /\ \A i \in 1 .. j : i = j \/ i \in 1 .. j - 1
  BY DocFacts
<1>2. \A i \in 1 .. j - 1 : i \in 1 .. Len(Secs(k)) /\ i # j /\ i \in 1 .. j
  BY <1>1
<1>3. \A i \in 1 .. j - 1 : Key(k, j) \in {"restart", "resources"} => Key(k, i) # Key(k, j)
  BY <1>2, DocFacts
<1>4. \A i \in 1 .. j : Key(k, j) \in {"restart", "resources"} /\ Key(k, i) = Key(k, j) => i = j
  BY <1>1, <1>3
<1> QED BY <1>1, <1>2, <1>3, <1>4 DEF HasPolicy, HasLimits

\* A section's key is read.
LEMMA KeyRead ==
  ASSUME Running, NEW CONSTANT k, NEW CONSTANT b, Reading(k, b),
         NEW x \in AllLines, NEW r \in Seq(AllLines), lines = Cons(x, r),
         x.indent = 4, x.key = "restart" => x.val \in Policies,
         x.key = "host_item" => in_ports = TRUE /\ x.val \in Ports
  PROVE  /\ Onward /\ lines' = r /\ Reading(k, b)'
         /\ current'.ports = current.ports \o Pending
         /\ current'.memory = current.memory
         /\ current'.pids = current.pids
         /\ x.key = "restart" => current'.restart = x.val
         /\ x.key # "restart" => current'.restart = current.restart
         /\ x.key = "host_item" => in_ports' = TRUE /\ current_port' = <<x.val, None>>
         /\ x.key # "host_item" => current_port' = None
         /\ x.key = "ports" => in_ports' = TRUE
         /\ x.key = "resources" => in_resources' = TRUE /\ in_ports' = FALSE
<1> DEFINE c == current
           f == FlushPort(c)
<1>1. in_containers = TRUE /\ in_ports \in BOOLEAN /\ in_resources \in BOOLEAN
      /\ c.memory \in 0 .. SizeMax \cup {None}
  BY DEF Reading
<1>2. L = x /\ ContainerKey
  BY <1>1, EachLine DEF Running
<1>3. ~MemoryOverflow
  BY <1>2 DEF MemoryOverflow, Panics, AtResource
<1>4. Onward /\ lines' = r
  BY <1>3, EachLine DEF Running, Onward
<1>5. /\ f \in Builders /\ f # None
      /\ f.image = c.image /\ f.restart = c.restart /\ f.memory = c.memory /\ f.pids = c.pids
      /\ f.ports = c.ports \o Pending
  BY Flushed
<1> HIDE DEF f
<1>6. /\ current' = IF x.key = "restart" THEN [f EXCEPT !.restart = x.val] ELSE f
      /\ containers' = containers /\ in_containers' = in_containers
  BY <1>2, <1>5 DEF ContainerKey, f
<1>7. /\ current_port' = IF in_ports /\ x.key = "host_item" THEN <<x.val, None>> ELSE None
      /\ in_ports' = (x.key = "ports" \/ (in_ports /\ x.key \notin {"resources", "restart"}))
      /\ in_resources' = (x.key = "resources" \/ (in_resources /\ x.key \notin {"ports", "restart"}))
  BY <1>2 DEF ContainerKey
<1>8. /\ in_ports' \in BOOLEAN /\ in_resources' \in BOOLEAN
      /\ x.key = "ports" => in_ports' = TRUE
      /\ x.key = "host_item" => in_ports' = TRUE
      /\ x.key = "resources" => in_resources' = TRUE /\ in_ports' = FALSE
  BY <1>1, <1>7
<1>9. /\ current_port' = IF x.key = "host_item" THEN <<x.val, None>> ELSE None
      /\ current_port' \in Mappings \cup {None}
  BY <1>7 DEF Mappings, Ports
<1>10. /\ current' \in Builders
       /\ current'.image = c.image /\ current'.ports = c.ports \o Pending
       /\ current'.memory = c.memory /\ current'.pids = c.pids
       /\ current'.restart = IF x.key = "restart" THEN x.val ELSE c.restart
  BY <1>5, <1>6 DEF Builders
<1>11. Reading(k, b)'
  BY <1>1, <1>4, <1>6, <1>8, <1>9, <1>10, StillReading DEF Onward
<1> QED BY <1>4, <1>8, <1>9, <1>10, <1>11

LEMMA SectionStep ==
  ASSUME Running, NEW CONSTANT k, NEW CONSTANT j, NEW CONSTANT b,
         j \in 1 .. Len(Secs(k)), AtSection(k, j - 1, b)
  PROVE  /\ Onward
         /\ Key(k, j) = "ports" => AtPort(k, j, 0, b)'
         /\ Key(k, j) = "resources" => AtLimit(k, j, 0, b)'
         /\ Key(k, j) \in {"restart", "unknown"} => AtSection(k, j, b)'
<1> DEFINE s == Secs(k)[j]
           c == current
           d == current'
<1>1. /\ doc \in Docs /\ k \in 1 .. Count /\ Reading(k, b) /\ lines = SectionsFrom(k, j - 1)
      /\ HasPolicy(c, k, j - 1) /\ HasLimits(c, k, j - 1)
      /\ c.ports \o Pending = b \o Mapped(k, j - 1)
  BY DEF Running, AtSection, Reading
<1>2. s \in Sections /\ s.key = Key(k, j) /\ Len(Secs(k)) \in Nat /\ j \in 1 .. Len(Secs(k))
  BY <1>1, DocFacts DEF Key
<1>3. SectionsFrom(k, j) \in Seq(AllLines)
  BY <1>1, <1>2, FromSection
<1>4. /\ Mapped(k, j - 1) \in Seq(Mappings) /\ b \in Seq(Mappings)
      /\ Key(k, j) # "ports" => Mapped(k, j) = Mapped(k, j - 1)
      /\ Key(k, j) = "ports" => MappedIn(k, j, 0) = <<>> /\ Len(s.ports) \in Nat
  <2>1. j - 1 \in 0 .. Len(Secs(k))
    BY <1>2
  <2>2. Key(k, j) = "ports" => s.ports \in Seq(Mappings)
    BY <1>2, SectionKinds
  <2>3. Mapped(k, j - 1) \in Seq(Mappings)
    BY <1>1, <2>1, MappedFacts
  <2>4. /\ Key(k, j) # "ports" => Mapped(k, j) = Mapped(k, j - 1)
        /\ Key(k, j) = "ports" => MappedIn(k, j, 0) = <<>>
    BY <1>1, <1>2, MappedFacts
  <2> QED BY <1>1, <2>2, <2>3, <2>4 DEF Reading
<1>5. CASE Key(k, j) = "ports"
  <2> DEFINE x == Line(4, "ports", None)
  <2>1. x \in AllLines /\ x.indent = 4 /\ x.key = "ports"
    BY LineTypes DEF Keys, Line
  <2>2. lines = Cons(x, PortsFrom(k, j, 0)) /\ PortsFrom(k, j, 0) \in Seq(AllLines)
    <3>1. 0 \in 0 .. Len(s.ports)
      BY <1>4, <1>5
    <3> QED BY <1>1, <1>2, <1>5, <3>1, FromPorts
  <2> HIDE DEF x
  <2>3. /\ Onward /\ lines' = PortsFrom(k, j, 0) /\ Reading(k, b)' /\ in_ports' = TRUE
        /\ d.ports = b \o Mapped(k, j - 1) /\ d.restart = c.restart
        /\ d.memory = c.memory /\ d.pids = c.pids /\ current_port' = None
    BY <1>1, <2>1, <2>2, KeyRead
  <2>4. HasPolicy(d, k, j) /\ HasLimits(d, k, j)
    BY <1>1, <1>2, <1>5, <2>3, GivenOnce
  <2>5. Pending' = <<>> /\ d.ports \o <<>> = b \o (Mapped(k, j - 1) \o MappedIn(k, j, 0))
    <3>1. b \o Mapped(k, j - 1) \in Seq(Mappings)
      BY <1>4, ConcatProperties
    <3> QED BY <1>4, <1>5, <2>3, <3>1, ConcatEmptySeq DEF Pending
  <2>6. AtPort(k, j, 0, b)'
    <3>1. 0 \in 0 .. Len(s.ports)
      BY <1>4, <1>5
    <3> QED BY <1>2, <1>5, <2>3, <2>4, <2>5, <3>1, SameDoc, SamePlace DEF AtPort, Onward
  <2> QED BY <1>5, <2>3, <2>6
<1>6. ASSUME Key(k, j) # "ports", NEW x \in AllLines, NEW r \in Seq(AllLines), lines = Cons(x, r),
             x.indent = 4, x.key = Key(k, j), x.key = "restart" => x.val = s.val,
             x.key = "restart" => x.val \in Policies
      PROVE  /\ Onward /\ lines' = r /\ Reading(k, b)' /\ current_port' = None
             /\ Pending' = <<>> /\ d.ports = b \o Mapped(k, j) /\ d.ports \o <<>> = d.ports
             /\ HasPolicy(d, k, j) /\ d.memory = c.memory /\ d.pids = c.pids
             /\ x.key = "resources" => in_resources' = TRUE /\ in_ports' = FALSE
  <2>1. x.key \in {"restart", "resources", "unknown"}
    BY <1>2, <1>6, SectionKinds
  <2>2. /\ Onward /\ lines' = r /\ Reading(k, b)'
        /\ d.ports = b \o Mapped(k, j - 1)
        /\ x.key = "restart" => d.restart = x.val
        /\ x.key # "restart" => d.restart = c.restart
        /\ d.memory = c.memory /\ d.pids = c.pids /\ current_port' = None
        /\ x.key = "resources" => in_resources' = TRUE /\ in_ports' = FALSE
    BY <1>1, <1>6, <2>1, KeyRead
  <2>3. HasPolicy(d, k, j)
    BY <1>1, <1>2, <1>6, <2>2, GivenOnce
  <2>4. b \o Mapped(k, j - 1) \in Seq(Mappings)
    BY <1>4, ConcatProperties
  <2> QED BY <1>4, <1>6, <2>2, <2>3, <2>4, ConcatEmptySeq DEF Pending
<1>7. CASE Key(k, j) = "resources"
  <2> DEFINE x == Line(4, "resources", None)
             r == LimitLines(k, j, 0)
  <2>1. x \in AllLines /\ x.indent = 4 /\ x.key = "resources"
    BY LineTypes DEF Keys, Line
  <2>2. lines = Cons(x, r)
    BY <1>1, <1>2, <1>7, FromOthers DEF LimitLines
  <2>3. r \in Seq(AllLines)
    <3>1. /\ Line(6, "memory", s.memory) \in AllLines /\ Line(6, "cpu_shares", None) \in AllLines
          /\ Line(6, "pids_max", s.pids) \in AllLines
      BY <1>2, <1>7, SectionKinds, LineTypes DEF Keys
    <3> QED BY <1>3, <3>1, ConsFacts DEF LimitLines
  <2> HIDE DEF x, r
  <2>4. /\ Onward /\ lines' = r /\ Reading(k, b)' /\ current_port' = None
        /\ d.ports = b \o Mapped(k, j) /\ HasPolicy(d, k, j)
        /\ d.memory = c.memory /\ d.pids = c.pids
        /\ in_resources' = TRUE /\ in_ports' = FALSE
    BY <1>6, <1>7, <2>1, <2>2, <2>3
  <2>5. c.memory = None /\ c.pids = None
    BY <1>1, <1>2, <1>7, GivenOnce
  <2>6. r' = r
    BY <2>4, SameDoc DEF r, LimitLines, Onward
  <2>8. /\ Secs(k)' = Secs(k) /\ Key(k, j)' = Key(k, j) /\ Mapped(k, j)' = Mapped(k, j)
        /\ HasPolicy(current, k, j)'
    BY <2>4, SameDoc, SamePlace DEF Onward
  <2>7. AtLimit(k, j, 0, b)'
    BY <1>2, <1>7, <2>4, <2>5, <2>6, <2>8 DEF AtLimit, r
  <2> QED BY <1>7, <2>4, <2>7
<1>8. ASSUME Key(k, j) \in {"restart", "unknown"}
      PROVE  Onward /\ AtSection(k, j, b)'
  <2> DEFINE x == IF Key(k, j) = "restart" THEN Line(4, "restart", s.val)
                  ELSE Line(4, "unknown", None)
  <2>1. /\ x \in AllLines /\ x.indent = 4 /\ x.key = Key(k, j)
        /\ x.key = "restart" => x.val = s.val /\ x.val \in Policies
    <3>1. CASE Key(k, j) = "restart"
      BY <1>2, <3>1, SectionKinds, LineTypes DEF Keys, Line
    <3>2. CASE Key(k, j) = "unknown"
      BY <3>2, LineTypes DEF Keys, Line
    <3> QED BY <1>8, <3>1, <3>2
  <2>2. lines = Cons(x, SectionsFrom(k, j))
    BY <1>1, <1>2, <1>8, FromOthers
  <2> HIDE DEF x
  <2>3. /\ Onward /\ lines' = SectionsFrom(k, j) /\ Reading(k, b)' /\ current_port' = None
        /\ Pending' = <<>> /\ d.ports \o <<>> = b \o Mapped(k, j)
        /\ HasPolicy(d, k, j) /\ d.memory = c.memory /\ d.pids = c.pids
    BY <1>3, <1>6, <1>8, <2>1, <2>2
  <2>4. HasLimits(d, k, j)
    BY <1>1, <1>2, <1>8, <2>3, GivenOnce
  <2>5. j \in 0 .. Len(Secs(k))
    BY <1>2
  <2>6. AtSection(k, j, b)'
    BY <2>3, <2>4, <2>5, SameDoc, SamePlace DEF AtSection, Onward
  <2> QED BY <2>3, <2>6
<1> QED BY <1>2, <1>5, <1>7, <1>8, SectionKinds
-----------------------------------------------------------------------------
(* Within a section: its mappings, and its limits.                          *)

LEMMA HostStep ==
  ASSUME Running, NEW CONSTANT k, NEW CONSTANT j, NEW CONSTANT m \in Nat, NEW CONSTANT b,
         AtPort(k, j, m - 1, b), m \in 1 .. Len(Secs(k)[j].ports)
  PROVE  Onward /\ MidPort(k, j, m, b)'
<1> DEFINE s == Secs(k)[j]
           c == current
           d == current'
           x == Line(s.at, "host_item", s.ports[m][1])
           r == Cons(Line(s.at + 2, "container", s.ports[m][2]), PortsFrom(k, j, m))
<1>1. /\ doc \in Docs /\ k \in 1 .. Count /\ Reading(k, b) /\ j \in 1 .. Len(Secs(k))
      /\ Key(k, j) = "ports" /\ lines = PortsFrom(k, j, m - 1) /\ in_ports = TRUE
      /\ HasPolicy(c, k, j) /\ HasLimits(c, k, j)
      /\ c.ports \o Pending = b \o (Mapped(k, j - 1) \o MappedIn(k, j, m - 1))
  BY DEF Running, AtPort, Reading
<1>2. /\ s.ports \in Seq(Mappings) /\ s.at \in {4, 6} /\ m \in 0 .. Len(s.ports)
      /\ PortsFrom(k, j, m) \in Seq(AllLines)
      /\ x \in AllLines /\ Line(s.at + 2, "container", s.ports[m][2]) \in AllLines
      /\ lines = Cons(x, r)
  <2>1. s.ports \in Seq(Mappings)
    BY <1>1, FromPorts
  <2>2. m \in 0 .. Len(s.ports)
    BY <2>1
  <2> QED BY <1>1, <2>1, <2>2, FromPorts
<1>3. r \in Seq(AllLines)
  BY <1>2, ConsFacts
<1>4. x.indent = s.at /\ x.key = "host_item" /\ x.val = s.ports[m][1] /\ x.val \in Ports
  <2>1. s.ports[m] \in Mappings
    BY <1>2
  <2> QED BY <2>1 DEF Line, Mappings
<1> HIDE DEF x, r
<1>5. /\ Onward /\ lines' = r /\ Reading(k, b)' /\ in_ports' = TRUE
      /\ current_port' = <<s.ports[m][1], None>> /\ d.ports = c.ports \o Pending
      /\ d.restart = c.restart /\ d.memory = c.memory /\ d.pids = c.pids
  <2>1. CASE s.at = 4
    BY <1>1, <1>2, <1>3, <1>4, <2>1, KeyRead
  <2>2. CASE s.at = 6
    <3>1. in_containers = TRUE /\ in_resources \in BOOLEAN /\ c.memory \in 0 .. SizeMax \cup {None}
      BY <1>1 DEF Reading
    <3>2. L = x /\ HostItem
      BY <1>1, <1>2, <1>3, <1>4, <2>2, <3>1, EachLine DEF Running
    <3>3. ~MemoryOverflow
      BY <1>1, <3>2 DEF MemoryOverflow, Panics, AtResource
    <3>4. Onward /\ lines' = r
      BY <1>2, <1>3, <3>3, EachLine DEF Running, Onward
    <3>5. /\ d = FlushPort(c) /\ containers' = containers /\ in_containers' = in_containers
          /\ in_ports' = TRUE /\ in_resources' = in_resources
          /\ current_port' = <<s.ports[m][1], None>>
      BY <1>1, <1>4, <3>2 DEF HostItem, flags
    <3>6. /\ d \in Builders /\ d.image = c.image /\ d.restart = c.restart
          /\ d.memory = c.memory /\ d.pids = c.pids /\ d.ports = c.ports \o Pending
      BY <1>1, <3>5, Flushed
    <3>7. current_port' \in Mappings \cup {None}
      BY <1>4, <3>5 DEF Mappings, Ports
    <3> QED BY <1>1, <3>1, <3>4, <3>5, <3>6, <3>7, StillReading DEF Onward
  <2> QED BY <1>2, <2>1, <2>2
<1>6. HasPolicy(d, k, j) /\ HasLimits(d, k, j)
  BY <1>1, <1>5 DEF HasPolicy, HasLimits
<1>7. r' = r
  BY <1>5, SameDoc DEF r, Onward
<1>8. /\ Secs(k)' = Secs(k) /\ Key(k, j)' = Key(k, j) /\ Mapped(k, j - 1)' = Mapped(k, j - 1)
      /\ MappedIn(k, j, m - 1)' = MappedIn(k, j, m - 1)
      /\ HasPolicy(current, k, j)' /\ HasLimits(current, k, j)'
  BY <1>5, <1>6, SameDoc, SamePlace DEF Onward
<1>9. MidPort(k, j, m, b)'
  BY <1>1, <1>5, <1>7, <1>8 DEF MidPort, r
<1> QED BY <1>5, <1>9

LEMMA PortStep ==
  ASSUME Running, NEW CONSTANT k, NEW CONSTANT j, NEW CONSTANT m \in Nat, NEW CONSTANT b,
         MidPort(k, j, m, b)
  PROVE  Onward /\ AtPort(k, j, m, b)'
<1> DEFINE s == Secs(k)[j]
           c == current
           x == Line(s.at + 2, "container", s.ports[m][2])
           one == IF Complete(s.ports[m]) THEN <<s.ports[m]>> ELSE <<>>
<1>1. /\ doc \in Docs /\ k \in 1 .. Count /\ Reading(k, b) /\ j \in 1 .. Len(Secs(k))
      /\ Key(k, j) = "ports" /\ m \in 1 .. Len(s.ports) /\ in_ports = TRUE
      /\ lines = Cons(x, PortsFrom(k, j, m))
      /\ HasPolicy(c, k, j) /\ HasLimits(c, k, j) /\ current_port = <<s.ports[m][1], None>>
      /\ c.ports = b \o (Mapped(k, j - 1) \o MappedIn(k, j, m - 1))
  BY DEF Running, MidPort, Reading
<1>2. /\ s.ports \in Seq(Mappings) /\ s.at \in {4, 6} /\ m \in 0 .. Len(s.ports)
      /\ PortsFrom(k, j, m) \in Seq(AllLines) /\ x \in AllLines
  <2>1. s.ports \in Seq(Mappings)
    BY <1>1, FromPorts
  <2>2. m \in 0 .. Len(s.ports)
    BY <1>1, <2>1
  <2> QED BY <1>1, <2>1, <2>2, FromPorts
<1>3. s.ports[m] \in Mappings /\ s.ports[m] = <<s.ports[m][1], s.ports[m][2]>>
      /\ s.ports[m] # None
  <2>1. s.ports[m] \in Mappings
    BY <1>1, <1>2
  <2> QED BY <2>1, Constants DEF Mappings
<1>4. x.indent \in {6, 8} /\ x.key = "container" /\ x.val = s.ports[m][2]
  BY <1>2 DEF Line
<1> HIDE DEF x
<1>5. in_containers = TRUE /\ in_resources \in BOOLEAN /\ c.memory \in 0 .. SizeMax \cup {None}
      /\ c \in Builders
  BY <1>1 DEF Reading
<1>6. L = x /\ ContainerPort
  BY <1>1, <1>2, <1>4, <1>5, EachLine DEF Running
<1>7. ~MemoryOverflow
  BY <1>4, <1>6 DEF MemoryOverflow, Panics, AtResource
<1>8. Onward /\ lines' = PortsFrom(k, j, m)
  BY <1>1, <1>2, <1>7, EachLine DEF Running, Onward
<1>9. current_port # None
  <2>1. s.ports[m][1] \in Ports
    BY <1>3 DEF Mappings
  <2>2. current_port \in Mappings
    BY <1>1, <2>1 DEF Mappings, Ports
  <2> QED BY <2>2, Constants
<1>10. /\ current' = c /\ containers' = containers /\ in_containers' = in_containers
       /\ in_ports' = TRUE /\ in_resources' = in_resources /\ current_port' = s.ports[m]
  BY <1>1, <1>3, <1>4, <1>6, <1>9 DEF ContainerPort, flags
<1>11. Reading(k, b)'
  BY <1>1, <1>3, <1>5, <1>8, <1>10, StillReading DEF Onward
<1>12. Pending' = one
  BY <1>3, <1>10 DEF Pending, Complete
<1>13. current'.ports \o one = b \o (Mapped(k, j - 1) \o MappedIn(k, j, m))
  <2> DEFINE p == Mapped(k, j - 1)
             q == MappedIn(k, j, m - 1)
  <2>1. /\ p \in Seq(Mappings) /\ q \in Seq(Mappings) /\ b \in Seq(Mappings)
        /\ one \in Seq(Mappings)
    <3>1. m - 1 \in 0 .. Len(s.ports)
      BY <1>1, <1>2
    <3>2. q \in Seq(Mappings)
      BY <1>1, <3>1, MappedFacts
    <3>3. j - 1 \in 0 .. Len(Secs(k))
      BY <1>1, DocFacts, SMTT(30)
    <3>4. p \in Seq(Mappings)
      BY <1>1, <3>3, MappedFacts
    <3>5. one \in Seq(Mappings)
      BY <1>3
    <3> QED BY <1>1, <3>2, <3>4, <3>5 DEF Reading
  <2>2. MappedIn(k, j, m) = q \o one
    BY <1>1, MappedFacts
  <2>3. current'.ports = b \o (p \o q)
    BY <1>1, <1>10
  <2> HIDE DEF p, q, one
  <2>4. p \o q \in Seq(Mappings)
    BY ONLY <2>1, ConcatProperties
  <2>5. (b \o (p \o q)) \o one = b \o ((p \o q) \o one)
    <3> DEFINE w == p \o q
    <3>1. w \in Seq(Mappings) /\ b \in Seq(Mappings) /\ one \in Seq(Mappings)
      BY <2>1, <2>4
    <3> HIDE DEF w
    <3>2. (b \o w) \o one = b \o (w \o one)
      BY ONLY <3>1, ConcatAssociative
    <3> QED BY <3>2 DEF w
  <2>6. (p \o q) \o one = p \o (q \o one)
    BY ONLY <2>1, ConcatAssociative
  <2> QED BY <2>2, <2>3, <2>5, <2>6 DEF p
<1>14. /\ Secs(k)' = Secs(k) /\ Key(k, j)' = Key(k, j) /\ Mapped(k, j - 1)' = Mapped(k, j - 1)
       /\ MappedIn(k, j, m)' = MappedIn(k, j, m) /\ PortsFrom(k, j, m)' = PortsFrom(k, j, m)
       /\ HasPolicy(current, k, j)' /\ HasLimits(current, k, j)'
  BY <1>1, <1>8, <1>10, SameDoc, SamePlace DEF Onward
<1>15. AtPort(k, j, m, b)'
  BY <1>1, <1>2, <1>8, <1>10, <1>11, <1>12, <1>13, <1>14 DEF AtPort
<1> QED BY <1>8, <1>15

\* Behind its last mapping a section is read.
LEMMA PortsRead ==
  ASSUME doc \in Docs, NEW k, NEW j, NEW b, AtPort(k, j, Len(Secs(k)[j].ports), b)
  PROVE  AtSection(k, j, b)
<1>1. k \in 1 .. Count /\ j \in 1 .. Len(Secs(k)) /\ Key(k, j) = "ports" /\ Len(Secs(k)) \in Nat
  BY DocFacts DEF AtPort, Reading
<1>2. PortsFrom(k, j, Len(Secs(k)[j].ports)) = SectionsFrom(k, j)
  BY <1>1, FromPorts
<1>3. Mapped(k, j) = Mapped(k, j - 1) \o MappedIn(k, j, Len(Secs(k)[j].ports))
  BY <1>1, MappedFacts
<1>4. Came(k, j) /\ j \in 0 .. Len(Secs(k))
  BY <1>1 DEF Came
<1> QED BY <1>2, <1>3, <1>4 DEF AtSection, AtPort

LEMMA LimitStep ==
  ASSUME Running, NEW CONSTANT k, NEW CONSTANT j, NEW CONSTANT i \in Nat, NEW CONSTANT b,
         AtLimit(k, j, i, b)
  PROVE  \/ doc' = doc /\ done' = FALSE /\ panicked' = TRUE /\ Impossible(doc)
         \/ Onward /\ i < 2 /\ AtLimit(k, j, i + 1, b)'
         \/ Onward /\ AtSection(k, j, b)'
<1> DEFINE s == Secs(k)[j]
           c == current
           d == current'
           x0 == Line(6, "memory", s.memory)
           x1 == Line(6, "cpu_shares", None)
           x2 == Line(6, "pids_max", s.pids)
<1>1. /\ doc \in Docs /\ k \in 1 .. Count /\ Reading(k, b) /\ j \in 1 .. Len(Secs(k))
      /\ Key(k, j) = "resources" /\ i \in 0 .. 2 /\ lines = LimitLines(k, j, i)
      /\ in_containers = TRUE /\ in_resources = TRUE /\ in_ports = FALSE /\ current_port = None
      /\ HasPolicy(c, k, j)
      /\ i = 0 => c.memory = None
      /\ i # 0 => c.memory = parse_memory(s.memory)
      /\ c.pids = None /\ c.ports = b \o Mapped(k, j)
      /\ c \in Builders /\ c.memory \in 0 .. SizeMax \cup {None} /\ c # None
  BY Constants DEF Running, AtLimit, Reading
<1>2. /\ s \in Sections /\ s.key = "resources" /\ s.memory \in Sizes \cup {None}
      /\ s.pids \in Nat \cup {None} /\ Len(Secs(k)) \in Nat
  BY <1>1, DocFacts, SectionKinds DEF Key
<1>3. x0 \in AllLines /\ x1 \in AllLines /\ x2 \in AllLines
  BY <1>2, LineTypes DEF Keys
<1>4. /\ x0.indent = 6 /\ x0.key = "memory" /\ x0.val = s.memory
      /\ x1.indent = 6 /\ x1.key = "cpu_shares"
      /\ x2.indent = 6 /\ x2.key = "pids_max" /\ x2.val = s.pids
  BY DEF Line
<1>5. /\ LimitLines(k, j, 0) = Cons(x0, LimitLines(k, j, 1))
      /\ LimitLines(k, j, 1) = Cons(x1, LimitLines(k, j, 2))
      /\ LimitLines(k, j, 2) = Cons(x2, SectionsFrom(k, j))
  BY DEF LimitLines
<1> HIDE DEF x0, x1, x2
<1>6. /\ SectionsFrom(k, j) \in Seq(AllLines) /\ LimitLines(k, j, 2) \in Seq(AllLines)
      /\ LimitLines(k, j, 1) \in Seq(AllLines)
  <2>1. SectionsFrom(k, j) \in Seq(AllLines)
    <3>1. j \in 0 .. Len(Secs(k))
      BY <1>1, <1>2
    <3> QED BY <1>1, <3>1, FromSection
  <2> QED BY <1>3, <1>5, <2>1, ConsFacts
<1>7. ASSUME doc' = doc
      PROVE  /\ Secs(k)' = Secs(k) /\ Key(k, j)' = Key(k, j) /\ Mapped(k, j)' = Mapped(k, j)
             /\ SectionsFrom(k, j)' = SectionsFrom(k, j)
             /\ \A n : LimitLines(k, j, n)' = LimitLines(k, j, n)
             /\ parse_memory(s.memory)' = parse_memory(s.memory)
  <2>1. /\ Secs(k)' = Secs(k) /\ Key(k, j)' = Key(k, j) /\ Mapped(k, j)' = Mapped(k, j)
        /\ SectionsFrom(k, j)' = SectionsFrom(k, j)
    BY <1>7, SameDoc
  <2> QED BY <2>1 DEF LimitLines, parse_memory
<1>8. CASE i = 0
  <2>1. L = x0 /\ (MemoryOverflow \/ (Onward /\ lines' = LimitLines(k, j, 1)))
        /\ (ResourceKey \/ MemoryOverflow)
    BY <1>1, <1>3, <1>4, <1>5, <1>6, <1>8, EachLine DEF Running, Onward
  <2>2. CASE MemoryOverflow
    <3>1. doc' = doc /\ done' = FALSE /\ panicked' = TRUE /\ parse_memory(s.memory) = Overflow
      BY <1>4, <2>1, <2>2 DEF MemoryOverflow, Panics, Running
    <3>2. ~Absent(s.memory) /\ Size(s.memory) > SizeMax
      BY <1>2, <3>1, ParsedMemory
    <3>3. k \in DOMAIN doc.containers /\ j \in DOMAIN Secs(k)
          /\ doc.containers[k].sections[j] = s
      BY <1>1, DocFacts DEF Secs
    <3>4. Impossible(doc)
      BY <1>2, <3>2, <3>3 DEF Impossible, Secs
    <3> QED BY <3>1, <3>4
  <2>3. CASE ~MemoryOverflow
    <3>1. parse_memory(s.memory) # Overflow
      BY <1>1, <1>4, <2>1, <2>3 DEF ResourceKey, Panics
    <3>2. /\ parse_memory(s.memory) \in 0 .. SizeMax \cup {None}
          /\ parse_memory(s.memory) \in Nat \cup {None}
      BY <1>2, <3>1, ParsedMemory, Constants
    <3>3. /\ d = [c EXCEPT !.memory = parse_memory(s.memory)]
          /\ containers' = containers /\ in_containers' = in_containers
          /\ in_ports' = in_ports /\ in_resources' = in_resources /\ current_port' = current_port
      BY <1>1, <1>4, <2>1, <2>3 DEF ResourceKey, flags
    <3>4. /\ d \in Builders /\ d.image = c.image /\ d.restart = c.restart /\ d.pids = c.pids
          /\ d.ports = c.ports /\ d.memory = parse_memory(s.memory)
      BY <1>1, <3>2, <3>3 DEF Builders
    <3>5. Reading(k, b)'
      BY <1>1, <2>1, <2>3, <3>2, <3>3, <3>4, StillReading DEF Onward, Reading
    <3>6. HasPolicy(current, k, j)'
      BY <1>1, <2>1, <2>3, <3>4, SamePlace, ZenonT(60) DEF HasPolicy, Onward
    <3>7. AtLimit(k, j, 1, b)'
      BY <1>1, <1>7, <2>1, <2>3, <3>3, <3>4, <3>5, <3>6 DEF AtLimit, Onward
    <3> QED BY <1>8, <2>1, <2>3, <3>7
  <2> QED BY <2>2, <2>3
<1>9. CASE i = 1
  <2>1. L = x1 /\ (MemoryOverflow \/ (Onward /\ lines' = LimitLines(k, j, 2))) /\ Unmatched
    BY <1>1, <1>3, <1>4, <1>5, <1>6, <1>9, EachLine DEF Running, Onward
  <2>2. ~MemoryOverflow
    BY <1>4, <2>1 DEF MemoryOverflow, Panics
  <2>3. /\ d = c /\ containers' = containers /\ in_containers' = in_containers
        /\ in_ports' = in_ports /\ in_resources' = in_resources /\ current_port' = current_port
    BY <2>1 DEF Unmatched, flags
  <2>4. Reading(k, b)'
    BY <1>1, <2>1, <2>2, <2>3, StillReading DEF Onward, Reading
  <2>5. HasPolicy(current, k, j)'
    BY <1>1, <2>1, <2>2, <2>3, SamePlace DEF Onward
  <2>6. AtLimit(k, j, 2, b)'
    BY <1>1, <1>7, <1>9, <2>1, <2>2, <2>3, <2>4, <2>5 DEF AtLimit, Onward
  <2> QED BY <1>9, <2>1, <2>2, <2>6
<1>10. CASE i = 2
  <2>1. L = x2 /\ (MemoryOverflow \/ (Onward /\ lines' = SectionsFrom(k, j))) /\ ResourceKey
    BY <1>1, <1>3, <1>4, <1>5, <1>6, <1>10, EachLine DEF Running, Onward
  <2>2. ~MemoryOverflow
    BY <1>4, <2>1 DEF MemoryOverflow, Panics
  <2>3. /\ d = [c EXCEPT !.pids = s.pids]
        /\ containers' = containers /\ in_containers' = in_containers
        /\ in_ports' = in_ports /\ in_resources' = in_resources /\ current_port' = None
    BY <1>1, <1>4, <2>1 DEF ResourceKey, flags
  <2>4. /\ d \in Builders /\ d.image = c.image /\ d.restart = c.restart /\ d.pids = s.pids
        /\ d.ports = c.ports /\ d.memory = c.memory
    BY <1>1, <1>2, <2>3 DEF Builders
  <2>5. Reading(k, b)'
    BY <1>1, <2>1, <2>2, <2>3, <2>4, StillReading DEF Onward, Reading
  <2>6. HasPolicy(d, k, j) /\ HasLimits(d, k, j)
    <3>1. HasPolicy(d, k, j)
      BY <1>1, <2>4 DEF HasPolicy
    <3>2. HasLimits(d, k, j)
      BY <1>1, <1>10, <2>4, GivenOnce
    <3> QED BY <3>1, <3>2
  <2>7. HasPolicy(current, k, j)' /\ HasLimits(current, k, j)'
    BY <2>1, <2>2, <2>6, SamePlace DEF Onward
  <2>8. Pending' = <<>> /\ d.ports \o <<>> = b \o Mapped(k, j) /\ j \in 0 .. Len(Secs(k))
    <3>1. d.ports \in Seq(Mappings)
      BY <2>4 DEF Builders
    <3> QED BY <1>1, <1>2, <2>3, <2>4, <3>1, ConcatEmptySeq DEF Pending
  <2>9. AtSection(k, j, b)'
    BY <1>7, <2>1, <2>2, <2>3, <2>5, <2>7, <2>8 DEF AtSection, Onward
  <2> QED BY <2>1, <2>2, <2>9
<1>11. i = 0 \/ i = 1 \/ i = 2
  BY <1>1
<1> QED BY <1>8, <1>9, <1>10, <1>11
-----------------------------------------------------------------------------
(* From a container to the next, and to the end.                            *)

LEMMA PrefixOfJoined ==
  ASSUME NEW S, NEW u \in Seq(S), NEW v \in Seq(S)
  PROVE  IsPrefix(u, u \o v)
<1>1. /\ u \o v \in Seq(S) /\ Len(u) <= Len(u \o v)
      /\ \A i \in 1 .. Len(u) : (u \o v)[i] = u[i]
  OBVIOUS
<1> DEFINE w == u \o v
<1> HIDE DEF w
<1>2. w \in Seq(S) /\ Len(u) <= Len(w) /\ \A i \in 1 .. Len(u) : w[i] = u[i]
  BY <1>1 DEF w
<1>3. SubSeq(w, 1, Len(u)) \in Seq(S) /\ Len(SubSeq(w, 1, Len(u))) = Len(u)
      /\ \A i \in 1 .. Len(u) : SubSeq(w, 1, Len(u))[i] = u[i]
  BY <1>2
<1>4. SubSeq(w, 1, Len(u)) = u
  BY <1>3, SameSequence
<1>5. IsPrefix(u, w)
  BY <1>2, <1>4 DEF IsPrefix
<1> QED BY <1>5 DEF w

\* What is behind the last section.
LEMMA AtEndOf ==
  ASSUME doc \in Docs, NEW k, NEW b, AtSection(k, Len(Secs(k)), b)
  PROVE  LET c == current IN
         /\ k \in 1 .. Count /\ k \in Nat /\ Pushed(k - 1) /\ containers \in Seq(Builders)
         /\ in_containers = TRUE /\ lines = ContainersFrom(k)
         /\ c \in Builders /\ c # None /\ Pending \in Seq(Mappings)
         /\ current_port \in Mappings \cup {None}
         /\ current_port # None => Loose(k)
         /\ c.ports \in Seq(Mappings)
         /\ AllPorts(containers) \o (c.ports \o Pending) = AllMapped(k)
         /\ AllPorts(containers) \in Seq(Mappings) /\ AllMapped(k) \in Seq(Mappings)
         /\ Own(k) => c.ports \o Pending = Mapped(k, Len(Secs(k)))
<1> DEFINE c == current
           p == Mapped(k, Len(Secs(k)))
           q == AllPorts(containers)
<1>1. /\ k \in 1 .. Count /\ k \in Nat /\ Pushed(k - 1) /\ containers \in Seq(Builders)
      /\ in_containers = TRUE /\ c \in Builders /\ c # None
      /\ current_port \in Mappings \cup {None}
      /\ current_port # None => Came(k, Len(Secs(k)))
  BY DocFacts, Constants DEF AtSection, Reading, Pushed
<1>2. lines = ContainersFrom(k)
  BY <1>1, FromSection DEF AtSection
<1>3. current_port # None => Loose(k)
  BY <1>1, CameIsLoose
<1>4. Pending \in Seq(Mappings) /\ c.ports \in Seq(Mappings) /\ b \in Seq(Mappings)
  BY <1>1, Flushed DEF AtSection, Reading
<1>5. p \in Seq(Mappings)
  <2>1. Len(Secs(k)) \in 0 .. Len(Secs(k))
    BY <1>1, DocFacts
  <2> QED BY <1>1, <2>1, MappedFacts
<1>6. q \in Seq(Mappings)
  BY <1>1, AllPortsFacts
<1>7. /\ q \o b = AllMapped(k - 1) /\ (Own(k) => b = <<>>)
      /\ c.ports \o Pending = b \o p
  BY DEF AtSection, Reading
<1>8. AllMapped(k) = AllMapped(k - 1) \o p
  BY <1>1, MappedFacts
<1> HIDE DEF p, q, c
<1>9. q \o (b \o p) = (q \o b) \o p
  <2>1. q \in Seq(Mappings) /\ b \in Seq(Mappings) /\ p \in Seq(Mappings)
    BY <1>4, <1>5, <1>6
  <2> QED BY ONLY <2>1, ConcatAssociative
<1>10. q \o (c.ports \o Pending) = AllMapped(k)
  BY ONLY <1>7, <1>8, <1>9
<1>11. Own(k) => c.ports \o Pending = p
  <2>1. <<>> \o p = p
    BY <1>5, ConcatEmptySeq
  <2> QED BY ONLY <1>7, <2>1
<1>12. AllMapped(k) \in Seq(Mappings)
  <2>1. q \o b \in Seq(Mappings)
    BY ONLY <1>4, <1>6, ConcatProperties
  <2>2. (q \o b) \o p \in Seq(Mappings)
    BY ONLY <1>5, <2>1, ConcatProperties
  <2> QED BY ONLY <1>7, <1>8, <2>2
<1> QED BY ONLY <1>1, <1>2, <1>3, <1>4, <1>6, <1>10, <1>11, <1>12 DEF p, q, c

\* A container is pushed, with or without the mapping in progress.
LEMMA Closed ==
  ASSUME doc \in Docs, doc' = doc, NEW CONSTANT k, NEW CONSTANT b,
         AtSection(k, Len(Secs(k)), b), NEW CONSTANT e \in Builders,
         e.image = current.image, e.restart = current.restart,
         e.memory = current.memory, e.pids = current.pids,
         containers' = Append(containers, Build(e)),
         Own(k) /\ ~(Loose(k) /\ Followed(k)) => e.ports = Mapped(k, Len(Secs(k)))
  PROVE  Pushed(k)' /\ AllPorts(containers)' = AllPorts(containers) \o e.ports
<1> DEFINE d == Build(e)
           m == Meaning(doc.containers[k])
<1>1. /\ k \in 1 .. Count /\ k \in Nat /\ Pushed(k - 1)
      /\ e.image = doc.containers[k].image /\ e.memory \in 0 .. SizeMax \cup {None}
      /\ HasPolicy(e, k, Len(Secs(k))) /\ HasLimits(e, k, Len(Secs(k)))
  BY AtEndOf DEF AtSection, Reading, HasPolicy, HasLimits
<1>2. /\ d \in Builders /\ m \in Builders
      /\ d.ports = e.ports /\ m.ports = Mapped(k, Len(Secs(k)))
      /\ d.image = m.image /\ d.restart = m.restart /\ d.memory = m.memory /\ d.pids = m.pids
      /\ d.memory \in 0 .. SizeMax \cup {DefaultMemory}
      /\ \A j \in 1 .. Len(Secs(k)) :
            Key(k, j) = "resources" => parse_memory(Secs(k)[j].memory) # Overflow
  BY <1>1, BuiltRight
<1> HIDE DEF d
<1>3. containers' = Append(containers, d)
  BY DEF d
<1> QED BY <1>1, <1>2, <1>3, PushedNext
\* `- image:` opens container k; b is what is in progress.
LEMMA Opened ==
  ASSUME doc \in Docs, doc' = doc, NEW CONSTANT k \in 1 .. Count, NEW CONSTANT b \in Seq(Mappings),
         ImageItem, L = Line(2, "image_item", doc.containers[k].image), lines' = SectionsFrom(k, 0),
         Pushed(k - 1)', b = Pending, current_port \in Mappings \cup {None},
         AllPorts(containers)' \o b = AllMapped(k - 1),
         current_port # None => k > 1 /\ Loose(k - 1)
  PROVE  AtSection(k, 0, b)'
<1>1. /\ doc.containers[k].image \in STRING /\ Len(Secs(k)) \in Nat /\ Count \in Nat
  BY DocFacts
<1>2. /\ current' = Builder(doc.containers[k].image) /\ in_containers' = TRUE
      /\ in_ports' = FALSE /\ in_resources' = FALSE /\ current_port' = current_port
  <2>1. L.val = doc.containers[k].image
    BY DEF Line
  <2>2. in_containers = TRUE \/ in_containers # TRUE
    OBVIOUS
  <2> QED BY <2>1 DEF ImageItem
<1>3. /\ current' \in Builders /\ current'.image = doc.containers[k].image
      /\ current'.memory = None /\ current'.pids = None
      /\ current'.restart = "never" /\ current'.ports = <<>>
  BY <1>1, <1>2 DEF Builder, Builders, Policies
<1>4. Own(k) => b = <<>>
  BY DEF Own, Pending
<1>5. Reading(k, b)'
  <2>1. Count' = Count /\ AllMapped(k - 1)' = AllMapped(k - 1) /\ Own(k)' = Own(k)
    BY SameDoc
  <2> QED BY <1>2, <1>3, <1>4, <2>1 DEF Reading
<1>6. HasPolicy(current', k, 0) /\ HasLimits(current', k, 0)
  BY <1>3 DEF HasPolicy, HasLimits
<1>7. Pending' = b
  BY <1>2 DEF Pending
<1>8. Mapped(k, 0) = <<>> /\ <<>> \o b = b /\ b \o <<>> = b
  BY MappedFacts, ConcatEmptySeq
<1>9. current_port' # None => Came(k, 0)
  BY <1>2 DEF Came
<1>10. /\ Secs(k)' = Secs(k) /\ Mapped(k, 0)' = Mapped(k, 0) /\ Came(k, 0)' = Came(k, 0)
       /\ SectionsFrom(k, 0)' = SectionsFrom(k, 0)
       /\ HasPolicy(current, k, 0)' /\ HasLimits(current, k, 0)'
  BY <1>6, SameDoc, SamePlace
<1> QED BY <1>1, <1>3, <1>5, <1>7, <1>8, <1>9, <1>10 DEF AtSection

LEMMA NextContainer ==
  ASSUME Running, NEW CONSTANT k, NEW CONSTANT b, AtSection(k, Len(Secs(k)), b), k < Count
  PROVE  Onward /\ \E n \in Nat, c \in Seq(Mappings) : AtSection(n, 0, c)'
<1> DEFINE x == Line(2, "image_item", doc.containers[k + 1].image)
<1>0. doc \in Docs
  BY DEF Running
<1>1. /\ k \in 1 .. Count /\ k \in Nat /\ containers \in Seq(Builders)
      /\ in_containers = TRUE /\ lines = ContainersFrom(k)
      /\ current \in Builders /\ current # None
      /\ Pending \in Seq(Mappings) /\ current_port \in Mappings \cup {None}
      /\ current_port # None => Loose(k)
      /\ current.ports \in Seq(Mappings) /\ AllPorts(containers) \in Seq(Mappings)
  BY <1>0, AtEndOf
<1>2. /\ AllPorts(containers) \o (current.ports \o Pending) = AllMapped(k)
      /\ Own(k) => current.ports \o Pending = Mapped(k, Len(Secs(k)))
  BY <1>0, AtEndOf
<1>3. k + 1 \in 1 .. Count /\ (k + 1) - 1 = k /\ k + 1 \in Nat /\ Count \in Nat
  BY <1>0, <1>1, DocFacts
<1>4. /\ lines = Cons(x, SectionsFrom(k + 1, 0)) /\ x \in AllLines
      /\ SectionsFrom(k + 1, 0) \in Seq(AllLines)
  <2>1. ContainersFrom((k + 1) - 1) = Cons(x, SectionsFrom(k + 1, 0)) /\ x \in AllLines
    BY <1>0, <1>3, FromContainer
  <2>2. 0 \in 0 .. Len(Secs(k + 1))
    BY <1>0, <1>3, DocFacts
  <2> QED BY <1>0, <1>1, <1>3, <2>1, <2>2, FromSection
<1>5. x.indent = 2 /\ x.key = "image_item"
  BY DEF Line
<1> HIDE DEF x
<1>6. L = x /\ ImageItem
  BY <1>1, <1>4, <1>5, EachLine DEF Running
<1>7. ~MemoryOverflow
  BY <1>5, <1>6 DEF MemoryOverflow, Panics
<1>8. Onward /\ lines' = SectionsFrom(k + 1, 0)
  BY <1>4, <1>7, EachLine DEF Running, Onward
<1>9. PICK e \in Builders : e = current
  BY <1>1
<1>10. containers' = Append(containers, Build(e))
  BY <1>1, <1>6, <1>9 DEF ImageItem, WithPending
<1>11. Followed(k)
  BY <1>1 DEF Followed, Count
<1>12. Own(k) /\ ~(Loose(k) /\ Followed(k)) => e.ports = Mapped(k, Len(Secs(k)))
  <2>1. ~Loose(k) => Pending = <<>>
    BY <1>1 DEF Pending
  <2>2. current.ports \o <<>> = current.ports
    BY <1>1, ConcatEmptySeq
  <2> QED BY ONLY <1>2, <1>9, <1>11, <2>1, <2>2
<1>13. Pushed(k)' /\ AllPorts(containers)' = AllPorts(containers) \o e.ports
  BY <1>0, <1>8, <1>9, <1>10, <1>12, Closed DEF Onward
<1>14. AllPorts(containers)' \o Pending = AllMapped(k)
  <2> DEFINE q == AllPorts(containers)
             u == e.ports
             v == Pending
  <2>1. q \in Seq(Mappings) /\ u \in Seq(Mappings) /\ v \in Seq(Mappings)
    BY <1>1, <1>9
  <2> HIDE DEF q, u, v
  <2>2. (q \o u) \o v = q \o (u \o v)
    BY ONLY <2>1, ConcatAssociative
  <2> QED BY ONLY <1>2, <1>9, <1>13, <2>2 DEF q, u, v
<1>15. PICK c \in Seq(Mappings) : c = Pending
  BY <1>1
<1>16. AtSection(k + 1, 0, c)'
  <2> DEFINE n == k + 1
  <2>1. /\ doc' = doc /\ n \in 1 .. Count /\ ImageItem
        /\ L = Line(2, "image_item", doc.containers[n].image) /\ lines' = SectionsFrom(n, 0)
        /\ current_port \in Mappings \cup {None}
    BY <1>1, <1>3, <1>6, <1>8 DEF x, Onward
  <2>2. n - 1 = k /\ n > 1
    BY <1>1
  <2> HIDE DEF n
  <2>3. /\ Pushed(n - 1)' /\ AllPorts(containers)' \o c = AllMapped(n - 1)
        /\ current_port # None => n > 1 /\ Loose(n - 1)
    BY ONLY <1>1, <1>13, <1>14, <1>15, <2>2
  <2>4. AtSection(n, 0, c)'
    BY <1>0, <1>15, <2>1, <2>3, Opened
  <2> QED BY <2>4 DEF n
<1>17. \E n \in Nat, a \in Seq(Mappings) : AtSection(n, 0, a)'
  BY <1>3, <1>16
<1> QED BY <1>8, <1>17

LEMMA FirstContainer ==
  ASSUME Running, AtHead(3), Count > 0
  PROVE  Onward /\ \E n \in Nat, c \in Seq(Mappings) : AtSection(n, 0, c)'
<1> DEFINE x == Line(2, "image_item", doc.containers[1].image)
<1>0. doc \in Docs /\ Count \in Nat /\ 1 \in 1 .. Count /\ 1 - 1 = 0
  BY DocFacts DEF Running
<1>1. /\ lines = ContainersFrom(0) /\ in_containers = TRUE /\ containers = <<>>
      /\ current = None /\ current_port = None
  BY DEF AtHead, HeadLines
<1>2. /\ lines = Cons(x, SectionsFrom(1, 0)) /\ x \in AllLines
      /\ SectionsFrom(1, 0) \in Seq(AllLines)
  <2>1. ContainersFrom(1 - 1) = Cons(x, SectionsFrom(1, 0)) /\ x \in AllLines
    BY <1>0, FromContainer
  <2>2. 0 \in 0 .. Len(Secs(1))
    BY <1>0, DocFacts
  <2> QED BY <1>0, <1>1, <2>1, <2>2, FromSection
<1>3. x.indent = 2 /\ x.key = "image_item"
  BY DEF Line
<1> HIDE DEF x
<1>4. L = x /\ ImageItem
  BY <1>1, <1>2, <1>3, EachLine DEF Running
<1>5. ~MemoryOverflow
  BY <1>3, <1>4 DEF MemoryOverflow, Panics
<1>6. Onward /\ lines' = SectionsFrom(1, 0)
  BY <1>2, <1>5, EachLine DEF Running, Onward
<1>7. containers' = <<>>
  BY <1>1, <1>4 DEF ImageItem, WithPending
<1>8. Pushed(1 - 1)'
  BY <1>7 DEF Pushed
<1>9. AllPorts(containers)' \o <<>> = AllMapped(1 - 1) /\ Pending = <<>>
  <2>1. AllPorts(containers)' = <<>>
    BY <1>7, FlattenNothing DEF AllPorts
  <2> QED BY <1>0, <1>1, <2>1, MappedFacts DEF Pending
<1>10. PICK c \in Seq(Mappings) : c = <<>>
  <2>1. <<>> \in Seq(Mappings)
    OBVIOUS
  <2> QED BY <2>1
<1>11. AtSection(1, 0, c)'
  BY <1>0, <1>1, <1>4, <1>6, <1>8, <1>9, <1>10, Opened DEF x, Onward
<1>12. \E n \in Nat, a \in Seq(Mappings) : AtSection(n, 0, a)'
  BY <1>11
<1> QED BY <1>6, <1>12
LEMMA AtTheEnd ==
  ASSUME Running, lines = <<>>
  PROVE  EndOfInput
BY DEF Running, ParserNext, TopLevel, Outside, ImageItem, ContainerKey, HostItem, ContainerPort,
       ResourceKey, MemoryOverflow, Unmatched, Read

\* The key that follows the list is a top-level one.
LEMMA TailRead ==
  ASSUME Running, lines = TailLines, doc.tail = TRUE
  PROVE  Onward /\ TopLevel /\ lines' = <<>>
<1> DEFINE x == Line(0, "other", None)
<1>1. x \in AllLines /\ x.indent = 0
  BY LineTypes DEF Keys, Line
<1>2. lines = Cons(x, <<>>) /\ <<>> \in Seq(AllLines)
  BY <1>1 DEF TailLines, Cons
<1> HIDE DEF x
<1>3. L = x /\ TopLevel
  BY <1>1, <1>2, EachLine DEF Running
<1>4. ~MemoryOverflow
  BY <1>1, <1>3 DEF MemoryOverflow, Panics, AtResource
<1> QED BY <1>1, <1>2, <1>3, <1>4, EachLine DEF Running, Onward

LEMMA NothingDeclared ==
  ASSUME doc \in Docs, Count = 0, containers = <<>>
  PROVE  AllRead
<1>1. AllMapped(0) = <<>>
  BY MeantTypes, UptoFacts DEF AllMapped
<1>2. AllPorts(containers) = <<>>
  BY FlattenNothing DEF AllPorts
<1>3. IsPrefix(<<>>, <<>>)
  BY DEF IsPrefix
<1>4. Pushed(0)
  BY DEF Pushed
<1> QED BY <1>1, <1>2, <1>3, <1>4 DEF AllRead

\* The list ends after the last container.
LEMMA LastContainer ==
  ASSUME Running, NEW CONSTANT b, AtSection(Count, Len(Secs(Count)), b)
  PROVE  \/ Onward /\ AtTail'
         \/ doc' = doc /\ done' = TRUE /\ panicked' = FALSE /\ AllRead'
<1> DEFINE k == Count
           c == current
<1>0. doc \in Docs /\ doc.tail \in BOOLEAN
  BY DocFacts DEF Running
<1>1. /\ k \in 1 .. Count /\ k \in Nat /\ containers \in Seq(Builders)
      /\ in_containers = TRUE /\ lines = ContainersFrom(k)
      /\ c \in Builders /\ c # None
      /\ Pending \in Seq(Mappings) /\ current_port \in Mappings \cup {None}
      /\ current_port # None => Loose(k)
      /\ c.ports \in Seq(Mappings) /\ AllPorts(containers) \in Seq(Mappings)
      /\ AllMapped(k) \in Seq(Mappings)
  BY <1>0, AtEndOf
<1>2. /\ AllPorts(containers) \o (c.ports \o Pending) = AllMapped(k)
      /\ Own(k) => c.ports \o Pending = Mapped(k, Len(Secs(k)))
  BY <1>0, AtEndOf
<1>3. lines = TailLines
  BY <1>0, <1>1, FromContainer
<1>4. PICK n \in Nat : n = Count
  BY <1>1
<1>5. CASE doc.tail = TRUE
  <2>1. Onward /\ TopLevel /\ lines' = <<>>
    BY <1>3, <1>5, TailRead
  <2>2. PICK e \in Builders : e = c
    BY <1>1
  <2>3. containers' = Append(containers, Build(e)) /\ current' = None
    BY <1>1, <2>1, <2>2 DEF TopLevel, WithPending
  <2>4. Own(k) /\ ~(Loose(k) /\ Followed(k)) => e.ports = Mapped(k, Len(Secs(k)))
    <3>1. ~Loose(k) => Pending = <<>>
      BY <1>1 DEF Pending
    <3>2. c.ports \o <<>> = c.ports
      BY <1>1, ConcatEmptySeq
    <3>3. Followed(k)
      BY <1>5 DEF Followed
    <3> QED BY ONLY <1>2, <2>2, <3>1, <3>2, <3>3
  <2>5. Pushed(n)' /\ AllPorts(containers)' = AllPorts(containers) \o e.ports
    BY <1>0, <1>4, <2>1, <2>2, <2>3, <2>4, Closed DEF Onward
  <2>6. IsPrefix(AllPorts(containers) \o e.ports, AllMapped(k))
    <3> DEFINE q == AllPorts(containers)
               u == e.ports
               v == Pending
    <3>1. q \in Seq(Mappings) /\ u \in Seq(Mappings) /\ v \in Seq(Mappings)
      BY <1>1, <2>2
    <3> HIDE DEF q, u, v
    <3>2. (q \o u) \o v = q \o (u \o v)
      BY ONLY <3>1, ConcatAssociative
    <3>3. q \o u \in Seq(Mappings)
      BY ONLY <3>1, ConcatProperties
    <3>4. IsPrefix(q \o u, (q \o u) \o v)
      BY ONLY <3>1, <3>3, PrefixOfJoined
    <3> QED BY ONLY <1>2, <2>2, <3>2, <3>4 DEF q, u, v
  <2>7. AllRead'
    BY <1>4, <2>1, <2>5, <2>6, SameDoc DEF AllRead, Onward
  <2> QED BY <2>1, <2>3, <2>7 DEF AtTail
<1>6. CASE doc.tail = FALSE
  <2>1. lines = <<>> /\ EndOfInput
    BY <1>3, <1>6, AtTheEnd DEF TailLines
  <2>2. doc' = doc /\ done' = TRUE /\ panicked' = FALSE
    BY <2>1 DEF EndOfInput, Running
  <2>3. LET f == FlushPort(c) IN
        /\ f \in Builders /\ f.image = c.image /\ f.restart = c.restart
        /\ f.memory = c.memory /\ f.pids = c.pids /\ f.ports = c.ports \o Pending
    BY Flushed DEF AtSection
  <2>4. PICK e \in Builders : e = FlushPort(c)
    BY <2>3
  <2>5. containers' = Append(containers, Build(e))
    BY <1>1, <2>1, <2>4 DEF EndOfInput
  <2>6. Own(k) => e.ports = Mapped(k, Len(Secs(k)))
    BY ONLY <1>2, <2>3, <2>4
  <2>7. Pushed(n)' /\ AllPorts(containers)' = AllPorts(containers) \o e.ports
    BY <1>0, <1>4, <2>2, <2>3, <2>4, <2>5, <2>6, Closed
  <2>8. AllPorts(containers)' = AllMapped(k)
    BY ONLY <1>2, <2>3, <2>4, <2>7
  <2>9. IsPrefix(AllMapped(k), AllMapped(k))
    BY <1>1 DEF IsPrefix
  <2>10. AllRead'
    BY <1>4, <2>2, <2>7, <2>8, <2>9, SameDoc DEF AllRead
  <2> QED BY <2>2, <2>10
<1> QED BY <1>0, <1>5, <1>6

\* A list of no containers.
LEMMA NoContainer ==
  ASSUME Running, AtHead(3), Count = 0
  PROVE  \/ Onward /\ AtTail'
         \/ doc' = doc /\ done' = TRUE /\ panicked' = FALSE /\ AllRead'
<1>0. doc \in Docs /\ doc.tail \in BOOLEAN
  BY DocFacts DEF Running
<1>1. containers = <<>> /\ current = None /\ lines = TailLines
  <2>1. ContainersFrom(0) = TailLines
    BY <1>0, FromContainer
  <2> QED BY <2>1 DEF AtHead, HeadLines
<1>2. ASSUME doc' = doc, containers' = <<>> PROVE AllRead'
  <2>1. doc' \in Docs /\ Count' = 0
    BY <1>0, <1>2, SameDoc
  <2>2. AllRead
    BY <1>0, <1>1, NothingDeclared
  <2>3. Pushed(0)' /\ AllMapped(0)' = AllMapped(0) /\ AllPorts(containers)' = AllPorts(containers)
    BY <1>1, <1>2, SameDoc DEF Pushed, AllPorts
  <2> QED BY <2>1, <2>2, <2>3 DEF AllRead
<1>3. CASE doc.tail = TRUE
  <2>1. Onward /\ TopLevel /\ lines' = <<>>
    BY <1>1, <1>3, TailRead
  <2>2. containers' = <<>> /\ current' = None
    BY <1>1, <2>1 DEF TopLevel, WithPending
  <2> QED BY <1>2, <2>1, <2>2 DEF AtTail, Onward
<1>4. CASE doc.tail = FALSE
  <2>1. lines = <<>> /\ EndOfInput
    BY <1>1, <1>4, AtTheEnd DEF TailLines
  <2>2. doc' = doc /\ done' = TRUE /\ panicked' = FALSE /\ containers' = <<>>
    BY <1>1, <2>1 DEF EndOfInput, Running
  <2> QED BY <1>2, <2>2
<1> QED BY <1>0, <1>3, <1>4

LEMMA TailStep ==
  ASSUME Running, AtTail
  PROVE  doc' = doc /\ done' = TRUE /\ panicked' = FALSE /\ AllRead'
<1>1. EndOfInput
  BY AtTheEnd DEF AtTail
<1>2. doc' = doc /\ done' = TRUE /\ panicked' = FALSE /\ containers' = containers
  BY <1>1 DEF EndOfInput, AtTail, Running
<1>3. AllRead'
  <2>1. PICK n \in Nat : n = Count
    BY DocFacts DEF Running
  <2>2. Pushed(n)' /\ AllPorts(containers)' = AllPorts(containers) /\ AllMapped(n)' = AllMapped(n)
        /\ Count' = Count
    BY <1>2, <2>1, SameDoc, SamePushed DEF AtTail, AllRead, AllPorts
  <2> QED BY <2>1, <2>2 DEF AtTail, AllRead
<1> QED BY <1>2, <1>3
-----------------------------------------------------------------------------
(* Every step leads from a place to a place, stops or ends.                 *)

Progress ==
    \/ doc' = doc /\ done' = FALSE /\ panicked' = TRUE /\ Impossible(doc)
    \/ doc' = doc /\ done' = TRUE /\ panicked' = FALSE /\ AllRead'
    \/ Onward /\ Somewhere'

LEMMA InSection ==
  ASSUME Running, NEW CONSTANT k \in Nat, NEW CONSTANT j \in Nat, NEW CONSTANT b \in Seq(Mappings),
         AtSection(k, j, b)
  PROVE  Progress
<1>1. /\ k \in 1 .. Count /\ Count \in Nat /\ Len(Secs(k)) \in Nat /\ j \in 0 .. Len(Secs(k))
  BY DocFacts DEF Running, AtSection, Reading
<1>2. CASE j < Len(Secs(k))
  <2>1. j + 1 \in 1 .. Len(Secs(k)) /\ (j + 1) - 1 = j /\ j + 1 \in Nat
    BY <1>1, <1>2
  <2> DEFINE n == j + 1
  <2>2. n \in 1 .. Len(Secs(k)) /\ n - 1 = j /\ n \in Nat
    BY <2>1
  <2> HIDE DEF n
  <2>3. /\ Onward
        /\ Key(k, n) = "ports" => AtPort(k, n, 0, b)'
        /\ Key(k, n) = "resources" => AtLimit(k, n, 0, b)'
        /\ Key(k, n) \in {"restart", "unknown"} => AtSection(k, n, b)'
    BY <2>2, SectionStep
  <2>4. Key(k, n) \in {"ports", "restart", "resources", "unknown"}
    BY <1>1, <2>2, DocFacts, SectionKinds DEF Running, Key
  <2>5. Somewhere'
    BY <2>2, <2>3, <2>4 DEF Somewhere
  <2> QED BY <2>3, <2>5 DEF Progress
<1>3. CASE j = Len(Secs(k)) /\ k < Count
  <2>1. AtSection(k, Len(Secs(k)), b)
    BY <1>3
  <2>2. Onward /\ \E n \in Nat, c \in Seq(Mappings) : AtSection(n, 0, c)'
    BY <1>3, <2>1, NextContainer
  <2>3. Somewhere'
    BY <2>2 DEF Somewhere
  <2> QED BY <2>2, <2>3 DEF Progress
<1>4. CASE j = Len(Secs(k)) /\ k = Count
  <2>1. AtSection(Count, Len(Secs(Count)), b)
    BY <1>4
  <2>2. \/ Onward /\ AtTail'
        \/ doc' = doc /\ done' = TRUE /\ panicked' = FALSE /\ AllRead'
    BY <2>1, LastContainer
  <2> QED BY <2>2 DEF Progress, Somewhere
<1> QED BY <1>1, <1>2, <1>3, <1>4

LEMMA Onwards ==
  ASSUME Running, Somewhere
  PROVE  Progress
<1>1. ASSUME NEW CONSTANT i \in 0 .. 3, AtHead(i) PROVE Progress
  <2>1. CASE i \in 0 .. 2
    <3>1. Onward /\ AtHead(i + 1)' /\ i + 1 \in 0 .. 3
      BY <1>1, <2>1, HeadStep
    <3> QED BY <3>1 DEF Progress, Somewhere
  <2>2. CASE i = 3
    <3>1. Count \in Nat
      BY DocFacts DEF Running
    <3>2. CASE Count > 0
      <4>1. Onward /\ \E n \in Nat, c \in Seq(Mappings) : AtSection(n, 0, c)'
        BY <1>1, <2>2, <3>2, FirstContainer
      <4>2. Somewhere'
        BY <4>1 DEF Somewhere
      <4> QED BY <4>1, <4>2 DEF Progress
    <3>3. CASE Count = 0
      <4>1. \/ Onward /\ AtTail'
            \/ doc' = doc /\ done' = TRUE /\ panicked' = FALSE /\ AllRead'
        BY <1>1, <2>2, <3>3, NoContainer
      <4> QED BY <4>1 DEF Progress, Somewhere
    <3> QED BY <3>1, <3>2, <3>3
  <2> QED BY <2>1, <2>2
<1>2. ASSUME NEW CONSTANT k \in Nat, NEW CONSTANT j \in Nat, NEW CONSTANT m \in Nat,
             NEW CONSTANT b \in Seq(Mappings), AtPort(k, j, m, b)
      PROVE  Progress
  <2>1. /\ k \in 1 .. Count /\ j \in 1 .. Len(Secs(k)) /\ Key(k, j) = "ports"
        /\ m \in 0 .. Len(Secs(k)[j].ports) /\ doc \in Docs
    BY <1>2 DEF AtPort, Reading, Running
  <2>2. Len(Secs(k)[j].ports) \in Nat
    <3>1. Secs(k)[j].ports \in Seq(Mappings)
      BY <2>1, FromPorts
    <3> QED BY <3>1
  <2>3. CASE m < Len(Secs(k)[j].ports)
    <3> DEFINE n == m + 1
    <3>1. n \in Nat /\ n - 1 = m /\ n \in 1 .. Len(Secs(k)[j].ports)
      BY <2>1, <2>2, <2>3
    <3> HIDE DEF n
    <3>2. Onward /\ MidPort(k, j, n, b)'
      BY <1>2, <3>1, HostStep
    <3>3. Somewhere'
      BY <3>1, <3>2 DEF Somewhere
    <3> QED BY <3>2, <3>3 DEF Progress
  <2>4. CASE m = Len(Secs(k)[j].ports)
    <3>1. AtSection(k, j, b)
      BY <1>2, <2>1, <2>4, PortsRead
    <3> QED BY <3>1, InSection
  <2> QED BY <2>1, <2>2, <2>3, <2>4
<1>3. ASSUME NEW CONSTANT k \in Nat, NEW CONSTANT j \in Nat, NEW CONSTANT m \in Nat,
             NEW CONSTANT b \in Seq(Mappings), MidPort(k, j, m, b)
      PROVE  Progress
  <2>1. Onward /\ AtPort(k, j, m, b)'
    BY <1>3, PortStep
  <2>2. Somewhere'
    BY <2>1 DEF Somewhere
  <2> QED BY <2>1, <2>2 DEF Progress
<1>4. ASSUME NEW CONSTANT k \in Nat, NEW CONSTANT j \in Nat, NEW CONSTANT i \in Nat,
             NEW CONSTANT b \in Seq(Mappings), AtLimit(k, j, i, b)
      PROVE  Progress
  <2>1. \/ doc' = doc /\ done' = FALSE /\ panicked' = TRUE /\ Impossible(doc)
        \/ Onward /\ i < 2 /\ AtLimit(k, j, i + 1, b)'
        \/ Onward /\ AtSection(k, j, b)'
    BY <1>4, LimitStep
  <2>2. CASE Onward /\ i < 2 /\ AtLimit(k, j, i + 1, b)'
    <3>1. i + 1 \in Nat
      OBVIOUS
    <3>2. Somewhere'
      BY <2>2, <3>1 DEF Somewhere
    <3> QED BY <2>2, <3>2 DEF Progress
  <2>3. CASE Onward /\ AtSection(k, j, b)'
    <3>1. Somewhere'
      BY <2>3 DEF Somewhere
    <3> QED BY <2>3, <3>1 DEF Progress
  <2> QED BY <2>1, <2>2, <2>3 DEF Progress
<1>5. ASSUME AtTail PROVE Progress
  BY <1>5, TailStep DEF Progress
<1> QED BY <1>1, <1>2, <1>3, <1>4, <1>5, InSection DEF Somewhere

LEMMA InitParserInv == ParserInit => ParserInv
<1> SUFFICES ASSUME ParserInit PROVE ParserInv
  OBVIOUS
<1>1. doc \in Docs /\ lines = HeadLines(0)
  BY WholeText DEF ParserInit, HeadLines
<1>2. AtHead(0)
  BY <1>1 DEF ParserInit, AtHead
<1>3. Somewhere
  BY <1>2 DEF Somewhere
<1> QED BY <1>1, <1>3 DEF ParserInit, ParserInv

LEMMA NextParserInv ==
  ASSUME ParserInv, ParserNext
  PROVE  ParserInv'
<1>1. ~done /\ ~panicked
  BY DEF ParserNext, TopLevel, Outside, ImageItem, ContainerKey, HostItem, ContainerPort,
         ResourceKey, MemoryOverflow, Unmatched, EndOfInput, Read
<1>2. doc \in Docs /\ done = FALSE /\ panicked = FALSE /\ Somewhere
  BY <1>1 DEF ParserInv
<1>3. Progress
  BY <1>2, Onwards DEF Running
<1>4. doc' \in Docs
  BY <1>2, <1>3 DEF Progress, Onward
<1>5. CASE doc' = doc /\ done' = FALSE /\ panicked' = TRUE /\ Impossible(doc)
  <2>1. Impossible(doc)'
    BY <1>5 DEF Impossible, Absent, Size, Factor
  <2> QED BY <1>4, <1>5, <2>1 DEF ParserInv
<1>6. CASE doc' = doc /\ done' = TRUE /\ panicked' = FALSE /\ AllRead'
  BY <1>4, <1>6 DEF ParserInv
<1>7. CASE Onward /\ Somewhere'
  BY <1>4, <1>7 DEF ParserInv, Onward
<1> QED BY <1>3, <1>5, <1>6, <1>7 DEF Progress

LEMMA SameParserInv ==
  ASSUME ParserInv, UNCHANGED parserVars
  PROVE  ParserInv'
<1>1. /\ doc' = doc /\ lines' = lines /\ containers' = containers
      /\ in_containers' = in_containers /\ in_ports' = in_ports /\ in_resources' = in_resources
      /\ current' = current /\ current_port' = current_port
      /\ done' = done /\ panicked' = panicked
  BY DEF parserVars, flags
<1>2. Pending' = Pending /\ AllPorts(containers)' = AllPorts(containers)
  BY <1>1 DEF Pending, AllPorts
<1>3. ASSUME NEW CONSTANT k, NEW CONSTANT b PROVE Reading(k, b) => Reading(k, b)'
  BY <1>1, StillReading DEF Reading
<1>4. ASSUME NEW CONSTANT k, NEW CONSTANT j
      PROVE  /\ HasPolicy(current, k, j)' <=> HasPolicy(current, k, j)
             /\ HasLimits(current, k, j)' <=> HasLimits(current, k, j)
  BY <1>1, SamePlace
<1>5. ASSUME NEW CONSTANT k, NEW CONSTANT j, NEW CONSTANT b, AtSection(k, j, b)
      PROVE  AtSection(k, j, b)'
  BY <1>1, <1>2, <1>3, <1>4, <1>5, SameDoc DEF AtSection
<1>6. ASSUME NEW CONSTANT k, NEW CONSTANT j, NEW CONSTANT m, NEW CONSTANT b
      PROVE  /\ AtPort(k, j, m, b) => AtPort(k, j, m, b)'
             /\ MidPort(k, j, m, b) => MidPort(k, j, m, b)'
  BY <1>1, <1>2, <1>3, <1>4, SameDoc DEF AtPort, MidPort
<1>7. ASSUME NEW CONSTANT k, NEW CONSTANT j, NEW CONSTANT i, NEW CONSTANT b, AtLimit(k, j, i, b)
      PROVE  AtLimit(k, j, i, b)'
  <2>1. /\ LimitLines(k, j, i)' = LimitLines(k, j, i)
        /\ parse_memory(Secs(k)[j].memory)' = parse_memory(Secs(k)[j].memory)
    BY <1>1, SameDoc DEF LimitLines, parse_memory
  <2>2. Secs(k)' = Secs(k) /\ Key(k, j)' = Key(k, j) /\ Mapped(k, j)' = Mapped(k, j)
    BY <1>1, SameDoc
  <2> QED BY <1>1, <1>3, <1>4, <1>7, <2>1, <2>2 DEF AtLimit
<1>8. ASSUME NEW CONSTANT i, AtHead(i) PROVE AtHead(i)'
  <2>1. HeadLines(i)' = HeadLines(i)
    BY <1>1, SameDoc DEF HeadLines
  <2> QED BY <1>1, <1>8, <2>1 DEF AtHead
<1>9. AllRead => AllRead'
  <2>1. \A k : Pushed(k)' = Pushed(k) /\ AllMapped(k)' = AllMapped(k)
    BY <1>1, SameDoc, SamePushed
  <2>2. Count' = Count
    BY <1>1, SameDoc
  <2> QED BY <1>1, <1>2, <2>1, <2>2 DEF AllRead
<1>10. Somewhere => Somewhere'
  BY <1>1, <1>5, <1>6, <1>7, <1>8, <1>9 DEF Somewhere, AtTail
<1>11. Impossible(doc)' = Impossible(doc) /\ (doc \in Docs)' = (doc \in Docs)
  BY <1>1
<1> QED BY <1>1, <1>9, <1>10, <1>11 DEF ParserInv
-----------------------------------------------------------------------------
(* What was read is what is meant.                                          *)

LEMMA ReadIsMeant ==
  ASSUME doc \in Docs, AllRead
  PROVE  /\ containers \in Seq(Builders) /\ Len(containers) = Count /\ Count \in Nat
         /\ \A k \in 1 .. Count :
              /\ k \in DOMAIN containers /\ Meant(doc)[k] = Meaning(doc.containers[k])
              /\ containers[k] \in Builders /\ PushedRight(k)
<1>1. containers \in Seq(Builders) /\ Len(containers) = Count /\ \A k \in 1 .. Count : PushedRight(k)
  BY DEF AllRead, Pushed
<1>2. Count \in Nat /\ DOMAIN doc.containers = 1 .. Count
  BY DocFacts
<1>3. \A k \in 1 .. Count : Meant(doc)[k] = Meaning(doc.containers[k])
  BY <1>2 DEF Meant
<1> QED BY <1>1, <1>2, <1>3

LEMMA StaysWith ==
  ASSUME doc \in Docs, AllRead
  PROVE  \A k \in DOMAIN containers :
            ~(Loose(k) /\ Followed(k)) /\ ~(k > 1 /\ Loose(k - 1)) => containers[k] = Meant(doc)[k]
<1> SUFFICES ASSUME NEW k \in DOMAIN containers, ~(Loose(k) /\ Followed(k)), Own(k)
             PROVE  containers[k] = Meant(doc)[k]
  BY DEF Own
<1>1. k \in 1 .. Count
  BY ReadIsMeant
<1> DEFINE c == containers[k]
           m == Meaning(doc.containers[k])
<1>2. /\ Meant(doc)[k] = m /\ c \in Builders /\ m \in Builders
      /\ c.image = m.image /\ c.restart = m.restart /\ c.memory = m.memory /\ c.pids = m.pids
      /\ c.ports = m.ports
  BY <1>1, ReadIsMeant DEF PushedRight
<1> HIDE DEF c, m
<1>3. c = m
  BY <1>2 DEF Builders
<1> QED BY <1>2, <1>3 DEF c

LEMMA ReadsRight ==
  ASSUME doc \in Docs, AllRead
  PROVE  ReadRight /\ ~Impossible(doc)
<1>1. Len(containers) = Len(doc.containers) /\ DOMAIN containers = 1 .. Count
  BY ReadIsMeant DEF Count
<1>2. ASSUME NEW k \in 1 .. Count
      PROVE  [containers[k] EXCEPT !.ports = <<>>] = [Meant(doc)[k] EXCEPT !.ports = <<>>]
  <2> DEFINE c == containers[k]
             m == Meaning(doc.containers[k])
  <2>1. /\ Meant(doc)[k] = m /\ c \in Builders /\ m \in Builders
        /\ c.image = m.image /\ c.restart = m.restart /\ c.memory = m.memory /\ c.pids = m.pids
    BY <1>2, ReadIsMeant DEF PushedRight
  <2> HIDE DEF c, m
  <2>2. [c EXCEPT !.ports = <<>>] = [m EXCEPT !.ports = <<>>]
    BY <2>1 DEF Builders
  <2> QED BY <2>1, <2>2 DEF c
<1>3. AllPorts(Meant(doc)) = AllMapped(Count)
  <2>1. MeantPorts \in Seq(Seq(Mappings)) /\ Len(MeantPorts) = Count
    BY MeantTypes
  <2>2. Upto(MeantPorts, Count) = MeantPorts
    BY <2>1, UptoFacts
  <2>3. DOMAIN Meant(doc) = DOMAIN doc.containers
        /\ \A k \in DOMAIN doc.containers : Meant(doc)[k] = Meaning(doc.containers[k])
    BY DEF Meant
  <2>4. [k \in DOMAIN Meant(doc) |-> Meant(doc)[k].ports] = MeantPorts
    BY <2>3 DEF MeantPorts
  <2> QED BY <2>2, <2>4 DEF AllPorts, AllMapped, FlatUpto
<1>4. IsPrefix(AllPorts(containers), AllPorts(Meant(doc)))
  BY <1>3 DEF AllRead
<1>5. ASSUME Impossible(doc) PROVE FALSE
  <2>1. PICK k \in DOMAIN doc.containers : \E j \in DOMAIN doc.containers[k].sections :
            LET s == doc.containers[k].sections[j]
            IN  s.key = "resources" /\ ~Absent(s.memory) /\ Size(s.memory) > SizeMax
    BY <1>5 DEF Impossible
  <2>2. k \in 1 .. Count
    BY DocFacts
  <2>3. PICK j \in DOMAIN Secs(k) : Key(k, j) = "resources" /\ ~Absent(Secs(k)[j].memory)
                                    /\ Size(Secs(k)[j].memory) > SizeMax
    BY <2>1 DEF Secs, Key
  <2>4. j \in 1 .. Len(Secs(k)) /\ Secs(k)[j] \in Sections
    BY <2>2, DocFacts
  <2>5. parse_memory(Secs(k)[j].memory) # Overflow
    BY <2>2, <2>3, <2>4, ReadIsMeant DEF PushedRight
  <2> QED BY <2>3, <2>5 DEF parse_memory
<1> QED BY <1>1, <1>2, <1>4, <1>5 DEF ReadRight

\* What a container is started with is what its text means.
LEMMA StartedFacts ==
  ASSUME ParserInv, NEW k \in DOMAIN containers, StartDeclared(k)
  PROVE  /\ containers[k].memory \in 0 .. UsizeMax /\ Start(containers[k].memory)
         /\ declared' = containers[k].memory /\ done' = FALSE /\ panicked' = FALSE
<1>1. doc \in Docs /\ AllRead
  BY DEF StartDeclared, ParserInv
<1>2. k \in 1 .. Count
  BY <1>1, ReadIsMeant
<1>3. /\ containers[k].memory \in 0 .. SizeMax \cup {DefaultMemory}
      /\ containers[k].memory = Meant(doc)[k].memory
  BY <1>1, <1>2, ReadIsMeant DEF PushedRight
<1>4. containers[k].memory \in 0 .. UsizeMax
  BY <1>3, OneUsize, IsolationAssumption
<1>5. Start(containers[k].memory) /\ declared' = Meant(doc)[k].memory
      /\ done' = FALSE /\ panicked' = FALSE
  BY DEF StartDeclared
<1> QED BY <1>3, <1>4, <1>5

-----------------------------------------------------------------------------
(* The boot: the parser first, then a container under the limits it read.   *)

\* The parser's part of the state says nothing once a container is started.
BootInv ==
    /\ IsolationInv
    /\ ParserInv \/ (Exists /\ done = FALSE /\ panicked = FALSE)
    /\ Exists => container.memory_limit = Effective(declared)

\* No step of the boot touches the container but as IsolationNext lets it.
LEMMA BootStep ==
  ASSUME BootInv, [BootNext]_allVars
  PROVE  [IsolationNext]_isolationVars /\ BootInv'
<1>1. CASE Parse
  <2>1. ~Exists /\ ParserNext /\ UNCHANGED isolationVars
    BY <1>1 DEF Parse, Exists
  <2>2. ParserInv
    BY <2>1 DEF BootInv
  <2>3. ParserInv'
    BY <2>1, <2>2, NextParserInv
  <2>4. IsolationInv' /\ ~Exists'
    BY <2>1, StopKeeps DEF BootInv, isolationVars, Exists
  <2> QED BY <2>1, <2>3, <2>4 DEF BootInv
<1>2. CASE \E k \in DOMAIN containers : StartDeclared(k)
  <2>1. PICK k \in DOMAIN containers : StartDeclared(k)
    BY <1>2
  <2>2. done
    BY <2>1 DEF StartDeclared
  <2>3. ParserInv
    BY <2>2 DEF BootInv
  <2>4. /\ containers[k].memory \in 0 .. UsizeMax /\ Start(containers[k].memory)
        /\ declared' = containers[k].memory /\ done' = FALSE /\ panicked' = FALSE
    BY <2>1, <2>3, StartedFacts
  <2>5. IsolationInv' /\ Exists' /\ container'.memory_limit = Effective(containers[k].memory)
    BY <2>4, StartKeeps DEF BootInv
  <2>6. IsolationNext
    BY <2>4 DEF IsolationNext
  <2>7. container'.memory_limit = Effective(declared)'
    BY <2>4, <2>5 DEF Effective
  <2> QED BY <2>4, <2>5, <2>6, <2>7 DEF BootInv
<1>3. CASE Run
  <2>1. Processes /\ UNCHANGED parserVars /\ declared' = declared
    BY <1>3 DEF Run
  <2>2. IsolationNext
    BY <2>1 DEF IsolationNext
  <2>3. IsolationInv' /\ Exists' /\ container'.memory_limit = container.memory_limit
    BY <2>1, ProcessesKeep DEF BootInv
  <2>4. ParserInv => ParserInv'
    BY <2>1, SameParserInv
  <2>5. done' = done /\ panicked' = panicked
    BY <2>1 DEF parserVars
  <2>6. Exists
    BY <2>1 DEF Processes, Allocate, Free, Spawn, Exit, stop
  <2>7. container'.memory_limit = Effective(declared)'
    BY <2>1, <2>3, <2>6 DEF BootInv, Effective
  <2> QED BY <2>2, <2>3, <2>4, <2>5, <2>7 DEF BootInv
<1>4. CASE UNCHANGED allVars
  <2>1. UNCHANGED parserVars /\ UNCHANGED isolationVars /\ declared' = declared
    BY <1>4 DEF allVars
  <2>2. IsolationInv'
    BY <2>1, StopKeeps DEF BootInv
  <2>3. ParserInv => ParserInv'
    BY <2>1, SameParserInv
  <2>4. done' = done /\ panicked' = panicked /\ container' = container
    BY <2>1 DEF parserVars, isolationVars
  <2>5. Exists' = Exists /\ Effective(declared)' = Effective(declared)
    BY <2>1, <2>4 DEF Exists, Effective
  <2> QED BY <2>1, <2>2, <2>3, <2>4, <2>5 DEF BootInv
<1> QED BY <1>1, <1>2, <1>3, <1>4 DEF BootNext

LEMMA InitBoot == BootInit => BootInv /\ IsolationInit
<1> SUFFICES ASSUME BootInit PROVE BootInv /\ IsolationInit
  OBVIOUS
<1>1. ~Exists
  BY DEF BootInit, IsolationInit, Exists
<1> QED BY <1>1, InitParserInv, InitIsolation DEF BootInit, BootInv

LEMMA BootInductive == BootSpec => []BootInv
BY InitBoot, BootStep, PTL DEF BootSpec

\* Whatever the configuration declares, the boot drives a container only as
\* its cgroup and PID namespace allow; a limit it starts with is a usize
\* (main.rs:112-127, cgroup.rs:34-74).
THEOREM BootIsContained == BootSpec => IsolationSpec
BY InitBoot, BootStep, BootInductive, PTL DEF BootSpec, IsolationSpec

\* For every document and any number of processes: the memory a container's
\* text declares is never passed by what its processes hold, if they ask first
\* (spec.rs:62, config.rs:246-258, runtime.rs:69-74, cgroup.rs:34-56).
THEOREM DeclaredMemoryBinds == BootSpec => []DeclaredLimitBinds
<1>1. BootInv => DeclaredLimitBinds
  BY DEF BootInv, IsolationInv, Counted, LimitsAreHard, DeclaredLimitBinds
<1> QED BY <1>1, BootInductive, PTL

\* Of every document, however long: a container has its own ports, but for the
\* two cases the property names (config.rs:73-93, 124-135, 166-171).
THEOREM PortsStay == BootSpec => []PortsStayWithContainer
<1>1. BootInv => PortsStayWithContainer
  <2> SUFFICES ASSUME BootInv, done PROVE PortsStayWithContainer
    BY DEF PortsStayWithContainer
  <2>1. doc \in Docs /\ AllRead
    BY DEF BootInv, ParserInv
  <2> QED BY <2>1, StaysWith DEF PortsStayWithContainer
<1> QED BY <1>1, BootInductive, PTL

\* What the parser answers is right: it stops at a size that no usize holds and
\* at nothing else, and what it returns is what was meant, mappings aside, of
\* which it invents, repeats and reorders none.
AnswersAreRight ==
    /\ panicked => Impossible(doc)
    /\ done => ~Impossible(doc) /\ ReadRight

\* The safety part of ReadsEverything, for every document (config.rs:41-177,
\* 246-258).
THEOREM NothingIsMisread == BootSpec => []AnswersAreRight
<1>1. BootInv => AnswersAreRight
  <2> SUFFICES ASSUME BootInv PROVE AnswersAreRight
    OBVIOUS
  <2>1. panicked => Impossible(doc)
    BY DEF BootInv, ParserInv
  <2>2. done => doc \in Docs /\ AllRead
    BY DEF BootInv, ParserInv
  <2> QED BY <2>1, <2>2, ReadsRight DEF AnswersAreRight
<1> QED BY <1>1, BootInductive, PTL
=============================================================================
