---------------------------- MODULE MemoryProofs ----------------------------
(***************************************************************************)
(* For every memory map and every heap: no frame is handed out twice, each *)
(* is usable memory, and the boot fails only when none is left.  The       *)
(* argument is a line drawn by the cursor: the usable frames behind it are *)
(* exactly the ones handed out.                                            *)
(*                                                                         *)
(* For any frames and requests the buddy allocator is a pool of aligned    *)
(* blocks.  A block of order o is a cell of the grid of that order, two    *)
(* buddies are the halves of a cell of the next, and every frame is        *)
(* pending, in one free block or in one held block.                        *)
(***************************************************************************)
EXTENDS BootMemory, BuddyAllocator, FiniteSetTheorems, TLAPS

\* Frame f of region i lies behind the cursor.
Behind(i, f) == i < region_idx \/ (i = region_idx /\ f < memory_regions[i].start + frame_offset)

IsUsable(i, f) == /\ i \in DOMAIN memory_regions /\ memory_regions[i].usable
                  /\ f \in FramesOf(memory_regions[i])

CursorOK ==
    /\ memory_regions \in Maps
    /\ region_idx \in Nat \ {0} /\ region_idx <= Len(memory_regions) + 1
    /\ frame_offset \in Nat
    /\ phase \in {"heap", "ready", "panic"}

OnlyBehind == \A u \in DOMAIN given : \E i \in DOMAIN memory_regions :
                 IsUsable(i, given[u]) /\ Behind(i, given[u])
AllBehind == \A i \in DOMAIN memory_regions : \A f \in FramesOf(memory_regions[i]) :
                 IsUsable(i, f) /\ Behind(i, f) => \E u \in DOMAIN given : given[u] = f
PanicPast == phase = "panic" => region_idx = Len(memory_regions) + 1

Inv == CursorOK /\ OnlyBehind /\ AllBehind /\ FramesDistinct /\ PanicPast

\* A map is a sequence of regions, disjoint and in ascending order.
LEMMA MapFacts ==
  ASSUME memory_regions \in Maps
  PROVE  /\ Len(memory_regions) \in Nat
         /\ DOMAIN memory_regions = 1..Len(memory_regions)
         /\ \A i \in DOMAIN memory_regions : memory_regions[i] \in Region
         /\ \A i \in DOMAIN memory_regions : memory_regions[i].start <= memory_regions[i].end
         /\ \A i, j \in DOMAIN memory_regions : j < i => memory_regions[j].end <= memory_regions[i].start
<1>1. memory_regions \in Seq(Region)
  BY BootAssumption
<1>2. \A i \in DOMAIN memory_regions : \A j \in 1..(i - 1) :
         memory_regions[j].end <= memory_regions[i].start
  BY BootAssumption
<1>3. \A i, j \in DOMAIN memory_regions : j < i => j \in 1..(i - 1)
  BY <1>1
<1> QED BY <1>1, <1>2, <1>3, BootAssumption

LEMMA Initially == Init => Inv
BY MapFacts DEF Init, Inv, CursorOK, OnlyBehind, AllBehind, FramesDistinct, PanicPast, Behind,
                IsUsable, FramesOf, Region

\* One frame more: the first region with room gives the frame at the cursor,
\* which lies behind no earlier one.
LEMMA GiveStep ==
  ASSUME Inv, Give PROVE Inv'
<1> DEFINE M == memory_regions
<1>0. /\ CursorOK /\ phase = "heap" /\ UNCHANGED <<memory_regions, phase>>
  BY DEF Inv, Give
<1>1. PICK n \in Users, i \in DOMAIN M :
         /\ n \notin DOMAIN given /\ First(i) /\ Advance(i)
         /\ given' = [u \in DOMAIN given \cup {n} |->
                         IF u = n THEN FrameIn(i) ELSE given[u]]
  BY DEF Give, NextUser, Missing
<1> PICK F : F = FrameIn(i)
  OBVIOUS
<1>2. /\ Len(M) \in Nat /\ DOMAIN M = 1..Len(M)
      /\ \A k \in DOMAIN M : M[k].start \in Nat /\ M[k].end \in Nat /\ M[k].start <= M[k].end
      /\ \A k, j \in DOMAIN M : j < k => M[j].end <= M[k].start
  BY <1>0, MapFacts DEF CursorOK, Region
<1>3. /\ M[i].usable /\ i >= region_idx /\ OffsetIn(i) \in Nat
      /\ OffsetIn(i) < M[i].end - M[i].start
  BY <1>0, <1>1, <1>2 DEF First, WithRoom, HasRoom, OffsetIn, CursorOK
<1>4. /\ F \in Nat /\ M[i].start <= F /\ F < M[i].end /\ F = M[i].start + OffsetIn(i)
      /\ region_idx' = i /\ frame_offset' = OffsetIn(i) + 1
  BY <1>1, <1>2, <1>3 DEF FrameIn, Advance
<1>5. IsUsable(i, F) /\ F \in FramesOf(M[i])
  BY <1>2, <1>3, <1>4 DEF IsUsable, FramesOf
<1>6. CursorOK'
  BY <1>0, <1>2, <1>3, <1>4 DEF CursorOK
<1>7. ASSUME NEW j \in DOMAIN M, NEW f, IsUsable(j, f), Behind(j, f)
      PROVE  f < F /\ Behind(j, f)'
  <2>1. f \in Int /\ M[j].start <= f /\ f < M[j].end
    BY <1>2, <1>7 DEF IsUsable, FramesOf
  <2>2. CASE j = i
    BY <1>0, <1>2, <1>3, <1>4, <1>7, <2>1, <2>2 DEF Behind, OffsetIn, CursorOK
  <2>3. CASE j < i
    BY <1>0, <1>2, <1>4, <2>1, <2>3 DEF Behind
  <2>4. j <= i
    BY <1>0, <1>2, <1>3, <1>7 DEF Behind, CursorOK
  <2> QED BY <1>2, <2>2, <2>3, <2>4
<1>8. Behind(i, F)'
  BY <1>0, <1>2, <1>3, <1>4 DEF Behind
<1>9. \A u \in DOMAIN given : given[u] # F
  <2> SUFFICES ASSUME NEW u \in DOMAIN given PROVE given[u] # F
    OBVIOUS
  <2>1. PICK j \in DOMAIN M : IsUsable(j, given[u]) /\ Behind(j, given[u])
    BY DEF Inv, OnlyBehind
  <2>2. given[u] < F
    BY <2>1, <1>7
  <2>3. given[u] \in Int
    BY <1>2, <2>1 DEF IsUsable, FramesOf
  <2> QED BY <2>2, <2>3, <1>4
<1>10. OnlyBehind'
  <2> SUFFICES ASSUME NEW u \in DOMAIN given \cup {n}, NEW f, f = given'[u]
               PROVE  \E j \in DOMAIN M : IsUsable(j, f) /\ Behind(j, f)'
    BY <1>0, <1>1 DEF OnlyBehind, IsUsable, Behind
  <2>1. CASE u = n
    BY <1>1, <1>5, <1>8, <2>1
  <2>2. CASE u # n
    <3>1. f = given[u] /\ u \in DOMAIN given
      BY <1>1, <2>2
    <3>2. PICK j \in DOMAIN M : IsUsable(j, f) /\ Behind(j, f)
      BY <3>1 DEF Inv, OnlyBehind
    <3> QED BY <3>2, <1>7
  <2> QED BY <2>1, <2>2
<1>11. FramesDistinct'
  BY <1>1, <1>9 DEF Inv, FramesDistinct
<1>12. AllBehind'
  <2> SUFFICES ASSUME NEW j \in DOMAIN M, NEW f \in FramesOf(M[j]),
                      IsUsable(j, f), Behind(j, f)'
               PROVE  \E u \in DOMAIN given' : given'[u] = f
    BY <1>0 DEF AllBehind, IsUsable
  <2>1. f \in Int /\ M[j].start <= f /\ f < M[j].end /\ M[j].usable
    BY <1>2 DEF FramesOf, IsUsable
  <2>2. CASE f = F
    BY <1>1, <2>2
  <2>3. CASE f # F
    <3>1. ~HasRoom(j) \/ j = i
      <4>1. j <= i
        BY <1>0, <1>2, <1>4 DEF Behind
      <4> QED BY <4>1, <1>1, <1>2 DEF First, WithRoom
    <3>2. Behind(j, f)
      <4>1. CASE j = i
        <5>1. f < M[i].start + OffsetIn(i) /\ OffsetIn(i) > 0
          BY <1>0, <1>2, <1>3, <1>4, <2>1, <2>3, <4>1 DEF Behind
        <5> QED BY <1>0, <5>1, <4>1 DEF Behind, OffsetIn, CursorOK
      <4>2. CASE j # i
        <5>1. j < i /\ ~HasRoom(j)
          BY <1>0, <1>2, <1>4, <3>1, <4>2 DEF Behind
        <5>2. CASE j >= region_idx
          <6>1. M[j].end - M[j].start <= OffsetIn(j)
            BY <1>0, <1>2, <2>1, <5>1, <5>2 DEF HasRoom, OffsetIn, CursorOK
          <6>2. CASE j = region_idx
            BY <1>0, <1>2, <2>1, <6>1, <6>2 DEF Behind, OffsetIn, CursorOK
          <6>3. CASE j # region_idx
            BY <1>0, <1>2, <2>1, <6>1, <6>3 DEF OffsetIn, CursorOK
          <6> QED BY <6>2, <6>3
        <5>3. CASE j < region_idx
          BY <5>3 DEF Behind
        <5> QED BY <1>0, <1>2, <5>2, <5>3 DEF CursorOK
      <4> QED BY <4>1, <4>2
    <3>3. PICK u \in DOMAIN given : given[u] = f
      BY <3>2 DEF Inv, AllBehind
    <3> QED BY <1>1, <1>9, <2>3, <3>3
  <2> QED BY <2>2, <2>3
<1> QED BY <1>0, <1>6, <1>10, <1>11, <1>12 DEF Inv, PanicPast

\* When no region has room, every usable frame is behind the cursor already.
LEMMA ExhaustedStep ==
  ASSUME Inv, OutOfFrames PROVE Inv'
<1> DEFINE M == memory_regions
<1>0. /\ CursorOK /\ WithRoom = {} /\ UNCHANGED <<memory_regions, given>>
      /\ region_idx' = Len(M) + 1 /\ frame_offset' = 0 /\ phase' = "panic"
  BY DEF Inv, OutOfFrames, Exhausted
<1>1. /\ Len(M) \in Nat /\ DOMAIN M = 1..Len(M)
      /\ \A k \in DOMAIN M : M[k].start \in Nat /\ M[k].end \in Nat /\ M[k].start <= M[k].end
  BY <1>0, MapFacts DEF CursorOK, Region
<1>2. ASSUME NEW i \in DOMAIN M, NEW f, IsUsable(i, f)
      PROVE  Behind(i, f) /\ Behind(i, f)'
  <2>1. ~HasRoom(i)
    BY <1>0 DEF WithRoom
  <2>2. f \in Int /\ M[i].start <= f /\ f < M[i].end /\ M[i].usable
    BY <1>1, <1>2 DEF IsUsable, FramesOf
  <2>3. Behind(i, f)
    BY <1>0, <1>1, <2>1, <2>2 DEF HasRoom, OffsetIn, Behind, CursorOK
  <2> QED BY <1>0, <1>1, <2>3 DEF Behind
<1>3. OnlyBehind' /\ AllBehind'
  BY <1>0, <1>2 DEF Inv, OnlyBehind, AllBehind, IsUsable
<1> QED BY <1>0, <1>1, <1>3 DEF Inv, CursorOK, FramesDistinct, PanicPast

LEMMA OtherSteps == Inv /\ (HeapReady \/ UNCHANGED vars) => Inv'
BY DEF Inv, HeapReady, vars, CursorOK, OnlyBehind, AllBehind, FramesDistinct, PanicPast, Behind,
       IsUsable

LEMMA Inductive == Spec => []Inv
<1>1. Inv /\ [Next]_vars => Inv'
  BY GiveStep, ExhaustedStep, OtherSteps DEF Next
<1> QED BY Initially, <1>1, PTL DEF Spec

\* Every frame that boot hands to the heap or to a page table is usable memory
\* of the bootloader's map, for every map (BootInfoFrameAllocator).
THEOREM FramesUsable == Spec => []TypeOK
<1>1. Inv => TypeOK
  <2> SUFFICES ASSUME Inv PROVE TypeOK
    OBVIOUS
  <2>1. \A u \in DOMAIN given : given[u] \in UsableFrames
    BY DEF Inv, OnlyBehind, IsUsable, UsableFrames
  <2>2. Len(memory_regions) \in Nat
    BY MapFacts DEF Inv, CursorOK
  <2> QED BY <2>1, <2>2 DEF Inv, CursorOK, TypeOK
<1> QED BY <1>1, Inductive, PTL

\* No frame is handed to two users, for every map and heap, with map_to calling
\* the allocator between two pages.
THEOREM NoFrameTwice == Spec => []FramesDistinct
<1>1. Inv => FramesDistinct
  BY DEF Inv
<1> QED BY <1>1, Inductive, PTL

\* heap::init fails for want of frames only when every usable frame of the map
\* has been handed out.
THEOREM FailsOnlyWhenFull == Spec => []PanicsOnlyWhenExhausted
<1>1. Inv => PanicsOnlyWhenExhausted
  <2> SUFFICES ASSUME Inv, phase = "panic", NEW f \in UsableFrames
               PROVE  \E u \in DOMAIN given : given[u] = f
    BY DEF PanicsOnlyWhenExhausted
  <2>1. PICK i \in DOMAIN memory_regions : IsUsable(i, f)
    BY DEF UsableFrames, IsUsable
  <2>2. Behind(i, f)
    BY <2>1, MapFacts DEF Inv, CursorOK, PanicPast, Behind
  <2> QED BY <2>1, <2>2 DEF Inv, AllBehind, IsUsable
<1> QED BY <1>1, Inductive, PTL
-----------------------------------------------------------------------------
(* Induction without an operator as parameter: over a set of numbers.       *)

\* A set of natural numbers that is not empty has a least element.
LEMMA LeastElement ==
  ASSUME NEW T \in SUBSET Nat, T # {}
  PROVE  \E k \in T : \A j \in T : k <= j
<1> DEFINE R == OpToRel(<, Nat)
<1>1. IsWellFoundedOn(R, Nat)
  BY NatLessThanWellFounded
<1>2. \A i, j \in Nat : i < j => <<i, j>> \in R
  BY Zenon DEF OpToRel
<1> HIDE DEF R
<1>3. PICK k \in T : \A j \in T : <<j, k>> \notin R
  BY <1>1, WFMin
<1> SUFFICES ASSUME NEW j \in T PROVE k <= j
  OBVIOUS
<1>4. j \in Nat /\ k \in Nat /\ ~ (j < k)
  BY <1>2, <1>3
<1> QED BY <1>4

\* A set of natural numbers with 0 and each successor is all of Nat.
LEMMA Inductively ==
  ASSUME NEW S \in SUBSET Nat, 0 \in S, \A n \in S : n + 1 \in S
  PROVE  S = Nat
<1> SUFFICES ASSUME Nat \ S # {} PROVE FALSE
  OBVIOUS
<1>1. PICK k \in Nat \ S : \A j \in Nat \ S : k <= j
  BY LeastElement
<1>2. k # 0 /\ k - 1 \in Nat /\ k - 1 \notin Nat \ S
  BY <1>1
<1> QED BY <1>2
-----------------------------------------------------------------------------
(* Arithmetic of blocks.  Frame x lies in the cell Cell(x, o) of order o.   *)

PowerAt(f, n) == IF n = 0 THEN 1 ELSE 2 * f[n - 1]
Powers(f, m) == \A n \in 0 .. m : f[n] = PowerAt(f, n)

LEMMA PowersUnique ==
  ASSUME NEW f, NEW g, NEW m \in Nat, Powers(f, m), Powers(g, m)
  PROVE  f[m] = g[m]
<1> DEFINE S == {n \in Nat : n <= m => f[n] = g[n]}
<1>1. 0 \in S
  BY DEF Powers, PowerAt
<1>2. ASSUME NEW n \in S PROVE n + 1 \in S
  <2> SUFFICES ASSUME n + 1 <= m PROVE f[n + 1] = g[n + 1]
    OBVIOUS
  <2>1. n + 1 \in 0 .. m /\ n + 1 # 0 /\ n + 1 - 1 = n /\ f[n] = g[n]
    OBVIOUS
  <2>2. f[n + 1] = PowerAt(f, n + 1) /\ g[n + 1] = PowerAt(g, n + 1)
    BY <2>1 DEF Powers
  <2> QED BY <2>1, <2>2 DEF PowerAt
<1>3. S \in SUBSET Nat
  OBVIOUS
<1> HIDE DEF S
<1>4. m \in S
  BY <1>1, <1>2, <1>3, Inductively
<1> QED BY <1>4 DEF S

LEMMA PowersExist == \A m \in Nat : \E f : Powers(f, m)
<1> DEFINE S == {m \in Nat : \E f : Powers(f, m)}
<1>1. 0 \in S
  <2> DEFINE f == [n \in 0 .. 0 |-> 1]
  <2>1. Powers(f, 0)
    BY DEF Powers, PowerAt
  <2> HIDE DEF f
  <2> QED BY <2>1
<1>2. ASSUME NEW m \in S PROVE m + 1 \in S
  <2>1. PICK f : Powers(f, m)
    BY <1>2
  <2> DEFINE g == [n \in 0 .. (m + 1) |-> IF n = m + 1 THEN 2 * f[m] ELSE f[n]]
  <2>2. \A n \in 0 .. m : g[n] = f[n]
    OBVIOUS
  <2>3. g[m + 1] = 2 * f[m] /\ m \in 0 .. m
    OBVIOUS
  <2> HIDE DEF g
  <2>4. ASSUME NEW n \in 0 .. (m + 1) PROVE g[n] = PowerAt(g, n)
    <3>1. CASE n = m + 1
      BY <2>2, <2>3, <3>1 DEF PowerAt
    <3>2. CASE n # m + 1
      <4>1. n \in 0 .. m /\ g[n] = f[n] /\ (n # 0 => n - 1 \in 0 .. m /\ g[n - 1] = f[n - 1])
        BY <2>2, <3>2
      <4>2. f[n] = PowerAt(f, n)
        BY <2>1, <4>1 DEF Powers
      <4> QED BY <4>1, <4>2 DEF PowerAt
    <3> QED BY <3>1, <3>2
  <2>5. Powers(g, m + 1)
    BY <2>4 DEF Powers
  <2> QED BY <2>5
<1>3. S \in SUBSET Nat
  OBVIOUS
<1> HIDE DEF S
<1>4. S = Nat
  BY <1>1, <1>2, <1>3, Inductively
<1> QED BY <1>4 DEF S

LEMMA PowerStep ==
  /\ Pow2[0] = 1
  /\ \A n \in Nat : Pow2[n] \in Nat \ {0} /\ Pow2[n + 1] = 2 * Pow2[n] /\ n < Pow2[n]
<1> DEFINE F(m) == CHOOSE f : Powers(f, m)
           h == [n \in Nat |-> F(n)[n]]
<1>1. \A m \in Nat : Powers(F(m), m)
  BY PowersExist
<1> HIDE DEF F
<1>2. ASSUME NEW n \in Nat PROVE h[n] = PowerAt(h, n)
  <2>1. n \in 0 .. n /\ F(n)[n] = PowerAt(F(n), n)
    BY <1>1 DEF Powers
  <2>2. ASSUME n # 0 PROVE F(n)[n - 1] = F(n - 1)[n - 1] /\ n - 1 \in Nat
    <3>1. n - 1 \in Nat
      BY <2>2
    <3>2. Powers(F(n), n - 1) /\ Powers(F(n - 1), n - 1)
      BY <1>1, <2>2, <3>1 DEF Powers
    <3> QED BY <3>1, <3>2, PowersUnique
  <2>3. h[n] = F(n)[n] /\ (n # 0 => n - 1 \in Nat /\ h[n - 1] = F(n - 1)[n - 1])
    BY <2>2
  <2> HIDE DEF h
  <2> QED BY <2>1, <2>2, <2>3 DEF PowerAt
<1>3. h = [n \in Nat |-> h[n]]
  OBVIOUS
<1> HIDE DEF h
<1>4. h = [n \in Nat |-> IF n = 0 THEN 1 ELSE 2 * h[n - 1]]
  BY <1>2, <1>3 DEF PowerAt
<1> DEFINE Is(f) == f = [n \in Nat |-> IF n = 0 THEN 1 ELSE 2 * f[n - 1]]
<1>5. Is(CHOOSE f : Is(f))
  BY <1>4
<1>6. Is(Pow2)
  BY <1>5 DEF Pow2
<1>7. \A n \in Nat : Pow2[n] = IF n = 0 THEN 1 ELSE 2 * Pow2[n - 1]
  BY <1>6
<1>8. Pow2[0] = 1 /\ \A n \in Nat : Pow2[n + 1] = 2 * Pow2[n]
  <2>1. \A n \in Nat : n + 1 \in Nat /\ n + 1 # 0 /\ n + 1 - 1 = n
    OBVIOUS
  <2> QED BY <1>7, <2>1
<1> DEFINE U == {n \in Nat : Pow2[n] \in Nat /\ n < Pow2[n]}
<1>9. 0 \in U
  BY <1>8
<1>10. ASSUME NEW n \in U PROVE n + 1 \in U
  BY <1>8
<1>11. U \in SUBSET Nat
  OBVIOUS
<1> HIDE DEF U
<1>12. U = Nat
  BY <1>9, <1>10, <1>11, Inductively
<1> QED BY <1>8, <1>12 DEF U

\* What div and mod are, and that nothing else is.
LEMMA Division ==
  ASSUME NEW P \in Nat \ {0}, NEW x \in Nat
  PROVE  /\ x \div P \in Nat /\ x % P \in Nat /\ x % P < P
         /\ x = (x \div P) * P + (x % P)
OBVIOUS

LEMMA DivisionUnique ==
  ASSUME NEW P \in Nat \ {0}, NEW x \in Nat, NEW q \in Nat, NEW r \in Nat, r < P,
         x = (q * P) + r
  PROVE  x \div P = q /\ x % P = r
OBVIOUS

Aligned(f, o) == f % Pow2[o] = 0
Cell(x, o) == x \div Pow2[o]
Twin(i) == IF i % 2 = 0 THEN i + 1 ELSE i - 1

LEMMA TwinFacts ==
  ASSUME NEW i \in Nat
  PROVE  /\ Twin(i) \in Nat /\ Twin(i) # i /\ Twin(Twin(i)) = i /\ i \div 2 \in Nat
         /\ \A j \in Nat : j \div 2 = i \div 2 <=> j = i \/ j = Twin(i)
BY DEF Twin

LEMMA CellFacts ==
  ASSUME NEW x \in Nat, NEW o \in Nat
  PROVE  /\ Cell(x, o) \in Nat
         /\ Cell(x, o + 1) = Cell(x, o) \div 2
         /\ Aligned(x, o) => x = Cell(x, o) * Pow2[o]
<1> DEFINE P == Pow2[o]
           q == x \div P
           r == x % P
<1>1. P \in Nat \ {0} /\ Pow2[o + 1] = 2 * P /\ 2 * P \in Nat \ {0}
  BY PowerStep
<1> HIDE DEF P
<1>2. q \in Nat /\ r \in Nat /\ r < P /\ x = (q * P) + r
  BY <1>1, Division
<1> HIDE DEF q, r
<1>3. PICK h \in Nat, b \in {0, 1} : q = (2 * h) + b /\ h = q \div 2
  <2>1. q \div 2 \in Nat /\ q % 2 \in {0, 1} /\ q = (2 * (q \div 2)) + (q % 2)
    BY <1>2
  <2> QED BY <2>1
<1>4. (b * P) + r \in Nat /\ (b * P) + r < 2 * P
  <2>1. CASE b = 0
    BY <1>1, <1>2, <2>1
  <2>2. CASE b = 1
    BY <1>1, <1>2, <2>2
  <2> QED BY <1>3, <2>1, <2>2
<1>5. x = (h * (2 * P)) + ((b * P) + r)
  <2>1. q * P = (h * (2 * P)) + (b * P)
    <3>1. ((2 * h) + b) * P = (h * (2 * P)) + (b * P)
      BY <1>1, <1>3
    <3> QED BY <1>3, <3>1
  <2>2. q * P \in Nat /\ h * (2 * P) \in Nat /\ b * P \in Nat
    BY <1>1, <1>2, <1>3
  <2> QED BY <1>2, <2>1, <2>2
<1>6. x \div (2 * P) = h
  BY <1>1, <1>3, <1>4, <1>5, DivisionUnique
<1>7. Cell(x, o) = q /\ Cell(x, o + 1) = h
  BY <1>1, <1>6 DEF Cell, P, q
<1>8. Aligned(x, o) => r = 0
  BY DEF Aligned, r, P
<1>9. Aligned(x, o) => x = q * P
  BY <1>1, <1>2, <1>8
<1> QED BY <1>2, <1>3, <1>7, <1>9 DEF P

\* A multiple of the block size is aligned, and numbers its cell.
LEMMA Multiple ==
  ASSUME NEW o \in Nat, NEW i \in Nat
  PROVE  /\ i * Pow2[o] \in Nat
         /\ Aligned(i * Pow2[o], o) /\ Cell(i * Pow2[o], o) = i
<1>1. Pow2[o] \in Nat \ {0}
  BY PowerStep
<1> DEFINE P == Pow2[o]
           x == i * P
<1> HIDE DEF P
<1>2. x \in Nat /\ x = (i * P) + 0 /\ 0 \in Nat /\ 0 < P
  BY <1>1 DEF P
<1> HIDE DEF x
<1>3. x \div P = i /\ x % P = 0
  BY <1>1, <1>2, DivisionUnique DEF P
<1> QED BY <1>2, <1>3 DEF x, P, Aligned, Cell

\* An aligned block is its cell.
LEMMA BlockIsCell ==
  ASSUME NEW f \in Nat, NEW o \in Nat, Aligned(f, o)
  PROVE  /\ \A x : x \in Block(f, o) <=> x \in Nat /\ Cell(x, o) = Cell(f, o)
         /\ f \in Block(f, o)
<1> DEFINE P == Pow2[o]
           c == Cell(f, o)
<1>1. P \in Nat \ {0} /\ c \in Nat /\ f = c * P
  BY PowerStep, CellFacts
<1>2. Block(f, o) = f .. (f + P - 1)
  BY DEF Block
<1>3. ASSUME NEW x \in Nat, Cell(x, o) = c PROVE x \in f .. (f + P - 1)
  <2>1. x % P \in Nat /\ x % P < P /\ x = (c * P) + (x % P)
    BY <1>1, <1>3, Division DEF Cell
  <2> DEFINE r == x % P
  <2> HIDE DEF P, c, r
  <2>2. r \in Nat /\ r < P /\ x = f + r
    BY <1>1, <2>1 DEF r
  <2> QED BY <1>1, <2>2
<1>4. ASSUME NEW x \in f .. (f + P - 1) PROVE x \in Nat /\ Cell(x, o) = c
  <2> DEFINE r == x - f
  <2>1. x \in Nat /\ r \in Nat /\ r < P /\ x = f + r
    BY <1>1, <1>4
  <2> HIDE DEF r
  <2>2. x = (c * P) + r
    BY <1>1, <2>1
  <2>3. x \div P = c
    <3> HIDE DEF P, c
    <3> QED BY <1>1, <2>1, <2>2, DivisionUnique
  <2> QED BY <2>1, <2>3 DEF Cell
<1> HIDE DEF P, c
<1>5. f \in f .. (f + P - 1)
  BY <1>1
<1>6. \A x : x \in f .. (f + P - 1) <=> x \in Nat /\ Cell(x, o) = c
  BY <1>3, <1>4
<1> QED BY <1>2, <1>5, <1>6 DEF c

LEMMA AlignedUnique ==
  ASSUME NEW f \in Nat, NEW g \in Nat, NEW o \in Nat, Aligned(f, o), Aligned(g, o),
         Cell(f, o) = Cell(g, o)
  PROVE  f = g
<1>1. f = Cell(f, o) * Pow2[o]
  BY CellFacts
<1>2. g = Cell(g, o) * Pow2[o]
  BY CellFacts
<1> QED BY <1>1, <1>2

LEMMA BlockAtFacts ==
  ASSUME NEW f \in Nat, NEW o \in Nat
  PROVE  /\ BlockAt(f, o) \in Nat /\ Aligned(BlockAt(f, o), o)
         /\ Cell(BlockAt(f, o), o) = Cell(f, o)
         /\ Aligned(f, o) => BlockAt(f, o) = f
<1> DEFINE P == Pow2[o]
           q == f \div P
<1>1. /\ P \in Nat \ {0} /\ q \in Nat /\ f % P \in Nat /\ f = (q * P) + (f % P)
  BY PowerStep, Division
<1>2. BlockAt(f, o) = f - (f % P)
  BY DEF BlockAt
<1>3. q * P \in Nat /\ Aligned(q * P, o) /\ Cell(q * P, o) = q
  BY <1>1, Multiple
<1>4. Cell(f, o) = q
  BY DEF Cell
<1>5. BlockAt(f, o) = q * P
  <2> DEFINE r == f % P
             m == q * P
  <2>1. r \in Nat /\ m \in Nat /\ f = m + r
    BY <1>1, <1>3
  <2> HIDE DEF r, m
  <2>2. f - r = m
    BY <2>1
  <2> QED BY <1>2, <2>2 DEF r, m
<1>6. Aligned(f, o) => BlockAt(f, o) = f
  BY <1>1, <1>2 DEF Aligned
<1> QED BY <1>3, <1>4, <1>5, <1>6

LEMMA BuddyFacts ==
  ASSUME NEW f \in Nat, NEW o \in Nat, Aligned(f, o)
  PROVE  /\ Buddy(f, o) \in Nat /\ Aligned(Buddy(f, o), o)
         /\ Cell(Buddy(f, o), o) = Twin(Cell(f, o))
<1> DEFINE P == Pow2[o]
           i == Cell(f, o)
<1>1. P \in Nat \ {0} /\ i \in Nat /\ f = i * P
  BY PowerStep, CellFacts
<1>2. Buddy(f, o) = IF i % 2 = 0 THEN f + P ELSE f - P
  BY DEF Buddy, Cell
<1>3. Twin(i) \in Nat /\ Twin(i) = IF i % 2 = 0 THEN i + 1 ELSE i - 1
  BY <1>1, TwinFacts DEF Twin
<1> HIDE DEF P, i
<1>4. (i + 1) * P = (i * P) + P /\ (i - 1) * P = (i * P) - P
  BY <1>1
<1>5. Buddy(f, o) = Twin(i) * P
  BY <1>1, <1>2, <1>3, <1>4
<1> QED BY <1>3, <1>5, Multiple DEF P, i

\* What two frames share at one order they share above it.
LEMMA SharedAbove ==
  ASSUME NEW x \in Nat, NEW y \in Nat, NEW o \in Nat, NEW k \in Nat, o <= k,
         Cell(x, o) = Cell(y, o)
  PROVE  Cell(x, k) = Cell(y, k)
<1> DEFINE S == {d \in Nat : Cell(x, o + d) = Cell(y, o + d)}
<1>1. 0 \in S
  BY DEF S
<1>2. ASSUME NEW d \in S PROVE d + 1 \in S
  <2>1. o + d \in Nat /\ o + (d + 1) = (o + d) + 1
    OBVIOUS
  <2>2. Cell(x, (o + d) + 1) = Cell(y, (o + d) + 1)
    BY <2>1, CellFacts
  <2> QED BY <2>1, <2>2
<1>3. S \in SUBSET Nat
  OBVIOUS
<1> HIDE DEF S
<1>4. k - o \in S
  BY <1>1, <1>2, <1>3, Inductively
<1>5. o + (k - o) = k
  OBVIOUS
<1> QED BY <1>4, <1>5 DEF S

\* A block is the part it started from and the buddies merged on the way up.
LEMMA Merging ==
  ASSUME NEW f \in Nat, NEW x \in Nat, NEW o \in Nat, NEW n \in Nat, o <= n
  PROVE  Cell(x, n) = Cell(f, n) <=>
            \/ Cell(x, o) = Cell(f, o)
            \/ \E k \in o .. (n - 1) : Cell(x, k) = Twin(Cell(f, k))
<1> DEFINE Up(m) == \/ Cell(x, o) = Cell(f, o)
                    \/ \E k \in o .. (m - 1) : Cell(x, k) = Twin(Cell(f, k))
           S == {d \in Nat : Cell(x, o + d) = Cell(f, o + d) <=> Up(o + d)}
<1>1. 0 \in S
  <2>1. o + 0 = o /\ o .. (o - 1) = {}
    OBVIOUS
  <2> QED BY <2>1
<1>2. ASSUME NEW d \in S PROVE d + 1 \in S
  <2> DEFINE m == o + d
  <2>1. m \in Nat /\ o + (d + 1) = m + 1 /\ o .. ((m + 1) - 1) = (o .. (m - 1)) \cup {m}
    OBVIOUS
  <2>2. Cell(x, m) = Cell(f, m) <=> Up(m)
    OBVIOUS
  <2> HIDE DEF m
  <2>3. Up(m + 1) <=> Up(m) \/ Cell(x, m) = Twin(Cell(f, m))
    BY <2>1
  <2> HIDE DEF Up
  <2>4. /\ Cell(x, m) \in Nat /\ Cell(f, m) \in Nat
        /\ Cell(x, m + 1) = Cell(x, m) \div 2 /\ Cell(f, m + 1) = Cell(f, m) \div 2
    BY <2>1, CellFacts
  <2>5. Cell(x, m + 1) = Cell(f, m + 1) <=> Cell(x, m) = Cell(f, m) \/ Cell(x, m) = Twin(Cell(f, m))
    BY <2>4, TwinFacts
  <2>6. Cell(x, m + 1) = Cell(f, m + 1) <=> Up(m + 1)
    BY <2>2, <2>3, <2>5
  <2> QED BY <2>1, <2>6
<1>3. S \in SUBSET Nat
  OBVIOUS
<1> HIDE DEF S, Up
<1>4. n - o \in S /\ o + (n - o) = n
  BY <1>1, <1>2, <1>3, Inductively
<1>5. Cell(x, n) = Cell(f, n) <=> Up(n)
  BY <1>4 DEF S
<1> QED BY <1>5 DEF Up

\* The buddies on the way up are disjoint, from each other and from the start.
LEMMA Apart ==
  ASSUME NEW f \in Nat, NEW x \in Nat, NEW j \in Nat, NEW k \in Nat, j < k,
         Cell(x, k) = Twin(Cell(f, k))
  PROVE  Cell(x, j) # Cell(f, j) /\ Cell(x, j) # Twin(Cell(f, j))
<1>1. j + 1 \in Nat /\ j + 1 <= k
  OBVIOUS
<1>2. Cell(f, k) \in Nat /\ Cell(x, k) # Cell(f, k)
  BY CellFacts, TwinFacts
<1>3. Cell(x, j + 1) # Cell(f, j + 1)
  BY <1>1, <1>2, SharedAbove
<1>4. /\ Cell(x, j) \in Nat /\ Cell(f, j) \in Nat
      /\ Cell(x, j + 1) = Cell(x, j) \div 2 /\ Cell(f, j + 1) = Cell(f, j) \div 2
  BY CellFacts
<1> QED BY <1>3, <1>4, TwinFacts

\* The start of a block is the lower one of each pair inside it.
LEMMA StartIsLower ==
  ASSUME NEW f \in Nat, NEW o \in Nat, Aligned(f, o), NEW k \in Nat, k < o
  PROVE  Aligned(f, k) /\ Buddy(f, k) = f + Pow2[k]
<1> DEFINE S == {m \in Nat : \A g \in Nat : Aligned(g, m) =>
                    \A j \in Nat : j < m => Aligned(g, j) /\ Buddy(g, j) = g + Pow2[j]}
<1>1. 0 \in S
  OBVIOUS
<1>2. ASSUME NEW m \in S PROVE m + 1 \in S
  <2> SUFFICES ASSUME NEW g \in Nat, Aligned(g, m + 1), NEW j \in Nat, j < m + 1
               PROVE  Aligned(g, j) /\ Buddy(g, j) = g + Pow2[j]
    OBVIOUS
  <2> DEFINE i == Cell(g, m + 1)
             P == Pow2[m]
  <2>1. i \in Nat /\ P \in Nat \ {0} /\ g = i * (2 * P)
    <3>1. m + 1 \in Nat /\ Pow2[m + 1] = 2 * P /\ P \in Nat \ {0}
      BY PowerStep
    <3>2. i \in Nat /\ g = i * Pow2[m + 1]
      BY <3>1, CellFacts
    <3> QED BY <3>1, <3>2
  <2>2. g = (2 * i) * P /\ 2 * i \in Nat /\ (2 * i) % 2 = 0
    <3> HIDE DEF i, P
    <3> QED BY <2>1
  <2>3. Aligned(g, m) /\ Cell(g, m) = 2 * i
    <3> HIDE DEF i
    <3> QED BY <2>2, Multiple
  <2>4. Buddy(g, m) = g + P
    BY <2>2, <2>3 DEF Buddy, Cell
  <2>5. CASE j = m
    BY <2>3, <2>4, <2>5
  <2>6. CASE j # m
    <3>1. j < m
      BY <2>6
    <3> QED BY <2>3, <3>1
  <2> QED BY <2>5, <2>6
<1>3. S \in SUBSET Nat
  OBVIOUS
<1> HIDE DEF S
<1>4. o \in S
  BY <1>1, <1>2, <1>3, Inductively
<1> QED BY <1>4 DEF S
-----------------------------------------------------------------------------
(* What the free lists say, whatever is split and merged.                   *)

ListsOK ==
    /\ free_lists \in [Orders -> SUBSET Nat]
    /\ \A o \in Orders : \A f \in free_lists[o] : Aligned(f, o)

NoPairs == \A o \in Orders : \A f \in free_lists[o] : Buddy(f, o) \notin free_lists[o]

FreeApart ==
    \A o, p \in Orders : \A f \in free_lists[o], g \in free_lists[p] :
        \A x : x \in Block(f, o) /\ x \in Block(g, p) => o = p /\ f = g

Lists == ListsOK /\ NoPairs /\ FreeApart

\* The buddy met at order k on the way up from f.
Met(f, k) == Buddy(BlockAt(f, k), k)

LEMMA MetFacts ==
  ASSUME NEW f \in Nat, NEW k \in Nat
  PROVE  /\ Met(f, k) \in Nat /\ Aligned(Met(f, k), k)
         /\ Cell(Met(f, k), k) = Twin(Cell(f, k))
         /\ \A x : x \in Block(Met(f, k), k) <=> x \in Nat /\ Cell(x, k) = Twin(Cell(f, k))
<1>1. BlockAt(f, k) \in Nat /\ Aligned(BlockAt(f, k), k) /\ Cell(BlockAt(f, k), k) = Cell(f, k)
  BY BlockAtFacts
<1>2. /\ Met(f, k) \in Nat /\ Aligned(Met(f, k), k)
      /\ Cell(Met(f, k), k) = Twin(Cell(f, k))
  BY <1>1, BuddyFacts DEF Met
<1> QED BY <1>2, BlockIsCell

LEMMA OrderFacts ==
  /\ Orders \subseteq Nat /\ MaxOrder \in Nat
  /\ \A o : o \in Orders <=> o \in Nat /\ o < MaxOrder
BY BuddyAssumption DEF Orders

LEMMA FreeFramesAre ==
  \A x : x \in FreeFrames <=> \E p \in Orders : \E h \in free_lists[p] : x \in Block(h, p)
BY DEF FreeFrames

\* A block of the lists is a cell of its order.
LEMMA ListedIsCell ==
  ASSUME ListsOK, NEW p \in Orders, NEW h \in free_lists[p]
  PROVE  /\ p \in Nat /\ h \in Nat /\ Aligned(h, p) /\ h \in Block(h, p)
         /\ \A x : x \in Block(h, p) <=> x \in Nat /\ Cell(x, p) = Cell(h, p)
<1>1. p \in Nat /\ h \in Nat /\ Aligned(h, p)
  BY OrderFacts DEF ListsOK
<1> QED BY <1>1, BlockIsCell

\* free(): the block and the buddies it met become one block.
LEMMA MergeKeeps ==
  ASSUME Lists, NEW f \in Nat, NEW o \in Orders, Aligned(f, o),
         Block(f, o) \cap FreeFrames = {},
         NEW n \in Orders, o <= n, Met(f, n) \notin free_lists[n],
         \A k \in o .. (n - 1) : Met(f, k) \in free_lists[k],
         free_lists' = [k \in Orders |->
                    IF k \in o .. (n - 1) THEN free_lists[k] \ {Met(f, k)}
                    ELSE IF k = n THEN free_lists[k] \cup {BlockAt(f, n)}
                    ELSE free_lists[k]]
  PROVE  Lists' /\ FreeFrames' = FreeFrames \cup Block(f, o)
<1> DEFINE g == BlockAt(f, n)
           Gone(p, h) == p \in o .. (n - 1) /\ h = Met(f, p)
<1>1. /\ o \in Nat /\ n \in Nat /\ o .. (n - 1) \subseteq Orders /\ n \notin o .. (n - 1)
      /\ \A k \in o .. (n - 1) : k \in Nat
  BY OrderFacts
<1>2. /\ g \in Nat /\ Aligned(g, n) /\ Cell(g, n) = Cell(f, n)
      /\ \A x : x \in Block(g, n) <=> x \in Nat /\ Cell(x, n) = Cell(f, n)
  <2>1. g \in Nat /\ Aligned(g, n) /\ Cell(g, n) = Cell(f, n)
    BY <1>1, BlockAtFacts
  <2> QED BY <1>1, <2>1, BlockIsCell
<1>3. \A x : x \in Block(f, o) <=> x \in Nat /\ Cell(x, o) = Cell(f, o)
  BY <1>1, BlockIsCell
<1> HIDE DEF g
<1>4. \A x : x \in Block(g, n) <=>
               x \in Block(f, o) \/ \E k \in o .. (n - 1) : x \in Block(Met(f, k), k)
  <2> SUFFICES ASSUME NEW x, x \in Nat
               PROVE  Cell(x, n) = Cell(f, n) <=>
                        Cell(x, o) = Cell(f, o) \/ \E k \in o .. (n - 1) : x \in Block(Met(f, k), k)
    <3>1. \A k \in o .. (n - 1) : \A x : x \in Block(Met(f, k), k) => x \in Nat
      BY <1>1, MetFacts
    <3> QED BY <1>2, <1>3, <3>1
  <2>1. \A k \in o .. (n - 1) : x \in Block(Met(f, k), k) <=> Cell(x, k) = Twin(Cell(f, k))
    BY <1>1, MetFacts
  <2>2. Cell(x, n) = Cell(f, n) <=>
          \/ Cell(x, o) = Cell(f, o)
          \/ \E k \in o .. (n - 1) : Cell(x, k) = Twin(Cell(f, k))
    BY <1>1, Merging
  <2> QED BY <2>1, <2>2
<1>5. ListsOK /\ NoPairs /\ FreeApart /\ \A p \in Orders : free_lists[p] \subseteq Nat
  BY DEF Lists, ListsOK
<1>6. \A p \in Orders : \A h :
        h \in free_lists'[p] <=> (h \in free_lists[p] /\ ~Gone(p, h)) \/ (p = n /\ h = g)
  <2> SUFFICES ASSUME NEW p \in Orders, NEW h
               PROVE  h \in free_lists'[p] <=>
                        (h \in free_lists[p] /\ ~Gone(p, h)) \/ (p = n /\ h = g)
    OBVIOUS
  <2>1. CASE p \in o .. (n - 1)
    BY <1>1, <2>1
  <2>2. CASE p = n
    BY <1>1, <2>2 DEF g
  <2>3. CASE p \notin o .. (n - 1) /\ p # n
    BY <2>3
  <2> QED BY <2>1, <2>2, <2>3
<1>7. \A k \in o .. (n - 1) : Gone(k, Met(f, k)) /\ Met(f, k) \in free_lists[k] /\ k \in Orders
  BY <1>1
<1>8. ListsOK'
  <2>1. free_lists' \in [Orders -> SUBSET Nat]
    <3>1. \A p \in Orders : free_lists'[p] \subseteq Nat
      BY <1>2, <1>5, <1>6
    <3> QED BY <3>1
  <2>2. \A p \in Orders : \A h \in free_lists'[p] : Aligned(h, p)
    BY <1>2, <1>5, <1>6 DEF ListsOK
  <2>3. (\A p \in Orders : \A h \in free_lists[p] : Aligned(h, p))' <=>
           \A p \in Orders : \A h \in free_lists'[p] : Aligned(h, p)
    BY DEF Aligned
  <2> QED BY <2>1, <2>2, <2>3 DEF ListsOK
\* What stays does not touch the new block.
<1>9. ASSUME NEW p \in Orders, NEW h \in free_lists[p], ~Gone(p, h), NEW x \in Block(h, p)
      PROVE  x \notin Block(g, n)
  <2> SUFFICES ASSUME x \in Block(g, n) PROVE FALSE
    OBVIOUS
  <2>1. x \in FreeFrames
    BY FreeFramesAre
  <2>2. PICK k \in o .. (n - 1) : x \in Block(Met(f, k), k)
    BY <1>4, <2>1
  <2>3. p = k /\ h = Met(f, k)
    BY <1>5, <1>7, <2>2 DEF FreeApart
  <2> QED BY <1>7, <1>9, <2>3
<1>10. FreeApart'
  <2> SUFFICES ASSUME NEW a \in Orders, NEW b \in Orders,
                      NEW h \in free_lists'[a], NEW i \in free_lists'[b],
                      NEW x, x \in Block(h, a), x \in Block(i, b)
               PROVE  a = b /\ h = i
    BY DEF FreeApart, Block
  <2>1. (h \in free_lists[a] /\ ~Gone(a, h)) \/ (a = n /\ h = g)
    BY <1>6
  <2>2. (i \in free_lists[b] /\ ~Gone(b, i)) \/ (b = n /\ i = g)
    BY <1>6
  <2>3. CASE h \in free_lists[a] /\ ~Gone(a, h) /\ i \in free_lists[b]
    BY <1>5, <2>3 DEF FreeApart
  <2>4. CASE a = n /\ h = g /\ b = n /\ i = g
    BY <2>4
  <2> HIDE DEF Gone
  <2>5. CASE a = n /\ h = g /\ i \in free_lists[b] /\ ~Gone(b, i)
    BY <1>9, <2>5
  <2>6. CASE b = n /\ i = g /\ h \in free_lists[a] /\ ~Gone(a, h)
    BY <1>9, <2>6
  <2> QED BY <2>1, <2>2, <2>3, <2>4, <2>5, <2>6
<1>11. FreeFrames' = FreeFrames \cup Block(f, o)
  <2>1. \A x : x \in FreeFrames' <=> \E p \in Orders : \E h \in free_lists'[p] : x \in Block(h, p)
    BY DEF FreeFrames, Block
  <2>2. ASSUME NEW x \in FreeFrames' PROVE x \in FreeFrames \cup Block(f, o)
    <3>0. PICK p \in Orders : \E h \in free_lists'[p] : x \in Block(h, p)
      BY <2>1
    <3>1. PICK h \in free_lists'[p] : x \in Block(h, p)
      BY <3>0
    <3>2. CASE h \in free_lists[p]
      BY <3>1, <3>2, FreeFramesAre
    <3>3. CASE p = n /\ h = g
      <4>1. x \in Block(f, o) \/ \E k \in o .. (n - 1) : x \in Block(Met(f, k), k)
        BY <1>4, <3>1, <3>3
      <4> QED BY <1>7, <4>1, FreeFramesAre
    <3> QED BY <1>6, <3>1, <3>2, <3>3
  <2>3. ASSUME NEW x \in FreeFrames \cup Block(f, o) PROVE x \in FreeFrames'
    <3>1. CASE x \in Block(g, n)
      BY <1>6, <2>1, <3>1
    <3>2. CASE x \notin Block(g, n)
      <4>1. x \in FreeFrames
        BY <1>4, <2>3, <3>2
      <4>0. PICK p \in Orders : \E h \in free_lists[p] : x \in Block(h, p)
        BY <4>1, FreeFramesAre
      <4>2. PICK h \in free_lists[p] : x \in Block(h, p)
        BY <4>0
      <4>3. ~Gone(p, h)
        BY <1>4, <3>2, <4>2
      <4> QED BY <1>6, <2>1, <4>2, <4>3
    <3> QED BY <3>1, <3>2
  <2> QED BY <2>2, <2>3
<1>12. NoPairs'
  <2> SUFFICES ASSUME NEW p \in Orders, NEW h \in free_lists'[p], Buddy(h, p) \in free_lists'[p]
               PROVE  FALSE
    BY DEF NoPairs, Buddy
  <2>1. h \in free_lists[p] \/ (p = n /\ h = g)
    BY <1>6
  <2>2. Buddy(h, p) \in free_lists[p] \/ (p = n /\ Buddy(h, p) = g)
    BY <1>6
  <2>3. Buddy(g, n) = Met(f, n)
    BY DEF g, Met
  <2>4. p \in Nat /\ h \in Nat /\ Aligned(h, p)
    BY <1>2, <1>5, <2>1, OrderFacts DEF ListsOK
  <2>5. Cell(h, p) \in Nat /\ Buddy(h, p) \in Nat /\ Aligned(Buddy(h, p), p)
        /\ Cell(Buddy(h, p), p) = Twin(Cell(h, p))
    BY <2>4, CellFacts, BuddyFacts
  <2>6. CASE h \in free_lists[p] /\ Buddy(h, p) \in free_lists[p]
    BY <1>5, <2>6 DEF NoPairs
  <2>7. CASE p = n /\ h = g /\ Buddy(h, p) \in free_lists[p]
    BY <2>3, <2>7
  <2>8. CASE p = n /\ Buddy(h, p) = g /\ h = g
    BY <2>5, <2>8, TwinFacts
  <2>9. CASE p = n /\ Buddy(h, p) = g /\ h \in free_lists[p]
    <3>1. Cell(g, n) = Twin(Cell(h, n)) /\ Cell(Met(f, n), n) = Twin(Cell(f, n))
      BY <1>1, <2>5, <2>9, MetFacts
    <3>2. Cell(Met(f, n), n) = Cell(h, n)
      BY <1>2, <2>5, <2>9, <3>1, TwinFacts
    <3>3. h = Met(f, n)
      BY <1>1, <2>4, <2>9, <3>2, MetFacts, AlignedUnique
    <3> QED BY <2>9, <3>3
  <2> QED BY <2>1, <2>2, <2>6, <2>7, <2>8, <2>9
<1> QED BY <1>8, <1>10, <1>11, <1>12 DEF Lists

\* allocate(): the block is split into what is asked for and the upper halves.
LEMMA SplitKeeps ==
  ASSUME Lists, NEW o \in Orders, NEW order \in Orders, order <= o,
         NEW f \in free_lists[o],
         \A k \in order .. (o - 1) : free_lists[k] = {},
         Split(f, order, o)
  PROVE  /\ Lists' /\ FreeFrames' = FreeFrames \ Block(f, order)
         /\ f \in Nat /\ Aligned(f, order) /\ Block(f, order) \subseteq FreeFrames
<1>1. /\ o \in Nat /\ order \in Nat /\ order .. (o - 1) \subseteq Orders /\ o \notin order .. (o - 1)
      /\ \A k \in order .. (o - 1) : k \in Nat /\ k < o
  BY OrderFacts
<1>2. /\ ListsOK /\ NoPairs /\ FreeApart
      /\ \A p \in Orders : free_lists[p] \subseteq Nat
      /\ f \in Nat /\ Aligned(f, o)
      /\ \A x : x \in Block(f, o) <=> x \in Nat /\ Cell(x, o) = Cell(f, o)
  BY ListedIsCell DEF Lists, ListsOK
<1>3. Aligned(f, order)
  <2>1. CASE order = o
    BY <1>2, <2>1
  <2>2. CASE order # o
    BY <1>1, <1>2, <2>2, StartIsLower
  <2> QED BY <2>1, <2>2
<1>4. \A x : x \in Block(f, order) <=> x \in Nat /\ Cell(x, order) = Cell(f, order)
  BY <1>1, <1>2, <1>3, BlockIsCell
<1>5. \A k \in order .. (o - 1) : f + Pow2[k] = Met(f, k) /\ Aligned(f, k)
  <2> TAKE k \in order .. (o - 1)
  <2>1. Aligned(f, k) /\ Buddy(f, k) = f + Pow2[k]
    BY <1>1, <1>2, StartIsLower
  <2>2. BlockAt(f, k) = f
    BY <1>1, <1>2, <2>1, BlockAtFacts
  <2> QED BY <2>1, <2>2 DEF Met
<1>6. \A p \in Orders : \A h :
        h \in free_lists'[p] <=> \/ h \in free_lists[p] /\ ~(p = o /\ h = f)
                                 \/ p \in order .. (o - 1) /\ h = Met(f, p)
  <2> SUFFICES ASSUME NEW p \in Orders, NEW h
               PROVE  h \in free_lists'[p] <=>
                        \/ h \in free_lists[p] /\ ~(p = o /\ h = f)
                        \/ p \in order .. (o - 1) /\ h = Met(f, p)
    OBVIOUS
  <2>0. free_lists' = [k \in Orders |->
        IF k = o THEN free_lists[k] \ {f}
        ELSE IF k \in order .. (o - 1) THEN free_lists[k] \cup {f + Pow2[k]}
        ELSE free_lists[k]]
    BY DEF Split
  <2>1. CASE p = o
    BY <1>1, <2>0, <2>1
  <2>2. CASE p \in order .. (o - 1)
    BY <1>1, <1>5, <2>0, <2>2
  <2>3. CASE p # o /\ p \notin order .. (o - 1)
    BY <2>0, <2>3
  <2> QED BY <2>1, <2>2, <2>3
<1>7. \A x : x \in Block(f, o) <=>
               x \in Block(f, order) \/ \E k \in order .. (o - 1) : x \in Block(Met(f, k), k)
  <2> SUFFICES ASSUME NEW x, x \in Nat
               PROVE  Cell(x, o) = Cell(f, o) <=>
                        \/ Cell(x, order) = Cell(f, order)
                        \/ \E k \in order .. (o - 1) : x \in Block(Met(f, k), k)
    <3>1. \A k \in order .. (o - 1) : \A x : x \in Block(Met(f, k), k) => x \in Nat
      BY <1>1, <1>2, MetFacts
    <3> QED BY <1>2, <1>4, <3>1
  <2>1. \A k \in order .. (o - 1) : x \in Block(Met(f, k), k) <=> Cell(x, k) = Twin(Cell(f, k))
    BY <1>1, <1>2, MetFacts
  <2>2. Cell(x, o) = Cell(f, o) <=>
          \/ Cell(x, order) = Cell(f, order)
          \/ \E k \in order .. (o - 1) : Cell(x, k) = Twin(Cell(f, k))
    BY <1>1, <1>2, Merging
  <2> QED BY <2>1, <2>2
\* The parts of the split block are disjoint.
<1>8. ASSUME NEW k \in order .. (o - 1), NEW x \in Block(Met(f, k), k)
      PROVE  /\ x \notin Block(f, order)
             /\ \A j \in order .. (o - 1) : x \in Block(Met(f, j), j) => j = k
  <2>1. k \in Nat /\ x \in Nat /\ Cell(x, k) = Twin(Cell(f, k)) /\ order <= k
    BY <1>1, <1>2, MetFacts
  <2>2. Cell(f, k) \in Nat /\ Cell(x, k) # Cell(f, k)
    BY <1>2, <2>1, CellFacts, TwinFacts
  <2>3. Cell(x, order) # Cell(f, order)
    BY <1>1, <1>2, <2>1, <2>2, SharedAbove
  <2>4. ASSUME NEW j \in order .. (o - 1), x \in Block(Met(f, j), j) PROVE j = k
    <3>1. j \in Nat /\ Cell(x, j) = Twin(Cell(f, j))
      BY <1>1, <1>2, <2>4, MetFacts
    <3>2. ~ (j < k)
      BY <1>2, <2>1, <3>1, Apart
    <3>3. ~ (k < j)
      BY <1>2, <2>1, <3>1, Apart
    <3> QED BY <2>1, <3>1, <3>2, <3>3
  <2> QED BY <1>4, <2>3, <2>4
<1>9. ListsOK'
  <2>1. \A p \in order .. (o - 1) : Met(f, p) \in Nat /\ Aligned(Met(f, p), p)
    BY <1>1, <1>2, MetFacts
  <2>2. \A p \in Orders : free_lists'[p] \subseteq Nat
    BY <1>2, <1>6, <2>1
  <2>3. free_lists' \in [Orders -> SUBSET Nat]
    <3>1. free_lists' = [p \in Orders |-> free_lists'[p]]
      BY DEF Split
    <3> QED BY <2>2, <3>1
  <2>4. \A p \in Orders : \A h \in free_lists'[p] : Aligned(h, p)
    BY <1>2, <1>6, <2>1 DEF ListsOK
  <2> QED BY <2>3, <2>4 DEF ListsOK, Aligned
\* What stays in the lists lies outside the split block.
<1>10. ASSUME NEW p \in Orders, NEW h \in free_lists[p], ~(p = o /\ h = f), NEW x \in Block(h, p)
       PROVE  x \notin Block(f, o)
  BY <1>2, <1>10 DEF FreeApart
<1>11. FreeApart'
  <2> SUFFICES ASSUME NEW a \in Orders, NEW b \in Orders,
                      NEW h \in free_lists'[a], NEW i \in free_lists'[b],
                      NEW x, x \in Block(h, a), x \in Block(i, b)
               PROVE  a = b /\ h = i
    BY DEF FreeApart, Block
  <2>1. \/ h \in free_lists[a] /\ ~(a = o /\ h = f)
        \/ a \in order .. (o - 1) /\ h = Met(f, a)
    BY <1>6
  <2>2. \/ i \in free_lists[b] /\ ~(b = o /\ i = f)
        \/ b \in order .. (o - 1) /\ i = Met(f, b)
    BY <1>6
  <2>3. CASE h \in free_lists[a] /\ i \in free_lists[b]
    BY <1>2, <2>3 DEF FreeApart
  <2>4. CASE h \in free_lists[a] /\ ~(a = o /\ h = f) /\ b \in order .. (o - 1) /\ i = Met(f, b)
    BY <1>7, <1>10, <2>4
  <2>5. CASE i \in free_lists[b] /\ ~(b = o /\ i = f) /\ a \in order .. (o - 1) /\ h = Met(f, a)
    BY <1>7, <1>10, <2>5
  <2>6. CASE a \in order .. (o - 1) /\ h = Met(f, a) /\ b \in order .. (o - 1) /\ i = Met(f, b)
    BY <1>8, <2>6
  <2> QED BY <2>1, <2>2, <2>3, <2>4, <2>5, <2>6
<1>12. \A x : x \in FreeFrames' <=> \E p \in Orders : \E h \in free_lists'[p] : x \in Block(h, p)
  BY DEF FreeFrames, Block
<1>13. ASSUME NEW x \in FreeFrames' PROVE x \in FreeFrames \ Block(f, order)
  <2>1. PICK p \in Orders : \E h \in free_lists'[p] : x \in Block(h, p)
    BY <1>12
  <2>2. PICK h \in free_lists'[p] : x \in Block(h, p)
    BY <2>1
  <2>3. CASE h \in free_lists[p] /\ ~(p = o /\ h = f)
    BY <1>7, <1>10, <2>2, <2>3, FreeFramesAre
  <2>4. CASE p \in order .. (o - 1) /\ h = Met(f, p)
    <3>1. x \notin Block(f, order) /\ x \in Block(f, o)
      BY <1>7, <1>8, <2>2, <2>4
    <3> QED BY <3>1, FreeFramesAre
  <2> QED BY <1>6, <2>3, <2>4
<1>14. ASSUME NEW x \in FreeFrames \ Block(f, order) PROVE x \in FreeFrames'
  <2>1. CASE x \in Block(f, o)
    <3>1. PICK k \in order .. (o - 1) : x \in Block(Met(f, k), k)
      BY <1>7, <1>14, <2>1
    <3>2. k \in Orders /\ Met(f, k) \in free_lists'[k]
      BY <1>1, <1>6
    <3> QED BY <1>12, <3>1, <3>2
  <2>2. CASE x \notin Block(f, o)
    <3>1. PICK p \in Orders : \E h \in free_lists[p] : x \in Block(h, p)
      BY FreeFramesAre
    <3>2. PICK h \in free_lists[p] : x \in Block(h, p)
      BY <3>1
    <3>3. h \in free_lists'[p]
      BY <1>6, <2>2, <3>2
    <3> QED BY <1>12, <3>2, <3>3
  <2> QED BY <2>1, <2>2
<1>15. NoPairs'
  <2> SUFFICES ASSUME NEW p \in Orders, NEW h \in free_lists'[p], Buddy(h, p) \in free_lists'[p]
               PROVE  FALSE
    BY DEF NoPairs, Buddy
  <2>1. CASE p \in order .. (o - 1)
    <3>1. h = Met(f, p) /\ Buddy(h, p) = Met(f, p)
      BY <1>1, <1>6, <2>1
    <3>2. p \in Nat /\ h \in Nat /\ Aligned(h, p) /\ Cell(h, p) \in Nat
      BY <1>1, <1>2, <2>1, <3>1, MetFacts, CellFacts
    <3>3. Cell(Buddy(h, p), p) = Twin(Cell(h, p))
      BY <3>2, BuddyFacts
    <3> QED BY <3>1, <3>2, <3>3, TwinFacts
  <2>2. CASE p \notin order .. (o - 1)
    BY <1>2, <1>6, <2>2 DEF NoPairs
  <2> QED BY <2>1, <2>2
<1>16. Block(f, order) \subseteq FreeFrames
  BY <1>7, FreeFramesAre
<1> QED BY <1>2, <1>3, <1>9, <1>11, <1>13, <1>14, <1>15, <1>16 DEF Lists

\* An aligned block whose frames are all free lies in one block of the lists,
\* or the pair that would make it had not been merged.
LEMMA FreeIsListed ==
  ASSUME Lists, NEW o \in Nat, NEW f \in Nat, Aligned(f, o), Block(f, o) \subseteq FreeFrames
  PROVE  \E p \in Orders : \E h \in free_lists[p] : o <= p /\ Cell(h, p) = Cell(f, p)
<1> DEFINE Found(g, m) == \E p \in Orders : \E h \in free_lists[p] :
                             m <= p /\ Cell(h, p) = Cell(g, p)
           S == {m \in Nat : \A g \in Nat :
                    Aligned(g, m) /\ Block(g, m) \subseteq FreeFrames => Found(g, m)}
<1>1. 0 \in S
  <2> SUFFICES ASSUME NEW g \in Nat, Aligned(g, 0), Block(g, 0) \subseteq FreeFrames
               PROVE  Found(g, 0)
    BY DEF S
  <2>1. g \in FreeFrames
    BY BlockIsCell
  <2>2. PICK p \in Orders : \E h \in free_lists[p] : g \in Block(h, p)
    BY <2>1, FreeFramesAre
  <2>3. PICK h \in free_lists[p] : g \in Block(h, p)
    BY <2>2
  <2>4. p \in Nat /\ Cell(g, p) = Cell(h, p)
    BY <2>3, ListedIsCell DEF Lists
  <2> QED BY <2>4
<1>2. ASSUME NEW m \in S PROVE m + 1 \in S
  <2> SUFFICES ASSUME NEW g \in Nat, Aligned(g, m + 1), Block(g, m + 1) \subseteq FreeFrames
               PROVE  Found(g, m + 1)
    BY DEF S
  <2> DEFINE u == Buddy(g, m)
  <2>1. m \in Nat /\ m + 1 \in Nat /\ m < m + 1 /\ m <= m + 1
    BY DEF S
  <2>2. Aligned(g, m) /\ u \in Nat /\ Aligned(u, m) /\ Cell(u, m) = Twin(Cell(g, m))
    BY <2>1, StartIsLower, BuddyFacts
  <2>3. \A x \in Nat : Cell(x, m) = Cell(g, m) \/ Cell(x, m) = Twin(Cell(g, m)) => x \in Block(g, m + 1)
    <3> SUFFICES ASSUME NEW x \in Nat, Cell(x, m) = Cell(g, m) \/ Cell(x, m) = Twin(Cell(g, m))
                 PROVE  Cell(x, m + 1) = Cell(g, m + 1)
      BY <2>1, BlockIsCell
    <3>1. /\ Cell(x, m) \in Nat /\ Cell(g, m) \in Nat
          /\ Cell(x, m + 1) = Cell(x, m) \div 2 /\ Cell(g, m + 1) = Cell(g, m) \div 2
      BY <2>1, CellFacts
    <3> QED BY <3>1, TwinFacts
  <2> HIDE DEF u
  <2>4. Block(g, m) \subseteq FreeFrames /\ Block(u, m) \subseteq FreeFrames
    BY <2>1, <2>2, <2>3, BlockIsCell
  <2>5. Found(g, m) /\ Found(u, m)
    BY <2>2, <2>4 DEF S
  <2> HIDE DEF S
  <2>6. PICK p \in Orders : \E h \in free_lists[p] : m <= p /\ Cell(h, p) = Cell(g, p)
    BY <2>5
  <2>7. PICK h \in free_lists[p] : m <= p /\ Cell(h, p) = Cell(g, p)
    BY <2>6
  <2>8. PICK q \in Orders : \E i \in free_lists[q] : m <= q /\ Cell(i, q) = Cell(u, q)
    BY <2>5
  <2>9. PICK i \in free_lists[q] : m <= q /\ Cell(i, q) = Cell(u, q)
    BY <2>8
  <2>10. p \in Nat /\ q \in Nat /\ h \in Nat /\ i \in Nat /\ Aligned(h, p) /\ Aligned(i, q)
    BY ListedIsCell DEF Lists
  <2>11. CASE p # m
    <3>1. m + 1 <= p
      BY <2>1, <2>7, <2>10, <2>11
    <3> QED BY <2>7, <3>1
  <2>12. CASE q # m
    <3>1. m + 1 <= q
      BY <2>1, <2>9, <2>10, <2>12
    <3>2. Cell(u, m + 1) = Cell(g, m + 1)
      <4>1. u \in Block(g, m + 1)
        BY <2>2, <2>3
      <4> QED BY <2>1, <4>1, BlockIsCell
    <3>3. Cell(u, q) = Cell(g, q)
      BY <2>1, <2>2, <2>10, <3>1, <3>2, SharedAbove
    <3> QED BY <2>9, <3>1, <3>3
  <2>13. CASE p = m /\ q = m
    <3>1. h = g /\ i = u
      BY <2>1, <2>2, <2>7, <2>9, <2>10, <2>13, AlignedUnique
    <3>2. Buddy(g, m) \notin free_lists[m]
      BY <2>7, <2>13, <3>1 DEF Lists, NoPairs
    <3> QED BY <2>9, <2>13, <3>1, <3>2 DEF u
  <2> QED BY <2>11, <2>12, <2>13
<1>3. S \in SUBSET Nat
  BY DEF S
<1> HIDE DEF S
<1>4. o \in S
  BY <1>1, <1>2, <1>3, Inductively
<1> HIDE DEF Found
<1>5. Found(f, o)
  BY <1>4 DEF S
<1> QED BY <1>5 DEF Found

\* Hence a list that has no block of some order or above leaves no free block.
LEMMA NoneListedNoneFree ==
  ASSUME Lists, NEW o \in Nat, \A k \in o .. (MaxOrder - 1) : free_lists[k] = {},
         NEW f \in Nat, Aligned(f, o)
  PROVE  ~ (Block(f, o) \subseteq FreeFrames)
<1> SUFFICES ASSUME Block(f, o) \subseteq FreeFrames PROVE FALSE
  OBVIOUS
<1>1. PICK p \in Orders : \E h \in free_lists[p] : o <= p
  BY FreeIsListed
<1>2. p \in o .. (MaxOrder - 1)
  BY <1>1, OrderFacts
<1> QED BY <1>1, <1>2
-----------------------------------------------------------------------------
(* Every frame is pending, or in one free block, or in one held block.      *)

HeldBlock(b) == Block(b.frame, OrderOf(b.count))

HeldOK ==
    /\ held \subseteq [frame : Nat, count : Counts]
    /\ \A b \in held : /\ OrderOf(b.count) \in Orders
                       /\ Aligned(b.frame, OrderOf(b.count))
                       /\ HeldBlock(b) \subseteq AllFrames \ FreeFrames
    /\ \A b, c \in held : b # c => HeldBlock(b) \cap HeldBlock(c) = {}

PendingOK ==
    /\ pending \in Seq(Nat)
    /\ \A i, j \in DOMAIN pending : pending[i] = pending[j] => i = j
    /\ PendingFrames \subseteq AllFrames \ FreeFrames
    /\ \A b \in held : HeldBlock(b) \cap PendingFrames = {}

\* The frames the allocator was given so far.
Given == FreeFrames \cup UNION {HeldBlock(b) : b \in held}

WholeIn(S) == \E g \in Nat : Aligned(g, MaxOrder) /\ Block(g, MaxOrder) \subseteq S

\* What is built has no whole block, and is not asked for any while it is built.
PartsOnly == ~WholeIn(Given) /\ (pending # <<>> => held = {})

BuddyInv ==
    /\ Lists /\ panicked \in BOOLEAN
    /\ FreeFrames \subseteq AllFrames /\ HeldOK /\ PendingOK /\ PartsOnly
    /\ panicked => pending # <<>> /\ WholeIn(FreeFrames \cup {Head(pending)})

LEMMA OrderOfFacts ==
  /\ \A count \in Nat : OrderOf(count) \in Nat
  /\ OrderOf(1) = 0
<1>1. ASSUME NEW count \in Nat PROVE OrderOf(count) \in Nat
  <2> DEFINE T == {o \in 0 .. count : Pow2[o] >= count}
  <2>1. Pow2[count] \in Nat /\ count < Pow2[count]
    BY PowerStep
  <2>2. count \in T /\ T \subseteq Nat
    BY <2>1
  <2>3. PICK o \in T : \A p \in T : o <= p
    BY <2>2, LeastElement
  <2>4. \E q \in 0 .. count : Pow2[q] >= count /\ \A p \in 0 .. count : Pow2[p] >= count => q <= p
    BY <2>3
  <2>5. OrderOf(count) \in 0 .. count
    BY <2>4 DEF OrderOf
  <2> QED BY <2>5
<1>2. OrderOf(1) = 0
  <2>1. Pow2[0] >= 1 /\ 0 \in 0 .. 1 /\ \A p \in 0 .. 1 : 0 <= p
    BY PowerStep
  <2>2. \A q \in 0 .. 1 : q <= 0 => q = 0
    OBVIOUS
  <2> QED BY <2>1, <2>2 DEF OrderOf
<1> QED BY <1>1, <1>2

LEMMA MergedOrderFacts ==
  ASSUME NEW f \in Nat, NEW o \in Orders
  PROVE  /\ MergedOrder(f, o) \in o .. MaxOrder
         /\ \/ MergedOrder(f, o) = MaxOrder
            \/ Met(f, MergedOrder(f, o)) \notin free_lists[MergedOrder(f, o)]
         /\ \A k \in o .. (MergedOrder(f, o) - 1) : Met(f, k) \in free_lists[k]
<1> DEFINE Stops(n) == n = MaxOrder \/ Met(f, n) \notin free_lists[n]
           T == {n \in o .. MaxOrder : Stops(n)}
<1>1. o \in Nat /\ MaxOrder \in Nat /\ o < MaxOrder
  BY OrderFacts
<1>2. MaxOrder \in T /\ T \subseteq Nat
  BY <1>1
<1>3. PICK m \in T : \A n \in T : m <= n
  BY <1>2, LeastElement
<1>4. \A k \in o .. (m - 1) : k \in o .. MaxOrder /\ k < m
  BY <1>1, <1>3
<1>5. \A k \in o .. (m - 1) : k \notin T
  BY <1>1, <1>2, <1>3, <1>4
<1>6. \A k \in o .. (m - 1) : Met(f, k) \in free_lists[k]
  BY <1>4, <1>5
<1> DEFINE Is(n) == Stops(n) /\ \A k \in o .. (n - 1) : Met(f, k) \in free_lists[k]
<1>7. m \in o .. MaxOrder /\ Is(m)
  BY <1>3, <1>6
<1>8. MergedOrder(f, o) = CHOOSE n \in o .. MaxOrder : Is(n)
  BY DEF MergedOrder, Met
<1> HIDE DEF Is
<1>9. MergedOrder(f, o) \in o .. MaxOrder /\ Is(MergedOrder(f, o))
  BY <1>7, <1>8
<1> QED BY <1>9 DEF Is

\* A block that overflows completes a block that no list can hold.
LEMMA OverflowIsWhole ==
  ASSUME Lists, NEW f \in Nat, NEW count, OrderOf(count) \in Orders,
         Aligned(f, OrderOf(count)), Overflows(f, count)
  PROVE  WholeIn(FreeFrames \cup Block(f, OrderOf(count)))
<1> DEFINE o == OrderOf(count)
<1>1. /\ o \in Nat /\ MaxOrder \in Nat /\ o <= MaxOrder
      /\ \A k \in o .. (MaxOrder - 1) : Met(f, k) \in free_lists[k]
  BY OrderFacts, MergedOrderFacts DEF Overflows
<1> DEFINE g == BlockAt(f, MaxOrder)
<1>2. g \in Nat /\ Aligned(g, MaxOrder) /\ Cell(g, MaxOrder) = Cell(f, MaxOrder)
  BY <1>1, BlockAtFacts
<1> HIDE DEF g, o
<1>3. ASSUME NEW x \in Block(g, MaxOrder) PROVE x \in FreeFrames \cup Block(f, o)
  <2>1. x \in Nat /\ Cell(x, MaxOrder) = Cell(f, MaxOrder)
    BY <1>1, <1>2, BlockIsCell
  <2>2. \/ Cell(x, o) = Cell(f, o)
        \/ \E k \in o .. (MaxOrder - 1) : Cell(x, k) = Twin(Cell(f, k))
    BY <1>1, <2>1, Merging
  <2>3. ASSUME NEW k \in o .. (MaxOrder - 1), Cell(x, k) = Twin(Cell(f, k)) PROVE x \in FreeFrames
    <3>1. k \in Orders /\ k \in Nat /\ Met(f, k) \in free_lists[k]
      BY <1>1, OrderFacts
    <3>2. x \in Block(Met(f, k), k)
      BY <2>1, <2>3, <3>1, MetFacts
    <3> QED BY <3>1, <3>2, FreeFramesAre
  <2>4. Cell(x, o) = Cell(f, o) => x \in Block(f, o)
    BY <1>1, <2>1, BlockIsCell DEF o
  <2> QED BY <2>2, <2>3, <2>4
<1> QED BY <1>2, <1>3 DEF WholeIn, o

\* free(): the block becomes free.
LEMMA FreeStep ==
  ASSUME Lists, NEW f \in Nat, NEW count, OrderOf(count) \in Orders,
         Aligned(f, OrderOf(count)), Block(f, OrderOf(count)) \cap FreeFrames = {},
         free(f, count)
  PROVE  Lists' /\ FreeFrames' = FreeFrames \cup Block(f, OrderOf(count))
<1> DEFINE o == OrderOf(count)
           n == MergedOrder(f, o)
<1>1. /\ o \in Nat /\ MaxOrder \in Nat /\ n \in o .. MaxOrder /\ o <= n /\ n \in Nat
      /\ n # MaxOrder /\ Met(f, n) \notin free_lists[n]
      /\ \A k \in o .. (n - 1) : Met(f, k) \in free_lists[k]
  BY OrderFacts, MergedOrderFacts DEF free, Overflows
<1>2. n \in Orders
  BY <1>1, OrderFacts
<1>3. free_lists' = [k \in Orders |->
                    IF k \in o .. (n - 1) THEN free_lists[k] \ {Met(f, k)}
                    ELSE IF k = n THEN free_lists[k] \cup {BlockAt(f, n)}
                    ELSE free_lists[k]]
  BY DEF free, Met
<1> HIDE DEF o, n
<1>4. o \in Orders /\ Aligned(f, o) /\ Block(f, o) \cap FreeFrames = {}
  BY DEF o
<1>5. Lists' /\ FreeFrames' = FreeFrames \cup Block(f, o)
  BY <1>1, <1>2, <1>3, <1>4, MergeKeeps
<1> QED BY <1>5 DEF o

\* The lists never hold the parts of a whole block: they would be merged.
LEMMA NoWholeFree == Lists => ~WholeIn(FreeFrames)
<1> SUFFICES ASSUME Lists, NEW g \in Nat, Aligned(g, MaxOrder)
             PROVE  ~ (Block(g, MaxOrder) \subseteq FreeFrames)
  BY DEF WholeIn
<1>1. MaxOrder \in Nat /\ \A k \in MaxOrder .. (MaxOrder - 1) : free_lists[k] = {}
  BY BuddyAssumption
<1> QED BY <1>1, NoneListedNoneFree

LEMMA NoWholeFreeNext == Lists' => ~WholeIn(FreeFrames)'
BY NoWholeFree, PTL

LEMMA AddFrameFacts ==
  ASSUME BuddyInv, AddFrame
  PROVE  LET f == Head(pending) IN
         /\ f \in Nat /\ f \in PendingFrames /\ Aligned(f, 0) /\ Block(f, 0) = {f}
         /\ OrderOf(1) = 0 /\ 0 \in Orders /\ free(f, 1)
         /\ pending' \in Seq(Nat) /\ PendingFrames' = PendingFrames \ {f}
         /\ \A i, j \in DOMAIN pending' : pending'[i] = pending'[j] => i = j
<1> DEFINE f == Head(pending)
<1>1. pending \in Seq(Nat) /\ pending # <<>> /\ pending' = Tail(pending) /\ free(f, 1)
  BY DEF AddFrame, BuddyInv, PendingOK
<1>2. f \in Nat /\ f = pending[1] /\ 1 \in DOMAIN pending /\ Len(pending) \in Nat
      /\ DOMAIN pending = 1 .. Len(pending)
  BY <1>1
<1>3. /\ pending' \in Seq(Nat) /\ DOMAIN pending' = 1 .. (Len(pending) - 1)
      /\ \A i \in DOMAIN pending' : pending'[i] = pending[i + 1] /\ i + 1 \in DOMAIN pending /\ i + 1 # 1
  BY <1>1
<1>4. \A i, j \in DOMAIN pending : pending[i] = pending[j] => i = j
  BY DEF BuddyInv, PendingOK
<1>5. \A i, j \in DOMAIN pending' : pending'[i] = pending'[j] => i = j
  <2> SUFFICES ASSUME NEW i \in DOMAIN pending', NEW j \in DOMAIN pending', pending'[i] = pending'[j]
               PROVE  i = j
    OBVIOUS
  <2>1. i + 1 = j + 1
    BY <1>3, <1>4
  <2>2. i \in Int /\ j \in Int
    BY <1>3
  <2> QED BY <2>1, <2>2
<1>6. PendingFrames' = PendingFrames \ {f}
  <2>1. \A x : x \in PendingFrames <=> \E k \in DOMAIN pending : x = pending[k]
    BY DEF PendingFrames
  <2>2. \A x : x \in PendingFrames' <=> \E k \in DOMAIN pending' : x = pending'[k]
    BY DEF PendingFrames
  <2>3. ASSUME NEW k \in DOMAIN pending, k # 1 PROVE k - 1 \in DOMAIN pending' /\ pending'[k - 1] = pending[k]
    <3>1. k - 1 \in DOMAIN pending' /\ (k - 1) + 1 = k
      BY <1>2, <1>3, <2>3
    <3> QED BY <1>3, <3>1
  <2>4. ASSUME NEW x \in PendingFrames' PROVE x \in PendingFrames \ {f}
    BY <1>2, <1>3, <1>4, <2>1, <2>2
  <2>5. ASSUME NEW x \in PendingFrames \ {f} PROVE x \in PendingFrames'
    BY <1>2, <2>1, <2>2, <2>3
  <2> QED BY <2>4, <2>5
<1>7. f \in PendingFrames
  BY <1>2 DEF PendingFrames
<1>8. 0 \in Orders
  BY OrderFacts, BuddyAssumption
<1> HIDE DEF f
<1>9. Aligned(f, 0) /\ Block(f, 0) = {f}
  <2>1. f % 1 = 0 /\ f .. (f + 1 - 1) = {f}
    BY <1>2
  <2> QED BY <2>1, PowerStep DEF Aligned, Block
<1> QED BY <1>1, <1>2, <1>3, <1>5, <1>6, <1>7, <1>8, <1>9, OrderOfFacts DEF f

LEMMA BuddyInitially == BuddyInit => BuddyInv
<1> SUFFICES ASSUME BuddyInit PROVE BuddyInv
  OBVIOUS
<1>1. /\ pending \in FrameLists /\ free_lists = [o \in Orders |-> {}]
      /\ held = {} /\ panicked = FALSE
  BY DEF BuddyInit
<1>2. Lists
  BY <1>1 DEF Lists, ListsOK, NoPairs, FreeApart
<1>3. FreeFrames = {}
  BY <1>1 DEF FreeFrames
<1>4. PendingFrames \subseteq AllFrames
  BY <1>1 DEF PendingFrames, AllFrames
<1>5. PendingOK /\ HeldOK
  BY <1>1, <1>3, <1>4, BuddyAssumption DEF PendingOK, HeldOK
<1>6. PartsOnly
  BY <1>1, <1>2, NoWholeFree DEF PartsOnly, Given
<1> QED BY <1>1, <1>2, <1>3, <1>5, <1>6 DEF BuddyInv

LEMMA HeldFacts ==
  ASSUME BuddyInv, NEW b \in held
  PROVE  /\ b.frame \in Nat /\ b.count \in Counts /\ b = [frame |-> b.frame, count |-> b.count]
         /\ OrderOf(b.count) \in Orders /\ Aligned(b.frame, OrderOf(b.count))
         /\ HeldBlock(b) \subseteq AllFrames \ FreeFrames
         /\ HeldBlock(b) \cap PendingFrames = {}
         /\ b.frame \in HeldBlock(b)
<1>1. /\ b.frame \in Nat /\ b.count \in Counts /\ b = [frame |-> b.frame, count |-> b.count]
      /\ OrderOf(b.count) \in Orders /\ Aligned(b.frame, OrderOf(b.count))
      /\ HeldBlock(b) \subseteq AllFrames \ FreeFrames
      /\ HeldBlock(b) \cap PendingFrames = {}
  BY DEF BuddyInv, HeldOK, PendingOK
<1> QED BY <1>1, OrderFacts, BlockIsCell DEF HeldBlock

\* What the parts of the invariant do not read may change.
LEMMA SameBuddyParts ==
  ASSUME UNCHANGED <<pending, free_lists, held>>
  PROVE  /\ FreeFrames' = FreeFrames /\ PendingFrames' = PendingFrames
         /\ (Lists' <=> Lists) /\ (HeldOK' <=> HeldOK) /\ (PendingOK' <=> PendingOK)
         /\ (PartsOnly' <=> PartsOnly)
<1>1. FreeFrames' = FreeFrames /\ PendingFrames' = PendingFrames
  BY DEF FreeFrames, PendingFrames, Block
<1>2. Lists' <=> Lists
  BY DEF Lists, ListsOK, NoPairs, FreeApart, Aligned, Block, Buddy
<1>3. \A b : HeldBlock(b)' = HeldBlock(b)
  BY DEF HeldBlock, Block
<1>4. HeldOK' <=> HeldOK
  BY <1>1, <1>3 DEF HeldOK, Aligned, AllFrames
<1>5. PendingOK' <=> PendingOK
  BY <1>1, <1>3 DEF PendingOK, AllFrames
<1>6. Given' = Given
  BY <1>1, <1>3 DEF Given
<1>7. PartsOnly' <=> PartsOnly
  BY <1>6 DEF PartsOnly, WholeIn, Aligned, Block
<1> QED BY <1>1, <1>2, <1>4, <1>5, <1>7

LEMMA NothingKeeps ==
  ASSUME BuddyInv, UNCHANGED <<pending, free_lists, held, panicked>>
  PROVE  BuddyInv' /\ FreeFrames' = FreeFrames /\ PendingFrames' = PendingFrames
<1>1. /\ FreeFrames' = FreeFrames /\ PendingFrames' = PendingFrames
      /\ Lists' /\ HeldOK' /\ PendingOK' /\ PartsOnly'
  BY SameBuddyParts DEF BuddyInv
<1>2. WholeIn(FreeFrames \cup {Head(pending)})' <=> WholeIn(FreeFrames \cup {Head(pending)})
  BY <1>1 DEF WholeIn, Aligned, Block
<1> QED BY <1>1, <1>2 DEF BuddyInv, AllFrames

LEMMA AddFrameKeeps ==
  ASSUME BuddyInv, AddFrame
  PROVE  BuddyInv' /\ FreeFrames' = FreeFrames \cup {Head(pending)}
<1> DEFINE f == Head(pending)
<1>1. /\ f \in Nat /\ f \in PendingFrames /\ Aligned(f, 0) /\ Block(f, 0) = {f}
      /\ OrderOf(1) = 0 /\ 0 \in Orders /\ free(f, 1)
      /\ pending' \in Seq(Nat) /\ PendingFrames' = PendingFrames \ {f}
      /\ \A i, j \in DOMAIN pending' : pending'[i] = pending'[j] => i = j
  BY AddFrameFacts
<1> HIDE DEF f
<1>2. /\ Lists /\ FreeFrames \subseteq AllFrames
      /\ f \in AllFrames /\ f \notin FreeFrames
      /\ PendingFrames \subseteq AllFrames \ FreeFrames
  BY <1>1 DEF BuddyInv, PendingOK
<1>3. Lists' /\ FreeFrames' = FreeFrames \cup {f}
  <2>1. Block(f, OrderOf(1)) = {f} /\ Aligned(f, OrderOf(1)) /\ OrderOf(1) \in Orders
    BY <1>1
  <2>2. Block(f, OrderOf(1)) \cap FreeFrames = {}
    BY <1>2, <2>1
  <2> QED BY <1>1, <1>2, <2>1, <2>2, FreeStep
<1>4. held = {} /\ held' = {} /\ panicked = FALSE /\ panicked' = FALSE
  BY DEF AddFrame, BuddyInv, PartsOnly
<1>5. HeldOK'
  BY <1>4 DEF HeldOK
<1>6. PendingOK'
  BY <1>1, <1>2, <1>3, <1>4 DEF PendingOK, AllFrames
<1>7. PartsOnly'
  <2>1. Given' = FreeFrames'
    BY <1>4 DEF Given
  <2>2. ~WholeIn(FreeFrames)'
    BY <1>3, NoWholeFreeNext
  <2> QED BY <1>4, <2>1, <2>2 DEF PartsOnly, WholeIn, Aligned, Block
<1> QED BY <1>2, <1>3, <1>4, <1>5, <1>6, <1>7 DEF BuddyInv, AllFrames, f

LEMMA FreeKeeps ==
  ASSUME BuddyInv, NEW b \in held, Free(b)
  PROVE  BuddyInv' /\ FreeFrames' = FreeFrames \cup HeldBlock(b)
<1> DEFINE f == b.frame
           o == OrderOf(b.count)
<1>1. /\ free(f, b.count) /\ held' = held \ {b} /\ UNCHANGED pending
      /\ pending = <<>> /\ panicked = FALSE /\ panicked' = FALSE
  BY DEF Free, BuddyInv
<1>2. /\ f \in Nat /\ o \in Orders /\ Aligned(f, o) /\ HeldBlock(b) = Block(f, o)
      /\ HeldBlock(b) \subseteq AllFrames \ FreeFrames /\ HeldBlock(b) \cap PendingFrames = {}
  BY HeldFacts DEF HeldBlock
<1>3. /\ Lists /\ FreeFrames \subseteq AllFrames
  BY DEF BuddyInv
<1>4. Lists' /\ FreeFrames' = FreeFrames \cup HeldBlock(b)
  <2>1. Block(f, o) \cap FreeFrames = {}
    BY <1>2
  <2> QED BY <1>1, <1>2, <1>3, <2>1, FreeStep
<1> HIDE DEF f, o
<1>5. \A c : HeldBlock(c)' = HeldBlock(c)
  BY DEF HeldBlock, Block
<1>6. \A c \in held' : c \in held /\ HeldBlock(c) \cap HeldBlock(b) = {}
  BY <1>1 DEF BuddyInv, HeldOK
<1>7. HeldOK'
  BY <1>1, <1>2, <1>4, <1>5, <1>6 DEF BuddyInv, HeldOK, Aligned, AllFrames, Orders
<1>8. PendingOK'
  <2>1. PendingFrames' = PendingFrames /\ PendingFrames \subseteq AllFrames \ FreeFrames
    BY <1>1 DEF PendingFrames, BuddyInv, PendingOK
  <2>2. PendingFrames' \subseteq AllFrames \ FreeFrames'
    BY <1>2, <1>4, <2>1
  <2>3. \A c \in held' : HeldBlock(c)' \cap PendingFrames' = {}
    BY <1>5, <1>6, <2>1, HeldFacts
  <2> QED BY <1>1, <2>2, <2>3 DEF BuddyInv, PendingOK, AllFrames
<1>9. PartsOnly'
  <2>1. Given' = FreeFrames' \cup UNION {HeldBlock(c) : c \in held'}
    BY <1>5 DEF Given
  <2>2. Given' = Given
    BY <1>1, <1>4, <2>1 DEF Given
  <2> QED BY <1>1, <2>2 DEF BuddyInv, PartsOnly, WholeIn, Aligned, Block
<1> QED BY <1>1, <1>2, <1>3, <1>4, <1>7, <1>8, <1>9 DEF BuddyInv, AllFrames

\* Only while it is built: a block that was given out is no whole one's last part.
LEMMA PanicKeeps ==
  ASSUME BuddyInv, Panic
  PROVE  BuddyInv'
<1>1. UNCHANGED <<pending, free_lists, held>> /\ panicked' = TRUE
  BY DEF Panic
<1>2. Lists /\ PartsOnly /\ 0 \in Orders /\ OrderOf(1) = 0
  BY OrderFacts, OrderOfFacts, BuddyAssumption DEF BuddyInv
<1>3. pending # <<>>
  <2> SUFFICES ASSUME pending = <<>> PROVE FALSE
    OBVIOUS
  <2>1. PICK b \in held : Overflows(b.frame, b.count)
    BY DEF Panic
  <2>2. WholeIn(FreeFrames \cup HeldBlock(b))
    BY <1>2, <2>1, HeldFacts, OverflowIsWhole DEF HeldBlock
  <2>3. FreeFrames \cup HeldBlock(b) \subseteq Given
    BY DEF Given
  <2> QED BY <1>2, <2>2, <2>3 DEF PartsOnly, WholeIn
<1>4. WholeIn(FreeFrames \cup {Head(pending)})
  <2> DEFINE f == Head(pending)
  <2>1. Overflows(f, 1) /\ pending \in Seq(Nat)
    BY <1>3 DEF Panic, BuddyInv, PendingOK
  <2>2. f \in Nat
    BY <1>3, <2>1
  <2> HIDE DEF f
  <2>3. Aligned(f, 0) /\ Block(f, 0) = {f}
    <3>1. f % 1 = 0 /\ f .. (f + 1 - 1) = {f}
      BY <2>2
    <3> QED BY <3>1, PowerStep DEF Aligned, Block
  <2>4. WholeIn(FreeFrames \cup Block(f, OrderOf(1)))
    BY <1>2, <2>1, <2>2, <2>3, OverflowIsWhole
  <2> QED BY <1>2, <2>3, <2>4 DEF f
<1>5. /\ Lists' /\ HeldOK' /\ PendingOK' /\ PartsOnly'
      /\ FreeFrames' = FreeFrames
  BY <1>1, SameBuddyParts DEF BuddyInv
<1>6. WholeIn(FreeFrames \cup {Head(pending)})'
  BY <1>1, <1>4, <1>5 DEF WholeIn, Aligned, Block
<1> QED BY <1>1, <1>3, <1>5, <1>6 DEF BuddyInv, AllFrames

LEMMA AllocateKeeps ==
  ASSUME BuddyInv, NEW count \in Counts, AllocateSome(count)
  PROVE  /\ BuddyInv'
         /\ \E f \in Nat : /\ Aligned(f, OrderOf(count)) /\ f \in AllFrames
                           /\ Block(f, OrderOf(count)) \subseteq FreeFrames
                           /\ FreeFrames' = FreeFrames \ Block(f, OrderOf(count))
                           /\ held' = held \cup {[frame |-> f, count |-> count]}
                           /\ answer' = <<OrderOf(count), f>>
<1> DEFINE order == OrderOf(count)
<1>1. PICK o \in order .. (MaxOrder - 1) :
        /\ \A k \in order .. (o - 1) : free_lists[k] = {}
        /\ \E f \in free_lists[o] :
             /\ Split(f, order, o)
             /\ held' = held \cup {[frame |-> f, count |-> count]}
             /\ answer' = <<order, f>>
  BY DEF AllocateSome
<1>2. PICK f \in free_lists[o] :
             /\ Split(f, order, o)
             /\ held' = held \cup {[frame |-> f, count |-> count]}
             /\ answer' = <<order, f>>
  BY <1>1
<1>3. UNCHANGED <<pending, panicked>>
  BY DEF AllocateSome
<1>4. order \in Nat /\ o \in Nat /\ order \in Orders /\ o \in Orders /\ order <= o
  <2>1. order \in Nat /\ count \in Nat
    BY OrderOfFacts, BuddyAssumption
  <2> QED BY <2>1, OrderFacts
<1> HIDE DEF order
<1>5. Lists /\ FreeFrames \subseteq AllFrames /\ panicked \in BOOLEAN
  BY DEF BuddyInv
<1>6. /\ Lists' /\ FreeFrames' = FreeFrames \ Block(f, order)
      /\ f \in Nat /\ Aligned(f, order) /\ Block(f, order) \subseteq FreeFrames
  BY <1>1, <1>2, <1>4, <1>5, SplitKeeps
<1>7. f \in Block(f, order) /\ f \in AllFrames
  BY <1>4, <1>5, <1>6, BlockIsCell
<1> DEFINE new == [frame |-> f, count |-> count]
<1>8. new \in [frame : Nat, count : Counts] /\ HeldBlock(new) = Block(f, order)
      /\ new.frame = f /\ OrderOf(new.count) = order /\ held' = held \cup {new}
  BY <1>2, <1>6 DEF HeldBlock, order
<1> HIDE DEF new
<1>9. \A b : HeldBlock(b)' = HeldBlock(b)
  BY DEF HeldBlock, Block
<1>10. \A b \in held : HeldBlock(b) \cap FreeFrames = {} /\ HeldBlock(b) \subseteq AllFrames
  BY HeldFacts
<1>11. HeldOK'
  <2>1. held' \subseteq [frame : Nat, count : Counts]
    BY <1>8 DEF BuddyInv, HeldOK
  <2>2. \A b \in held' : /\ OrderOf(b.count) \in Orders /\ Aligned(b.frame, OrderOf(b.count))
                         /\ HeldBlock(b) \subseteq AllFrames \ FreeFrames'
    <3>1. ASSUME NEW b \in held
          PROVE  /\ OrderOf(b.count) \in Orders /\ Aligned(b.frame, OrderOf(b.count))
                 /\ HeldBlock(b) \subseteq AllFrames \ FreeFrames'
      BY <1>6, HeldFacts
    <3>2. /\ OrderOf(new.count) \in Orders /\ Aligned(new.frame, OrderOf(new.count))
          /\ HeldBlock(new) \subseteq AllFrames \ FreeFrames'
      BY <1>4, <1>5, <1>6, <1>8
    <3> QED BY <1>8, <3>1, <3>2
  <2>3. \A b, c \in held' : b # c => HeldBlock(b) \cap HeldBlock(c) = {}
    <3>1. \A b, c \in held : b # c => HeldBlock(b) \cap HeldBlock(c) = {}
      BY DEF BuddyInv, HeldOK
    <3>2. \A b \in held : HeldBlock(b) \cap HeldBlock(new) = {}
      BY <1>6, <1>8, <1>10
    <3> QED BY <1>8, <3>1, <3>2
  <2> QED BY <1>9, <2>1, <2>2, <2>3 DEF HeldOK, Aligned, AllFrames, Orders
<1>12. PendingOK'
  <2>1. PendingFrames' = PendingFrames /\ PendingFrames \cap FreeFrames = {}
    BY <1>3 DEF PendingFrames, BuddyInv, PendingOK
  <2>2. \A b \in held' : HeldBlock(b) \cap PendingFrames = {}
    BY <1>6, <1>8, <2>1, HeldFacts
  <2> QED BY <1>3, <1>6, <1>9, <2>1, <2>2 DEF BuddyInv, PendingOK, AllFrames
<1>14. PartsOnly'
  <2>1. Given' = FreeFrames' \cup UNION {HeldBlock(b) : b \in held'}
    BY <1>9 DEF Given
  <2>2. Given' = Given
    BY <1>6, <1>8, <2>1 DEF Given
  <2>3. pending' = <<>>
    BY <1>3 DEF AllocateSome
  <2> QED BY <2>2, <2>3 DEF BuddyInv, PartsOnly, WholeIn, Aligned, Block
<1>15. panicked' = FALSE
  BY DEF AllocateSome, BuddyInv
<1>13. BuddyInv'
  BY <1>5, <1>6, <1>11, <1>12, <1>14, <1>15 DEF BuddyInv, AllFrames
<1> QED BY <1>2, <1>6, <1>7, <1>13 DEF order

LEMMA BuddyStep == BuddyInv /\ [BuddyNext]_buddyVars => BuddyInv'
<1> SUFFICES ASSUME BuddyInv, [BuddyNext]_buddyVars PROVE BuddyInv'
  OBVIOUS
<1>1. CASE AddFrame \/ Panic
  BY <1>1, AddFrameKeeps, PanicKeeps
<1>2. CASE \E count \in Counts : AllocateSome(count)
  BY <1>2, AllocateKeeps
<1>3. CASE \E count \in Counts : AllocateNone(count)
  BY <1>3, NothingKeeps DEF AllocateNone
<1>4. CASE \E block \in held : Free(block)
  BY <1>4, FreeKeeps
<1>5. CASE UNCHANGED buddyVars
  BY <1>5, NothingKeeps DEF buddyVars
<1> QED BY <1>1, <1>2, <1>3, <1>4, <1>5 DEF BuddyNext

LEMMA BuddyInductive == BuddySpec => []BuddyInv
<1> QED BY BuddyInitially, BuddyStep, PTL DEF BuddySpec

\* For any frames and any requests, every block of the free lists is aligned
\* and no two are buddies: whatever can be merged has been (buddy.rs:46-58).
THEOREM AlwaysMerged == BuddySpec => []FullyMerged
<1>1. BuddyInv => FullyMerged
  BY DEF BuddyInv, Lists, ListsOK, NoPairs, FullyMerged, Aligned
<1> QED BY <1>1, BuddyInductive, PTL

\* Whatever the frames and their order: the allocator panics while it is built
\* at the frame that completes a block of 2^MAX_ORDER, and at no request later
\* (buddy.rs:14-24, 46-59).
THEOREM OnlyWholeBlocksPanic == BuddySpec => []PanicsWhileBuilt
<1>1. BuddyInv => PanicsWhileBuilt
  <2> SUFFICES ASSUME BuddyInv PROVE PanicsWhileBuilt
    OBVIOUS
  <2>1. ASSUME NEW S PROVE Whole(S) => WholeIn(S)
    <3>1. AllFrames \subseteq Nat
      BY BuddyAssumption DEF AllFrames
    <3> QED BY <3>1 DEF Whole, WholeIn, Aligned
  <2>2. ASSUME NEW S, S \subseteq AllFrames, WholeIn(S) PROVE Whole(S)
    <3>1. PICK g \in Nat : Aligned(g, MaxOrder) /\ Block(g, MaxOrder) \subseteq S
      BY <2>2 DEF WholeIn
    <3>2. g \in Block(g, MaxOrder)
      <4>1. MaxOrder \in Nat
        BY BuddyAssumption
      <4>2. Cell(g, MaxOrder) = Cell(g, MaxOrder)
        OBVIOUS
      <4> QED BY <3>1, <4>1, <4>2, BlockIsCell
    <3> QED BY <2>2, <3>1, <3>2 DEF Whole, Aligned
  <2>3. ~Whole(FreeFrames)
    BY <2>1, NoWholeFree DEF BuddyInv
  <2>4. ASSUME panicked PROVE pending # <<>> /\ Whole(FreeFrames \cup {Head(pending)})
    <3>1. pending # <<>> /\ WholeIn(FreeFrames \cup {Head(pending)})
      BY <2>4 DEF BuddyInv
    <3>2. pending \in Seq(Nat) /\ PendingFrames \subseteq AllFrames /\ FreeFrames \subseteq AllFrames
      BY DEF BuddyInv, PendingOK
    <3>3. Head(pending) \in PendingFrames
      <4>1. Head(pending) = pending[1] /\ 1 \in DOMAIN pending
        BY <3>1, <3>2
      <4> QED BY <4>1 DEF PendingFrames
    <3> QED BY <2>2, <3>1, <3>2, <3>3
  <2> QED BY <2>3, <2>4 DEF PanicsWhileBuilt
<1> QED BY <1>1, BuddyInductive, PTL

\* Whatever the frames, the allocator is a pool of aligned blocks: whatever is
\* split and merged no frame is lost or held twice, and a request is refused
\* only when no block of its size is free (buddy.rs:26-60).
THEOREM AllocatorIsPool == BuddySpec => PoolSpec
<1> DEFINE Mapped == {<<h.frame, OrderOf(h.count)>> : h \in held}
<1>1. BuddyInit => Pool!Init
  <2> SUFFICES ASSUME BuddyInit PROVE Pool!Init
    OBVIOUS
  <2>1. PendingFrames \subseteq AllFrames /\ FreeFrames = {} /\ held = {} /\ answer = <<0, None>>
    BY DEF BuddyInit, PendingFrames, AllFrames, FreeFrames
  <2> QED BY <2>1 DEF Pool!Init
<1>2. BuddyInv /\ [BuddyNext]_buddyVars => [Pool!Next]_(Pool!vars)
  <2> SUFFICES ASSUME BuddyInv, [BuddyNext]_buddyVars PROVE [Pool!Next]_(Pool!vars)
    OBVIOUS
  <2>0. \A f, o : Pool!Block(f, o) = Block(f, o)
    BY DEF Pool!Block, Block
  <2>1. CASE AddFrame
    <3> DEFINE f == Head(pending)
    <3>1. /\ f \in PendingFrames /\ PendingFrames' = PendingFrames \ {f}
          /\ FreeFrames' = FreeFrames \cup {f}
      BY <2>1, AddFrameFacts, AddFrameKeeps
    <3>2. Mapped' = Mapped /\ answer' = answer
      BY <2>1 DEF AddFrame, OrderOf
    <3> HIDE DEF f
    <3>3. Pool!Supply(f)
      BY <3>1, <3>2 DEF Pool!Supply
    <3> QED BY <3>1, <3>3 DEF Pool!Next
  <2>2. ASSUME NEW count \in Counts, AllocateSome(count)
        PROVE  Pool!Grant(OrderOf(count))
    <3>1. PICK f \in Nat : /\ Aligned(f, OrderOf(count)) /\ f \in AllFrames
                           /\ Block(f, OrderOf(count)) \subseteq FreeFrames
                           /\ FreeFrames' = FreeFrames \ Block(f, OrderOf(count))
                           /\ held' = held \cup {[frame |-> f, count |-> count]}
                           /\ answer' = <<OrderOf(count), f>>
      BY <2>2, AllocateKeeps
    <3>2. f \in Pool!FreeBlocks(OrderOf(count))
      BY <2>0, <3>1 DEF Pool!FreeBlocks, Aligned
    <3>3. Mapped' = Mapped \cup {<<f, OrderOf(count)>>}
      <4>1. Mapped' = {<<h.frame, OrderOf(h.count)>> : h \in held'}
        BY DEF OrderOf
      <4> DEFINE new == [frame |-> f, count |-> count]
      <4>2. new.frame = f /\ new.count = count
        OBVIOUS
      <4>3. held' = held \cup {new}
        BY <3>1
      <4> HIDE DEF new
      <4> QED BY <4>1, <4>2, <4>3
    <3>4. PendingFrames' = PendingFrames
      BY <2>2 DEF AllocateSome, PendingFrames
    <3> QED BY <2>0, <3>1, <3>2, <3>3, <3>4 DEF Pool!Grant
  <2>3. ASSUME NEW count \in Counts, AllocateNone(count)
        PROVE  Pool!Refuse(OrderOf(count))
    <3>1. OrderOf(count) \in Nat
      BY OrderOfFacts, BuddyAssumption
    <3>2. \A k \in OrderOf(count) .. (MaxOrder - 1) : free_lists[k] = {}
      BY <2>3 DEF AllocateNone
    <3>3. ASSUME NEW f \in Pool!FreeBlocks(OrderOf(count)) PROVE FALSE
      <4>1. f \in AllFrames /\ Aligned(f, OrderOf(count)) /\ Block(f, OrderOf(count)) \subseteq FreeFrames
        BY <2>0, <3>3 DEF Pool!FreeBlocks, Aligned
      <4>2. AllFrames \subseteq Nat
        BY BuddyAssumption DEF AllFrames
      <4> QED BY <3>1, <3>2, <4>1, <4>2, NoneListedNoneFree DEF BuddyInv
    <3>4. /\ FreeFrames' = FreeFrames /\ PendingFrames' = PendingFrames /\ Mapped' = Mapped
          /\ answer' = <<OrderOf(count), None>>
      <4>1. /\ UNCHANGED <<pending, free_lists, held, panicked>>
            /\ answer' = <<OrderOf(count), None>>
        BY <2>3 DEF AllocateNone
      <4> QED BY <4>1, NothingKeeps DEF OrderOf
    <3> QED BY <3>3, <3>4 DEF Pool!Refuse
  <2>4. ASSUME NEW b \in held, Free(b)
        PROVE  <<b.frame, OrderOf(b.count)>> \in Mapped /\ Pool!GiveBack(<<b.frame, OrderOf(b.count)>>)
    <3> DEFINE m == <<b.frame, OrderOf(b.count)>>
    <3>1. FreeFrames' = FreeFrames \cup HeldBlock(b) /\ HeldBlock(b) = Block(m[1], m[2])
      BY <2>4, FreeKeeps DEF HeldBlock
    <3>2. held' = held \ {b} /\ UNCHANGED <<pending, answer>>
      BY <2>4 DEF Free
    <3>3. \A h \in held : <<h.frame, OrderOf(h.count)>> = m => h = b
      <4> SUFFICES ASSUME NEW h \in held, h.frame = b.frame, OrderOf(h.count) = OrderOf(b.count)
                   PROVE  h = b
        OBVIOUS
      <4>1. HeldBlock(h) = HeldBlock(b) /\ b.frame \in HeldBlock(b)
        BY HeldFacts DEF HeldBlock
      <4> QED BY <4>1 DEF BuddyInv, HeldOK
    <3>4. Mapped' = Mapped \ {m}
      <4>1. Mapped' = {<<h.frame, OrderOf(h.count)>> : h \in held'}
        BY DEF OrderOf
      <4> QED BY <3>2, <3>3, <4>1
    <3>5. PendingFrames' = PendingFrames
      BY <3>2 DEF PendingFrames
    <3>6. m \in Mapped
      OBVIOUS
    <3> QED BY <2>0, <3>1, <3>2, <3>4, <3>5, <3>6 DEF Pool!GiveBack
  <2>5. CASE UNCHANGED buddyVars
    <3>1. FreeFrames' = FreeFrames /\ PendingFrames' = PendingFrames /\ Mapped' = Mapped
          /\ answer' = answer
      BY <2>5, NothingKeeps DEF buddyVars, OrderOf
    <3> QED BY <3>1 DEF Pool!vars
  <2>9. CASE Panic
    <3>1. UNCHANGED <<pending, free_lists, held, answer>>
      BY <2>9 DEF Panic
    <3>2. FreeFrames' = FreeFrames /\ PendingFrames' = PendingFrames /\ Mapped' = Mapped
      BY <3>1, SameBuddyParts DEF OrderOf
    <3> QED BY <3>1, <3>2 DEF Pool!vars
  <2>6. \A count \in Counts : OrderOf(count) \in {OrderOf(c) : c \in Counts}
    OBVIOUS
  <2>7. CASE \E count \in Counts : AllocateSome(count) \/ AllocateNone(count)
    BY <2>2, <2>3, <2>6, <2>7 DEF Pool!Next
  <2>8. CASE \E b \in held : Free(b)
    BY <2>4, <2>8 DEF Pool!Next
  <2> QED BY <2>1, <2>5, <2>7, <2>8, <2>9 DEF BuddyNext
<1> QED BY <1>1, <1>2, BuddyInductive, PTL DEF BuddySpec, PoolSpec, Pool!Spec
=============================================================================
