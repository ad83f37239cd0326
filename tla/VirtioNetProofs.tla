--------------------------- MODULE VirtioNetProofs ---------------------------
(***************************************************************************)
(* For every queue size and every number of times it fits into the indices:*)
(* a receive buffer has one owner, and the receive ring is a bounded queue *)
(* of frames.  The argument counts with natural numbers that never wrap,   *)
(* of which the indices are the remainders.                                *)
(***************************************************************************)
EXTENDS VirtioNet, FiniteSetTheorems, SequenceTheorems, TLAPS

-----------------------------------------------------------------------------
(* Remainders.                                                              *)

\* A number is a multiple of m and its remainder.
LEMMA ModIs ==
  ASSUME NEW x \in Int, NEW m \in Nat \ {0}
  PROVE  /\ x % m \in 0 .. m - 1
         /\ \E q \in Int : x = q * m + (x % m)
<1>1. x % m \in 0 .. m - 1
  OBVIOUS
<1>2. x = (x \div m) * m + (x % m)
  OBVIOUS
<1>3. x \div m \in Int
  OBVIOUS
<1> QED BY <1>1, <1>2, <1>3

\* A multiple of m smaller than m is zero.
LEMMA SmallMultiple ==
  ASSUME NEW k \in Int, NEW m \in Nat \ {0}, -m < k * m, k * m < m
  PROVE  k = 0
<1>1. CASE k >= 1
  <2>1. k * m >= m
    BY <1>1
  <2> QED BY <2>1
<1>2. CASE k <= -1
  <2>1. k * m <= - m
    BY <1>2
  <2> QED BY <2>1
<1> QED BY <1>1, <1>2

\* Numbers that differ by a multiple of m have one remainder.
Shifted(x, y, k, m) == x = y + k * m

LEMMA SameMod ==
  ASSUME NEW x \in Int, NEW y \in Int, NEW k \in Int, NEW m \in Nat \ {0},
         Shifted(x, y, k, m)
  PROVE  x % m = y % m
<1> USE DEF Shifted
<1>1. PICK p \in Int : x = p * m + (x % m)
  BY ModIs
<1>2. PICK q \in Int : y = q * m + (y % m)
  BY ModIs
<1>3. x % m \in 0 .. m - 1 /\ y % m \in 0 .. m - 1
  BY ModIs
<1> DEFINE d == p - q - k
           r == x % m
           s == y % m
<1>4. d * m = p * m - q * m - k * m
  OBVIOUS
<1> HIDE DEF d
<1>5. d \in Int
  BY DEF d
<1>6. d * m = s - r
  <2> HIDE DEF r, s
  <2>1. x = p * m + r /\ y = q * m + s /\ r \in Int /\ s \in Int
    BY <1>1, <1>2, <1>3 DEF r, s
  <2>2. p * m \in Int /\ q * m \in Int /\ k * m \in Int
    OBVIOUS
  <2> QED BY <1>4, <2>1, <2>2
<1>7. d = 0
  BY <1>3, <1>5, <1>6, SmallMultiple
<1> QED BY <1>3, <1>6, <1>7

\* A number below m is its own remainder.
LEMMA SmallMod ==
  ASSUME NEW m \in Nat \ {0}, NEW x \in 0 .. m - 1
  PROVE  x % m = x
<1>0. x \in Int
  OBVIOUS
<1>1. PICK q \in Int : x = q * m + (x % m)
  BY <1>0, ModIs
<1>2. x % m \in 0 .. m - 1
  BY <1>0, ModIs
<1>3. q = 0
  BY <1>1, <1>2, SmallMultiple
<1> QED BY <1>1, <1>2, <1>3

\* Numbers with one remainder that are less than m apart are equal.
LEMMA NearMod ==
  ASSUME NEW m \in Nat \ {0}, NEW x \in Int, NEW y \in Int, x % m = y % m,
         -m < x - y, x - y < m
  PROVE  x = y
<1>1. PICK p \in Int : x = p * m + (x % m)
  BY ModIs
<1>2. PICK q \in Int : y = q * m + (y % m)
  BY ModIs
<1> DEFINE d == p - q
<1>3. d * m = p * m - q * m /\ d \in Int
  OBVIOUS
<1>4. p * m \in Int /\ q * m \in Int /\ x % m \in Int
  BY ModIs
<1> HIDE DEF d
<1>5. d * m = x - y
  BY <1>1, <1>2, <1>3, <1>4
<1>6. d = 0
  BY <1>3, <1>5, SmallMultiple
<1> QED BY <1>5, <1>6, <1>3

-----------------------------------------------------------------------------
(* The ring indices are the remainders of numbers that only grow.           *)

IndexOf(n) == n % IndexMod
SlotOf(n) == n % QueueSize

\* The indices run over at least two rounds of the ring.
LEMMA Moduli ==
  /\ QueueSize \in Nat \ {0} /\ Rounds \in Nat \ {0, 1}
  /\ IndexMod \in Nat \ {0} /\ 2 * QueueSize <= IndexMod
<1>1. QueueSize \in Nat \ {0} /\ Rounds \in Nat \ {0, 1}
  BY VirtioAssumption
<1>2. Rounds * QueueSize = 2 * QueueSize + (Rounds - 2) * QueueSize
  BY <1>1
<1>3. Rounds - 2 \in Nat
  BY <1>1
<1>4. (Rounds - 2) * QueueSize \in Nat
  BY <1>1, <1>3
<1> QED BY <1>1, <1>2, <1>4 DEF IndexMod

LEMMA QueueSizeIs == QueueSize \in Nat \ {0}
BY Moduli

LEMMA IndexModIs == IndexMod \in Nat \ {0}
BY Moduli

\* The slot of an index is the slot of the number it is a remainder of.
LEMMA SlotOfIndex ==
  ASSUME NEW x \in Int
  PROVE  IndexOf(x) % QueueSize = SlotOf(x)
<1> USE DEF IndexOf, SlotOf
<1>1. PICK q \in Int : x = q * IndexMod + (x % IndexMod)
  BY Moduli, ModIs
<1> DEFINE r == x % IndexMod
           k == q * Rounds
<1>2. r \in Int
  BY Moduli, ModIs
<1>3. q * IndexMod = k * QueueSize /\ k \in Int
  BY Moduli DEF IndexMod
<1> HIDE DEF k, r
<1>4. Shifted(x, r, k, QueueSize)
  BY <1>1, <1>2, <1>3, Moduli DEF r, Shifted
<1>5. k \in Int
  BY <1>3
<1>6. x % QueueSize = r % QueueSize
  BY <1>2, <1>4, <1>5, QueueSizeIs, SameMod
<1> QED BY <1>6 DEF r

\* The next index is the remainder of the next number.
LEMMA SuccOfIndex ==
  ASSUME NEW x \in Int
  PROVE  Succ(IndexOf(x)) = IndexOf(x + 1)
<1> USE DEF IndexOf
<1>1. PICK q \in Int : x = q * IndexMod + (x % IndexMod)
  BY Moduli, ModIs
<1> DEFINE r == x % IndexMod
<1>2. r \in Int
  BY Moduli, ModIs
<1> HIDE DEF r
<1>3. Shifted(x + 1, r + 1, q, IndexMod)
  BY <1>1, <1>2, Moduli DEF r, Shifted
<1>4. x + 1 \in Int /\ r + 1 \in Int
  BY <1>2
<1>5. (x + 1) % IndexMod = (r + 1) % IndexMod
  BY <1>3, <1>4, IndexModIs, SameMod
<1> QED BY <1>5 DEF r, Succ

\* The entries between two indices are those between the two numbers.
LEMMA AheadOfIndex ==
  ASSUME NEW u \in Int, NEW a \in Int, u <= a, a <= u + QueueSize
  PROVE  Ahead(IndexOf(u), IndexOf(a)) = a - u
<1> USE DEF IndexOf
<1>1. PICK p \in Int : u = p * IndexMod + (u % IndexMod)
  BY Moduli, ModIs
<1>2. PICK q \in Int : a = q * IndexMod + (a % IndexMod)
  BY Moduli, ModIs
<1> DEFINE r == u % IndexMod
           s == a % IndexMod
           k == p - q
<1>3. r \in Int /\ s \in Int
  BY Moduli, ModIs
<1>4. k * IndexMod = p * IndexMod - q * IndexMod /\ k \in Int
  BY Moduli
<1>5. p * IndexMod \in Int /\ q * IndexMod \in Int
  BY Moduli
<1> HIDE DEF r, s, k
<1>6. Shifted(s - r, a - u, k, IndexMod)
  BY <1>1, <1>2, <1>3, <1>4, <1>5 DEF r, s, Shifted
<1>7. s - r \in Int /\ a - u \in Int
  BY <1>3
<1>8. (s - r) % IndexMod = (a - u) % IndexMod
  BY <1>4, <1>6, <1>7, IndexModIs, SameMod
<1>9. (a - u) \in 0 .. IndexMod - 1
  BY Moduli
<1>10. (a - u) % IndexMod = a - u
  BY <1>9, Moduli, SmallMod
<1> QED BY <1>8, <1>10 DEF r, s, Ahead

\* The slot of the k-th entry after an index.
LEMMA SlotAfterIndex ==
  ASSUME NEW u \in Int, NEW k \in Int
  PROVE  Slot(IndexOf(u), k) = SlotOf(u + k)
<1> USE DEF IndexOf, SlotOf
<1>1. PICK p \in Int : u = p * IndexMod + (u % IndexMod)
  BY Moduli, ModIs
<1> DEFINE r == u % IndexMod
<1>2. r \in Int
  BY Moduli, ModIs
<1> HIDE DEF r
<1>3. p * IndexMod \in Int
  BY Moduli
<1>4. Shifted(u + k, r + k, p, IndexMod)
  <2> DEFINE t == p * IndexMod
  <2>1. u = t + r /\ t \in Int
    BY <1>1, <1>3 DEF r
  <2> HIDE DEF t
  <2>2. u + k = (r + k) + t
    BY <1>2, <2>1
  <2> QED BY <2>2 DEF t, Shifted
<1>5. u + k \in Int /\ r + k \in Int
  BY <1>2
<1>6. (u + k) % IndexMod = (r + k) % IndexMod
  BY <1>4, <1>5, IndexModIs, SameMod
<1>7. ((r + k) % IndexMod) % QueueSize = (u + k) % QueueSize
  BY <1>5, <1>6, SlotOfIndex
<1> QED BY <1>7 DEF r, Slot

\* Each number has a slot, and numbers less than a round apart have their own.
LEMMA OwnSlot ==
  ASSUME NEW x \in Int, NEW y \in Int, x # y, -QueueSize < x - y, x - y < QueueSize
  PROVE  SlotOf(x) # SlotOf(y)
BY Moduli, NearMod DEF SlotOf

LEMMA HasSlot ==
  ASSUME NEW x \in Int
  PROVE  SlotOf(x) \in Slots
BY Moduli, ModIs DEF Slots, SlotOf

-----------------------------------------------------------------------------
(* The receive ring: entries l .. u-1 are returned, u .. a-1 are offered.   *)

RxTypes ==
    /\ avail_ring \in [Slots -> Slots] /\ used_ring \in [Slots -> 0 .. QueueSize]
    /\ rx_bufs \in [Slots -> Frames \cup {0}] /\ packet \in Frames \cup {0}

\* The descriptor in the n-th entry since the start.
Entry(u, n) == IF n < u THEN used_ring[SlotOf(n)] ELSE avail_ring[SlotOf(n)]

RingAt(l, u, a) ==
    /\ l <= u /\ u <= a /\ a <= l + QueueSize
    /\ rx_last_used = IndexOf(l) /\ used_idx = IndexOf(u)
    /\ dev_avail = IndexOf(u) /\ avail_idx = IndexOf(a)
    /\ \A m, n \in l .. a - 1 : Entry(u, m) = Entry(u, n) /\ Entry(u, m) \in Slots => m = n

RingInv == RxTypes /\ \E l, u, a \in Nat : RingAt(l, u, a)

LEMMA RingInit == Init => RingInv
<1> SUFFICES ASSUME Init PROVE RingInv
  OBVIOUS
<1> USE QueueSizeIs, IndexModIs
<1>1. RxTypes
  BY DEF Init, RxTypes, Slots
<1>2. IndexOf(0) = 0
  BY DEF IndexOf
<1>9. IndexOf(QueueSize) = QueueSize % IndexMod
  BY DEF IndexOf
<1>3. \A n \in 0 .. QueueSize - 1 : Entry(0, n) = n
  <2> SUFFICES ASSUME NEW n \in 0 .. QueueSize - 1 PROVE Entry(0, n) = n
    OBVIOUS
  <2>1. SlotOf(n) = n
    BY SmallMod DEF SlotOf
  <2> QED BY <2>1 DEF Entry, Init, Slots
<1>4. RingAt(0, 0, QueueSize)
  BY <1>2, <1>3, <1>9 DEF RingAt, Init
<1> QED BY <1>1, <1>4 DEF RingInv

\* What the device does to the entries: the oldest offered one, holding its
\* own descriptor or none, becomes the youngest returned one.
LEMMA DeviceReturns ==
  ASSUME NEW l \in Nat, NEW u \in Nat, NEW a \in Nat, RxTypes, RingAt(l, u, a),
         dev_avail # avail_idx,
         NEW d \in {avail_ring[dev_avail % QueueSize], QueueSize},
         used_ring' = [used_ring EXCEPT ![used_idx % QueueSize] = d],
         used_idx' = Succ(used_idx), dev_avail' = Succ(dev_avail),
         UNCHANGED <<avail_idx, avail_ring, rx_last_used>>
  PROVE  /\ RingAt(l, u + 1, a)' /\ used_ring' \in [Slots -> 0 .. QueueSize]
         /\ u < a /\ d \in {Entry(u, u), QueueSize}
         /\ Entry(u, u) \in Slots
         /\ \A n \in l .. a - 1 : Entry(u + 1, n)' = IF n = u THEN d ELSE Entry(u, n)
<1> USE QueueSizeIs, IndexModIs
<1>1. u < a /\ l <= u /\ a <= l + QueueSize
  BY DEF RingAt
<1>10. used_idx = IndexOf(u) /\ dev_avail = IndexOf(u)
  BY DEF RingAt
<1>2. used_idx % QueueSize = SlotOf(u) /\ dev_avail % QueueSize = SlotOf(u)
  BY <1>10, SlotOfIndex
<1>3. SlotOf(u) \in Slots
  BY HasSlot
<1>4. d \in {Entry(u, u), QueueSize} /\ Entry(u, u) \in Slots
  BY <1>2, <1>3 DEF Entry, RxTypes
<1>5. used_ring' \in [Slots -> 0 .. QueueSize]
  <2>1. d \in 0 .. QueueSize
    BY <1>4 DEF Slots
  <2> QED BY <2>1 DEF RxTypes
<1>6. ASSUME NEW n \in l .. a - 1
      PROVE  Entry(u + 1, n)' = IF n = u THEN d ELSE Entry(u, n)
  <2>1. n # u => SlotOf(n) # SlotOf(u)
    <3>1. n \in Int /\ -QueueSize < n - u /\ n - u < QueueSize
      BY <1>1
    <3> QED BY <3>1, OwnSlot
  <2>2. SlotOf(n) \in Slots
    BY HasSlot
  <2>3. n \in Int /\ (n < u + 1 <=> n < u \/ n = u)
    OBVIOUS
  <2>4. used_ring'[SlotOf(n)] = IF n = u THEN d ELSE used_ring[SlotOf(n)]
    BY <1>2, <2>1, <2>2 DEF RxTypes
  <2> QED BY <2>3, <2>4 DEF Entry
<1>7. used_idx' = IndexOf(u + 1) /\ dev_avail' = IndexOf(u + 1)
  BY <1>10, SuccOfIndex
<1>8. ASSUME NEW m \in l .. a - 1, NEW n \in l .. a - 1,
             Entry(u + 1, m)' = Entry(u + 1, n)', Entry(u + 1, m)' \in Slots
      PROVE  m = n
  <2>1. u \in l .. a - 1 /\ QueueSize \notin Slots
    BY <1>1 DEF RingAt, Slots
  <2> QED BY <1>4, <1>6, <1>8, <2>1 DEF RingAt
<1>9. RingAt(l, u + 1, a)'
  BY <1>1, <1>7, <1>8 DEF RingAt
<1> QED BY <1>1, <1>4, <1>5, <1>6, <1>9

\* What the driver takes is the oldest returned entry.
LEMMA DriverTakes ==
  ASSUME NEW l \in Nat, NEW u \in Nat, NEW a \in Nat, RxTypes, RingAt(l, u, a), HasUsed
  PROVE  l < u /\ UsedElem = Entry(u, l) /\ UsedElem \in 0 .. QueueSize
<1>1. rx_last_used = IndexOf(l) /\ used_idx = IndexOf(u) /\ l <= u
  BY DEF RingAt
<1>2. l < u
  BY <1>1 DEF HasUsed
<1>3. rx_last_used % QueueSize = SlotOf(l) /\ SlotOf(l) \in Slots
  BY <1>1, SlotOfIndex, HasSlot
<1> QED BY <1>2, <1>3 DEF UsedElem, Entry, RxTypes

\* Receiving makes the descriptor the youngest offered one.
LEMMA ReceiveRecycles ==
  ASSUME NEW l \in Nat, NEW u \in Nat, NEW a \in Nat, RxTypes, RingAt(l, u, a), Receive
  PROVE  /\ RingAt(l + 1, u, a + 1)' /\ avail_ring' \in [Slots -> Slots]
         /\ \A n \in l + 1 .. a : Entry(u, n)' = IF n = a THEN UsedElem ELSE Entry(u, n)
<1> USE QueueSizeIs, IndexModIs
<1>1. l < u /\ UsedElem = Entry(u, l) /\ UsedElem \in Slots
  BY DriverTakes DEF Receive, Slots
<1>2. l <= u /\ u <= a /\ a <= l + QueueSize
  BY DEF RingAt
<1>3. rx_last_used = IndexOf(l) /\ used_idx = IndexOf(u) /\ dev_avail = IndexOf(u)
      /\ avail_idx = IndexOf(a)
  BY DEF RingAt
<1>4. avail_idx % QueueSize = SlotOf(a) /\ SlotOf(a) \in Slots
  BY <1>3, SlotOfIndex, HasSlot
<1>5. avail_ring' = [avail_ring EXCEPT ![SlotOf(a)] = UsedElem] /\ used_ring' = used_ring
  BY <1>4 DEF Receive, Recycle
<1>6. avail_ring' \in [Slots -> Slots]
  BY <1>1, <1>5 DEF RxTypes
<1>7. ASSUME NEW n \in l + 1 .. a
      PROVE  Entry(u, n)' = IF n = a THEN UsedElem ELSE Entry(u, n)
  <2>1. n # a => SlotOf(n) # SlotOf(a)
    <3>1. n \in Int /\ -QueueSize < n - a /\ n - a < QueueSize
      BY <1>2
    <3> QED BY <3>1, OwnSlot
  <2>2. SlotOf(n) \in Slots /\ n \in Int
    BY HasSlot
  <2>3. avail_ring'[SlotOf(n)] = IF n = a THEN UsedElem ELSE avail_ring[SlotOf(n)]
    BY <1>4, <1>5, <2>1, <2>2 DEF RxTypes
  <2>4. n = a => ~ (n < u)
    BY <1>2
  <2> QED BY <1>5, <2>3, <2>4 DEF Entry
<1>8. rx_last_used' = IndexOf(l + 1) /\ avail_idx' = IndexOf(a + 1)
      /\ used_idx' = IndexOf(u) /\ dev_avail' = IndexOf(u)
  BY <1>3, SuccOfIndex DEF Receive, Recycle
<1>9. ASSUME NEW m \in l + 1 .. a, NEW n \in l + 1 .. a,
             Entry(u, m)' = Entry(u, n)', Entry(u, m)' \in Slots
      PROVE  m = n
  <2>1. l \in l .. a - 1 /\ \A k \in l + 1 .. a : k # a => k \in l .. a - 1 /\ k # l
    BY <1>1, <1>2
  <2> QED BY <1>1, <1>7, <1>9, <2>1 DEF RingAt
<1>10. RingAt(l + 1, u, a + 1)'
  <2>1. l + 1 <= u /\ u <= a + 1 /\ a + 1 <= (l + 1) + QueueSize /\ (a + 1) - 1 = a
    BY <1>1, <1>2
  <2> QED BY <1>8, <1>9, <2>1 DEF RingAt
<1> QED BY <1>6, <1>7, <1>10

\* Skipping an id outside the ring only forgets the entry.
LEMMA BogusIsSkipped ==
  ASSUME NEW l \in Nat, NEW u \in Nat, NEW a \in Nat, RxTypes, RingAt(l, u, a), ReceiveBogus
  PROVE  RingAt(l + 1, u, a)' /\ l < u /\ UsedElem = Entry(u, l) /\ UsedElem \notin Slots
<1> USE QueueSizeIs, IndexModIs
<1>1. l < u /\ UsedElem = Entry(u, l) /\ UsedElem \notin Slots
  BY DriverTakes DEF ReceiveBogus, Slots
<1>2. rx_last_used' = IndexOf(l + 1)
  BY SuccOfIndex DEF ReceiveBogus, RingAt
<1>3. \A n \in l + 1 .. a - 1 : Entry(u, n)' = Entry(u, n) /\ n \in l .. a - 1
  BY DEF ReceiveBogus, Entry
<1>4. RingAt(l + 1, u, a)'
  BY <1>1, <1>2, <1>3 DEF RingAt, ReceiveBogus
<1> QED BY <1>1, <1>4

-----------------------------------------------------------------------------
(* The two sequences of descriptors, in terms of the entries.               *)

LEMMA RingSequences ==
  ASSUME NEW l \in Nat, NEW u \in Nat, NEW a \in Nat, RingAt(l, u, a)
  PROVE  /\ Returned = [k \in 1 .. u - l |-> Entry(u, (l + k) - 1)]
         /\ Offered = [k \in 1 .. a - u |-> Entry(u, (u + k) - 1)]
<1> USE QueueSizeIs
<1>1. l <= u /\ u <= a /\ a <= l + QueueSize
  BY DEF RingAt
<1>2. rx_last_used = IndexOf(l) /\ used_idx = IndexOf(u) /\ dev_avail = IndexOf(u)
      /\ avail_idx = IndexOf(a)
  BY DEF RingAt
<1>3. Ahead(IndexOf(l), IndexOf(u)) = u - l /\ Ahead(IndexOf(u), IndexOf(a)) = a - u
  BY <1>1, AheadOfIndex
<1>4. \A k \in 1 .. u - l : used_ring[Slot(IndexOf(l), k - 1)] = Entry(u, (l + k) - 1)
  <2> SUFFICES ASSUME NEW k \in 1 .. u - l
               PROVE  used_ring[Slot(IndexOf(l), k - 1)] = Entry(u, (l + k) - 1)
    OBVIOUS
  <2>1. Slot(IndexOf(l), k - 1) = SlotOf(l + (k - 1))
    BY SlotAfterIndex
  <2>2. l + (k - 1) = (l + k) - 1 /\ (l + k) - 1 < u
    OBVIOUS
  <2> QED BY <2>1, <2>2 DEF Entry
<1>5. \A k \in 1 .. a - u : avail_ring[Slot(IndexOf(u), k - 1)] = Entry(u, (u + k) - 1)
  <2> SUFFICES ASSUME NEW k \in 1 .. a - u
               PROVE  avail_ring[Slot(IndexOf(u), k - 1)] = Entry(u, (u + k) - 1)
    OBVIOUS
  <2>1. Slot(IndexOf(u), k - 1) = SlotOf(u + (k - 1))
    BY SlotAfterIndex
  <2>2. u + (k - 1) = (u + k) - 1 /\ ~ ((u + k) - 1 < u)
    OBVIOUS
  <2> QED BY <2>1, <2>2 DEF Entry
<1>6. Returned = [k \in 1 .. u - l |-> Entry(u, (l + k) - 1)]
  BY <1>2, <1>3, <1>4 DEF Returned
<1>7. Offered = [k \in 1 .. a - u |-> Entry(u, (u + k) - 1)]
  BY <1>2, <1>3, <1>5 DEF Offered
<1> QED BY <1>6, <1>7

LEMMA EntriesOwnedOnce == RingInv => BufferOwnedOnce
<1> SUFFICES ASSUME RingInv PROVE BufferOwnedOnce
  OBVIOUS
<1> USE QueueSizeIs
<1>1. PICK l \in Nat, u \in Nat, a \in Nat : RingAt(l, u, a)
  BY DEF RingInv
<1>2. l <= u /\ u <= a /\ a <= l + QueueSize
  BY <1>1 DEF RingAt
<1> DEFINE R == [k \in 1 .. u - l |-> Entry(u, (l + k) - 1)]
           O == [k \in 1 .. a - u |-> Entry(u, (u + k) - 1)]
           at(k) == IF k <= a - u THEN (u + k) - 1 ELSE (l + (k - (a - u))) - 1
<1>3. Returned = R /\ Offered = O
  BY <1>1, RingSequences
<1>4. Len(R) = u - l /\ Len(O) = a - u
  BY <1>2
<1> DEFINE Es == {Entry(u, n) : n \in Nat}
<1>5. R \in Seq(Es) /\ O \in Seq(Es)
  <2>1. u - l \in Nat /\ a - u \in Nat
    BY <1>2
  <2>2. \A k \in 1 .. u - l : (l + k) - 1 \in Nat
    OBVIOUS
  <2>3. \A k \in 1 .. a - u : (u + k) - 1 \in Nat
    OBVIOUS
  <2>4. R \in [1 .. u - l -> Es] /\ O \in [1 .. a - u -> Es]
    BY <2>2, <2>3
  <2> HIDE DEF R, O, Es
  <2> QED BY <2>1, <2>4, SeqDef
<1>6. Len(O \o R) = a - l /\ \A k \in 1 .. a - l :
         (O \o R)[k] = IF k <= a - u THEN O[k] ELSE R[k - (a - u)]
  <2> HIDE DEF O, R, Es
  <2>1. Len(O) + Len(R) = a - l
    BY <1>2, <1>4
  <2> QED BY <2>1, <1>4, <1>5, ConcatProperties
<1>7. \A k \in 1 .. a - l : (O \o R)[k] = Entry(u, at(k)) /\ at(k) \in l .. a - 1
  <2> SUFFICES ASSUME NEW k \in 1 .. a - l
               PROVE  (O \o R)[k] = Entry(u, at(k)) /\ at(k) \in l .. a - 1
    OBVIOUS
  <2>1. (O \o R)[k] = IF k <= a - u THEN O[k] ELSE R[k - (a - u)]
    BY <1>6
  <2>2. CASE k <= a - u
    <3>1. O[k] = Entry(u, (u + k) - 1) /\ at(k) = (u + k) - 1
      BY <2>2
    <3> QED BY <1>2, <2>1, <2>2, <3>1
  <2>3. CASE ~ (k <= a - u)
    <3>1. k - (a - u) \in 1 .. u - l
      BY <1>2, <2>3
    <3>2. R[k - (a - u)] = Entry(u, at(k)) /\ at(k) \in l .. a - 1
      BY <1>2, <2>3, <3>1
    <3> QED BY <2>1, <2>3, <3>2
  <2> QED BY <2>2, <2>3
<1>8. \A j, k \in 1 .. a - l : at(j) = at(k) => j = k
  BY <1>2
<1>9. DOMAIN (O \o R) = 1 .. a - l
  <2> HIDE DEF O, R, Es
  <2> QED BY <1>5, <1>6, LenProperties, ConcatProperties
<1> HIDE DEF O, R, Es, at
<1>10. ASSUME NEW j \in 1 .. a - l, NEW k \in 1 .. a - l,
              (O \o R)[j] \in Slots, (O \o R)[j] = (O \o R)[k]
       PROVE  j = k
  <2>1. Entry(u, at(j)) = Entry(u, at(k)) /\ Entry(u, at(j)) \in Slots
        /\ at(j) \in l .. a - 1 /\ at(k) \in l .. a - 1
    BY <1>7, <1>10
  <2>2. at(j) = at(k)
    BY <1>1, <2>1 DEF RingAt
  <2> QED BY <1>8, <2>2
<1> QED BY <1>2, <1>3, <1>6, <1>9, <1>10 DEF BufferOwnedOnce

\* Every step of the device and of the driver keeps the ring.
LEMMA RingStep == RingInv /\ [Next]_vars => RingInv'
<1> SUFFICES ASSUME RingInv, [Next]_vars PROVE RingInv'
  OBVIOUS
<1>1. PICK l \in Nat, u \in Nat, a \in Nat : RingAt(l, u, a)
  BY DEF RingInv
<1>2. RxTypes
  BY DEF RingInv
<1>3. l + 1 \in Nat /\ u + 1 \in Nat /\ a + 1 \in Nat
  OBVIOUS
<1>4. CASE \E f \in Frames : DeviceReceive(f)
  <2>1. PICK f \in Frames : DeviceReceive(f)
    BY <1>4
  <2> DEFINE d == avail_ring[dev_avail % QueueSize]
  <2>2. used_ring' = [used_ring EXCEPT ![used_idx % QueueSize] = d]
        /\ dev_avail # avail_idx /\ used_idx' = Succ(used_idx) /\ dev_avail' = Succ(dev_avail)
        /\ UNCHANGED <<avail_idx, avail_ring, rx_last_used, packet>>
        /\ rx_bufs' = [rx_bufs EXCEPT ![d] = f]
    BY <2>1 DEF DeviceReceive
  <2>3. RingAt(l, u + 1, a)' /\ used_ring' \in [Slots -> 0 .. QueueSize]
    BY <1>1, <1>2, <2>2, DeviceReturns
  <2>4. RxTypes'
    BY <1>2, <2>2, <2>3 DEF RxTypes
  <2> QED BY <1>3, <2>3, <2>4 DEF RingInv
<1>5. CASE DeviceBogus
  <2>1. used_ring' = [used_ring EXCEPT ![used_idx % QueueSize] = QueueSize]
        /\ dev_avail # avail_idx /\ used_idx' = Succ(used_idx) /\ dev_avail' = Succ(dev_avail)
        /\ UNCHANGED <<avail_idx, avail_ring, rx_last_used, packet, rx_bufs>>
    BY <1>5 DEF DeviceBogus
  <2>2. RingAt(l, u + 1, a)' /\ used_ring' \in [Slots -> 0 .. QueueSize]
    BY <1>1, <1>2, <2>1, DeviceReturns
  <2>3. RxTypes'
    BY <1>2, <2>1, <2>2 DEF RxTypes
  <2> QED BY <1>3, <2>2, <2>3 DEF RingInv
<1>6. CASE Receive
  <2>1. RingAt(l + 1, u, a + 1)' /\ avail_ring' \in [Slots -> Slots]
    BY <1>1, <1>2, <1>6, ReceiveRecycles
  <2>2. UsedElem \in Slots
    BY <1>1, <1>2, <1>6, DriverTakes, QueueSizeIs DEF Receive, Slots
  <2>3. RxTypes'
    BY <1>2, <1>6, <2>1, <2>2 DEF RxTypes, Receive
  <2> QED BY <1>3, <2>1, <2>3 DEF RingInv
<1>7. CASE ReceiveBogus
  <2>1. RingAt(l + 1, u, a)'
    BY <1>1, <1>2, <1>7, BogusIsSkipped
  <2>2. RxTypes'
    BY <1>2, <1>7 DEF RxTypes, ReceiveBogus
  <2> QED BY <1>3, <2>1, <2>2 DEF RingInv
<1>8. CASE UNCHANGED rxVars
  <2>1. RingAt(l, u, a)' /\ RxTypes'
    BY <1>1, <1>2, <1>8 DEF RingAt, RxTypes, rxVars, Entry
  <2> QED BY <2>1 DEF RingInv
<1> QED BY <1>4, <1>5, <1>6, <1>7, <1>8 DEF Next, vars, WriteFrame, Describe, Publish, DeviceTransmit

\* For every queue size, with indices that wrap at any multiple of it, no
\* buffer is ever with the device and the driver at once (virtio_net.rs:346-370).
THEOREM OneOwner == Spec => []BufferOwnedOnce
<1>1. Init => RingInv
  BY RingInit
<1>2. RingInv /\ [Next]_vars => RingInv'
  BY RingStep
<1>3. RingInv => BufferOwnedOnce
  BY EntriesOwnedOnce
<1> QED BY <1>1, <1>2, <1>3, PTL DEF Spec

-----------------------------------------------------------------------------
(* Induction without an operator as parameter: over a set of numbers.       *)

\* A set of natural numbers that is not empty has a least element.
LEMMA LeastElement ==
  ASSUME NEW T \in SUBSET Nat, T # {}
  PROVE  \E k \in T : \A j \in T : k <= j
<1> DEFINE R == OpToRel(<, Nat)
<1>1. IsWellFoundedOn(R, Nat)
  BY NatLessThanWellFounded
<1>2. \A i, j \in Nat : i < j => <<i, j>> \in R
  BY Zenon DEF OpToRel
<1> HIDE DEF R
<1>3. PICK k \in T : \A j \in T : <<j, k>> \notin R
  BY <1>1, WFMin
<1> SUFFICES ASSUME NEW j \in T PROVE k <= j
  OBVIOUS
<1>4. j \in Nat /\ k \in Nat /\ ~ (j < k)
  BY <1>2, <1>3
<1> QED BY <1>4

\* A set of natural numbers with 0 and each successor is all of Nat.
LEMMA Inductively ==
  ASSUME NEW S \in SUBSET Nat, 0 \in S, \A n \in S : n + 1 \in S
  PROVE  S = Nat
<1> SUFFICES ASSUME Nat \ S # {} PROVE FALSE
  OBVIOUS
<1>1. PICK k \in Nat \ S : \A j \in Nat \ S : k <= j
  BY LeastElement
<1>2. k # 0 /\ k - 1 \in Nat /\ k - 1 \notin Nat \ S
  BY <1>1
<1> QED BY <1>2

-----------------------------------------------------------------------------
(* The frames in returned descriptors: the recursion of FramesIn.           *)

IsFrames(f, ids, bufs) == f = [k \in 0 .. Len(ids) |-> FrameStep(ids, bufs, f, k)]

LEMMA FramesExist ==
  ASSUME NEW ids, Len(ids) \in Nat, NEW bufs
  PROVE  \E f : IsFrames(f, ids, bufs) /\ FramesIn(ids, bufs) = f[Len(ids)]
<1> DEFINE N == Len(ids)
           Step(f, k) == FrameStep(ids, bufs, f, k)
           S == {m \in Nat : m <= N => \E f : f = [k \in 0 .. m |-> Step(f, k)]}
<1>1. 0 \in S
  <2> DEFINE f == [k \in 0 .. 0 |-> <<>>]
  <2>1. \A k \in 0 .. 0 : Step(f, k) = <<>>
    BY DEF FrameStep
  <2>2. f = [k \in 0 .. 0 |-> Step(f, k)]
    BY <2>1
  <2> QED BY <2>2
<1>2. ASSUME NEW m \in S PROVE m + 1 \in S
  <2> SUFFICES ASSUME m + 1 <= N PROVE \E f : f = [k \in 0 .. m + 1 |-> Step(f, k)]
    OBVIOUS
  <2>1. PICK g : g = [k \in 0 .. m |-> Step(g, k)]
    OBVIOUS
  <2> DEFINE h == [k \in 0 .. m + 1 |-> IF k = m + 1 THEN Step(g, k) ELSE g[k]]
  <2>2. \A k \in 0 .. m : h[k] = g[k]
    OBVIOUS
  <2>3. \A k \in 0 .. m + 1 : Step(h, k) = Step(g, k)
    BY <2>2 DEF FrameStep
  <2> HIDE DEF Step
  <2>4. \A k \in 0 .. m : g[k] = Step(g, k)
    BY <2>1
  <2>5. \A k \in 0 .. m + 1 : h[k] = Step(h, k)
    BY <2>3, <2>4
  <2>6. h = [k \in 0 .. m + 1 |-> Step(h, k)]
    BY <2>5
  <2> QED BY <2>6
<1>3. N \in S
  <2>1. S \in SUBSET Nat
    OBVIOUS
  <2> HIDE DEF S
  <2> QED BY <1>1, <1>2, <2>1, Inductively
<1>4. \E f : IsFrames(f, ids, bufs)
  BY <1>3 DEF IsFrames
<1> DEFINE F == CHOOSE f : IsFrames(f, ids, bufs)
<1>5. FramesIn(ids, bufs) = F[Len(ids)]
  BY DEF FramesIn, IsFrames, FrameStep
<1> QED BY <1>4, <1>5

\* What the recursion gives for each number of descriptors.
LEMMA FramesAre ==
  ASSUME NEW ids, Len(ids) \in Nat, NEW bufs, NEW f, IsFrames(f, ids, bufs)
  PROVE  /\ f[0] = <<>>
         /\ \A k \in 1 .. Len(ids) :
              f[k] = IF ids[k] \in Slots THEN Append(f[k - 1], bufs[ids[k]]) ELSE f[k - 1]
<1>1. f[0] = <<>>
  BY DEF IsFrames, FrameStep
<1>2. \A k \in 1 .. Len(ids) : f[k] = FrameStep(ids, bufs, f, k) /\ k # 0
  BY DEF IsFrames
<1> QED BY <1>1, <1>2 DEF FrameStep

\* They are sequences of frames no longer than that number.
LEMMA FramesTyped ==
  ASSUME NEW ids, Len(ids) \in Nat, NEW bufs, NEW f, IsFrames(f, ids, bufs),
         NEW V, \A i \in Slots : bufs[i] \in V
  PROVE  \A k \in 0 .. Len(ids) : f[k] \in Seq(V) /\ Len(f[k]) <= k
<1>1. f[0] = <<>>
  BY FramesAre
<1>2. \A k \in 1 .. Len(ids) :
        f[k] = IF ids[k] \in Slots THEN Append(f[k - 1], bufs[ids[k]]) ELSE f[k - 1]
  BY FramesAre
<1> DEFINE S == {k \in Nat : k <= Len(ids) => f[k] \in Seq(V) /\ Len(f[k]) <= k}
<1>3. 0 \in S
  <2>1. f[0] \in Seq(V) /\ Len(f[0]) = 0
    BY <1>1, EmptySeq
  <2> QED BY <2>1
<1>4. ASSUME NEW k \in S PROVE k + 1 \in S
  <2> SUFFICES ASSUME k + 1 <= Len(ids)
               PROVE  f[k + 1] \in Seq(V) /\ Len(f[k + 1]) <= k + 1
    OBVIOUS
  <2>1. f[k + 1] = IF ids[k + 1] \in Slots THEN Append(f[k], bufs[ids[k + 1]]) ELSE f[k]
    BY <1>2
  <2>2. f[k] \in Seq(V) /\ Len(f[k]) <= k /\ k \in Nat
    OBVIOUS
  <2> HIDE DEF S
  <2>3. CASE ids[k + 1] \in Slots
    <3>1. Append(f[k], bufs[ids[k + 1]]) \in Seq(V)
          /\ Len(Append(f[k], bufs[ids[k + 1]])) = Len(f[k]) + 1
      BY <2>2, <2>3, AppendProperties
    <3> QED BY <2>1, <2>2, <2>3, <3>1, LenProperties
  <2>4. CASE ids[k + 1] \notin Slots
    BY <2>1, <2>2, <2>4, LenProperties
  <2> QED BY <2>3, <2>4
<1>5. S = Nat
  <2>1. S \in SUBSET Nat
    OBVIOUS
  <2> HIDE DEF S
  <2> QED BY <1>3, <1>4, <2>1, Inductively
<1> QED BY <1>5

\* Descriptors and buffers that agree hold the same frames.
LEMMA FramesAgree ==
  ASSUME NEW ids, Len(ids) \in Nat, NEW bufs, NEW f, IsFrames(f, ids, bufs),
         NEW ids2, Len(ids2) \in Nat, NEW bufs2, NEW g, IsFrames(g, ids2, bufs2),
         NEW n \in Nat, n <= Len(ids), n <= Len(ids2),
         \A k \in 1 .. n : ids2[k] = ids[k]
                           /\ (ids[k] \in Slots => bufs2[ids[k]] = bufs[ids[k]])
  PROVE  g[n] = f[n]
<1>1. /\ f[0] = <<>> /\ g[0] = <<>>
      /\ \A k \in 1 .. n :
           f[k] = IF ids[k] \in Slots THEN Append(f[k - 1], bufs[ids[k]]) ELSE f[k - 1]
      /\ \A k \in 1 .. n :
           g[k] = IF ids[k] \in Slots THEN Append(g[k - 1], bufs[ids[k]]) ELSE g[k - 1]
  <2>1. /\ f[0] = <<>>
        /\ \A k \in 1 .. Len(ids) :
             f[k] = IF ids[k] \in Slots THEN Append(f[k - 1], bufs[ids[k]]) ELSE f[k - 1]
    BY FramesAre
  <2>2. /\ g[0] = <<>>
        /\ \A k \in 1 .. Len(ids2) :
             g[k] = IF ids2[k] \in Slots THEN Append(g[k - 1], bufs2[ids2[k]]) ELSE g[k - 1]
    BY FramesAre
  <2> QED BY <2>1, <2>2
<1> DEFINE S == {k \in Nat : k <= n => g[k] = f[k]}
<1>2. 0 \in S
  BY <1>1
<1>3. ASSUME NEW k \in S PROVE k + 1 \in S
  BY <1>1
<1>4. S = Nat
  <2>1. S \in SUBSET Nat
    OBVIOUS
  <2> HIDE DEF S
  <2> QED BY <1>2, <1>3, <2>1, Inductively
<1> QED BY <1>4

\* One more descriptor adds its frame, if it names a buffer.
LEMMA FramesAppend ==
  ASSUME NEW ids, Len(ids) \in Nat, NEW bufs, NEW ids2, Len(ids2) = Len(ids) + 1, NEW bufs2,
         \A k \in 1 .. Len(ids) : ids2[k] = ids[k]
                           /\ (ids[k] \in Slots => bufs2[ids[k]] = bufs[ids[k]])
  PROVE  FramesIn(ids2, bufs2) =
           IF ids2[Len(ids) + 1] \in Slots
           THEN Append(FramesIn(ids, bufs), bufs2[ids2[Len(ids) + 1]])
           ELSE FramesIn(ids, bufs)
<1>1. PICK f : IsFrames(f, ids, bufs) /\ FramesIn(ids, bufs) = f[Len(ids)]
  BY FramesExist
<1>2. PICK g : IsFrames(g, ids2, bufs2) /\ FramesIn(ids2, bufs2) = g[Len(ids2)]
  BY FramesExist
<1>3. g[Len(ids)] = f[Len(ids)]
  BY <1>1, <1>2, FramesAgree
<1>4. Len(ids) + 1 \in 1 .. Len(ids2)
  OBVIOUS
<1>5. g[Len(ids) + 1] = IF ids2[Len(ids) + 1] \in Slots
                        THEN Append(g[Len(ids)], bufs2[ids2[Len(ids) + 1]]) ELSE g[Len(ids)]
  BY <1>2, <1>4, FramesAre
<1> QED BY <1>1, <1>2, <1>3, <1>5

\* Without the first descriptor, its frame is missing at the head.
LEMMA FramesTail ==
  ASSUME NEW ids, Len(ids) \in Nat \ {0}, NEW bufs, NEW ids2, Len(ids2) = Len(ids) - 1,
         NEW V, \A i \in Slots : bufs[i] \in V,
         \A k \in 1 .. Len(ids2) : ids2[k] = ids[k + 1]
  PROVE  IF ids[1] \in Slots
         THEN /\ FramesIn(ids, bufs) # <<>>
              /\ Head(FramesIn(ids, bufs)) = bufs[ids[1]]
              /\ Tail(FramesIn(ids, bufs)) = FramesIn(ids2, bufs)
         ELSE FramesIn(ids2, bufs) = FramesIn(ids, bufs)
<1>1. PICK f : IsFrames(f, ids, bufs) /\ FramesIn(ids, bufs) = f[Len(ids)]
  BY FramesExist
<1>2. PICK g : IsFrames(g, ids2, bufs) /\ FramesIn(ids2, bufs) = g[Len(ids2)]
  BY FramesExist
<1> DEFINE n == Len(ids2)
<1>3. n \in Nat /\ Len(ids) = n + 1
  OBVIOUS
<1>4. /\ f[0] = <<>>
      /\ \A k \in 1 .. Len(ids) :
           f[k] = IF ids[k] \in Slots THEN Append(f[k - 1], bufs[ids[k]]) ELSE f[k - 1]
  BY <1>1, FramesAre
<1>5. /\ g[0] = <<>>
      /\ \A k \in 1 .. n :
           g[k] = IF ids2[k] \in Slots THEN Append(g[k - 1], bufs[ids2[k]]) ELSE g[k - 1]
  BY <1>2, FramesAre
<1> HIDE DEF n
<1>6. \A k \in 1 .. n :
        /\ f[k + 1] = IF ids[k + 1] \in Slots THEN Append(f[k], bufs[ids[k + 1]]) ELSE f[k]
        /\ g[k] = IF ids[k + 1] \in Slots THEN Append(g[k - 1], bufs[ids[k + 1]]) ELSE g[k - 1]
  <2> SUFFICES ASSUME NEW k \in 1 .. n
      PROVE
        /\ f[k + 1] = IF ids[k + 1] \in Slots THEN Append(f[k], bufs[ids[k + 1]]) ELSE f[k]
        /\ g[k] = IF ids[k + 1] \in Slots THEN Append(g[k - 1], bufs[ids[k + 1]]) ELSE g[k - 1]
    OBVIOUS
  <2>1. k + 1 \in 1 .. Len(ids) /\ (k + 1) - 1 = k /\ ids2[k] = ids[k + 1]
    BY <1>3 DEF n
  <2> QED BY <1>4, <1>5, <2>1
<1>7. f[1] = IF ids[1] \in Slots THEN Append(<<>>, bufs[ids[1]]) ELSE <<>>
  <2>1. 1 \in 1 .. Len(ids) /\ 1 - 1 = 0
    BY <1>3
  <2> QED BY Zenon, <1>4, <2>1
<1>8. \A k \in 0 .. n : f[k + 1] \in Seq(V)
  <2>1. \A k \in 0 .. Len(ids) : f[k] \in Seq(V)
    BY <1>1, FramesTyped
  <2> QED BY <1>3, <2>1
<1>9. CASE ids[1] \in Slots
  <2> DEFINE S == {k \in Nat : k <= n => /\ f[k + 1] # <<>> /\ Head(f[k + 1]) = bufs[ids[1]]
                                        /\ Tail(f[k + 1]) = g[k]}
  <2>1. 0 \in S
    <3>1. <<>> \in Seq(V) /\ bufs[ids[1]] \in V
      BY <1>9, EmptySeq
    <3>2. Append(<<>>, bufs[ids[1]]) # <<>>
          /\ Head(Append(<<>>, bufs[ids[1]])) = bufs[ids[1]]
          /\ Tail(Append(<<>>, bufs[ids[1]])) = <<>>
      BY <3>1, HeadTailAppend, AppendProperties
    <3>3. f[0 + 1] # <<>> /\ Head(f[0 + 1]) = bufs[ids[1]] /\ Tail(f[0 + 1]) = g[0]
      <4>1. 0 + 1 = 1
        OBVIOUS
      <4> QED BY Zenon, <1>5, <1>7, <1>9, <3>2, <4>1
    <3> QED BY <3>3
  <2>2. ASSUME NEW k \in S PROVE k + 1 \in S
    <3> SUFFICES ASSUME k + 1 <= n
                 PROVE  /\ f[k + 2] # <<>> /\ Head(f[k + 2]) = bufs[ids[1]]
                        /\ Tail(f[k + 2]) = g[k + 1]
      OBVIOUS
    <3>1. /\ f[k + 2] = IF ids[k + 2] \in Slots THEN Append(f[k + 1], bufs[ids[k + 2]])
                        ELSE f[k + 1]
          /\ g[k + 1] = IF ids[k + 2] \in Slots THEN Append(g[k], bufs[ids[k + 2]]) ELSE g[k]
      <4>1. k + 1 \in 1 .. n /\ (k + 1) + 1 = k + 2 /\ (k + 1) - 1 = k
        BY <1>3
      <4> QED BY <1>6, <4>1
    <3>2. /\ f[k + 1] # <<>> /\ Head(f[k + 1]) = bufs[ids[1]] /\ Tail(f[k + 1]) = g[k]
          /\ f[k + 1] \in Seq(V)
      BY <1>3, <1>8
    <3>3. CASE ids[k + 2] \in Slots
      <4>1. bufs[ids[k + 2]] \in V
        BY <3>3
      <4> HIDE DEF S
      <4>2. /\ Append(f[k + 1], bufs[ids[k + 2]]) # <<>>
            /\ Head(Append(f[k + 1], bufs[ids[k + 2]])) = Head(f[k + 1])
            /\ Tail(Append(f[k + 1], bufs[ids[k + 2]])) = Append(Tail(f[k + 1]), bufs[ids[k + 2]])
        BY <3>2, <4>1, HeadTailAppend, AppendProperties
      <4> QED BY <3>1, <3>2, <3>3, <4>2
    <3>4. CASE ids[k + 2] \notin Slots
      BY <3>1, <3>2, <3>4
    <3> QED BY <3>3, <3>4
  <2>3. n \in S
    <3>1. S \in SUBSET Nat
      OBVIOUS
    <3> HIDE DEF S
    <3> QED BY <1>3, <2>1, <2>2, <3>1, Inductively
  <2> QED BY <1>1, <1>2, <1>3, <1>9, <2>3 DEF n
<1>10. CASE ids[1] \notin Slots
  <2> DEFINE S == {k \in Nat : k <= n => f[k + 1] = g[k]}
  <2>1. 0 \in S
    BY <1>5, <1>7, <1>10
  <2>2. ASSUME NEW k \in S PROVE k + 1 \in S
    <3> SUFFICES ASSUME k + 1 <= n PROVE f[k + 2] = g[k + 1]
      OBVIOUS
    <3>1. k + 1 \in 1 .. n /\ (k + 1) + 1 = k + 2 /\ (k + 1) - 1 = k /\ f[k + 1] = g[k]
      BY <1>3
    <3> QED BY <1>6, <3>1
  <2>3. n \in S
    <3>1. S \in SUBSET Nat
      OBVIOUS
    <3> HIDE DEF S
    <3> QED BY <1>3, <2>1, <2>2, <3>1, Inductively
  <2> QED BY <1>1, <1>2, <1>3, <1>10, <2>3 DEF n
<1> QED BY <1>9, <1>10

-----------------------------------------------------------------------------
(* The receive ring implements the bounded queue of frames.                 *)

RxQueue == FramesIn(Returned, rx_bufs)

ReturnedReads ==
    \A l, u, a \in Nat :
        RingAt(l, u, a) =>
            /\ Len(Returned) = u - l /\ u - l \in Nat
            /\ \A k \in 1 .. u - l : Returned[k] = Entry(u, (l + k) - 1)

LEMMA ReturnedAt == ReturnedReads
<1> SUFFICES ASSUME NEW l \in Nat, NEW u \in Nat, NEW a \in Nat, RingAt(l, u, a)
    PROVE  /\ Len(Returned) = u - l /\ u - l \in Nat
           /\ \A k \in 1 .. u - l : Returned[k] = Entry(u, (l + k) - 1)
  BY DEF ReturnedReads
<1>1. Returned = [k \in 1 .. u - l |-> Entry(u, (l + k) - 1)]
  BY RingSequences
<1>2. u - l \in Nat
  BY DEF RingAt
<1> QED BY <1>1, <1>2

LEMMA ReturnedAtNext == ReturnedReads'
BY ReturnedAt, PTL

\* The queue holds no more than the entries returned.
LEMMA QueueFits ==
  ASSUME RxTypes, Len(Returned) \in Nat
  PROVE  RxQueue \in Seq(Frames \cup {0}) /\ Len(RxQueue) <= Len(Returned)
<1>1. PICK f : IsFrames(f, Returned, rx_bufs) /\ RxQueue = f[Len(Returned)]
  BY FramesExist DEF RxQueue
<1>2. \A i \in Slots : rx_bufs[i] \in Frames \cup {0}
  BY DEF RxTypes
<1>3. \A k \in 0 .. Len(Returned) : f[k] \in Seq(Frames \cup {0}) /\ Len(f[k]) <= k
  BY <1>1, <1>2, FramesTyped
<1> QED BY <1>1, <1>3

\* The frame the device puts into a buffer joins the queue.
LEMMA DeviceReceivePuts ==
  ASSUME NEW f \in Frames, RingInv, DeviceReceive(f)
  PROVE  RxQueue' = Append(RxQueue, f) /\ Len(RxQueue) < QueueSize
<1>1. PICK l \in Nat, u \in Nat, a \in Nat : RingAt(l, u, a)
  BY DEF RingInv
<1>2. RxTypes
  BY DEF RingInv
<1> DEFINE d == avail_ring[dev_avail % QueueSize]
<1>3. used_ring' = [used_ring EXCEPT ![used_idx % QueueSize] = d]
      /\ dev_avail # avail_idx /\ used_idx' = Succ(used_idx) /\ dev_avail' = Succ(dev_avail)
      /\ UNCHANGED <<avail_idx, avail_ring, rx_last_used>>
      /\ rx_bufs' = [rx_bufs EXCEPT ![d] = f]
  BY DEF DeviceReceive
<1>4. /\ RingAt(l, u + 1, a)' /\ u < a /\ d \in {Entry(u, u), QueueSize} /\ Entry(u, u) \in Slots
      /\ \A n \in l .. a - 1 : Entry(u + 1, n)' = IF n = u THEN d ELSE Entry(u, n)
  BY <1>1, <1>2, <1>3, DeviceReturns
<1>5. /\ RingAt(l, u + 1, a)' /\ u < a /\ d = Entry(u, u) /\ d \in Slots
      /\ \A n \in l .. a - 1 : Entry(u + 1, n)' = IF n = u THEN d ELSE Entry(u, n)
  <2>1. d = Entry(u, u)
    BY <1>1, <1>3, SlotOfIndex DEF RingAt, Entry
  <2> QED BY <1>4, <2>1
<1> HIDE DEF d
<1>6. l <= u /\ a <= l + QueueSize
  BY <1>1 DEF RingAt
<1>7. Len(Returned) = u - l /\ u - l \in Nat
      /\ \A k \in 1 .. u - l : Returned[k] = Entry(u, (l + k) - 1)
  BY <1>1, ReturnedAt DEF ReturnedReads
<1>8. u + 1 \in Nat
  OBVIOUS
<1>9. Len(Returned') = (u + 1) - l
      /\ \A k \in 1 .. (u + 1) - l : Returned'[k] = Entry(u + 1, (l + k) - 1)'
  BY <1>5, <1>8, ReturnedAtNext DEF ReturnedReads
<1>10. \A k \in 1 .. u - l : Returned'[k] = Returned[k] /\ Returned[k] # d
  <2> SUFFICES ASSUME NEW k \in 1 .. u - l
               PROVE  Returned'[k] = Returned[k] /\ Returned[k] # d
    OBVIOUS
  <2> DEFINE n == (l + k) - 1
  <2>1. n \in l .. a - 1 /\ n # u /\ u \in l .. a - 1 /\ k \in 1 .. (u + 1) - l
    BY <1>5, <1>6
  <2>2. Returned[k] = Entry(u, n) /\ Returned'[k] = Entry(u + 1, n)'
    BY <1>7, <1>9, <2>1
  <2> HIDE DEF n
  <2>3. Entry(u + 1, n)' = Entry(u, n)
    BY <1>5, <2>1
  <2>4. Entry(u, n) # Entry(u, u)
    BY <1>1, <1>5, <2>1 DEF RingAt
  <2> QED BY <1>5, <2>2, <2>3, <2>4
<1>11. Returned'[(u - l) + 1] = d
  <2>1. (u - l) + 1 \in 1 .. (u + 1) - l /\ (l + ((u - l) + 1)) - 1 = u /\ u \in l .. a - 1
    BY <1>5, <1>6
  <2> QED BY <1>5, <1>9, <2>1
<1>12. \A i \in Slots : i # d => rx_bufs'[i] = rx_bufs[i]
  BY <1>2, <1>3 DEF RxTypes
<1>13. rx_bufs'[d] = f
  BY <1>2, <1>3, <1>5 DEF RxTypes
<1>14. Len(Returned') = Len(Returned) + 1
  BY <1>6, <1>7, <1>9
<1>15. FramesIn(Returned', rx_bufs') =
         IF Returned'[Len(Returned) + 1] \in Slots
         THEN Append(FramesIn(Returned, rx_bufs), rx_bufs'[Returned'[Len(Returned) + 1]])
         ELSE FramesIn(Returned, rx_bufs)
  <2>1. \A k \in 1 .. Len(Returned) : Returned'[k] = Returned[k]
           /\ (Returned[k] \in Slots => rx_bufs'[Returned[k]] = rx_bufs[Returned[k]])
    BY <1>7, <1>10, <1>12
  <2>2. Len(Returned) \in Nat
    BY <1>7
  <2> QED BY <1>14, <2>1, <2>2, FramesAppend, SMTT(60)
<1>16. RxQueue' = Append(RxQueue, f)
  BY <1>5, <1>7, <1>11, <1>13, <1>15 DEF RxQueue
<1>17. Len(RxQueue) < QueueSize
  <2>1. Len(RxQueue) <= u - l
    BY <1>2, <1>7, QueueFits
  <2>2. RxQueue \in Seq(Frames \cup {0})
    BY <1>2, <1>7, QueueFits
  <2> QED BY <1>5, <1>6, <2>1, <2>2, LenProperties, QueueSizeIs
<1> QED BY <1>16, <1>17

\* An id outside the ring holds no frame.
LEMMA DeviceBogusStutters ==
  ASSUME RingInv, DeviceBogus
  PROVE  RxQueue' = RxQueue
<1>1. PICK l \in Nat, u \in Nat, a \in Nat : RingAt(l, u, a)
  BY DEF RingInv
<1>2. RxTypes
  BY DEF RingInv
<1>3. used_ring' = [used_ring EXCEPT ![used_idx % QueueSize] = QueueSize]
      /\ dev_avail # avail_idx /\ used_idx' = Succ(used_idx) /\ dev_avail' = Succ(dev_avail)
      /\ UNCHANGED <<avail_idx, avail_ring, rx_last_used, rx_bufs>>
  BY DEF DeviceBogus
<1>4. /\ RingAt(l, u + 1, a)' /\ u < a
      /\ \A n \in l .. a - 1 : Entry(u + 1, n)' = IF n = u THEN QueueSize ELSE Entry(u, n)
  BY <1>1, <1>2, <1>3, DeviceReturns
<1>5. l <= u /\ a <= l + QueueSize /\ u + 1 \in Nat /\ QueueSize \notin Slots
  BY <1>1, QueueSizeIs DEF RingAt, Slots
<1>6. Len(Returned) = u - l /\ u - l \in Nat
      /\ \A k \in 1 .. u - l : Returned[k] = Entry(u, (l + k) - 1)
  BY <1>1, ReturnedAt DEF ReturnedReads
<1>7. Len(Returned') = (u + 1) - l
      /\ \A k \in 1 .. (u + 1) - l : Returned'[k] = Entry(u + 1, (l + k) - 1)'
  BY <1>4, <1>5, ReturnedAtNext DEF ReturnedReads
<1>8. \A k \in 1 .. u - l : Returned'[k] = Returned[k]
  <2> SUFFICES ASSUME NEW k \in 1 .. u - l PROVE Returned'[k] = Returned[k]
    OBVIOUS
  <2>1. (l + k) - 1 \in l .. a - 1 /\ (l + k) - 1 # u /\ k \in 1 .. (u + 1) - l
    BY <1>4, <1>5
  <2> QED BY <1>4, <1>6, <1>7, <2>1
<1>9. Returned'[(u - l) + 1] = QueueSize
  <2>1. (u - l) + 1 \in 1 .. (u + 1) - l /\ (l + ((u - l) + 1)) - 1 = u /\ u \in l .. a - 1
    BY <1>4, <1>5
  <2> QED BY <1>4, <1>7, <2>1
<1>10. Len(Returned') = Len(Returned) + 1
  BY <1>5, <1>6, <1>7
<1>11. FramesIn(Returned', rx_bufs') =
         IF Returned'[Len(Returned) + 1] \in Slots
         THEN Append(FramesIn(Returned, rx_bufs), rx_bufs'[Returned'[Len(Returned) + 1]])
         ELSE FramesIn(Returned, rx_bufs)
  <2>1. rx_bufs' = rx_bufs
    BY <1>3
  <2>2. \A k \in 1 .. Len(Returned) : Returned'[k] = Returned[k]
           /\ (Returned[k] \in Slots => rx_bufs'[Returned[k]] = rx_bufs[Returned[k]])
    BY <1>6, <1>8, <2>1
  <2>3. Len(Returned) \in Nat
    BY <1>6
  <2> QED BY <1>10, <2>2, <2>3, FramesAppend, SMTT(60)
<1>12. Returned'[Len(Returned) + 1] \notin Slots
  <2>1. Returned'[Len(Returned) + 1] = QueueSize
    BY <1>6, <1>9
  <2> QED BY <1>5, <2>1
<1>13. FramesIn(Returned', rx_bufs') = FramesIn(Returned, rx_bufs)
  BY <1>11, <1>12
<1> QED BY <1>13 DEF RxQueue

\* The driver takes the oldest frame.
LEMMA ReceiveGets ==
  ASSUME RingInv, Receive
  PROVE  RxQueue # <<>> /\ packet' = Head(RxQueue) /\ RxQueue' = Tail(RxQueue)
<1>1. PICK l \in Nat, u \in Nat, a \in Nat : RingAt(l, u, a)
  BY DEF RingInv
<1>2. RxTypes
  BY DEF RingInv
<1>3. l < u /\ UsedElem = Entry(u, l) /\ UsedElem \in Slots
  BY <1>1, <1>2, DriverTakes, QueueSizeIs DEF Receive, Slots
<1>4. /\ RingAt(l + 1, u, a + 1)'
      /\ \A n \in l + 1 .. a : Entry(u, n)' = IF n = a THEN UsedElem ELSE Entry(u, n)
  BY <1>1, <1>2, ReceiveRecycles
<1>5. u <= a /\ l + 1 \in Nat /\ a + 1 \in Nat
  BY <1>1 DEF RingAt
<1>6. Len(Returned) = u - l /\ u - l \in Nat
      /\ \A k \in 1 .. u - l : Returned[k] = Entry(u, (l + k) - 1)
  BY <1>1, ReturnedAt DEF ReturnedReads
<1>7. Len(Returned') = u - (l + 1)
      /\ \A k \in 1 .. u - (l + 1) : Returned'[k] = Entry(u, ((l + 1) + k) - 1)'
  BY <1>4, <1>5, ReturnedAtNext DEF ReturnedReads
<1>8. \A k \in 1 .. Len(Returned') : Returned'[k] = Returned[k + 1]
  <2> SUFFICES ASSUME NEW k \in 1 .. u - (l + 1) PROVE Returned'[k] = Returned[k + 1]
    BY <1>7
  <2>1. /\ ((l + 1) + k) - 1 \in l + 1 .. a /\ ((l + 1) + k) - 1 # a
        /\ k + 1 \in 1 .. u - l /\ (l + (k + 1)) - 1 = ((l + 1) + k) - 1
    BY <1>5
  <2> QED BY <1>4, <1>6, <1>7, <2>1
<1>9. Returned[1] = UsedElem
  BY <1>3, <1>6
<1>10. Len(Returned) \in Nat \ {0} /\ Len(Returned') = Len(Returned) - 1
  BY <1>3, <1>6, <1>7
<1>11. \A i \in Slots : rx_bufs[i] \in Frames \cup {0}
  BY <1>2 DEF RxTypes
<1>12. /\ FramesIn(Returned, rx_bufs) # <<>>
       /\ Head(FramesIn(Returned, rx_bufs)) = rx_bufs[UsedElem]
       /\ Tail(FramesIn(Returned, rx_bufs)) = FramesIn(Returned', rx_bufs)
  <2>1. IF Returned[1] \in Slots
        THEN /\ FramesIn(Returned, rx_bufs) # <<>>
             /\ Head(FramesIn(Returned, rx_bufs)) = rx_bufs[Returned[1]]
             /\ Tail(FramesIn(Returned, rx_bufs)) = FramesIn(Returned', rx_bufs)
        ELSE FramesIn(Returned', rx_bufs) = FramesIn(Returned, rx_bufs)
    BY <1>8, <1>10, <1>11, FramesTail
  <2> QED BY <1>3, <1>9, <2>1
<1> QED BY <1>12 DEF RxQueue, Receive

\* Skipping an id outside the ring loses no frame.
LEMMA ReceiveBogusStutters ==
  ASSUME RingInv, ReceiveBogus
  PROVE  RxQueue' = RxQueue
<1>1. PICK l \in Nat, u \in Nat, a \in Nat : RingAt(l, u, a)
  BY DEF RingInv
<1>2. RxTypes
  BY DEF RingInv
<1>3. l < u /\ UsedElem = Entry(u, l) /\ UsedElem \notin Slots /\ RingAt(l + 1, u, a)'
  BY <1>1, <1>2, BogusIsSkipped
<1>4. l + 1 \in Nat
  OBVIOUS
<1>5. Len(Returned) = u - l /\ u - l \in Nat
      /\ \A k \in 1 .. u - l : Returned[k] = Entry(u, (l + k) - 1)
  BY <1>1, ReturnedAt DEF ReturnedReads
<1>6. Len(Returned') = u - (l + 1)
      /\ \A k \in 1 .. u - (l + 1) : Returned'[k] = Entry(u, ((l + 1) + k) - 1)'
  BY <1>3, <1>4, ReturnedAtNext DEF ReturnedReads
<1>7. \A n \in Nat : Entry(u, n)' = Entry(u, n)
  BY DEF ReceiveBogus, Entry
<1>8. \A k \in 1 .. Len(Returned') : Returned'[k] = Returned[k + 1]
  <2> SUFFICES ASSUME NEW k \in 1 .. u - (l + 1) PROVE Returned'[k] = Returned[k + 1]
    BY <1>6
  <2>1. /\ ((l + 1) + k) - 1 \in Nat
        /\ k + 1 \in 1 .. u - l /\ (l + (k + 1)) - 1 = ((l + 1) + k) - 1
    OBVIOUS
  <2> QED BY <1>5, <1>6, <1>7, <2>1
<1>9. Returned[1] = UsedElem
  BY <1>3, <1>5
<1>10. Len(Returned) \in Nat \ {0} /\ Len(Returned') = Len(Returned) - 1
  BY <1>3, <1>5, <1>6
<1>11. \A i \in Slots : rx_bufs[i] \in Frames \cup {0}
  BY <1>2 DEF RxTypes
<1>12. FramesIn(Returned', rx_bufs) = FramesIn(Returned, rx_bufs)
  BY <1>3, <1>8, <1>9, <1>10, <1>11, FramesTail
<1> QED BY <1>12 DEF RxQueue, ReceiveBogus

LEMMA QueueInit == Init => RxQueue = <<>> /\ packet = 0
<1> SUFFICES ASSUME Init PROVE RxQueue = <<>>
  BY DEF Init
<1>1. Ahead(rx_last_used, used_idx) = 0
  BY IndexModIs DEF Init, Ahead
<1>2. Len(Returned) = 0
  BY <1>1 DEF Returned
<1>3. PICK f : IsFrames(f, Returned, rx_bufs) /\ FramesIn(Returned, rx_bufs) = f[Len(Returned)]
  BY <1>2, FramesExist
<1> QED BY <1>2, <1>3, FramesAre DEF RxQueue

LEMMA QueueStep == RingInv /\ [Next]_vars => [Rx!Next]_(Rx!vars)
<1> SUFFICES ASSUME RingInv, [Next]_vars PROVE [Rx!Next]_(Rx!vars)
  OBVIOUS
<1>1. CASE \E f \in Frames : DeviceReceive(f)
  <2>1. PICK f \in Frames : DeviceReceive(f)
    BY <1>1
  <2>2. RxQueue' = Append(RxQueue, f) /\ Len(RxQueue) < QueueSize
    BY <2>1, DeviceReceivePuts
  <2>3. packet' = packet
    BY <2>1 DEF DeviceReceive
  <2>4. Rx!Put
    BY <2>2, <2>3 DEF Rx!Put, RxQueue
  <2> QED BY <2>4 DEF Rx!Next
<1>2. CASE DeviceBogus
  <2>1. RxQueue' = RxQueue /\ packet' = packet
    BY <1>2, DeviceBogusStutters DEF DeviceBogus
  <2> QED BY <2>1 DEF Rx!vars, RxQueue
<1>3. CASE Receive
  <2>1. RxQueue # <<>> /\ packet' = Head(RxQueue) /\ RxQueue' = Tail(RxQueue)
    BY <1>3, ReceiveGets
  <2>2. Rx!Get
    BY <2>1 DEF Rx!Get, RxQueue
  <2> QED BY <2>2 DEF Rx!Next
<1>4. CASE ReceiveBogus
  <2>1. RxQueue' = RxQueue /\ packet' = packet
    BY <1>4, ReceiveBogusStutters DEF ReceiveBogus
  <2> QED BY <2>1 DEF Rx!vars, RxQueue
<1>5. CASE UNCHANGED rxVars
  <2>1. Returned' = Returned /\ rx_bufs' = rx_bufs /\ packet' = packet
    BY <1>5 DEF rxVars, Returned
  <2> QED BY <2>1 DEF Rx!vars
<1> QED BY <1>1, <1>2, <1>3, <1>4, <1>5 DEF Next, vars, WriteFrame, Describe, Publish, DeviceTransmit

\* For every queue size and content of the frames, with indices that wrap and
\* ids outside the ring in between, each frame the device accepted is handed to
\* smoltcp once, unaltered and in order (virtio_net.rs:345-373).
THEOREM ReceiveIsAQueue == Spec => RxIsQueue
<1>1. Init => Rx!Init
  BY QueueInit DEF Rx!Init, RxQueue
<1>2. RingInv /\ [Next]_vars => [Rx!Next]_(Rx!vars)
  BY QueueStep
<1>3. Init => RingInv
  BY RingInit
<1>4. RingInv /\ [Next]_vars => RingInv'
  BY RingStep
<1> QED BY <1>1, <1>2, <1>3, <1>4, PTL DEF Spec, RxIsQueue, Rx!Spec

-----------------------------------------------------------------------------
(* The driver's and the device's words stay in their ranges.                *)

\* As many descriptors are under way as there are frames queued.
TxInv ==
    /\ {tx_buf, tx_desc, tx_frame} \subseteq Frames \cup {0} /\ queued \in Seq(Frames)
    /\ tx_step \in {"idle", "written", "described"}
    /\ tx_step # "idle" => tx_frame \in Frames
    /\ \E t \in Nat : tx_taken = IndexOf(t) /\ tx_avail_idx = IndexOf(t + Len(queued))

\* A step of the driver adds a frame, one of the device takes the oldest.
LEMMA PublishAppends ==
  ASSUME TxInv, Publish
  PROVE  /\ queued' \in Seq(Frames) /\ Len(queued') = Len(queued) + 1 /\ Len(queued) \in Nat
         /\ \A k \in 1 .. Len(queued) : queued'[k] = queued[k]
         /\ queued'[Len(queued) + 1] = tx_frame
<1>1. queued \in Seq(Frames) /\ tx_frame \in Frames /\ queued' = Append(queued, tx_frame)
  BY DEF TxInv, Publish
<1> QED BY <1>1, AppendProperties, LenProperties

LEMMA DeviceTakes ==
  ASSUME TxInv, DeviceTransmit
  PROVE  /\ queued' \in Seq(Frames) /\ Len(queued') = Len(queued) - 1 /\ Len(queued) \in Nat
         /\ \A k \in 1 .. Len(queued) - 1 : queued'[k] = queued[k + 1]
<1>1. PICK t \in Nat : tx_taken = IndexOf(t) /\ tx_avail_idx = IndexOf(t + Len(queued))
  BY DEF TxInv
<1>2. queued \in Seq(Frames) /\ Len(queued) \in Nat
  BY LenProperties DEF TxInv
<1>3. queued # <<>>
  <2>1. Len(queued) # 0
    BY <1>1 DEF DeviceTransmit
  <2> QED BY <2>1
<1>4. queued' = Tail(queued)
  BY DEF DeviceTransmit
<1> QED BY <1>2, <1>3, <1>4, HeadTailProperties

LEMMA TxInit == Init => TxInv
<1> SUFFICES ASSUME Init PROVE TxInv
  OBVIOUS
<1>1. IndexOf(0) = 0 /\ queued = <<>> /\ 0 + Len(queued) = 0
  BY IndexModIs DEF IndexOf, Init
<1> QED BY <1>1, EmptySeq DEF Init, TxInv

LEMMA TxStep == TxInv /\ [Next]_vars => TxInv'
<1> SUFFICES ASSUME TxInv, [Next]_vars PROVE TxInv'
  OBVIOUS
<1>1. PICK t \in Nat : tx_taken = IndexOf(t) /\ tx_avail_idx = IndexOf(t + Len(queued))
  BY DEF TxInv
<1>2. CASE \E f \in Frames : WriteFrame(f)
  BY <1>2 DEF WriteFrame, TxInv
<1>3. CASE Describe
  BY <1>3 DEF Describe, TxInv
<1>4. CASE Publish
  <2>1. queued' \in Seq(Frames) /\ Len(queued') = Len(queued) + 1 /\ Len(queued) \in Nat
    BY <1>4, PublishAppends
  <2>2. tx_avail_idx' = IndexOf((t + Len(queued)) + 1)
    BY <1>1, <1>4, <2>1, SuccOfIndex DEF Publish
  <2>3. (t + Len(queued)) + 1 = t + Len(queued')
    BY <2>1
  <2> QED BY <1>1, <1>4, <2>1, <2>2, <2>3 DEF Publish, TxInv
<1>5. CASE DeviceTransmit
  <2>1. queued' \in Seq(Frames) /\ Len(queued') = Len(queued) - 1 /\ Len(queued) \in Nat
    BY <1>5, DeviceTakes
  <2>2. tx_taken' = IndexOf(t + 1)
    BY <1>1, <1>5, SuccOfIndex DEF DeviceTransmit
  <2>3. t + Len(queued) = (t + 1) + Len(queued') /\ t + 1 \in Nat
    BY <2>1
  <2> QED BY <1>1, <1>5, <2>1, <2>2, <2>3 DEF DeviceTransmit, TxInv
<1>6. CASE UNCHANGED txVars
  BY <1>6 DEF TxInv, txVars
<1> QED BY <1>2, <1>3, <1>4, <1>5, <1>6
        DEF Next, vars, DeviceReceive, DeviceBogus, Receive, ReceiveBogus

\* For every queue size: the indices stay within 16 bits, the available ring
\* names only descriptors there are (virtio_net.rs:364-370).
THEOREM TypeCorrect == Spec => []TypeOK
<1>1. RingInv /\ TxInv => TypeOK
  <2> SUFFICES ASSUME RingInv, TxInv PROVE TypeOK
    OBVIOUS
  <2>1. \A n \in Nat : IndexOf(n) \in Index
    BY IndexModIs DEF IndexOf, Index
  <2>2. avail_idx \in Index /\ used_idx \in Index /\ rx_last_used \in Index
        /\ dev_avail \in Index
    BY <2>1 DEF RingInv, RingAt
  <2>3. tx_avail_idx \in Index /\ tx_taken \in Index
    BY <2>1, LenProperties DEF TxInv
  <2> QED BY <2>2, <2>3 DEF RingInv, RxTypes, TxInv, TypeOK
<1> QED BY <1>1, TxInit, TxStep, RingInit, RingStep, PTL DEF Spec

-----------------------------------------------------------------------------
(* Transmitting: the buffer and its descriptor hold the newest frame, which *)
(* is the one being sent or the last one published.                         *)

Newest ==
    /\ tx_step = "idle" =>
          tx_buf = tx_desc /\ (Len(queued) > 0 => tx_buf = queued[Len(queued)])
    /\ tx_step = "written" =>
          tx_buf = tx_frame /\ (Len(queued) > 0 => tx_desc = queued[Len(queued)])
    /\ tx_step = "described" => tx_buf = tx_frame /\ tx_desc = tx_frame

LEMMA NewestStep == TxInv /\ Newest /\ [Next]_vars => Newest'
<1> SUFFICES ASSUME TxInv, Newest, [Next]_vars PROVE Newest'
  OBVIOUS
<1>1. CASE \E f \in Frames : WriteFrame(f)
  BY <1>1 DEF WriteFrame, Newest
<1>2. CASE Describe
  BY <1>2 DEF Describe, Newest
<1>3. CASE Publish
  <2>1. Len(queued') = Len(queued) + 1 /\ queued'[Len(queued) + 1] = tx_frame
    BY <1>3, PublishAppends
  <2> QED BY <1>3, <2>1 DEF Publish, Newest
<1>4. CASE DeviceTransmit
  <2>1. Len(queued) \in Nat /\ Len(queued') = Len(queued) - 1
        /\ \A k \in 1 .. Len(queued) - 1 : queued'[k] = queued[k + 1]
    BY <1>4, DeviceTakes
  <2>2. Len(queued') > 0 => queued'[Len(queued')] = queued[Len(queued)]
    BY <2>1
  <2>3. Len(queued') > 0 => Len(queued) > 0
    BY <2>1
  <2> QED BY <1>4, <2>2, <2>3 DEF DeviceTransmit, Newest
<1>5. CASE UNCHANGED txVars
  BY <1>5 DEF Newest, txVars
<1> QED BY <1>1, <1>2, <1>3, <1>4, <1>5
        DEF Next, vars, DeviceReceive, DeviceBogus, Receive, ReceiveBogus

\* However late the device is: what it sends for a descriptor is the frame the
\* descriptor was published for or one smoltcp wrote after it, never an older
\* one (virtio_net.rs:316-335).
THEOREM OldFramesStayUnsent == Spec => []NoOldFrameSent
<1>1. Init => Newest
  BY DEF Init, Newest
<1>2. TxInv /\ Newest => NoOldFrameSent
  <2> SUFFICES ASSUME TxInv, Newest PROVE NoOldFrameSent
    OBVIOUS
  <2>1. DOMAIN queued = 1 .. Len(queued) /\ Len(queued) \in Nat
    BY LenProperties DEF TxInv
  <2>2. tx_step = "idle" => tx_buf = tx_desc
    BY DEF Newest
  <2>3. ASSUME NEW k \in 1 .. Len(queued)
        PROVE  {tx_buf, tx_desc} \subseteq NoOlderThan(k)
    <3>1. Len(queued) > 0 /\ Len(queued) \in k .. Len(queued)
      BY <2>1
    <3>2. queued[Len(queued)] \in NoOlderThan(k)
      BY <3>1 DEF NoOlderThan
    <3>3. tx_step # "idle" => tx_frame \in NoOlderThan(k)
      BY DEF NoOlderThan
    <3> QED BY <3>1, <3>2, <3>3 DEF Newest, TxInv
  <2> QED BY <2>1, <2>2, <2>3 DEF NoOldFrameSent
<1> QED BY <1>1, <1>2, TxInit, TxStep, NewestStep, PTL DEF Spec
=============================================================================
