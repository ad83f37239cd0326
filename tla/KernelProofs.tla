---------------------------- MODULE KernelProofs ----------------------------
(***************************************************************************)
(* Locks and timestamps of module KernelLocks, for every number of ticks   *)
(* and every choice of operations.  What a context has left to do is a     *)
(* rest of one of nine programs; the invariant says, place by place, what  *)
(* holds there: who has NETWORK's lock, which timestamp has been fetched,  *)
(* what has been initialised.                                              *)
(*                                                                         *)
(* At the end, the queue of module Scheduler, for every length: its type   *)
(* invariant, and that no waiting process is overtaken.  NoOvertaking is   *)
(* not inductive; what makes it so is where the cursor has been: the       *)
(* entries picked since i was picked lie on the arc of the ring that runs  *)
(* from behind i up to the cursor.                                         *)
(***************************************************************************)
EXTENDS KernelLocks, Scheduler, SequenceTheorems, TLAPS

OpCodes == {"acquire", "release", "try", "get", "frame", "tick", "ownTick", "poll", "sti",
            "heapReady", "networkReady", "forceSerial", "report", "halt"}
Steps == [op : OpCodes, lock : Locks, skip : Nat]

LEMMA StepsAreSteps ==
  /\ \A l \in Locks : Acquire(l) \in Steps /\ Release(l) \in Steps
  /\ \A op \in OpCodes : Do(op) \in Steps
  /\ \A op \in OpCodes, l \in Locks : \A n \in Nat : Step(op, l, n) \in Steps
BY DEF Steps, Step, Acquire, Release, Do, OpCodes, Locks

\* s is a program of n steps; p is the program s, of m steps, and then t, of n.
Has(s, n) == s \in Seq(Steps) /\ Len(s) = n
Joins(p, s, m, t, n) ==
  \A k \in 1 .. m + n : p[k] = IF k <= m THEN s[k] ELSE t[k - m]

LEMMA Joined ==
  ASSUME NEW s, NEW t, NEW m \in Nat, NEW n \in Nat, Has(s, m), Has(t, n)
  PROVE  Has(s \o t, m + n) /\ Joins(s \o t, s, m, t, n)
BY ConcatProperties DEF Has, Joins

\* Short sequences of steps, one element at a time.
LEMMA TuplesOfSteps ==
  /\ \A a \in Steps :
        /\ Has(<<a>>, 1) /\ <<a>>[1] = a
  /\ \A a, b \in Steps :
        /\ Has(<<a, b>>, 2) /\ <<a, b>>[1] = a /\ <<a, b>>[2] = b
  /\ \A a, b, c \in Steps :
        /\ Has(<<a, b, c>>, 3) /\ <<a, b, c>>[1] = a /\ <<a, b, c>>[2] = b
        /\ <<a, b, c>>[3] = c
  /\ \A a, b, c, d, e \in Steps :
        /\ Has(<<a, b, c, d, e>>, 5) /\ <<a, b, c, d, e>>[1] = a
        /\ <<a, b, c, d, e>>[2] = b /\ <<a, b, c, d, e>>[3] = c
        /\ <<a, b, c, d, e>>[4] = d /\ <<a, b, c, d, e>>[5] = e
BY DEF Has

\* The programs of module KernelLocks, step by step.
LEMMA PairIs ==
  /\ Has(SerialPrint, 2) /\ Has(Alloc, 2)
  /\ SerialPrint[1] = Acquire("serial") /\ SerialPrint[2] = Release("serial")
  /\ Alloc[1] = Acquire("heap") /\ Alloc[2] = Release("heap")
<1>1. /\ Acquire("serial") \in Steps /\ Release("serial") \in Steps
      /\ Acquire("heap") \in Steps /\ Release("heap") \in Steps
  BY StepsAreSteps DEF Locks
<1> QED BY <1>1, TuplesOfSteps DEF SerialPrint, Alloc

LEMMA PollIs ==
  /\ Has(Poll, 4) /\ Poll[1] = Do("poll") /\ Poll[2] = Step("frame", "heap", 2)
  /\ Poll[3] = Acquire("heap") /\ Poll[4] = Release("heap")
<1> DEFINE a1 == <<Do("poll"), Step("frame", "heap", 2)>>
<1>1. /\ Has(a1, 2) /\ a1[1] = Do("poll") /\ a1[2] = Step("frame", "heap", 2)
  <2>1. /\ Do("poll") \in Steps /\ Step("frame", "heap", 2) \in Steps
    BY StepsAreSteps DEF OpCodes, Locks
  <2> QED BY <2>1, TuplesOfSteps
<1>2. Poll = a1 \o Alloc
  BY DEF Poll, a1
<1> HIDE DEF a1
<1>3. Joins(Poll, a1, 2, Alloc, 2) /\ Has(Poll, 4)
  BY Joined, <1>1, <1>2, PairIs
<1> QED BY <1>1, <1>3, PairIs DEF Joins

LEMMA ServeHttpOnceIs ==
  /\ Has(ServeHttpOnce, 7) /\ ServeHttpOnce[1] = Step("try", "network", 6)
  /\ ServeHttpOnce[2] = Do("tick") /\ ServeHttpOnce[3] = Do("poll")
  /\ ServeHttpOnce[4] = Step("frame", "heap", 2)
  /\ ServeHttpOnce[5] = Acquire("heap") /\ ServeHttpOnce[6] = Release("heap")
  /\ ServeHttpOnce[7] = Release("network")
<1> DEFINE a1 == <<Step("try", "network", 6), Do("tick")>>
           a2 == <<Release("network")>>
           p1 == a1 \o Poll
<1>1. /\ Has(a1, 2) /\ a1[1] = Step("try", "network", 6) /\ a1[2] = Do("tick")
      /\ Has(a2, 1) /\ a2[1] = Release("network")
  <2>1. /\ Step("try", "network", 6) \in Steps /\ Do("tick") \in Steps
        /\ Release("network") \in Steps
    BY StepsAreSteps DEF OpCodes, Locks
  <2> QED BY <2>1, TuplesOfSteps
<1>2. ServeHttpOnce = p1 \o a2
  BY DEF ServeHttpOnce, a1, a2, p1
<1> HIDE DEF a1, a2
<1>3. Joins(p1, a1, 2, Poll, 4) /\ Has(p1, 6)
  BY Joined, <1>1, PollIs
<1> HIDE DEF p1
<1>4. Joins(ServeHttpOnce, p1, 6, a2, 1) /\ Has(ServeHttpOnce, 7)
  BY Joined, <1>1, <1>3, <1>2
<1> QED BY <1>1, <1>3, <1>4, PollIs DEF Joins

LEMMA TimerHandlerIs ==
  /\ Has(TimerHandler, 10) /\ TimerHandler[1] = Step("get", "network", 7)
  /\ TimerHandler[2] = Step("try", "network", 6) /\ TimerHandler[3] = Do("tick")
  /\ TimerHandler[4] = Do("poll") /\ TimerHandler[5] = Step("frame", "heap", 2)
  /\ TimerHandler[6] = Acquire("heap") /\ TimerHandler[7] = Release("heap")
  /\ TimerHandler[8] = Release("network") /\ TimerHandler[9] = Acquire("pics")
  /\ TimerHandler[10] = Release("pics")
<1> DEFINE a1 == <<Step("get", "network", 7), Step("try", "network", 6), Do("tick")>>
           a2 == <<Release("network"), Acquire("pics"), Release("pics")>>
           p1 == a1 \o Poll
<1>1. /\ Has(a1, 3) /\ a1[1] = Step("get", "network", 7)
      /\ a1[2] = Step("try", "network", 6) /\ a1[3] = Do("tick") /\ Has(a2, 3)
      /\ a2[1] = Release("network") /\ a2[2] = Acquire("pics")
      /\ a2[3] = Release("pics")
  <2>1. /\ Step("get", "network", 7) \in Steps
        /\ Step("try", "network", 6) \in Steps /\ Do("tick") \in Steps
        /\ Release("network") \in Steps /\ Acquire("pics") \in Steps
        /\ Release("pics") \in Steps
    BY StepsAreSteps DEF OpCodes, Locks
  <2> QED BY <2>1, TuplesOfSteps
<1>2. TimerHandler = p1 \o a2
  BY DEF TimerHandler, a1, a2, p1
<1> HIDE DEF a1, a2
<1>3. Joins(p1, a1, 3, Poll, 4) /\ Has(p1, 7)
  BY Joined, <1>1, PollIs
<1> HIDE DEF p1
<1>4. Joins(TimerHandler, p1, 7, a2, 3) /\ Has(TimerHandler, 10)
  BY Joined, <1>1, <1>3, <1>2
<1> QED BY <1>1, <1>3, <1>4, PollIs DEF Joins

LEMMA FaultHandlerIs ==
  /\ Has(FaultHandler, 6) /\ FaultHandler[1] = Acquire("serial")
  /\ FaultHandler[2] = Release("serial") /\ FaultHandler[3] = Acquire("serial")
  /\ FaultHandler[4] = Release("serial") /\ FaultHandler[5] = Do("report")
  /\ FaultHandler[6] = Do("halt")
<1> DEFINE a1 == <<Do("report"), Do("halt")>>
           p1 == SerialPrint \o SerialPrint
<1>1. /\ Has(a1, 2) /\ a1[1] = Do("report") /\ a1[2] = Do("halt")
  <2>1. /\ Do("report") \in Steps /\ Do("halt") \in Steps
    BY StepsAreSteps DEF OpCodes, Locks
  <2> QED BY <2>1, TuplesOfSteps
<1>2. FaultHandler = p1 \o a1
  BY DEF FaultHandler, a1, p1
<1> HIDE DEF a1
<1>3. Joins(p1, SerialPrint, 2, SerialPrint, 2) /\ Has(p1, 4)
  BY Joined, <1>1, PairIs
<1> HIDE DEF p1
<1>4. Joins(FaultHandler, p1, 4, a1, 2) /\ Has(FaultHandler, 6)
  BY Joined, <1>1, <1>3, <1>2
<1> QED BY <1>1, <1>3, <1>4, PairIs DEF Joins

LEMMA HttpsRequestIs ==
  /\ Has(HttpsRequest, 14) /\ HttpsRequest[1] = Acquire("network")
  /\ HttpsRequest[2] = Acquire("heap") /\ HttpsRequest[3] = Release("heap")
  /\ HttpsRequest[4] = Do("ownTick") /\ HttpsRequest[5] = Do("poll")
  /\ HttpsRequest[6] = Step("frame", "heap", 2) /\ HttpsRequest[7] = Acquire("heap")
  /\ HttpsRequest[8] = Release("heap") /\ HttpsRequest[9] = Do("ownTick")
  /\ HttpsRequest[10] = Do("poll") /\ HttpsRequest[11] = Step("frame", "heap", 2)
  /\ HttpsRequest[12] = Acquire("heap") /\ HttpsRequest[13] = Release("heap")
  /\ HttpsRequest[14] = Release("network")
<1> DEFINE a1 == <<Acquire("network")>>
           a2 == <<Do("ownTick")>>
           a3 == <<Release("network")>>
           p1 == a1 \o Alloc
           p2 == p1 \o a2
           p3 == p2 \o Poll
           p4 == p3 \o a2
           p5 == p4 \o Poll
<1>1. /\ Has(a1, 1) /\ a1[1] = Acquire("network") /\ Has(a2, 1)
      /\ a2[1] = Do("ownTick") /\ Has(a3, 1) /\ a3[1] = Release("network")
  <2>1. /\ Acquire("network") \in Steps /\ Do("ownTick") \in Steps
        /\ Release("network") \in Steps
    BY StepsAreSteps DEF OpCodes, Locks
  <2> QED BY <2>1, TuplesOfSteps
<1>2. HttpsRequest = p5 \o a3
  BY DEF HttpsRequest, a1, a2, a3, p1, p2, p3, p4, p5
<1> HIDE DEF a1, a2, a3
<1>3. Joins(p1, a1, 1, Alloc, 2) /\ Has(p1, 3)
  BY Joined, <1>1, PairIs
<1> HIDE DEF p1
<1>4. Joins(p2, p1, 3, a2, 1) /\ Has(p2, 4)
  BY Joined, <1>1, <1>3
<1> HIDE DEF p2
<1>5. Joins(p3, p2, 4, Poll, 4) /\ Has(p3, 8)
  BY Joined, <1>1, <1>4, PollIs
<1> HIDE DEF p3
<1>6. Joins(p4, p3, 8, a2, 1) /\ Has(p4, 9)
  BY Joined, <1>1, <1>5
<1> HIDE DEF p4
<1>7. Joins(p5, p4, 9, Poll, 4) /\ Has(p5, 13)
  BY Joined, <1>1, <1>6, PollIs
<1> HIDE DEF p5
<1>8. Joins(HttpsRequest, p5, 13, a3, 1) /\ Has(HttpsRequest, 14)
  BY Joined, <1>1, <1>7, <1>2
<1> QED BY <1>1, <1>3, <1>4, <1>5, <1>6, <1>7, <1>8, PairIs, PollIs DEF Joins

LEMMA KernelMainIs ==
  /\ Has(KernelMain, 29) /\ KernelMain[1] = Acquire("serial")
  /\ KernelMain[2] = Release("serial") /\ KernelMain[3] = Acquire("pics")
  /\ KernelMain[4] = Release("pics") /\ KernelMain[5] = Do("sti")
  /\ KernelMain[6] = Acquire("serial") /\ KernelMain[7] = Release("serial")
  /\ KernelMain[8] = Acquire("heap") /\ KernelMain[9] = Do("heapReady")
  /\ KernelMain[10] = Release("heap") /\ KernelMain[11] = Acquire("heap")
  /\ KernelMain[12] = Release("heap") /\ KernelMain[13] = Acquire("serial")
  /\ KernelMain[14] = Release("serial") /\ KernelMain[15] = Acquire("heap")
  /\ KernelMain[16] = Release("heap") /\ KernelMain[17] = Do("networkReady")
  /\ KernelMain[18] = Acquire("serial") /\ KernelMain[19] = Release("serial")
  /\ KernelMain[20] = Acquire("heap") /\ KernelMain[21] = Release("heap")
  /\ KernelMain[22] = Acquire("serial") /\ KernelMain[23] = Release("serial")
  /\ KernelMain[24] = Acquire("network") /\ KernelMain[25] = Acquire("heap")
  /\ KernelMain[26] = Release("heap") /\ KernelMain[27] = Release("network")
  /\ KernelMain[28] = Acquire("serial") /\ KernelMain[29] = Release("serial")
<1> DEFINE a1 == <<Acquire("pics"), Release("pics"), Do("sti")>>
           a2 == <<Acquire("heap"), Do("heapReady"), Release("heap")>>
           a3 == <<Do("networkReady")>>
           a4 == <<Acquire("network")>>
           a5 == <<Release("network")>>
           p1 == SerialPrint \o a1
           p2 == p1 \o SerialPrint
           p3 == p2 \o a2
           p4 == p3 \o Alloc
           p5 == p4 \o SerialPrint
           p6 == p5 \o Alloc
           p7 == p6 \o a3
           p8 == p7 \o SerialPrint
           p9 == p8 \o Alloc
           p10 == p9 \o SerialPrint
           p11 == p10 \o a4
           p12 == p11 \o Alloc
           p13 == p12 \o a5
<1>1. /\ Has(a1, 3) /\ a1[1] = Acquire("pics") /\ a1[2] = Release("pics")
      /\ a1[3] = Do("sti") /\ Has(a2, 3) /\ a2[1] = Acquire("heap")
      /\ a2[2] = Do("heapReady") /\ a2[3] = Release("heap") /\ Has(a3, 1)
      /\ a3[1] = Do("networkReady") /\ Has(a4, 1) /\ a4[1] = Acquire("network")
      /\ Has(a5, 1) /\ a5[1] = Release("network")
  <2>1. /\ Acquire("pics") \in Steps /\ Release("pics") \in Steps
        /\ Do("sti") \in Steps /\ Acquire("heap") \in Steps
        /\ Do("heapReady") \in Steps /\ Release("heap") \in Steps
        /\ Do("networkReady") \in Steps /\ Acquire("network") \in Steps
        /\ Release("network") \in Steps
    BY StepsAreSteps DEF OpCodes, Locks
  <2> QED BY <2>1, TuplesOfSteps
<1>2. KernelMain = p13 \o SerialPrint
  BY DEF KernelMain, a1, a2, a3, a4, a5, p1, p2, p3, p4, p5, p6, p7, p8, p9, p10, p11, p12, p13
<1> HIDE DEF a1, a2, a3, a4, a5
<1>3. Joins(p1, SerialPrint, 2, a1, 3) /\ Has(p1, 5)
  BY Joined, <1>1, PairIs
<1> HIDE DEF p1
<1>4. Joins(p2, p1, 5, SerialPrint, 2) /\ Has(p2, 7)
  BY Joined, <1>1, <1>3, PairIs
<1> HIDE DEF p2
<1>5. Joins(p3, p2, 7, a2, 3) /\ Has(p3, 10)
  BY Joined, <1>1, <1>4
<1> HIDE DEF p3
<1>6. Joins(p4, p3, 10, Alloc, 2) /\ Has(p4, 12)
  BY Joined, <1>1, <1>5, PairIs
<1> HIDE DEF p4
<1>7. Joins(p5, p4, 12, SerialPrint, 2) /\ Has(p5, 14)
  BY Joined, <1>1, <1>6, PairIs
<1> HIDE DEF p5
<1>8. Joins(p6, p5, 14, Alloc, 2) /\ Has(p6, 16)
  BY Joined, <1>1, <1>7, PairIs
<1> HIDE DEF p6
<1>9. Joins(p7, p6, 16, a3, 1) /\ Has(p7, 17)
  BY Joined, <1>1, <1>8
<1> HIDE DEF p7
<1>10. Joins(p8, p7, 17, SerialPrint, 2) /\ Has(p8, 19)
  BY Joined, <1>1, <1>9, PairIs
<1> HIDE DEF p8
<1>11. Joins(p9, p8, 19, Alloc, 2) /\ Has(p9, 21)
  BY Joined, <1>1, <1>10, PairIs
<1> HIDE DEF p9
<1>12. Joins(p10, p9, 21, SerialPrint, 2) /\ Has(p10, 23)
  BY Joined, <1>1, <1>11, PairIs
<1> HIDE DEF p10
<1>13. Joins(p11, p10, 23, a4, 1) /\ Has(p11, 24)
  BY Joined, <1>1, <1>12
<1> HIDE DEF p11
<1>14. Joins(p12, p11, 24, Alloc, 2) /\ Has(p12, 26)
  BY Joined, <1>1, <1>13, PairIs
<1> HIDE DEF p12
<1>15. Joins(p13, p12, 26, a5, 1) /\ Has(p13, 27)
  BY Joined, <1>1, <1>14
<1> HIDE DEF p13
<1>16. Joins(KernelMain, p13, 27, SerialPrint, 2) /\ Has(KernelMain, 29)
  BY Joined, <1>1, <1>15, <1>2, PairIs
<1> QED BY <1>1, <1>3, <1>4, <1>5, <1>6, <1>7, <1>8, <1>9, <1>10, <1>11, <1>12, <1>13, <1>14, <1>15, <1>16, PairIs DEF Joins

LEMMA SmallOnes ==
  /\ Has(KeyboardHandler, 2)
  /\ KeyboardHandler[1] = Acquire("pics") /\ KeyboardHandler[2] = Release("pics")
  /\ Has(PanicHandler, 5)
  /\ PanicHandler[1] = Do("forceSerial") /\ PanicHandler[2] = Acquire("serial")
  /\ PanicHandler[3] = Do("report") /\ PanicHandler[4] = Release("serial")
  /\ PanicHandler[5] = Do("halt")
<1>1. /\ Acquire("pics") \in Steps /\ Release("pics") \in Steps
      /\ Acquire("serial") \in Steps /\ Release("serial") \in Steps
      /\ Do("forceSerial") \in Steps /\ Do("report") \in Steps /\ Do("halt") \in Steps
  BY StepsAreSteps DEF OpCodes, Locks
<1> QED BY <1>1, TuplesOfSteps DEF KeyboardHandler, PanicHandler
-----------------------------------------------------------------------------
(* Places *)

\* The programs by name, and their lengths.
Code == [boot |-> KernelMain, print |-> SerialPrint, alloc |-> Alloc,
         serve |-> ServeHttpOnce, https |-> HttpsRequest, timer |-> TimerHandler,
         keyboard |-> KeyboardHandler, fault |-> FaultHandler, panic |-> PanicHandler]
Size == [boot |-> 29, print |-> 2, alloc |-> 2, serve |-> 7, https |-> 14,
         timer |-> 10, keyboard |-> 2, fault |-> 6, panic |-> 5]
Names == {"boot", "print", "alloc", "serve", "https", "timer", "keyboard", "fault", "panic"}

LEMMA Sizes == \A n \in Names : Size[n] \in Nat /\ Has(Code[n], Size[n])
BY KernelMainIs, PairIs, ServeHttpOnceIs, HttpsRequestIs, TimerHandlerIs, FaultHandlerIs,
   SmallOnes DEF Code, Size, Names

\* Where a program still has to do with the lock of NETWORK it holds, and where
\* it polls next.
Inside(n, k) == \/ n = "serve" /\ k \in 2 .. 7
                \/ n = "timer" /\ k \in 3 .. 8
                \/ n = "https" /\ k \in 2 .. 14
                \/ n = "boot" /\ k \in 25 .. 27
PollsNext(n, k) == \/ n = "serve" /\ k = 3
                   \/ n = "timer" /\ k = 4
                   \/ n = "https" /\ k \in {5, 10}

\* Which steps stand where.
Placed(n, k, s) ==
  /\ s.op \in OpCodes /\ s.lock \in Locks
  /\ s.op = "try" => /\ s.lock = "network" /\ s.skip = 6
                     /\ <<n, k>> \in {<<"serve", 1>>, <<"timer", 2>>}
  /\ s.op = "get" => s.lock = "network" /\ s.skip = 7 /\ n = "timer" /\ k = 1
  /\ s.op = "frame" => /\ s.skip = 2
                       /\ <<n, k>> \in {<<"serve", 4>>, <<"timer", 5>>,
                                        <<"https", 6>>, <<"https", 11>>}
  /\ s.op = "tick" => <<n, k>> \in {<<"serve", 2>>, <<"timer", 3>>}
  /\ s.op = "ownTick" => <<n, k>> \in {<<"https", 4>>, <<"https", 9>>}
  /\ s.op = "poll" => PollsNext(n, k)
  /\ s.op = "sti" => n = "boot" /\ k = 5
  /\ s.op = "heapReady" => n = "boot" /\ k = 9
  /\ s.op = "networkReady" => n = "boot" /\ k = 17
  /\ s.op = "forceSerial" => n = "panic" /\ k = 1

\* Which locks are taken and dropped where.
Locked(n, k, s) ==
  /\ s.op = "acquire" /\ s.lock = "network" => n \in {"boot", "https"}
  /\ s.op = "acquire" /\ s.lock = "pics" => n \in {"timer", "keyboard"} \/ (n = "boot" /\ k = 3)
  /\ s.op = "acquire" /\ s.lock = "heap" =>
        n \in {"boot", "alloc", "serve", "https"} \/ (n = "timer" /\ k = 6)
  /\ s.op = "acquire" /\ s.lock = "serial" =>
        n \in {"boot", "print", "fault"} \/ (n = "panic" /\ k = 2)
  /\ s.op = "release" /\ s.lock = "network" => Inside(n, k) /\ ~ Inside(n, k + 1)

\* What stands before the places where something new holds.
Before(n, k, s) ==
  /\ n = "boot" /\ k = 4 => s.op = "release" /\ s.lock = "pics"
  /\ n = "boot" /\ k = 9 => s.op = "heapReady"
  /\ n = "panic" /\ k = 1 => s.op = "forceSerial"
  /\ n = "timer" /\ k = 1 => s.op = "get"
  /\ PollsNext(n, k) => s.op = "poll"
  /\ PollsNext(n, k + 1) => s.op = IF n = "https" THEN "ownTick" ELSE "tick"
  /\ Inside(n, k + 1) /\ ~ Inside(n, k) => s.op \in {"acquire", "try"} /\ s.lock = "network"

InPlace(n, k, s) == Placed(n, k, s) /\ Locked(n, k, s) /\ Before(n, k, s)

\* Every step of every program is in its place.
LEMMA BootInPlace == \A k \in 1 .. 29 : InPlace("boot", k, KernelMain[k])
<1>1. \A k \in 1 .. 29 : 
        \/ k = 1 \/ k = 2 \/ k = 3 \/ k = 4 \/ k = 5 \/ k = 6 \/ k = 7 \/ k = 8
        \/ k = 9 \/ k = 10 \/ k = 11 \/ k = 12 \/ k = 13 \/ k = 14 \/ k = 15
        \/ k = 16 \/ k = 17 \/ k = 18 \/ k = 19 \/ k = 20 \/ k = 21 \/ k = 22
        \/ k = 23 \/ k = 24 \/ k = 25 \/ k = 26 \/ k = 27 \/ k = 28 \/ k = 29
  OBVIOUS
<1> QED BY <1>1, KernelMainIs DEF InPlace, Placed, Locked, Before, Inside, PollsNext,
       Acquire, Release, Do, Step, OpCodes, Locks

LEMMA PrintInPlace == \A k \in 1 .. 2 : InPlace("print", k, SerialPrint[k])
<1>1. \A k \in 1 .. 2 : k = 1 \/ k = 2
  OBVIOUS
<1> QED BY <1>1, PairIs DEF InPlace, Placed, Locked, Before, Inside, PollsNext,
       Acquire, Release, Do, Step, OpCodes, Locks

LEMMA AllocInPlace == \A k \in 1 .. 2 : InPlace("alloc", k, Alloc[k])
<1>1. \A k \in 1 .. 2 : k = 1 \/ k = 2
  OBVIOUS
<1> QED BY <1>1, PairIs DEF InPlace, Placed, Locked, Before, Inside, PollsNext,
       Acquire, Release, Do, Step, OpCodes, Locks

LEMMA ServeInPlace == \A k \in 1 .. 7 : InPlace("serve", k, ServeHttpOnce[k])
<1>1. \A k \in 1 .. 7 : k = 1 \/ k = 2 \/ k = 3 \/ k = 4 \/ k = 5 \/ k = 6 \/ k = 7
  OBVIOUS
<1> QED BY <1>1, ServeHttpOnceIs DEF InPlace, Placed, Locked, Before, Inside, PollsNext,
       Acquire, Release, Do, Step, OpCodes, Locks

LEMMA HttpsInPlace == \A k \in 1 .. 14 : InPlace("https", k, HttpsRequest[k])
<1>1. \A k \in 1 .. 14 : 
        \/ k = 1 \/ k = 2 \/ k = 3 \/ k = 4 \/ k = 5 \/ k = 6 \/ k = 7 \/ k = 8
        \/ k = 9 \/ k = 10 \/ k = 11 \/ k = 12 \/ k = 13 \/ k = 14
  OBVIOUS
<1> QED BY <1>1, HttpsRequestIs DEF InPlace, Placed, Locked, Before, Inside, PollsNext,
       Acquire, Release, Do, Step, OpCodes, Locks

LEMMA TimerInPlace == \A k \in 1 .. 10 : InPlace("timer", k, TimerHandler[k])
<1>1. \A k \in 1 .. 10 : 
        \/ k = 1 \/ k = 2 \/ k = 3 \/ k = 4 \/ k = 5 \/ k = 6 \/ k = 7 \/ k = 8
        \/ k = 9 \/ k = 10
  OBVIOUS
<1> QED BY <1>1, TimerHandlerIs DEF InPlace, Placed, Locked, Before, Inside, PollsNext,
       Acquire, Release, Do, Step, OpCodes, Locks

LEMMA KeyboardInPlace == \A k \in 1 .. 2 : InPlace("keyboard", k, KeyboardHandler[k])
<1>1. \A k \in 1 .. 2 : k = 1 \/ k = 2
  OBVIOUS
<1> QED BY <1>1, SmallOnes DEF InPlace, Placed, Locked, Before, Inside, PollsNext,
       Acquire, Release, Do, Step, OpCodes, Locks

LEMMA FaultInPlace == \A k \in 1 .. 6 : InPlace("fault", k, FaultHandler[k])
<1>1. \A k \in 1 .. 6 : k = 1 \/ k = 2 \/ k = 3 \/ k = 4 \/ k = 5 \/ k = 6
  OBVIOUS
<1> QED BY <1>1, FaultHandlerIs DEF InPlace, Placed, Locked, Before, Inside, PollsNext,
       Acquire, Release, Do, Step, OpCodes, Locks

LEMMA PanicInPlace == \A k \in 1 .. 5 : InPlace("panic", k, PanicHandler[k])
<1>1. \A k \in 1 .. 5 : k = 1 \/ k = 2 \/ k = 3 \/ k = 4 \/ k = 5
  OBVIOUS
<1> QED BY <1>1, SmallOnes DEF InPlace, Placed, Locked, Before, Inside, PollsNext,
       Acquire, Release, Do, Step, OpCodes, Locks

LEMMA AllInPlace ==
  \A n \in Names : \A k \in 1 .. Size[n] : InPlace(n, k, Code[n][k])
BY BootInPlace, PrintInPlace, AllocInPlace, ServeInPlace, HttpsInPlace, TimerInPlace,
   KeyboardInPlace, FaultInPlace, PanicInPlace DEF Names, Size, Code
-----------------------------------------------------------------------------
(* The invariant *)

Rest(p, k) == SubSeq(p, k, Len(p))
ClockOf(n) == IF n = "https" THEN "own" ELSE "net"
Count(c) == IF c = "net" THEN ticks ELSE pollTicks

\* A timestamp of counter c that no poll has used.
Fetched(x, c) ==
  /\ stamp[x][1] = c
  /\ polls[c][2] <= stamp[x][2] /\ stamp[x][2] < Count(c)

\* Before `sti`, and once the heap is there.
BootFacts(k) ==
  /\ k <= 5 => ~ enabled /\ ~ inIrq /\ fault = "none"
  /\ k = 5 => holder["pics"] # "main"
  /\ k > 9 => "heap" \in ready

\* What holds when context x is at step k of program n.
Facts(x, n, k) ==
  /\ n \in IF x = "irq" THEN {"timer", "keyboard", "fault", "panic"}
           ELSE Names \ {"timer", "keyboard"}
  /\ Inside(n, k) => holder["network"] = x
  /\ PollsNext(n, k) => Fetched(x, ClockOf(n))
  /\ n = "boot" => BootFacts(k)
  /\ n = "timer" /\ k \in 2 .. 8 => "network" \in ready
  /\ x = "irq" /\ n = "panic" /\ k = 2 => holder["serial"] # "main"
  /\ n = "fault" => fault # "none"

Reached(x, n, k) ==
  /\ n \in Names /\ k \in 1 .. Size[n] + 1
  /\ code[x] = Rest(Code[n], k)
  /\ Facts(x, n, k)

Coded == code \in [Contexts -> Seq(Steps)]
Types ==
  /\ TypeOK
  /\ stamp \in [Contexts -> Clocks \X Nat] /\ polls \in [Clocks -> Nat \X Nat]
  /\ fault \in {"none", "free", "held"}

Shared ==
  /\ ~ inIrq => code["irq"] = <<>>
  /\ fault # "none" => ~ enabled
  /\ inIrq \/ enabled => holder["pics"] # "main"
  /\ inIrq /\ fault = "free" => holder["serial"] # "main"
  /\ "network" \in ready => "heap" \in ready
  /\ \A c \in Clocks : polls[c][1] <= polls[c][2] /\ polls[c][2] <= Count(c)

Placement == \A x \in Contexts : \E n \in Names : \E k \in 1 .. Size[n] + 1 : Reached(x, n, k)

LocksInv == Coded /\ Types /\ Shared /\ Placement
-----------------------------------------------------------------------------
(* Rests of a program *)

LEMMA Rests ==
  ASSUME NEW p, NEW n \in Nat, Has(p, n), NEW k \in 1 .. n
  PROVE  /\ Rest(p, k) # <<>> /\ Head(Rest(p, k)) = p[k]
         /\ \A j \in Nat : k + j <= n => SkipTo(Rest(p, k), j) = Rest(p, k + j + 1)
<1>1. p \in Seq(Steps) /\ Len(p) = n
  BY DEF Has
<1>2. Rest(p, k) \in Seq(Steps) /\ Len(Rest(p, k)) = n - k + 1
  BY <1>1, SubSeqProperties DEF Rest
<1>3. \A i \in 1 .. n - k + 1 : Rest(p, k)[i] = p[k + i - 1]
  BY <1>1, SubSeqProperties DEF Rest
<1>4. Rest(p, k) # <<>> /\ Head(Rest(p, k)) = p[k]
  BY <1>2, <1>3
<1>5. ASSUME NEW j \in Nat, k + j <= n
      PROVE  SkipTo(Rest(p, k), j) = Rest(p, k + j + 1)
  <2> DEFINE s == SkipTo(Rest(p, k), j)
             t == Rest(p, k + j + 1)
  <2>1. /\ s \in Seq(Steps) /\ Len(s) = n - k - j
        /\ \A i \in 1 .. n - k - j : s[i] = Rest(p, k)[j + i + 1]
    BY <1>2, <1>5, SubSeqProperties DEF SkipTo
  <2>2. /\ t \in Seq(Steps) /\ Len(t) = n - k - j
        /\ \A i \in 1 .. n - k - j : t[i] = p[k + j + i]
    <3>1. k + j + 1 \in 1 .. n + 1 /\ n - (k + j + 1) + 1 = n - k - j
      BY <1>5
    <3>2. \A i \in 1 .. n - k - j : k + j + 1 + i - 1 = k + j + i
      BY <1>5
    <3>3. /\ t \in Seq(Steps) /\ Len(t) = n - (k + j + 1) + 1
          /\ \A i \in 1 .. n - (k + j + 1) + 1 : t[i] = p[k + j + 1 + i - 1]
      <4> DEFINE m == k + j + 1
      <4>1. m \in 1 .. n + 1
        BY <3>1
      <4> HIDE DEF m
      <4>2. /\ SubSeq(p, m, n) \in Seq(Steps) /\ Len(SubSeq(p, m, n)) = n - m + 1
            /\ \A i \in 1 .. n - m + 1 : SubSeq(p, m, n)[i] = p[m + i - 1]
        BY ONLY <1>1, <4>1, n \in Nat, SubSeqProperties
      <4> QED BY <1>1, <4>2 DEF Rest, m
    <3> HIDE DEF t
    <3> QED BY <3>1, <3>2, <3>3
  <2>3. ASSUME NEW i \in 1 .. n - k - j PROVE s[i] = t[i]
    <3>1. j + i + 1 \in 1 .. n - k + 1 /\ k + (j + i + 1) - 1 = k + j + i
      BY <1>5
    <3>2. Rest(p, k)[j + i + 1] = p[k + j + i]
      BY <1>3, <3>1
    <3>3. s[i] = Rest(p, k)[j + i + 1] /\ t[i] = p[k + j + i]
      BY <2>1, <2>2
    <3> QED BY <3>2, <3>3
  <2> HIDE DEF s, t
  <2>4. s = t
    BY <2>1, <2>2, <2>3, <1>5, SeqEqual
  <2> QED BY <2>4 DEF s, t
<1> QED BY <1>4, <1>5

LEMMA WholeAndNothing ==
  ASSUME NEW p, NEW n \in Nat, Has(p, n)
  PROVE  Rest(p, 1) = p /\ Rest(p, n + 1) = <<>>
<1>1. p \in Seq(Steps) /\ Len(p) = n
  BY DEF Has
<1>2. Rest(p, n + 1) = <<>>
  BY <1>1, SubSeqProperties, EmptySeq DEF Rest
<1>3. /\ Rest(p, 1) \in Seq(Steps) /\ Len(Rest(p, 1)) = n
      /\ \A i \in 1 .. n : Rest(p, 1)[i] = p[i]
  BY <1>1, SubSeqProperties DEF Rest
<1> QED BY <1>1, <1>2, <1>3, SeqEqual

\* Context x stands at step k of program n, which is `op`; where it may go.
Stands(x, op, n, k) ==
  /\ Reached(x, n, k) /\ InPlace(n, k, Code[n][k])
  /\ Head(code[x]) = Code[n][k] /\ Code[n][k].op = op
  /\ \A j \in Nat : k + j <= Size[n] => SkipTo(code[x], j) = Rest(Code[n], k + j + 1)

LEMMA Standing ==
  ASSUME Placement, NEW x \in Contexts, NEW op, At(x, op)
  PROVE  \E n \in Names : \E k \in 1 .. Size[n] : Stands(x, op, n, k)
<1>1. PICK n \in Names : \E k \in 1 .. Size[n] + 1 : Reached(x, n, k)
  BY DEF Placement
<1>2. PICK k \in 1 .. Size[n] + 1 : Reached(x, n, k)
  BY <1>1
<1>3. Size[n] \in Nat /\ Has(Code[n], Size[n])
  BY Sizes
<1>4. code[x] # <<>> /\ Head(code[x]).op = op /\ code[x] = Rest(Code[n], k)
  BY <1>2 DEF At, Reached
<1>5. k \in 1 .. Size[n]
  <2>1. k # Size[n] + 1
    BY <1>3, <1>4, WholeAndNothing
  <2> QED BY <2>1, <1>3
<1>6. /\ Head(code[x]) = Code[n][k]
      /\ \A j \in Nat : k + j <= Size[n] => SkipTo(code[x], j) = Rest(Code[n], k + j + 1)
  <2> DEFINE p == Code[n]
             z == Size[n]
  <2>1. z \in Nat /\ Has(p, z) /\ k \in 1 .. z /\ code[x] = Rest(p, k)
    BY <1>3, <1>4, <1>5
  <2> HIDE DEF p, z
  <2>2. Head(code[x]) = p[k]
    BY <2>1, Rests
  <2>3. \A j \in Nat : k + j <= z => SkipTo(code[x], j) = Rest(p, k + j + 1)
    BY <2>1, Rests
  <2> QED BY <2>2, <2>3 DEF p, z
<1>7. InPlace(n, k, Code[n][k])
  BY <1>5, AllInPlace
<1>8. Stands(x, op, n, k)
  BY <1>2, <1>4, <1>6, <1>7 DEF Stands
<1> QED BY <1>5, <1>8

\* A context that has nothing left to do is behind the end of its program.
LEMMA AtTheEnd ==
  ASSUME NEW n \in Names, NEW k \in 1 .. Size[n] + 1, Rest(Code[n], k) = <<>>
  PROVE  k = Size[n] + 1
<1>1. Size[n] \in Nat /\ Has(Code[n], Size[n])
  BY Sizes
<1>2. k \notin 1 .. Size[n]
  BY <1>1, Rests
<1> QED BY <1>1, <1>2

\* The context that does not run keeps its place: what it relies on is not for
\* the running one to change.
LEMMA Bystander ==
  ASSUME Types, Shared, Placement,
         NEW y \in Contexts, y # Running,
         inIrq' = inIrq, fault # "none" => fault' # "none",
         code'[y] = code[y], stamp'[y] = stamp[y],
         ready \subseteq ready', ticks' \in Nat, pollTicks' \in Nat,
         ticks <= ticks', pollTicks <= pollTicks',
         holder["network"] = y => holder'["network"] = y /\ polls' = polls
  PROVE  \E n \in Names : \E k \in 1 .. Size[n] + 1 : Reached(y, n, k)'
<1>1. PICK n \in Names : \E k \in 1 .. Size[n] + 1 : Reached(y, n, k)
  BY DEF Placement
<1>2. PICK k \in 1 .. Size[n] + 1 : Reached(y, n, k)
  BY <1>1
<1>3. CASE y = "irq"
  <2>1. code["irq"] = <<>>
    BY <1>3 DEF Running, Shared
  <2>2. k = Size[n] + 1
    BY <1>2, <1>3, <2>1, AtTheEnd DEF Reached
  <2>3. ~ Inside(n, k) /\ ~ PollsNext(n, k)
    BY <2>2 DEF Inside, PollsNext, Size
  <2>4. n \in {"timer", "keyboard", "fault", "panic"} /\ (n = "fault" => fault # "none")
    BY <1>2, <1>3 DEF Reached, Facts
  <2>5. ~ (n = "timer" /\ k \in 2 .. 8) /\ ~ (n = "panic" /\ k = 2) /\ n # "boot"
    BY <2>2, <2>4 DEF Size
  <2>6. Facts(y, n, k)'
    BY <1>3, <2>3, <2>4, <2>5 DEF Facts
  <2> QED BY <1>2, <2>6 DEF Reached
<1>4. CASE y = "main"
  <2>1. inIrq
    BY <1>4 DEF Running
  <2>2. Facts(y, n, k)
    BY <1>2 DEF Reached
  <2>3. n \in Names \ {"timer", "keyboard"} /\ (n = "fault" => fault' # "none")
    BY <1>4, <2>2 DEF Facts
  <2>4. n = "boot" => BootFacts(k)'
    BY <1>2, <2>1, <2>2 DEF Facts, BootFacts
  <2>5. Inside(n, k) => holder'["network"] = y
    BY <2>2 DEF Facts
  <2>6. PollsNext(n, k) => Fetched(y, ClockOf(n))'
    <3> SUFFICES ASSUME PollsNext(n, k) PROVE Fetched(y, ClockOf(n))'
      OBVIOUS
    <3>1. Inside(n, k)
      BY DEF PollsNext, Inside
    <3>2. Fetched(y, ClockOf(n)) /\ polls' = polls
      BY <2>2, <3>1 DEF Facts
    <3>3. ClockOf(n) \in Clocks
      BY DEF ClockOf, Clocks
    <3>4. Count(ClockOf(n)) \in Nat /\ Count(ClockOf(n))' \in Nat
          /\ Count(ClockOf(n)) <= Count(ClockOf(n))'
      BY DEF Count, Types, TypeOK
    <3>5. stamp[y][2] \in Nat
      BY DEF Types
    <3> QED BY <3>2, <3>4, <3>5 DEF Fetched
  <2>7. Facts(y, n, k)'
    BY <1>4, <2>3, <2>4, <2>5, <2>6 DEF Facts
  <2> QED BY <1>2, <2>7 DEF Reached
<1> QED BY <1>3, <1>4 DEF Contexts

\* The running context goes to a place it may be at; the other keeps its own.
LEMMA Turn ==
  ASSUME Coded, Types, Shared, Placement,
         NEW x \in Contexts, x = Running,
         NEW n \in Names, NEW m \in 1 .. Size[n] + 1,
         code' = [code EXCEPT ![x] = Rest(Code[n], m)], Facts(x, n, m)',
         inIrq' = inIrq, fault # "none" => fault' # "none", ready \subseteq ready',
         ticks' \in Nat, pollTicks' \in Nat, ticks <= ticks', pollTicks <= pollTicks',
         \A y \in Contexts \ {x} :
            /\ stamp'[y] = stamp[y]
            /\ holder["network"] = y => holder'["network"] = y /\ polls' = polls
  PROVE  Coded' /\ Placement'
<1>1. Size[n] \in Nat /\ Has(Code[n], Size[n])
  BY Sizes
<1>2. Rest(Code[n], m) \in Seq(Steps)
  BY <1>1, SubSeqProperties DEF Has, Rest
<1>3. Coded'
  BY <1>2 DEF Coded
<1>4. code'[x] = Rest(Code[n], m) /\ \A y \in Contexts \ {x} : code'[y] = code[y]
  BY DEF Coded
<1>5. Reached(x, n, m)'
  BY <1>4 DEF Reached
<1>6. ASSUME NEW y \in Contexts \ {x}
      PROVE  \E h \in Names : \E k \in 1 .. Size[h] + 1 : Reached(y, h, k)'
  BY <1>4, Bystander
<1>7. Placement'
  BY <1>5, <1>6 DEF Placement
<1> QED BY <1>3, <1>7

\* The facts at the next step, when this one does its part.
LEMMA Onward ==
  ASSUME NEW x \in Contexts, NEW n \in Names, NEW k \in 1 .. Size[n],
         Facts(x, n, k), InPlace(n, k, Code[n][k]),
         inIrq' = inIrq, fault' = fault, ready \subseteq ready',
         n = "boot" /\ k < 5 => enabled' = enabled,
         Inside(n, k + 1) => holder'["network"] = x,
         PollsNext(n, k + 1) => Fetched(x, ClockOf(n))',
         n = "boot" /\ k = 4 => holder'["pics"] # "main",
         n = "boot" /\ k = 9 => "heap" \in ready',
         n = "timer" /\ k = 1 => "network" \in ready,
         n = "panic" /\ k = 1 => holder'["serial"] # "main"
  PROVE  Facts(x, n, k + 1)'
<1>1. Size[n] \in Nat /\ k \in Nat
  BY Sizes
<1>2. n = "boot" => BootFacts(k + 1)'
  <2> SUFFICES ASSUME n = "boot" PROVE BootFacts(k + 1)'
    OBVIOUS
  <2>1. BootFacts(k)
    BY DEF Facts
  <2> QED BY <1>1, <2>1 DEF BootFacts
<1>3. n = "timer" /\ k + 1 \in 2 .. 8 => "network" \in ready'
  BY <1>1 DEF Facts
<1>4. x = "irq" /\ n = "panic" /\ k + 1 = 2 => holder'["serial"] # "main"
  BY <1>1
<1>5. /\ n \in IF x = "irq" THEN {"timer", "keyboard", "fault", "panic"}
               ELSE Names \ {"timer", "keyboard"}
      /\ n = "fault" => fault' # "none"
  BY DEF Facts
<1> QED BY <1>2, <1>3, <1>4, <1>5 DEF Facts
-----------------------------------------------------------------------------
(* Each action *)

\* Where a step leads that skips j others.
LEMMA Going ==
  ASSUME Coded, Shared, NEW x \in Contexts, x = Running,
         NEW n \in Names, NEW k \in 1 .. Size[n], NEW op, Stands(x, op, n, k),
         NEW j \in Nat, NEW m \in Nat, m = k + j + 1, k + j <= Size[n], Go(x, j)
  PROVE  /\ m \in 1 .. Size[n] + 1
         /\ code' = [code EXCEPT ![x] = Rest(Code[n], m)]
         /\ ~ inIrq => code'["irq"] = <<>>
<1>1. Size[n] \in Nat
  BY Sizes
<1>2. m \in 1 .. Size[n] + 1
  BY <1>1
<1>3. code' = [code EXCEPT ![x] = Rest(Code[n], m)]
  BY DEF Go, Stands
<1>4. ~ inIrq => code'["irq"] = <<>>
  BY <1>3 DEF Coded, Shared, Running, Contexts
<1> QED BY <1>2, <1>3, <1>4

LEMMA TakeKeeps ==
  ASSUME LocksInv, NEW x \in Contexts, Take(x),
         NEW n \in Names, NEW k \in 1 .. Size[n], Stands(x, "acquire", n, k)
  PROVE  LocksInv'
<1> DEFINE l == LockOf(x)
<1>1. /\ x = Running /\ holder[l] = "free"
      /\ holder' = [holder EXCEPT ![l] = x] /\ Go(x, 0)
      /\ UNCHANGED <<inIrq, panicked, fault, enabled, ready, stamp, ticks, pollTicks,
                     polls, reported>>
  BY DEF Take, At, Keep
<1>2. /\ Reached(x, n, k) /\ InPlace(n, k, Code[n][k])
      /\ Code[n][k].op = "acquire" /\ Code[n][k].lock = l /\ l \in Locks
  BY DEF Stands, LockOf, InPlace, Placed
<1> HIDE DEF l
<1>3. /\ k + 1 \in 1 .. Size[n] + 1 /\ code' = [code EXCEPT ![x] = Rest(Code[n], k + 1)]
      /\ ~ inIrq => code'["irq"] = <<>>
  BY <1>1, Sizes, Going DEF LocksInv
<1>4. holder'[l] = x /\ \A j \in Locks \ {l} : holder'[j] = holder[j]
  BY <1>1, <1>2 DEF LocksInv, Types, TypeOK
<1>5. Types'
  BY <1>1, <1>2 DEF LocksInv, Types, TypeOK
<1>6. Shared'
  <2>1. l = "pics" => ~ (inIrq /\ x = "main") /\ ~ (enabled /\ x = "main")
    BY <1>2, <1>1 DEF InPlace, Locked, Reached, Facts, BootFacts, Running
  <2>2. x = "main" => ~ inIrq
    BY <1>1 DEF Running
  <2>3. (inIrq' \/ enabled') => holder'["pics"] # "main"
    BY <1>1, <1>4, <2>1 DEF LocksInv, Shared, Locks, Contexts
  <2>4. inIrq' /\ fault' = "free" => holder'["serial"] # "main"
    BY <1>1, <1>4, <2>2 DEF LocksInv, Shared, Locks, Contexts
  <2> QED BY <1>1, <1>3, <2>3, <2>4 DEF LocksInv, Shared, Count
<1>7. Facts(x, n, k + 1)'
  <2>1. Inside(n, k + 1) => holder'["network"] = x
    BY <1>1, <1>2, <1>4 DEF InPlace, Before, Reached, Facts, Locks
  <2>2. ~ PollsNext(n, k + 1) /\ ~ (n = "boot" /\ k \in {4, 9})
        /\ ~ (n = "timer" /\ k = 1) /\ ~ (n = "panic" /\ k = 1)
    BY <1>2 DEF InPlace, Before
  <2> QED BY <1>1, <1>2, <2>1, <2>2, Onward DEF Reached
<1>8. Coded' /\ Placement'
  <2>1. \A y \in Contexts \ {x} : holder["network"] = y => holder'["network"] = y
    BY <1>1, <1>4 DEF Contexts, Locks
  <2>2. ticks' \in Nat /\ pollTicks' \in Nat /\ ticks <= ticks' /\ pollTicks <= pollTicks'
    BY <1>1 DEF LocksInv, Types, TypeOK
  <2> QED BY <1>1, <1>3, <1>7, <2>1, <2>2, Turn DEF LocksInv
<1> QED BY <1>5, <1>6, <1>8 DEF LocksInv

LEMMA DropKeeps ==
  ASSUME LocksInv, NEW x \in Contexts, Drop(x),
         NEW n \in Names, NEW k \in 1 .. Size[n], Stands(x, "release", n, k)
  PROVE  LocksInv'
<1> DEFINE l == LockOf(x)
<1>1. /\ x = Running
      /\ holder' = [holder EXCEPT ![l] = "free"] /\ Go(x, 0)
      /\ UNCHANGED <<inIrq, panicked, fault, enabled, ready, stamp, ticks, pollTicks,
                     polls, reported>>
  BY DEF Drop, At, Keep
<1>2. /\ Reached(x, n, k) /\ InPlace(n, k, Code[n][k])
      /\ Code[n][k].op = "release" /\ Code[n][k].lock = l /\ l \in Locks
  BY DEF Stands, LockOf, InPlace, Placed
<1> HIDE DEF l
<1>3. /\ k + 1 \in 1 .. Size[n] + 1 /\ code' = [code EXCEPT ![x] = Rest(Code[n], k + 1)]
      /\ ~ inIrq => code'["irq"] = <<>>
  BY <1>1, Sizes, Going DEF LocksInv
<1>4. holder'[l] = "free" /\ \A j \in Locks \ {l} : holder'[j] = holder[j]
  BY <1>1, <1>2 DEF LocksInv, Types, TypeOK
<1>5. Types'
  BY <1>1, <1>2 DEF LocksInv, Types, TypeOK
<1>6. Shared'
  <2>1. (inIrq' \/ enabled') => holder'["pics"] # "main"
    BY <1>1, <1>4 DEF LocksInv, Shared, Locks
  <2>2. inIrq' /\ fault' = "free" => holder'["serial"] # "main"
    BY <1>1, <1>4 DEF LocksInv, Shared, Locks
  <2> QED BY <1>1, <1>3, <2>1, <2>2 DEF LocksInv, Shared, Count
<1>7. Facts(x, n, k + 1)'
  <2>1. Inside(n, k + 1) => Inside(n, k) /\ l # "network"
    BY <1>2 DEF InPlace, Before, Locked, Inside
  <2>2. Inside(n, k + 1) => holder'["network"] = x
    BY <1>2, <1>4, <2>1 DEF Reached, Facts, Locks
  <2>3. ~ PollsNext(n, k + 1) /\ ~ (n = "boot" /\ k = 9)
        /\ ~ (n = "timer" /\ k = 1) /\ ~ (n = "panic" /\ k = 1)
    BY <1>2 DEF InPlace, Before
  <2>4. n = "boot" /\ k = 4 => holder'["pics"] # "main"
    BY <1>2, <1>4 DEF InPlace, Before
  <2> QED BY <1>1, <1>2, <2>2, <2>3, <2>4, Onward DEF Reached
<1>8. Coded' /\ Placement'
  <2>1. l = "network" => holder["network"] = x
    BY <1>2 DEF InPlace, Locked, Reached, Facts
  <2>2. \A y \in Contexts \ {x} : holder["network"] = y => holder'["network"] = y
    BY <1>4, <2>1 DEF Locks
  <2>3. ticks' \in Nat /\ pollTicks' \in Nat /\ ticks <= ticks' /\ pollTicks <= pollTicks'
    BY <1>1 DEF LocksInv, Types, TypeOK
  <2> QED BY <1>1, <1>3, <1>7, <2>2, <2>3, Turn DEF LocksInv
<1> QED BY <1>5, <1>6, <1>8 DEF LocksInv

LEMMA TryKeeps ==
  ASSUME LocksInv, NEW x \in Contexts, TryLock(x),
         NEW n \in Names, NEW k \in 1 .. Size[n], Stands(x, "try", n, k)
  PROVE  LocksInv'
<1>1. /\ x = Running /\ LockOf(x) = "network" /\ Head(code[x]).skip = 6
      /\ <<n, k>> \in {<<"serve", 1>>, <<"timer", 2>>}
      /\ Reached(x, n, k) /\ InPlace(n, k, Code[n][k])
      /\ UNCHANGED <<inIrq, panicked, fault, enabled, ready, stamp, ticks, pollTicks,
                     polls, reported>>
  BY DEF TryLock, At, Keep, Stands, LockOf, InPlace, Placed
<1>2. ticks' \in Nat /\ pollTicks' \in Nat /\ ticks <= ticks' /\ pollTicks <= pollTicks'
  BY <1>1 DEF LocksInv, Types, TypeOK
<1>3. CASE holder["network"] = "free"
  <2>1. holder' = [holder EXCEPT !["network"] = x] /\ Go(x, 0)
    BY <1>1, <1>3 DEF TryLock
  <2>2. holder'["network"] = x /\ \A j \in Locks \ {"network"} : holder'[j] = holder[j]
    BY <2>1 DEF LocksInv, Types, TypeOK, Locks
  <2>3. /\ k + 1 \in 1 .. Size[n] + 1 /\ code' = [code EXCEPT ![x] = Rest(Code[n], k + 1)]
        /\ ~ inIrq => code'["irq"] = <<>>
    BY <1>1, <2>1, Sizes, Going DEF LocksInv
  <2>4. Types'
    BY <1>1, <2>1 DEF LocksInv, Types, TypeOK, Locks
  <2>5. Shared'
    BY <1>1, <2>2, <2>3 DEF LocksInv, Shared, Count, Locks
  <2>6. Facts(x, n, k + 1)'
    <3>1. /\ ~ PollsNext(n, k + 1) /\ n # "boot" /\ n # "panic"
          /\ ~ (n = "timer" /\ k = 1)
      BY <1>1 DEF PollsNext
    <3> QED BY <1>1, <2>2, <3>1, Onward DEF Reached
  <2>7. \A y \in Contexts \ {x} : holder["network"] # y
    BY <1>3 DEF Contexts
  <2>8. Coded' /\ Placement'
    BY <1>1, <1>2, <2>3, <2>6, <2>7, Turn DEF LocksInv
  <2> QED BY <2>4, <2>5, <2>8 DEF LocksInv
<1>4. CASE holder["network"] # "free"
  <2>1. holder' = holder /\ Go(x, 6)
    BY <1>1, <1>4 DEF TryLock
  <2> DEFINE m == k + 7
  <2>2. m \in Nat /\ m = k + 6 + 1 /\ k + 6 <= Size[n] /\ m \in {8, 9}
    BY <1>1 DEF Size
  <2>3. <<n, m>> \in {<<"serve", 8>>, <<"timer", 9>>}
    BY <1>1
  <2> HIDE DEF m
  <2>4. /\ m \in 1 .. Size[n] + 1 /\ code' = [code EXCEPT ![x] = Rest(Code[n], m)]
        /\ ~ inIrq => code'["irq"] = <<>>
    BY <1>1, <2>1, <2>2, Going DEF LocksInv
  <2>5. Types' /\ Shared'
    BY <1>1, <2>1, <2>4 DEF LocksInv, Types, TypeOK, Shared, Count
  <2>6. Facts(x, n, m)'
    BY <1>1, <2>3 DEF Reached, Facts, Inside, PollsNext
  <2>7. Coded' /\ Placement'
    BY <1>1, <1>2, <2>1, <2>4, <2>6, Turn DEF LocksInv
  <2> QED BY <2>5, <2>7 DEF LocksInv
<1> QED BY <1>3, <1>4

LEMMA BranchKeeps ==
  ASSUME LocksInv, NEW x \in Contexts, Branch(x), NEW op \in {"get", "frame"},
         NEW n \in Names, NEW k \in 1 .. Size[n], Stands(x, op, n, k)
  PROVE  LocksInv'
<1>1. /\ x = Running
      /\ Reached(x, n, k) /\ InPlace(n, k, Code[n][k])
      /\ UNCHANGED <<inIrq, panicked, fault, enabled, holder, ready, stamp, ticks,
                     pollTicks, polls, reported>>
  BY DEF Branch, At, Keep, Stands
<1>2. ticks' \in Nat /\ pollTicks' \in Nat /\ ticks <= ticks' /\ pollTicks <= pollTicks'
  BY <1>1 DEF LocksInv, Types, TypeOK
<1>3. /\ Head(code[x]) = Code[n][k] /\ Code[n][k].op = op
  BY DEF Stands
<1>4. PICK j \in {0, 2, 7} :
        /\ Go(x, j)
        /\ j = 0 /\ n = "timer" /\ k = 1 => "network" \in ready
        /\ j = 2 => <<n, k>> \in {<<"serve", 4>>, <<"timer", 5>>,
                                  <<"https", 6>>, <<"https", 11>>}
        /\ j = 7 => n = "timer" /\ k = 1
  <2>1. CASE op = "get"
    <3>1. LockOf(x) = "network" /\ Head(code[x]).skip = 7 /\ n = "timer" /\ k = 1
      BY <1>1, <1>3, <2>1 DEF InPlace, Placed, LockOf
    <3>2. Go(x, IF "network" \in ready THEN 0 ELSE 7)
      BY <1>3, <2>1, <3>1 DEF Branch, At
    <3> QED BY <3>1, <3>2
  <2>2. CASE op = "frame"
    <3>1. /\ Head(code[x]).skip = 2
          /\ <<n, k>> \in {<<"serve", 4>>, <<"timer", 5>>, <<"https", 6>>, <<"https", 11>>}
      BY <1>1, <1>3, <2>2 DEF InPlace, Placed
    <3>2. \E j \in {0, 2} : Go(x, j)
      BY <1>3, <2>2, <3>1 DEF Branch, At
    <3> QED BY <3>1, <3>2
  <2> QED BY <2>1, <2>2
<1> DEFINE m == k + j + 1
<1>5. m \in Nat /\ m = k + j + 1 /\ k + j <= Size[n] /\ k \in Nat
  BY <1>4, Sizes DEF Size
<1>6. /\ m \in 1 .. Size[n] + 1 /\ code' = [code EXCEPT ![x] = Rest(Code[n], m)]
      /\ ~ inIrq => code'["irq"] = <<>>
  BY <1>1, <1>4, <1>5, Going DEF LocksInv
<1>7. Facts(x, n, m)'
  <2>1. CASE j = 0
    <3>1. m = k + 1
      BY <2>1, <1>5
    <3>2. /\ ~ (n = "boot" /\ k \in {4, 9}) /\ ~ (n = "panic" /\ k = 1)
          /\ ~ PollsNext(n, k + 1) /\ (Inside(n, k + 1) => Inside(n, k))
      BY <1>1, <1>3 DEF InPlace, Before
    <3>3. Facts(x, n, k + 1)'
      BY <1>1, <1>4, <2>1, <3>2, Onward DEF Reached, Facts
    <3> QED BY <3>1, <3>3
  <2>2. CASE j = 2
    <3>1. <<n, m>> \in {<<"serve", 7>>, <<"timer", 8>>, <<"https", 9>>, <<"https", 14>>}
      BY <2>2, <1>4
    <3>2. Inside(n, k) /\ ~ PollsNext(n, m) /\ (n = "timer" => k \in 2 .. 8)
      BY <2>2, <1>4 DEF Inside, PollsNext
    <3> HIDE DEF m
    <3> QED BY <1>1, <3>1, <3>2 DEF Reached, Facts
  <2>3. CASE j = 7
    <3>1. n = "timer" /\ m = 9
      BY <2>3, <1>4
    <3> HIDE DEF m
    <3> QED BY <1>1, <3>1 DEF Reached, Facts, Inside, PollsNext
  <2> QED BY <2>1, <2>2, <2>3
<1> HIDE DEF m
<1>8. Types' /\ Shared'
  BY <1>1, <1>6 DEF LocksInv, Types, TypeOK, Shared, Count
<1>9. Coded' /\ Placement'
  BY <1>1, <1>2, <1>6, <1>7, Turn DEF LocksInv
<1> QED BY <1>8, <1>9 DEF LocksInv

LEMMA FetchKeeps ==
  ASSUME LocksInv, NEW x \in Contexts, FetchTime(x), NEW op \in {"tick", "ownTick"}, At(x, op),
         NEW n \in Names, NEW k \in 1 .. Size[n], Stands(x, op, n, k)
  PROVE  LocksInv'
<1>1. /\ x = Running /\ Go(x, 0)
      /\ Reached(x, n, k) /\ InPlace(n, k, Code[n][k]) /\ Code[n][k].op = op
      /\ UNCHANGED <<inIrq, panicked, fault, enabled, holder, ready, polls, reported>>
  BY DEF FetchTime, At, Keep, Stands
<1> DEFINE c == ClockOf(n)
<1>2. /\ <<n, k>> \in {<<"serve", 2>>, <<"timer", 3>>, <<"https", 4>>, <<"https", 9>>}
      /\ op = "tick" => c = "net"
      /\ op = "ownTick" => c = "own"
  BY <1>1 DEF InPlace, Placed, ClockOf
<1>3. /\ stamp' = [stamp EXCEPT ![x] = <<c, Count(c)>>]
      /\ Count(c)' = Count(c) + 1
      /\ \A d \in Clocks \ {c} : Count(d)' = Count(d)
      /\ Count(c) < MaxTicks
  <2>1. CASE op = "tick"
    <3>1. ticks < MaxTicks /\ ticks' = ticks + 1 /\ UNCHANGED pollTicks
          /\ stamp' = [stamp EXCEPT ![x] = <<"net", ticks>>]
      BY <2>1 DEF FetchTime, At
    <3> QED BY <2>1, <3>1, <1>2 DEF Count, Clocks
  <2>2. CASE op = "ownTick"
    <3>1. pollTicks < MaxTicks /\ pollTicks' = pollTicks + 1 /\ UNCHANGED ticks
          /\ stamp' = [stamp EXCEPT ![x] = <<"own", pollTicks>>]
      BY <2>2 DEF FetchTime, At
    <3> QED BY <2>2, <3>1, <1>2 DEF Count, Clocks
  <2> QED BY <2>1, <2>2
<1>4. /\ ticks' \in Nat /\ pollTicks' \in Nat /\ ticks <= ticks' /\ pollTicks <= pollTicks'
      /\ ticks' \in 0 .. MaxTicks /\ pollTicks' \in 0 .. MaxTicks
  <2>1. ticks \in 0 .. MaxTicks /\ pollTicks \in 0 .. MaxTicks /\ MaxTicks \in Nat
    BY LocksAssumption DEF LocksInv, Types, TypeOK
  <2>2. /\ ticks' = ticks \/ (ticks < MaxTicks /\ ticks' = ticks + 1)
        /\ pollTicks' = pollTicks \/ (pollTicks < MaxTicks /\ pollTicks' = pollTicks + 1)
    BY DEF FetchTime
  <2> QED BY <2>1, <2>2
<1>5. c \in Clocks /\ Count(c) \in Nat
  BY DEF ClockOf, Clocks, Count, LocksInv, Types, TypeOK
<1> HIDE DEF c
<1>6. /\ k + 1 \in 1 .. Size[n] + 1 /\ code' = [code EXCEPT ![x] = Rest(Code[n], k + 1)]
      /\ ~ inIrq => code'["irq"] = <<>>
  BY <1>1, Sizes, Going DEF LocksInv
<1>7. Types'
  <2>1. stamp' \in [Contexts -> Clocks \X Nat]
    BY <1>3, <1>5 DEF LocksInv, Types
  <2> QED BY <1>1, <1>4, <2>1 DEF LocksInv, Types, TypeOK
<1>8. Shared'
  <2>1. ASSUME NEW d \in Clocks PROVE polls'[d][1] <= polls'[d][2] /\ polls'[d][2] <= Count(d)'
    <3>1. /\ polls[d][1] <= polls[d][2] /\ polls[d][2] <= Count(d) /\ polls[d][2] \in Nat
          /\ Count(d) \in Nat
      BY DEF LocksInv, Types, TypeOK, Shared, Count
    <3>2. Count(d)' = Count(d) \/ Count(d)' = Count(d) + 1
      BY <1>3
    <3> QED BY <1>1, <3>1, <3>2
  <2> QED BY <1>1, <1>6, <2>1 DEF LocksInv, Shared
<1>9. Facts(x, n, k + 1)'
  <2>1. Fetched(x, c)'
    <3>1. stamp'[x] = <<c, Count(c)>>
      BY <1>3 DEF LocksInv, Types
    <3>2. polls[c][2] <= Count(c)
      BY <1>5 DEF LocksInv, Shared
    <3> QED BY <1>1, <1>3, <1>5, <3>1, <3>2 DEF Fetched
  <2>2. Inside(n, k) /\ n # "boot" /\ n # "panic" /\ ~ (n = "timer" /\ k = 1)
    BY <1>2 DEF Inside
  <2>3. holder'["network"] = x
    BY <1>1, <2>2 DEF Reached, Facts
  <2> QED BY <1>1, <2>1, <2>2, <2>3, Onward DEF Reached, c
<1>10. Coded' /\ Placement'
  <2>1. \A y \in Contexts \ {x} : stamp'[y] = stamp[y]
    BY <1>3 DEF LocksInv, Types
  <2> QED BY <1>1, <1>4, <1>6, <1>9, <2>1, Turn DEF LocksInv
<1> QED BY <1>7, <1>8, <1>10 DEF LocksInv

LEMMA PollKeeps ==
  ASSUME LocksInv, NEW x \in Contexts, PollStack(x),
         NEW n \in Names, NEW k \in 1 .. Size[n], Stands(x, "poll", n, k)
  PROVE  LocksInv'
<1>1. /\ x = Running /\ Go(x, 0)
      /\ Reached(x, n, k) /\ InPlace(n, k, Code[n][k]) /\ Code[n][k].op = "poll"
      /\ polls' = [polls EXCEPT ![stamp[x][1]] = <<polls[stamp[x][1]][2], stamp[x][2]>>]
      /\ UNCHANGED <<inIrq, panicked, fault, enabled, holder, ready, stamp, ticks,
                     pollTicks, reported>>
  BY DEF PollStack, At, Keep, Stands
<1> DEFINE c == ClockOf(n)
<1>2. PollsNext(n, k) /\ Inside(n, k) /\ n \in {"serve", "timer", "https"} /\ ~ PollsNext(n, k + 1)
      /\ ~ (n = "timer" /\ k = 1)
  BY <1>1 DEF InPlace, Placed, PollsNext, Inside
<1>3. Fetched(x, c) /\ holder["network"] = x
  BY <1>1, <1>2 DEF Reached, Facts
<1>4. /\ c \in Clocks /\ Count(c) \in Nat /\ stamp[x][2] \in Nat
      /\ polls \in [Clocks -> Nat \X Nat] /\ polls[c][2] \in Nat
  BY DEF ClockOf, Clocks, Count, LocksInv, Types, TypeOK
<1> HIDE DEF c
<1>5. polls' = [polls EXCEPT ![c] = <<polls[c][2], stamp[x][2]>>]
  BY <1>1, <1>3 DEF Fetched
<1>6. ticks' \in Nat /\ pollTicks' \in Nat /\ ticks <= ticks' /\ pollTicks <= pollTicks'
  BY <1>1 DEF LocksInv, Types, TypeOK
<1>7. /\ k + 1 \in 1 .. Size[n] + 1 /\ code' = [code EXCEPT ![x] = Rest(Code[n], k + 1)]
      /\ ~ inIrq => code'["irq"] = <<>>
  BY <1>1, Sizes, Going DEF LocksInv
<1>8. Types'
  <2>1. polls' \in [Clocks -> Nat \X Nat]
    BY <1>4, <1>5
  <2> QED BY <1>1, <2>1 DEF LocksInv, Types, TypeOK
<1>9. Shared'
  <2>1. ASSUME NEW d \in Clocks PROVE polls'[d][1] <= polls'[d][2] /\ polls'[d][2] <= Count(d)'
    <3>1. Count(d)' = Count(d)
      BY <1>1 DEF Count
    <3>2. CASE d = c
      <4>1. polls'[d] = <<polls[c][2], stamp[x][2]>>
        BY <1>4, <1>5, <3>2
      <4> QED BY <1>3, <1>4, <3>1, <3>2, <4>1 DEF Fetched
    <3>3. CASE d # c
      <4>1. polls'[d] = polls[d]
        BY <1>4, <1>5, <3>3
      <4> QED BY <3>1, <4>1 DEF LocksInv, Shared
    <3> QED BY <3>2, <3>3
  <2> QED BY <1>1, <1>7, <2>1 DEF LocksInv, Shared
<1>10. Facts(x, n, k + 1)'
  BY <1>1, <1>2, <1>3, Onward DEF Reached
<1>11. Coded' /\ Placement'
  BY <1>1, <1>3, <1>6, <1>7, <1>10, Turn DEF LocksInv
<1> QED BY <1>8, <1>9, <1>11 DEF LocksInv

LEMMA InitialiseKeeps ==
  ASSUME LocksInv, NEW x \in Contexts, Initialise(x),
         NEW op \in {"sti", "heapReady", "networkReady"}, At(x, op),
         NEW n \in Names, NEW k \in 1 .. Size[n], Stands(x, op, n, k)
  PROVE  LocksInv'
<1>1. /\ x = Running /\ Go(x, 0)
      /\ Reached(x, n, k) /\ InPlace(n, k, Code[n][k]) /\ Code[n][k].op = op
      /\ UNCHANGED <<inIrq, panicked, fault, holder, stamp, ticks, pollTicks, polls, reported>>
  BY DEF Initialise, At, Keep, Stands
<1>2. /\ n = "boot" /\ x = "main"
      /\ op = "sti" => k = 5
      /\ op = "heapReady" => k = 9
      /\ op = "networkReady" => k = 17
  BY <1>1 DEF InPlace, Placed, Reached, Facts, Contexts
<1>3. /\ op = "sti" => enabled' = TRUE /\ ready' = ready
      /\ op = "heapReady" => ready' = ready \cup {"heap"} /\ enabled' = enabled
      /\ op = "networkReady" => ready' = ready \cup {"network"} /\ enabled' = enabled
  BY DEF Initialise, At
<1>4. /\ op = "sti" => fault = "none" /\ holder["pics"] # "main"
      /\ op = "networkReady" => "heap" \in ready
  BY <1>1, <1>2 DEF Reached, Facts, BootFacts
<1>5. ticks' \in Nat /\ pollTicks' \in Nat /\ ticks <= ticks' /\ pollTicks <= pollTicks'
  BY <1>1 DEF LocksInv, Types, TypeOK
<1>6. /\ k + 1 \in 1 .. Size[n] + 1 /\ code' = [code EXCEPT ![x] = Rest(Code[n], k + 1)]
      /\ ~ inIrq => code'["irq"] = <<>>
  BY <1>1, Sizes, Going DEF LocksInv
<1>7. Types'
  BY <1>1, <1>3 DEF LocksInv, Types, TypeOK
<1>8. Shared'
  BY <1>1, <1>3, <1>4, <1>6 DEF LocksInv, Shared, Count
<1>9. Facts(x, n, k + 1)'
  <2>1. ~ PollsNext(n, k + 1) /\ ~ Inside(n, k + 1) /\ ~ (k = 4)
    BY <1>1, <1>2 DEF PollsNext, Inside
  <2>2. (k = 9 => "heap" \in ready') /\ (k < 5 => enabled' = enabled)
    BY <1>2, <1>3
  <2> QED BY <1>1, <1>2, <1>3, <2>1, <2>2, Onward DEF Reached
<1>10. Coded' /\ Placement'
  BY <1>1, <1>3, <1>5, <1>6, <1>9, Turn DEF LocksInv
<1> QED BY <1>7, <1>8, <1>10 DEF LocksInv

LEMMA ReportKeeps ==
  ASSUME LocksInv, NEW x \in Contexts, Report(x),
         NEW op \in {"forceSerial", "report"}, At(x, op),
         NEW n \in Names, NEW k \in 1 .. Size[n], Stands(x, op, n, k)
  PROVE  LocksInv'
<1>1. /\ x = Running /\ Go(x, 0)
      /\ Reached(x, n, k) /\ InPlace(n, k, Code[n][k]) /\ Code[n][k].op = op
      /\ UNCHANGED <<inIrq, panicked, fault, enabled, ready, stamp, ticks, pollTicks, polls>>
  BY DEF Report, At, Keep, Stands
<1>2. /\ op = "forceSerial" => holder' = [holder EXCEPT !["serial"] = "free"]
                               /\ reported' = reported
      /\ op = "report" => holder' = holder /\ reported' = TRUE
  BY DEF Report, At
<1>3. /\ holder'["serial"] \in {holder["serial"], "free"}
      /\ op = "forceSerial" => holder'["serial"] = "free"
      /\ \A l \in Locks \ {"serial"} : holder'[l] = holder[l]
  BY <1>2 DEF LocksInv, Types, TypeOK, Locks
<1>4. ticks' \in Nat /\ pollTicks' \in Nat /\ ticks <= ticks' /\ pollTicks <= pollTicks'
  BY <1>1 DEF LocksInv, Types, TypeOK
<1>5. /\ k + 1 \in 1 .. Size[n] + 1 /\ code' = [code EXCEPT ![x] = Rest(Code[n], k + 1)]
      /\ ~ inIrq => code'["irq"] = <<>>
  BY <1>1, Sizes, Going DEF LocksInv
<1>6. Types'
  BY <1>1, <1>2 DEF LocksInv, Types, TypeOK, Locks
<1>7. Shared'
  BY <1>1, <1>3, <1>5 DEF LocksInv, Shared, Count, Locks
<1>8. Facts(x, n, k + 1)'
  <2>1. /\ ~ PollsNext(n, k + 1) /\ ~ (n = "boot" /\ k \in {4, 9})
        /\ ~ (n = "timer" /\ k = 1) /\ (Inside(n, k + 1) => Inside(n, k))
    BY <1>1 DEF InPlace, Before
  <2>2. n = "panic" /\ k = 1 => holder'["serial"] # "main"
    BY <1>1, <1>3 DEF InPlace, Before
  <2>3. Inside(n, k + 1) => holder'["network"] = x
    BY <1>1, <1>3, <2>1 DEF Reached, Facts, Locks
  <2> QED BY <1>1, <2>1, <2>2, <2>3, Onward DEF Reached
<1>9. Coded' /\ Placement'
  <2>1. \A y \in Contexts \ {x} : holder["network"] = y => holder'["network"] = y
    BY <1>3 DEF Locks
  <2> QED BY <1>1, <1>4, <1>5, <1>8, <2>1, Turn DEF LocksInv
<1> QED BY <1>6, <1>7, <1>9 DEF LocksInv

LEMMA StepKeeps ==
  ASSUME LocksInv, NEW x \in Contexts, CpuStep(x)
  PROVE  LocksInv'
<1>1. Placement
  BY DEF LocksInv
<1>2. CASE Take(x)
  <2>1. At(x, "acquire")
    BY <1>2 DEF Take
  <2> QED BY <1>1, <1>2, <2>1, Standing, TakeKeeps
<1>3. CASE Drop(x)
  <2>1. At(x, "release")
    BY <1>3 DEF Drop
  <2> QED BY <1>1, <1>3, <2>1, Standing, DropKeeps
<1>4. CASE TryLock(x)
  <2>1. At(x, "try")
    BY <1>4 DEF TryLock
  <2> QED BY <1>1, <1>4, <2>1, Standing, TryKeeps
<1>5. CASE Branch(x)
  <2>1. PICK op \in {"get", "frame"} : At(x, op)
    BY <1>5 DEF Branch
  <2> QED BY <1>1, <1>5, <2>1, Standing, BranchKeeps
<1>6. CASE FetchTime(x)
  <2>1. PICK op \in {"tick", "ownTick"} : At(x, op)
    BY <1>6 DEF FetchTime
  <2> QED BY <1>1, <1>6, <2>1, Standing, FetchKeeps
<1>7. CASE PollStack(x)
  <2>1. At(x, "poll")
    BY <1>7 DEF PollStack
  <2> QED BY <1>1, <1>7, <2>1, Standing, PollKeeps
<1>8. CASE Initialise(x)
  <2>1. PICK op \in {"sti", "heapReady", "networkReady"} : At(x, op)
    BY <1>8 DEF Initialise
  <2> QED BY <1>1, <1>8, <2>1, Standing, InitialiseKeeps
<1>9. CASE Report(x)
  <2>1. PICK op \in {"forceSerial", "report"} : At(x, op)
    BY <1>9 DEF Report
  <2> QED BY <1>1, <1>9, <2>1, Standing, ReportKeeps
<1> QED BY <1>2, <1>3, <1>4, <1>5, <1>6, <1>7, <1>8, <1>9 DEF CpuStep

\* The running context starts another program.
LEMMA Starting ==
  ASSUME LocksInv, NEW x \in Contexts, x = Running, NEW n \in Names,
         code' = [code EXCEPT ![x] = Code[n]], Facts(x, n, 1)',
         inIrq' = inIrq, fault # "none" => fault' # "none",
         UNCHANGED <<holder, ready, stamp, ticks, pollTicks, polls>>
  PROVE  Coded' /\ Placement' /\ (~ inIrq => code'["irq"] = <<>>)
<1>1. Size[n] \in Nat /\ Code[n] = Rest(Code[n], 1)
  BY Sizes, WholeAndNothing
<1>2. ticks' \in Nat /\ pollTicks' \in Nat /\ ticks <= ticks' /\ pollTicks <= pollTicks'
  BY DEF LocksInv, Types, TypeOK
<1>3. 1 \in 1 .. Size[n] + 1 /\ code' = [code EXCEPT ![x] = Rest(Code[n], 1)]
  <2>1. 1 \in 1 .. Size[n] + 1
    BY <1>1
  <2> DEFINE rest == Rest(Code[n], 1)
  <2>2. Code[n] = rest
    BY <1>1
  <2> HIDE DEF rest
  <2>3. code' = [code EXCEPT ![x] = rest]
    BY <2>2
  <2> QED BY <2>1, <2>3 DEF rest
<1>4. Coded' /\ Placement'
  <2>1. \A y \in Contexts \ {x} :
           /\ stamp'[y] = stamp[y]
           /\ holder["network"] = y => holder'["network"] = y /\ polls' = polls
    OBVIOUS
  <2> QED BY <1>2, <1>3, <2>1, Turn DEF LocksInv
<1>5. ~ inIrq => code'["irq"] = <<>>
  BY DEF LocksInv, Coded, Shared, Running, Contexts
<1> QED BY <1>4, <1>5

LEMMA PanicKeeps ==
  ASSUME LocksInv, NEW x \in Contexts, Panic(x)
  PROVE  LocksInv'
<1>1. /\ x = Running /\ code' = [code EXCEPT ![x] = Code["panic"]] /\ "panic" \in Names
      /\ UNCHANGED <<inIrq, enabled, holder, ready, stamp, ticks, pollTicks, polls,
                     reported, fault>> /\ panicked' = TRUE
  BY DEF Panic, Code, Names
<1>2. Facts(x, "panic", 1)'
  BY DEF Facts, Inside, PollsNext, Names
<1>3. Coded' /\ Placement' /\ (~ inIrq => code'["irq"] = <<>>)
  BY <1>1, <1>2, Starting
<1> QED BY <1>1, <1>3 DEF LocksInv, Types, TypeOK, Shared, Count

LEMMA FaultKeeps ==
  ASSUME LocksInv, NEW x \in Contexts, CpuException(x)
  PROVE  LocksInv'
<1>1. /\ x = Running /\ code' = [code EXCEPT ![x] = Code["fault"]] /\ "fault" \in Names
      /\ fault = "none" /\ enabled' = FALSE
      /\ fault' = IF holder["serial"] = "free" THEN "free" ELSE "held"
      /\ UNCHANGED <<inIrq, holder, ready, stamp, ticks, pollTicks, polls, panicked, reported>>
  BY DEF CpuException, Code, Names
<1>2. Facts(x, "fault", 1)'
  BY <1>1 DEF Facts, Inside, PollsNext, Names
<1>3. Coded' /\ Placement' /\ (~ inIrq => code'["irq"] = <<>>)
  BY <1>1, <1>2, Starting
<1> QED BY <1>1, <1>3 DEF LocksInv, Types, TypeOK, Shared, Count

LEMMA StartOpKeeps ==
  ASSUME LocksInv, StartOp
  PROVE  LocksInv'
<1>1. PICK op \in Ops : code' = [code EXCEPT !["main"] = Program[op]]
  BY DEF StartOp
<1>2. /\ Running = "main" /\ "main" \in Contexts
      /\ UNCHANGED <<inIrq, panicked, fault, enabled, holder, ready, stamp, ticks,
                     pollTicks, polls, reported>>
  BY DEF StartOp, Keep, Contexts
<1>3. op \in {"print", "alloc", "serve", "https"} /\ op \in Names
  BY LocksAssumption DEF Names
<1>4. Program[op] = Code[op]
  BY <1>3 DEF Program, Code
<1>5. Facts("main", op, 1)'
  BY <1>3 DEF Facts, Inside, PollsNext, Names
<1>6. Coded' /\ Placement' /\ (~ inIrq => code'["irq"] = <<>>)
  BY <1>1, <1>2, <1>3, <1>4, <1>5, Starting
<1> QED BY <1>2, <1>6 DEF LocksInv, Types, TypeOK, Shared, Count

LEMMA InterruptKeeps ==
  ASSUME LocksInv, TimerInterrupt \/ KeyboardInterrupt
  PROVE  LocksInv'
<1>1. /\ ~ inIrq /\ enabled /\ inIrq' = TRUE
      /\ UNCHANGED <<enabled, holder, ready, stamp, ticks, pollTicks, polls,
                     panicked, reported, fault>>
  BY DEF TimerInterrupt, KeyboardInterrupt
<1>2. PICK n \in {"timer", "keyboard"} : code' = [code EXCEPT !["irq"] = Code[n]]
  BY DEF TimerInterrupt, KeyboardInterrupt, Code
<1>3. /\ n \in Names /\ Size[n] \in Nat /\ Code[n] \in Seq(Steps)
      /\ Code[n] = Rest(Code[n], 1) /\ 1 \in 1 .. Size[n] + 1
  <2>1. n \in Names
    BY DEF Names
  <2>2. Size[n] \in Nat /\ Has(Code[n], Size[n])
    BY <2>1, Sizes
  <2>3. Code[n] = Rest(Code[n], 1)
    BY <2>2, WholeAndNothing
  <2> QED BY <2>1, <2>2, <2>3 DEF Has
<1>4. Coded' /\ code'["irq"] = Code[n] /\ code'["main"] = code["main"]
  BY <1>2, <1>3 DEF LocksInv, Coded, Contexts
<1>5. Facts("irq", n, 1)'
  BY DEF Facts, Inside, PollsNext
<1>6. Reached("irq", n, 1)'
  BY <1>3, <1>4, <1>5 DEF Reached
<1>7. PICK h \in Names : \E k \in 1 .. Size[h] + 1 : Reached("main", h, k)
  BY DEF LocksInv, Placement, Contexts
<1>8. PICK k \in 1 .. Size[h] + 1 : Reached("main", h, k)
  BY <1>7
<1>9. Facts("main", h, k)'
  BY <1>1, <1>8 DEF Reached, Facts, BootFacts, Fetched, Count
<1>10. Reached("main", h, k)'
  BY <1>4, <1>8, <1>9 DEF Reached
<1>11. Placement'
  BY <1>3, <1>6, <1>10 DEF Placement, Contexts
<1>12. Types' /\ Shared'
  <2>1. fault = "none"
    BY <1>1 DEF LocksInv, Shared
  <2> QED BY <1>1, <2>1 DEF LocksInv, Types, TypeOK, Shared, Count
<1> QED BY <1>4, <1>11, <1>12 DEF LocksInv

LEMMA ReturnKeeps ==
  ASSUME LocksInv, ReturnFromInterrupt
  PROVE  LocksInv'
<1>1. /\ code["irq"] = <<>> /\ inIrq' = FALSE
      /\ UNCHANGED <<code, enabled, holder, ready, stamp, ticks, pollTicks, polls,
                     panicked, reported, fault>>
  BY DEF ReturnFromInterrupt
<1>2. ASSUME NEW x \in Contexts, NEW n \in Names, NEW k \in 1 .. Size[n] + 1, Reached(x, n, k)
      PROVE  Reached(x, n, k)'
  BY <1>1, <1>2 DEF Reached, Facts, BootFacts, Fetched, Count
<1>3. Placement'
  BY <1>2 DEF LocksInv, Placement
<1> QED BY <1>1, <1>3 DEF LocksInv, Coded, Types, TypeOK, Shared, Count

LEMMA StutterKeeps == LocksInv /\ UNCHANGED vars => LocksInv'
BY DEF LocksInv, vars, Coded, Types, TypeOK, Shared, Placement, Reached, Facts, BootFacts,
   Fetched, Count

LEMMA LocksInit == Init => LocksInv
<1> SUFFICES ASSUME Init PROVE LocksInv
  OBVIOUS
<1>1. /\ code["main"] = KernelMain /\ code["irq"] = <<>>
      /\ code = [x \in Contexts |-> IF x = "main" THEN KernelMain ELSE <<>>]
  BY DEF Init, Contexts
<1>2. Has(KernelMain, 29) /\ Has(Code["keyboard"], 2) /\ Code["boot"] = KernelMain
  BY KernelMainIs, SmallOnes DEF Code
<1>3. Rest(Code["boot"], 1) = KernelMain /\ Rest(Code["keyboard"], 3) = <<>>
  <2>1. Rest(Code["keyboard"], 2 + 1) = <<>>
    BY <1>2, WholeAndNothing
  <2> QED BY <1>2, <2>1, WholeAndNothing
<1>4. Coded
  BY <1>1, <1>2 DEF Coded, Has
<1>5. Types /\ Shared
  <2>1. 0 \in 0 .. MaxTicks
    BY LocksAssumption
  <2>2. \A l \in Locks : holder[l] = "free"
    BY DEF Init
  <2>3. \A c \in Clocks : polls[c][1] = 0 /\ polls[c][2] = 0 /\ Count(c) = 0
    BY DEF Init, Count
  <2>4. Types
    BY <2>1 DEF Init, Types, TypeOK, Locks, Contexts, Clocks
  <2>5. Shared
    BY <1>1, <2>2, <2>3 DEF Init, Shared, Locks
  <2> QED BY <2>4, <2>5
<1>6. Reached("main", "boot", 1)
  BY <1>1, <1>3 DEF Init, Reached, Names, Size, Facts, Inside, PollsNext, BootFacts
<1>7. Reached("irq", "keyboard", 3)
  BY <1>1, <1>3 DEF Init, Reached, Names, Size, Facts, Inside, PollsNext, BootFacts
<1>8. Placement
  BY <1>6, <1>7 DEF Placement, Contexts, Names, Size
<1> QED BY <1>4, <1>5, <1>8 DEF LocksInv

LEMMA LocksInductive == Spec => []LocksInv
<1>1. LocksInv /\ [Next]_vars => LocksInv'
  <2> SUFFICES ASSUME LocksInv, [Next]_vars PROVE LocksInv'
    OBVIOUS
  <2>1. CASE \E x \in Contexts : CpuStep(x) \/ Panic(x) \/ CpuException(x)
    BY <2>1, StepKeeps, PanicKeeps, FaultKeeps
  <2>2. CASE StartOp
    BY <2>2, StartOpKeeps
  <2>3. CASE TimerInterrupt \/ KeyboardInterrupt
    BY <2>3, InterruptKeeps
  <2>4. CASE ReturnFromInterrupt
    BY <2>4, ReturnKeeps
  <2>5. CASE UNCHANGED vars
    BY <2>5, StutterKeeps
  <2> QED BY <2>1, <2>2, <2>3, <2>4, <2>5 DEF Next
<1> QED BY <1>1, LocksInit, PTL DEF Spec
-----------------------------------------------------------------------------
(* Theorems *)

\* For every choice of operations and any number of ticks, an interrupt handler
\* waits for no lock of the thread it interrupted but the heap's, and uses the
\* heap only once it is there (mod.rs:138, interrupts.rs:42 and 56-83).
THEOREM HandlersGoOn == Spec => []HandlerGoesOn
<1>1. ASSUME LocksInv PROVE HandlerGoesOn
  <2>1. ASSUME NEW l \in Locks, Wants("irq", l)
        PROVE  /\ l # "network"
               /\ l = "heap" => "heap" \in ready
               /\ l = "pics" => holder["pics"] # "main"
               /\ l = "serial" /\ fault # "held" => holder["serial"] # "main"
    <3>1. At("irq", "acquire") /\ LockOf("irq") = l /\ "irq" \in Contexts /\ inIrq
      BY <2>1 DEF Wants, At, Contexts, Running
    <3>2. PICK n \in Names : \E k \in 1 .. Size[n] : Stands("irq", "acquire", n, k)
      BY <1>1, <3>1, Standing DEF LocksInv
    <3>3. PICK k \in 1 .. Size[n] : Stands("irq", "acquire", n, k)
      BY <3>2
    <3>4. /\ Facts("irq", n, k) /\ Locked(n, k, Code[n][k])
          /\ Code[n][k].op = "acquire" /\ Code[n][k].lock = l
      BY <3>1, <3>3 DEF Stands, Reached, InPlace, LockOf
    <3>5. n \in {"timer", "keyboard", "fault", "panic"}
      BY <3>4 DEF Facts
    <3>6. l # "network"
      BY <3>4, <3>5 DEF Locked
    <3>7. l = "heap" => "heap" \in ready
      BY <1>1, <3>4, <3>5 DEF Locked, Facts, LocksInv, Shared
    <3>8. l = "pics" => holder["pics"] # "main"
      BY <1>1, <3>1 DEF LocksInv, Shared
    <3>9. l = "serial" /\ fault # "held" => holder["serial"] # "main"
      BY <1>1, <3>1, <3>4, <3>5 DEF Locked, Facts, LocksInv, Shared, Types
    <3> QED BY <3>6, <3>7, <3>8, <3>9
  <2> QED BY <2>1 DEF HandlerGoesOn, Locks
<1> QED BY <1>1, LocksInductive, PTL

\* For any interleaving of thread and interrupts, smoltcp never sees either
\* counter run backwards (mod.rs:27, 94-97 and 138-140; tls.rs:105-110).
THEOREM TimeGoesForward == Spec => []TimeMovesForward
<1>1. LocksInv => TimeMovesForward
  BY DEF LocksInv, Shared, TimeMovesForward
<1> QED BY <1>1, LocksInductive, PTL

\* Locks have a holder among the contexts, counters stay within their bound.
LEMMA LocksTypes == Spec => []TypeOK
<1>1. LocksInv => TypeOK
  BY DEF LocksInv, Types
<1> QED BY <1>1, LocksInductive, PTL
-----------------------------------------------------------------------------
(* The scheduler's queue.                                                 *)

\* The entries from behind i, round the ring, up to the cursor.
Arc(i) == {j \in DOMAIN queue :
              \/ i < j /\ j <= current
              \/ current < i /\ (i < j \/ j <= current)}

OnArc == \A i \in Candidates : since[i] \subseteq Arc(i)

QueueInv == QueueTypeOK /\ OnArc /\ NoOvertaking

LEMMA InitQueueInv == SchedulerInit => QueueInv
<1>1. ASSUME SchedulerInit PROVE QueueTypeOK
  BY <1>1, SchedulerAssumption DEF SchedulerInit, QueueTypeOK
<1>2. ASSUME SchedulerInit PROVE OnArc /\ NoOvertaking
  BY <1>2 DEF SchedulerInit, OnArc, NoOvertaking, Candidates
<1> QED  BY <1>1, <1>2 DEF QueueInv

\* add() keeps the order: the new entry is behind every other.
LEMMA AddStep ==
    ASSUME QueueInv, NEW state \in States, add(state)
    PROVE  QueueInv'
<1>1. QueueTypeOK'
  BY SchedulerAssumption DEF QueueInv, QueueTypeOK, add
<1>2. OnArc'
  BY DEF QueueInv, QueueTypeOK, add, OnArc, Arc, Candidates
<1>3. NoOvertaking'
  BY DEF QueueInv, NoOvertaking, add
<1> QED  BY <1>1, <1>2, <1>3 DEF QueueInv

LEMMA SetStateStep ==
    ASSUME QueueInv, NEW k \in DOMAIN queue, NEW state \in States,
           set_state(k, state)
    PROVE  QueueInv'
<1>1. QueueTypeOK'
  BY DEF QueueInv, QueueTypeOK, set_state
<1>2. OnArc'
  <2> SUFFICES ASSUME NEW i \in Candidates'
               PROVE  since'[i] \subseteq Arc(i)'
    BY DEF OnArc
  <2>1. CASE i \in Candidates /\ since'[i] = since[i]
    BY <2>1 DEF QueueInv, QueueTypeOK, set_state, OnArc, Arc, Candidates
  <2>2. CASE since'[i] = {}
    BY <2>2
  <2>3. since'[i] = {} \/ (i \in Candidates /\ since'[i] = since[i])
    BY DEF QueueInv, QueueTypeOK, set_state, Candidates
  <2> QED  BY <2>1, <2>2, <2>3
<1>3. NoOvertaking'
  BY DEF QueueInv, NoOvertaking, set_state
<1> QED  BY <1>1, <1>2, <1>3 DEF QueueInv

\* A pick takes the first candidate met on the ring behind the cursor.
LEMMA PickStep ==
    ASSUME QueueInv, NEW k \in Candidates, Pick(k),
           \/ k > current /\ \A j \in After : k <= j
           \/ After = {} /\ \A j \in Candidates : k <= j
    PROVE  QueueInv'
<1> USE DEF QueueInv, QueueTypeOK, Pick
<1>1. k \in DOMAIN queue /\ k \in 1 .. Len(queue)
  BY DEF Candidates
<1>2. \A i \in Candidates \ {k} : k \notin Arc(i)
  BY <1>1 DEF Arc, Candidates, After
<1>3. QueueTypeOK'
  <2>1. since' \in Seq(SUBSET DOMAIN queue') /\ Len(since') = Len(queue')
    <3>1. DOMAIN since = 1 .. Len(queue) /\ Len(queue) \in Nat
      OBVIOUS
    <3>2. since' \in [1 .. Len(queue) -> SUBSET DOMAIN queue]
      BY <1>1, <3>1
    <3> QED  BY <3>1, <3>2
  <2>2. overtaken' \subseteq DOMAIN queue'
    BY DEF Candidates
  <2> QED  BY <1>1, <2>1, <2>2
<1>4. OnArc'
  <2> SUFFICES ASSUME NEW i \in Candidates
               PROVE  since'[i] \subseteq Arc(i)'
    BY DEF OnArc, Candidates
  <2>1. CASE i = k
    BY <2>1, <1>1 DEF Candidates
  <2>2. CASE i # k
    <3>1. since'[i] = since[i] \cup {k} /\ since[i] \subseteq Arc(i)
      BY <2>2 DEF OnArc, Candidates
    <3>2. Arc(i) \cup {k} \subseteq Arc(i)'
      BY <2>2, <1>1 DEF Arc, Candidates, After
    <3> QED  BY <3>1, <3>2
  <2> QED  BY <2>1, <2>2
<1>5. NoOvertaking'
  BY <1>2 DEF OnArc, NoOvertaking
<1> QED  BY <1>3, <1>4, <1>5

LEMMA TurnStep ==
    ASSUME QueueInv, next
    PROVE  QueueInv'
<1>1. ASSUME NEW k \in After, \A j \in After : k <= j, Pick(k)
      PROVE  QueueInv'
  BY <1>1, PickStep DEF After
<1>2. ASSUME After = {}, NEW k \in Candidates, \A j \in Candidates : k <= j,
             Pick(k)
      PROVE  QueueInv'
  BY <1>2, PickStep
<1>3. ASSUME Candidates = {}, picked' = 0,
             current' = IF current = 0 THEN Len(queue) ELSE current,
             UNCHANGED <<queue, since, overtaken>>
      PROVE  QueueInv'
  <2>1. QueueTypeOK'
    BY <1>3 DEF QueueInv, QueueTypeOK
  <2>2. OnArc' /\ NoOvertaking'
    BY <1>3 DEF QueueInv, OnArc, NoOvertaking, Candidates
  <2> QED  BY <2>1, <2>2 DEF QueueInv
<1> QED  BY <1>1, <1>2, <1>3 DEF next

LEMMA QueueInductive == SchedulerSpec => []QueueInv
<1>1. ASSUME QueueInv, [SchedulerNext]_schedulerVars
      PROVE  QueueInv'
  <2>1. CASE \E state \in States : add(state)
    BY <1>1, <2>1, AddStep
  <2>2. CASE next
    BY <1>1, <2>2, TurnStep
  <2>3. CASE \E k \in DOMAIN queue, state \in States : set_state(k, state)
    BY <1>1, <2>3, SetStateStep
  <2>4. CASE UNCHANGED schedulerVars
    BY <1>1, <2>4
       DEF schedulerVars, QueueInv, QueueTypeOK, OnArc, Arc, NoOvertaking, Candidates
  <2> QED  BY <1>1, <2>1, <2>2, <2>3, <2>4 DEF SchedulerNext
<1> QED  BY <1>1, InitQueueInv, PTL DEF SchedulerSpec

\* The cursor and every answer name an entry of the queue, or none
\* (scheduler.rs:19-30).
THEOREM SchedulerTypeCorrect == SchedulerSpec => []QueueTypeOK
<1>1. QueueInv => QueueTypeOK
  BY DEF QueueInv
<1> QED  BY <1>1, QueueInductive, PTL

\* However many processes there are and whenever they block and wake, none is
\* picked twice while another waits runnable (scheduler.rs:19-30).
THEOREM BoundedBypass == SchedulerSpec => []NoOvertaking
<1>1. QueueInv => NoOvertaking
  BY DEF QueueInv
<1> QED  BY <1>1, QueueInductive, PTL

\* next() gives up only when nothing is runnable (scheduler.rs:22-29).
THEOREM NeverIdles == SchedulerSpec => WorkConserving
<1>1. ASSUME QueueTypeOK, [SchedulerNext]_schedulerVars, picked # 0, picked' = 0
      PROVE  Candidates = {}
  <2>1. ASSUME NEW k \in Candidates, Pick(k) PROVE FALSE
    BY <1>1, <2>1 DEF Pick, Candidates
  <2>2. CASE next
    BY <2>1, <2>2 DEF next, After
  <2>3. CASE ~next
    BY <1>1, <2>3 DEF SchedulerNext, add, set_state, schedulerVars
  <2> QED  BY <2>2, <2>3
<1> QED  BY <1>1, SchedulerTypeCorrect, PTL DEF SchedulerSpec, WorkConserving
=============================================================================
