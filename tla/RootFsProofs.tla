--------------------------- MODULE RootFsProofs ---------------------------
(***************************************************************************)
(* For every stack of read-only layers, every argument and every sequence  *)
(* of commands: the root filesystem implements one flat map, and every     *)
(* path in it is spelled in one way.  The first needs nothing of           *)
(* resolve_path but that a command writes the one path it returns.         *)
(***************************************************************************)
EXTENDS RootFs, FiniteSetTheorems, SequenceTheorems, TLAPS

-----------------------------------------------------------------------------
(* One flat map.                                                            *)

\* The part of the type invariant that the refinement needs.
Written == /\ upper \in [DOMAIN upper -> Contents \cup {Empty}]
           /\ DOMAIN upper \subseteq Paths

\* What read sees of every path, in the terms of the two sides.
View == [p \in AllPaths |-> read(p)]

LEMMA WriteAddsOnePath ==
  ASSUME NEW p, NEW d, write(p, d)
  PROVE  upper' = With(upper, p, d)
<1>1. CASE p \notin DOMAIN upper /\ LowerHas(p) # {}
  <2> DEFINE copied == With(upper, p, ReadLower(p))
  <2>1. upper' = With(copied, p, d)
    BY <1>1 DEF write
  <2>2. DOMAIN copied = DOMAIN upper \cup {p}
    BY DEF With
  <2>3. \A q \in DOMAIN upper : q # p => copied[q] = upper[q]
    BY DEF With
  <2>4. With(copied, p, d) = With(upper, p, d)
    BY <2>2, <2>3 DEF With
  <2> QED BY <2>1, <2>4
<1>2. CASE ~(p \notin DOMAIN upper /\ LowerHas(p) # {})
  BY <1>2 DEF write
<1> QED BY <1>1, <1>2

\* A path has a file in some lower layer exactly when the image has it.
LEMMA InImage ==
  ASSUME NEW p
  PROVE  p \in DOMAIN Base <=> LowerHas(p) # {}
BY DEF Base, LowerHas

LEMMA AllPathsIs == AllPaths = DOMAIN upper \cup DOMAIN Base
BY DEF AllPaths, Base

LEMMA ViewOfWrite ==
  ASSUME NEW p, NEW d, upper' = With(upper, p, d)
  PROVE  View' = [q \in DOMAIN View \cup {p} |-> IF q = p THEN d ELSE View[q]]
<1>1. DOMAIN upper' = DOMAIN upper \cup {p}
  BY DEF With
<1>2. AllPaths' = AllPaths \cup {p}
  BY <1>1 DEF AllPaths
<1>3. \A q \in AllPaths' : read(q)' = IF q = p THEN d ELSE read(q)
  BY <1>1 DEF With, read
<1> QED BY <1>2, <1>3 DEF View

LEMMA ViewOfRemove ==
  ASSUME NEW p \in DOMAIN upper,
         upper' = [q \in DOMAIN upper \ {p} |-> upper[q]]
  PROVE  Flat!Remove(p)
<1>1. \A q \in DOMAIN Base : Base[q] = ReadLower(q)
  BY DEF Base
<1>2. AllPaths' = (DOMAIN upper \ {p}) \cup DOMAIN Base
  BY DEF AllPaths, Base
<1>3. \A q : q # p => read(q)' = read(q)
  BY DEF read
<1>4. read(p)' = ReadLower(p)
  BY DEF read
<1>5. CASE p \in DOMAIN Base
  <2>1. AllPaths' = AllPaths
    BY <1>2, <1>5, AllPathsIs
  <2>2. View' = [View EXCEPT ![p] = Base[p]]
    BY <2>1, <1>1, <1>3, <1>4, <1>5 DEF View
  <2> QED BY <2>2, <1>5 DEF Flat!Remove, View
<1>6. CASE p \notin DOMAIN Base
  <2>1. AllPaths' = AllPaths \ {p}
    BY <1>2, <1>6, AllPathsIs
  <2>2. View' = [q \in DOMAIN View \ {p} |-> View[q]]
    BY <2>1, <1>3 DEF View
  <2> QED BY <2>2, <1>6 DEF Flat!Remove, Flat!Restrict, View
<1> QED BY <1>5, <1>6

LEMMA WrittenStep == Written /\ [Next]_vars => Written'
<1> SUFFICES ASSUME Written, [Next]_vars PROVE Written'
  OBVIOUS
<1>1. ASSUME NEW p \in Paths, NEW d \in Contents \cup {Empty}, write(p, d)
      PROVE  Written'
  <2>1. upper' = With(upper, p, d)
    BY <1>1, WriteAddsOnePath
  <2> QED BY <2>1 DEF Written, With
<1>2. ASSUME NEW arg \in Args, Cd(arg) PROVE Written'
  BY <1>2 DEF Cd, Written
<1>3. ASSUME NEW arg \in Args, Touch(arg) PROVE Written'
  BY <1>1, <1>3 DEF Touch, Writes
<1>4. ASSUME NEW arg \in Args, Mkdir(arg) PROVE Written'
  BY <1>1, <1>4 DEF Mkdir, Writes
<1>5. ASSUME NEW arg \in Args, Rm(arg) PROVE Written'
  BY <1>5 DEF Rm, remove, Written
<1>6. ASSUME NEW arg \in Args, NEW text \in Contents, Echo(arg, text) PROVE Written'
  BY <1>1, <1>6 DEF Echo, Writes
<1>7. CASE UNCHANGED vars
  BY <1>7 DEF vars, Written
<1> QED BY <1>2, <1>3, <1>4, <1>5, <1>6, <1>7 DEF Next

LEMMA FlatStep == Written /\ [Next]_vars => [Flat!Next]_View
<1> SUFFICES ASSUME Written, [Next]_vars PROVE [Flat!Next]_View
  OBVIOUS
<1>1. ASSUME NEW p \in Paths, NEW d \in Contents \cup {Empty}, write(p, d)
      PROVE  Flat!Next
  <2>1. upper' = With(upper, p, d)
    BY <1>1, WriteAddsOnePath
  <2>2. Flat!Write(p, d)
    BY <2>1, ViewOfWrite DEF Flat!Write, View
  <2> QED BY <2>2 DEF Flat!Next
<1>2. ASSUME upper' = upper PROVE View' = View
  BY <1>2 DEF View, AllPaths, read
<1>3. ASSUME NEW arg \in Args, Cd(arg) PROVE View' = View
  BY <1>2, <1>3 DEF Cd
<1>4. ASSUME NEW arg \in Args, Touch(arg) PROVE Flat!Next
  BY <1>1, <1>4 DEF Touch, Writes
<1>5. ASSUME NEW arg \in Args, Mkdir(arg) PROVE Flat!Next
  BY <1>1, <1>5 DEF Mkdir, Writes
<1>6. ASSUME NEW arg \in Args, Rm(arg) PROVE Flat!Next
  <2>1. resolve_path(arg) \in DOMAIN upper /\ resolve_path(arg) \in Paths
    BY <1>6 DEF Rm, remove, Written
  <2>2. Flat!Remove(resolve_path(arg))
    BY <1>6, <2>1, ViewOfRemove DEF Rm, remove
  <2> QED BY <2>1, <2>2 DEF Flat!Next
<1>7. ASSUME NEW arg \in Args, NEW text \in Contents, Echo(arg, text) PROVE Flat!Next
  BY <1>1, <1>7 DEF Echo, Writes
<1>8. CASE UNCHANGED vars
  BY <1>2, <1>8 DEF vars
<1> QED BY <1>3, <1>4, <1>5, <1>6, <1>7, <1>8 DEF Next

\* Whatever layers an overlay is made of and whatever the session does, what
\* cat reads is one flat map: each write shows at its own path only, and rm
\* uncovers the image (OverlayMount read, write, remove under getty's commands).
THEOREM Flattened == Spec => FlatSpec
<1>1. Init => Written /\ Flat!Init
  <2> SUFFICES ASSUME Init PROVE Written /\ Flat!Init
    OBVIOUS
  <2>1. DOMAIN upper = {}
    BY DEF Init
  <2>2. Written
    BY <2>1 DEF Init, Written
  <2>3. AllPaths = DOMAIN Base
    BY <2>1, AllPathsIs
  <2>4. View = Base
    BY <2>1, <2>3 DEF View, read, Base
  <2> QED BY <2>2, <2>4 DEF Flat!Init, View
<1>2. Written /\ [Next]_vars => Written'
  BY WrittenStep
<1>3. Written /\ [Next]_vars => [Flat!Next]_([p \in AllPaths |-> read(p)])
  BY FlatStep DEF View
<1> QED BY <1>1, <1>2, <1>3, PTL DEF Spec, FlatSpec, Flat!Spec
-----------------------------------------------------------------------------
(* Induction without an operator as parameter: over a set of numbers.       *)

\* A set of natural numbers that is not empty has a least element.
LEMMA LeastElement ==
  ASSUME NEW T \in SUBSET Nat, T # {}
  PROVE  \E k \in T : \A j \in T : k <= j
<1> DEFINE R == OpToRel(<, Nat)
<1>1. IsWellFoundedOn(R, Nat)
  BY NatLessThanWellFounded
<1>2. \A i, j \in Nat : i < j => <<i, j>> \in R
  BY Zenon DEF OpToRel
<1> HIDE DEF R
<1>3. PICK k \in T : \A j \in T : <<j, k>> \notin R
  BY <1>1, WFMin
<1> SUFFICES ASSUME NEW j \in T PROVE k <= j
  OBVIOUS
<1>4. j \in Nat /\ k \in Nat /\ ~ (j < k)
  BY <1>2, <1>3
<1> QED BY <1>4

\* A set of natural numbers with 0 and each successor is all of Nat.
LEMMA Inductively ==
  ASSUME NEW S \in SUBSET Nat, 0 \in S, \A n \in S : n + 1 \in S
  PROVE  S = Nat
<1> SUFFICES ASSUME Nat \ S # {} PROVE FALSE
  OBVIOUS
<1>1. PICK k \in Nat \ S : \A j \in Nat \ S : k <= j
  BY LeastElement
<1>2. k # 0 /\ k - 1 \in Nat /\ k - 1 \notin Nat \ S
  BY <1>1
<1> QED BY <1>2

-----------------------------------------------------------------------------
(* What resolve_path returns: a path, whatever was typed.                   *)

IsCollapse(f, segs) == f = [n \in 0 .. Len(segs) |-> Collapse(segs, f, n)]

LEMMA CollapseExists ==
  ASSUME NEW segs \in Seq(STRING)
  PROVE  \E f : IsCollapse(f, segs)
<1> DEFINE N == Len(segs)
           Step(f, n) == Collapse(segs, f, n)
           S == {m \in Nat : \E f : f = [n \in 0 .. m |-> Step(f, n)]}
<1>1. 0 \in S
  <2> DEFINE f == [n \in 0 .. 0 |-> <<>>]
  <2>1. \A n \in 0 .. 0 : Step(f, n) = <<>>
    BY DEF Collapse
  <2>2. f = [n \in 0 .. 0 |-> Step(f, n)]
    <3> HIDE DEF Step
    <3> QED BY <2>1
  <2> QED BY <2>2
<1>2. ASSUME NEW m \in S PROVE m + 1 \in S
  <2>1. PICK g : g = [n \in 0 .. m |-> Step(g, n)]
    OBVIOUS
  <2> DEFINE k == m + 1
             h == [n \in 0 .. k |-> IF n = k THEN Step(g, k) ELSE g[n]]
  <2>2. m \in Nat /\ k \in Nat /\ k - 1 = m /\ k # 0
    OBVIOUS
  <2>3. \A n \in 0 .. m : h[n] = g[n]
    BY <2>2
  <2>4. h[k] = Step(g, k)
    BY <2>2
  <2> HIDE DEF h, k
  <2>5. ASSUME NEW n \in 0 .. k PROVE Step(h, n) = Step(g, n)
    <3>1. CASE n = 0
      BY <3>1 DEF Collapse
    <3>2. CASE n # 0
      <4>1. n - 1 \in 0 .. m
        BY <2>2, <3>2
      <4>2. h[n - 1] = g[n - 1]
        BY <2>3, <4>1
      <4> QED BY <4>2 DEF Collapse
    <3> QED BY <3>1, <3>2
  <2> HIDE DEF Step
  <2>6. \A n \in 0 .. m : g[n] = Step(g, n)
    BY <2>1
  <2>7. \A n \in 0 .. k : h[n] = Step(h, n)
    BY <2>2, <2>3, <2>4, <2>5, <2>6
  <2> USE DEF h
  <2>8. h = [n \in 0 .. k |-> Step(h, n)]
    BY <2>7
  <2> QED BY <2>2, <2>8 DEF k
<1>3. N \in S
  <2>1. S \in SUBSET Nat /\ N \in Nat
    BY LenProperties
  <2> HIDE DEF S
  <2> QED BY <1>1, <1>2, <2>1, Inductively
<1> QED BY <1>3 DEF IsCollapse

\* Without its last name a path is a path.
LEMMA FrontOfPath ==
  ASSUME NEW p \in Seq(Names), p # <<>>
  PROVE  Front(p) \in Seq(Names)
<1> DEFINE n == Len(p) - 1
<1>1. Len(p) \in Nat /\ Len(p) # 0
  BY LenProperties, EmptySeq
<1>2. n \in Nat /\ 1 \in Int /\ n \in Int
  BY <1>1
<1>3. \A i \in 1 .. n : p[i] \in Names
  BY <1>1, ElementOfSeq
<1>4. SubSeq(p, 1, n) \in Seq(Names)
  BY <1>2, <1>3, SubSeqProperties
<1> QED BY <1>4 DEF Front

LEMMA CollapsedIsPath ==
  ASSUME NEW segs \in Seq(STRING), NEW f, IsCollapse(f, segs)
  PROVE  f[Len(segs)] \in Seq(Names)
<1> DEFINE N == Len(segs)
           S == {m \in Nat : m <= N => f[m] \in Seq(Names)}
<1>1. N \in Nat
  BY LenProperties
<1>2. \A n \in 0 .. N : f[n] = Collapse(segs, f, n)
  <2> DEFINE Step(g, n) == Collapse(segs, g, n)
  <2>1. f = [n \in 0 .. N |-> Step(f, n)]
    BY DEF IsCollapse
  <2> HIDE DEF Step
  <2>2. \A n \in 0 .. N : f[n] = Step(f, n)
    BY <2>1
  <2> QED BY <2>2 DEF Step
<1>3. 0 \in S
  <2>0. 0 \in 0 .. N
    BY <1>1
  <2>1. f[0] = <<>>
    BY <1>2, <2>0 DEF Collapse
  <2>2. <<>> \in Seq(Names)
    OBVIOUS
  <2> QED BY <2>1, <2>2
<1>4. ASSUME NEW m \in S PROVE m + 1 \in S
  <2> SUFFICES ASSUME m + 1 <= N PROVE f[m + 1] \in Seq(Names)
    OBVIOUS
  <2> DEFINE k == m + 1
  <2>1. m \in Nat /\ k \in 0 .. N /\ k - 1 = m /\ k # 0 /\ k \in 1 .. N
    BY <1>1
  <2>2. f[m] \in Seq(Names)
    BY <1>1, <2>1
  <2>3. f[k] = Collapse(segs, f, k)
    BY <1>2, <2>1
  <2>4. segs[k] \in STRING
    BY <2>1, ElementOfSeq
  <2> HIDE DEF k
  <2>5. ASSUME segs[k] \in {"", "."} PROVE f[k] \in Seq(Names)
    BY <2>1, <2>2, <2>3, <2>5 DEF Collapse
  <2>6. ASSUME segs[k] \notin {"", "."} /\ segs[k] # ".." PROVE f[k] \in Seq(Names)
    <3>1. f[k] = Append(f[m], segs[k])
      BY <2>1, <2>3, <2>6 DEF Collapse
    <3>2. segs[k] \in Names
      BY <2>4, <2>6 DEF Names
    <3> QED BY <2>2, <3>1, <3>2, AppendProperties
  <2>7. ASSUME segs[k] \notin {"", "."}, ~ (segs[k] # ".."), f[m] = <<>>
        PROVE  f[k] \in Seq(Names)
    BY <2>1, <2>2, <2>3, <2>7 DEF Collapse
  <2>8. ASSUME segs[k] \notin {"", "."}, ~ (segs[k] # ".."), f[m] # <<>>
        PROVE  f[k] \in Seq(Names)
    <3>1. f[k] = Front(f[m])
      BY <2>1, <2>3, <2>8 DEF Collapse
    <3> QED BY <2>2, <2>8, <3>1, FrontOfPath
  <2>9. f[k] \in Seq(Names)
    BY <2>5, <2>6, <2>7, <2>8
  <2> QED BY <2>9 DEF k
<1>5. N \in S
  <2>1. S \in SUBSET Nat
    OBVIOUS
  <2> HIDE DEF S
  <2> QED BY <1>1, <1>3, <1>4, <2>1, Inductively
<1> QED BY <1>1, <1>5

LEMMA ResolvedIsPath ==
  ASSUME cwd \in Seq(Names), NEW arg \in Args
  PROVE  resolve_path(arg) \in Seq(Names)
<1> DEFINE segs == IF arg.abs THEN arg.segs ELSE cwd \o arg.segs
<1>1. segs \in Seq(STRING)
  <2>1. arg.segs \in Seq(STRING)
    BY RootFsAssumption
  <2>2. cwd \in Seq(STRING)
    <3>1. Names \subseteq STRING
      BY DEF Names
    <3>2. Len(cwd) \in Nat /\ cwd = [i \in 1 .. Len(cwd) |-> cwd[i]]
      BY LenProperties
    <3>3. \A i \in 1 .. Len(cwd) : cwd[i] \in STRING
      BY <3>1, ElementOfSeq
    <3> QED BY <3>2, <3>3, SeqDef
  <2>3. cwd \o arg.segs \in Seq(STRING)
    BY <2>1, <2>2, ConcatProperties
  <2> QED BY <2>1, <2>3
<1> DEFINE F == CHOOSE f : IsCollapse(f, segs)
<1>2. resolve_path(arg) = F[Len(segs)]
  BY DEF resolve_path, IsCollapse, Collapse
<1> HIDE DEF segs
<1>3. IsCollapse(F, segs)
  BY <1>1, CollapseExists
<1> HIDE DEF F
<1> QED BY <1>1, <1>2, <1>3, CollapsedIsPath

-----------------------------------------------------------------------------
(* Types.                                                                   *)

PathInv == Written /\ cwd \in Seq(Names) /\ DOMAIN upper \subseteq Seq(Names)

LEMMA MarkerIsPath ==
  ASSUME NEW p \in Seq(Names)
  PROVE  Append(p, Keep) \in Seq(Names)
<1>1. Keep \in Names
  <2>1. Keep \in STRING
    BY RootFsAssumption
  <2>2. Keep # ""
    BY DEF Keep
  <2>3. Keep # "." /\ Keep # ".."
    BY DEF Keep
  <2> QED BY <2>1, <2>2, <2>3 DEF Names
<1> QED BY <1>1, AppendProperties

LEMMA PathStep == PathInv /\ [Next]_vars => PathInv'
<1> SUFFICES ASSUME PathInv, [Next]_vars PROVE PathInv'
  OBVIOUS
<1>1. Written'
  BY WrittenStep DEF PathInv
<1>2. ASSUME NEW p \in Seq(Names), NEW d, write(p, d)
      PROVE  DOMAIN upper' \subseteq Seq(Names)
  <2>1. upper' = With(upper, p, d)
    BY <1>2, WriteAddsOnePath
  <2>2. DOMAIN upper' = DOMAIN upper \cup {p}
    BY <2>1 DEF With
  <2> QED BY <2>2 DEF PathInv
<1>3. ASSUME NEW arg \in Args PROVE resolve_path(arg) \in Seq(Names)
  BY ResolvedIsPath DEF PathInv
<1>4. ASSUME NEW arg \in Args, Cd(arg) PROVE PathInv'
  BY <1>1, <1>3, <1>4 DEF Cd, PathInv
<1>5. ASSUME NEW arg \in Args, Touch(arg) PROVE PathInv'
  BY <1>1, <1>2, <1>3, <1>5 DEF Touch, Writes, PathInv
<1>6. ASSUME NEW arg \in Args, Mkdir(arg) PROVE PathInv'
  BY <1>1, <1>2, <1>3, <1>6, MarkerIsPath DEF Mkdir, Writes, PathInv
<1>7. ASSUME NEW arg \in Args, Rm(arg) PROVE PathInv'
  BY <1>1, <1>7 DEF Rm, remove, PathInv
<1>8. ASSUME NEW arg \in Args, NEW text \in Contents, Echo(arg, text) PROVE PathInv'
  BY <1>1, <1>2, <1>3, <1>8 DEF Echo, Writes, PathInv
<1>9. CASE UNCHANGED vars
  BY <1>1, <1>9 DEF vars, PathInv
<1> QED BY <1>4, <1>5, <1>6, <1>7, <1>8, <1>9 DEF Next

LEMMA PathsHold == Spec => []PathInv
<1>1. Init => PathInv
  <2> SUFFICES ASSUME Init PROVE PathInv
    OBVIOUS
  <2>1. DOMAIN upper = {}
    BY DEF Init
  <2> QED BY <2>1, RootFsAssumption DEF Init, Written, PathInv
<1>2. PathInv /\ [Next]_vars => PathInv'
  BY PathStep
<1> QED BY <1>1, <1>2, PTL DEF Spec

\* However a path is spelled, relative, with empty or dotted names or above
\* the root, it reaches the layers in one spelling (getty.rs, resolve_path).
THEOREM OneSpelling == Spec => []TypeOK
<1>1. PathInv => TypeOK
  <2> SUFFICES ASSUME PathInv PROVE TypeOK
    OBVIOUS
  <2>1. ASSUME NEW p \in Seq(Names) PROVE IsPath(p)
    BY LenProperties, ElementOfSeq DEF IsPath
  <2> QED BY <2>1 DEF PathInv, Written, TypeOK
<1> QED BY <1>1, PathsHold, PTL
=============================================================================
