----------------------- MODULE ContainerRuntimeProofs -----------------------
(***************************************************************************)
(* For every configuration, every line and every login: what the console   *)
(* shows is what it submits, an id is its place in the listing, the boot   *)
(* serves what was declared, a route once given stays, and the two scans   *)
(* of a line's options agree with one.                                     *)
(***************************************************************************)
EXTENDS ContainerRuntime, FiniteSetTheorems, SequenceTheorems, TLAPS

-----------------------------------------------------------------------------
(* Induction without an operator as parameter: over a set of numbers.       *)

\* A set of natural numbers that is not empty has a least element.
LEMMA LeastElement ==
  ASSUME NEW T \in SUBSET Nat, T # {}
  PROVE  \E k \in T : \A j \in T : k <= j
<1> DEFINE R == OpToRel(<, Nat)
<1>1. IsWellFoundedOn(R, Nat)
  BY NatLessThanWellFounded
<1>2. \A i, j \in Nat : i < j => <<i, j>> \in R
  BY Zenon DEF OpToRel
<1> HIDE DEF R
<1>3. PICK k \in T : \A j \in T : <<j, k>> \notin R
  BY <1>1, WFMin
<1> SUFFICES ASSUME NEW j \in T PROVE k <= j
  OBVIOUS
<1>4. j \in Nat /\ k \in Nat /\ ~ (j < k)
  BY <1>2, <1>3
<1> QED BY <1>4

\* A set of natural numbers with 0 and each successor is all of Nat.
LEMMA Inductively ==
  ASSUME NEW S \in SUBSET Nat, 0 \in S, \A n \in S : n + 1 \in S
  PROVE  S = Nat
<1> SUFFICES ASSUME Nat \ S # {} PROVE FALSE
  OBVIOUS
<1>1. PICK k \in Nat \ S : \A j \in Nat \ S : k <= j
  BY LeastElement
<1>2. k # 0 /\ k - 1 \in Nat /\ k - 1 \notin Nat \ S
  BY <1>1
<1> QED BY <1>2

-----------------------------------------------------------------------------
(* The options of a line: what the recursive functions of Scan and of       *)
(* OptionsOf are.                                                           *)

StepOf(scan, args, from, i) ==
    IF scan = "ports" THEN ScanStep(args, PortFlags, "port", from, i)
    ELSE IF scan = "volumes" THEN ScanStep(args, VolumeFlags, "volume", from, i)
    ELSE OptionsStep(args, from, i)

Solves(scan, args, f) == f = [i \in 1 .. Len(args) + 2 |-> StepOf(scan, args, f, i)]

\* Each scan's recursion has a solution: it is built from the last word back.
LEMMA ScanSolvable ==
  ASSUME NEW args, Len(args) \in Nat, NEW scan \in {"ports", "volumes", "both"}
  PROVE  \E f : Solves(scan, args, f)
<1> DEFINE N == Len(args)
           Step(f, i) == StepOf(scan, args, f, i)
           S == {m \in Nat : m <= N + 1 =>
                   \E f : f = [i \in N + 2 - m .. N + 2 |-> Step(f, i)]}
<1> USE DEF StepOf
<1>1. 0 \in S
  <2> DEFINE f == [i \in N + 2 .. N + 2 |-> Step(<<>>, N + 2)]
  <2>0. N + 2 > N /\ \A i \in N + 2 .. N + 2 : i = N + 2
    OBVIOUS
  <2>1. \A g : Step(g, N + 2) = Step(<<>>, N + 2)
    BY <2>0 DEF ScanStep, OptionsStep
  <2>2. f = [i \in N + 2 - 0 .. N + 2 |-> Step(f, i)]
    <3> HIDE DEF Step
    <3> QED BY <2>0, <2>1
  <2> QED BY <2>2
<1>2. ASSUME NEW m \in S PROVE m + 1 \in S
  <2> SUFFICES ASSUME m + 1 <= N + 1
               PROVE  \E f : f = [i \in N + 2 - (m + 1) .. N + 2 |-> Step(f, i)]
    OBVIOUS
  <2>1. PICK g : g = [i \in N + 2 - m .. N + 2 |-> Step(g, i)]
    OBVIOUS
  <2> DEFINE k == N + 2 - (m + 1)
             h == [i \in k .. N + 2 |-> IF i = k THEN Step(g, k) ELSE g[i]]
  <2>2. k \in Int /\ k <= N + 1 /\ N \in Nat /\ k + 1 = N + 2 - m
    OBVIOUS
  <2>3. \A j \in k + 1 .. N + 2 : h[j] = g[j]
    BY <2>2
  <2>4. h[k] = Step(g, k)
    BY <2>2
  <2> HIDE DEF h, k
  <2>5. ASSUME NEW i \in k .. N + 2 PROVE Step(h, i) = Step(g, i)
    <3>1. i <= N => h[i + 1] = g[i + 1]
      BY <2>2, <2>3
    <3>2. i < N => h[i + 2] = g[i + 2]
      BY <2>2, <2>3
    <3>3. i \in Int /\ (~ (i > N) <=> i <= N) /\ (i < N <=> i <= N /\ i # N)
      BY <2>2
    <3>4. \A flags, kind : ScanStep(args, flags, kind, h, i) = ScanStep(args, flags, kind, g, i)
      BY <3>1, <3>2, <3>3 DEF ScanStep
    <3>5. OptionsStep(args, h, i) = OptionsStep(args, g, i)
      BY <3>1, <3>2, <3>3 DEF OptionsStep
    <3> QED BY <3>4, <3>5
  <2> HIDE DEF Step
  <2>6. \A j \in k + 1 .. N + 2 : g[j] = Step(g, j)
    BY <2>1, <2>2
  <2>7. \A i \in k .. N + 2 : h[i] = Step(h, i)
    BY <2>2, <2>3, <2>4, <2>5, <2>6
  <2> USE DEF h
  <2>8. h = [i \in k .. N + 2 |-> Step(h, i)]
    BY <2>7
  <2> QED BY <2>8 DEF k
<1>3. N + 1 \in S
  <2>1. S \in SUBSET Nat
    OBVIOUS
  <2> HIDE DEF S
  <2> QED BY <1>1, <1>2, <2>1, Inductively
<1>4. N + 2 - (N + 1) = 1
  OBVIOUS
<1> HIDE DEF Step
<1> QED BY <1>3, <1>4 DEF Solves, Step

\* What the three operators return is their solution at the first word.
LEMMA ScansAreSolutions ==
  ASSUME NEW args, Len(args) \in Nat
  PROVE  \E p, v, o : /\ Solves("ports", args, p) /\ parse_ports(args) = p[1]
                      /\ Solves("volumes", args, v) /\ parse_volumes(args) = v[1]
                      /\ Solves("both", args, o) /\ OptionsOf(args) = o[1]
<1> DEFINE F(scan) == CHOOSE f : Solves(scan, args, f)
<1>1. \A scan \in {"ports", "volumes", "both"} : Solves(scan, args, F(scan))
  BY ScanSolvable
<1>2. parse_ports(args) = F("ports")[1]
  BY DEF parse_ports, Scan, Solves, StepOf, ScanStep
<1>3. parse_volumes(args) = F("volumes")[1]
  BY DEF parse_volumes, Scan, Solves, StepOf, ScanStep
<1>4. OptionsOf(args) = F("both")[1]
  BY DEF OptionsOf, Solves, StepOf, OptionsStep
<1> QED BY <1>1, <1>2, <1>3, <1>4

\* From each word on, what both scans accept is what one accepts, and they
\* give the same: a word that is a flag of either kind is no mapping and no
\* mount, so a value is never read as the other scan's flag.
Agree(p, v, o, i) ==
    /\ p[i].ok \in BOOLEAN /\ v[i].ok \in BOOLEAN /\ o[i].ok \in BOOLEAN
    /\ o[i].ok <=> p[i].ok /\ v[i].ok
    /\ o[i].ok => o[i].value = [ports |-> p[i].value, volumes |-> v[i].value]

LEMMA ScansAgree ==
  ASSUME NEW args, Len(args) \in Nat, NEW p, NEW v, NEW o,
         Solves("ports", args, p), Solves("volumes", args, v), Solves("both", args, o)
  PROVE  Agree(p, v, o, 1)
<1> DEFINE N == Len(args)
           S == {m \in Nat : m <= N + 1 => \A i \in N + 2 - m .. N + 2 : Agree(p, v, o, i)}
<1>1. \A i \in 1 .. N + 2 : /\ p[i] = ScanStep(args, PortFlags, "port", p, i)
                            /\ v[i] = ScanStep(args, VolumeFlags, "volume", v, i)
                            /\ o[i] = OptionsStep(args, o, i)
  BY DEF Solves, StepOf
<1>2. ASSUME NEW w, w \in PortFlags \cup VolumeFlags
      PROVE  /\ ~ IsMapping(w) /\ ~ IsMount(w)
             /\ w \in PortFlags => w \notin VolumeFlags
  <2>1. Len(w) = 1
    BY <1>2 DEF PortFlags, VolumeFlags, Word
  <2>2. w \in PortFlags => w \notin VolumeFlags
    BY DEF PortFlags, VolumeFlags, Word
  <2> QED BY <2>1, <2>2 DEF IsMapping, IsMount
<1>8. /\ \A x : Ok(x).ok \in BOOLEAN /\ Ok(x).ok /\ Ok(x).value = x
      /\ \A e : Err(e).ok \in BOOLEAN /\ ~ Err(e).ok
  BY DEF Ok, Err
<1>7. ASSUME NEW w
      PROVE  /\ IsMapping(w) => Value("port", w).ok /\ Value("port", w).value = Mapping(w)
             /\ ~ IsMapping(w) => Value("port", w) = Err("BadPortMapping") /\ ~ Value("port", w).ok
             /\ IsMount(w) => Value("volume", w).ok /\ Value("volume", w).value = Mount(w)
             /\ ~ IsMount(w) => Value("volume", w) = Err("MissingArgument") /\ ~ Value("volume", w).ok
  BY DEF Value, Ok, Err
<1>3. ASSUME NEW i \in 1 .. N + 2,
             i <= N => Agree(p, v, o, i + 1), i < N => Agree(p, v, o, i + 2)
      PROVE  Agree(p, v, o, i)
  <2>0. /\ p[i] = ScanStep(args, PortFlags, "port", p, i)
        /\ v[i] = ScanStep(args, VolumeFlags, "volume", v, i)
        /\ o[i] = OptionsStep(args, o, i)
    BY <1>1
  <2>a. i < N => /\ p[i + 1] = ScanStep(args, PortFlags, "port", p, i + 1)
                 /\ v[i + 1] = ScanStep(args, VolumeFlags, "volume", v, i + 1)
    BY <1>1
  <2> HIDE DEF S
  <2>1. CASE i > N
    <3>1. p[i] = Ok(<<>>) /\ v[i] = Ok(<<>>)
      BY <2>0, <2>1 DEF ScanStep
    <3>2. o[i] = Ok([ports |-> <<>>, volumes |-> <<>>])
      BY <2>0, <2>1 DEF OptionsStep
    <3> QED BY <3>1, <3>2 DEF Ok, Agree
  <2>2. CASE i <= N /\ args[i] \notin PortFlags \cup VolumeFlags
    BY <2>0, <1>3, <2>2 DEF ScanStep, OptionsStep, Agree
  <2>3. CASE i = N /\ args[i] \in PortFlags \cup VolumeFlags
    <3>1. o[i] = Err("MissingArgument")
      BY <2>0, <2>3 DEF OptionsStep
    <3>2. p[i] = IF args[i] \in PortFlags THEN Err("MissingArgument") ELSE p[i + 1]
      BY <2>0, <2>3 DEF ScanStep
    <3>3. v[i] = IF args[i] \in VolumeFlags THEN Err("MissingArgument") ELSE v[i + 1]
      BY <2>0, <2>3 DEF ScanStep
    <3>4. p[i + 1].ok \in BOOLEAN /\ v[i + 1].ok \in BOOLEAN
      BY <1>3, <2>3 DEF Agree
    <3> QED BY <1>8, <2>3, <3>1, <3>2, <3>3, <3>4 DEF Agree
  <2>4. CASE i < N /\ args[i] \in PortFlags
    <3>1. p[i] = IF ~ IsMapping(args[i + 1]) THEN Err("BadPortMapping")
                 ELSE IF p[i + 2].ok THEN Ok(<<Mapping(args[i + 1])>> \o p[i + 2].value)
                 ELSE p[i + 2]
      BY <2>0, <2>4, <1>7 DEF ScanStep
    <3>2. v[i] = v[i + 1]
      BY <2>0, <1>2, <2>4 DEF ScanStep
    <3>3. IsMapping(args[i + 1]) => v[i + 1] = v[i + 2]
      BY <2>a, <1>2, <2>4 DEF ScanStep
    <3>4. o[i] = IF IsMapping(args[i + 1]) /\ o[i + 2].ok
                 THEN Ok([ports |-> <<Mapping(args[i + 1])>> \o o[i + 2].value.ports,
                          volumes |-> o[i + 2].value.volumes])
                 ELSE Err("BadPortMapping")
      BY <2>0, <2>4 DEF OptionsStep
    <3>5. Agree(p, v, o, i + 1) /\ Agree(p, v, o, i + 2)
      BY <1>3, <2>4
    <3>6. CASE ~ IsMapping(args[i + 1])
      BY <1>8, <3>1, <3>2, <3>4, <3>5, <3>6 DEF Agree
    <3>7. CASE IsMapping(args[i + 1]) /\ o[i + 2].ok
      <4>1. /\ o[i + 2].value = [ports |-> p[i + 2].value, volumes |-> v[i + 2].value]
            /\ p[i + 2].ok /\ v[i + 2].ok
        BY <3>5, <3>7 DEF Agree
      <4>2. p[i] = Ok(<<Mapping(args[i + 1])>> \o p[i + 2].value) /\ v[i] = v[i + 2]
        BY <3>1, <3>2, <3>3, <3>7, <4>1
      <4>3. o[i] = Ok([ports |-> <<Mapping(args[i + 1])>> \o o[i + 2].value.ports,
                       volumes |-> o[i + 2].value.volumes])
        BY <3>4, <3>7
      <4>4. o[i + 2].value.ports = p[i + 2].value /\ o[i + 2].value.volumes = v[i + 2].value
        BY <4>1
      <4>5. p[i].ok \in BOOLEAN /\ p[i].ok /\ p[i].value = <<Mapping(args[i + 1])>> \o p[i + 2].value
        BY <1>8, <4>2
      <4>6. v[i].ok \in BOOLEAN /\ v[i].ok /\ v[i].value = v[i + 2].value
        BY <3>5, <4>1, <4>2 DEF Agree
      <4>7. o[i].ok \in BOOLEAN /\ o[i].ok /\ o[i].value = [ports |-> p[i].value, volumes |-> v[i].value]
        BY <1>8, <4>3, <4>4, <4>5, <4>6
      <4> QED BY <4>5, <4>6, <4>7 DEF Agree
    <3>8. CASE IsMapping(args[i + 1]) /\ ~ o[i + 2].ok
      BY <1>8, <3>1, <3>2, <3>3, <3>4, <3>5, <3>8 DEF Agree
    <3> QED BY <3>6, <3>7, <3>8
  <2>5. CASE i < N /\ args[i] \in VolumeFlags
    <3>1. v[i] = IF ~ IsMount(args[i + 1]) THEN Err("MissingArgument")
                 ELSE IF v[i + 2].ok THEN Ok(<<Mount(args[i + 1])>> \o v[i + 2].value)
                 ELSE v[i + 2]
      BY <2>0, <2>5, <1>7 DEF ScanStep
    <3>2. p[i] = p[i + 1]
      BY <2>0, <1>2, <2>5 DEF ScanStep
    <3>3. IsMount(args[i + 1]) => p[i + 1] = p[i + 2]
      BY <2>a, <1>2, <2>5 DEF ScanStep
    <3>4. o[i] = IF IsMount(args[i + 1]) /\ o[i + 2].ok
                 THEN Ok([ports |-> o[i + 2].value.ports,
                          volumes |-> <<Mount(args[i + 1])>> \o o[i + 2].value.volumes])
                 ELSE Err("MissingArgument")
      BY <2>0, <1>2, <2>5 DEF OptionsStep
    <3>5. Agree(p, v, o, i + 1) /\ Agree(p, v, o, i + 2)
      BY <1>3, <2>5
    <3>6. CASE ~ IsMount(args[i + 1])
      BY <1>8, <3>1, <3>2, <3>4, <3>5, <3>6 DEF Agree
    <3>7. CASE IsMount(args[i + 1]) /\ o[i + 2].ok
      <4>1. /\ o[i + 2].value = [ports |-> p[i + 2].value, volumes |-> v[i + 2].value]
            /\ p[i + 2].ok /\ v[i + 2].ok
        BY <3>5, <3>7 DEF Agree
      <4>2. v[i] = Ok(<<Mount(args[i + 1])>> \o v[i + 2].value) /\ p[i] = p[i + 2]
        BY <3>1, <3>2, <3>3, <3>7, <4>1
      <4>3. o[i] = Ok([ports |-> o[i + 2].value.ports,
                       volumes |-> <<Mount(args[i + 1])>> \o o[i + 2].value.volumes])
        BY <3>4, <3>7
      <4>4. o[i + 2].value.ports = p[i + 2].value /\ o[i + 2].value.volumes = v[i + 2].value
        BY <4>1
      <4>5. v[i].ok \in BOOLEAN /\ v[i].ok /\ v[i].value = <<Mount(args[i + 1])>> \o v[i + 2].value
        BY <1>8, <4>2
      <4>6. p[i].ok \in BOOLEAN /\ p[i].ok /\ p[i].value = p[i + 2].value
        BY <3>5, <4>1, <4>2 DEF Agree
      <4>7. o[i].ok \in BOOLEAN /\ o[i].ok /\ o[i].value = [ports |-> p[i].value, volumes |-> v[i].value]
        BY <1>8, <4>3, <4>4, <4>5, <4>6
      <4> QED BY <4>5, <4>6, <4>7 DEF Agree
    <3>8. CASE IsMount(args[i + 1]) /\ ~ o[i + 2].ok
      BY <1>8, <3>1, <3>2, <3>3, <3>4, <3>5, <3>8 DEF Agree
    <3> QED BY <3>6, <3>7, <3>8
  <2> QED BY <2>1, <2>2, <2>3, <2>4, <2>5
<1>4. 0 \in S
  BY <1>3
<1>5. ASSUME NEW m \in S PROVE m + 1 \in S
  <2> SUFFICES ASSUME m + 1 <= N + 1, NEW i \in N + 2 - (m + 1) .. N + 2
               PROVE  Agree(p, v, o, i)
    OBVIOUS
  <2>1. \A j \in N + 2 - m .. N + 2 : Agree(p, v, o, j)
    OBVIOUS
  <2>2. CASE i \in N + 2 - m .. N + 2
    BY <2>1, <2>2
  <2>3. CASE i = N + 2 - (m + 1)
    <3>1. i \in 1 .. N + 2 /\ i + 1 = N + 2 - m /\ (i < N => i + 2 \in N + 2 - m .. N + 2)
      BY <2>3
    <3> QED BY <1>3, <2>1, <3>1
  <2> QED BY <2>2, <2>3
<1>6. N + 1 \in S
  <2>1. S \in SUBSET Nat
    OBVIOUS
  <2> HIDE DEF S
  <2> QED BY <1>4, <1>5, <2>1, Inductively
<1> QED BY <1>6

\* No fixed command starts as `container run` does, and none is called so.
LEMMA PatternsAreNotRun ==
  /\ DOMAIN Patterns = 1 .. 36
  /\ \A k \in 1 .. 36 : Patterns[k][2] # "ContainerRun"
  /\ \A line : line[1] = Word("container") /\ line[2] = Word("run") =>
        \A k \in 1 .. 36 : ~ Matches(line, Patterns[k][1])
<1>1. DOMAIN Patterns = 1 .. 36 /\ \A k \in 1 .. 36 : Patterns[k][2] # "ContainerRun"
  BY DEF Patterns
<1>2. \A k \in 1 .. 36 : 1 \in DOMAIN Patterns[k][1]
  BY DEF Patterns
<1>3. \A k \in 1 .. 36 : Patterns[k][1][1] = "container" => 2 \in DOMAIN Patterns[k][1]
  BY DEF Patterns
<1>4. \A k \in 1 .. 36 : Patterns[k][1][1] # "*"
  BY DEF Patterns
<1>5. \A k \in 1 .. 36 : Patterns[k][1][1] = "container" =>
                           Patterns[k][1][2] # "*" /\ Patterns[k][1][2] # "run"
  BY DEF Patterns
<1>6. \A a, b : Word(a) = Word(b) => a = b
  BY DEF Word
<1>7. ASSUME NEW line, line[1] = Word("container"), line[2] = Word("run"), NEW k \in 1 .. 36
      PROVE  ~ Matches(line, Patterns[k][1])
  BY <1>2, <1>3, <1>4, <1>5, <1>6, <1>7 DEF Matches
<1> QED BY <1>1, <1>7

\* A line that starts as `container run` with an image is one.
LEMMA ParseOfRun ==
  ASSUME NEW W, NEW image, NEW args \in Seq(W)
  PROVE  LET line == <<Word("container"), Word("run"), image>> \o args
         IN  parse(line) = ContainerRunLine(line) /\ SubSeq(line, 4, Len(line)) = args
<1> DEFINE head == <<Word("container"), Word("run"), image>>
           line == head \o args
           U == W \cup {Word("container"), Word("run"), image}
<1>1. head \in Seq(U) /\ Len(head) = 3 /\ args \in Seq(U)
  BY SeqMonotonic
<1>2. /\ line \in Seq(U) /\ Len(line) = 3 + Len(args) /\ Len(line) >= 3
      /\ line[1] = Word("container") /\ line[2] = Word("run")
      /\ \A i \in 1 .. Len(args) : line[i + 3] = args[i]
  <2> HIDE DEF U
  <2> QED BY <1>1
<1>3. SubSeq(line, 4, Len(line)) = args
  <2> HIDE DEF U, head, line
  <2> QED BY <1>1, <1>2
<1>4. {k \in DOMAIN Patterns : Matches(line, Patterns[k][1])} = {}
  <2> HIDE DEF U, head, line
  <2> QED BY <1>2, PatternsAreNotRun
<1>5. ~ (line[1] = Word("echo"))
  <2> HIDE DEF U, head, line
  <2> QED BY <1>2 DEF Word
<1>6. parse(line) = ContainerRunLine(line)
  <2> HIDE DEF U, head, line
  <2> QED BY <1>2, <1>4, <1>5 DEF parse
<1> QED BY <1>3, <1>6

\* For every list of options, of any length: the two scans of `container run`
\* accept what one scan accepts and give the same (shell.rs:157-203).
THEOREM OneScan ==
  ASSUME NEW W, NEW image, NEW args \in Seq(W)
  PROVE  LET r == parse(<<Word("container"), Word("run"), image>> \o args)
             one == OptionsOf(args)
         IN  /\ r.ok = one.ok
             /\ r.ok => r.value.ports = one.value.ports /\ r.value.volumes = one.value.volumes
<1> DEFINE line == <<Word("container"), Word("run"), image>> \o args
<1>1. parse(line) = ContainerRunLine(line) /\ SubSeq(line, 4, Len(line)) = args
  BY ParseOfRun
<1>2. PICK p, v, o : /\ Solves("ports", args, p) /\ parse_ports(args) = p[1]
                     /\ Solves("volumes", args, v) /\ parse_volumes(args) = v[1]
                     /\ Solves("both", args, o) /\ OptionsOf(args) = o[1]
  BY ScansAreSolutions
<1>3. Agree(p, v, o, 1)
  BY <1>2, ScansAgree
<1> HIDE DEF line
<1> DEFINE both == [cmd |-> "ContainerRun", image |-> line[3],
                    ports |-> p[1].value, volumes |-> v[1].value]
<1>4. parse(line) = IF ~ p[1].ok THEN p[1] ELSE IF ~ v[1].ok THEN v[1] ELSE Ok(both)
  BY <1>1, <1>2 DEF ContainerRunLine
<1>5. /\ Ok(both).ok = TRUE /\ Ok(both).value = both
      /\ both.ports = p[1].value /\ both.volumes = v[1].value
  BY DEF Ok
<1> HIDE DEF both
<1>6. /\ parse(line).ok = o[1].ok
      /\ parse(line).ok => /\ parse(line).value.ports = o[1].value.ports
                           /\ parse(line).value.volumes = o[1].value.volumes
  <2>1. /\ p[1].ok \in BOOLEAN /\ v[1].ok \in BOOLEAN /\ o[1].ok \in BOOLEAN
        /\ o[1].ok <=> p[1].ok /\ v[1].ok
        /\ o[1].ok => o[1].value = [ports |-> p[1].value, volumes |-> v[1].value]
    BY <1>3 DEF Agree
  <2>2. CASE o[1].ok
    <3>1. parse(line) = Ok(both)
      BY <1>4, <2>1, <2>2
    <3>2. o[1].value.ports = p[1].value /\ o[1].value.volumes = v[1].value
      BY <2>1, <2>2
    <3> QED BY <1>5, <2>1, <2>2, <3>1, <3>2
  <2>3. CASE ~ o[1].ok
    <3>1. (parse(line) = p[1] /\ ~ p[1].ok) \/ (parse(line) = v[1] /\ ~ v[1].ok)
      BY <1>4, <2>1, <2>3
    <3> QED BY <2>1, <2>3, <3>1
  <2> QED BY <2>2, <2>3
<1> QED BY <1>2, <1>6 DEF line

\* OptionsReadOnce, whatever the option words and however many of them.
THEOREM OptionsAreReadOnce == Spec => []OptionsReadOnce
<1>1. TwoScansAreOne
  <2>1. \A args \in SeqOf(OptionWords, MaxOptions) : args \in Seq(OptionWords)
    BY ShellAssumption, SeqDef DEF SeqOf
  <2> QED BY <2>1, OneScan DEF TwoScansAreOne
<1>2. OptionsReadOnce
  BY <1>1 DEF OptionsReadOnce
<1> QED BY <1>2, PTL

-----------------------------------------------------------------------------
(* What a line that parses as `container run` asks for.                     *)

\* The mappings of a line are pairs of 16-bit numbers.
LEMMA ScannedPorts ==
  ASSUME NEW args, Len(args) \in Nat, parse_ports(args).ok
  PROVE  parse_ports(args).value \in Seq(PortMapping)
<1> DEFINE N == Len(args)
<1>1. PICK p : Solves("ports", args, p) /\ parse_ports(args) = p[1]
  BY ScansAreSolutions
<1> DEFINE Good(i) == p[i].ok => p[i].value \in Seq(PortMapping)
           S == {m \in Nat : m <= N + 1 => \A i \in N + 2 - m .. N + 2 : Good(i)}
<1>2. \A i \in 1 .. N + 2 : p[i] = ScanStep(args, PortFlags, "port", p, i)
  BY <1>1 DEF Solves, StepOf
<1>3. ASSUME NEW w, Value("port", w).ok
      PROVE  <<Value("port", w).value>> \in Seq(PortMapping)
  <2>1. IsMapping(w) /\ Value("port", w).value = Mapping(w)
    BY <1>3 DEF Value, Ok, Err
  <2>2. Mapping(w) \in PortMapping
    BY <2>1, ShellAssumption DEF IsMapping, Mapping, IsU16, PortMapping
  <2> QED BY <2>1, <2>2
<1>4. ASSUME NEW i \in 1 .. N + 2, i <= N => Good(i + 1), i < N => Good(i + 2)
      PROVE  Good(i)
  <2>1. p[i] = ScanStep(args, PortFlags, "port", p, i)
    BY <1>2
  <2> HIDE DEF S
  <2>2. CASE i > N
    <3>1. p[i].value = <<>>
      BY <2>1, <2>2 DEF ScanStep, Ok
    <3> QED BY <3>1
  <2>3. CASE i <= N /\ args[i] \notin PortFlags
    BY <1>4, <2>1, <2>3 DEF ScanStep
  <2>4. CASE i = N /\ args[i] \in PortFlags
    BY <2>1, <2>4 DEF ScanStep, Err
  <2>5. CASE i < N /\ args[i] \in PortFlags
    <3> DEFINE v == Value("port", args[i + 1])
    <3>1. p[i] = IF v.ok /\ p[i + 2].ok THEN Ok(<<v.value>> \o p[i + 2].value)
                 ELSE IF v.ok THEN p[i + 2] ELSE v
      BY <2>1, <2>5 DEF ScanStep
    <3>2. v.ok => <<v.value>> \in Seq(PortMapping)
      BY <1>3
    <3>3. p[i + 2].ok => p[i + 2].value \in Seq(PortMapping)
      BY <1>4, <2>5
    <3>4. \A x : Ok(x).value = x
      BY DEF Ok
    <3> HIDE DEF v
    <3>5. v.ok /\ p[i + 2].ok => <<v.value>> \o p[i + 2].value \in Seq(PortMapping)
      BY <3>2, <3>3, ConcatProperties
    <3>6. CASE v.ok /\ p[i + 2].ok
      <4>1. p[i] = Ok(<<v.value>> \o p[i + 2].value)
        BY <3>1, <3>6
      <4>2. p[i].value = <<v.value>> \o p[i + 2].value
        BY <3>4, <4>1
      <4> QED BY <3>5, <3>6, <4>2
    <3>7. CASE v.ok /\ ~ p[i + 2].ok
      BY <3>1, <3>7
    <3>8. CASE ~ v.ok
      BY <3>1, <3>8
    <3> QED BY <3>6, <3>7, <3>8
  <2> QED BY <2>2, <2>3, <2>4, <2>5
<1> HIDE DEF Good
<1>5. 0 \in S
  BY <1>4
<1>6. ASSUME NEW m \in S PROVE m + 1 \in S
  <2> SUFFICES ASSUME m + 1 <= N + 1, NEW i \in N + 2 - (m + 1) .. N + 2
               PROVE  Good(i)
    OBVIOUS
  <2>1. \A j \in N + 2 - m .. N + 2 : Good(j)
    OBVIOUS
  <2>2. CASE i \in N + 2 - m .. N + 2
    BY <2>1, <2>2
  <2>3. CASE i = N + 2 - (m + 1)
    <3>1. i \in 1 .. N + 2 /\ i + 1 = N + 2 - m /\ (i < N => i + 2 \in N + 2 - m .. N + 2)
      BY <2>3
    <3> QED BY <1>4, <2>1, <3>1
  <2> QED BY <2>2, <2>3
<1>7. N + 1 \in S
  <2>1. S \in SUBSET Nat
    OBVIOUS
  <2> HIDE DEF S
  <2> QED BY <1>5, <1>6, <2>1, Inductively
<1>8. Good(1)
  BY <1>7
<1> QED BY <1>1, <1>8 DEF Good

LEMMA RunPorts ==
  ASSUME NEW line \in Lines, parse(line).ok, parse(line).value.cmd = "ContainerRun"
  PROVE  parse(line).value.ports \in Seq(PortMapping)
<1> DEFINE fixed == {k \in DOMAIN Patterns : Matches(line, Patterns[k][1])}
           rest == SubSeq(line, 4, Len(line))
<1>0. line \in Seq(Seq(STRING)) /\ Len(rest) \in Nat
  BY RuntimeAssumption, SMTT(30)
<1>1. fixed = {}
  <2> SUFFICES ASSUME fixed # {} PROVE FALSE
    OBVIOUS
  <2>1. fixed \in SUBSET Nat
    BY PatternsAreNotRun
  <2>2. Min(fixed) \in fixed
    BY <2>1, LeastElement DEF Min
  <2>3. parse(line).value.cmd = Patterns[Min(fixed)][2]
    BY DEF parse, Ok
  <2> QED BY <2>2, <2>3, PatternsAreNotRun
<1>2. parse(line) = ContainerRunLine(line)
  <2>1. EchoLine(line).value.cmd = "Echo"
    BY DEF EchoLine, Ok
  <2> HIDE DEF fixed
  <2>2. \A e : ~ Err(e).ok
    BY DEF Err
  <2> QED BY <1>1, <2>1, <2>2 DEF parse, fixed
<1>3. parse_ports(rest).ok /\ parse(line).value.ports = parse_ports(rest).value
  BY <1>2 DEF ContainerRunLine, Ok
<1> QED BY <1>0, <1>3, ScannedPorts

-----------------------------------------------------------------------------
(* The runtime.  Its records are numbered from 1 without a gap, and until   *)
(* the console asks for a login they are those of the containers the boot   *)
(* loop has reached.                                                        *)

\* The rules a declared container asks for, and those that are installed.
RulesOf(i) == {[host |-> m.host, container |-> m.container, id |-> i] :
                  m \in {Declared[i].ports[k] : k \in DOMAIN Declared[i].ports}}
Rules == {[host |-> forwards[k].host_port, container |-> forwards[k].container_port,
           id |-> forwards[k].container_id] : k \in DOMAIN forwards}

Numbered == next_id \in Nat \ {0} /\ DOMAIN store = 1 .. next_id - 1

Typed ==
    /\ phase \in {"boot", "login", "shell"}
    /\ pending \in Seq(ContainerSpec)
    /\ forwards \in Seq(ActivePortForward)

BootedSoFar ==
    phase \in {"boot", "login"} =>
        /\ Len(pending) = Len(Declared) - (next_id - 1)
        /\ \A k \in DOMAIN pending : pending[k] = Declared[next_id - 1 + k]
        /\ \A i \in 1 .. next_id - 1 : store[i].image = Declared[i].image
        /\ Rules = UNION {RulesOf(i) : i \in 1 .. next_id - 1}
        /\ phase = "login" => pending = <<>>

Inv == Numbered /\ Typed /\ BootedSoFar

LEMMA Initially == Init => Inv
<1> SUFFICES ASSUME Init PROVE Inv
  OBVIOUS
<1>1. Numbered /\ Typed
  BY RuntimeAssumption DEF Init, Numbered, Typed
<1>2. Rules = {}
  BY DEF Init, Rules
<1>3. UNION {RulesOf(i) : i \in 1 .. next_id - 1} = {}
  BY DEF Init
<1> QED BY <1>1, <1>2, <1>3, RuntimeAssumption DEF Init, Inv, BootedSoFar

\* Starting a container numbers its record and appends its rules.
LEMMA LaunchEffect ==
  ASSUME Numbered, Typed, NEW spec, spec.ports \in Seq(PortMapping), Launch(spec)
  PROVE  /\ Numbered' /\ next_id' = next_id + 1
         /\ \A i \in DOMAIN store : i # next_id /\ store'[i] = store[i]
         /\ store'[next_id].image = spec.image
         /\ \E more \in Seq(ActivePortForward) :
              /\ forwards' = forwards \o more
              /\ Len(more) = Len(spec.ports)
              /\ \A k \in 1 .. Len(more) :
                    more[k] = [container_id |-> next_id, host_port |-> spec.ports[k].host,
                               container_port |-> spec.ports[k].container]
<1> DEFINE id == next_id
           more == [k \in 1 .. Len(spec.ports) |->
                      [container_id |-> id, host_port |-> spec.ports[k].host,
                       container_port |-> spec.ports[k].container]]
<1>1. Start(Create).id = id
  BY DEF Start, Create
<1>2. next_id' = id + 1 /\ register(id, spec.image, "Running") /\ push_forwards(id, spec.ports)
  BY <1>1 DEF Launch
<1>3. DOMAIN store' = DOMAIN store \cup {id} /\ id \notin DOMAIN store
  BY <1>2 DEF register, Numbered
<1>4. Numbered'
  BY <1>2, <1>3 DEF Numbered
<1>5. /\ \A i \in DOMAIN store : i # id /\ store'[i] = store[i]
      /\ store'[id].image = spec.image
  BY <1>2, <1>3 DEF register
<1>6. more \in Seq(ActivePortForward) /\ Len(more) = Len(spec.ports) /\ forwards' = forwards \o more
  <2>1. Len(spec.ports) \in Nat /\ id \in Nat
    BY DEF Numbered
  <2>2. ASSUME NEW k \in 1 .. Len(spec.ports) PROVE more[k] \in ActivePortForward
    <3>1. spec.ports[k] \in PortMapping
      BY <2>1, ElementOfSeq
    <3>2. spec.ports[k].host \in 0 .. U16Max /\ spec.ports[k].container \in 0 .. U16Max
      BY <3>1 DEF PortMapping
    <3> QED BY <2>1, <3>2 DEF ActivePortForward
  <2>3. forwards' = forwards \o more
    BY <1>2 DEF push_forwards
  <2>4. more \in [1 .. Len(spec.ports) -> ActivePortForward]
    BY <2>2
  <2>5. Len(more) = Len(spec.ports)
    BY <2>1
  <2> HIDE DEF more
  <2>6. more \in Seq(ActivePortForward)
    BY <2>1, <2>4, SeqDef
  <2> QED BY <2>3, <2>5, <2>6
<1> QED BY <1>2, <1>4, <1>5, <1>6

\* What a step may do to the rules: append some, or nothing.
ForwardsGrow == \E more \in Seq(ActivePortForward) : forwards' = forwards \o more

LEMMA NothingAppended == ASSUME Typed, UNCHANGED forwards PROVE ForwardsGrow
<1>1. <<>> \in Seq(ActivePortForward) /\ forwards' = forwards \o <<>>
  BY ConcatEmptySeq DEF Typed
<1> QED BY <1>1 DEF ForwardsGrow

LEMMA BootStep ==
  ASSUME Inv, BootContainer PROVE Inv' /\ ForwardsGrow
<1> DEFINE n == next_id - 1
           spec == Head(pending)
<1>0. /\ Numbered /\ Typed /\ phase = "boot" /\ phase' = "boot" /\ pending # <<>>
      /\ pending' = Tail(pending) /\ Launch(spec)
      /\ Len(pending) = Len(Declared) - n /\ n \in Nat
      /\ \A k \in DOMAIN pending : pending[k] = Declared[n + k]
      /\ \A i \in 1 .. n : store[i].image = Declared[i].image
      /\ Rules = UNION {RulesOf(i) : i \in 1 .. n}
  BY DEF Inv, BootContainer, BootedSoFar, Numbered
<1>1. /\ pending \in Seq(ContainerSpec) /\ spec \in ContainerSpec /\ spec = Declared[n + 1]
      /\ Len(Declared) \in Nat /\ n + 1 <= Len(Declared)
      /\ Tail(pending) \in Seq(ContainerSpec) /\ Len(Tail(pending)) = Len(pending) - 1
      /\ \A k \in 1 .. Len(Tail(pending)) : Tail(pending)[k] = pending[k + 1]
  BY <1>0, RuntimeAssumption DEF Typed
<1>2. spec.ports \in Seq(PortMapping)
  BY <1>1 DEF ContainerSpec
<1> HIDE DEF spec
<1>3. /\ Numbered' /\ next_id' = next_id + 1
      /\ \A i \in DOMAIN store : i # next_id /\ store'[i] = store[i]
      /\ store'[next_id].image = spec.image
  BY <1>0, <1>2, LaunchEffect
<1>4. PICK more \in Seq(ActivePortForward) :
         /\ forwards' = forwards \o more
         /\ Len(more) = Len(spec.ports)
         /\ \A k \in 1 .. Len(more) :
               more[k] = [container_id |-> next_id, host_port |-> spec.ports[k].host,
                          container_port |-> spec.ports[k].container]
  BY <1>0, <1>2, LaunchEffect
<1>5. Typed'
  BY <1>0, <1>1, <1>4, ConcatProperties DEF Typed
<1>6. \A k \in DOMAIN pending' : pending'[k] = Declared[n + 1 + k]
  BY <1>0, <1>1, SMTT(30)
<1>7. \A i \in 1 .. n + 1 : store'[i].image = Declared[i].image
  <2> SUFFICES ASSUME NEW i \in 1 .. n + 1 PROVE store'[i].image = Declared[i].image
    OBVIOUS
  <2>1. CASE i \in 1 .. n
    BY <1>0, <1>3, <2>1 DEF Numbered
  <2>2. CASE i = n + 1
    BY <1>0, <1>1, <1>3, <2>2 DEF Numbered
  <2> QED BY <1>0, <2>1, <2>2
<1>8. Rules' = UNION {RulesOf(i) : i \in 1 .. n + 1}
  <2> DEFINE rule(f) == [host |-> f.host_port, container |-> f.container_port,
                         id |-> f.container_id]
  <2>1. Rules = {rule(forwards[k]) : k \in DOMAIN forwards}
    BY DEF Rules
  <2>2. Rules' = {rule((forwards \o more)[k]) : k \in DOMAIN (forwards \o more)}
    BY <1>4 DEF Rules
  <2>3. /\ DOMAIN forwards = 1 .. Len(forwards) /\ Len(forwards) \in Nat /\ Len(more) \in Nat
        /\ DOMAIN more = 1 .. Len(more)
        /\ DOMAIN (forwards \o more) = 1 .. Len(forwards) + Len(more)
        /\ \A k \in 1 .. Len(forwards) : (forwards \o more)[k] = forwards[k]
        /\ \A k \in 1 .. Len(more) : (forwards \o more)[Len(forwards) + k] = more[k]
    BY <1>0, <1>4 DEF Typed
  <2> HIDE DEF rule
  <2>4. Rules' = Rules \cup {rule(more[k]) : k \in DOMAIN more}
    <3>1. ASSUME NEW k \in 1 .. Len(forwards) + Len(more)
          PROVE  rule((forwards \o more)[k]) \in Rules \cup {rule(more[j]) : j \in DOMAIN more}
      <4>1. CASE k <= Len(forwards)
        BY <2>1, <2>3, <4>1
      <4>2. CASE k > Len(forwards)
        <5>1. k - Len(forwards) \in 1 .. Len(more) /\ k = Len(forwards) + (k - Len(forwards))
          BY <2>3, <4>2
        <5> QED BY <2>3, <5>1
      <4> QED BY <2>3, <4>1, <4>2
    <3>2. ASSUME NEW k \in DOMAIN forwards PROVE rule(forwards[k]) \in Rules'
      BY <2>2, <2>3
    <3>3. ASSUME NEW k \in DOMAIN more PROVE rule(more[k]) \in Rules'
      <4>1. Len(forwards) + k \in DOMAIN (forwards \o more)
        BY <2>3
      <4> QED BY <2>2, <2>3, <4>1
    <3> QED BY <2>1, <2>2, <2>3, <3>1, <3>2, <3>3
  <2>5. {rule(more[k]) : k \in DOMAIN more} = RulesOf(n + 1)
    <3>1. DOMAIN spec.ports = 1 .. Len(more) /\ next_id = n + 1
      BY <1>0, <1>2, <1>4 DEF Numbered
    <3>2. \A k \in 1 .. Len(more) :
             rule(more[k]) = [host |-> spec.ports[k].host, container |-> spec.ports[k].container,
                              id |-> n + 1]
      <4> TAKE k \in 1 .. Len(more)
      <4>1. /\ more[k].container_id = n + 1 /\ more[k].host_port = spec.ports[k].host
            /\ more[k].container_port = spec.ports[k].container
        <5>1. more[k] = [container_id |-> next_id, host_port |-> spec.ports[k].host,
                         container_port |-> spec.ports[k].container]
          BY <1>4
        <5> QED BY <3>1, <5>1
      <4> QED BY <4>1 DEF rule
    <3>3. RulesOf(n + 1) =
             {[host |-> spec.ports[k].host, container |-> spec.ports[k].container, id |-> n + 1]
                 : k \in 1 .. Len(more)}
      BY <1>1, <3>1 DEF RulesOf
    <3> QED BY <2>3, <3>2, <3>3
  <2>6. UNION {RulesOf(i) : i \in 1 .. n + 1} =
       (UNION {RulesOf(i) : i \in 1 .. n}) \cup RulesOf(n + 1)
    <3>1. 1 .. n + 1 = 1 .. n \cup {n + 1}
      BY <1>0
    <3> QED BY <3>1
  <2> QED BY <1>0, <2>4, <2>5, <2>6
<1>9. BootedSoFar'
  <2>1. next_id' - 1 = n + 1
    BY <1>0, <1>3 DEF Numbered
  <2>2. (UNION {RulesOf(i) : i \in 1 .. next_id - 1})' = UNION {RulesOf(i) : i \in 1 .. n + 1}
    BY <2>1 DEF RulesOf
  <2> QED BY <1>0, <1>1, <1>6, <1>7, <1>8, <2>1, <2>2 DEF BootedSoFar
<1> QED BY <1>3, <1>4, <1>5, <1>9 DEF Inv, ForwardsGrow

\* Neither a login nor a command disturbs what the boot set up.
LEMMA ConsoleStep ==
  ASSUME Inv, StartGetty \/ Login PROVE Inv' /\ ForwardsGrow
<1>1. /\ UNCHANGED <<pending, next_id, store, forwards>>
      /\ phase \in {"boot", "login"} /\ phase' \in {"login", "shell"}
      /\ phase' = "login" => pending = <<>>
  BY DEF Inv, BootedSoFar, StartGetty, Login, containerVars
<1>2. Numbered' /\ Typed'
  BY <1>1 DEF Inv, Numbered, Typed
<1>3. Rules' = Rules
        /\ (UNION {RulesOf(i) : i \in 1 .. next_id - 1})' = UNION {RulesOf(i) : i \in 1 .. next_id - 1}
  BY <1>1 DEF Rules, RulesOf
<1>4. BootedSoFar'
  BY <1>1, <1>3 DEF Inv, BootedSoFar
<1> QED BY <1>1, <1>2, <1>4, NothingAppended DEF Inv

LEMMA ShellStep ==
  ASSUME Inv, NEW line \in Lines, Submit(line) PROVE Inv' /\ ForwardsGrow
<1> DEFINE c == parse(line).value
<1>1. Numbered /\ Typed /\ phase' = "shell"
  BY DEF Inv, Submit
<1>2. CASE parse(line).ok /\ ContainerRun(c)
  <2> DEFINE spec == [image |-> c.image, ports |-> c.ports]
  <2>1. spec.ports \in Seq(PortMapping)
    BY <1>2, RunPorts DEF ContainerRun
  <2>2. Launch(spec) /\ UNCHANGED pending
    BY <1>2 DEF ContainerRun
  <2> HIDE DEF spec
  <2>3. Numbered' /\ ForwardsGrow
    BY <1>1, <2>1, <2>2, LaunchEffect DEF ForwardsGrow
  <2>4. forwards' \in Seq(ActivePortForward)
    BY <1>1, <2>3, ConcatProperties DEF ForwardsGrow, Typed
  <2> QED BY <1>1, <2>2, <2>3, <2>4 DEF Inv, Typed, BootedSoFar
<1>3. CASE parse(line).ok /\ ContainerStop(c)
  <2>1. /\ UNCHANGED <<pending, next_id, forwards>>
        /\ DOMAIN store' = DOMAIN store
    BY <1>3 DEF ContainerStop
  <2> QED BY <1>1, <2>1, NothingAppended DEF Inv, Numbered, Typed, BootedSoFar
<1>4. CASE UNCHANGED <<pending, containerVars>>
  BY <1>1, <1>4, NothingAppended DEF Inv, Numbered, Typed, BootedSoFar, containerVars
<1>5. \/ parse(line).ok /\ ContainerRun(c)
      \/ parse(line).ok /\ ContainerStop(c)
      \/ UNCHANGED <<pending, containerVars>>
  BY DEF Submit, execute, ImagePull, ImageRemove, VolumeCreate, VolumeRemove, Others
<1> QED BY <1>2, <1>3, <1>4, <1>5

\* Whatever the step, the invariant stays and rules are only appended.
LEMMA AnyStep ==
  ASSUME Inv, [Next]_vars PROVE Inv' /\ ForwardsGrow
<1>1. CASE UNCHANGED vars
  <2>1. UNCHANGED <<phase, pending, next_id, store, forwards>>
    BY <1>1 DEF vars
  <2>2. Numbered' /\ Typed'
    BY <2>1 DEF Inv, Numbered, Typed
  <2>3. BootedSoFar'
    BY <2>1 DEF Inv, BootedSoFar, Rules, RulesOf
  <2> QED BY <2>1, <2>2, <2>3, NothingAppended DEF Inv
<1> QED BY <1>1, BootStep, ConsoleStep, ShellStep DEF Next

LEMMA RuntimeInductive == Spec => []Inv
<1>1. Inv /\ [Next]_vars => Inv'
  BY AnyStep
<1> QED BY Initially, <1>1, PTL DEF Spec

\* The number `ps` prints in front of a record is the id `container stop`
\* takes: records are never removed, so position and id stay equal.
THEOREM PsNumbersAreIds == Spec => []PsNumberIsId
<1>1. ASSUME Inv, NEW id \in DOMAIN store PROVE PsNumber(id) = id
  <2>1. id \in Nat \ {0} /\ {i \in DOMAIN store : i <= id} = 1 .. id
    BY <1>1 DEF Inv, Numbered
  <2>2. Cardinality(1 .. id) = id
    BY <2>1, FS_Interval
  <2> QED BY <2>1, <2>2 DEF PsNumber
<1>2. Inv => PsNumberIsId
  BY <1>1 DEF PsNumberIsId
<1> QED BY <1>2, RuntimeInductive, PTL

\* When the console asks for a login, the declared containers, and they alone,
\* have their records and their rules (main.rs:113-146).
THEOREM BootServesDeclared == Spec => []DeclaredAreServed
<1>1. ASSUME Inv, phase = "login" PROVE DeclaredAreServed
  <2>1. /\ next_id - 1 = Len(Declared) /\ DOMAIN store = 1 .. next_id - 1
        /\ \A i \in 1 .. next_id - 1 : store[i].image = Declared[i].image
        /\ Rules = UNION {RulesOf(i) : i \in 1 .. next_id - 1}
    BY <1>1, RuntimeAssumption DEF Inv, Numbered, Typed, BootedSoFar
  <2>2. DOMAIN Declared = 1 .. next_id - 1
    BY <2>1, RuntimeAssumption
  <2> QED BY <2>1, <2>2 DEF DeclaredAreServed, Rules, RulesOf
<1>2. Inv => DeclaredAreServed
  BY <1>1 DEF DeclaredAreServed
<1> QED BY <1>2, RuntimeInductive, PTL

\* The first rule for a port is still the first behind more of them.
LEMMA FirstMatchStays ==
  ASSUME NEW S, NEW list \in Seq(S), NEW more \in Seq(S),
         NEW p \in {list[k].host_port : k \in DOMAIN list}
  PROVE  lookup_port_forward(list \o more, p) = lookup_port_forward(list, p)
<1> DEFINE first(l) == CHOOSE k \in Matching(l, p) : \A j \in Matching(l, p) : k <= j
<1>1. Matching(list, p) \in SUBSET Nat /\ Matching(list, p) # {}
  BY DEF Matching
<1>2. PICK m \in Matching(list, p) : \A j \in Matching(list, p) : m <= j
  BY <1>1, LeastElement
<1>3. /\ m \in 1 .. Len(list) /\ Len(list) \in Nat /\ Len(more) \in Nat
      /\ DOMAIN (list \o more) = 1 .. Len(list) + Len(more)
      /\ \A k \in 1 .. Len(list) : (list \o more)[k] = list[k]
  BY DEF Matching
<1>4. m \in Matching(list \o more, p)
  BY <1>3 DEF Matching
<1>5. ASSUME NEW j \in Matching(list \o more, p) PROVE m <= j
  <2>1. j \in 1 .. Len(list) + Len(more)
    BY <1>3 DEF Matching
  <2>2. CASE j <= Len(list)
    <3>1. j \in Matching(list, p)
      BY <1>3, <2>1, <2>2 DEF Matching
    <3> QED BY <1>2, <3>1
  <2> QED BY <1>3, <2>1, <2>2
<1>6. first(list) = m
  BY <1>1, <1>2
<1>7. first(list \o more) = m
  <2>1. \A k \in Matching(list \o more, p) : k \in Nat
    BY <1>3 DEF Matching
  <2> DEFINE M == Matching(list \o more, p)
  <2>2. \A k \in M : (\A j \in M : k <= j) => k = m
    BY <1>3, <1>4, <1>5, <2>1
  <2>3. m \in M /\ \A j \in M : m <= j
    BY <1>4, <1>5
  <2> HIDE DEF M
  <2>4. (CHOOSE k \in M : \A j \in M : k <= j) = m
    BY <2>2, <2>3
  <2> QED BY <2>4 DEF M
<1>8. lookup_port_forward(list, p) = list[first(list)].container_id
  BY <1>1 DEF lookup_port_forward
<1>9. lookup_port_forward(list \o more, p) = (list \o more)[first(list \o more)].container_id
  BY <1>4 DEF lookup_port_forward
<1> HIDE DEF first
<1> QED BY <1>3, <1>6, <1>7, <1>8, <1>9

\* A host port, once routed, keeps its container (vswitch.rs:134-136).
THEOREM RoutesStay == Spec => RoutesAreStable
<1> DEFINE Ports == {forwards[k].host_port : k \in DOMAIN forwards}
<1>1. ASSUME Inv, [Next]_vars, NEW p \in Ports
      PROVE  lookup_port_forward(forwards', p) = lookup_port_forward(forwards, p)
  <2>1. PICK more \in Seq(ActivePortForward) : forwards' = forwards \o more
    BY <1>1, AnyStep DEF ForwardsGrow
  <2> QED BY <1>1, <2>1, FirstMatchStays DEF Inv, Typed
<1>2. Inv /\ [Next]_vars =>
        [\A p \in Ports : lookup_port_forward(forwards, p)' = lookup_port_forward(forwards, p)]_vars
  BY <1>1 DEF lookup_port_forward, Matching
<1> QED BY <1>2, RuntimeInductive, PTL DEF Spec, RoutesAreStable

-----------------------------------------------------------------------------
(* The console.                                                             *)

\* Text of ASCII bytes is those bytes.
LEMMA AsciiIsItself ==
  ASSUME NEW bytes \in Seq(0 .. 127) PROVE from_utf8_lossy(bytes) = bytes
<1> DEFINE N == Len(bytes)
           Step(f, n) == IF n = 0 THEN <<>>
                         ELSE IF Continues(bytes, n) THEN f[n - 1]
                         ELSE Append(f[n - 1], CharAt(bytes, n))
           Solution(f) == f = [n \in 0 .. N |-> Step(f, n)]
           prefix == [n \in 0 .. N |-> SubSeq(bytes, 1, n)]
<1>0. N \in Nat /\ \A n \in 1 .. N : bytes[n] \in 0 .. 127
  BY ElementOfSeq, LenProperties
<1>1. /\ N \in Nat
      /\ \A n \in 1 .. N : ~ Continues(bytes, n) /\ CharAt(bytes, n) = bytes[n]
  <2>1. ASSUME NEW n \in 1 .. N PROVE bytes[n] < 128 /\ bytes[n] \notin 128 .. 191
    <3>1. bytes[n] \in 0 .. 127
      BY <1>0
    <3>2. \A b \in 0 .. 127 : b < 128 /\ b \notin 128 .. 191
      OBVIOUS
    <3> QED BY ONLY <3>1, <3>2
  <2> QED BY <1>0, <2>1 DEF Continues, CharAt
<1>2. \A n \in 1 .. N : SubSeq(bytes, 1, n) = Append(SubSeq(bytes, 1, n - 1), bytes[n])
  BY <1>1
<1>3. SubSeq(bytes, 1, 0) = <<>> /\ SubSeq(bytes, 1, N) = bytes
  BY <1>1
<1>4. Solution(prefix)
  <2>1. \A n \in 0 .. N : Step(prefix, n) = SubSeq(bytes, 1, n)
    BY <1>1, <1>2, <1>3
  <2> QED BY <2>1
<1>5. ASSUME NEW f, Solution(f) PROVE f[N] = bytes
  <2> DEFINE S == {n \in Nat : n <= N => f[n] = SubSeq(bytes, 1, n)}
  <2>1. \A n \in 0 .. N : f[n] = Step(f, n)
    BY <1>1, <1>5
  <2>2. 0 \in S
    <3>1. 0 \in 0 .. N
      BY <1>1
    <3>2. f[0] = <<>>
      BY <2>1, <3>1
    <3> QED BY <1>3, <3>2
  <2>3. ASSUME NEW n \in S PROVE n + 1 \in S
    <3> SUFFICES ASSUME n + 1 <= N PROVE f[n + 1] = SubSeq(bytes, 1, n + 1)
      OBVIOUS
    <3>1. n \in Nat /\ n + 1 \in 1 .. N /\ (n + 1) - 1 = n /\ n + 1 # 0
      BY <1>1
    <3>2. f[n] = SubSeq(bytes, 1, n)
      BY <1>1, <3>1
    <3>3. f[n + 1] = Append(f[n], bytes[n + 1])
      <4>1. n + 1 \in 0 .. N
        BY <1>1, <3>1
      <4>2. f[n + 1] = Step(f, n + 1)
        BY <2>1, <4>1
      <4>3. Step(f, n + 1) = Append(f[(n + 1) - 1], CharAt(bytes, n + 1))
        BY <1>1, <3>1
      <4> HIDE DEF Step
      <4> QED BY <1>1, <3>1, <4>2, <4>3
    <3> QED BY <1>2, <3>1, <3>2, <3>3
  <2>4. S \in SUBSET Nat
    OBVIOUS
  <2> HIDE DEF S
  <2>5. S = Nat
    BY <2>2, <2>3, <2>4, Inductively
  <2> USE DEF S
  <2>6. f[N] = SubSeq(bytes, 1, N)
    BY <1>1, <2>5
  <2> QED BY <1>3, <2>6
<1>6. from_utf8_lossy(bytes) = (CHOOSE f : Solution(f))[N]
  BY DEF from_utf8_lossy
<1> HIDE DEF Solution
<1>7. Solution(CHOOSE f : Solution(f))
  BY <1>4
<1> QED BY <1>5, <1>6, <1>7

\* While only ASCII was typed, screen and line are the same bytes.
ScreenInv ==
    IF prompt = "login" THEN ascii => buf \in Seq(0 .. 127) /\ shown = buf
    ELSE shown = <<>>

\* The terminal shows the ASCII being typed as a name, which is the text that
\* will be submitted, and nothing of a password, whatever its bytes
\* (getty.rs:586-619).
THEOREM ScreenIsTheLine == Spec => []ScreenShowsLine
<1>1. Init => ScreenInv
  BY DEF Init, ConsoleInit, ScreenInv
<1>2. ScreenInv /\ [Next]_vars => ScreenInv'
  <2> SUFFICES ASSUME ScreenInv, [Next]_vars PROVE ScreenInv'
    OBVIOUS
  <2>1. CASE UNCHANGED consoleVars
    BY <2>1 DEF ScreenInv, consoleVars
  <2>2. CASE Keys
    <3>1. ASSUME NEW c \in Bytes, Type(c) PROVE ScreenInv'
      <4>1. CASE prompt = "login" /\ ascii /\ c < 128
        <5>1. c \in 0 .. 127
          BY <4>1, ConsoleAssumption
        <5>2. Columns(c) = <<c>>
          BY <5>1 DEF Columns
        <5>3. buf \in Seq(0 .. 127) /\ shown = buf
          BY <4>1 DEF ScreenInv
        <5>4. buf' = Append(buf, c) /\ shown' = buf \o <<c>>
          BY <3>1, <4>1, <5>2, <5>3 DEF Type
        <5>5. buf \o <<c>> = Append(buf, c) /\ Append(buf, c) \in Seq(0 .. 127)
          BY <5>1, <5>3
        <5> QED BY <3>1, <4>1, <5>4, <5>5 DEF ScreenInv, Type
      <4>2. CASE ~ (prompt = "login" /\ ascii /\ c < 128)
        BY <3>1, <4>2 DEF ScreenInv, Type
      <4> QED BY <4>1, <4>2
    <3>2. CASE Erase
      <4>1. CASE prompt = "login" /\ ascii /\ buf # <<>>
        <5>1. buf \in Seq(0 .. 127) /\ shown = buf
          BY <4>1 DEF ScreenInv
        <5>2. Front(buf) \in Seq(0 .. 127)
          <6>1. Len(buf) \in Nat /\ Front(buf) = SubSeq(buf, 1, Len(buf) - 1)
            BY <5>1, LenProperties DEF Front
          <6>2. \A i \in 1 .. Len(buf) : buf[i] \in 0 .. 127
            BY <5>1, ElementOfSeq
          <6>3. \A i \in 1 .. Len(buf) - 1 : buf[i] \in 0 .. 127
            BY <6>1, <6>2
          <6> QED BY <6>1, <6>3, SubSeqProperties
        <5>3. prompt' = "login" /\ buf' = Front(buf) /\ shown' = Front(buf)
          BY <3>2, <4>1, <5>1 DEF Erase
        <5> QED BY <5>2, <5>3 DEF ScreenInv
      <4>2. CASE prompt = "login" /\ ascii /\ buf = <<>>
        <5>1. prompt' = "login" /\ buf' = buf /\ shown' = shown
          BY <3>2, <4>2 DEF Erase
        <5> QED BY <4>2, <5>1 DEF ScreenInv
      <4>3. CASE prompt = "login" /\ ~ ascii
        BY <3>2, <4>3 DEF ScreenInv, Erase
      <4>4. CASE prompt # "login"
        <5>1. prompt' = prompt /\ shown' = shown
          BY <3>2, <4>4 DEF Erase
        <5> QED BY <4>4, <5>1 DEF ScreenInv
      <4> QED BY <4>1, <4>2, <4>3, <4>4
    <3>3. CASE EnterUser \/ EnterPassword
      <4>1. buf' = <<>> /\ shown' = <<>>
        BY <3>3 DEF EnterUser, EnterPassword, NextLine
      <4>2. buf' \in Seq(0 .. 127)
        BY <4>1
      <4> QED BY <4>1, <4>2 DEF ScreenInv
    <3> QED BY <2>1, <2>2, <3>1, <3>2, <3>3 DEF Keys, Control
  <2> QED BY <2>1, <2>2 DEF Next, BootContainer, StartGetty, Login, Submit, vars
<1>3. ScreenInv => ScreenShowsLine
  BY AsciiIsItself DEF ScreenInv, ScreenShowsLine
<1> QED BY <1>1, <1>2, <1>3, PTL DEF Spec
=============================================================================
