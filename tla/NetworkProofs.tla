--------------------------- MODULE NetworkProofs ---------------------------
(***************************************************************************)
(* Proofs about net/: the address pool of vswitch.rs (IpPool), for every   *)
(* subnet that new() accepts, and the HTTP listener of mod.rs              *)
(* (HttpListener), for any number of clients and sockets.                  *)
(***************************************************************************)
EXTENDS IpPool, HttpListener, FiniteSetTheorems, SequenceTheorems, TLAPS

-----------------------------------------------------------------------------
(* The address pool *)

\* The loop bound is a natural number within the address space.
LEMMA BroadcastType == Broadcast \in Nat /\ Broadcast <= AddrTop
BY IpPoolAssumption DEF Broadcast, SatAdd, SatSub

\* Every set of addresses the pool can track is finite.
LEMMA AddrsFinite == IsFiniteSet(Addrs)
BY BroadcastType, IpPoolAssumption, FS_Interval DEF Addrs

\* The state of the pool keeps its types: only container addresses are ever
\* marked used, and the cursor stays in the address space (IpPool, all methods).
THEOREM TypeCorrect == Spec => []TypeOK
<1>1. Init => TypeOK
  BY IpPoolAssumption DEF Init, TypeOK
<1>2. TypeOK /\ [Next]_vars => TypeOK'
  <2> SUFFICES ASSUME TypeOK, [Next]_vars PROVE TypeOK'
    OBVIOUS
  <2> USE BroadcastType, IpPoolAssumption DEF TypeOK, Addrs
  <2>1. CASE AllocateSome
    BY <2>1 DEF AllocateSome, Candidates
  <2>2. CASE AllocateNone
    BY <2>2 DEF AllocateNone
  <2>3. ASSUME NEW n \in 0 .. AddrTop, Release(n) PROVE TypeOK'
    BY <2>3 DEF Release
  <2>4. CASE UNCHANGED vars
    BY <2>4 DEF vars
  <2>5. QED
    BY <2>1, <2>2, <2>3, <2>4 DEF Next
<1>3. QED
  BY <1>1, <1>2, PTL DEF Spec

\* Behind the cursor every address is in use (release() rewinding the cursor,
\* allocate() stepping over used addresses): inductive together with TypeOK.
THEOREM NoSkip == Spec => []NoSkippedAddress
<1>1. Init => NoSkippedAddress
  BY IpPoolAssumption DEF Init, NoSkippedAddress
<1>2. TypeOK /\ NoSkippedAddress /\ [Next]_vars => NoSkippedAddress'
  <2> SUFFICES ASSUME TypeOK, NoSkippedAddress, [Next]_vars
               PROVE NoSkippedAddress'
    OBVIOUS
  <2> USE BroadcastType, IpPoolAssumption DEF TypeOK, NoSkippedAddress, Addrs
  <2>1. CASE AllocateSome
    <3>1. PICK n \in Candidates : /\ \A m \in Candidates : n <= m
                                  /\ used' = used \cup {n}
                                  /\ next' = n + 1
      BY <2>1 DEF AllocateSome
    <3>2. ASSUME NEW k \in (Base + 2) .. n PROVE k \in used \cup {n}
      BY <3>1, <3>2 DEF Candidates
    <3>3. QED
      BY <3>1, <3>2 DEF Candidates
  <2>2. CASE AllocateNone
    BY <2>2 DEF AllocateNone, Candidates
  <2>3. ASSUME NEW n \in 0 .. AddrTop, Release(n) PROVE NoSkippedAddress'
    BY <2>3 DEF Release
  <2>4. CASE UNCHANGED vars
    BY <2>4 DEF vars
  <2>5. QED
    BY <2>1, <2>2, <2>3, <2>4 DEF Next
<1>3. QED
  BY <1>1, <1>2, TypeCorrect, PTL DEF Spec

\* Under the invariant, what the search can return is exactly what is free.
LEMMA CandidatesAreFree ==
  ASSUME TypeOK, NoSkippedAddress
  PROVE  Candidates = Addrs \ used
BY BroadcastType, IpPoolAssumption
   DEF TypeOK, NoSkippedAddress, Candidates, Addrs

\* allocate() returns the lowest free address, for every pool.
THEOREM LowestFirst == Spec => LowestFreeFirst
<1>1. TypeOK /\ NoSkippedAddress /\ [Next]_vars
        => [\A n \in used' \ used, a \in Addrs \ used : n <= a]_vars
  <2> SUFFICES ASSUME TypeOK, NoSkippedAddress, Next,
                      NEW n \in used' \ used, NEW a \in Addrs \ used
               PROVE n <= a
    OBVIOUS
  <2>1. CASE AllocateSome
    BY <2>1, CandidatesAreFree DEF AllocateSome
  <2>2. CASE AllocateNone
    BY <2>2 DEF AllocateNone
  <2>3. CASE \E k \in 0 .. AddrTop : Release(k)
    BY <2>3 DEF Release
  <2>4. QED
    BY <2>1, <2>2, <2>3 DEF Next
<1>2. QED
  BY <1>1, TypeCorrect, NoSkip, PTL DEF Spec, LowestFreeFirst

\* The pool implements the abstract address pool: every allocation returns a
\* free address, and None is answered only when no address is free.
THEOREM ImplementsPool == Spec => PoolSpec
<1>1. Init => Pool!Init
  BY DEF Init, Pool!Init
<1>2. TypeOK /\ NoSkippedAddress /\ [Next]_vars => [Pool!Next]_(Pool!vars)
  <2> SUFFICES ASSUME TypeOK, NoSkippedAddress, [Next]_vars
               PROVE [Pool!Next]_(Pool!vars)
    OBVIOUS
  <2> USE DEF Pool!Next, Pool!vars
  <2>1. CASE AllocateSome
    BY <2>1, CandidatesAreFree DEF AllocateSome, Pool!Grant
  <2>2. CASE AllocateNone
    BY <2>2, CandidatesAreFree DEF AllocateNone, Pool!Refuse
  <2>3. ASSUME NEW n \in 0 .. AddrTop, Release(n)
        PROVE [Pool!Next]_(Pool!vars)
    <3>1. CASE n \in used
      <4>1. n \in Addrs
        BY <3>1 DEF TypeOK
      <4>2. Addrs \ used' = (Addrs \ used) \cup {n} /\ last' = last
        BY <2>3, <4>1 DEF Release
      <4>3. QED
        BY <4>1, <4>2 DEF Pool!GiveBack
    <3>2. CASE n \notin used
      BY <2>3, <3>2 DEF Release
    <3>3. QED
      BY <3>1, <3>2
  <2>4. CASE UNCHANGED vars
    BY <2>4 DEF vars
  <2>5. QED
    BY <2>1, <2>2, <2>3, <2>4 DEF Next
<1>3. QED
  BY <1>1, <1>2, TypeCorrect, NoSkip, PTL DEF Spec, PoolSpec, Pool!Spec

\* Away from the top of the address space, available() counts exactly the
\* container addresses of the subnet.
LEMMA AddrsCardinality ==
  ASSUME Base + Size <= AddrTop
  PROVE  Cardinality(Addrs) = SatSub(Size, 3)
<1>1. Broadcast = SatSub(Base + Size, 1)
  BY IpPoolAssumption DEF Broadcast, SatAdd
<1>2. Base + 2 \in Int /\ Broadcast - 1 \in Int
  BY BroadcastType, IpPoolAssumption
<1>3. Cardinality(Addrs) = IF Base + 2 > Broadcast - 1 THEN 0
                           ELSE (Broadcast - 1) - (Base + 2) + 1
  BY <1>2, FS_Interval DEF Addrs
<1>4. QED
  BY <1>1, <1>3, IpPoolAssumption DEF SatSub

\* available() is true exactly when allocate() would succeed, for every subnet
\* that does not end at the top of the address space.
THEOREM AvailableExact ==
  ASSUME Base + Size <= AddrTop
  PROVE  Spec => []AvailableIsExact
<1>1. TypeOK /\ NoSkippedAddress => AvailableIsExact
  <2> SUFFICES ASSUME TypeOK, NoSkippedAddress PROVE AvailableIsExact
    OBVIOUS
  <2>1. used \subseteq Addrs
    BY DEF TypeOK
  <2>2. /\ Cardinality(used) <= Cardinality(Addrs)
        /\ Cardinality(used) = Cardinality(Addrs) => used = Addrs
    BY <2>1, AddrsFinite, FS_Subset
  <2>3. IsFiniteSet(used)
    BY <2>1, AddrsFinite, FS_Subset
  <2>4. Cardinality(used) \in Nat /\ Cardinality(Addrs) \in Nat
    BY <2>3, AddrsFinite, FS_CardinalityType
  <2>5. Available <=> used # Addrs
    BY <2>2, <2>4, AddrsCardinality DEF Available
  <2>6. QED
    BY <2>1, <2>5, CandidatesAreFree DEF AvailableIsExact
<1>2. QED
  BY <1>1, TypeCorrect, NoSkip, PTL

-----------------------------------------------------------------------------
(* The listener.  A client's chance of an answer is its SYN, then the       *)
(* socket that took it, then the answer on its way, then the answer it got; *)
(* it has one of these at most.  While the stack is polled, w is the socket *)
(* set with the segments that left, and n frames have been taken.           *)

\* The frames of client c that are still in the ring.
Frames(kind, c, frames, n) ==
    {i \in n + 1 .. Len(frames) : frames[i].from = c /\ frames[i].kind = kind}
\* The sockets of client c, and those that have or may still give an answer.
Of(c, socks) == {k \in DOMAIN socks : socks[k].peer = c}
Answerable == {"SynReceived", "Established"}
Holding(c, socks) ==
    {k \in Of(c, socks) : socks[k].state \in Answerable \/ socks[k].out # <<>>}
Answers(segs) == {i \in DOMAIN segs : segs[i] = "RESP"}

AtMostOne(S) == \A x, y \in S : x = y

OneChance(c, w, frames, n) ==
    LET syns == Frames("SYN", c, frames, n)
        held == Holding(c, w.socks)
        sent == Answers(w.toClient[c])
    IN  /\ AtMostOne(syns) /\ AtMostOne(sent) /\ answered[c] <= 1
        /\ syns # {} => held = {} /\ sent = {} /\ answered[c] = 0
        /\ held # {} => sent = {} /\ answered[c] = 0
        /\ sent # {} => answered[c] = 0

\* Nothing of an answer exists for a client that has not asked.
Asked(c, w, frames, n) ==
    c \notin requested =>
        /\ Frames("REQ", c, frames, n) = {} /\ Answers(w.toClient[c]) = {} /\ answered[c] = 0
        /\ \A k \in Of(c, w.socks) : ~ w.socks[k].rx /\ w.socks[k].out = <<>>

\* A client that has not connected yet has not used its chance.
Fresh(c, w, frames, n) ==
    client[c] = "idle" =>
        /\ Frames("SYN", c, frames, n) = {} /\ Holding(c, w.socks) = {}
        /\ Answers(w.toClient[c]) = {} /\ answered[c] = 0

\* A socket that listens is empty; one that may still answer has not answered.
Sane(s) ==
    /\ s.state = "Listen" => s.peer = NoClient /\ ~ s.rx /\ s.out = <<>>
    /\ s.out # <<>> => s.out = <<"RESP", "FIN">> /\ s.state \notin Answerable

ClientGood(c, w, frames, n) ==
    /\ AtMostOne(Of(c, w.socks)) /\ OneChance(c, w, frames, n)
    /\ Asked(c, w, frames, n) /\ Fresh(c, w, frames, n)

Good(w, frames, n) ==
    /\ \A k \in DOMAIN w.socks : Sane(w.socks[k])
    /\ \A c \in Clients : ClientGood(c, w, frames, n)

\* Between two steps of the kernel.
Now == [socks |-> sockets, toClient |-> toClient]

Started == main \in {"idle", "busy"} => handle # 0
ListenerInv == ListenerTypeOK /\ Started /\ Good(Now, toServer, 0)

-----------------------------------------------------------------------------
\* A set of natural numbers that is not empty has a least element.
LEMMA LeastElement ==
  ASSUME NEW T \in SUBSET Nat, T # {}
  PROVE  \E k \in T : \A j \in T : k <= j
<1> DEFINE R == OpToRel(<, Nat)
<1>1. IsWellFoundedOn(R, Nat)
  BY NatLessThanWellFounded
<1>2. \A i, j \in Nat : i < j => <<i, j>> \in R
  BY Zenon DEF OpToRel
<1> HIDE DEF R
<1>3. PICK k \in T : \A j \in T : <<j, k>> \notin R
  BY <1>1, WFMin
<1> SUFFICES ASSUME NEW j \in T PROVE k <= j
  OBVIOUS
<1>4. j \in Nat /\ k \in Nat /\ ~ (j < k)
  BY <1>2, <1>3
<1> QED BY <1>4

\* A set of natural numbers with 0 and each successor is all of Nat.
LEMMA Inductively ==
  ASSUME NEW S \in SUBSET Nat, 0 \in S, \A n \in S : n + 1 \in S
  PROVE  S = Nat
<1> SUFFICES ASSUME Nat \ S # {} PROVE FALSE
  OBVIOUS
<1>1. PICK k \in Nat \ S : \A j \in Nat \ S : k <= j
  BY LeastElement
<1>2. k # 0 /\ k - 1 \in Nat /\ k - 1 \notin Nat \ S
  BY <1>1
<1> QED BY <1>2

-----------------------------------------------------------------------------
(* One poll of the stack *)

\* N sockets and the segments for every client.
Wire(w, N) ==
    /\ w = [socks |-> w.socks, toClient |-> w.toClient]
    /\ w.socks \in [1 .. N -> Socket] /\ w.toClient \in [Clients -> Seq(FromServer)]

Segment == [from : Clients, kind : FromClient]

\* No segment brings a connection back to where it may be answered.
LEMMA NewStateIs ==
  ASSUME NEW s \in SocketStates, NEW kind \in FromClient
  PROVE  /\ NewState(s, kind) \in SocketStates
         /\ NewState(s, kind) \in Answerable => s \in Answerable
<1>1. CASE \E t \in Transitions : t[1] = s /\ t[2] = kind
  <2>1. PICK t \in Transitions : t[1] = s /\ t[2] = kind /\ NewState(s, kind) = t[3]
    BY <1>1 DEF NewState
  <2> QED BY <2>1 DEF Transitions, OpenStates, SocketStates, Answerable
<1>2. CASE ~ \E t \in Transitions : t[1] = s /\ t[2] = kind
  BY <1>2 DEF NewState
<1> QED BY <1>1, <1>2

\* What a segment leaves of a socket.
LEMMA Received ==
  ASSUME NEW s \in Socket, Sane(s), NEW kind \in FromClient
  PROVE  LET t == Receive(s, kind)
         IN  /\ t \in Socket /\ Sane(t)
             /\ t.peer \in {s.peer, NoClient}
             /\ t.state \in Answerable \/ t.out # <<>> => s.state \in Answerable \/ s.out # <<>>
             /\ t.out # <<>> => s.out # <<>>
             /\ t.rx => s.rx \/ kind = "REQ"
<1> DEFINE new == NewState(s.state, kind)
<1>1. s.state \in SocketStates /\ s.port \in Nat /\ s.peer \in Clients \cup {NoClient}
      /\ s.rx \in BOOLEAN /\ s.out \in Seq(FromServer)
  BY DEF Socket
<1>2. new \in SocketStates /\ (new \in Answerable => s.state \in Answerable)
  BY <1>1, NewStateIs
<1>3. Receive(s, kind) = IF new \in {"Listen", "Closed"} THEN [Listening(s.port) EXCEPT !.state = new]
        ELSE [s EXCEPT !.state = new,
                       !.rx = @ \/ (kind = "REQ" /\ s.state = "Established")]
  BY DEF Receive
<1> HIDE DEF new
<1>4. CASE new \in {"Listen", "Closed"}
  <2>1. Receive(s, kind) = [state |-> new, port |-> s.port, peer |-> NoClient, rx |-> FALSE, out |-> <<>>]
    BY <1>3, <1>4 DEF Listening
  <2>2. <<>> \in Seq(FromServer)
    OBVIOUS
  <2> QED BY <1>1, <1>2, <1>4, <2>1, <2>2 DEF Sane, Answerable, Socket
<1>5. CASE new \notin {"Listen", "Closed"}
  <2> DEFINE rx == s.rx \/ (kind = "REQ" /\ s.state = "Established")
  <2>1. Receive(s, kind) = [state |-> new, port |-> s.port, peer |-> s.peer, rx |-> rx, out |-> s.out]
    BY <1>3, <1>5 DEF Socket
  <2>2. rx \in BOOLEAN /\ (rx => s.rx \/ kind = "REQ")
    OBVIOUS
  <2> HIDE DEF rx
  <2> QED BY <1>1, <1>2, <1>5, <2>1, <2>2 DEF Sane, Answerable, Socket
<1> QED BY <1>4, <1>5


\* Lowest is a member.
LEMMA LowestIs ==
  ASSUME NEW S \in SUBSET Nat, S # {} PROVE Lowest(S) \in S
BY LeastElement DEF Lowest

\* A client that is left with no more than it had.
LEMMA Fewer ==
  ASSUME NEW c, NEW w, NEW v, NEW f, NEW n, NEW g, NEW m, ClientGood(c, w, f, n),
         Of(c, v.socks) \subseteq Of(c, w.socks),
         Holding(c, v.socks) \subseteq Holding(c, w.socks),
         Answers(v.toClient[c]) = Answers(w.toClient[c]),
         Frames("SYN", c, g, m) \subseteq Frames("SYN", c, f, n),
         Frames("REQ", c, g, m) \subseteq Frames("REQ", c, f, n),
         \A k \in Of(c, v.socks) :
            /\ v.socks[k].rx => w.socks[k].rx \/ c \in requested
            /\ v.socks[k].out # <<>> => w.socks[k].out # <<>> \/ c \in requested
  PROVE  ClientGood(c, v, g, m)
<1>1. AtMostOne(Of(c, v.socks))
  BY DEF ClientGood, AtMostOne
<1>2. OneChance(c, v, g, m)
  BY DEF ClientGood, OneChance, AtMostOne
<1>3. Asked(c, v, g, m)
  <2> SUFFICES ASSUME c \notin requested
               PROVE  /\ Frames("REQ", c, g, m) = {} /\ Answers(v.toClient[c]) = {} /\ answered[c] = 0
                      /\ \A k \in Of(c, v.socks) : ~ v.socks[k].rx /\ v.socks[k].out = <<>>
    BY DEF Asked
  <2>1. /\ Frames("REQ", c, f, n) = {} /\ Answers(w.toClient[c]) = {} /\ answered[c] = 0
        /\ \A k \in Of(c, w.socks) : ~ w.socks[k].rx /\ w.socks[k].out = <<>>
    BY DEF ClientGood, Asked
  <2> QED BY <2>1
<1>4. Fresh(c, v, g, m)
  BY DEF ClientGood, Fresh
<1> QED BY <1>1, <1>2, <1>3, <1>4 DEF ClientGood

\* A frame taken from the ring.
LEMMA FramesLeft ==
  ASSUME NEW frames \in Seq(Segment), NEW n \in 1 .. Len(frames), NEW c, NEW kind
  PROVE  /\ Frames(kind, c, frames, n) \subseteq Frames(kind, c, frames, n - 1)
         /\ n \notin Frames(kind, c, frames, n)
         /\ frames[n].from = c /\ frames[n].kind = kind => n \in Frames(kind, c, frames, n - 1)
BY DEF Frames

\* A frame of the ring names its client.
LEMMA SegmentOf ==
  ASSUME NEW frames \in Seq(Segment), NEW n \in 1 .. Len(frames)
  PROVE  frames[n].from \in Clients /\ frames[n].kind \in FromClient
<1>1. frames[n] \in Segment
  BY ElementOfSeq
<1> QED BY <1>1 DEF Segment

\* One socket changes, and what it owes its client does not grow.
LEMMA ReplacedKeeps ==
  ASSUME NEW N \in Nat, NEW w, Wire(w, N), NEW f, NEW n, Good(w, f, n),
         NEW k \in 1 .. N, NEW t \in Socket, Sane(t), t.peer \in {w.socks[k].peer, NoClient},
         t.state \in Answerable \/ t.out # <<>>
           => w.socks[k].state \in Answerable \/ w.socks[k].out # <<>>,
         t.out # <<>> \/ t.rx =>
           \/ w.socks[k].peer \in Clients => w.socks[k].peer \in requested
           \/ (t.out # <<>> => w.socks[k].out # <<>>) /\ (t.rx => w.socks[k].rx),
         NEW g, NEW m, \A c \in Clients : /\ Frames("SYN", c, g, m) \subseteq Frames("SYN", c, f, n)
                                  /\ Frames("REQ", c, g, m) \subseteq Frames("REQ", c, f, n)
  PROVE  LET v == [socks |-> [w.socks EXCEPT ![k] = t], toClient |-> w.toClient]
         IN  Wire(v, N) /\ Good(v, g, m)
<1> DEFINE v == [socks |-> [w.socks EXCEPT ![k] = t], toClient |-> w.toClient]
<1>1. /\ w.socks \in [1 .. N -> Socket] /\ DOMAIN w.socks = 1 .. N
      /\ w.toClient \in [Clients -> Seq(FromServer)]
  BY DEF Wire
<1>2. /\ v.toClient = w.toClient /\ DOMAIN v.socks = 1 .. N /\ v.socks[k] = t
      /\ v = [socks |-> v.socks, toClient |-> v.toClient]
      /\ v.socks \in [1 .. N -> Socket]
      /\ \A j \in 1 .. N : j # k => v.socks[j] = w.socks[j]
  BY <1>1
<1> HIDE DEF v
<1>3. Wire(v, N)
  BY <1>1, <1>2 DEF Wire
<1>4. \A j \in DOMAIN v.socks : Sane(v.socks[j])
  BY <1>1, <1>2 DEF Good
<1>5. ASSUME NEW c \in Clients PROVE ClientGood(c, v, g, m)
  <2>1. Of(c, v.socks) \subseteq Of(c, w.socks)
    BY <1>1, <1>2, ListenerAssumption DEF Of
  <2>2. Holding(c, v.socks) \subseteq Holding(c, w.socks)
    <3> SUFFICES ASSUME NEW j \in Of(c, v.socks), v.socks[j].state \in Answerable \/ v.socks[j].out # <<>>
                 PROVE  w.socks[j].state \in Answerable \/ w.socks[j].out # <<>>
      BY <2>1 DEF Holding
    <3>1. j \in 1 .. N
      BY <1>2 DEF Of
    <3> QED BY <1>2, <3>1
  <2>3. \A j \in Of(c, v.socks) :
            /\ v.socks[j].rx => w.socks[j].rx \/ c \in requested
            /\ v.socks[j].out # <<>> => w.socks[j].out # <<>> \/ c \in requested
    <3> SUFFICES ASSUME NEW j \in Of(c, v.socks)
                 PROVE  /\ v.socks[j].rx => w.socks[j].rx \/ c \in requested
                        /\ v.socks[j].out # <<>> => w.socks[j].out # <<>> \/ c \in requested
      OBVIOUS
    <3>1. j \in 1 .. N /\ w.socks[j].peer = c /\ c \in Clients
      BY <1>2, <2>1 DEF Of
    <3> QED BY <1>2, <3>1
  <2>4. ClientGood(c, w, f, n)
    BY DEF Good
  <2> QED BY <1>2, <2>1, <2>2, <2>3, <2>4, Fewer
<1> QED BY <1>3, <1>4, <1>5 DEF Good, v

\* A segment of a connection that some socket holds.
LEMMA OwnedKeeps ==
  ASSUME NEW N \in Nat, NEW frames \in Seq(Segment), NEW n \in 1 .. Len(frames),
         NEW w, Wire(w, N), Good(w, frames, n - 1), Owners(w.socks, frames[n]) # {}
  PROVE  LET v == Ingress(w, frames[n]) IN Wire(v, N) /\ Good(v, frames, n)
<1> DEFINE seg == frames[n]
           k == Lowest(Owners(w.socks, seg))
           t == Receive(w.socks[k], seg.kind)
           v == Ingress(w, seg)
<1>1. seg.from \in Clients /\ seg.kind \in FromClient
  BY SegmentOf
<1>2. k \in 1 .. N /\ w.socks[k].peer = seg.from /\ DOMAIN w.socks = 1 .. N /\ w.socks[k] \in Socket
  <2>1. Owners(w.socks, seg) \in SUBSET Nat /\ Owners(w.socks, seg) \subseteq 1 .. N
    BY DEF Owners, Wire
  <2>2. k \in Owners(w.socks, seg)
    BY <2>1, LowestIs
  <2> QED BY <2>1, <2>2 DEF Owners, Wire
<1>3. /\ t \in Socket /\ Sane(t) /\ t.peer \in {seg.from, NoClient}
      /\ t.state \in Answerable \/ t.out # <<>>
           => w.socks[k].state \in Answerable \/ w.socks[k].out # <<>>
      /\ t.out # <<>> => w.socks[k].out # <<>>
      /\ t.rx => w.socks[k].rx \/ seg.kind = "REQ"
  BY <1>1, <1>2, Received DEF Good
<1>4. seg.kind = "REQ" => seg.from \in requested
  <2>1. seg.kind = "REQ" => n \in Frames("REQ", seg.from, frames, n - 1)
    BY FramesLeft
  <2> QED BY <1>1, <2>1 DEF Good, ClientGood, Asked
<1> HIDE DEF t, k
<1>5. v = [socks |-> [w.socks EXCEPT ![k] = t], toClient |-> w.toClient]
  BY DEF Ingress, Wire, t, k
<1> HIDE DEF v, seg
<1>6. \A c \in Clients : /\ Frames("SYN", c, frames, n) \subseteq Frames("SYN", c, frames, n - 1)
                         /\ Frames("REQ", c, frames, n) \subseteq Frames("REQ", c, frames, n - 1)
  BY FramesLeft
<1>7. Wire(v, N) /\ Good(v, frames, n)
  BY <1>2, <1>3, <1>4, <1>5, <1>6, ReplacedKeeps
<1> QED BY <1>7 DEF v, seg

\* Only an answer adds an answer.
LEMMA AnswersOfAppend ==
  ASSUME NEW q \in Seq(FromServer), NEW kind \in FromServer \ {"RESP"}
  PROVE  Append(q, kind) \in Seq(FromServer) /\ Answers(Append(q, kind)) = Answers(q)
<1> DEFINE out == Append(q, kind)
<1>1. Len(q) \in Nat /\ DOMAIN q = 1 .. Len(q)
  BY LenProperties
<1>2. /\ out \in Seq(FromServer) /\ Len(out) = Len(q) + 1 /\ out[Len(q) + 1] = kind
      /\ \A i \in 1 .. Len(q) : out[i] = q[i]
  BY AppendProperties
<1> HIDE DEF out
<1>3. DOMAIN out = 1 .. Len(q) + 1
  BY <1>2, LenProperties
<1>4. Answers(out) = Answers(q)
  BY <1>1, <1>2, <1>3 DEF Answers
<1> QED BY <1>2, <1>4 DEF out

\* An answer with its FIN adds one.
LEMMA OneAnswerAdded ==
  ASSUME NEW q \in Seq(FromServer), Answers(q) = {}
  PROVE  q \o <<"RESP", "FIN">> \in Seq(FromServer) /\ AtMostOne(Answers(q \o <<"RESP", "FIN">>))
<1> DEFINE r == q \o <<"RESP", "FIN">>
           e == <<"RESP", "FIN">>
<1>1. Len(q) \in Nat /\ DOMAIN q = 1 .. Len(q)
  BY LenProperties
<1>2. e \in Seq(FromServer) /\ Len(e) = 2 /\ e[1] = "RESP" /\ e[2] = "FIN"
  BY DEF FromServer
<1> HIDE DEF e
<1>3. /\ r \in Seq(FromServer) /\ Len(r) = Len(q) + 2
      /\ \A i \in 1 .. Len(q) + 2 : r[i] = IF i <= Len(q) THEN q[i] ELSE e[i - Len(q)]
  BY <1>2, ConcatProperties DEF e
<1> HIDE DEF r
<1>4. DOMAIN r = 1 .. Len(q) + 2
  BY <1>3, LenProperties
<1>5. ASSUME NEW i \in Answers(r) PROVE i = Len(q) + 1
  <2>1. i \in 1 .. Len(q) + 2 /\ r[i] = "RESP"
    BY <1>4 DEF Answers
  <2>2. ~ (i <= Len(q))
    BY <1>1, <1>3, <2>1 DEF Answers
  <2>3. i # Len(q) + 2
    BY <1>1, <1>2, <1>3, <2>1, <2>2
  <2> QED BY <1>1, <2>1, <2>2, <2>3
<1> QED BY <1>3, <1>5 DEF AtMostOne, r, e

\* A SYN that opens a connection.
LEMMA OpenedKeeps ==
  ASSUME NEW N \in Nat, NEW frames \in Seq(Segment), NEW n \in 1 .. Len(frames),
         NEW w, Wire(w, N), Good(w, frames, n - 1), Owners(w.socks, frames[n]) = {},
         Listeners(w.socks, frames[n]) # {}
  PROVE  LET v == Ingress(w, frames[n]) IN Wire(v, N) /\ Good(v, frames, n)
<1> DEFINE seg == frames[n]
           a == frames[n].from
           k == Lowest(Listeners(w.socks, seg))
           v == Ingress(w, seg)
           s == w.socks[k]
           t == [s EXCEPT !.state = "SynReceived", !.peer = a]
           out == Append(w.toClient[a], "SYNACK")
<1>1. a \in Clients /\ Owners(w.socks, seg) = Of(a, w.socks) /\ Listeners(w.socks, seg) # {}
  BY SegmentOf DEF Owners, Of
<1>2. k \in 1 .. N /\ s.state = "Listen" /\ seg.kind = "SYN" /\ DOMAIN w.socks = 1 .. N
      /\ s \in Socket
  <2>1. Listeners(w.socks, seg) \in SUBSET Nat /\ Listeners(w.socks, seg) \subseteq 1 .. N
    BY DEF Listeners, Wire
  <2>2. k \in Listeners(w.socks, seg)
    BY <1>1, <2>1, LowestIs
  <2> QED BY <2>1, <2>2 DEF Listeners, Wire
<1>3. ~ s.rx /\ s.out = <<>> /\ s.peer = NoClient
  BY <1>2 DEF Good, Sane
<1>4. t \in Socket /\ t = [state |-> "SynReceived", port |-> s.port, peer |-> a, rx |-> s.rx, out |-> <<>>]
      /\ Sane(t) /\ ~ t.rx
  <2>1. /\ s \in [state : SocketStates, port : Nat, peer : Clients \cup {NoClient},
                   rx : BOOLEAN, out : Seq(FromServer)]
        /\ a \in Clients /\ ~ s.rx /\ s.out = <<>>
    BY <1>1, <1>2, <1>3 DEF Socket
  <2> HIDE DEF s, a
  <2>2. t = [state |-> "SynReceived", port |-> s.port, peer |-> a, rx |-> s.rx, out |-> <<>>]
    <3>1. t = [[s EXCEPT !.state = "SynReceived"] EXCEPT !.peer = a]
      OBVIOUS
    <3> HIDE DEF t
    <3>3. s = [state |-> s.state, port |-> s.port, peer |-> s.peer, rx |-> s.rx, out |-> s.out]
      BY <2>1
    <3>2. t = [state |-> "SynReceived", port |-> s.port, peer |-> a, rx |-> s.rx, out |-> s.out]
      BY <3>1, <3>3
    <3> QED BY <2>1, <3>2
  <2>3. s.port \in Nat /\ s.rx \in BOOLEAN /\ <<>> \in Seq(FromServer)
    BY <2>1
  <2>4. t \in Socket
    BY <2>1, <2>2, <2>3 DEF Socket, SocketStates
  <2>5. t.state = "SynReceived" /\ t.out = <<>> /\ t.rx = s.rx
    BY <2>2
  <2> QED BY <2>1, <2>2, <2>4, <2>5 DEF Sane
<1>5. out \in Seq(FromServer) /\ Answers(out) = Answers(w.toClient[a])
  BY <1>1, AnswersOfAppend DEF Wire, FromServer
<1>6. Of(a, w.socks) = {}
  BY <1>1
<1>7. v = [socks |-> [w.socks EXCEPT ![k] = t], toClient |-> [w.toClient EXCEPT ![a] = out]]
  <2>1. w = [socks |-> w.socks, toClient |-> w.toClient]
    BY DEF Wire
  <2>2. v = [w EXCEPT !.socks[k].state = "SynReceived", !.socks[k].peer = a,
                      !.toClient[a] = Append(@, "SYNACK")]
    BY <1>1, <1>6 DEF Ingress
  <2>3. k \in DOMAIN w.socks
    BY <1>2
  <2> HIDE DEF v, k, a
  <2> QED BY <2>1, <2>2, <2>3
<1> HIDE DEF v, seg, k, t, out, s
<1>8. /\ DOMAIN v.socks = 1 .. N /\ v.socks[k] = t
      /\ \A j \in 1 .. N : j # k => v.socks[j] = w.socks[j]
  BY <1>2, <1>7 DEF Wire
<1>9. /\ v.toClient[a] = out
      /\ \A c \in Clients : c # a => v.toClient[c] = w.toClient[c]
  BY <1>1, <1>7 DEF Wire
<1>10. Wire(v, N)
  BY <1>1, <1>2, <1>4, <1>5, <1>7 DEF Wire
<1>11. \A j \in DOMAIN v.socks : Sane(v.socks[j])
  BY <1>2, <1>4, <1>8 DEF Good
<1>12. \A c \in Clients : ClientGood(c, w, frames, n - 1) /\ w.socks[k].peer = NoClient
  BY <1>3 DEF Good, s
<1>13. ASSUME NEW c \in Clients, c # a PROVE ClientGood(c, v, frames, n)
  <2>1. Of(c, v.socks) \subseteq Of(c, w.socks)
    BY <1>2, <1>4, <1>8, <1>13 DEF Of
  <2>2. \A j \in Of(c, v.socks) : v.socks[j] = w.socks[j]
    BY <1>2, <1>4, <1>8, <1>13 DEF Of
  <2>3. Holding(c, v.socks) \subseteq Holding(c, w.socks)
    BY <2>1, <2>2 DEF Holding
  <2> QED BY <1>9, <1>12, <1>13, <2>1, <2>2, <2>3, Fewer, FramesLeft
<1>14. ClientGood(a, v, frames, n)
  <2>1. Of(a, v.socks) = {k}
    BY <1>2, <1>4, <1>6, <1>8 DEF Of
  <2>2. n \in Frames("SYN", a, frames, n - 1)
    BY <1>2, FramesLeft DEF seg
  <2>3. ClientGood(a, w, frames, n - 1)
    BY <1>1, <1>12
  <2>4. Frames("SYN", a, frames, n) = {}
    BY <2>2, <2>3, FramesLeft DEF ClientGood, OneChance, AtMostOne
  <2>5. Answers(v.toClient[a]) = {} /\ answered[a] = 0
    BY <1>5, <1>9, <2>2, <2>3 DEF ClientGood, OneChance
  <2>6. OneChance(a, v, frames, n)
    BY <2>4, <2>5 DEF OneChance, AtMostOne
  <2>7. Asked(a, v, frames, n)
    <3>1. a \notin requested => Frames("REQ", a, frames, n) = {}
      BY <2>3, FramesLeft DEF ClientGood, Asked
    <3> QED BY <1>4, <1>8, <2>1, <2>3, <2>5, <3>1 DEF Asked, ClientGood
  <2>8. client[a] # "idle"
    BY <2>2, <2>3 DEF ClientGood, Fresh
  <2> QED BY <2>1, <2>6, <2>7, <2>8 DEF ClientGood, AtMostOne, Fresh
<1>15. \A c \in Clients : ClientGood(c, v, frames, n)
  BY <1>13, <1>14
<1> QED BY <1>10, <1>11, <1>15 DEF Good, v, seg

\* A segment for nobody.
LEMMA RefusedKeeps ==
  ASSUME NEW N \in Nat, NEW frames \in Seq(Segment), NEW n \in 1 .. Len(frames),
         NEW w, Wire(w, N), Good(w, frames, n - 1), Owners(w.socks, frames[n]) = {},
         Listeners(w.socks, frames[n]) = {}
  PROVE  LET v == Ingress(w, frames[n]) IN Wire(v, N) /\ Good(v, frames, n)
<1> DEFINE seg == frames[n]
           a == frames[n].from
           v == Ingress(w, seg)
           out == Append(w.toClient[a], "RST")
<1>1. a \in Clients
  BY SegmentOf
<1>2. out \in Seq(FromServer) /\ Answers(out) = Answers(w.toClient[a])
  BY <1>1, AnswersOfAppend DEF Wire, FromServer
<1>3. v = w \/ v = [socks |-> w.socks, toClient |-> [w.toClient EXCEPT ![a] = out]]
  <2>1. w = [socks |-> w.socks, toClient |-> w.toClient]
    BY DEF Wire
  <2>2. v = w \/ v = [w EXCEPT !.toClient[a] = Append(@, "RST")]
    BY DEF Ingress
  <2> HIDE DEF v, a
  <2> QED BY <2>1, <2>2
<1> HIDE DEF v, seg, out
<1>4. /\ v.socks = w.socks
      /\ \A c \in Clients : Answers(v.toClient[c]) = Answers(w.toClient[c])
      /\ v = [socks |-> v.socks, toClient |-> v.toClient]
      /\ v.toClient \in [Clients -> Seq(FromServer)]
  <2>1. w.toClient \in [Clients -> Seq(FromServer)] /\ w = [socks |-> w.socks, toClient |-> w.toClient]
    BY DEF Wire
  <2>2. CASE v = w
    BY <2>1, <2>2
  <2>3. CASE v = [socks |-> w.socks, toClient |-> [w.toClient EXCEPT ![a] = out]]
    <3> HIDE DEF a
    <3>1. /\ v.socks = w.socks /\ v.toClient = [w.toClient EXCEPT ![a] = out]
          /\ v = [socks |-> v.socks, toClient |-> v.toClient]
      BY <2>3
    <3>2. \A c \in Clients : v.toClient[c] = IF c = a THEN out ELSE w.toClient[c]
      BY <2>1, <3>1
    <3>3. v.toClient \in [Clients -> Seq(FromServer)]
      BY <1>1, <1>2, <2>1, <3>1
    <3> QED BY <1>2, <3>1, <3>2, <3>3
  <2> QED BY <1>3, <2>2, <2>3
<1>5. Wire(v, N)
  BY <1>4 DEF Wire
<1>6. ASSUME NEW c \in Clients PROVE ClientGood(c, v, frames, n)
  <2>1. ClientGood(c, w, frames, n - 1)
    BY DEF Good
  <2> QED BY <1>4, <2>1, Fewer, FramesLeft, SMTT(30)
<1> QED BY <1>4, <1>5, <1>6 DEF Good, v, seg

\* Any frame.
LEMMA IngressKeeps ==
  ASSUME NEW N \in Nat, NEW frames \in Seq(Segment), NEW n \in 1 .. Len(frames),
         NEW w, Wire(w, N), Good(w, frames, n - 1)
  PROVE  Wire(Ingress(w, frames[n]), N) /\ Good(Ingress(w, frames[n]), frames, n)
<1>1. CASE Owners(w.socks, frames[n]) # {}
  BY <1>1, OwnedKeeps
<1>2. CASE Owners(w.socks, frames[n]) = {} /\ Listeners(w.socks, frames[n]) # {}
  BY <1>2, OpenedKeeps
<1>3. CASE Owners(w.socks, frames[n]) = {} /\ Listeners(w.socks, frames[n]) = {}
  BY <1>3, RefusedKeeps
<1> QED BY <1>1, <1>2, <1>3

\* What has been taken from the ring, frame by frame.
Taken(f, n) == IF n = 0 THEN Now ELSE Ingress(f[n - 1], toServer[n])
IsTaking(f) == f = [n \in 0 .. Len(toServer) |-> Taken(f, n)]

\* That recursion has a solution, which Polled uses.
LEMMA TakingExists ==
  ASSUME Len(toServer) \in Nat
  PROVE  \E f : IsTaking(f) /\ Polled = Egress(f[Len(toServer)])
<1> DEFINE N == Len(toServer)
           S == {m \in Nat : m <= N => \E f : f = [k \in 0 .. m |-> Taken(f, k)]}
<1>1. 0 \in S
  <2> DEFINE f == [k \in 0 .. 0 |-> Now]
  <2>1. \A k \in 0 .. 0 : Taken(f, k) = Now
    BY DEF Taken
  <2>2. f = [k \in 0 .. 0 |-> Taken(f, k)]
    BY <2>1
  <2> QED BY <2>2
<1>2. ASSUME NEW m \in S PROVE m + 1 \in S
  <2> SUFFICES ASSUME m + 1 <= N PROVE \E f : f = [k \in 0 .. m + 1 |-> Taken(f, k)]
    OBVIOUS
  <2>1. PICK g : g = [k \in 0 .. m |-> Taken(g, k)]
    OBVIOUS
  <2> DEFINE h == [k \in 0 .. m + 1 |-> IF k = m + 1 THEN Taken(g, k) ELSE g[k]]
  <2>2. \A k \in 0 .. m : h[k] = g[k]
    OBVIOUS
  <2>3. \A k \in 0 .. m + 1 : Taken(h, k) = Taken(g, k)
    <3> SUFFICES ASSUME NEW k \in 0 .. m + 1, k # 0 PROVE Taken(h, k) = Taken(g, k)
      BY DEF Taken
    <3>1. k - 1 \in 0 .. m
      OBVIOUS
    <3>2. h[k - 1] = g[k - 1]
      BY <2>2, <3>1
    <3> QED BY <3>2 DEF Taken
  <2>4. \A k \in 0 .. m : g[k] = Taken(g, k)
    BY <2>1
  <2>5. \A k \in 0 .. m + 1 : h[k] = Taken(h, k)
    BY <2>3, <2>4
  <2>6. h = [k \in 0 .. m + 1 |-> Taken(h, k)]
    BY <2>5
  <2> QED BY <2>6
<1>3. N \in S
  <2>1. S \in SUBSET Nat
    OBVIOUS
  <2> HIDE DEF S
  <2> QED BY <1>1, <1>2, <2>1, Inductively
<1>4. \E f : IsTaking(f)
  BY <1>3 DEF IsTaking
<1> DEFINE F == CHOOSE f : IsTaking(f)
<1>5. Polled = Egress(F[Len(toServer)])
  BY DEF Polled, IsTaking, Taken, Now
<1> QED BY <1>4, <1>5

\* Every frame of the ring passes through the sockets.
LEMMA TakenKeeps ==
  ASSUME NEW N \in Nat, toServer \in Seq(Segment), Wire(Now, N), Good(Now, toServer, 0),
         NEW f, IsTaking(f)
  PROVE  Wire(f[Len(toServer)], N) /\ Good(f[Len(toServer)], toServer, Len(toServer))
<1>1. Len(toServer) \in Nat
  BY LenProperties
<1> DEFINE S == {n \in Nat : n <= Len(toServer) => Wire(f[n], N) /\ Good(f[n], toServer, n)}
<1>2. 0 \in S
  BY <1>1 DEF IsTaking, Taken
<1>3. ASSUME NEW n \in S PROVE n + 1 \in S
  <2> SUFFICES ASSUME n + 1 <= Len(toServer)
               PROVE  Wire(f[n + 1], N) /\ Good(f[n + 1], toServer, n + 1)
    OBVIOUS
  <2>1. n + 1 \in 1 .. Len(toServer) /\ (n + 1) - 1 = n /\ n + 1 # 0 /\ n + 1 \in 0 .. Len(toServer)
    BY <1>1
  <2>2. f[n + 1] = Ingress(f[n], toServer[n + 1])
    BY <2>1 DEF IsTaking, Taken
  <2>3. Wire(f[n], N) /\ Good(f[n], toServer, (n + 1) - 1)
    BY <1>1, <2>1
  <2> QED BY <2>1, <2>2, <2>3, IngressKeeps
<1>4. Len(toServer) \in S
  <2>1. S \in SUBSET Nat
    OBVIOUS
  <2> HIDE DEF S
  <2> QED BY <1>1, <1>2, <1>3, <2>1, Inductively
<1> QED BY <1>1, <1>4

\* Sending: an answer leaves its socket for its client.
LEMMA EgressKeeps ==
  ASSUME NEW N \in Nat, NEW frames, NEW n, NEW w, Wire(w, N), Good(w, frames, n),
         NEW g, NEW m, \A c \in Clients : /\ Frames("SYN", c, g, m) \subseteq Frames("SYN", c, frames, n)
                                  /\ Frames("REQ", c, g, m) \subseteq Frames("REQ", c, frames, n)
  PROVE  /\ Wire(Egress(w), N) /\ Good(Egress(w), g, m)
         /\ \A k \in 1 .. N : Egress(w).socks[k].out = <<>>
<1> DEFINE v == Egress(w)
<1>1. /\ w.socks \in [1 .. N -> Socket] /\ DOMAIN w.socks = 1 .. N
      /\ w.toClient \in [Clients -> Seq(FromServer)]
  BY DEF Wire
<1>2. /\ v = [socks |-> v.socks, toClient |-> v.toClient]
      /\ v.socks = [k \in 1 .. N |-> [w.socks[k] EXCEPT !.out = <<>>]]
      /\ v.toClient = [c \in Clients |->
            IF Of(c, w.socks) = {} THEN w.toClient[c]
            ELSE w.toClient[c] \o w.socks[Lowest(Of(c, w.socks))].out]
  BY <1>1 DEF Egress, Of
<1> HIDE DEF v
<1>3. ASSUME NEW k \in 1 .. N
      PROVE  LET s == w.socks[k]
             IN  /\ v.socks[k] = [state |-> s.state, port |-> s.port, peer |-> s.peer, rx |-> s.rx, out |-> <<>>]
                 /\ v.socks[k] \in Socket /\ Sane(v.socks[k])
  <2> DEFINE s == w.socks[k]
  <2>1. s \in [state : SocketStates, port : Nat, peer : Clients \cup {NoClient},
               rx : BOOLEAN, out : Seq(FromServer)] /\ v.socks[k] = [s EXCEPT !.out = <<>>]
    BY <1>1, <1>2 DEF Socket
  <2>2. Sane(s)
    BY <1>1 DEF Good
  <2> HIDE DEF s
  <2>3. v.socks[k] = [state |-> s.state, port |-> s.port, peer |-> s.peer, rx |-> s.rx, out |-> <<>>]
    BY <2>1
  <2>4. <<>> \in Seq(FromServer)
    OBVIOUS
  <2>5. v.socks[k] \in Socket
    BY <2>1, <2>3, <2>4 DEF Socket
  <2> QED BY <2>2, <2>3, <2>5 DEF Sane, s
<1>4. DOMAIN v.socks = 1 .. N /\ v.socks \in [1 .. N -> Socket]
  BY <1>2, <1>3
<1>5. /\ \A k \in 1 .. N : /\ v.socks[k].peer = w.socks[k].peer /\ v.socks[k].rx = w.socks[k].rx
                           /\ v.socks[k].out = <<>> /\ v.socks[k].state = w.socks[k].state
      /\ \A k \in 1 .. N : Sane(v.socks[k])
  <2> SUFFICES ASSUME NEW k \in 1 .. N
               PROVE  /\ v.socks[k].peer = w.socks[k].peer /\ v.socks[k].rx = w.socks[k].rx
                      /\ v.socks[k].out = <<>> /\ v.socks[k].state = w.socks[k].state
                      /\ Sane(v.socks[k])
    OBVIOUS
  <2> DEFINE s == w.socks[k]
  <2>1. v.socks[k] = [state |-> s.state, port |-> s.port, peer |-> s.peer, rx |-> s.rx, out |-> <<>>]
    BY <1>3
  <2>2. Sane(v.socks[k])
    BY <1>3
  <2>3. v.socks[k].peer = s.peer /\ v.socks[k].rx = s.rx /\ v.socks[k].out = <<>>
        /\ v.socks[k].state = s.state
    <3> HIDE DEF s
    <3> QED BY <2>1
  <2> QED BY <2>2, <2>3
<1>6. ASSUME NEW c \in Clients
      PROVE  v.toClient[c] \in Seq(FromServer) /\ ClientGood(c, v, g, m)
  <2>1. Of(c, v.socks) = Of(c, w.socks)
    BY <1>1, <1>4, <1>5 DEF Of
  <2>2. ClientGood(c, w, frames, n)
    BY DEF Good
  <2>3. w.toClient[c] \in Seq(FromServer)
    BY <1>1
  <2>4. CASE v.toClient[c] = w.toClient[c]
    <3>1. Holding(c, v.socks) \subseteq Holding(c, w.socks)
      BY <1>1, <1>4, <1>5, <2>1 DEF Holding, Of
    <3>2. \A k \in Of(c, v.socks) : /\ v.socks[k].rx => w.socks[k].rx \/ c \in requested
                                    /\ v.socks[k].out # <<>> => w.socks[k].out # <<>>
      BY <1>4, <1>5 DEF Of
    <3>3. Answers(v.toClient[c]) = Answers(w.toClient[c])
      BY <2>4
    <3> QED BY <2>1, <2>2, <2>3, <2>4, <3>1, <3>2, <3>3, Fewer
  <2>5. CASE v.toClient[c] # w.toClient[c]
    <3> DEFINE k == Lowest(Of(c, w.socks))
               q == w.toClient[c]
               r == v.toClient[c]
    <3>1. Of(c, w.socks) # {} /\ r = q \o w.socks[k].out
      BY <1>2, <2>5
    <3>2. k \in Of(c, w.socks) /\ k \in 1 .. N
      <4>1. Of(c, w.socks) \in SUBSET Nat /\ Of(c, w.socks) \subseteq 1 .. N
        BY <1>1 DEF Of
      <4> QED BY <3>1, <4>1, LowestIs
    <3>3. w.socks[k].out = <<"RESP", "FIN">> /\ w.socks[k].state \notin Answerable
      <4>1. w.socks[k].out # <<>>
        <5>1. q \o <<>> = q
          BY <2>3, ConcatEmptySeq
        <5> QED BY <2>5, <3>1, <5>1
      <4>2. Sane(w.socks[k])
        BY <1>1, <3>2 DEF Good
      <4> QED BY <4>1, <4>2 DEF Sane
    <3>4. k \in Holding(c, w.socks)
      BY <3>2, <3>3 DEF Holding
    <3>5. Answers(q) = {} /\ answered[c] = 0 /\ Frames("SYN", c, frames, n) = {}
          /\ client[c] # "idle" /\ c \in requested
      <4>1. Holding(c, w.socks) # {} /\ w.socks[k].out # <<>>
        BY <3>3, <3>4
      <4>2. Answers(q) = {} /\ answered[c] = 0 /\ Frames("SYN", c, frames, n) = {}
        BY <2>2, <4>1 DEF ClientGood, OneChance
      <4>3. client[c] # "idle"
        BY <2>2, <4>1 DEF ClientGood, Fresh
      <4>4. c \in requested
        BY <2>2, <3>2, <4>1 DEF ClientGood, Asked
      <4> QED BY <4>2, <4>3, <4>4
    <3>6. \A j \in Of(c, w.socks) : j = k
      BY <2>2, <3>2 DEF ClientGood, AtMostOne
    <3>7. Of(c, v.socks) = {k}
      BY <2>1, <3>2, <3>6
    <3>8. Holding(c, v.socks) = {}
      BY <1>5, <3>2, <3>3, <3>7 DEF Holding
    <3> HIDE DEF k, q, r
    <3>9. r \in Seq(FromServer) /\ AtMostOne(Answers(r))
      <4>1. r = q \o <<"RESP", "FIN">> /\ q \in Seq(FromServer)
        BY <2>3, <3>1, <3>3 DEF q
      <4> QED BY <3>5, <4>1, OneAnswerAdded
    <3>10. OneChance(c, v, g, m)
      BY <3>5, <3>8, <3>9 DEF OneChance, AtMostOne, r
    <3>11. Asked(c, v, g, m) /\ Fresh(c, v, g, m)
      BY <3>5 DEF Asked, Fresh
    <3> QED BY <2>1, <2>2, <3>9, <3>10, <3>11 DEF ClientGood, r
  <2> QED BY <2>4, <2>5
<1>7. v.toClient \in [Clients -> Seq(FromServer)]
  BY <1>2, <1>6
<1> QED BY <1>2, <1>4, <1>5, <1>6, <1>7 DEF Wire, Good, v

\* What the timer and the read loop find after their poll.
LEMMA PolledKeeps ==
  ASSUME ListenerInv
  PROVE  /\ Wire(Polled, Len(sockets)) /\ Good(Polled, <<>>, 0) /\ Len(sockets) \in Nat
         /\ \A k \in 1 .. Len(sockets) : Polled.socks[k].out = <<>>
<1> DEFINE N == Len(sockets)
<1>1. /\ toServer \in Seq(Segment) /\ sockets \in Seq(Socket)
      /\ toClient \in [Clients -> Seq(FromServer)] /\ Good(Now, toServer, 0)
  BY DEF ListenerInv, ListenerTypeOK, Segment
<1>2. N \in Nat /\ Len(toServer) \in Nat /\ sockets \in [1 .. N -> Socket]
  BY <1>1, LenProperties
<1>3. Wire(Now, N)
  BY <1>1, <1>2 DEF Wire, Now
<1>4. PICK f : IsTaking(f) /\ Polled = Egress(f[Len(toServer)])
  BY <1>2, TakingExists
<1>5. Wire(f[Len(toServer)], N) /\ Good(f[Len(toServer)], toServer, Len(toServer))
  BY <1>1, <1>2, <1>3, <1>4, TakenKeeps
<1>6. \A c \in Clients : Frames("SYN", c, <<>>, 0) = {} /\ Frames("REQ", c, <<>>, 0) = {}
  BY DEF Frames
<1> DEFINE w == f[Len(toServer)]
<1> HIDE DEF w, N
<1>7. Wire(Egress(w), N) /\ Good(Egress(w), <<>>, 0) /\ \A k \in 1 .. N : Egress(w).socks[k].out = <<>>
  <2>1. Wire(w, N) /\ Good(w, toServer, Len(toServer))
    BY <1>5 DEF w
  <2> QED BY <1>2, <1>6, <2>1, EgressKeeps, SMTT(30)
<1> QED BY <1>2, <1>4, <1>7 DEF w, N

-----------------------------------------------------------------------------
(* The steps of the kernel *)

\* At the start nobody has connected.
LEMMA ListenerInitially == ListenerInit => ListenerInv
<1> SUFFICES ASSUME ListenerInit PROVE ListenerInv
  OBVIOUS
<1>1. ListenerTypeOK
  <2>1. <<>> \in Seq(Socket) /\ <<>> \in Seq(Segment) /\ <<>> \in Seq(FromServer) /\ Len(<<>>) = 0
    OBVIOUS
  <2>2. toClient \in [Clients -> Seq(FromServer)] /\ answered \in [Clients -> Nat]
    BY <2>1 DEF ListenerInit
  <2>3. sockets \in Seq(Socket) /\ handle \in 0 .. Len(sockets) /\ toServer \in Seq(Segment)
    BY <2>1 DEF ListenerInit
  <2>4. setups \in Seq(Nat \ {0}) /\ client \in [Clients -> {"idle"}]
    BY ListenerAssumption DEF ListenerInit
  <2> QED BY <2>2, <2>3, <2>4 DEF ListenerInit, ListenerTypeOK, Segment
<1>2. Started
  BY DEF ListenerInit, Started
<1>3. \A k \in DOMAIN Now.socks : Sane(Now.socks[k])
  BY DEF ListenerInit, Now
<1>4. ASSUME NEW c \in Clients PROVE ClientGood(c, Now, toServer, 0)
  <2>1. /\ Of(c, Now.socks) = {} /\ Holding(c, Now.socks) = {} /\ Answers(Now.toClient[c]) = {}
        /\ Frames("SYN", c, toServer, 0) = {} /\ Frames("REQ", c, toServer, 0) = {} /\ answered[c] = 0
    BY DEF ListenerInit, Now, Of, Holding, Answers, Frames
  <2> QED BY <2>1 DEF ClientGood, AtMostOne, OneChance, Asked, Fresh
<1> QED BY <1>1, <1>2, <1>3, <1>4 DEF ListenerInv, Good

\* What the state becomes when the stack has been polled.
LEMMA Carried ==
  ASSUME ListenerInv, NEW w, Wire(w, Len(sockets)), Good(w, <<>>, 0),
         sockets' = w.socks, toClient' = w.toClient, toServer' = <<>>, UNCHANGED clientVars
  PROVE  /\ Good(Now, toServer, 0)' /\ sockets' \in Seq(Socket) /\ Len(sockets') = Len(sockets)
         /\ toServer' \in Seq(Segment) /\ toClient' \in [Clients -> Seq(FromServer)]
<1>1. Len(sockets) \in Nat
  BY LenProperties DEF ListenerInv, ListenerTypeOK
<1>2. sockets' \in Seq(Socket) /\ Len(sockets') = Len(sockets)
  <2>1. sockets' \in [1 .. Len(sockets) -> Socket]
    BY DEF Wire
  <2> QED BY <1>1, <2>1
<1>3. Now' = w
  BY DEF Now, Wire
<1>4. Good(Now, toServer, 0)'
  <2>1. \A k \in DOMAIN Now'.socks : Sane(Now'.socks[k])
    BY <1>3 DEF Good
  <2>2. ASSUME NEW c \in Clients PROVE ClientGood(c, Now, toServer, 0)'
    <3>1. ClientGood(c, w, <<>>, 0)
      BY DEF Good
    <3> QED BY <1>3, <3>1 DEF ClientGood, OneChance, Asked, Fresh, clientVars
  <2> QED BY <2>1, <2>2 DEF Good
<1> QED BY <1>2, <1>4 DEF Wire

\* The interrupt's poll changes nothing else.
LEMMA TimerKeeps == ListenerInv /\ TimerPoll => ListenerInv'
<1> SUFFICES ASSUME ListenerInv, TimerPoll PROVE ListenerInv'
  OBVIOUS
<1>1. sockets' = Polled.socks /\ toClient' = Polled.toClient /\ toServer' = <<>>
      /\ UNCHANGED <<main, setups, handle, port, responded, clientVars>>
  BY DEF TimerPoll
<1>2. /\ Good(Now, toServer, 0)' /\ sockets' \in Seq(Socket) /\ Len(sockets') = Len(sockets)
      /\ toServer' \in Seq(Segment) /\ toClient' \in [Clients -> Seq(FromServer)]
  BY <1>1, PolledKeeps, Carried
<1> QED BY <1>1, <1>2 DEF ListenerInv, ListenerTypeOK, Started, Segment, clientVars

\* The socket of the listener after its poll: re-armed, answered or left.
LEMMA ServedKeeps ==
  ASSUME NEW N \in Nat, NEW w, Wire(w, N), Good(w, <<>>, 0), handle \in 1 .. N, port \in Nat,
         \/ Rearm(w.socks[handle], w.socks) \/ Respond(w.socks[handle], w.socks)
         \/ Leave(w.socks[handle], w.socks)
  PROVE  LET v == [socks |-> sockets', toClient |-> w.toClient]
         IN  Wire(v, N) /\ Good(v, <<>>, 0)
<1> DEFINE s == w.socks[handle]
           v == [socks |-> sockets', toClient |-> w.toClient]
<1>1. s \in [state : SocketStates, port : Nat, peer : Clients \cup {NoClient},
             rx : BOOLEAN, out : Seq(FromServer)] /\ DOMAIN w.socks = 1 .. N
  BY DEF Wire, Socket
<1>2. CASE Rearm(s, w.socks)
  <2> DEFINE t == Listening(port)
  <2>1. t = [state |-> "Listen", port |-> port, peer |-> NoClient, rx |-> FALSE, out |-> <<>>]
        /\ <<>> \in Seq(FromServer)
    BY DEF Listening
  <2>2. t \in Socket /\ Sane(t) /\ t.peer = NoClient /\ t.state \notin Answerable /\ t.out = <<>> /\ ~ t.rx
    BY <2>1 DEF Socket, SocketStates, Sane, Answerable
  <2>3. sockets' = [w.socks EXCEPT ![handle] = t]
    BY <1>2 DEF Rearm
  <2> HIDE DEF t
  <2> QED BY <2>2, <2>3, ReplacedKeeps
<1>3. CASE Respond(s, w.socks)
  <2> DEFINE t == [s EXCEPT !.state = "FinWait1", !.rx = FALSE, !.out = <<"RESP", "FIN">>]
  <2>1. /\ s.state = "Established" /\ s.rx /\ sockets' = [w.socks EXCEPT ![handle] = t]
    BY <1>1, <1>3 DEF Respond
  <2>2. t = [state |-> "FinWait1", port |-> s.port, peer |-> s.peer, rx |-> FALSE, out |-> <<"RESP", "FIN">>]
    <3>1. t = [[[s EXCEPT !.state = "FinWait1"] EXCEPT !.rx = FALSE] EXCEPT !.out = <<"RESP", "FIN">>]
      OBVIOUS
    <3> HIDE DEF s, t
    <3>2. s = [state |-> s.state, port |-> s.port, peer |-> s.peer, rx |-> s.rx, out |-> s.out]
      BY <1>1
    <3> QED BY <3>1, <3>2
  <2>3. <<"RESP", "FIN">> \in Seq(FromServer)
    BY DEF FromServer
  <2>4. t \in Socket /\ Sane(t) /\ t.peer = s.peer /\ ~ t.rx
    BY <1>1, <2>2, <2>3 DEF Socket, SocketStates, OpenStates, Sane, Answerable
  <2>5. s.peer \in Clients => s.peer \in requested
    <3> SUFFICES ASSUME s.peer \in Clients PROVE s.peer \in requested
      OBVIOUS
    <3>1. handle \in Of(s.peer, w.socks) /\ ClientGood(s.peer, w, <<>>, 0)
      BY <1>1 DEF Of, Good
    <3> QED BY <2>1, <3>1 DEF ClientGood, Asked
  <2>6. s.state \in Answerable
    BY <2>1 DEF Answerable
  <2> HIDE DEF t
  <2> QED BY <2>1, <2>4, <2>5, <2>6, ReplacedKeeps
<1>4. CASE Leave(s, w.socks)
  BY <1>4 DEF Leave, Wire
<1> QED BY <1>2, <1>3, <1>4

\* The read loop: a poll, then what ServedKeeps says.
LEMMA ServeKeeps == ListenerInv /\ ServeHttpOnce => ListenerInv'
<1> SUFFICES ASSUME ListenerInv, ServeHttpOnce PROVE ListenerInv'
  OBVIOUS
<1>1. /\ main = "idle" /\ toClient' = Polled.toClient /\ toServer' = <<>>
      /\ \/ Rearm(Polled.socks[handle], Polled.socks) \/ Respond(Polled.socks[handle], Polled.socks)
         \/ Leave(Polled.socks[handle], Polled.socks)
      /\ UNCHANGED <<main, setups, handle, port, clientVars>>
  BY DEF ServeHttpOnce
<1>2. handle \in 1 .. Len(sockets) /\ Len(sockets) \in Nat /\ port \in Nat /\ responded \in BOOLEAN
  BY <1>1, LenProperties DEF ListenerInv, Started, ListenerTypeOK
<1> DEFINE v == [socks |-> sockets', toClient |-> Polled.toClient]
<1>3. Wire(v, Len(sockets)) /\ Good(v, <<>>, 0)
  BY <1>1, <1>2, PolledKeeps, ServedKeeps
<1>4. v.socks = sockets' /\ v.toClient = toClient'
  BY <1>1
<1> HIDE DEF v
<1>5. /\ Good(Now, toServer, 0)' /\ sockets' \in Seq(Socket) /\ Len(sockets') = Len(sockets)
      /\ toServer' \in Seq(Segment) /\ toClient' \in [Clients -> Seq(FromServer)]
  BY <1>1, <1>3, <1>4, Carried
<1>6. responded' \in BOOLEAN
  BY <1>1, <1>2 DEF Rearm, Respond, Leave
<1> QED BY <1>1, <1>5, <1>6 DEF ListenerInv, ListenerTypeOK, Started, Segment, clientVars

\* One more socket, for nobody.
LEMMA SetupKeeps == ListenerInv /\ SetupHttpListener => ListenerInv'
<1> SUFFICES ASSUME ListenerInv, SetupHttpListener PROVE ListenerInv'
  OBVIOUS
<1> DEFINE t == Listening(Head(setups))
           N == Len(sockets)
<1>1. /\ setups # <<>> /\ sockets' = Append(sockets, t) /\ port' = Head(setups)
      /\ handle' = IF handle = 0 THEN N + 1 ELSE handle
      /\ main' = IF Tail(setups) = <<>> THEN "idle" ELSE "boot"
      /\ setups' = Tail(setups)
      /\ UNCHANGED <<responded, toServer, toClient, clientVars>>
  BY DEF SetupHttpListener
<1>2. sockets \in Seq(Socket) /\ N \in Nat /\ DOMAIN sockets = 1 .. N
  BY LenProperties DEF ListenerInv, ListenerTypeOK
<1>3. Head(setups) \in Nat /\ Tail(setups) \in Seq(Nat \ {0})
  BY <1>1, HeadTailProperties DEF ListenerInv, ListenerTypeOK
<1>4. t \in Socket /\ Sane(t) /\ t.peer = NoClient
  <2>1. t = [state |-> "Listen", port |-> Head(setups), peer |-> NoClient, rx |-> FALSE, out |-> <<>>]
        /\ <<>> \in Seq(FromServer)
    BY DEF Listening
  <2> HIDE DEF t
  <2>2. t \in Socket /\ t.peer = NoClient /\ t.out = <<>> /\ ~ t.rx
    BY <1>3, <2>1 DEF Socket, SocketStates
  <2> QED BY <2>2 DEF Sane
<1> HIDE DEF t
<1>5. sockets' \in Seq(Socket) /\ Len(sockets') = N + 1 /\ sockets'[N + 1] = t
      /\ \A k \in 1 .. N : sockets'[k] = sockets[k]
  BY <1>1, <1>2, <1>4, AppendProperties
<1>6. DOMAIN sockets' = 1 .. N + 1
  BY <1>2, <1>5, LenProperties
<1>7. ListenerTypeOK' /\ Started'
  BY <1>1, <1>2, <1>3, <1>5, SMTT(30) DEF ListenerInv, ListenerTypeOK, Started, clientVars
<1>8. Good(Now, toServer, 0)'
  <2>1. Now'.socks = sockets' /\ Now'.toClient = toClient /\ Now.socks = sockets /\ Now.toClient = toClient
    BY <1>1 DEF Now
  <2>2. \A k \in DOMAIN sockets' : Sane(sockets'[k])
    BY <1>2, <1>4, <1>5, <1>6, <2>1 DEF ListenerInv, Good
  <2>3. ASSUME NEW c \in Clients PROVE ClientGood(c, Now, toServer, 0)'
    <3>1. Of(c, sockets') = Of(c, sockets)
      BY <1>2, <1>4, <1>5, <1>6, ListenerAssumption DEF Of
    <3>2. \A k \in Of(c, sockets) : sockets'[k] = sockets[k]
      BY <1>2, <1>5 DEF Of
    <3>3. Holding(c, sockets') = Holding(c, sockets)
      BY <3>1, <3>2 DEF Holding
    <3>4. ClientGood(c, Now, toServer, 0)
      BY DEF ListenerInv, Good
    <3> QED BY <1>1, <2>1, <3>1, <3>2, <3>3, <3>4 DEF ClientGood, OneChance, Asked, Fresh, clientVars
  <2> QED BY <2>1, <2>2, <2>3 DEF Good
<1> QED BY <1>7, <1>8 DEF ListenerInv

-----------------------------------------------------------------------------
(* The steps of the clients *)

\* What a client sends stands behind what was in the ring.
LEMMA SentFrames ==
  ASSUME toServer \in Seq(Segment), NEW c \in Clients, NEW kinds \in Seq(FromClient), Send(c, kinds)
  PROVE  /\ toServer' \in Seq(Segment) /\ Len(toServer) \in Nat
         /\ \A d, kind : d # c \/ (\A k \in 1 .. Len(kinds) : kinds[k] # kind)
              => Frames(kind, d, toServer', 0) = Frames(kind, d, toServer, 0)
         /\ Len(kinds) = 1 =>
              \A kind : Frames(kind, c, toServer', 0)
                          \subseteq Frames(kind, c, toServer, 0) \cup {Len(toServer) + 1}
<1> DEFINE g == [k \in 1 .. Len(kinds) |-> [from |-> c, kind |-> kinds[k]]]
           L == Len(toServer)
           K == Len(kinds)
<1>1. L \in Nat /\ K \in Nat
  BY LenProperties
<1>2. g \in Seq(Segment) /\ Len(g) = K /\ \A k \in 1 .. K : g[k].from = c /\ g[k].kind = kinds[k]
  <2>1. \A k \in 1 .. K : kinds[k] \in FromClient
    BY ElementOfSeq
  <2>2. \A k \in 1 .. K : g[k] = [from |-> c, kind |-> kinds[k]]
    OBVIOUS
  <2>3. \A k \in 1 .. K : [from |-> c, kind |-> kinds[k]] \in Segment
    BY <2>1 DEF Segment
  <2>4. g \in [1 .. K -> Segment]
    BY <2>3
  <2>5. \A k \in 1 .. K : g[k].from = c /\ g[k].kind = kinds[k]
    BY <2>2
  <2> HIDE DEF g, K
  <2>6. g \in Seq(Segment) /\ Len(g) = K
    BY <1>1, <2>4
  <2> QED BY <2>5, <2>6
<1>3. toServer' = toServer \o g
  BY DEF Send
<1> HIDE DEF g
<1>4. /\ toServer' \in Seq(Segment) /\ Len(toServer') = L + K
      /\ \A i \in 1 .. L + K : toServer'[i] = IF i <= L THEN toServer[i] ELSE g[i - L]
  <2>1. /\ toServer \o g \in Seq(Segment) /\ Len(toServer \o g) = L + Len(g)
        /\ \A i \in 1 .. L + Len(g) : (toServer \o g)[i] = IF i <= L THEN toServer[i] ELSE g[i - L]
    <3>1. toServer \in Seq(Segment) /\ g \in Seq(Segment)
      BY <1>2
    <3>2. toServer \o g \in Seq(Segment)
      BY <3>1, ConcatProperties
    <3>3. Len(toServer \o g) = Len(toServer) + Len(g)
      BY <3>1, ConcatProperties
    <3>4. \A i \in 1 .. Len(toServer) + Len(g) :
             (toServer \o g)[i] = IF i <= Len(toServer) THEN toServer[i] ELSE g[i - Len(toServer)]
      BY <3>1, ConcatProperties
    <3> QED BY <3>2, <3>3, <3>4
  <2> HIDE DEF L, K
  <2> QED BY <1>2, <1>3, <2>1
<1>5. ASSUME NEW i \in 1 .. L + K
      PROVE  /\ i <= L => toServer'[i] = toServer[i]
             /\ ~ (i <= L) => i - L \in 1 .. K /\ toServer'[i].from = c /\ toServer'[i].kind = kinds[i - L]
  BY <1>1, <1>2, <1>4
<1>6. ASSUME NEW d, NEW kind, d # c \/ \A k \in 1 .. K : kinds[k] # kind
      PROVE  Frames(kind, d, toServer', 0) = Frames(kind, d, toServer, 0)
  BY <1>1, <1>4, <1>5, <1>6 DEF Frames
<1>7. ASSUME K = 1, NEW kind
      PROVE  Frames(kind, c, toServer', 0) \subseteq Frames(kind, c, toServer, 0) \cup {L + 1}
  BY <1>1, <1>4, <1>5, <1>7 DEF Frames
<1> QED BY <1>1, <1>4, <1>6, <1>7

\* What a client does leaves the other clients' chances as they were.
LEMMA ClientMoves ==
  ASSUME ListenerInv, NEW c \in Clients, NEW kinds \in Seq(FromClient), Send(c, kinds),
         sockets' = sockets,
         \A d \in Clients : d # c =>
            /\ client'[d] = client[d] /\ answered'[d] = answered[d]
            /\ toClient'[d] = toClient[d] /\ (d \in requested' <=> d \in requested),
         ClientGood(c, Now, toServer, 0)'
  PROVE  Good(Now, toServer, 0)' /\ toServer' \in Seq(Segment)
<1>1. toServer \in Seq(Segment) /\ Good(Now, toServer, 0)
  BY DEF ListenerInv, ListenerTypeOK, Segment
<1>2. toServer' \in Seq(Segment)
  BY <1>1, SentFrames
<1>3. Now'.socks = sockets /\ Now'.toClient = toClient' /\ Now.socks = sockets /\ Now.toClient = toClient
  BY DEF Now
<1>4. ASSUME NEW d \in Clients, d # c PROVE ClientGood(d, Now, toServer, 0)'
  <2>1. ClientGood(d, Now, toServer, 0)
    BY <1>1 DEF Good
  <2>2. /\ Frames("SYN", d, toServer', 0) = Frames("SYN", d, toServer, 0)
        /\ Frames("REQ", d, toServer', 0) = Frames("REQ", d, toServer, 0)
    BY <1>1, <1>4, SentFrames
  <2> QED BY <1>3, <1>4, <2>1, <2>2 DEF ClientGood, OneChance, Asked, Fresh
<1>5. \A k \in DOMAIN Now'.socks : Sane(Now'.socks[k])
  BY <1>1, <1>3 DEF Good
<1>6. \A d \in Clients : ClientGood(d, Now, toServer, 0)'
  BY <1>4
<1> QED BY <1>2, <1>5, <1>6 DEF Good

\* What is known of a client before it moves.
LEMMA ClientState ==
  ASSUME ListenerInv, NEW c \in Clients
  PROVE  /\ toServer \in Seq(Segment) /\ toClient[c] \in Seq(FromServer) /\ answered[c] \in Nat
         /\ ClientGood(c, Now, toServer, 0) /\ Now.socks = sockets /\ Now.toClient = toClient
         /\ Now'.socks = sockets' /\ Now'.toClient = toClient'
BY DEF ListenerInv, ListenerTypeOK, Segment, Good, Now

\* Closing or resetting.
LEMMA QuitKeeps ==
  ASSUME ListenerInv, NEW c \in Clients, Abort(c) \/ HalfClose(c) PROVE ListenerInv'
<1>1. /\ sockets' = sockets /\ toClient' = toClient /\ client[c] \in {"syn", "open"}
      /\ UNCHANGED <<main, setups, handle, port, responded, requested, answered>>
  BY DEF Abort, HalfClose, serverVars
<1>2. client' \in [Clients -> {"idle", "syn", "open", "halfclosed", "done", "refused",
                              "gone", "vanished"}]
      /\ client'[c] # "idle" /\ \A d \in Clients : d # c => client'[d] = client[d]
  BY DEF Abort, HalfClose, ListenerInv, ListenerTypeOK
<1>3. PICK kinds \in {<<>>, <<"RST">>, <<"FIN">>} : Send(c, kinds)
  <2>1. CASE Abort(c)
    BY <2>1 DEF Abort
  <2>2. CASE HalfClose(c)
    BY <2>2 DEF HalfClose
  <2> QED BY <2>1, <2>2
<1>4. kinds \in Seq(FromClient) /\ \A k \in 1 .. Len(kinds) : kinds[k] # "SYN" /\ kinds[k] # "REQ"
  <2>1. <<>> \in Seq(FromClient) /\ <<"RST">> \in Seq(FromClient) /\ <<"FIN">> \in Seq(FromClient)
    BY DEF FromClient
  <2>2. \A k \in 1 .. Len(kinds) : k = 1 /\ kinds[k] \in {"RST", "FIN"}
    <3>1. CASE kinds = <<>>
      BY <3>1
    <3>2. CASE kinds \in {<<"RST">>, <<"FIN">>}
      <4>1. Len(kinds) = 1 /\ kinds[1] \in {"RST", "FIN"}
        BY <3>2
      <4>2. \A k \in 1 .. Len(kinds) : k = 1
        BY <4>1
      <4> QED BY <4>1, <4>2
    <3> QED BY <1>3, <3>1, <3>2
  <2> QED BY <1>3, <2>1, <2>2
<1>5. /\ Frames("SYN", c, toServer', 0) = Frames("SYN", c, toServer, 0)
      /\ Frames("REQ", c, toServer', 0) = Frames("REQ", c, toServer, 0)
  BY <1>3, <1>4, SentFrames, ClientState
<1>6. ClientGood(c, Now, toServer, 0)'
  BY <1>1, <1>2, <1>5, ClientState DEF ClientGood, OneChance, Asked, Fresh
<1>7. Good(Now, toServer, 0)' /\ toServer' \in Seq(Segment)
  BY <1>1, <1>2, <1>3, <1>4, <1>6, ClientMoves
<1> QED BY <1>1, <1>2, <1>7 DEF ListenerInv, ListenerTypeOK, Started, Segment

\* Switching off sends nothing.
LEMMA VanishKeeps ==
  ASSUME ListenerInv, NEW c \in Clients, Vanish(c) PROVE ListenerInv'
<1>1. /\ sockets' = sockets /\ toClient' = toClient /\ toServer' = toServer
      /\ client' = [client EXCEPT ![c] = "vanished"]
      /\ UNCHANGED <<main, setups, handle, port, responded, requested, answered>>
  BY DEF Vanish, serverVars
<1>2. client' \in [Clients -> {"idle", "syn", "open", "halfclosed", "done", "refused",
                              "gone", "vanished"}]
      /\ \A d \in Clients : client'[d] = "idle" => client[d] = "idle"
  BY <1>1 DEF ListenerInv, ListenerTypeOK
<1>3. ASSUME NEW d \in Clients PROVE ClientGood(d, Now, toServer, 0)'
  BY <1>1, <1>2, ClientState DEF ClientGood, OneChance, Asked, Fresh
<1>4. \A k \in DOMAIN Now'.socks : Sane(Now'.socks[k])
  BY <1>1 DEF Now, ListenerInv, Good
<1> QED BY <1>1, <1>2, <1>3, <1>4 DEF ListenerInv, ListenerTypeOK, Started, Good

\* The one SYN of a client that had no chance yet.
LEMMA ConnectKeeps ==
  ASSUME ListenerInv, NEW c \in Clients, Connect(c) PROVE ListenerInv'
<1>1. /\ sockets' = sockets /\ toClient' = toClient /\ client[c] = "idle" /\ Send(c, <<"SYN">>)
      /\ client' = [client EXCEPT ![c] = "syn"]
      /\ UNCHANGED <<main, setups, handle, port, responded, requested, answered>>
  BY DEF Connect, serverVars
<1>2. client' \in [Clients -> {"idle", "syn", "open", "halfclosed", "done", "refused",
                              "gone", "vanished"}]
      /\ client'[c] # "idle" /\ \A d \in Clients : d # c => client'[d] = client[d]
  BY <1>1 DEF ListenerInv, ListenerTypeOK
<1>3. <<"SYN">> \in Seq(FromClient) /\ Len(<<"SYN">>) = 1 /\ <<"SYN">>[1] = "SYN"
  BY DEF FromClient
<1>4. /\ Frames("SYN", c, toServer', 0) \subseteq Frames("SYN", c, toServer, 0) \cup {Len(toServer) + 1}
      /\ Frames("REQ", c, toServer', 0) = Frames("REQ", c, toServer, 0)
  <2> DEFINE kinds == <<"SYN">>
  <2>1. \A k \in 1 .. Len(kinds) : k = 1
    BY <1>3
  <2>2. kinds \in Seq(FromClient) /\ Len(kinds) = 1 /\ Send(c, kinds)
        /\ \A k \in 1 .. Len(kinds) : kinds[k] # "REQ"
    BY <1>1, <1>3, <2>1
  <2> HIDE DEF kinds
  <2> QED BY <2>2, SentFrames, ClientState
<1>5. /\ ClientGood(c, Now, toServer, 0) /\ Frames("SYN", c, toServer, 0) = {}
      /\ Holding(c, sockets) = {} /\ Answers(toClient[c]) = {} /\ answered[c] = 0
  BY <1>1, ClientState DEF ClientGood, Fresh
<1>6. ClientGood(c, Now, toServer, 0)'
  <2>1. OneChance(c, Now, toServer, 0)'
    <3>1. AtMostOne(Frames("SYN", c, toServer', 0))
      BY <1>4, <1>5 DEF AtMostOne
    <3>2. /\ Holding(c, Now.socks)' = {} /\ Answers(Now.toClient[c])' = {}
          /\ answered'[c] = 0
      BY <1>1, <1>5, ClientState
    <3>3. AtMostOne({})
      BY DEF AtMostOne
    <3> QED BY <3>1, <3>2, <3>3 DEF OneChance
  <2>2. Asked(c, Now, toServer, 0)'
    BY <1>1, <1>4, <1>5, ClientState DEF ClientGood, Asked
  <2>3. Fresh(c, Now, toServer, 0)'
    BY <1>2 DEF Fresh
  <2> QED BY <1>1, <1>5, <2>1, <2>2, <2>3, ClientState DEF ClientGood
<1>7. Good(Now, toServer, 0)' /\ toServer' \in Seq(Segment)
  BY <1>1, <1>2, <1>3, <1>6, ClientMoves
<1> QED BY <1>1, <1>2, <1>7 DEF ListenerInv, ListenerTypeOK, Started, Segment

\* A request is asking.
LEMMA RequestKeeps ==
  ASSUME ListenerInv, NEW c \in Clients, SendRequest(c) PROVE ListenerInv'
<1>1. /\ sockets' = sockets /\ toClient' = toClient /\ Send(c, <<"REQ">>)
      /\ requested' = requested \cup {c}
      /\ UNCHANGED <<main, setups, handle, port, responded, client, answered>>
  BY DEF SendRequest, serverVars
<1>2. <<"REQ">> \in Seq(FromClient) /\ Len(<<"REQ">>) = 1 /\ <<"REQ">>[1] = "REQ"
  BY DEF FromClient
<1>3. Frames("SYN", c, toServer', 0) = Frames("SYN", c, toServer, 0)
  <2> DEFINE kinds == <<"REQ">>
  <2>1. \A k \in 1 .. Len(kinds) : k = 1
    BY <1>2
  <2>2. kinds \in Seq(FromClient) /\ Send(c, kinds) /\ \A k \in 1 .. Len(kinds) : kinds[k] # "SYN"
    BY <1>1, <1>2, <2>1
  <2> HIDE DEF kinds
  <2> QED BY <2>2, SentFrames, ClientState
<1>4. ClientGood(c, Now, toServer, 0)'
  <2>1. c \in requested'
    BY <1>1
  <2> QED BY <1>1, <1>3, <2>1, ClientState DEF ClientGood, OneChance, Asked, Fresh
<1>5. Good(Now, toServer, 0)' /\ toServer' \in Seq(Segment)
  BY <1>1, <1>2, <1>4, ClientMoves
<1> QED BY <1>1, <1>5 DEF ListenerInv, ListenerTypeOK, Started, Segment

\* A client's answers behind the segment it takes.
LEMMA AnswersOfTail ==
  ASSUME NEW q \in Seq(FromServer), q # <<>>
  PROVE  /\ Tail(q) \in Seq(FromServer)
         /\ Head(q) = "RESP" => 1 \in Answers(q)
         /\ \A i \in Answers(Tail(q)) : i + 1 \in Answers(q) /\ i \in Nat \ {0}
<1>1. /\ Len(q) \in Nat \ {0} /\ DOMAIN q = 1 .. Len(q) /\ Head(q) = q[1]
      /\ Tail(q) \in Seq(FromServer) /\ Len(Tail(q)) = Len(q) - 1
      /\ \A i \in 1 .. Len(Tail(q)) : Tail(q)[i] = q[i + 1]
  BY LenProperties, HeadTailProperties, EmptySeq
<1>2. DOMAIN Tail(q) = 1 .. Len(q) - 1
  BY <1>1, LenProperties
<1> QED BY <1>1, <1>2 DEF Answers

\* No reaction connects or asks again.
LEMMA ReactionIs ==
  ASSUME NEW state, NEW kind
  PROVE  LET r == Reaction(state, kind)
         IN  /\ r[4] \in {<<>>, <<"ACK">>, <<"RST">>, <<"ACKFIN">>, <<"ACKFIN", "FIN">>}
             /\ r[3] = state \/ r[3] \in {"open", "gone", "done", "refused"}
<1> DEFINE known == {r \in Reactions : r[1] = state /\ r[2] = kind}
<1>1. CASE known = {}
  BY <1>1 DEF Reaction
<1>2. CASE known # {}
  <2>1. Reaction(state, kind) \in known
    BY <1>2 DEF Reaction
  <2> QED BY <2>1 DEF Reactions
<1> QED BY <1>1, <1>2

\* So what a reaction sends is neither SYN nor REQ.
LEMMA QuietKinds ==
  ASSUME NEW kinds \in {<<>>, <<"ACK">>, <<"RST">>, <<"ACKFIN">>, <<"ACKFIN", "FIN">>}
  PROVE  kinds \in Seq(FromClient) /\ \A k \in 1 .. Len(kinds) : kinds[k] # "SYN" /\ kinds[k] # "REQ"
<1>1. CASE kinds = <<>>
  BY <1>1
<1>2. CASE kinds \in {<<"ACK">>, <<"RST">>, <<"ACKFIN">>}
  <2>1. Len(kinds) = 1 /\ kinds[1] \in {"ACK", "RST", "ACKFIN"} /\ kinds \in Seq(FromClient)
    <3>1. PICK kind \in {"ACK", "RST", "ACKFIN"} : kinds = <<kind>>
      BY <1>2
    <3>2. kind \in FromClient
      BY DEF FromClient
    <3> QED BY <3>1, <3>2
  <2>2. \A k \in 1 .. Len(kinds) : k = 1
    BY <2>1
  <2> QED BY <2>1, <2>2
<1>3. CASE kinds = <<"ACKFIN", "FIN">>
  <2>1. Len(kinds) = 2 /\ kinds[1] = "ACKFIN" /\ kinds[2] = "FIN" /\ kinds \in Seq(FromClient)
    BY <1>3 DEF FromClient
  <2>2. \A k \in 1 .. Len(kinds) : k = 1 \/ k = 2
    BY <2>1
  <2> QED BY <2>1, <2>2
<1> QED BY <1>1, <1>2, <1>3

\* An answer on its way becomes an answer got.
LEMMA ReceiveKeeps ==
  ASSUME ListenerInv, NEW c \in Clients, ClientReceive(c) PROVE ListenerInv'
<1> DEFINE q == toClient[c]
           r == Reaction(client[c], Head(q))
           kinds == r[4]
<1>1. /\ q # <<>> /\ sockets' = sockets /\ Send(c, kinds)
      /\ client' = [client EXCEPT ![c] = r[3]] /\ toClient' = [toClient EXCEPT ![c] = Tail(q)]
      /\ answered' = [answered EXCEPT ![c] = IF Head(q) = "RESP" THEN @ + 1 ELSE @]
      /\ UNCHANGED <<main, setups, handle, port, responded, requested>>
  BY DEF ClientReceive, serverVars
<1>2. /\ kinds \in {<<>>, <<"ACK">>, <<"RST">>, <<"ACKFIN">>, <<"ACKFIN", "FIN">>}
      /\ r[3] = client[c] \/ r[3] \in {"open", "gone", "done", "refused"}
  BY ReactionIs
<1> HIDE DEF r
<1>3. kinds \in Seq(FromClient) /\ \A k \in 1 .. Len(kinds) : kinds[k] # "SYN" /\ kinds[k] # "REQ"
  BY <1>2, QuietKinds
<1> HIDE DEF kinds
<1>4. /\ client' \in [Clients -> {"idle", "syn", "open", "halfclosed", "done", "refused",
                              "gone", "vanished"}]
      /\ client'[c] = "idle" => client[c] = "idle"
      /\ answered' \in [Clients -> Nat] /\ toClient' \in [Clients -> Seq(FromServer)]
      /\ toClient'[c] = Tail(q) /\ answered'[c] = IF Head(q) = "RESP" THEN answered[c] + 1 ELSE answered[c]
      /\ \A d \in Clients : d # c => /\ client'[d] = client[d] /\ answered'[d] = answered[d]
                                     /\ toClient'[d] = toClient[d]
  <2>1. /\ client \in [Clients -> {"idle", "syn", "open", "halfclosed", "done", "refused",
                                   "gone", "vanished"}]
        /\ answered \in [Clients -> Nat] /\ toClient \in [Clients -> Seq(FromServer)]
    BY DEF ListenerInv, ListenerTypeOK
  <2>2. Tail(q) \in Seq(FromServer)
    BY <1>1, AnswersOfTail, ClientState
  <2> HIDE DEF q
  <2> QED BY <1>1, <1>2, <2>1, <2>2
<1>5. /\ Frames("SYN", c, toServer', 0) = Frames("SYN", c, toServer, 0)
      /\ Frames("REQ", c, toServer', 0) = Frames("REQ", c, toServer, 0)
  BY <1>1, <1>3, SentFrames, ClientState
<1>6. /\ Head(q) = "RESP" => 1 \in Answers(q)
      /\ \A i \in Answers(Tail(q)) : i + 1 \in Answers(q) /\ i \in Nat \ {0}
  BY <1>1, AnswersOfTail, ClientState
<1>7. ClientGood(c, Now, toServer, 0)'
  <2>1. ClientGood(c, Now, toServer, 0) /\ answered[c] \in Nat
    BY ClientState
  <2>2. CASE Head(q) = "RESP"
    <3>1. 1 \in Answers(q) /\ answered'[c] = answered[c] + 1
      BY <1>4, <1>6, <2>2
    <3>2. /\ AtMostOne(Answers(q)) /\ Frames("SYN", c, toServer, 0) = {} /\ Holding(c, sockets) = {}
          /\ answered[c] = 0 /\ client[c] # "idle" /\ c \in requested
      BY <2>1, <3>1, ClientState DEF ClientGood, OneChance, Fresh, Asked
    <3>3. Answers(Tail(q)) = {}
      BY <1>6, <3>1, <3>2 DEF AtMostOne
    <3>4. /\ Frames("SYN", c, toServer, 0)' = {} /\ Holding(c, Now.socks)' = {}
          /\ Answers(Now.toClient[c])' = {} /\ answered'[c] = 1
      <4>1. Now'.socks = sockets /\ Now'.toClient[c] = Tail(q)
        BY <1>1, <1>4, ClientState
      <4>2. Frames("SYN", c, toServer', 0) = {}
        BY <1>5, <3>2
      <4>3. answered'[c] = 1
        BY <3>1, <3>2
      <4> HIDE DEF q
      <4>4. Holding(c, Now'.socks) = {} /\ Answers(Now'.toClient[c]) = {}
        BY <3>2, <3>3, <4>1
      <4> QED BY <4>2, <4>3, <4>4
    <3>5. OneChance(c, Now, toServer, 0)'
      <4>1. AtMostOne({})
        BY DEF AtMostOne
      <4> QED BY <3>4, <4>1 DEF OneChance
    <3>6. Asked(c, Now, toServer, 0)' /\ Fresh(c, Now, toServer, 0)'
      BY <1>1, <1>4, <3>2 DEF Asked, Fresh
    <3> QED BY <1>1, <2>1, <3>5, <3>6, ClientState DEF ClientGood
  <2>3. CASE Head(q) # "RESP"
    <3>1. AtMostOne(Answers(q)) => AtMostOne(Answers(Tail(q)))
      <4> HIDE DEF q
      <4> SUFFICES ASSUME AtMostOne(Answers(q)), NEW i \in Answers(Tail(q)), NEW j \in Answers(Tail(q))
                   PROVE  i = j
        BY DEF AtMostOne
      <4>1. i + 1 = j + 1 /\ i \in Nat /\ j \in Nat
        BY <1>6 DEF AtMostOne
      <4> QED BY <4>1
    <3>2. Answers(q) = {} => Answers(Tail(q)) = {}
      BY <1>6
    <3>3. answered'[c] = answered[c]
      BY <1>4, <2>3
    <3>4. OneChance(c, Now, toServer, 0)'
      BY <1>1, <1>4, <1>5, <2>1, <3>1, <3>2, <3>3, ClientState DEF ClientGood, OneChance
    <3>5. Asked(c, Now, toServer, 0)' /\ Fresh(c, Now, toServer, 0)'
      BY <1>1, <1>4, <1>5, <2>1, <3>2, <3>3, ClientState DEF ClientGood, Asked, Fresh
    <3> QED BY <1>1, <2>1, <3>4, <3>5, ClientState DEF ClientGood
  <2> QED BY <2>2, <2>3
<1>8. Good(Now, toServer, 0)' /\ toServer' \in Seq(Segment)
  BY <1>1, <1>3, <1>4, <1>7, ClientMoves
<1> QED BY <1>1, <1>4, <1>8 DEF ListenerInv, ListenerTypeOK, Started, Segment

-----------------------------------------------------------------------------
(* Theorems *)

\* The invariant holds throughout.
LEMMA ListenerInductive == ListenerSpec => []ListenerInv
<1>1. ListenerInv /\ [ListenerNext]_listenerVars => ListenerInv'
  <2> SUFFICES ASSUME ListenerInv, [ListenerNext]_listenerVars PROVE ListenerInv'
    OBVIOUS
  <2>1. CASE SetupHttpListener \/ TimerPoll \/ ServeHttpOnce
    BY <2>1, SetupKeeps, TimerKeeps, ServeKeeps
  <2>2. CASE ExecuteCommand \/ CommandDone \/ UNCHANGED listenerVars
    <3>1. /\ UNCHANGED <<setups, serverVars, toServer, toClient, clientVars>>
          /\ \/ main' \in {"idle", "busy"} /\ main \in {"idle", "busy"}
             \/ main' = main
      BY <2>2 DEF ExecuteCommand, CommandDone, listenerVars
    <3>2. ListenerTypeOK' /\ Started'
      BY <3>1 DEF ListenerInv, ListenerTypeOK, Started, serverVars, clientVars
    <3>3. Good(Now, toServer, 0)'
      BY <3>1 DEF ListenerInv, Good, ClientGood, OneChance, Asked, Fresh, Now, serverVars, clientVars
    <3> QED BY <3>2, <3>3 DEF ListenerInv
  <2>3. ASSUME NEW c \in Clients,
               \/ Connect(c) \/ SendRequest(c) \/ ClientReceive(c)
               \/ Abort(c) \/ HalfClose(c) \/ Vanish(c)
        PROVE  ListenerInv'
    BY <2>3, ConnectKeeps, RequestKeeps, ReceiveKeeps, QuitKeeps, VanishKeeps
  <2> QED BY <2>1, <2>2, <2>3 DEF ListenerNext
<1> QED BY <1>1, ListenerInitially, PTL DEF ListenerSpec

\* For any number of clients that abort, half-close or vanish when they like,
\* and any number of sockets, however the polls of timer and read loop fall: a
\* client gets one answer at most and only to its request (net/mod.rs:110-128).
THEOREM AnsweredOnce == ListenerSpec => []OneAnswerPerRequest
<1>1. ListenerInv => OneAnswerPerRequest
  <2> SUFFICES ASSUME ListenerInv, NEW c \in Clients
               PROVE  LET onTheWay == Cardinality(Answers(toClient[c]))
                          queued == {k \in DOMAIN sockets : sockets[k].peer = c /\ sockets[k].out # <<>>}
                      IN  /\ answered[c] + onTheWay <= 1
                          /\ answered[c] + onTheWay = 1 => c \in requested /\ queued = {}
    BY DEF OneAnswerPerRequest, Answers
  <2> DEFINE sent == Answers(toClient[c])
  <2>1. ClientGood(c, Now, toServer, 0) /\ answered[c] \in Nat /\ Now.socks = sockets
        /\ Now.toClient = toClient
    BY ClientState
  <2>2. {k \in DOMAIN sockets : sockets[k].peer = c /\ sockets[k].out # <<>>} \subseteq Holding(c, sockets)
    BY DEF Holding, Of
  <2>3. AtMostOne(sent) /\ answered[c] <= 1 /\ (sent # {} => answered[c] = 0)
        /\ (Holding(c, sockets) # {} => sent = {} /\ answered[c] = 0)
    BY <2>1 DEF ClientGood, OneChance
  <2>4. c \notin requested => sent = {} /\ answered[c] = 0
    BY <2>1 DEF ClientGood, Asked
  <2> HIDE DEF sent
  <2>5. Cardinality(sent) \in {0, 1} /\ (Cardinality(sent) = 0 <=> sent = {})
    <3>1. CASE sent = {}
      BY <3>1, FS_EmptySet
    <3>2. CASE sent # {}
      <4>1. PICK x \in sent : sent = {x}
        BY <2>3, <3>2 DEF AtMostOne
      <4>2. Cardinality({x}) = 1
        BY FS_Singleton
      <4> QED BY <3>2, <4>1, <4>2
    <3> QED BY <3>1, <3>2
  <2>6. answered[c] + Cardinality(sent) <= 1
    BY <2>1, <2>3, <2>5
  <2>7. answered[c] + Cardinality(sent) = 1 => c \in requested /\ Holding(c, sockets) = {}
    BY <2>1, <2>3, <2>4, <2>5
  <2> QED BY <2>2, <2>6, <2>7 DEF sent
<1> QED BY <1>1, ListenerInductive, PTL

\* States, frames and sockets stay in range, for any number of each.
THEOREM ListenerTypes == ListenerSpec => []ListenerTypeOK
<1>1. ListenerInv => ListenerTypeOK
  BY DEF ListenerInv
<1> QED BY <1>1, ListenerInductive, PTL
=============================================================================
