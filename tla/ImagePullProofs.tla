--------------------------- MODULE ImagePullProofs ---------------------------
(***************************************************************************)
(* For every image, server and buffer size: https_request leaves no socket *)
(* behind, a cut of an answer is seen unless its framing hides it, the     *)
(* store keeps whole manifests and, under a digest, the bytes it is the    *)
(* digest of, and a gzip member of any lengths unpacks to its payload.     *)
(***************************************************************************)
EXTENDS ImagePull, FiniteSetTheorems, SequenceTheorems, TLAPS

-----------------------------------------------------------------------------
(* The transport.                                                           *)

Conns == {"listen", "syn", "open", "gone", "reset"}
Events == {"none", "SYNACK", "FIN", "RST"}

WireTypes ==
    /\ inbound \in [bytes : Nat, event : Events]
    /\ server \in [conn : Conns, got : Nat, sent : Nat, len : Nat]
    /\ response \in Nat /\ calls \in Nat
    /\ rx + inbound.bytes <= RxCapacity

\* Every byte of the answer is on the wire, in the buffer or in the response,
\* and the server's side of the connection is what the events say.
Conserved ==
    /\ response + rx + inbound.bytes = server.sent
    /\ server.conn \in {"listen", "syn"} => server.sent = 0 /\ inbound.event = "none"
    /\ server.conn \in {"open", "gone"} => server.sent <= server.len
    /\ server.sent <= server.len
    /\ inbound.event = "RST" => server.conn = "reset"
    /\ inbound.event = "FIN" => server.conn = "gone"

\* What the socket's state says of the server's side.
Followed ==
    /\ pc # "idle" /\ state = "Closed" => server.conn = "reset"
    /\ pc # "idle" /\ state = "Established" => server.conn \notin {"listen", "syn"}
    /\ pc # "idle" /\ state = "CloseWait" => server.conn = "gone" /\ inbound = Nothing
    /\ pc = "read" => state # "SynSent"

\* A response that was returned is all the server sent, or was cut by a reset.
Returned ==
    pc = "idle" /\ result = "ok" /\ calls > 0 =>
        \/ server.conn = "reset"
        \/ server.conn = "gone" /\ response = server.sent

HttpsInv == TypeOK /\ WireTypes /\ NoSocketLeft /\ Conserved /\ Followed /\ Returned

\* The smaller of two numbers.
LEMMA MinOfTwo ==
  ASSUME NEW m \in Int, NEW n \in Int
  PROVE  Min({m, n}) = IF m <= n THEN m ELSE n
<1>1. PICK k \in {m, n} : \A j \in {m, n} : k <= j
  <2>1. CASE m <= n
    BY <2>1
  <2>2. CASE ~ (m <= n)
    BY <2>2
  <2> QED BY <2>1, <2>2
<1>2. Min({m, n}) \in {m, n} /\ \A j \in {m, n} : Min({m, n}) <= j
  BY <1>1 DEF Min
<1> QED BY <1>2

LEMMA Params ==
  /\ FirstPort \in Nat \ {0} /\ TxCapacity \in Nat \ {0} /\ RxCapacity \in Nat \ {0}
  /\ ChunkSize \in Nat \ {0} /\ MaxPolls \in Nat \ {0} /\ RequestLen \in Nat \ {0}
  /\ MaxCalls \in Nat \ {0} /\ PortSpace \in Nat /\ FirstPort < PortSpace
  /\ ReplyLens \subseteq Nat
BY HttpsAssumption

LEMMA HttpsInit == Init => HttpsInv
<1> SUFFICES ASSUME Init PROVE HttpsInv
  OBVIOUS
<1> USE Params DEF Init
<1>1. TypeOK
  <2>1. FirstPort \in 0 .. (PortSpace - 1) /\ 0 \in 0 .. MaxPolls
        /\ 0 \in 0 .. TxCapacity /\ 0 \in 0 .. RxCapacity
    OBVIOUS
  <2> QED BY <2>1 DEF TypeOK
<1>2. WireTypes /\ NoSocketLeft
  BY DEF WireTypes, NoSocketLeft, Nothing, Fresh, Conns, Events
<1>3. Conserved /\ Followed /\ Returned
  BY DEF Conserved, Followed, Returned, Nothing, Fresh
<1> QED BY <1>1, <1>2, <1>3 DEF HttpsInv

\* One lemma for each step: the socket polls, the server acts, the caller
\* connects, waits, sends and reads.
LEMMA PollKeeps == HttpsInv /\ PollRound => HttpsInv'
<1> SUFFICES ASSUME HttpsInv, PollRound PROVE HttpsInv'
  OBVIOUS
<1> USE DEF HttpsInv
<1>1. /\ inbound \in [bytes : Nat, event : Events] /\ inbound.bytes \in Nat /\ inbound.event \in Events
      /\ server \in [conn : Conns, got : Nat, sent : Nat, len : Nat]
      /\ server.conn \in Conns /\ server.got \in Nat /\ server.sent \in Nat /\ server.len \in Nat
      /\ tx \in Nat /\ rx \in Nat /\ response \in Nat
  BY Params DEF WireTypes, TypeOK
<1>2. /\ state' = Ingress /\ rx' = rx + inbound.bytes /\ inbound' = Nothing
      /\ polling' \in BOOLEAN
      /\ UNCHANGED <<pc, polls, nextPort, port, sockets, result, calls, response>>
  BY DEF PollRound, callVars
<1>3. Ingress \in {"Closed", "SynSent", "Established", "CloseWait"}
      /\ (Ingress = state \/ Ingress \in {"Closed", "Established", "CloseWait"})
      /\ (inbound.event = "none" => Ingress = state)
      /\ (inbound.event = "SYNACK" => Ingress = "Established")
      /\ (inbound.event = "FIN" => Ingress = "CloseWait")
      /\ (inbound.event = "RST" => Ingress = "Closed")
  BY <1>1 DEF Ingress, After, TypeOK, Events
<1>4. /\ server'.sent = server.sent /\ server'.len = server.len
      /\ server' \in [conn : Conns, got : Nat, sent : Nat, len : Nat]
      /\ tx' \in 0 .. TxCapacity
      /\ server'.conn = IF Ingress # "Closed" /\ server.conn = "listen" THEN "syn" ELSE server.conn
  <2>1. CASE Ingress = "Closed"
    <3>1. server' = server /\ tx' = tx
      BY <2>1 DEF PollRound
    <3> QED BY <1>1, <2>1, <3>1 DEF TypeOK
  <2>2. CASE Ingress # "Closed"
    <3>1. /\ tx' = 0
          /\ server' = [server EXCEPT !.conn = IF server.conn = "listen" THEN "syn" ELSE server.conn,
                                      !.got = server.got + tx]
      BY <2>2 DEF PollRound
    <3> DEFINE c == IF server.conn = "listen" THEN "syn" ELSE server.conn
               g == server.got + tx
    <3>2. c \in Conns /\ g \in Nat
      BY <1>1 DEF Conns
    <3>3. server' = [server EXCEPT !.conn = c, !.got = g]
      BY <3>1
    <3> HIDE DEF c, g
    <3>4. /\ server' \in [conn : Conns, got : Nat, sent : Nat, len : Nat]
          /\ server'.conn = c /\ server'.sent = server.sent /\ server'.len = server.len
      BY <1>1, <3>2, <3>3
    <3> QED BY <2>2, <3>1, <3>4, Params DEF c
  <2> QED BY <2>1, <2>2
<1>5. inbound'.bytes = 0 /\ inbound'.event = "none" /\ inbound' \in [bytes : Nat, event : Events]
  BY <1>2 DEF Nothing, Events
<1>6. TypeOK'
  BY <1>1, <1>2, <1>3, <1>4 DEF TypeOK, WireTypes
<1>7. WireTypes' /\ NoSocketLeft'
  BY <1>1, <1>2, <1>4, <1>5 DEF WireTypes, NoSocketLeft
<1>8. Conserved'
  BY <1>1, <1>2, <1>4, <1>5 DEF Conserved
<1>9. Followed'
  BY <1>1, <1>2, <1>3, <1>4, <1>5 DEF Followed, Conserved, Events, Conns
<1>10. Returned'
  BY <1>2, <1>4 DEF Returned
<1> QED BY <1>6, <1>7, <1>8, <1>9, <1>10

LEMMA ServerKeeps == HttpsInv /\ Server => HttpsInv'
<1> SUFFICES ASSUME HttpsInv, Server PROVE HttpsInv'
  OBVIOUS
<1> USE DEF HttpsInv
<1>1. /\ inbound.bytes \in Nat /\ inbound.event \in Events
      /\ server \in [conn : Conns, got : Nat, sent : Nat, len : Nat]
      /\ server.conn \in Conns /\ server.got \in Nat /\ server.sent \in Nat /\ server.len \in Nat
      /\ rx \in Nat /\ response \in Nat
  BY Params DEF WireTypes, TypeOK
<1>2. UNCHANGED <<pc, polling, polls, nextPort, port, sockets, result, calls, state, tx, rx, response>>
  BY DEF Server, Accept, Reply, Close, Reset, Send, callVars, socketVars
<1>3. TypeOK' /\ NoSocketLeft'
  BY <1>2 DEF TypeOK, NoSocketLeft
<1>4. CASE Accept
  <2>1. PICK n \in ReplyLens : server.conn = "syn"
           /\ Send(0, "SYNACK", [server EXCEPT !.conn = "open", !.len = n])
    BY <1>4 DEF Accept
  <2>2. n \in Nat
    BY Params
  <2>3. inbound' = [bytes |-> inbound.bytes + 0, event |-> "SYNACK"]
        /\ server' = [server EXCEPT !.conn = "open", !.len = n]
    BY <2>1 DEF Send
  <2>4. /\ server' \in [conn : Conns, got : Nat, sent : Nat, len : Nat]
        /\ server'.conn = "open" /\ server'.sent = server.sent /\ server'.len = n
    BY <1>1, <2>2, <2>3 DEF Conns
  <2>5. inbound' \in [bytes : Nat, event : Events] /\ inbound'.bytes = inbound.bytes
        /\ inbound'.event = "SYNACK"
    BY <1>1, <2>3 DEF Events
  <2>6. WireTypes'
    BY <1>1, <1>2, <2>4, <2>5 DEF WireTypes
  <2>7. Conserved'
    BY <1>1, <1>2, <2>1, <2>2, <2>4, <2>5 DEF Conserved
  <2>8. Followed' /\ Returned'
    BY <1>2, <2>1, <2>4 DEF Followed, Returned
  <2> QED BY <1>3, <2>6, <2>7, <2>8
<1>5. CASE Reply
  <2>1. PICK n \in 1 .. ChunkSize :
           /\ server.conn = "open" /\ server.got = RequestLen
           /\ server.sent + n <= server.len /\ inbound.bytes + rx + n <= RxCapacity
           /\ Send(n, inbound.event, [server EXCEPT !.sent = server.sent + n])
    BY <1>5 DEF Reply
  <2>2. n \in Nat
    BY Params
  <2>3. inbound' = [bytes |-> inbound.bytes + n, event |-> inbound.event]
        /\ server' = [server EXCEPT !.sent = server.sent + n]
    BY <2>1 DEF Send
  <2>4. /\ server' \in [conn : Conns, got : Nat, sent : Nat, len : Nat]
        /\ server'.conn = "open" /\ server'.sent = server.sent + n /\ server'.len = server.len
    BY <1>1, <2>1, <2>2, <2>3 DEF Conns
  <2>5. inbound' \in [bytes : Nat, event : Events] /\ inbound'.bytes = inbound.bytes + n
        /\ inbound'.event = inbound.event
    BY <1>1, <2>2, <2>3
  <2>6. WireTypes'
    BY <1>1, <1>2, <2>1, <2>2, <2>4, <2>5, Params DEF WireTypes
  <2>7. Conserved'
    BY <1>1, <1>2, <2>1, <2>2, <2>4, <2>5 DEF Conserved
  <2>8. Followed' /\ Returned'
    BY <1>2, <2>1, <2>4 DEF Followed, Returned
  <2> QED BY <1>3, <2>6, <2>7, <2>8
<1>6. CASE Close
  <2>1. /\ server.conn = "open"
        /\ inbound' = [bytes |-> inbound.bytes + 0, event |-> "FIN"]
        /\ server' = [server EXCEPT !.conn = "gone"]
    BY <1>6 DEF Close, Send
  <2>2. /\ server' \in [conn : Conns, got : Nat, sent : Nat, len : Nat]
        /\ server'.conn = "gone" /\ server'.sent = server.sent /\ server'.len = server.len
    BY <1>1, <2>1 DEF Conns
  <2>3. inbound' \in [bytes : Nat, event : Events] /\ inbound'.bytes = inbound.bytes
        /\ inbound'.event = "FIN"
    BY <1>1, <2>1 DEF Events
  <2>4. WireTypes'
    BY <1>1, <1>2, <2>2, <2>3 DEF WireTypes
  <2>5. Conserved'
    BY <1>1, <1>2, <2>1, <2>2, <2>3 DEF Conserved
  <2>6. Followed' /\ Returned'
    BY <1>2, <2>1, <2>2 DEF Followed, Returned
  <2> QED BY <1>3, <2>4, <2>5, <2>6
<1>7. CASE Reset
  <2>1. /\ server.conn \in {"syn", "open"}
        /\ inbound' = [bytes |-> inbound.bytes + 0, event |-> "RST"]
        /\ server' = [server EXCEPT !.conn = "reset"]
    BY <1>7 DEF Reset, Send
  <2>2. /\ server' \in [conn : Conns, got : Nat, sent : Nat, len : Nat]
        /\ server'.conn = "reset" /\ server'.sent = server.sent /\ server'.len = server.len
    BY <1>1, <2>1 DEF Conns
  <2>3. inbound' \in [bytes : Nat, event : Events] /\ inbound'.bytes = inbound.bytes
        /\ inbound'.event = "RST"
    BY <1>1, <2>1 DEF Events
  <2>4. WireTypes'
    BY <1>1, <1>2, <2>2, <2>3 DEF WireTypes
  <2>5. Conserved'
    BY <1>1, <1>2, <2>1, <2>2, <2>3 DEF Conserved
  <2>6. Followed' /\ Returned'
    BY <1>2, <2>1, <2>2 DEF Followed, Returned
  <2> QED BY <1>3, <2>4, <2>5, <2>6
<1> QED BY <1>4, <1>5, <1>6, <1>7 DEF Server

LEMMA CallKeeps == HttpsInv /\ (Refuse \/ Connect) => HttpsInv'
<1> SUFFICES ASSUME HttpsInv, Refuse \/ Connect PROVE HttpsInv'
  OBVIOUS
<1> USE DEF HttpsInv
<1>1. /\ pc = "idle" /\ sockets = 0 /\ nextPort \in 0 .. PortSpace - 1 /\ calls \in Nat
      /\ port \in {0} \cup FirstPort .. (PortSpace - 1)
  BY DEF TypeOK, WireTypes, NoSocketLeft, Refuse, Connect
<1>2. (nextPort + 1) % PortSpace \in 0 .. PortSpace - 1
  BY <1>1, Params
<1>3. (IF nextPort < FirstPort THEN FirstPort ELSE nextPort) \in FirstPort .. (PortSpace - 1)
  BY <1>1, Params
<1>4. CASE Refuse
  <2>1. /\ nextPort' \in 0 .. (PortSpace - 1) /\ port' \in {0} \cup FirstPort .. (PortSpace - 1)
        /\ calls' \in Nat /\ result' = "TcpFailed"
        /\ UNCHANGED <<pc, polling, polls, sockets, state, tx, rx, response, inbound, server>>
    BY <1>1, <1>2, <1>3, <1>4 DEF Refuse, socketVars, wireVars
  <2>2. TypeOK' /\ NoSocketLeft'
    BY <2>1 DEF TypeOK, NoSocketLeft
  <2>3. WireTypes' /\ Conserved' /\ Followed' /\ Returned'
    BY <2>1 DEF WireTypes, Conserved, Followed, Returned
  <2> QED BY <2>2, <2>3
<1>5. CASE Connect
  <2>1. /\ nextPort' \in 0 .. (PortSpace - 1) /\ port' \in {0} \cup FirstPort .. (PortSpace - 1)
        /\ calls' \in Nat /\ result' = "none" /\ sockets' = 1 /\ state' = "SynSent"
        /\ tx' = 0 /\ rx' = 0 /\ inbound' = Nothing /\ server' = Fresh /\ response' = 0
        /\ polls' = MaxPolls /\ pc' = "await" /\ polling' = TRUE
    BY <1>1, <1>2, <1>3, <1>5 DEF Connect
  <2>2. TypeOK' /\ NoSocketLeft'
    BY <2>1, Params DEF TypeOK, NoSocketLeft
  <2>3. WireTypes' /\ Conserved' /\ Followed' /\ Returned'
    BY <2>1, Params
       DEF WireTypes, Conserved, Followed, Returned, Nothing, Fresh, Conns, Events
  <2> QED BY <2>2, <2>3
<1> QED BY <1>4, <1>5

LEMMA AwaitKeeps == HttpsInv /\ Await => HttpsInv'
<1> SUFFICES ASSUME HttpsInv, Await PROVE HttpsInv'
  OBVIOUS
<1> USE DEF HttpsInv
<1>1. /\ pc = "await" /\ sockets = 1 /\ polls \in 0 .. MaxPolls
      /\ UNCHANGED <<state, tx, rx, response, nextPort, port, calls, inbound, server>>
  <2>1. pc = "await" /\ sockets = 1 /\ polls \in 0 .. MaxPolls
        /\ UNCHANGED <<state, tx, rx, response>>
    BY DEF Await, NoSocketLeft, socketVars, TypeOK
  <2>2. UNCHANGED <<nextPort, port, calls, inbound, server>>
    BY DEF Await, callVars, wireVars, Return
  <2> QED BY <2>1, <2>2
<1>2. \/ state # "Closed" /\ pc' = "send" /\ UNCHANGED <<polling, polls, result, sockets>>
      \/ pc' = "await" /\ polls > 1 /\ polls' = polls - 1 /\ polling' = TRUE
         /\ UNCHANGED <<result, sockets>>
      \/ pc' = "idle" /\ sockets' = sockets - 1 /\ result' = "TcpFailed"
         /\ UNCHANGED <<polls, polling>>
  BY DEF Await, is_active, callVars, Return
<1>3. TypeOK'
  <2>1. polls > 1 => polls - 1 \in 0 .. MaxPolls
    BY <1>1, Params
  <2> QED BY <1>1, <1>2, <2>1 DEF TypeOK
<1>4. NoSocketLeft'
  BY <1>1, <1>2 DEF NoSocketLeft
<1>5. WireTypes' /\ Conserved'
  BY <1>1 DEF WireTypes, Conserved
<1>6. Followed' /\ Returned'
  BY <1>1, <1>2 DEF Followed, Returned
<1> QED BY <1>3, <1>4, <1>5, <1>6

LEMMA SendKeeps == HttpsInv /\ SendRequest => HttpsInv'
<1> SUFFICES ASSUME HttpsInv, SendRequest PROVE HttpsInv'
  OBVIOUS
<1> USE DEF HttpsInv
<1>1. /\ pc = "send" /\ sockets = 1
      /\ UNCHANGED <<polls, state, rx, response, nextPort, port, calls, inbound, server>>
  BY DEF SendRequest, NoSocketLeft, callVars, wireVars, Return
<1>2. \/ state \in {"Established", "CloseWait"} /\ pc' = "read" /\ polling' = TRUE
         /\ tx' = Min({RequestLen, TxCapacity}) /\ UNCHANGED <<result, sockets>>
      \/ pc' = "idle" /\ sockets' = sockets - 1 /\ result' = "TcpFailed"
         /\ UNCHANGED <<tx, polling>>
  BY DEF SendRequest, may_send, callVars, Return
<1>3. Min({RequestLen, TxCapacity}) \in 0 .. TxCapacity
  BY MinOfTwo, Params
<1>4. TypeOK'
  BY <1>1, <1>2, <1>3 DEF TypeOK
<1>5. NoSocketLeft'
  BY <1>1, <1>2 DEF NoSocketLeft
<1>6. WireTypes' /\ Conserved'
  BY <1>1 DEF WireTypes, Conserved
<1>7. Followed' /\ Returned'
  BY <1>1, <1>2 DEF Followed, Returned
<1> QED BY <1>4, <1>5, <1>6, <1>7

LEMMA ReadKeeps == HttpsInv /\ Read => HttpsInv'
<1> SUFFICES ASSUME HttpsInv, Read PROVE HttpsInv'
  OBVIOUS
<1> USE DEF HttpsInv
<1>1. /\ inbound.bytes \in Nat /\ server.sent \in Nat /\ server.len \in Nat
      /\ rx \in Nat /\ rx \in 0 .. RxCapacity /\ response \in Nat
  BY Params DEF WireTypes, TypeOK
<1>2. Taken \in Nat /\ Taken <= rx
  BY <1>1, MinOfTwo, Params DEF Taken
<1>3. /\ pc = "read" /\ sockets = 1
      /\ rx' = rx - Taken /\ response' = response + Taken
      /\ UNCHANGED <<polls, state, tx, nextPort, port, calls, inbound, server>>
  BY DEF Read, NoSocketLeft, callVars, wireVars, Return
<1>4. \/ /\ pc' = "idle" /\ sockets' = sockets - 1 /\ result' = "ok" /\ UNCHANGED polling
         /\ state # "Established" /\ ~ (rx - Taken > 0)
      \/ pc' = "read" /\ polling' = TRUE /\ UNCHANGED <<result, sockets>>
  BY <1>3 DEF Read, may_recv, callVars, Return
<1>5. TypeOK'
  <2>1. rx - Taken \in 0 .. RxCapacity
    BY <1>1, <1>2, Params
  <2> QED BY <1>3, <1>4, <2>1 DEF TypeOK
<1>6. NoSocketLeft'
  BY <1>3, <1>4 DEF NoSocketLeft
<1>7. WireTypes' /\ Conserved'
  BY <1>1, <1>2, <1>3, Params DEF WireTypes, Conserved
<1>8. Followed'
  BY <1>3, <1>4 DEF Followed
<1>9. Returned'
  <2> SUFFICES ASSUME pc' = "idle", result' = "ok", calls > 0
               PROVE  server.conn = "reset" \/ (server.conn = "gone" /\ response' = server.sent)
    BY <1>3 DEF Returned
  <2>1. state \in {"Closed", "CloseWait"} /\ rx - Taken = 0
    BY <1>1, <1>2, <1>3, <1>4 DEF Followed, TypeOK
  <2>2. CASE state = "Closed"
    BY <1>3, <2>2 DEF Followed
  <2>3. CASE state = "CloseWait"
    <3>1. server.conn = "gone" /\ inbound.bytes = 0
      BY <1>3, <2>3 DEF Followed, Nothing
    <3>2. response + Taken = server.sent
      BY <1>1, <1>2, <2>1, <3>1 DEF Conserved
    <3> QED BY <1>3, <3>1, <3>2
  <2> QED BY <2>1, <2>2, <2>3
<1> QED BY <1>5, <1>6, <1>7, <1>8, <1>9

LEMMA HttpsStep == HttpsInv /\ [Next]_vars => HttpsInv'
<1>1. HttpsInv /\ UNCHANGED vars => HttpsInv'
  BY DEF HttpsInv, TypeOK, WireTypes, NoSocketLeft, Conserved, Followed, Returned,
         vars, callVars, socketVars, wireVars
<1> QED BY <1>1, PollKeeps, ServerKeeps, CallKeeps, AwaitKeeps, SendKeeps, ReadKeeps
        DEF Next, Caller, Done

-----------------------------------------------------------------------------
(* Induction without an operator as parameter: over a set of numbers.       *)

\* A set of natural numbers that is not empty has a least element.
LEMMA LeastElement ==
  ASSUME NEW T \in SUBSET Nat, T # {}
  PROVE  \E k \in T : \A j \in T : k <= j
<1> DEFINE R == OpToRel(<, Nat)
<1>1. IsWellFoundedOn(R, Nat)
  BY NatLessThanWellFounded
<1>2. \A i, j \in Nat : i < j => <<i, j>> \in R
  BY Zenon DEF OpToRel
<1> HIDE DEF R
<1>3. PICK k \in T : \A j \in T : <<j, k>> \notin R
  BY <1>1, WFMin
<1> SUFFICES ASSUME NEW j \in T PROVE k <= j
  OBVIOUS
<1>4. j \in Nat /\ k \in Nat /\ ~ (j < k)
  BY <1>2, <1>3
<1> QED BY <1>4

\* A set of natural numbers with 0 and each successor is all of Nat.
LEMMA Inductively ==
  ASSUME NEW S \in SUBSET Nat, 0 \in S, \A n \in S : n + 1 \in S
  PROVE  S = Nat
<1> SUFFICES ASSUME Nat \ S # {} PROVE FALSE
  OBVIOUS
<1>1. PICK k \in Nat \ S : \A j \in Nat \ S : k <= j
  BY LeastElement
<1>2. k # 0 /\ k - 1 \in Nat /\ k - 1 \notin Nat \ S
  BY <1>1
<1> QED BY <1>2

-----------------------------------------------------------------------------
(* The parser: the recursion of parse_chunked has a solution whenever sizes *)
(* are sizes, and what it accepts of an answer is all of it.                *)

IsParse(f, data) == f = [i \in 1 .. Len(data) + 1 |-> ChunkStep(data, f, i)]

LEMMA ParseExists ==
  ASSUME NEW data, Len(data) \in Nat,
         \A i \in 1 .. Len(data) : IsSizeLine(data[i]) => data[i].size \in Nat \cup {Bad}
  PROVE  \E f : IsParse(f, data) /\ parse_chunked(data) = f[1]
<1> DEFINE N == Len(data)
           Step(f, i) == ChunkStep(data, f, i)
           S == {m \in Nat : m <= N => \E f : f = [i \in N + 1 - m .. N + 1 |-> Step(f, i)]}
<1>1. 0 \in S
  <2> DEFINE f == [i \in N + 1 .. N + 1 |-> Err("InvalidChunk")]
  <2>1. \A i \in N + 1 .. N + 1 : i > N /\ Step(f, i) = Err("InvalidChunk")
    BY DEF ChunkStep
  <2>2. f = [i \in N + 1 - 0 .. N + 1 |-> Step(f, i)]
    <3> HIDE DEF Step
    <3> QED BY <2>1
  <2> QED BY <2>2
<1>2. ASSUME NEW m \in S PROVE m + 1 \in S
  <2> SUFFICES ASSUME m + 1 <= N
               PROVE  \E f : f = [i \in N + 1 - (m + 1) .. N + 1 |-> Step(f, i)]
    OBVIOUS
  <2>1. PICK g : g = [i \in N + 1 - m .. N + 1 |-> Step(g, i)]
    OBVIOUS
  <2> DEFINE k == N + 1 - (m + 1)
             h == [i \in k .. N + 1 |-> IF i = k THEN Step(g, k) ELSE g[i]]
  <2>2. k \in 1 .. N /\ N \in Nat /\ k + 1 = N + 1 - m
    OBVIOUS
  <2>3. \A j \in k + 1 .. N + 1 : h[j] = g[j]
    BY <2>2
  <2>4. h[k] = Step(g, k)
    BY <2>2
  <2> HIDE DEF h, k
  <2>5. ASSUME NEW i \in k .. N + 1 PROVE Step(h, i) = Step(g, i)
    <3>1. CASE i > N
      BY <3>1 DEF ChunkStep
    <3>2. CASE i <= N
      <4>1. i \in 1 .. N /\ i \in Int
        BY <2>2, <3>2
      <4>2. CASE ~ IsSizeLine(data[i]) \/ data[i].size = Bad \/ data[i].size = 0
                 \/ Len(data) - i < data[i].size + 1
        BY <4>2 DEF ChunkStep
      <4>3. CASE IsSizeLine(data[i]) /\ data[i].size # Bad
                 /\ ~ (Len(data) - i < data[i].size + 1)
        <5>1. data[i].size \in Nat
          BY <4>1, <4>3
        <5>2. i + data[i].size + 2 \in k + 1 .. N + 1
          <6> DEFINE size == data[i].size
          <6>1. size \in Nat /\ ~ (N - i < size + 1)
            BY <4>3, <5>1
          <6>2. i \in Int /\ k \in Int /\ k <= i /\ N \in Nat
            BY <2>2, <4>1
          <6> HIDE DEF size, N
          <6>3. i + size + 2 \in k + 1 .. N + 1
            BY <6>1, <6>2
          <6> QED BY <6>3 DEF size
        <5>3. h[i + data[i].size + 2] = g[i + data[i].size + 2]
          BY <2>3, <5>2
        <5> QED BY <5>3 DEF ChunkStep
      <4> QED BY <4>2, <4>3
    <3> QED BY <2>2, <3>1, <3>2
  <2> HIDE DEF Step
  <2>6. \A j \in k + 1 .. N + 1 : g[j] = Step(g, j)
    BY <2>1, <2>2
  <2>7. \A i \in k .. N + 1 : h[i] = Step(h, i)
    BY <2>2, <2>3, <2>4, <2>5, <2>6
  <2> USE DEF h
  <2>8. h = [i \in k .. N + 1 |-> Step(h, i)]
    BY <2>7
  <2> QED BY <2>8 DEF k
<1>3. N \in S
  <2>1. S \in SUBSET Nat
    OBVIOUS
  <2> HIDE DEF S
  <2> QED BY <1>1, <1>2, <2>1, Inductively
<1>4. \E f : IsParse(f, data)
  <2>1. N + 1 - N = 1
    OBVIOUS
  <2> HIDE DEF Step
  <2> QED BY <1>3, <2>1 DEF IsParse, Step
<1> DEFINE F == CHOOSE f : IsParse(f, data)
<1>5. parse_chunked(data) = F[1]
  BY DEF parse_chunked, IsParse, ChunkStep
<1> QED BY <1>4, <1>5

\* What is left of an answer that was cut.
LEMMA CutOf ==
  ASSUME NEW S, NEW wire \in Seq(S), NEW n \in 1 .. Len(wire)
  PROVE  /\ Received(wire, n) # <<>> /\ Received(wire, n)[1] = wire[1]
         /\ Tail(Received(wire, n)) \in Seq(S) /\ Len(Tail(Received(wire, n))) = n - 1
         /\ \A k \in 1 .. n - 1 : Tail(Received(wire, n))[k] = wire[k + 1]
<1> DEFINE raw == SubSeq(wire, 1, n)
<1>1. \A i \in 1 .. n : wire[i] \in S
  BY LenProperties, ElementOfSeq
<1>2. /\ raw \in Seq(S) /\ Len(raw) = n /\ \A i \in 1 .. n : raw[i] = wire[i]
  <2>1. /\ raw \in Seq(S)
        /\ Len(raw) = IF 1 <= n THEN n - 1 + 1 ELSE 0
        /\ \A i \in 1 .. n - 1 + 1 : raw[i] = wire[1 + i - 1]
    BY <1>1, SubSeqProperties
  <2> QED BY <2>1, LenProperties
<1> HIDE DEF raw
<1>3. raw # <<>>
  BY <1>2, LenProperties
<1>4. Tail(raw) \in Seq(S) /\ Len(Tail(raw)) = n - 1
      /\ \A k \in 1 .. n - 1 : Tail(raw)[k] = raw[k + 1]
  BY <1>2, <1>3, HeadTailProperties
<1>5. \A k \in 1 .. n - 1 : Tail(raw)[k] = wire[k + 1]
  BY <1>2, <1>4
<1>6. raw[1] = wire[1]
  BY <1>2
<1> QED BY <1>3, <1>4, <1>5, <1>6 DEF raw, Received

\* Without chunks the body is what came, or an error.
LEMMA PlainBody ==
  ASSUME NEW S, NEW d \in Seq(S), Len(d) <= 2, NEW headers, ~ is_chunked(headers),
         Lengths(headers) # {} => headers[Min(Lengths(headers))].value \in {2, Bad},
         body_of(headers, d).ok
  PROVE  body_of(headers, d).body = d
<1>1. Len(d) \in Nat
  BY LenProperties
<1>2. CASE Lengths(headers) = {}
  BY <1>2 DEF body_of, Ok
<1>3. CASE Lengths(headers) # {}
  <2>1. CASE headers[Min(Lengths(headers))].value = Bad
    BY <1>3, <2>1 DEF body_of, Err
  <2>2. CASE headers[Min(Lengths(headers))].value = 2
    <3>1. Min({2, Len(d)}) = Len(d)
      BY <1>1, MinOfTwo
    <3>2. SubSeq(d, 1, Len(d)) = d
      BY SubSeqFull
    <3> QED BY <1>3, <2>2, <3>1, <3>2 DEF body_of, Ok, Bad
  <2> QED BY <1>3, <2>1, <2>2
<1> QED BY <1>2, <1>3

-----------------------------------------------------------------------------
(* The answers, element by element.                                         *)

PlainHead(r) ==
    IF r.framing = "length" THEN HeadWith(<<Header("content-length", 2)>>)
    ELSE IF r.framing = "close" THEN HeadWith(<<>>)
    ELSE HeadWith(<<Header("content-length", Bad)>>)

ChunkedHead == HeadWith(<<Header("content-length", 1), Header("transfer-encoding", "chunked")>>)

\* Two bytes are two whatever they are.
LEMMA TwoBytes ==
  ASSUME NEW doc
  PROVE  /\ Len(Bytes(doc)) = 2 /\ Bytes(doc)[1] = Byte(doc, 1) /\ Bytes(doc)[2] = Byte(doc, 2)
         /\ Bytes(doc) \in Seq({Byte(doc, 1), Byte(doc, 2)})
BY DEF Bytes

LEMMA OneAndTwo ==
  ASSUME NEW x, NEW a, NEW b
  PROVE  <<x>> \o <<a, b>> = <<x, a, b>>
<1> DEFINE S == {x, a, b}
<1>1. <<x>> \in Seq(S) /\ <<a, b>> \in Seq(S) /\ <<x, a, b>> \in Seq(S)
  OBVIOUS
<1>2. Len(<<x>>) = 1 /\ Len(<<a, b>>) = 2 /\ Len(<<x, a, b>>) = 3
  OBVIOUS
<1> DEFINE t == <<x>> \o <<a, b>>
<1>3. /\ t \in Seq(S) /\ Len(t) = 3
      /\ \A i \in 1 .. 3 : t[i] = IF i <= 1 THEN <<x>>[i] ELSE <<a, b>>[i - 1]
  <2> HIDE DEF S
  <2> QED BY <1>1, <1>2, ConcatProperties
<1>4. t[1] = x /\ t[2] = a /\ t[3] = b
  BY <1>3
<1>5. \A i \in 1 .. 3 : t[i] = <<x, a, b>>[i]
  BY <1>4
<1> HIDE DEF t, S
<1>6. t = <<x, a, b>>
  BY <1>1, <1>2, <1>3, <1>5, SeqEqual
<1> QED BY <1>6 DEF t

LEMMA OneAndOne ==
  ASSUME NEW a, NEW b
  PROVE  <<a>> \o <<b>> = <<a, b>>
<1> DEFINE S == {a, b}
<1>1. <<a>> \in Seq(S) /\ <<b>> \in Seq(S) /\ <<a, b>> \in Seq(S)
  OBVIOUS
<1>2. Len(<<a>>) = 1 /\ Len(<<b>>) = 1 /\ Len(<<a, b>>) = 2
  OBVIOUS
<1> DEFINE t == <<a>> \o <<b>>
<1>3. /\ t \in Seq(S) /\ Len(t) = 2
      /\ \A i \in 1 .. 2 : t[i] = IF i <= 1 THEN <<a>>[i] ELSE <<b>>[i - 1]
  <2> HIDE DEF S
  <2> QED BY <1>1, <1>2, ConcatProperties
<1>4. t[1] = a /\ t[2] = b
  BY <1>3
<1>5. \A i \in 1 .. 2 : t[i] = <<a, b>>[i]
  BY <1>4
<1> HIDE DEF t, S
<1>6. t = <<a, b>>
  BY <1>1, <1>2, <1>3, <1>5, SeqEqual
<1> QED BY <1>6 DEF t

LEMMA PlainWire ==
  ASSUME NEW r, r.framing # "chunks"
  PROVE  Wire(r) = <<PlainHead(r), Byte(r.doc, 1), Byte(r.doc, 2)>>
BY TwoBytes, OneAndTwo DEF Wire, ByLength, ByClose, Malformed, PlainHead, Bytes

LEMMA ChunkedWire ==
  ASSUME NEW r, r.framing = "chunks"
  PROVE  Wire(r) = <<ChunkedHead, SizeLine(1), Byte(r.doc, 1), CRLF,
                     SizeLine(1), Byte(r.doc, 2), CRLF, SizeLine(0)>>
BY DEF Wire, ByChunks, ChunkedHead

\* The bytes of an answer without chunks that has come up to element n.
LEMMA PlainCut ==
  ASSUME NEW r, r.framing # "chunks", NEW n \in 1 .. Len(Wire(r))
  PROVE  LET d == Tail(Received(Wire(r), n))
         IN  /\ Len(Wire(r)) = 3 /\ Len(d) = n - 1
             /\ d \in Seq({Byte(r.doc, 1), Byte(r.doc, 2)})
             /\ \A k \in 1 .. n - 1 : d[k] = Bytes(r.doc)[k]
             /\ Received(Wire(r), n) # <<>>
             /\ Received(Wire(r), n)[1] = PlainHead(r)
<1> DEFINE a == Byte(r.doc, 1)
           b == Byte(r.doc, 2)
           h == PlainHead(r)
           T == {h, a, b}
           wire == <<h, a, b>>
           d == Tail(Received(wire, n))
<1>1. Wire(r) = wire
  BY PlainWire
<1>2. Bytes(r.doc)[1] = a /\ Bytes(r.doc)[2] = b
  BY TwoBytes
<1> HIDE DEF a, b, h
<1>3. wire \in Seq(T) /\ Len(wire) = 3 /\ wire[1] = h /\ wire[2] = a /\ wire[3] = b
  OBVIOUS
<1>4. n \in 1 .. Len(wire) /\ n \in 1 .. 3
  BY <1>1, <1>3
<1> HIDE DEF wire
<1>5. /\ Received(wire, n) # <<>> /\ Received(wire, n)[1] = wire[1]
      /\ d \in Seq(T) /\ Len(d) = n - 1
      /\ \A k \in 1 .. n - 1 : d[k] = wire[k + 1]
  BY <1>3, <1>4, CutOf, ZenonT(60)
<1> HIDE DEF d
<1>6. \A k \in 1 .. n - 1 : d[k] = Bytes(r.doc)[k] /\ d[k] \in {a, b}
  <2> SUFFICES ASSUME NEW k \in 1 .. n - 1 PROVE d[k] = Bytes(r.doc)[k] /\ d[k] \in {a, b}
    OBVIOUS
  <2>1. k = 1 \/ k = 2
    BY <1>4
  <2>2. d[k] = wire[k + 1]
    BY <1>5
  <2> QED BY <1>2, <1>3, <2>1, <2>2
<1>7. d \in Seq({a, b})
  <2>1. Len(d) \in Nat /\ d = [k \in 1 .. Len(d) |-> d[k]]
    BY <1>5, LenProperties
  <2>2. \A k \in 1 .. Len(d) : d[k] \in {a, b}
    BY <1>5, <1>6
  <2> QED BY <2>1, <2>2, SeqDef
<1> QED BY <1>1, <1>3, <1>5, <1>6, <1>7 DEF d, a, b, h

\* Its headers.
LEMMA PlainHeaders ==
  ASSUME NEW r, NEW headers, headers = PlainHead(r).headers
  PROVE  /\ ~ is_chunked(headers) /\ PlainHead(r).status # Bad
         /\ Lengths(headers) # {} => headers[Min(Lengths(headers))].value \in {2, Bad}
<1>1. PlainHead(r).status # Bad
  BY DEF PlainHead, HeadWith, Bad
<1>2. headers = <<Header("content-length", 2)>> \/ headers = <<>>
      \/ headers = <<Header("content-length", Bad)>>
  BY DEF PlainHead, HeadWith
<1>3. ASSUME NEW v, headers = <<Header("content-length", v)>>
      PROVE  ~ is_chunked(headers) /\ Lengths(headers) = {1} /\ headers[1].value = v
  <2>1. DOMAIN headers = {1} /\ headers[1] = Header("content-length", v)
    BY <1>3
  <2> QED BY <2>1 DEF is_chunked, Lengths, Header
<1>4. Min({1}) = 1
  <2>1. Min({1, 1}) = 1
    BY MinOfTwo
  <2> QED BY <2>1
<1>5. ASSUME headers = <<>> PROVE ~ is_chunked(headers) /\ Lengths(headers) = {}
  <2>1. DOMAIN headers = {}
    BY <1>5
  <2> QED BY <2>1 DEF is_chunked, Lengths
<1>6. ASSUME NEW v \in {2, Bad}, headers = <<Header("content-length", v)>>
      PROVE  /\ ~ is_chunked(headers)
             /\ Lengths(headers) # {} => headers[Min(Lengths(headers))].value \in {2, Bad}
  <2>1. ~ is_chunked(headers) /\ Lengths(headers) = {1} /\ headers[1].value = v
    BY <1>3, <1>6
  <2> QED BY <1>4, <2>1
<1>7. CASE headers = <<Header("content-length", 2)>>
  <2>1. 2 \in {2, Bad}
    OBVIOUS
  <2> QED BY <1>1, <1>6, <1>7, <2>1
<1>8. CASE headers = <<Header("content-length", Bad)>>
  <2>1. Bad \in {2, Bad}
    OBVIOUS
  <2> QED BY <1>1, <1>6, <1>8, <2>1
<1> QED BY <1>1, <1>2, <1>5, <1>7, <1>8

\* An answer without chunks: the body is as much of the document as came.
LEMMA PlainFraming ==
  ASSUME NEW r, r.framing # "chunks", NEW n \in 1 .. Len(Wire(r)), NEW p,
         p = parse_response(Received(Wire(r), n)), p.ok
  PROVE  /\ IsPrefix(p.body, Bytes(r.doc))
         /\ n = Len(Wire(r)) => p.body = Bytes(r.doc)
<1> DEFINE d == Tail(Received(Wire(r), n))
           bytes == Bytes(r.doc)
           T == {Byte(r.doc, 1), Byte(r.doc, 2)}
<1>1. /\ Len(Wire(r)) = 3 /\ d \in Seq(T) /\ Len(d) = n - 1
      /\ \A k \in 1 .. n - 1 : d[k] = bytes[k]
      /\ Received(Wire(r), n) # <<>> /\ Received(Wire(r), n)[1] = PlainHead(r)
  BY PlainCut
<1>2. Len(bytes) = 2 /\ bytes \in Seq(T)
  BY TwoBytes
<1>3. p = body_of(PlainHead(r).headers, d)
  BY <1>1, PlainHeaders DEF parse_response
<1>4. p.body = d
  <2>1. Len(d) <= 2
    BY <1>1
  <2> HIDE DEF d
  <2> QED BY <1>1, <1>3, <2>1, PlainHeaders, PlainBody
<1> HIDE DEF d, bytes, T
<1>5. Len(d) <= Len(bytes) /\ Len(d) \in 0 .. 2
  BY <1>1, <1>2
<1>6. SubSeq(d, 1, Len(d)) = SubSeq(bytes, 1, Len(d))
  <2>1. SubSeq(d, 1, Len(d)) = d
    BY <1>1, SubSeqFull
  <2> DEFINE s == SubSeq(bytes, 1, Len(d))
  <2>2. /\ s \in Seq(T) /\ Len(s) = Len(d) /\ \A i \in 1 .. Len(d) : s[i] = bytes[i]
    <3>1. \A i \in 1 .. Len(d) : bytes[i] \in T
      BY <1>2, <1>5, ElementOfSeq
    <3>2. /\ s \in Seq(T)
          /\ Len(s) = IF 1 <= Len(d) THEN Len(d) - 1 + 1 ELSE 0
          /\ \A i \in 1 .. Len(d) - 1 + 1 : s[i] = bytes[1 + i - 1]
      BY <1>5, <3>1, SubSeqProperties
    <3> QED BY <1>5, <3>2
  <2>3. \A i \in 1 .. Len(d) : s[i] = d[i]
    BY <1>1, <2>2
  <2> HIDE DEF s
  <2>4. s = d
    BY <1>1, <2>2, <2>3, SeqEqual
  <2> QED BY <2>1, <2>4 DEF s
<1>7. ASSUME n = Len(Wire(r)) PROVE d = bytes
  <2>1. Len(d) = Len(bytes) /\ \A i \in 1 .. Len(d) : d[i] = bytes[i]
    BY <1>1, <1>2, <1>7
  <2> QED BY <1>1, <1>2, <2>1, SeqEqual
<1> QED BY <1>4, <1>5, <1>6, <1>7 DEF IsPrefix, bytes

\* The element a chunked answer is made of.
LEMMA ChunkedCut ==
  ASSUME NEW r, r.framing = "chunks", NEW n \in 1 .. Len(Wire(r)), NEW d,
         d = Tail(Received(Wire(r), n))
  PROVE  /\ Len(Wire(r)) = 8 /\ Len(d) = n - 1 /\ Len(d) \in 0 .. 7
         /\ Len(d) >= 1 => d[1] = SizeLine(1)
         /\ Len(d) >= 2 => d[2] = Byte(r.doc, 1)
         /\ Len(d) >= 3 => d[3] = CRLF
         /\ Len(d) >= 4 => d[4] = SizeLine(1)
         /\ Len(d) >= 5 => d[5] = Byte(r.doc, 2)
         /\ Len(d) >= 6 => d[6] = CRLF
         /\ Len(d) >= 7 => d[7] = SizeLine(0)
         /\ Received(Wire(r), n) # <<>>
         /\ Received(Wire(r), n)[1] = ChunkedHead
<1> DEFINE a == Byte(r.doc, 1)
           b == Byte(r.doc, 2)
           h == ChunkedHead
           one == SizeLine(1)
           zero == SizeLine(0)
           crlf == CRLF
           T == {h, a, b, one, zero, crlf}
           wire == <<h, one, a, crlf, one, b, crlf, zero>>
<1>1. Wire(r) = wire
  BY ChunkedWire
<1> HIDE DEF a, b, h, one, zero, crlf
<1>2. /\ wire \in Seq(T) /\ Len(wire) = 8 /\ wire[1] = h /\ wire[2] = one /\ wire[3] = a
      /\ wire[4] = crlf /\ wire[5] = one /\ wire[6] = b /\ wire[7] = crlf /\ wire[8] = zero
  OBVIOUS
<1>3. n \in 1 .. Len(wire) /\ d = Tail(Received(wire, n))
  BY <1>1
<1>10. n \in 1 .. 8
  BY <1>2, <1>3
<1> HIDE DEF wire, T
<1>4. /\ Received(wire, n) # <<>> /\ Received(wire, n)[1] = wire[1]
      /\ d \in Seq(T) /\ Len(d) = n - 1
      /\ \A k \in 1 .. n - 1 : d[k] = wire[k + 1]
  BY <1>2, <1>3, CutOf
<1>5. \A k \in 1 .. Len(d) : d[k] = wire[k + 1]
  BY <1>4
<1>6. Len(d) \in 0 .. 7
  <2>1. Len(d) = n - 1
    BY <1>4
  <2>2. \A k \in 1 .. 8 : k - 1 \in 0 .. 7
    OBVIOUS
  <2> QED BY <1>10, <2>1, <2>2, Zenon
<1>7. /\ Len(d) >= 1 => d[1] = one
      /\ Len(d) >= 2 => d[2] = a
      /\ Len(d) >= 3 => d[3] = crlf
      /\ Len(d) >= 4 => d[4] = one
      /\ Len(d) >= 5 => d[5] = b
      /\ Len(d) >= 6 => d[6] = crlf
      /\ Len(d) >= 7 => d[7] = zero
  <2>1. ASSUME Len(d) >= 1 PROVE d[1] = wire[2]
    <3>1. 1 \in 1 .. Len(d) /\ 1 + 1 = 2
      BY <1>6, <2>1
    <3> QED BY <1>5, <3>1
  <2>2. ASSUME Len(d) >= 2 PROVE d[2] = wire[3]
    <3>1. 2 \in 1 .. Len(d) /\ 2 + 1 = 3
      BY <1>6, <2>2
    <3> QED BY <1>5, <3>1
  <2>3. ASSUME Len(d) >= 3 PROVE d[3] = wire[4]
    <3>1. 3 \in 1 .. Len(d) /\ 3 + 1 = 4
      BY <1>6, <2>3
    <3> QED BY <1>5, <3>1
  <2>4. ASSUME Len(d) >= 4 PROVE d[4] = wire[5]
    <3>1. 4 \in 1 .. Len(d) /\ 4 + 1 = 5
      BY <1>6, <2>4
    <3> QED BY <1>5, <3>1
  <2>5. ASSUME Len(d) >= 5 PROVE d[5] = wire[6]
    <3>1. 5 \in 1 .. Len(d) /\ 5 + 1 = 6
      BY <1>6, <2>5
    <3> QED BY <1>5, <3>1
  <2>6. ASSUME Len(d) >= 6 PROVE d[6] = wire[7]
    <3>1. 6 \in 1 .. Len(d) /\ 6 + 1 = 7
      BY <1>6, <2>6
    <3> QED BY <1>5, <3>1
  <2>7. ASSUME Len(d) >= 7 PROVE d[7] = wire[8]
    <3>1. 7 \in 1 .. Len(d) /\ 7 + 1 = 8
      BY <1>6, <2>7
    <3> QED BY <1>5, <3>1
  <2> QED BY <1>2, <2>1, <2>2, <2>3, <2>4, <2>5, <2>6, <2>7
<1>8. Len(Wire(r)) = 8
  BY <1>1, <1>2
<1>9. Received(Wire(r), n) # <<>> /\ Received(Wire(r), n)[1] = h
  BY <1>1, <1>2, <1>4
<1> USE DEF a, b, h, one, zero, crlf
<1> QED BY <1>4, <1>6, <1>7, <1>8, <1>9

\* Which elements are size lines.
LEMMA SizeLines ==
  /\ \A k : IsSizeLine(SizeLine(k)) /\ SizeLine(k).size = k
  /\ \A doc, k : ~ IsSizeLine(Byte(doc, k))
  /\ ~ IsSizeLine(CRLF)
<1>1. \A k : IsSizeLine(SizeLine(k)) /\ SizeLine(k).size = k
  BY DEF IsSizeLine, SizeLine
<1>2. \A doc, k : ~ IsSizeLine(Byte(doc, k))
  <2> TAKE doc, k
  <2>1. "byte" \in DOMAIN Byte(doc, k)
    BY DEF Byte
  <2> QED BY <2>1 DEF IsSizeLine
<1>3. ~ IsSizeLine(CRLF)
  <2>1. "crlf" \in DOMAIN CRLF
    BY DEF CRLF
  <2> QED BY <2>1 DEF IsSizeLine
<1> QED BY <1>1, <1>2, <1>3

\* A chunk of one byte and what comes behind it.
OneByteAt(d, f, i) ==
    /\ Len(d) >= i + 2 /\ f[i + 3].ok
    /\ f[i].body = SubSeq(d, i + 1, i + 1) \o f[i + 3].body

LEMMA OneByteChunk ==
  ASSUME NEW d, Len(d) \in Nat, NEW f, NEW i \in 1 .. Len(d) + 1,
         f[i] = ChunkStep(d, f, i), i <= Len(d) => d[i] = SizeLine(1), f[i].ok
  PROVE  OneByteAt(d, f, i)
<1>1. i \in Nat /\ ~ Err("InvalidChunk").ok
  BY DEF Err
<1>2. i <= Len(d)
  <2>1. ASSUME i > Len(d) PROVE FALSE
    <3>1. ChunkStep(d, f, i) = Err("InvalidChunk")
      BY <2>1 DEF ChunkStep
    <3> QED BY <1>1, <3>1
  <2> QED BY <1>1, <2>1
<1>3. IsSizeLine(d[i]) /\ d[i].size = 1
  BY <1>2, SizeLines
<1>4. ~ (Len(d) - i < 1 + 1)
  BY <1>1, <1>2, <1>3 DEF ChunkStep, Bad
<1>5. i + 1 + 2 = i + 3 /\ ~ (i > Len(d)) /\ 1 # 0
  BY <1>1, <1>2
<1>6. f[i] = IF f[i + 3].ok THEN Ok(SubSeq(d, i + 1, i + 1) \o f[i + 3].body) ELSE f[i + 3]
  BY <1>3, <1>4, <1>5 DEF ChunkStep, Bad
<1>7. f[i + 3].ok
  BY <1>6
<1>8. Len(d) >= i + 2
  BY <1>1, <1>2, <1>4
<1> QED BY <1>6, <1>7, <1>8 DEF Ok, OneByteAt

\* A chunked answer: the body is the document, or there is none.
LEMMA ChunkedFraming ==
  ASSUME NEW r, r.framing = "chunks", NEW n \in 1 .. Len(Wire(r)), NEW p,
         p = parse_response(Received(Wire(r), n)), p.ok
  PROVE  p.body = Bytes(r.doc)
<1> DEFINE a == Byte(r.doc, 1)
           b == Byte(r.doc, 2)
<1>1. PICK d : d = Tail(Received(Wire(r), n))
  OBVIOUS
<1>2. /\ Len(d) \in 0 .. 7
      /\ Len(d) >= 1 => d[1] = SizeLine(1)
      /\ Len(d) >= 2 => d[2] = a
      /\ Len(d) >= 3 => d[3] = CRLF
      /\ Len(d) >= 4 => d[4] = SizeLine(1)
      /\ Len(d) >= 5 => d[5] = b
      /\ Len(d) >= 6 => d[6] = CRLF
      /\ Len(d) >= 7 => d[7] = SizeLine(0)
      /\ Received(Wire(r), n) # <<>>
      /\ Received(Wire(r), n)[1] = ChunkedHead
  BY <1>1, ChunkedCut, ZenonT(60)
<1>13. Len(d) \in 0 .. 7 /\ Len(d) \in Nat
  <2>1. Len(d) \in 0 .. 7
    BY <1>2
  <2> QED BY <2>1
<1>3. p = parse_chunked(d)
  <2>1. /\ ChunkedHead.status # Bad
        /\ ChunkedHead.headers = <<Header("content-length", 1), Header("transfer-encoding", "chunked")>>
    BY DEF ChunkedHead, HeadWith, Bad
  <2>2. is_chunked(ChunkedHead.headers)
    BY <2>1 DEF is_chunked, Header
  <2> QED BY <1>1, <1>2, <2>1, <2>2 DEF parse_response, body_of
<1>4. \A i \in 1 .. Len(d) : IsSizeLine(d[i]) => d[i].size \in Nat \cup {Bad}
  <2> SUFFICES ASSUME NEW i \in 1 .. Len(d), IsSizeLine(d[i])
               PROVE  d[i].size \in Nat
    OBVIOUS
  <2>1. i \in 1 .. 7 /\ i <= Len(d)
    BY <1>2
  <2>2. d[i] \in {SizeLine(1), a, CRLF, b, SizeLine(0)}
    BY <1>2, <2>1
  <2>3. d[i] = SizeLine(1) \/ d[i] = SizeLine(0)
    BY <2>2, SizeLines
  <2>4. d[i].size = 1 \/ d[i].size = 0
    BY <2>3, SizeLines
  <2> QED BY <2>4
<1>5. PICK f : IsParse(f, d) /\ p = f[1]
  <2>1. Len(d) \in Nat
    BY <1>2
  <2> QED BY <1>3, <1>4, <2>1, ParseExists
<1>6. \A i \in 1 .. Len(d) + 1 : f[i] = ChunkStep(d, f, i)
  <2> DEFINE Step(g, i) == ChunkStep(d, g, i)
  <2>1. f = [i \in 1 .. Len(d) + 1 |-> Step(f, i)]
    BY <1>5 DEF IsParse
  <2> HIDE DEF Step
  <2>2. \A i \in 1 .. Len(d) + 1 : f[i] = Step(f, i)
    BY <2>1
  <2> QED BY <2>2 DEF Step
<1> HIDE DEF a, b
<1>7. Len(d) >= 3 /\ f[4].ok /\ f[1].body = SubSeq(d, 2, 2) \o f[4].body
  <2>1. 1 \in 1 .. Len(d) + 1
    BY <1>13
  <2>2. f[1] = ChunkStep(d, f, 1) /\ f[1].ok
    BY <1>5, <1>6, <2>1
  <2>3. 1 <= Len(d) => d[1] = SizeLine(1)
    BY <1>2, <1>13
  <2>4. OneByteAt(d, f, 1)
    BY <1>13, <2>1, <2>2, <2>3, OneByteChunk
  <2>5. 1 + 2 = 3 /\ 1 + 3 = 4 /\ 1 + 1 = 2
    OBVIOUS
  <2> QED BY <2>4, <2>5 DEF OneByteAt
<1>8. Len(d) >= 6 /\ f[7].ok /\ f[4].body = SubSeq(d, 5, 5) \o f[7].body
  <2>1. 4 \in 1 .. Len(d) + 1
    BY <1>7, <1>13
  <2>2. f[4] = ChunkStep(d, f, 4) /\ f[4].ok
    BY <1>6, <1>7, <2>1
  <2>3. 4 <= Len(d) => d[4] = SizeLine(1)
    BY <1>2, <1>13
  <2>4. OneByteAt(d, f, 4)
    BY <1>13, <2>1, <2>2, <2>3, OneByteChunk
  <2>5. 4 + 2 = 6 /\ 4 + 3 = 7 /\ 4 + 1 = 5
    OBVIOUS
  <2> QED BY <2>4, <2>5 DEF OneByteAt
<1>9. Len(d) = 7 /\ f[7].body = <<>>
  <2>0. Len(d) >= 6
    BY <1>8
  <2>1. 7 \in 1 .. Len(d) + 1 /\ Len(d) \in {6, 7}
    <3>1. \A m \in 0 .. 7 : m >= 6 => 7 \in 1 .. m + 1 /\ m \in {6, 7}
      OBVIOUS
    <3> QED BY <1>13, <2>0, <3>1, Zenon
  <2>2. f[7] = ChunkStep(d, f, 7)
    BY <1>6, <2>1
  <2>3. ~ Err("InvalidChunk").ok
    BY DEF Err
  <2>4. Len(d) = 7
    <3>1. ASSUME Len(d) = 6 PROVE FALSE
      <4>1. 7 > Len(d)
        BY <3>1
      <4>2. ChunkStep(d, f, 7) = Err("InvalidChunk")
        BY <4>1 DEF ChunkStep
      <4> QED BY <1>8, <2>2, <2>3, <4>2
    <3> QED BY <2>1, <3>1
  <2>5. IsSizeLine(d[7]) /\ d[7].size = 0
    BY <1>2, <2>4, SizeLines
  <2> QED BY <2>2, <2>4, <2>5 DEF ChunkStep, Ok, Bad
<1>10. SubSeq(d, 2, 2) = <<a>> /\ SubSeq(d, 5, 5) = <<b>>
  <2>1. d[2] = a /\ d[5] = b
    BY <1>2, <1>9
  <2> DEFINE T == {a, b}
  <2>2. (\A i \in 2 .. 2 : d[i] \in T) /\ (\A i \in 5 .. 5 : d[i] \in T)
    BY <2>1
  <2> DEFINE s == SubSeq(d, 2, 2)
             t == SubSeq(d, 5, 5)
  <2>3. /\ s \in Seq(T) /\ Len(s) = IF 2 <= 2 THEN 2 - 2 + 1 ELSE 0
        /\ \A i \in 1 .. 2 - 2 + 1 : s[i] = d[2 + i - 1]
    BY <2>2, SubSeqProperties
  <2>4. /\ t \in Seq(T) /\ Len(t) = IF 5 <= 5 THEN 5 - 5 + 1 ELSE 0
        /\ \A i \in 1 .. 5 - 5 + 1 : t[i] = d[5 + i - 1]
    BY <2>2, SubSeqProperties
  <2>5. Len(s) = 1 /\ s[1] = a /\ Len(t) = 1 /\ t[1] = b
    BY <2>1, <2>3, <2>4
  <2>6. <<a>> \in Seq(T) /\ <<b>> \in Seq(T) /\ Len(<<a>>) = 1 /\ Len(<<b>>) = 1
    OBVIOUS
  <2> HIDE DEF s, t, T
  <2>7. s = <<a>>
    BY <2>3, <2>5, <2>6, SeqEqual
  <2>8. t = <<b>>
    BY <2>4, <2>5, <2>6, SeqEqual
  <2> QED BY <2>7, <2>8 DEF s, t
<1>11. <<b>> \o <<>> = <<b>>
  OBVIOUS
<1>12. <<a>> \o <<b>> = <<a, b>>
  BY OneAndOne
<1> QED BY <1>5, <1>7, <1>8, <1>9, <1>10, <1>11, <1>12 DEF a, b, Bytes

-----------------------------------------------------------------------------
(* The registry client.                                                     *)

\* What the running operation names is known to the client.
OpInv ==
    /\ op.kind \in {"token", "manifest"} => op.image \in Images
    /\ op.kind = "layer" => op.digest \in Digests
    /\ stage = "again" => op.kind = "token"
    /\ stage = "wait" => calls > 0

\* An answer that has begun is one the server may give to this request.
Answered ==
    stage = "wait" /\ (server.conn \in {"open", "gone"} \/ server.sent > 0) =>
        reply.doc \in Answers(op) /\ server.len = Len(Wire(reply))

Kept == DOMAIN images \subseteq Images /\ DOMAIN layers \subseteq Digests

PullInv ==
    /\ HttpsInv
    /\ stage \in {"free", "wait", "again"}
    /\ token \in Images \cup {NoImage}
    /\ reply \in [doc : Documents, framing : Framings]
    /\ OpInv /\ Answered /\ Kept /\ ManifestsAreGenuine

\* Documents are told apart by their bytes.
LEMMA SameBytes == \A doc, other : Bytes(doc) = Bytes(other) => doc = other
<1> TAKE doc, other
<1>1. Byte(doc, 1).of = doc /\ Byte(other, 1).of = other
  BY DEF Byte
<1> QED BY <1>1, TwoBytes

\* What a returned call hands to the parser.
LEMMA AnswerOf ==
  ASSUME PullInv, stage = "wait", pc = "idle", Response.ok
  PROVE  /\ result = "ok" /\ response \in 1 .. Len(Wire(reply)) /\ reply.doc \in Answers(op)
         /\ Response = parse_response(Received(Wire(reply), response))
         /\ \/ server.conn = "reset" \/ response = Len(Wire(reply))
            \/ server.conn = "gone" /\ server.sent < server.len
         /\ server.conn = "gone" => response = server.sent
<1> USE DEF PullInv, HttpsInv
<1>1. /\ result = "ok" /\ Response = parse_response(Received(Wire(reply), response))
  BY DEF Response, Err
<1>2. /\ response \in Nat /\ rx \in Nat /\ inbound.bytes \in Nat
      /\ server.sent \in Nat /\ server.len \in Nat
  BY Params DEF WireTypes, TypeOK
<1>3. response <= server.sent /\ server.sent <= server.len
  BY <1>2 DEF Conserved
<1>4. response # 0
  <2>1. ASSUME response = 0 PROVE FALSE
    <3>1. Received(Wire(reply), response) = <<>>
      BY <2>1 DEF Received
    <3>2. Response = Err("InvalidResponse")
      BY <1>1, <3>1 DEF parse_response
    <3> QED BY <3>2 DEF Err
  <2> QED BY <2>1
<1>5. server.conn = "reset" \/ (server.conn = "gone" /\ response = server.sent)
  BY <1>1 DEF Returned, OpInv
<1>6. reply.doc \in Answers(op) /\ server.len = Len(Wire(reply))
  BY <1>2, <1>3, <1>4 DEF Answered
<1> QED BY <1>1, <1>2, <1>3, <1>4, <1>5, <1>6

\* The body is the document, the whole of it unless the server cut one that has
\* no end mark.
LEMMA BodyOf ==
  ASSUME PullInv, stage = "wait", pc = "idle", Response.ok
  PROVE  /\ IsPrefix(Response.body, Bytes(reply.doc))
         /\ \/ Response.body = Bytes(reply.doc)
            \/ /\ reply.framing # "chunks"
               /\ server.conn = "reset" \/ server.sent < server.len
<1>1. /\ response \in 1 .. Len(Wire(reply))
      /\ Response = parse_response(Received(Wire(reply), response))
      /\ \/ server.conn = "reset" \/ server.sent < server.len
         \/ response = Len(Wire(reply))
  BY AnswerOf
<1>2. CASE reply.framing = "chunks"
  <2>1. Response.body = Bytes(reply.doc)
    BY <1>1, <1>2, ChunkedFraming
  <2>2. IsPrefix(Bytes(reply.doc), Bytes(reply.doc))
    <3>1. Len(Bytes(reply.doc)) = 2
      BY TwoBytes
    <3> QED BY <3>1 DEF IsPrefix
  <2> QED BY <2>1, <2>2
<1>3. CASE reply.framing # "chunks"
  BY <1>1, <1>3, PlainFraming
<1> QED BY <1>2, <1>3

\* A body that is a whole document is the one that was sent.
LEMMA WholeBody ==
  ASSUME PullInv, stage = "wait", pc = "idle", Response.ok,
         NEW doc, Response.body = Bytes(doc)
  PROVE  doc = reply.doc /\ doc \in Answers(op)
<1>1. IsPrefix(Bytes(doc), Bytes(reply.doc)) /\ reply.doc \in Answers(op)
  BY BodyOf, AnswerOf
<1>2. /\ Len(Bytes(doc)) = 2 /\ Len(Bytes(reply.doc)) = 2
      /\ Bytes(doc) \in Seq({Byte(doc, 1), Byte(doc, 2)})
      /\ Bytes(reply.doc) \in Seq({Byte(reply.doc, 1), Byte(reply.doc, 2)})
  BY TwoBytes
<1>3. SubSeq(Bytes(doc), 1, 2) = SubSeq(Bytes(reply.doc), 1, 2)
  BY <1>1, <1>2 DEF IsPrefix
<1>4. SubSeq(Bytes(doc), 1, 2) = Bytes(doc) /\ SubSeq(Bytes(reply.doc), 1, 2) = Bytes(reply.doc)
  BY <1>2, SubSeqFull
<1> QED BY <1>1, <1>3, <1>4, SameBytes

LEMMA PullInitially == PullInit => PullInv
<1> SUFFICES ASSUME PullInit PROVE PullInv
  OBVIOUS
<1>1. HttpsInv
  BY HttpsInit DEF PullInit
<1>2. reply \in [doc : Documents, framing : Framings]
  BY PullAssumption DEF PullInit, NoReply, Documents
<1>3. /\ stage \in {"free", "wait", "again"} /\ token \in Images \cup {NoImage}
      /\ OpInv /\ Answered
  BY DEF PullInit, NoOp, OpInv, Answered
<1>4. Kept /\ ManifestsAreGenuine
  BY DEF PullInit, Kept, ManifestsAreGenuine
<1> QED BY <1>1, <1>2, <1>3, <1>4 DEF PullInv

\* Every step of the client is one of https_request, or leaves it alone.
LEMMA PullIsHttps == [PullNext]_allVars => [Next]_vars
<1>1. ASSUME NEW o PROVE Request(o) => Next
  BY DEF Request, Next
<1>2. Operations \/ ThenFetch => Next
  BY <1>1 DEF Operations, authenticate, pull_manifest, fetch_manifest, pull_layer, ThenFetch
<1>3. Authenticated \/ ManifestFetched \/ LayerPulled => UNCHANGED vars
  BY DEF Authenticated, ManifestFetched, LayerPulled, Returns
<1>4. PullAccept \/ Transport => Next
  BY DEF PullAccept, Transport, Next, Server
<1>5. PullDone \/ UNCHANGED allVars => UNCHANGED vars
  BY DEF PullDone, allVars
<1> QED BY <1>2, <1>3, <1>4, <1>5 DEF PullNext, Registry

\* A request goes out for an operation on names the client knows.
LEMMA RequestKeeps ==
  ASSUME PullInv, NEW o, Request(o),
         o.kind \in {"token", "manifest", "layer"},
         o.kind \in {"token", "manifest"} => o.image \in Images,
         o.kind = "layer" => o.digest \in Digests
  PROVE  PullInv'
<1>1. HttpsInv'
  BY CallKeeps DEF Request, PullInv
<1>2. /\ UNCHANGED <<reply, token, layers, images>>
      /\ \/ stage' = "wait" /\ op' = o /\ Connect
         \/ stage' = "free" /\ op' = NoOp
  BY DEF Request, registryVars
<1>3. OpInv' /\ Answered'
  <2>1. CASE stage' = "wait" /\ op' = o /\ Connect
    <3>1. calls' = calls + 1 /\ server' = Fresh /\ calls \in Nat
      BY <2>1 DEF Connect, PullInv, HttpsInv, WireTypes
    <3>2. calls' > 0 /\ server'.conn = "listen" /\ server'.sent = 0
      BY <3>1 DEF Fresh
    <3> QED BY <2>1, <3>2 DEF OpInv, Answered
  <2>2. CASE stage' = "free" /\ op' = NoOp
    BY <2>2 DEF OpInv, Answered, NoOp
  <2> QED BY <1>2, <2>1, <2>2
<1>4. Kept' /\ ManifestsAreGenuine'
  BY <1>2 DEF PullInv, Kept, ManifestsAreGenuine
<1> QED BY <1>1, <1>2, <1>3, <1>4 DEF PullInv

LEMMA OperationsKeep == PullInv /\ (Operations \/ ThenFetch) => PullInv'
<1> SUFFICES ASSUME PullInv, Operations \/ ThenFetch PROVE PullInv'
  OBVIOUS
<1>1. ASSUME NEW i \in Images, authenticate(i) PROVE PullInv'
  <2> DEFINE o == [kind |-> "token", image |-> i, then |-> FALSE]
  <2>1. Request(o) /\ o.kind = "token" /\ o.image = i
    BY <1>1 DEF authenticate
  <2> HIDE DEF o
  <2> QED BY <2>1, RequestKeeps
<1>2. ASSUME NEW i \in Images, pull_manifest(i) PROVE PullInv'
  <2> DEFINE o == [kind |-> "token", image |-> i, then |-> TRUE]
  <2>1. Request(o) /\ o.kind = "token" /\ o.image = i
    BY <1>2 DEF pull_manifest
  <2> HIDE DEF o
  <2> QED BY <2>1, RequestKeeps
<1>3. ASSUME NEW i \in Images, fetch_manifest(i) PROVE PullInv'
  <2> DEFINE o == [kind |-> "manifest", image |-> i, token |-> token]
  <2>1. Request(o) /\ o.kind = "manifest" /\ o.image = i
    BY <1>3 DEF fetch_manifest
  <2> HIDE DEF o
  <2> QED BY <2>1, RequestKeeps
<1>4. ASSUME ThenFetch PROVE PullInv'
  <2> DEFINE o == [kind |-> "manifest", image |-> op.image, token |-> token]
  <2>1. Request(o) /\ o.kind = "manifest" /\ o.image = op.image /\ op.image \in Images
    BY <1>4 DEF ThenFetch, PullInv, OpInv
  <2> HIDE DEF o
  <2> QED BY <2>1, RequestKeeps
<1>5. ASSUME NEW i \in DOMAIN images, NEW d \in ToSet(images[i]), pull_layer(i, d)
      PROVE  PullInv'
  <2> DEFINE o == [kind |-> "layer", image |-> i, digest |-> d, token |-> token]
  <2>1. Request(o) /\ o.kind = "layer" /\ o.digest = d
    BY <1>5 DEF pull_layer
  <2>2. i \in Images /\ images[i] = LayersOf[i]
    BY DEF PullInv, Kept, ManifestsAreGenuine
  <2>3. LayersOf[i] \in Seq(Digests)
    BY <2>2, PullAssumption
  <2>4. d \in Digests
    <3>1. PICK k \in DOMAIN images[i] : d = images[i][k]
      BY DEF ToSet
    <3> QED BY <2>2, <2>3, <3>1, ElementOfSeq, LenProperties
  <2> HIDE DEF o
  <2> QED BY <2>1, <2>4, RequestKeeps
<1> QED BY <1>1, <1>2, <1>3, <1>4, <1>5 DEF Operations

\* The transport runs under an operation and changes nothing of it.
LEMMA TransportKeeps == PullInv /\ Transport => PullInv'
<1> SUFFICES ASSUME PullInv, Transport PROVE PullInv'
  OBVIOUS
<1>1. HttpsInv'
  BY HttpsStep, PullIsHttps DEF PullNext, PullInv
<1>2. UNCHANGED <<stage, op, reply, token, layers, images, calls>>
  <2>1. UNCHANGED <<stage, op, reply, token, layers, images>>
    BY DEF Transport, pullVars, registryVars
  <2>2. UNCHANGED calls
    BY DEF Transport, Caller, Reply, Close, Reset, Send, PollRound, Await, SendRequest, Read,
           Return, callVars
  <2> QED BY <2>1, <2>2
<1>3. OpInv' /\ Kept' /\ ManifestsAreGenuine'
  BY <1>2 DEF PullInv, OpInv, Kept, ManifestsAreGenuine
<1>4. Answered'
  <2>1. /\ server'.len = server.len
        /\ \/ server'.conn \in {"open", "gone"} \/ server'.sent > 0
           => server.conn \in {"open", "gone"} \/ server.sent > 0
    <3>0. server \in [conn : Conns, got : Nat, sent : Nat, len : Nat]
      BY DEF PullInv, HttpsInv, WireTypes
    <3>1. CASE PollRound
      <4>1. CASE Ingress = "Closed"
        BY <3>1, <4>1 DEF PollRound
      <4>2. CASE Ingress # "Closed"
        <5>1. server' = [server EXCEPT !.conn = IF server.conn = "listen" THEN "syn" ELSE server.conn,
                                       !.got = server.got + tx]
          BY <3>1, <4>2 DEF PollRound
        <5> DEFINE c == IF server.conn = "listen" THEN "syn" ELSE server.conn
                   g == server.got + tx
        <5>2. server' = [server EXCEPT !.conn = c, !.got = g]
          BY <5>1
        <5> HIDE DEF c, g
        <5>3. server'.len = server.len /\ server'.sent = server.sent /\ server'.conn = c
          BY <3>0, <5>2
        <5> QED BY <5>3 DEF c
      <4> QED BY <4>1, <4>2
    <3>2. CASE Await \/ SendRequest \/ Read
      BY <3>2 DEF Await, SendRequest, Read, Return, wireVars
    <3>3. CASE Reply
      <4>1. PICK n \in 1 .. ChunkSize :
               server.conn = "open" /\ server' = [server EXCEPT !.sent = server.sent + n]
        BY <3>3 DEF Reply, Send
      <4> QED BY <3>0, <4>1
    <3>4. CASE Close \/ Reset
      <4>1. \/ server.conn = "open" /\ server' = [server EXCEPT !.conn = "gone"]
            \/ server' = [server EXCEPT !.conn = "reset"]
        BY <3>4 DEF Close, Reset, Send
      <4> QED BY <3>0, <4>1
    <3> QED BY <3>1, <3>2, <3>3, <3>4 DEF Transport, Caller
  <2> QED BY <1>2, <2>1 DEF PullInv, Answered, Answers
<1> QED BY <1>1, <1>2, <1>3, <1>4 DEF PullInv

LEMMA AcceptKeeps == PullInv /\ PullAccept => PullInv'
<1> SUFFICES ASSUME PullInv, PullAccept PROVE PullInv'
  OBVIOUS
<1>1. HttpsInv'
  BY HttpsStep, PullIsHttps DEF PullNext, PullInv
<1>2. UNCHANGED <<stage, op, token, layers, images, calls>>
  BY DEF PullAccept, registryVars, Accept, Send, callVars
<1>3. PICK doc \in Answers(op), f \in Framings : reply' = [doc |-> doc, framing |-> f]
  BY DEF PullAccept
<1>4. doc \in Documents
  <2>1. op.kind \in {"token", "manifest"} => op.image \in Images
    BY DEF PullInv, OpInv
  <2>2. CASE op.kind = "token"
    BY <2>1, <2>2 DEF Answers, Documents
  <2>3. CASE op.kind = "manifest"
    BY <2>1, <2>3 DEF Answers, Documents
  <2>4. CASE op.kind \notin {"token", "manifest"}
    BY <2>4 DEF Answers, Documents
  <2> QED BY <2>2, <2>3, <2>4
<1>5. Answered'
  BY <1>2, <1>3 DEF PullAccept, Answered, Answers
<1>6. OpInv' /\ Kept' /\ ManifestsAreGenuine'
  BY <1>2 DEF PullInv, OpInv, Kept, ManifestsAreGenuine
<1> QED BY <1>1, <1>2, <1>3, <1>4, <1>5, <1>6 DEF PullInv

\* What is parsed as JSON is one of the documents.
LEMMA ParsedIs ==
  ASSUME NEW body, IsJson(body)
  PROVE  Parsed(body) \in Documents /\ body = Bytes(Parsed(body))
BY DEF IsJson, Parsed

LEMMA TokenDocument ==
  ASSUME NEW doc \in Documents, doc.doc = "token"
  PROVE  \E i \in Images : doc = TokenFor(i)
<1>1. \/ \E i \in Images : doc = TokenFor(i)
      \/ \E i \in Images : doc = ManifestOf(i)
      \/ \E d \in Digests : doc = Blob(d)
      \/ doc = ErrorPage
  BY DEF Documents
<1>2. /\ \A i : ManifestOf(i).doc = "manifest"
      /\ \A d : Blob(d).doc = "blob"
      /\ ErrorPage.doc = "error"
  BY DEF ManifestOf, Blob, ErrorPage
<1> QED BY <1>1, <1>2

\* An operation has ended: nothing is on its way any more.
LEMMA FreeKeeps ==
  ASSUME PullInv, Returns, Free, Kept', ManifestsAreGenuine', token' \in Images \cup {NoImage}
  PROVE  PullInv'
<1>1. HttpsInv'
  BY HttpsStep DEF Returns, PullInv
<1>2. stage' = "free" /\ op' = NoOp /\ reply' = NoReply
  BY DEF Free
<1>3. reply' \in [doc : Documents, framing : Framings]
  BY <1>2, PullAssumption DEF NoReply, Documents
<1>4. OpInv' /\ Answered'
  BY <1>2 DEF OpInv, Answered, NoOp
<1> QED BY <1>1, <1>2, <1>3, <1>4 DEF PullInv

LEMMA TokenKeeps == PullInv /\ Authenticated => PullInv'
<1> SUFFICES ASSUME PullInv, Authenticated PROVE PullInv'
  OBVIOUS
<1> DEFINE r == IF Response.ok THEN token_of(Response.body) ELSE Response
<1>1. Returns /\ op.kind = "token" /\ UNCHANGED <<layers, images>>
  BY DEF Authenticated, Fails, registryVars
<1>2. Kept' /\ ManifestsAreGenuine'
  BY <1>1 DEF PullInv, Kept, ManifestsAreGenuine
<1>3. CASE Fails(r)
  <2>1. Free /\ token' = token
    BY <1>3 DEF Fails, registryVars
  <2> QED BY <1>1, <1>2, <2>1, FreeKeeps DEF PullInv
<1>4. CASE r.ok /\ token' = r.body
           /\ IF op.then THEN stage' = "again" /\ UNCHANGED <<op, reply>> ELSE Free
  <2>1. token' \in Images
    <3>1. Response.ok /\ r = token_of(Response.body)
      BY <1>4
    <3>2. ~ Err("Json").ok /\ ~ Err("Auth").ok
      BY DEF Err
    <3>3. IsJson(Response.body) /\ Parsed(Response.body).doc = "token"
      BY <1>4, <3>1, <3>2 DEF token_of
    <3>4. r = Ok(Parsed(Response.body).image)
      BY <3>1, <3>3 DEF token_of
    <3>5. token' = Parsed(Response.body).image
      BY <1>4, <3>4 DEF Ok
    <3>6. Parsed(Response.body) \in Documents
      BY <3>3, ParsedIs
    <3>7. PICK i \in Images : Parsed(Response.body) = TokenFor(i)
      BY <3>3, <3>6, TokenDocument
    <3> QED BY <3>5, <3>7 DEF TokenFor
  <2>2. CASE op.then
    <3>1. stage' = "again" /\ UNCHANGED <<op, reply>>
      BY <1>4, <2>2
    <3>2. HttpsInv'
      BY <1>1, HttpsStep DEF Returns, PullInv
    <3>3. OpInv' /\ Answered'
      BY <1>1, <3>1 DEF PullInv, OpInv, Answered
    <3> QED BY <1>2, <2>1, <3>1, <3>2, <3>3 DEF PullInv
  <2>3. CASE ~ op.then
    BY <1>1, <1>2, <1>4, <2>1, <2>3, FreeKeeps
  <2> QED BY <2>2, <2>3
<1> QED BY <1>3, <1>4 DEF Authenticated

LEMMA ManifestKeeps == PullInv /\ ManifestFetched => PullInv'
<1> SUFFICES ASSUME PullInv, ManifestFetched PROVE PullInv'
  OBVIOUS
<1> DEFINE r == IF Response.ok THEN from_json(Response.body) ELSE Response
<1>1. /\ Returns /\ stage = "wait" /\ pc = "idle" /\ op.kind = "manifest" /\ Free
      /\ UNCHANGED <<layers, token>>
  BY DEF ManifestFetched, Fails, registryVars, Returns
<1>2. op.image \in Images
  BY <1>1 DEF PullInv, OpInv
<1>3. CASE Fails(r)
  <2>1. images' = images
    BY <1>3 DEF Fails, registryVars
  <2>2. Kept' /\ ManifestsAreGenuine'
    BY <1>1, <2>1 DEF PullInv, Kept, ManifestsAreGenuine
  <2> QED BY <1>1, <2>2, FreeKeeps DEF PullInv
<1>4. CASE r.ok /\ store_image(op.image, r.body)
  <2> DEFINE doc == Parsed(Response.body)
  <2>1. Response.ok /\ r = from_json(Response.body)
    BY <1>4
  <2>2. ~ Err("Json").ok /\ ~ Err("MissingField").ok
    BY DEF Err
  <2>3. IsJson(Response.body) /\ doc.doc = "manifest"
    BY <1>4, <2>1, <2>2 DEF from_json
  <2>4. r.body = LayersOf[doc.image]
    BY <2>1, <2>3 DEF from_json, Ok
  <2>5. Response.body = Bytes(doc)
    BY <2>3, ParsedIs
  <2> HIDE DEF doc
  <2>6. doc \in Answers(op)
    BY <1>1, <2>1, <2>5, WholeBody
  <2>7. doc = ManifestOf(op.image)
    BY <1>1, <2>3, <2>6 DEF Answers, ErrorPage
  <2>8. r.body = LayersOf[op.image]
    BY <2>4, <2>7 DEF ManifestOf
  <2> HIDE DEF r
  <2>9. /\ DOMAIN images' = DOMAIN images \cup {op.image}
        /\ \A x \in DOMAIN images' : images'[x] = IF x = op.image THEN r.body ELSE images[x]
    BY <1>4 DEF store_image
  <2>10. Kept' /\ ManifestsAreGenuine'
    BY <1>1, <1>2, <2>8, <2>9 DEF PullInv, Kept, ManifestsAreGenuine
  <2> QED BY <1>1, <2>10, FreeKeeps DEF PullInv
<1> QED BY <1>3, <1>4 DEF ManifestFetched

\* A layer is added under its digest, or nothing is.
LEMMA LayerStored ==
  ASSUME PullInv, LayerPulled
  PROVE  /\ Returns /\ Free /\ op.digest \in Digests /\ UNCHANGED <<token, images>>
         /\ \/ layers' = layers
            \/ op.digest \notin DOMAIN layers /\ Store!Put(op.digest)
<1> DEFINE r == IF Response.ok /\ ~ verify_sha256(Response.body, op.digest)
                THEN Err("DigestMismatch") ELSE Response
<1>1. Returns /\ op.kind = "layer" /\ Free /\ UNCHANGED <<token, images>>
  BY DEF LayerPulled, Fails, registryVars
<1>2. op.digest \in Digests
  BY <1>1 DEF PullInv, OpInv
<1>3. CASE Fails(r)
  BY <1>1, <1>2, <1>3 DEF Fails, registryVars
<1>4. CASE r.ok /\ store_layer(op.digest, r.body)
  <2>1. ~ Err("DigestMismatch").ok
    BY DEF Err
  <2>2. r = Response /\ verify_sha256(Response.body, op.digest)
    BY <1>4, <2>1
  <2>3. r.body = Content(op.digest)
    BY <2>2 DEF verify_sha256
  <2> HIDE DEF r
  <2>4. CASE op.digest \in DOMAIN layers
    BY <1>1, <1>2, <1>4, <2>4 DEF store_layer
  <2>5. CASE op.digest \notin DOMAIN layers
    <3>1. layers' = [x \in DOMAIN layers \cup {op.digest} |->
                        IF x = op.digest THEN Content(op.digest) ELSE layers[x]]
      BY <1>4, <2>3, <2>5 DEF store_layer
    <3>2. Store!Put(op.digest)
      BY <3>1 DEF Store!Put
    <3> QED BY <1>1, <1>2, <2>5, <3>2
  <2> QED BY <2>4, <2>5
<1> QED BY <1>3, <1>4 DEF LayerPulled

LEMMA LayerKeeps == PullInv /\ LayerPulled => PullInv'
<1> SUFFICES ASSUME PullInv, LayerPulled PROVE PullInv'
  OBVIOUS
<1>1. /\ Returns /\ Free /\ op.digest \in Digests /\ UNCHANGED <<token, images>>
      /\ \/ layers' = layers
         \/ op.digest \notin DOMAIN layers /\ Store!Put(op.digest)
  BY LayerStored
<1>2. DOMAIN layers' \subseteq Digests
  BY <1>1 DEF PullInv, Kept, Store!Put
<1>3. Kept' /\ ManifestsAreGenuine'
  BY <1>1, <1>2 DEF PullInv, Kept, ManifestsAreGenuine
<1> QED BY <1>1, <1>3, FreeKeeps DEF PullInv

LEMMA PullStep == PullInv /\ [PullNext]_allVars => PullInv'
<1>1. ASSUME PullInv, UNCHANGED allVars PROVE PullInv'
  <2>1. HttpsInv'
    BY <1>1, HttpsStep DEF allVars, PullInv
  <2>2. UNCHANGED <<stage, op, reply, token, layers, images, calls, server>>
    BY <1>1 DEF allVars, pullVars, registryVars, vars, callVars, wireVars
  <2>3. OpInv' /\ Answered' /\ Kept' /\ ManifestsAreGenuine'
    BY <1>1, <2>2 DEF PullInv, OpInv, Answered, Answers, Kept, ManifestsAreGenuine
  <2> QED BY <1>1, <2>1, <2>2, <2>3 DEF PullInv
<1> QED BY <1>1, OperationsKeep, TransportKeeps, AcceptKeeps, TokenKeeps, ManifestKeeps, LayerKeeps
        DEF PullNext, Registry, PullDone

LEMMA PullInductive == PullSpec => []PullInv
<1>1. PullInv /\ [PullNext]_allVars => PullInv'
  BY PullStep
<1> QED BY PullInitially, <1>1, PTL DEF PullSpec

-----------------------------------------------------------------------------
(* What the registry client keeps, whatever the server does and whatever is *)
(* called next.                                                             *)

\* Types: no buffer of the transport ever holds more than its capacity, and no
\* answer brings in a token, an image or a layer that was not asked for.
THEOREM PullTypes == PullSpec => []PullTypeOK
<1>1. PullInv => PullTypeOK
  BY DEF PullInv, HttpsInv, Kept, PullTypeOK
<1> QED BY <1>1, PullInductive, PTL

\* Every way out of https_request, an error after connect included, takes its
\* socket out of the set (tls.rs:90-160).
THEOREM SocketsAreRemoved == PullSpec => []NoSocketLeft
<1>1. PullInv => NoSocketLeft
  BY DEF PullInv, HttpsInv
<1> QED BY <1>1, PullInductive, PTL

\* An image's entry in the store is its own whole manifest (registry.rs:67-69).
THEOREM ManifestsGenuine == PullSpec => []ManifestsAreGenuine
<1>1. PullInv => ManifestsAreGenuine
  BY DEF PullInv
<1> QED BY <1>1, PullInductive, PTL

\* A close loses nothing that was sent before it, and what http.rs accepts of an
\* answer that the server cut, by a reset or an early close, is the whole document
\* when it came in chunks, and a part of it otherwise (http.rs:81-101).
THEOREM CutsSeen == PullSpec => []CutsAreSeen
<1>1. PullInv => CutsAreSeen
  BY BodyOf, AnswerOf DEF CutsAreSeen
<1> QED BY <1>1, PullInductive, PTL

\* The image store is a content store: under a digest lie the bytes it is the
\* digest of, and they stay (registry.rs:86-88, image_store.rs:36-46).
THEOREM StoreKeepsContent == PullSpec => StoreSpec
<1>1. PullInit => Store!Init
  BY DEF PullInit, Store!Init
<1>2. PullInv /\ [PullNext]_allVars => [Store!Next]_layers
  <2> SUFFICES ASSUME PullInv, [PullNext]_allVars
               PROVE  Store!Next \/ layers' = layers
    OBVIOUS
  <2>1. CASE LayerPulled
    BY <2>1, LayerStored DEF Store!Next
  <2>2. CASE Operations \/ ThenFetch
    <3>1. ASSUME NEW o, Request(o) PROVE layers' = layers
      BY <3>1 DEF Request, registryVars
    <3> QED BY <2>2, <3>1
            DEF Operations, authenticate, pull_manifest, fetch_manifest, pull_layer, ThenFetch
  <2>3. CASE Authenticated \/ ManifestFetched
    BY <2>3 DEF Authenticated, ManifestFetched, Fails, registryVars
  <2>4. CASE PullAccept \/ Transport \/ PullDone \/ UNCHANGED allVars
    BY <2>4 DEF PullAccept, Transport, PullDone, allVars, pullVars, registryVars
  <2> QED BY <2>1, <2>2, <2>3, <2>4 DEF PullNext, Registry
<1> QED BY <1>1, <1>2, PullInductive, PTL DEF PullSpec, StoreSpec, Store!Spec

-----------------------------------------------------------------------------
(* A gzip member, field by field: where each ends, and the bytes in it.     *)

ExtraEnd(m) == 10 + (IF m.extra = Absent THEN 0 ELSE m.extra + 2)
NameEnd(m) == ExtraEnd(m) + (IF m.name = Absent THEN 0 ELSE m.name + 1)
CommentEnd(m) == NameEnd(m) + (IF m.comment = Absent THEN 0 ELSE m.comment + 1)
HeaderLen(m) == CommentEnd(m) + (IF m.hcrc THEN 2 ELSE 0)

Fixed(m) == <<31, 139, 8, Flags(m)>> \o Fill(6, 0)
ThenExtra(m) == Fixed(m) \o Field(m.extra, <<m.extra % 256, m.extra \div 256>> \o Fill(m.extra, m.fill))
ThenName(m) == ThenExtra(m) \o Field(m.name, Fill(m.name, 65) \o <<0>>)
ThenComment(m) == ThenName(m) \o Field(m.comment, Fill(m.comment, 66) \o <<0>>)
WholeHeader(m) == ThenComment(m) \o (IF m.hcrc THEN <<1, 1>> ELSE <<>>)

Elements(m) == Int \cup {Flags(m)}

LEMMA EnvelopeParams == MaxField \in Nat /\ MaxPayload \in Nat /\ MaxInflated \in Nat
BY EnvelopeAssumption

\* An optional field that is there has a length.
LEMMA MemberFacts ==
  ASSUME NEW m \in Members
  PROVE  /\ m.payload \in Nat \ {0} /\ m.fill \in Int /\ m.hcrc \in BOOLEAN
         /\ m.extra # Absent => m.extra \in Nat
         /\ m.name # Absent => m.name \in Nat
         /\ m.comment # Absent => m.comment \in Nat
BY EnvelopeParams DEF Members, Absent

\* The fields end one behind the other.
LEMMA EndsAscend ==
  ASSUME NEW m \in Members
  PROVE  /\ ExtraEnd(m) \in Nat /\ NameEnd(m) \in Nat /\ CommentEnd(m) \in Nat /\ HeaderLen(m) \in Nat
         /\ 10 <= ExtraEnd(m) /\ ExtraEnd(m) <= NameEnd(m)
         /\ NameEnd(m) <= CommentEnd(m) /\ CommentEnd(m) <= HeaderLen(m)
<1>1. ExtraEnd(m) \in Nat /\ 10 <= ExtraEnd(m)
  BY MemberFacts DEF ExtraEnd
<1>2. NameEnd(m) \in Nat /\ ExtraEnd(m) <= NameEnd(m)
  BY <1>1, MemberFacts DEF NameEnd
<1>3. CommentEnd(m) \in Nat /\ NameEnd(m) <= CommentEnd(m)
  BY <1>2, MemberFacts DEF CommentEnd
<1>4. HeaderLen(m) \in Nat /\ CommentEnd(m) <= HeaderLen(m)
  BY <1>3 DEF HeaderLen
<1> QED BY <1>1, <1>2, <1>3, <1>4

\* Facts about a sequence, kept folded: membership next to \o costs the solver.
\* Keeps: the first n entries are those of s; Shows: behind n come those of u.
Has(s, V, n) == s \in Seq(V) /\ Len(s) = n
Keeps(t, s, n) == \A i \in 1 .. n : t[i] = s[i]
Shows(t, n, u, k) == \A i \in 1 .. k : t[n + i] = u[i]
Same(t, from, to, x) == \A i \in from .. to : t[i] = x

LEMMA FillIs ==
  ASSUME NEW V, NEW n \in Nat, NEW x \in V
  PROVE  Has(Fill(n, x), V, n) /\ Same(Fill(n, x), 1, n, x)
BY DEF Fill, Has, Same

\* What is appended leaves what was there.
LEMMA Appended ==
  ASSUME NEW V, NEW s, NEW t, NEW m \in Nat, NEW n \in Nat, Has(s, V, m), Has(t, V, n)
  PROVE  Has(s \o t, V, m + n) /\ Keeps(s \o t, s, m) /\ Shows(s \o t, m, t, n)
<1>1. s \in Seq(V) /\ t \in Seq(V) /\ Len(s) = m /\ Len(t) = n
  BY DEF Has
<1>2. /\ s \o t \in Seq(V) /\ Len(s \o t) = m + n
      /\ \A i \in 1 .. m + n : (s \o t)[i] = IF i <= m THEN s[i] ELSE t[i - m]
  BY ONLY <1>1, ConcatProperties
<1> DEFINE u == s \o t
<1> HIDE DEF u
<1>3. \A i \in 1 .. m : u[i] = s[i]
  BY <1>2 DEF u
<1>4. ASSUME NEW i \in 1 .. n PROVE u[m + i] = t[i]
  <2>1. m + i \in 1 .. m + n /\ ~(m + i <= m) /\ m + i - m = i
    OBVIOUS
  <2>2. \A j \in 1 .. m + n : u[j] = IF j <= m THEN s[j] ELSE t[j - m]
    BY <1>2 DEF u
  <2> QED BY <2>1, <2>2
<1> QED BY <1>2, <1>3, <1>4 DEF Has, Keeps, Shows, u

LEMMA NothingAppended ==
  ASSUME NEW V, NEW s, NEW m, Has(s, V, m)
  PROVE  s \o <<>> = s
BY ConcatEmptySeq DEF Has

\* A name or a comment: no NUL but the last byte.
LEMMA Terminated ==
  ASSUME NEW V, NEW s, NEW m \in Nat, Has(s, V, m),
         NEW n \in Nat, NEW x \in V, 0 \in V
  PROVE  LET t == s \o (Fill(n, x) \o <<0>>)
         IN  /\ Has(t, V, m + (n + 1)) /\ Keeps(t, s, m)
             /\ t[m + (n + 1)] = 0 /\ Same(t, m + 1, m + n, x)
<1> DEFINE f == Fill(n, x)
           e == <<0>>
           u == f \o e
           t == s \o u
<1>1. Has(f, V, n) /\ Same(f, 1, n, x)
  BY FillIs
<1>2. Has(e, V, 1) /\ e[1] = 0
  BY DEF Has
<1> HIDE DEF f, e
<1>3. Has(u, V, n + 1) /\ Keeps(u, f, n) /\ Shows(u, n, e, 1)
  BY <1>1, <1>2, Appended
<1> HIDE DEF u
<1>4. n + 1 \in Nat
  OBVIOUS
<1>5. Has(t, V, m + (n + 1)) /\ Keeps(t, s, m) /\ Shows(t, m, u, n + 1)
  BY <1>3, <1>4, Appended
<1> HIDE DEF t
<1>6. u[n + 1] = 0
  BY <1>2, <1>3 DEF Shows
<1>7. t[m + (n + 1)] = 0
  <2>1. n + 1 \in 1 .. n + 1
    OBVIOUS
  <2> QED BY <1>5, <1>6, <2>1 DEF Shows
<1>8. ASSUME NEW i \in m + 1 .. m + n PROVE t[i] = x
  <2>1. i - m \in 1 .. n /\ i - m \in 1 .. n + 1 /\ m + (i - m) = i
    OBVIOUS
  <2>2. t[i] = u[i - m]
    BY <1>5, <2>1 DEF Shows
  <2>3. u[i - m] = x
    BY <1>1, <1>3, <2>1 DEF Keeps, Same
  <2> QED BY <2>2, <2>3
<1>9. Same(t, m + 1, m + n, x)
  BY <1>8 DEF Same
<1> QED BY <1>5, <1>7, <1>9 DEF t, u, f, e

\* The header, up to the end of each field in turn.
LEMMA FixedIs ==
  ASSUME NEW m \in Members
  PROVE  /\ Has(Fixed(m), Elements(m), 10)
         /\ Fixed(m)[1] = 31 /\ Fixed(m)[2] = 139 /\ Fixed(m)[4] = Flags(m)
<1> DEFINE V == Elements(m)
           w == Flags(m)
           a == <<31, 139, 8, w>>
           b == Fill(6, 0)
<1>0. 31 \in V /\ 139 \in V /\ 8 \in V /\ w \in V /\ 0 \in V
  BY DEF Elements
<1> HIDE DEF V, w
<1>1. Has(a, V, 4) /\ a[1] = 31 /\ a[2] = 139 /\ a[4] = w
  BY <1>0 DEF Has
<1>2. Has(b, V, 6)
  BY <1>0, FillIs
<1> HIDE DEF a, b
<1>3. Has(a \o b, V, 4 + 6) /\ Keeps(a \o b, a, 4)
  BY <1>1, <1>2, Appended
<1>4. Fixed(m) = a \o b
  BY DEF Fixed, a, b, w
<1>5. Keeps(Fixed(m), a, 4) /\ Has(Fixed(m), V, 10)
  BY <1>3, <1>4
<1>6. Fixed(m)[1] = a[1] /\ Fixed(m)[2] = a[2] /\ Fixed(m)[4] = a[4]
  BY <1>5 DEF Keeps
<1> QED BY <1>1, <1>5, <1>6 DEF V, w

LEMMA ThenExtraIs ==
  ASSUME NEW m \in Members
  PROVE  /\ Has(ThenExtra(m), Elements(m), ExtraEnd(m))
         /\ ThenExtra(m)[1] = 31 /\ ThenExtra(m)[2] = 139 /\ ThenExtra(m)[4] = Flags(m)
         /\ m.extra # Absent => ThenExtra(m)[11] = m.extra % 256 /\ ThenExtra(m)[12] = m.extra \div 256
<1> DEFINE V == Elements(m)
           s == Fixed(m)
<1>1. Has(s, V, 10) /\ s[1] = 31 /\ s[2] = 139 /\ s[4] = Flags(m)
  BY FixedIs
<1>2. CASE m.extra = Absent
  <2>1. ThenExtra(m) = s \o <<>> /\ ExtraEnd(m) = 10
    BY <1>2 DEF ThenExtra, Field, ExtraEnd
  <2>2. ThenExtra(m) = s
    BY <1>1, <2>1, NothingAppended
  <2> QED BY <1>1, <1>2, <2>1, <2>2
<1>3. CASE m.extra # Absent
  <2> DEFINE n == m.extra
             lo == n % 256
             hi == n \div 256
             a == <<lo, hi>>
             f == Fill(n, m.fill)
             u == a \o f
             t == s \o u
  <2>1. n \in Nat /\ lo \in V /\ hi \in V /\ m.fill \in V
    BY <1>3, MemberFacts DEF Elements
  <2>2. ThenExtra(m) = t /\ ExtraEnd(m) = 10 + (2 + n)
    BY <1>3, <2>1 DEF ThenExtra, Field, ExtraEnd
  <2> HIDE DEF V, s, n, lo, hi
  <2>3. Has(a, V, 2) /\ a[1] = lo /\ a[2] = hi
    BY <2>1 DEF Has
  <2>4. Has(f, V, n)
    BY <2>1, FillIs
  <2> HIDE DEF a, f
  <2>5. Has(u, V, 2 + n) /\ Keeps(u, a, 2)
    BY <2>1, <2>3, <2>4, Appended
  <2> HIDE DEF u
  <2>6. 2 + n \in Nat /\ {1, 2} \subseteq 1 .. 2 + n
    BY <2>1
  <2>7. Has(t, V, 10 + (2 + n)) /\ Keeps(t, s, 10) /\ Shows(t, 10, u, 2 + n)
    BY <1>1, <2>5, <2>6, Appended
  <2> HIDE DEF t
  <2>8. u[1] = lo /\ u[2] = hi
    BY <2>3, <2>5 DEF Keeps
  <2>9. t[10 + 1] = u[1] /\ t[10 + 2] = u[2]
    BY <2>6, <2>7 DEF Shows
  <2>10. t[1] = s[1] /\ t[2] = s[2] /\ t[4] = s[4]
    BY <2>7 DEF Keeps
  <2>11. t[11] = lo /\ t[12] = hi
    BY <2>8, <2>9
  <2> QED BY <1>1, <2>2, <2>7, <2>10, <2>11 DEF n, V, lo, hi
<1> QED BY <1>2, <1>3

LEMMA ThenNameIs ==
  ASSUME NEW m \in Members, NEW V, {0, 65} \subseteq V, Has(ThenExtra(m), V, ExtraEnd(m))
  PROVE  /\ Has(ThenName(m), V, NameEnd(m)) /\ Keeps(ThenName(m), ThenExtra(m), ExtraEnd(m))
         /\ m.name # Absent => /\ ThenName(m)[NameEnd(m)] = 0
                               /\ Same(ThenName(m), ExtraEnd(m) + 1, NameEnd(m) - 1, 65)
<1>1. CASE m.name = Absent
  <2>1. ThenName(m) = ThenExtra(m) \o <<>> /\ NameEnd(m) = ExtraEnd(m)
    BY <1>1, EndsAscend DEF ThenName, Field, NameEnd
  <2>2. ThenName(m) = ThenExtra(m)
    BY <2>1, NothingAppended
  <2> QED BY <1>1, <2>1, <2>2 DEF Keeps
<1>2. CASE m.name # Absent
  <2>1. m.name \in Nat /\ ExtraEnd(m) \in Nat
    BY <1>2, MemberFacts, EndsAscend
  <2>2. ThenName(m) = ThenExtra(m) \o (Fill(m.name, 65) \o <<0>>)
    BY <1>2 DEF ThenName, Field
  <2>3. NameEnd(m) = ExtraEnd(m) + (m.name + 1) /\ NameEnd(m) - 1 = ExtraEnd(m) + m.name
    BY <1>2, <2>1 DEF NameEnd
  <2>4. 0 \in V /\ 65 \in V
    OBVIOUS
  <2> DEFINE t == ThenExtra(m) \o (Fill(m.name, 65) \o <<0>>)
  <2>5. /\ Has(t, V, ExtraEnd(m) + (m.name + 1)) /\ Keeps(t, ThenExtra(m), ExtraEnd(m))
        /\ t[ExtraEnd(m) + (m.name + 1)] = 0 /\ Same(t, ExtraEnd(m) + 1, ExtraEnd(m) + m.name, 65)
    BY <2>1, <2>4, Terminated
  <2> HIDE DEF t
  <2>6. ThenName(m) = t
    BY <2>2 DEF t
  <2> QED BY <2>3, <2>5, <2>6
<1> QED BY <1>1, <1>2

LEMMA ThenCommentIs ==
  ASSUME NEW m \in Members, NEW V, {0, 66} \subseteq V, Has(ThenName(m), V, NameEnd(m))
  PROVE  /\ Has(ThenComment(m), V, CommentEnd(m)) /\ Keeps(ThenComment(m), ThenName(m), NameEnd(m))
         /\ m.comment # Absent => /\ ThenComment(m)[CommentEnd(m)] = 0
                                  /\ Same(ThenComment(m), NameEnd(m) + 1, CommentEnd(m) - 1, 66)
<1>1. CASE m.comment = Absent
  <2>1. ThenComment(m) = ThenName(m) \o <<>> /\ CommentEnd(m) = NameEnd(m)
    BY <1>1, EndsAscend DEF ThenComment, Field, CommentEnd
  <2>2. ThenComment(m) = ThenName(m)
    BY <2>1, NothingAppended
  <2> QED BY <1>1, <2>1, <2>2 DEF Keeps
<1>2. CASE m.comment # Absent
  <2>1. m.comment \in Nat /\ NameEnd(m) \in Nat
    BY <1>2, MemberFacts, EndsAscend
  <2>2. ThenComment(m) = ThenName(m) \o (Fill(m.comment, 66) \o <<0>>)
    BY <1>2 DEF ThenComment, Field
  <2>3. CommentEnd(m) = NameEnd(m) + (m.comment + 1) /\ CommentEnd(m) - 1 = NameEnd(m) + m.comment
    BY <1>2, <2>1 DEF CommentEnd
  <2>4. 0 \in V /\ 66 \in V
    OBVIOUS
  <2> DEFINE t == ThenName(m) \o (Fill(m.comment, 66) \o <<0>>)
  <2>5. /\ Has(t, V, NameEnd(m) + (m.comment + 1)) /\ Keeps(t, ThenName(m), NameEnd(m))
        /\ t[NameEnd(m) + (m.comment + 1)] = 0 /\ Same(t, NameEnd(m) + 1, NameEnd(m) + m.comment, 66)
    BY <2>1, <2>4, Terminated
  <2> HIDE DEF t
  <2>6. ThenComment(m) = t
    BY <2>2 DEF t
  <2> QED BY <2>3, <2>5, <2>6
<1> QED BY <1>1, <1>2

LEMMA WholeHeaderIs ==
  ASSUME NEW m \in Members, NEW V, 1 \in V, Has(ThenComment(m), V, CommentEnd(m))
  PROVE  Has(WholeHeader(m), V, HeaderLen(m)) /\ Keeps(WholeHeader(m), ThenComment(m), CommentEnd(m))
<1>1. CASE m.hcrc
  <2>1. WholeHeader(m) = ThenComment(m) \o <<1, 1>> /\ HeaderLen(m) = CommentEnd(m) + 2
    BY <1>1 DEF WholeHeader, HeaderLen
  <2>2. Has(<<1, 1>>, V, 2)
    BY DEF Has
  <2> QED BY <2>1, <2>2, EndsAscend, Appended
<1>2. CASE ~m.hcrc
  <2>1. WholeHeader(m) = ThenComment(m) \o <<>> /\ HeaderLen(m) = CommentEnd(m)
    BY <1>2, EndsAscend DEF WholeHeader, HeaderLen
  <2>2. WholeHeader(m) = ThenComment(m)
    BY <2>1, NothingAppended
  <2> QED BY <2>1, <2>2 DEF Keeps
<1> QED BY <1>1, <1>2

LEMMA PayloadIs ==
  ASSUME NEW m \in Members, NEW V, m.payload \in V, m.fill \in V
  PROVE  Has(Payload(m), V, m.payload) /\ Payload(m)[1] = m.payload
<1> DEFINE n == m.payload - 1
           a == <<m.payload>>
<1>1. n \in Nat /\ 1 + n = m.payload
  BY MemberFacts
<1>2. Has(a, V, 1) /\ a[1] = m.payload
  BY DEF Has
<1>3. Payload(m) = a \o Fill(n, m.fill)
  BY DEF Payload
<1> HIDE DEF n, a
<1>4. Has(Fill(n, m.fill), V, n)
  BY <1>1, FillIs
<1>5. Has(Payload(m), V, 1 + n) /\ Keeps(Payload(m), a, 1)
  BY <1>1, <1>2, <1>3, <1>4, Appended
<1>6. Payload(m)[1] = a[1]
  BY <1>5 DEF Keeps
<1> QED BY <1>1, <1>2, <1>5, <1>6

\* The bytes of a member.
LEMMA Layout ==
  ASSUME NEW m \in Members
  PROVE  LET data == Encode(m)
         IN  /\ Has(data, Elements(m), HeaderLen(m) + m.payload + 8)
             /\ data[1] = 31 /\ data[2] = 139 /\ data[4] = Flags(m)
             /\ m.extra # Absent => data[11] = m.extra % 256 /\ data[12] = m.extra \div 256
             /\ m.name # Absent => /\ data[NameEnd(m)] = 0
                                   /\ Same(data, ExtraEnd(m) + 1, NameEnd(m) - 1, 65)
             /\ m.comment # Absent => /\ data[CommentEnd(m)] = 0
                                      /\ Same(data, NameEnd(m) + 1, CommentEnd(m) - 1, 66)
             /\ Shows(data, HeaderLen(m), Payload(m), m.payload)
<1> DEFINE V == Elements(m)
           e == ThenExtra(m)
           n == ThenName(m)
           c == ThenComment(m)
           h == WholeHeader(m)
           p == Payload(m)
           q == h \o p
           z == Fill(8, 9)
           data == q \o z
<1>0. {0, 1, 9, 65, 66, m.payload, m.fill} \subseteq V
  BY MemberFacts DEF Elements
<1>1. /\ Has(e, V, ExtraEnd(m)) /\ e[1] = 31 /\ e[2] = 139 /\ e[4] = Flags(m)
      /\ m.extra # Absent => e[11] = m.extra % 256 /\ e[12] = m.extra \div 256
  BY ThenExtraIs
<1>7. data = Encode(m)
  BY DEF Encode, WholeHeader, ThenComment, ThenName, ThenExtra, Fixed
<1> HIDE DEF V
<1>2. /\ Has(n, V, NameEnd(m)) /\ Keeps(n, e, ExtraEnd(m))
      /\ m.name # Absent => /\ n[NameEnd(m)] = 0
                            /\ Same(n, ExtraEnd(m) + 1, NameEnd(m) - 1, 65)
  <2>1. {0, 65} \subseteq V
    BY <1>0
  <2> QED BY <1>1, <2>1, ThenNameIs
<1>3. /\ Has(c, V, CommentEnd(m)) /\ Keeps(c, n, NameEnd(m))
      /\ m.comment # Absent => /\ c[CommentEnd(m)] = 0
                               /\ Same(c, NameEnd(m) + 1, CommentEnd(m) - 1, 66)
  <2>1. {0, 66} \subseteq V
    BY <1>0
  <2> QED BY <1>2, <2>1, ThenCommentIs
<1>4. Has(h, V, HeaderLen(m)) /\ Keeps(h, c, CommentEnd(m))
  BY <1>0, <1>3, WholeHeaderIs
<1>5. Has(p, V, m.payload)
  BY <1>0, PayloadIs
<1>6. Has(z, V, 8)
  BY <1>0, FillIs
<1>8. /\ ExtraEnd(m) \in Nat /\ NameEnd(m) \in Nat /\ CommentEnd(m) \in Nat /\ HeaderLen(m) \in Nat
      /\ 10 <= ExtraEnd(m) /\ ExtraEnd(m) <= NameEnd(m)
      /\ NameEnd(m) <= CommentEnd(m) /\ CommentEnd(m) <= HeaderLen(m)
      /\ m.payload \in Nat /\ HeaderLen(m) + m.payload \in Nat
  BY EndsAscend, MemberFacts
<1> HIDE DEF e, n, c, h, p, z
<1>9. Has(q, V, HeaderLen(m) + m.payload) /\ Keeps(q, h, HeaderLen(m)) /\ Shows(q, HeaderLen(m), p, m.payload)
  BY <1>4, <1>5, <1>8, Appended
<1> HIDE DEF q
<1>10. Has(data, V, HeaderLen(m) + m.payload + 8) /\ Keeps(data, q, HeaderLen(m) + m.payload)
  BY <1>6, <1>8, <1>9, Appended
<1> HIDE DEF data
<1>11. \A i \in 1 .. CommentEnd(m) : data[i] = c[i]
  <2> SUFFICES ASSUME NEW i \in 1 .. CommentEnd(m) PROVE data[i] = c[i]
    OBVIOUS
  <2>1. i \in 1 .. HeaderLen(m) /\ i \in 1 .. HeaderLen(m) + m.payload
    BY <1>8
  <2> QED BY <1>4, <1>9, <1>10, <2>1 DEF Keeps
<1>12. \A i \in 1 .. NameEnd(m) : data[i] = n[i]
  BY <1>3, <1>8, <1>11 DEF Keeps
<1>13. \A i \in 1 .. ExtraEnd(m) : data[i] = e[i]
  BY <1>2, <1>8, <1>12 DEF Keeps
<1>14. data[1] = 31 /\ data[2] = 139 /\ data[4] = Flags(m)
  BY <1>1, <1>8, <1>13
<1>15. ASSUME m.extra # Absent PROVE data[11] = m.extra % 256 /\ data[12] = m.extra \div 256
  <2>1. 11 \in 1 .. ExtraEnd(m) /\ 12 \in 1 .. ExtraEnd(m)
    BY <1>15, MemberFacts DEF ExtraEnd
  <2> QED BY <1>1, <1>13, <1>15, <2>1
<1>16. ASSUME m.name # Absent
       PROVE  data[NameEnd(m)] = 0 /\ Same(data, ExtraEnd(m) + 1, NameEnd(m) - 1, 65)
  <2>1. NameEnd(m) \in 1 .. NameEnd(m)
    BY <1>8
  <2>2. \A i \in ExtraEnd(m) + 1 .. NameEnd(m) - 1 : i \in 1 .. NameEnd(m)
    BY <1>8
  <2> QED BY <1>2, <1>12, <1>16, <2>1, <2>2 DEF Same
<1>17. ASSUME m.comment # Absent
       PROVE  data[CommentEnd(m)] = 0 /\ Same(data, NameEnd(m) + 1, CommentEnd(m) - 1, 66)
  <2>1. CommentEnd(m) \in 1 .. CommentEnd(m)
    BY <1>8
  <2>2. \A i \in NameEnd(m) + 1 .. CommentEnd(m) - 1 : i \in 1 .. CommentEnd(m)
    BY <1>8
  <2> QED BY <1>3, <1>11, <1>17, <2>1, <2>2 DEF Same
<1>18. ASSUME NEW i \in 1 .. m.payload PROVE data[HeaderLen(m) + i] = p[i]
  <2>1. HeaderLen(m) + i \in 1 .. HeaderLen(m) + m.payload
    BY <1>8
  <2> QED BY <1>9, <1>10, <2>1 DEF Keeps, Shows
<1>19. Shows(data, HeaderLen(m), p, m.payload)
  BY <1>18 DEF Shows
<1> QED BY <1>7, <1>10, <1>14, <1>15, <1>16, <1>17, <1>19 DEF V, p

-----------------------------------------------------------------------------
(* The header of a member, as strip_gzip_header reads it from a cut.        *)

Cut(m, n) == SubSeq(Encode(m), 1, n)
Cuts(m) == 0 .. HeaderLen(m) + m.payload + 8

\* An offset is where it should be, or both are beyond the data.
Reaches(v, end, n) == v \in Nat /\ (v = end \/ (v > n /\ end > n))

\* A cut has the bytes of the member.
LEMMA CutIs ==
  ASSUME NEW m \in Members, NEW n \in Cuts(m)
  PROVE  /\ n \in Nat /\ Cut(m, n) \in Seq(Elements(m)) /\ Len(Cut(m, n)) = n
         /\ Keeps(Cut(m, n), Encode(m), n)
<1> DEFINE V == Elements(m)
           data == Encode(m)
           len == HeaderLen(m) + m.payload + 8
<1>1. data \in Seq(V) /\ Len(data) = len
  BY Layout DEF Has
<1>2. n \in 0 .. len /\ len \in Nat
  BY EndsAscend, MemberFacts DEF Cuts
<1> HIDE DEF V, data, len
<1>3. SubSeq(data, 1, n) \in Seq(V) /\ Len(SubSeq(data, 1, n)) = n
      /\ \A i \in 1 .. n : SubSeq(data, 1, n)[i] = data[i]
  <2>1. n \in Nat /\ n <= Len(data)
    BY <1>1, <1>2
  <2> QED BY <1>1, <2>1
<1> QED BY <1>2, <1>3 DEF V, data, Cut, Keeps

\* Each optional field has its flag.
LEMMA FlagsSay ==
  ASSUME NEW m \in Members
  PROVE  /\ "FEXTRA" \in Flags(m) <=> m.extra # Absent
         /\ "FNAME" \in Flags(m) <=> m.name # Absent
         /\ "FCOMMENT" \in Flags(m) <=> m.comment # Absent
         /\ "FHCRC" \in Flags(m) <=> m.hcrc
BY DEF Flags

LEMMA LeastIs ==
  ASSUME NEW S \in SUBSET Int, NEW x \in S, \A y \in S : x <= y
  PROVE  Min(S) = x
<1> DEFINE P(z) == z \in S /\ \A y \in S : z <= y
<1>1. P(x)
  OBVIOUS
<1>2. Min(S) = CHOOSE z : P(z)
  BY DEF Min
<1>3. P(CHOOSE z : P(z))
  BY <1>1, Zenon
<1>4. Min(S) \in S /\ Min(S) <= x /\ x <= Min(S)
  BY <1>2, <1>3
<1>5. Min(S) \in Int /\ x \in Int
  BY <1>4
<1> DEFINE w == Min(S)
<1> HIDE DEF w
<1>6. w \in Int /\ x \in Int /\ w <= x /\ x <= w
  BY <1>4, <1>5 DEF w
<1>7. w = x
  BY ONLY <1>6
<1> QED BY <1>7 DEF w

\* The search for the NUL finds the end of the field, or the data ends first.
LEMMA NulIsFound ==
  ASSUME NEW cut, NEW n \in Nat, Len(cut) = n, NEW data, Keeps(cut, data, n),
         NEW from \in Nat, from <= n, NEW end \in Nat, from < end,
         data[end] = 0, NEW x, x # 0, Same(data, from + 1, end - 1, x)
  PROVE  Reaches(AfterNul(cut, from), end, n)
<1> DEFINE nuls == {k \in from .. n - 1 : cut[k + 1] = 0}
<1>0. AfterNul(cut, from) = IF nuls = {} THEN n + 1 ELSE Min(nuls) + 1
  BY DEF AfterNul
<1>1. \A k \in nuls : k \in Int /\ end - 1 <= k
  <2> SUFFICES ASSUME NEW k \in from .. n - 1, cut[k + 1] = 0, k < end - 1 PROVE FALSE
    OBVIOUS
  <2>1. k + 1 \in 1 .. n /\ k + 1 \in from + 1 .. end - 1
    OBVIOUS
  <2>2. cut[k + 1] = data[k + 1] /\ data[k + 1] = x
    BY <2>1 DEF Keeps, Same
  <2> QED BY <2>2
<1>2. CASE end <= n
  <2>1. end - 1 \in from .. n - 1 /\ end \in 1 .. n /\ (end - 1) + 1 = end
    BY <1>2
  <2>2. cut[end] = 0
    BY <2>1 DEF Keeps
  <2>3. end - 1 \in nuls
    BY <2>1, <2>2
  <2> HIDE DEF nuls
  <2>4. nuls \in SUBSET Int
    BY <1>1
  <2>5. Min(nuls) = end - 1
    BY <1>1, <2>3, <2>4, LeastIs
  <2>6. AfterNul(cut, from) = end
    BY <1>0, <2>1, <2>3, <2>5
  <2> QED BY <2>6 DEF Reaches
<1>3. CASE end > n
  <2>1. nuls = {}
    BY <1>1, <1>3
  <2> HIDE DEF nuls
  <2>2. AfterNul(cut, from) = n + 1
    BY <1>0, <2>1
  <2> QED BY <1>3, <2>2 DEF Reaches
<1> QED BY <1>2, <1>3

\* The steps of HeaderEnd.
Skip(data, flag, offset, after) == IF flag \in data[4] /\ offset <= Len(data) THEN after ELSE offset
SkipExtra(data) == Skip(data, "FEXTRA", 10, AfterExtra(data, 10))
SkipName(data) == Skip(data, "FNAME", SkipExtra(data), AfterNul(data, SkipExtra(data)))
SkipComment(data) == Skip(data, "FCOMMENT", SkipName(data), AfterNul(data, SkipName(data)))

LEMMA HeaderEndIs ==
  ASSUME NEW data
  PROVE  HeaderEnd(data) = Skip(data, "FHCRC", SkipComment(data), SkipComment(data) + 2)
BY DEF HeaderEnd, Skip, SkipExtra, SkipName, SkipComment

\* Eighteen bytes hold the length of the extra field, so its end is known; that
\* of a name or a comment may be beyond the cut.
LEMMA ExtraIsSkipped ==
  ASSUME NEW m \in Members, NEW n \in Cuts(m), n >= 18
  PROVE  SkipExtra(Cut(m, n)) = ExtraEnd(m) /\ Cut(m, n)[4] = Flags(m)
<1> DEFINE cut == Cut(m, n)
           data == Encode(m)
<1>1. n \in Nat /\ Len(cut) = n /\ Keeps(cut, data, n)
  BY CutIs
<1>2. data[4] = Flags(m) /\ (m.extra # Absent => data[11] = m.extra % 256 /\ data[12] = m.extra \div 256)
  BY Layout
<1> HIDE DEF cut, data
<1>3. cut[4] = data[4] /\ cut[11] = data[11] /\ cut[12] = data[12]
  BY <1>1 DEF Keeps
<1>4. "FEXTRA" \in cut[4] <=> m.extra # Absent
  BY <1>2, <1>3, FlagsSay
<1>5. ASSUME m.extra = Absent PROVE SkipExtra(cut) = ExtraEnd(m)
  <2>1. ExtraEnd(m) = 10
    BY <1>5 DEF ExtraEnd
  <2>2. SkipExtra(cut) = 10
    BY <1>4, <1>5 DEF SkipExtra, Skip
  <2> QED BY <2>1, <2>2
<1>6. ASSUME m.extra # Absent PROVE SkipExtra(cut) = ExtraEnd(m)
  <2>1. m.extra \in Nat
    BY <1>6, MemberFacts
  <2>2. AfterExtra(cut, 10) = 10 + 2 + (m.extra % 256) + 256 * (m.extra \div 256)
    BY <1>1, <1>2, <1>3, <1>6 DEF AfterExtra
  <2>3. ExtraEnd(m) = 10 + (m.extra + 2)
    BY <1>6 DEF ExtraEnd
  <2>4. SkipExtra(cut) = AfterExtra(cut, 10)
    BY <1>1, <1>4, <1>6 DEF SkipExtra, Skip
  <2>5. 10 + 2 + (m.extra % 256) + 256 * (m.extra \div 256) = 10 + (m.extra + 2)
    BY <2>1
  <2> QED BY <2>2, <2>3, <2>4, <2>5
<1>7. SkipExtra(cut) = ExtraEnd(m)
  BY <1>5, <1>6
<1> QED BY <1>2, <1>3, <1>7 DEF cut

LEMMA HeaderIsSkipped ==
  ASSUME NEW m \in Members, NEW n \in Cuts(m), n >= 18
  PROVE  Reaches(HeaderEnd(Cut(m, n)), HeaderLen(m), n)
<1> DEFINE cut == Cut(m, n)
           data == Encode(m)
           extra == ExtraEnd(m)
           name == SkipName(cut)
           comment == SkipComment(cut)
<1>1. n \in Nat /\ Len(cut) = n /\ Keeps(cut, data, n)
  BY CutIs
<1>2. /\ m.name # Absent => data[NameEnd(m)] = 0 /\ Same(data, extra + 1, NameEnd(m) - 1, 65)
      /\ m.comment # Absent =>
            data[CommentEnd(m)] = 0 /\ Same(data, NameEnd(m) + 1, CommentEnd(m) - 1, 66)
  BY Layout
<1>3. SkipExtra(cut) = extra /\ cut[4] = Flags(m)
  BY ExtraIsSkipped
<1>4. /\ "FNAME" \in cut[4] <=> m.name # Absent
      /\ "FCOMMENT" \in cut[4] <=> m.comment # Absent
      /\ "FHCRC" \in cut[4] <=> m.hcrc
  BY <1>3, FlagsSay
<1>5. /\ extra \in Nat /\ NameEnd(m) \in Nat /\ CommentEnd(m) \in Nat
      /\ extra <= NameEnd(m) /\ NameEnd(m) <= CommentEnd(m)
  BY EndsAscend
<1>6. name = Skip(cut, "FNAME", extra, AfterNul(cut, extra))
  BY <1>3 DEF SkipName
<1>7. comment = Skip(cut, "FCOMMENT", name, AfterNul(cut, name))
  BY DEF SkipComment
<1>8. HeaderEnd(cut) = Skip(cut, "FHCRC", comment, comment + 2)
  BY HeaderEndIs
<1> HIDE DEF cut, data, extra, name, comment
<1>9. Reaches(name, NameEnd(m), n)
  <2>1. CASE m.name = Absent
    BY <1>4, <1>5, <1>6, <2>1 DEF Skip, Reaches, NameEnd, extra
  <2>2. CASE m.name # Absent /\ extra > n
    BY <1>1, <1>5, <1>6, <2>2 DEF Skip, Reaches
  <2>3. CASE m.name # Absent /\ extra <= n
    <3>1. name = AfterNul(cut, extra)
      BY <1>1, <1>4, <1>6, <2>3 DEF Skip
    <3>2. extra < NameEnd(m)
      BY <1>5, <2>3, MemberFacts DEF NameEnd, extra
    <3>3. 65 # 0
      OBVIOUS
    <3>4. Reaches(AfterNul(cut, extra), NameEnd(m), n)
      BY <1>1, <1>2, <1>5, <2>3, <3>2, <3>3, NulIsFound
    <3> QED BY <3>1, <3>4
  <2> QED BY <1>1, <1>5, <2>1, <2>2, <2>3
<1>10. Reaches(comment, CommentEnd(m), n)
  <2>1. CASE m.comment = Absent
    <3>1. comment = name /\ CommentEnd(m) = NameEnd(m)
      BY <1>4, <1>5, <1>7, <2>1 DEF Skip, CommentEnd
    <3> QED BY <1>9, <3>1
  <2>2. CASE m.comment # Absent /\ name > n
    <3>1. comment = name
      BY <1>1, <1>7, <1>9, <2>2 DEF Skip, Reaches
    <3>2. CommentEnd(m) > n
      BY <1>1, <1>5, <1>9, <2>2 DEF Reaches
    <3> QED BY <1>9, <2>2, <3>1, <3>2 DEF Reaches
  <2>3. CASE m.comment # Absent /\ name <= n
    <3>1. comment = AfterNul(cut, name)
      BY <1>1, <1>4, <1>7, <2>3 DEF Skip
    <3>2. name = NameEnd(m)
      BY <1>1, <1>5, <1>9, <2>3 DEF Reaches
    <3>3. NameEnd(m) < CommentEnd(m)
      BY <1>5, <2>3, MemberFacts DEF CommentEnd
    <3>4. 66 # 0
      OBVIOUS
    <3>5. Reaches(AfterNul(cut, NameEnd(m)), CommentEnd(m), n)
      BY <1>1, <1>2, <1>5, <2>3, <3>2, <3>3, <3>4, NulIsFound
    <3> QED BY <3>1, <3>2, <3>5
  <2> QED BY <1>1, <1>9, <2>1, <2>2, <2>3 DEF Reaches
<1>11. Reaches(HeaderEnd(cut), HeaderLen(m), n)
  <2>1. comment \in Nat /\ (comment = CommentEnd(m) \/ (comment > n /\ CommentEnd(m) > n))
    BY <1>10 DEF Reaches
  <2>2. CASE m.hcrc
    <3>1. HeaderLen(m) = CommentEnd(m) + 2
      BY <2>2 DEF HeaderLen
    <3>2. HeaderEnd(cut) = IF comment <= n THEN comment + 2 ELSE comment
      BY <1>1, <1>4, <1>8, <2>2 DEF Skip
    <3> QED BY <1>1, <1>5, <2>1, <3>1, <3>2 DEF Reaches
  <2>3. CASE ~m.hcrc
    <3>1. HeaderLen(m) = CommentEnd(m)
      BY <1>5, <2>3 DEF HeaderLen
    <3>2. HeaderEnd(cut) = comment
      BY <1>4, <1>8, <2>3 DEF Skip
    <3> QED BY <2>1, <3>1, <3>2 DEF Reaches
  <2> QED BY <2>2, <2>3
<1> QED BY <1>11 DEF cut

-----------------------------------------------------------------------------
(* What is left when the header and the trailer are off.                    *)

\* The first k bytes of the payload.
Part(m, k) == SubSeq(Payload(m), 1, k)

LEMMA PartIs ==
  ASSUME NEW m \in Members, NEW k \in 0 .. m.payload
  PROVE  /\ Part(m, k) \in Seq(Elements(m)) /\ Len(Part(m, k)) = k
         /\ Keeps(Part(m, k), Payload(m), k)
<1> DEFINE V == Elements(m)
           p == Payload(m)
<1>1. p \in Seq(V) /\ Len(p) = m.payload
  BY MemberFacts, PayloadIs DEF Elements, Has
<1>2. k \in Nat /\ k <= Len(p)
  BY <1>1, MemberFacts
<1> HIDE DEF V, p
<1>3. SubSeq(p, 1, k) \in Seq(V) /\ Len(SubSeq(p, 1, k)) = k
      /\ \A i \in 1 .. k : SubSeq(p, 1, k)[i] = p[i]
  BY <1>1, <1>2
<1> QED BY <1>3 DEF V, p, Part, Keeps

LEMMA SequencesAgree ==
  ASSUME NEW V, NEW s \in Seq(V), NEW t \in Seq(V), NEW n, Len(s) = n, Len(t) = n, Keeps(s, t, n)
  PROVE  s = t
BY SeqEqual DEF Keeps

LEMMA WholePart ==
  ASSUME NEW m \in Members
  PROVE  Part(m, m.payload) = Payload(m)
<1>1. Payload(m) \in Seq(Elements(m)) /\ Len(Payload(m)) = m.payload
  BY MemberFacts, PayloadIs DEF Elements, Has
<1>2. m.payload \in 0 .. m.payload
  BY MemberFacts
<1> QED BY <1>1, <1>2, PartIs, SequencesAgree

\* Between the header and the last eight bytes of a cut: the payload, from its
\* first byte.
LEMMA BodyIsPart ==
  ASSUME NEW m \in Members, NEW n \in Cuts(m), HeaderLen(m) <= n - 8
  PROVE  /\ n - 8 - HeaderLen(m) \in 0 .. m.payload
         /\ SubSeq(Cut(m, n), HeaderLen(m) + 1, n - 8) = Part(m, n - 8 - HeaderLen(m))
<1> DEFINE V == Elements(m)
           cut == Cut(m, n)
           data == Encode(m)
           h == HeaderLen(m)
           k == n - 8 - h
           b == SubSeq(cut, h + 1, n - 8)
           part == Part(m, k)
<1>1. n \in Nat /\ cut \in Seq(V) /\ Len(cut) = n /\ Keeps(cut, data, n)
  BY CutIs
<1>2. Shows(data, h, Payload(m), m.payload)
  BY Layout
<1>3. h \in Nat /\ m.payload \in Nat /\ n \in 0 .. h + m.payload + 8 /\ h <= n - 8
  BY EndsAscend, MemberFacts DEF Cuts
<1> HIDE DEF V, cut, data, h
<1>4. k \in 0 .. m.payload
  BY <1>3
<1>5. part \in Seq(V) /\ Len(part) = k /\ Keeps(part, Payload(m), k)
  BY <1>4, PartIs DEF V
<1> HIDE DEF part
<1>6. b \in Seq(V) /\ Len(b) = k /\ \A i \in 1 .. k : b[i] = cut[h + i]
  <2>1. \A i \in h + 1 .. n - 8 : cut[i] \in V
    BY <1>1, <1>3
  <2>2. h + 1 \in Int /\ n - 8 \in Int
    BY <1>3
  <2>3. /\ b \in Seq(V) /\ Len(b) = IF h + 1 <= n - 8 THEN n - 8 - (h + 1) + 1 ELSE 0
        /\ \A i \in 1 .. n - 8 - (h + 1) + 1 : b[i] = cut[h + 1 + i - 1]
    BY ONLY <2>1, <2>2, SubSeqProperties
  <2> HIDE DEF b
  <2>4. Len(b) = k /\ n - 8 - (h + 1) + 1 = k
    BY <1>3, <2>3
  <2>5. \A i \in 1 .. k : h + 1 + i - 1 = h + i
    BY <1>3
  <2> QED BY <2>3, <2>4, <2>5
<1> HIDE DEF b
<1>7. ASSUME NEW i \in 1 .. k PROVE b[i] = part[i]
  <2>1. h + i \in 1 .. n /\ i \in 1 .. m.payload
    BY <1>3
  <2>2. cut[h + i] = data[h + i]
    BY <1>1, <2>1 DEF Keeps
  <2>3. data[h + i] = Payload(m)[i]
    BY <1>2, <2>1 DEF Shows
  <2>4. part[i] = Payload(m)[i]
    BY <1>5 DEF Keeps
  <2> QED BY <1>6, <2>2, <2>3, <2>4
<1>8. b = part
  <2>1. Keeps(b, part, k)
    BY <1>7 DEF Keeps
  <2> HIDE DEF k
  <2> QED BY <1>5, <1>6, <2>1, SequencesAgree
<1> QED BY <1>4, <1>8 DEF b, part, cut, h

\* What strip_gzip_header and decompress make of a cut, the whole one included.
LEMMA StrippedIs ==
  ASSUME NEW m \in Members, NEW n \in Cuts(m)
  PROVE  strip_gzip_header(Cut(m, n)) =
            IF HeaderLen(m) <= n - 8 THEN Slice(Part(m, n - 8 - HeaderLen(m))) ELSE Failed
<1> DEFINE cut == Cut(m, n)
           h == HeaderLen(m)
           offset == HeaderEnd(cut)
<1>1. n \in Nat /\ Len(cut) = n /\ Keeps(cut, Encode(m), n)
  BY CutIs
<1>2. h \in Nat /\ 10 <= h
  BY EndsAscend
<1>3. CASE n < 18
  <2>1. strip_gzip_header(cut) = Failed
    BY <1>1, <1>3 DEF strip_gzip_header
  <2> QED BY <1>1, <1>2, <1>3, <2>1
<1>4. CASE n >= 18
  <2>1. cut[1] = 31 /\ cut[2] = 139
    <3>1. Encode(m)[1] = 31 /\ Encode(m)[2] = 139
      BY Layout
    <3> HIDE DEF cut
    <3> QED BY <1>1, <1>4, <3>1 DEF Keeps
  <2>2. Reaches(offset, h, n)
    BY <1>4, HeaderIsSkipped
  <2>3. strip_gzip_header(cut) =
           IF offset >= n \/ offset > n - 8 THEN Failed ELSE Slice(SubSeq(cut, offset + 1, n - 8))
    BY <1>1, <1>4, <2>1 DEF strip_gzip_header
  <2>4. CASE h <= n - 8
    <3>1. SubSeq(cut, h + 1, n - 8) = Part(m, n - 8 - h)
      BY <2>4, BodyIsPart
    <3> HIDE DEF cut, h, offset
    <3>2. offset = h /\ ~(offset >= n) /\ ~(offset > n - 8)
      BY <1>1, <1>2, <2>2, <2>4 DEF Reaches
    <3>3. strip_gzip_header(cut) = Slice(Part(m, n - 8 - h))
      BY <2>3, <3>1, <3>2
    <3> QED BY <2>4, <3>3 DEF cut, h
  <2>5. CASE h > n - 8
    <3> HIDE DEF cut, h, offset
    <3>1. offset > n - 8
      BY <1>1, <1>2, <2>2, <2>5 DEF Reaches
    <3>2. strip_gzip_header(cut) = Failed /\ ~(h <= n - 8)
      BY <1>1, <1>2, <2>3, <2>5, <3>1
    <3> QED BY <3>2 DEF cut, h
  <2> QED BY <1>1, <1>2, <2>4, <2>5
<1> QED BY <1>1, <1>3, <1>4

LEMMA InflatedIs ==
  ASSUME NEW m \in Members, NEW k \in 0 .. m.payload
  PROVE  Inflate(Part(m, k)) = IF k = m.payload THEN Slice(Payload(m)) ELSE Failed
<1> DEFINE part == Part(m, k)
           p == Payload(m)
<1>1. part \in Seq(Elements(m)) /\ Len(part) = k /\ Keeps(part, p, k)
  BY PartIs
<1>2. m.payload \in Nat \ {0} /\ k \in Nat
  BY MemberFacts
<1>3. p[1] = m.payload
  BY MemberFacts, PayloadIs DEF Elements
<1>4. k = m.payload => part = p /\ SubSeq(part, 1, k) = part
  BY WholePart DEF Part
<1> HIDE DEF part, p
<1>5. CASE k = 0
  <2>1. part = <<>>
    BY <1>1, <1>5, EmptySeq
  <2> QED BY <1>2, <1>5, <2>1 DEF Inflate, part
<1>6. CASE k # 0
  <2>1. part # <<>> /\ part[1] = m.payload
    <3>1. 1 \in 1 .. k
      BY <1>2, <1>6
    <3>2. part[1] = p[1]
      BY <1>1, <3>1 DEF Keeps
    <3>3. Len(<<>>) = 0
      OBVIOUS
    <3> QED BY <1>1, <1>3, <1>6, <3>2, <3>3
  <2>2. Inflate(part) = IF k >= m.payload THEN Slice(SubSeq(part, 1, m.payload)) ELSE Failed
    BY <1>1, <2>1 DEF Inflate
  <2>3. k >= m.payload <=> k = m.payload
    BY <1>2
  <2> QED BY <1>4, <2>2, <2>3 DEF part, p
<1> QED BY <1>5, <1>6

LEMMA UnpackedIs ==
  ASSUME NEW m \in Members, NEW n \in Cuts(m)
  PROVE  decompress(Cut(m, n), {"tar", "gz"}) =
            IF n = HeaderLen(m) + m.payload + 8 /\ m.payload <= MaxInflated
            THEN Slice(Payload(m)) ELSE Failed
<1> DEFINE cut == Cut(m, n)
           deflate == strip_gzip_header(cut)
           k == n - 8 - HeaderLen(m)
           inflated == IF deflate.ok THEN Inflate(deflate.bytes) ELSE Failed
<1>1. decompress(cut, {"tar", "gz"}) =
         IF inflated.ok /\ Len(inflated.bytes) <= MaxInflated THEN inflated ELSE Failed
  BY DEF decompress
<1>2. deflate = IF HeaderLen(m) <= n - 8 THEN Slice(Part(m, k)) ELSE Failed
  BY StrippedIs
<1>3. n \in Nat /\ n <= HeaderLen(m) + m.payload + 8 /\ HeaderLen(m) \in Nat /\ m.payload \in Nat \ {0}
  BY CutIs, EndsAscend, MemberFacts DEF Cuts
<1>4. Len(Payload(m)) = m.payload
  BY MemberFacts, PayloadIs DEF Elements, Has
<1>5. ~Failed.ok
  BY DEF Failed
<1>6. \A bytes : Slice(bytes).ok /\ Slice(bytes).bytes = bytes
  BY DEF Slice
<1> HIDE DEF cut, deflate
<1>7. inflated = IF n = HeaderLen(m) + m.payload + 8 THEN Slice(Payload(m)) ELSE Failed
  <2>1. CASE HeaderLen(m) <= n - 8
    <3>1. k \in 0 .. m.payload
      BY <1>3, <2>1
    <3>2. Inflate(Part(m, k)) = IF k = m.payload THEN Slice(Payload(m)) ELSE Failed
      BY <3>1, InflatedIs
    <3>3. k = m.payload <=> n = HeaderLen(m) + m.payload + 8
      BY <1>3
    <3>4. deflate.ok /\ deflate.bytes = Part(m, k)
      BY <1>2, <1>6, <2>1
    <3> QED BY <3>2, <3>3, <3>4
  <2>2. CASE ~(HeaderLen(m) <= n - 8)
    <3>1. n # HeaderLen(m) + m.payload + 8
      BY <1>3, <2>2
    <3>2. ~deflate.ok
      BY <1>2, <1>5, <2>2
    <3> QED BY <3>1, <3>2
  <2> QED BY <2>1, <2>2
<1> HIDE DEF inflated
<1>8. CASE n = HeaderLen(m) + m.payload + 8
  <2>1. inflated.ok /\ inflated.bytes = Payload(m) /\ inflated = Slice(Payload(m))
    BY <1>6, <1>7, <1>8
  <2> QED BY <1>1, <1>4, <1>8, <2>1 DEF cut
<1>9. CASE n # HeaderLen(m) + m.payload + 8
  BY <1>1, <1>5, <1>7, <1>9 DEF cut
<1> QED BY <1>8, <1>9

\* Every member of every length unpacks to its payload, up to the limit, and no
\* cut of one unpacks to anything or hands the payload on as if it were whole.
THEOREM EnvelopeStripped == EnvelopeIsStripped
<1> SUFFICES ASSUME NEW m \in Members
             PROVE  LET data == Encode(m)
                        gzip == {"tar", "gz"}
                    IN  /\ decompress(data, gzip) =
                              IF Len(Payload(m)) <= MaxInflated THEN Slice(Payload(m)) ELSE Failed
                        /\ \A n \in 0 .. Len(data) - 1 :
                              LET cut == SubSeq(data, 1, n)
                                  r == strip_gzip_header(cut)
                              IN  /\ r.ok => IsPrefix(r.bytes, Payload(m)) /\ r.bytes # Payload(m)
                                  /\ decompress(cut, gzip) = Failed
  BY DEF EnvelopeIsStripped
<1> DEFINE data == Encode(m)
           len == HeaderLen(m) + m.payload + 8
<1>1. data \in Seq(Elements(m)) /\ Len(data) = len
  BY Layout DEF Has
<1>2. Len(Payload(m)) = m.payload /\ Payload(m) \in Seq(Elements(m))
  BY MemberFacts, PayloadIs DEF Elements, Has
<1>3. HeaderLen(m) \in Nat /\ m.payload \in Nat \ {0} /\ len \in Nat
  BY EndsAscend, MemberFacts
<1>4. decompress(data, {"tar", "gz"}) = IF m.payload <= MaxInflated THEN Slice(Payload(m)) ELSE Failed
  <2>1. len \in Cuts(m)
    BY <1>3 DEF Cuts
  <2>2. Cut(m, len) = data
    BY <1>1, SubSeqFull DEF Cut
  <2> QED BY <2>1, <2>2, UnpackedIs
<1>5. ASSUME NEW n \in 0 .. len - 1
      PROVE  LET cut == SubSeq(data, 1, n)
                 r == strip_gzip_header(cut)
             IN  /\ r.ok => IsPrefix(r.bytes, Payload(m)) /\ r.bytes # Payload(m)
                 /\ decompress(cut, {"tar", "gz"}) = Failed
  <2> DEFINE r == strip_gzip_header(Cut(m, n))
             k == n - 8 - HeaderLen(m)
             b == Part(m, k)
  <2>1. n \in Cuts(m) /\ n # len /\ n \in Nat
    BY <1>3 DEF Cuts
  <2>2. decompress(Cut(m, n), {"tar", "gz"}) = Failed
    BY <2>1, UnpackedIs
  <2>3. ASSUME r.ok PROVE IsPrefix(r.bytes, Payload(m)) /\ r.bytes # Payload(m)
    <3>1. HeaderLen(m) <= n - 8 /\ r = Slice(b)
      BY <2>1, <2>3, StrippedIs DEF Failed
    <3>2. r.bytes = b
      BY <3>1 DEF Slice
    <3>3. k \in 0 .. m.payload /\ k < m.payload
      BY <1>3, <3>1
    <3>4. b \in Seq(Elements(m)) /\ Len(b) = k
      BY <3>3, PartIs
    <3>5. SubSeq(b, 1, k) = b
      BY <3>4, SubSeqFull
    <3>6. SubSeq(Payload(m), 1, k) = b
      BY DEF Part
    <3> HIDE DEF r, k, b
    <3>7. k <= Len(Payload(m)) /\ Len(b) # Len(Payload(m))
      BY <1>2, <1>3, <3>3, <3>4
    <3> QED BY <3>2, <3>4, <3>5, <3>6, <3>7 DEF IsPrefix
  <2> QED BY <2>2, <2>3 DEF Cut
<1> QED BY <1>1, <1>2, <1>4, <1>5

\* The layer decoder, before the first request (layer.rs:13-22, 47-87).
THEOREM LayersUnpacked == PullSpec => []LayersUnpack
<1>1. LayersUnpack
  BY EnvelopeStripped DEF LayersUnpack
<1> QED BY <1>1, PTL

=============================================================================
