---------------------------- MODULE HttpsRequest ----------------------------
(***************************************************************************)
(* net/tls.rs: https_request, the kernel's only TCP client.  The caller    *)
(* holds NETWORK's lock from connect to remove, so nothing else polls the  *)
(* stack or touches its sockets (module KernelLocks); the remote server    *)
(* and the wire run by themselves.                                         *)
(*                                                                         *)
(* smoltcp and the server are external.  Bytes are counted, not named:     *)
(* TCP keeps them in order and retransmits what the wire loses.            *)
(***************************************************************************)
EXTENDS Integers, Sequences, SequencesExt, FiniteSetsExt

CONSTANTS FirstPort,    \* 49152, the first ephemeral port
          PortSpace,    \* 2^16
          TxCapacity,   \* 4096
          RxCapacity,   \* 16384
          ChunkSize,    \* 1024
          MaxPolls,     \* 100_000
          RequestLen,   \* bytes of each request
          ReplyLens,    \* lengths of an answer, in bytes
          MaxCalls      \* bound on the number of calls

ASSUME HttpsAssumption ==
    /\ \A n \in {FirstPort, TxCapacity, RxCapacity, ChunkSize, MaxPolls, RequestLen, MaxCalls} :
          n \in Nat \ {0}
    /\ PortSpace \in Nat /\ FirstPort < PortSpace
    /\ ReplyLens \subseteq Nat

VARIABLES pc,        \* "idle", "await", "send", "read": where the caller is
          polling,   \* inside stack.poll
          polls,     \* iterations left of the loop that awaits the connection
          nextPort,  \* NEXT_PORT
          port,      \* local port of the latest call
          sockets,   \* this function's sockets in the SocketSet
          state,     \* TCP state of the latest one
          tx,        \* bytes in its transmit buffer
          rx,        \* bytes in its receive buffer
          response,  \* bytes accumulated
          result,    \* "none" during a call, then "ok" or "TcpFailed"
          calls,     \* calls begun
          inbound,   \* on its way to the kernel: bytes of the answer, and the
                     \* connection event that comes last
          server     \* the server's side: connection, bytes received and sent,
                     \* length of its answer

callVars == <<nextPort, port, sockets, result, calls>>
socketVars == <<state, tx, rx>>
wireVars == <<inbound, server>>
vars == <<pc, polling, polls, callVars, socketVars, response, wireVars>>

Nothing == [bytes |-> 0, event |-> "none"]
Fresh == [conn |-> "listen", got |-> 0, sent |-> 0, len |-> 0]

Init ==
    /\ pc = "idle" /\ polling = FALSE /\ polls = 0
    /\ nextPort = FirstPort /\ port = 0 /\ sockets = 0
    /\ state = "Closed" /\ tx = 0 /\ rx = 0
    /\ response = 0 /\ result = "ok" /\ calls = 0
    /\ inbound = Nothing /\ server = Fresh
-----------------------------------------------------------------------------
(* smoltcp *)

is_active == state # "Closed"
may_send == state \in {"Established", "CloseWait"}
may_recv(buffered) == state = "Established" \/ buffered > 0

\* The segments come in order and a round processes them all, so it is the
\* last event that counts.
After == [SYNACK |-> "Established", FIN |-> "CloseWait", RST |-> "Closed"]
Ingress == IF inbound.event = "none" THEN state ELSE After[inbound.event]

\* One round of Interface::poll: everything that has arrived is processed,
\* then everything queued is sent.  poll() ends after a round without progress,
\* so an answer may come while it runs.
PollRound ==
    /\ polling
    /\ state' = Ingress /\ rx' = rx + inbound.bytes
    /\ IF Ingress = "Closed"
       THEN UNCHANGED <<tx, server>>
       ELSE /\ server' = [server EXCEPT
                   !.conn = IF @ = "listen" THEN "syn" ELSE @, !.got = @ + tx]
            /\ tx' = 0
    /\ inbound' = Nothing
    /\ \/ polling' = FALSE
       \/ polling' = TRUE /\ <<socketVars, wireVars>>' # <<socketVars, wireVars>>
    /\ UNCHANGED <<pc, polls, callVars, response>>
-----------------------------------------------------------------------------
(* The server *)

Send(n, event, s) ==
    /\ inbound' = [bytes |-> inbound.bytes + n, event |-> event]
    /\ server' = s
    /\ UNCHANGED <<pc, polling, polls, callVars, socketVars, response>>

Accept == \E n \in ReplyLens :
    /\ server.conn = "syn"
    /\ Send(0, "SYNACK", [server EXCEPT !.conn = "open", !.len = n])

\* The answer starts when the whole request is there and keeps to the window.
Reply == \E n \in 1..ChunkSize :
    /\ server.conn = "open" /\ server.got = RequestLen
    /\ server.sent + n <= server.len /\ inbound.bytes + rx + n <= RxCapacity
    /\ Send(n, inbound.event, [server EXCEPT !.sent = @ + n])

\* The server may close at any time, its answer complete or not.
Close ==
    /\ server.conn = "open"
    /\ Send(0, "FIN", [server EXCEPT !.conn = "gone"])

Reset == /\ server.conn \in {"syn", "open"}
         /\ Send(0, "RST", [server EXCEPT !.conn = "reset"])

Server == Accept \/ Reply \/ Close \/ Reset
-----------------------------------------------------------------------------
(* https_request *)

\* An unknown host, or an endpoint that connect() refuses: no connection.
Refuse ==
    /\ pc = "idle" /\ calls < MaxCalls
    /\ calls' = calls + 1 /\ result' = "TcpFailed"
    /\ \/ UNCHANGED <<nextPort, port>>                 \* resolve_host
       \/ /\ nextPort' = (nextPort + 1) % PortSpace    \* connect
          /\ port' = IF nextPort < FirstPort THEN FirstPort ELSE nextPort
    /\ UNCHANGED <<pc, polling, polls, sockets, socketVars, response, wireVars>>

\* Seeded form: the counter is used as it comes.
Connect_AnyPort ==
    /\ pc = "idle" /\ calls < MaxCalls
    /\ calls' = calls + 1 /\ result' = "none"
    /\ nextPort' = (nextPort + 1) % PortSpace
    /\ port' = nextPort
    /\ sockets' = sockets + 1
    /\ state' = "SynSent" /\ tx' = 0 /\ rx' = 0
    /\ inbound' = Nothing /\ server' = Fresh
    /\ response' = 0 /\ polls' = MaxPolls
    /\ pc' = "await" /\ polling' = TRUE

Connect ==
    /\ pc = "idle" /\ calls < MaxCalls
    /\ calls' = calls + 1 /\ result' = "none"
    /\ nextPort' = (nextPort + 1) % PortSpace
    /\ port' = IF nextPort < FirstPort THEN FirstPort ELSE nextPort
    /\ sockets' = sockets + 1
    /\ state' = "SynSent" /\ tx' = 0 /\ rx' = 0
    /\ inbound' = Nothing /\ server' = Fresh
    /\ response' = 0 /\ polls' = MaxPolls
    /\ pc' = "await" /\ polling' = TRUE

\* Remove the socket and return; nothing is sent to the server.
Return(r) ==
    /\ sockets' = sockets - 1
    /\ result' = r /\ pc' = "idle"
    /\ UNCHANGED <<polling, nextPort, port, calls, wireVars>>

\* One iteration of the first loop, after its poll, and the check behind it.
Await ==
    /\ pc = "await" /\ ~polling
    /\ \/ /\ is_active /\ pc' = "send"
          /\ UNCHANGED <<polling, polls, callVars, wireVars>>
       \/ /\ ~is_active /\ polls > 1
          /\ polls' = polls - 1 /\ polling' = TRUE
          /\ UNCHANGED <<pc, callVars, wireVars>>
       \/ ~is_active /\ polls = 1 /\ Return("TcpFailed") /\ UNCHANGED polls
    /\ UNCHANGED <<socketVars, response>>

\* Seeded form: the error path leaves the socket in the set.
SendRequest_Leak ==
    /\ pc = "send"
    /\ \/ /\ may_send
          /\ tx' = Min({RequestLen, TxCapacity})
          /\ pc' = "read" /\ polling' = TRUE
          /\ UNCHANGED <<callVars, wireVars>>
       \/ /\ ~may_send /\ result' = "TcpFailed" /\ pc' = "idle"
          /\ UNCHANGED <<polling, tx, nextPort, port, sockets, calls, wireVars>>
    /\ UNCHANGED <<polls, state, rx, response>>

\* send_slice takes what fits and says how much; only its error is looked at.
SendRequest ==
    /\ pc = "send"
    /\ \/ /\ may_send
          /\ tx' = Min({RequestLen, TxCapacity})
          /\ pc' = "read" /\ polling' = TRUE
          /\ UNCHANGED <<callVars, wireVars>>
       \/ ~may_send /\ Return("TcpFailed") /\ UNCHANGED tx
    /\ UNCHANGED <<polls, state, rx, response>>

Taken == Min({rx, ChunkSize})

\* Seeded forms: the loop ends when the server has closed, whatever is still
\* buffered; it ignores errors and ends when the socket is inactive.
Read_UntilFin ==
    /\ pc = "read" /\ ~polling
    /\ rx' = rx - Taken /\ response' = response + Taken
    /\ \/ state # "Established" /\ Return("ok")
       \/ /\ state = "Established" /\ polling' = TRUE
          /\ UNCHANGED <<pc, callVars, wireVars>>
    /\ UNCHANGED <<polls, state, tx>>
Read_UntilInactive ==
    /\ pc = "read" /\ ~polling
    /\ rx' = rx - Taken /\ response' = response + Taken
    /\ \/ ~is_active /\ Return("ok")
       \/ /\ is_active /\ polling' = TRUE
          /\ UNCHANGED <<pc, callVars, wireVars>>
    /\ UNCHANGED <<polls, state, tx>>

\* One iteration of the second loop, after its poll: take a chunk, and leave
\* when nothing more can be received (recv_slice's error or may_recv).
Read ==
    /\ pc = "read" /\ ~polling
    /\ rx' = rx - Taken /\ response' = response + Taken
    /\ \/ ~may_recv(rx - Taken) /\ Return("ok")
       \/ /\ may_recv(rx - Taken) /\ polling' = TRUE
          /\ UNCHANGED <<pc, callVars, wireVars>>
    /\ UNCHANGED <<polls, state, tx>>

Caller == PollRound \/ Await \/ SendRequest \/ Read
Done == pc = "idle" /\ calls = MaxCalls /\ UNCHANGED vars

Next == Refuse \/ Connect \/ Caller \/ Server \/ Done

\* The caller's loops keep running; the server need not do anything.
Spec == Init /\ [][Next]_vars /\ WF_vars(Caller) /\ WF_vars(PollRound /\ ~polling')
-----------------------------------------------------------------------------
\* Types, and the local port is always an ephemeral one, also after NEXT_PORT
\* has wrapped.
TypeOK ==
    /\ pc \in {"idle", "await", "send", "read"} /\ polling \in BOOLEAN
    /\ polls \in 0..MaxPolls /\ nextPort \in 0..(PortSpace - 1)
    /\ port \in {0} \cup FirstPort..(PortSpace - 1)
    /\ state \in {"Closed", "SynSent", "Established", "CloseWait"}
    /\ tx \in 0..TxCapacity /\ rx \in 0..RxCapacity
    /\ result \in {"none", "ok", "TcpFailed"}

\* Every way out of https_request takes its socket out of the set.
NoSocketLeft == sockets = IF pc = "idle" THEN 0 ELSE 1

\* Connected, with everything received taken out: the loop at tls.rs:138 waits.
Silent == pc = "read" /\ server.conn = "open" /\ inbound = Nothing /\ rx = 0

\* "return all response bytes" (tls.rs:66), with no exception.
ResponseIsAll == pc = "idle" /\ result = "ok" /\ calls > 0 => response = server.len

\* tls.rs: "Poll until the connection is established."
SendsWhenEstablished == pc = "send" => may_send

\* tls.rs: "connect, send, read until close": the request is sent as a whole.
RequestIsWhole == pc = "read" => tx + server.got = RequestLen
=============================================================================
