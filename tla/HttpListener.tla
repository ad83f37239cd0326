---------------------------- MODULE HttpListener ----------------------------
(***************************************************************************)
(* net/mod.rs: the placeholder HTTP server.  One smoltcp TCP socket is     *)
(* polled from the console's read loop (serve_http_once) and from the      *)
(* timer interrupt (poll); only the read loop answers and re-arms it.      *)
(* The interrupt runs to its end on the one CPU, and the two exclude each  *)
(* other by NETWORK's lock (module KernelLocks), so each is one step.      *)
(*                                                                         *)
(* smoltcp and the clients are external.  Segments of a connection arrive  *)
(* in order (TCP retransmits what the wire loses); data is one request and *)
(* one response.                                                           *)
(***************************************************************************)
EXTENDS Integers, Sequences, FiniteSets

CONSTANTS Clients,      \* connections; each client opens one
          NoClient,     \* the peer of a socket without a connection
          SetupPorts,   \* the arguments of the calls of setup_http_listener
          Faults        \* what clients may do besides a plain exchange

ASSUME ListenerAssumption ==
    /\ SetupPorts \in Seq(Nat \ {0}) /\ SetupPorts # <<>>
    /\ Faults \subseteq {"abort", "halfclose", "vanish"}
    /\ NoClient \notin Clients

FirstPort == SetupPorts[1]    \* the port clients connect to

VARIABLES main,         \* "boot", "idle" (reading the console), "busy" (in a command)
          setups,       \* calls of setup_http_listener still to come
          sockets,      \* the stack's SocketSet
          handle,       \* HTTP_HANDLE, 0 until set
          port,         \* HTTP_PORT
          responded,    \* HTTP_RESPONDED
          toServer,     \* frames in the receive ring, oldest first
          toClient,     \* segments on their way to each client
          client,       \* each client's side of its connection
          requested,    \* clients that have sent their request
          answered      \* number of responses each client has received

serverVars == <<sockets, handle, port, responded>>
clientVars == <<client, requested, answered>>
listenerVars == <<main, setups, serverVars, toServer, toClient, clientVars>>

OpenStates == {"Established", "FinWait1", "FinWait2", "Closing", "CloseWait"}
SocketStates == OpenStates \cup {"Listen", "SynReceived", "TimeWait", "Closed"}
FromServer == {"SYNACK", "RST", "RESP", "FIN"}
FromClient == {"SYN", "ACK", "REQ", "FIN", "ACKFIN", "RST"}

Listening(p) == [state |-> "Listen", port |-> p, peer |-> NoClient,
                 rx |-> FALSE, out |-> <<>>]

ListenerInit ==
    /\ main = "boot" /\ setups = SetupPorts
    /\ sockets = <<>> /\ handle = 0 /\ port = 0 /\ responded = FALSE
    /\ toServer = <<>> /\ toClient = [c \in Clients |-> <<>>]
    /\ client = [c \in Clients |-> "idle"]
    /\ requested = {} /\ answered = [c \in Clients |-> 0]
-----------------------------------------------------------------------------
(* smoltcp: what a segment of the socket's own connection does to it.      *)

Transitions ==
    {<<"SynReceived", "ACK", "Established">>, <<"SynReceived", "RST", "Listen">>,
     <<"Established", "FIN", "CloseWait">>,
     <<"FinWait1", "ACKFIN", "FinWait2">>, <<"FinWait1", "FIN", "Closing">>,
     <<"FinWait2", "FIN", "TimeWait">>, <<"Closing", "ACKFIN", "TimeWait">>}
    \cup {<<s, "RST", "Closed">> : s \in OpenStates}

NewState(state, kind) ==
    IF \E t \in Transitions : t[1] = state /\ t[2] = kind
    THEN (CHOOSE t \in Transitions : t[1] = state /\ t[2] = kind)[3]
    ELSE state

Receive(s, kind) ==
    LET new == NewState(s.state, kind)
    IN  IF new \in {"Listen", "Closed"} THEN [Listening(s.port) EXCEPT !.state = new]
        ELSE [s EXCEPT !.state = new,
                       !.rx = @ \/ (kind = "REQ" /\ s.state = "Established")]

\* The sockets a segment may be for: its connection's, else (for a SYN) one
\* that listens on the port.
Owners(socks, seg) ==
    {k \in DOMAIN socks : socks[k].peer = seg.from}
Listeners(socks, seg) ==
    {k \in DOMAIN socks : seg.kind = "SYN" /\ socks[k].state = "Listen"
                            /\ socks[k].port = FirstPort}
Lowest(S) == CHOOSE k \in S : \A j \in S : k <= j

\* One frame taken from the ring.  A segment nobody takes is answered by RST.
Ingress(w, seg) ==
    IF Owners(w.socks, seg) # {}
    THEN LET k == Lowest(Owners(w.socks, seg))
         IN  [w EXCEPT !.socks[k] = Receive(@, seg.kind)]
    ELSE IF Listeners(w.socks, seg) # {}
    THEN LET k == Lowest(Listeners(w.socks, seg))
         IN  [w EXCEPT !.socks[k].state = "SynReceived",
                       !.socks[k].peer = seg.from,
                       !.toClient[seg.from] = Append(@, "SYNACK")]
    ELSE IF seg.kind = "RST" THEN w
    ELSE [w EXCEPT !.toClient[seg.from] = Append(@, "RST")]

\* Every socket sends what it has queued to its peer.
Egress(w) ==
    LET Of(c) == {k \in DOMAIN w.socks : w.socks[k].peer = c}
    IN  [socks |-> [k \in DOMAIN w.socks |-> [w.socks[k] EXCEPT !.out = <<>>]],
         toClient |-> [c \in Clients |->
            IF Of(c) = {} THEN w.toClient[c]
            ELSE w.toClient[c] \o w.socks[Lowest(Of(c))].out]]

\* NetworkStack::poll: every frame in the ring is processed, then every
\* socket sends.
Polled ==
    LET after[n \in 0 .. Len(toServer)] ==
            IF n = 0 THEN [socks |-> sockets, toClient |-> toClient]
            ELSE Ingress(after[n - 1], toServer[n])
    IN  Egress(after[Len(toServer)])
-----------------------------------------------------------------------------
\* setup_http_listener, called from kernel_main: HTTP_PORT takes every call's
\* port and every call adds a socket, HTTP_HANDLE keeps the first.
SetupHttpListener ==
    /\ main = "boot" /\ setups # <<>>
    /\ port' = Head(setups)
    /\ sockets' = Append(sockets, Listening(Head(setups)))
    /\ handle' = IF handle = 0 THEN Len(sockets) + 1 ELSE handle
    /\ setups' = Tail(setups)
    /\ main' = IF Tail(setups) = <<>> THEN "idle" ELSE "boot"
    /\ UNCHANGED <<responded, toServer, toClient, clientVars>>

\* poll(), from the timer interrupt, whatever the main thread is doing.
TimerPoll ==
    /\ \E p \in {Polled} : sockets' = p.socks /\ toClient' = p.toClient
    /\ toServer' = <<>>
    /\ UNCHANGED <<main, setups, handle, port, responded, clientVars>>

\* Seeded form: HTTP_RESPONDED is not reset when the listener is re-armed.
Rearm_KeepFlag(s, socks) ==
    /\ s.state \in {"Closed", "TimeWait"}
    /\ sockets' = [socks EXCEPT ![handle] = Listening(port)]
    /\ responded' = responded

\* Closed or TimeWait: listen() on HTTP_PORT.
Rearm(s, socks) ==
    /\ s.state \in {"Closed", "TimeWait"}
    /\ sockets' = [socks EXCEPT ![handle] = Listening(port)]
    /\ responded' = FALSE

\* Seeded forms: our side is not closed after the answer; the answer
\* does not wait for the request.
Respond_NoClose(s, socks) ==
    /\ s.state = "Established" /\ ~responded /\ s.rx
    /\ sockets' = [socks EXCEPT ![handle] = [@ EXCEPT !.rx = FALSE, !.out = <<"RESP">>]]
    /\ responded' = TRUE
Respond_NoRequest(s, socks) ==
    /\ s.state = "Established" /\ ~responded
    /\ sockets' = [socks EXCEPT ![handle] =
                     [@ EXCEPT !.state = "FinWait1", !.out = <<"RESP", "FIN">>]]
    /\ responded' = TRUE

\* Established with a request to drain: queue the response and close our side.
Respond(s, socks) ==
    /\ s.state = "Established" /\ ~responded /\ s.rx
    /\ sockets' = [socks EXCEPT ![handle] =
                     [@ EXCEPT !.state = "FinWait1", !.rx = FALSE,
                               !.out = <<"RESP", "FIN">>]]
    /\ responded' = TRUE

\* Any other state, or nothing to read yet: nothing beyond the poll.
Leave(s, socks) ==
    /\ s.state \notin {"Closed", "TimeWait"}
    /\ ~(s.state = "Established" /\ ~responded /\ s.rx)
    /\ sockets' = socks
    /\ UNCHANGED responded

\* serve_http_once, from the loop that waits for a key.
ServeHttpOnce ==
    /\ main = "idle"
    /\ \E p \in {Polled} :
         /\ LET s == p.socks[handle]
            IN  Rearm(s, p.socks) \/ Respond(s, p.socks) \/ Leave(s, p.socks)
         /\ toClient' = p.toClient
    /\ toServer' = <<>>
    /\ UNCHANGED <<main, setups, handle, port, clientVars>>

\* A line has been read: the command runs, and nobody serves meanwhile.
ExecuteCommand ==
    /\ main = "idle" /\ main' = "busy"
    /\ UNCHANGED <<setups, serverVars, toServer, toClient, clientVars>>

CommandDone ==
    /\ main = "busy" /\ main' = "idle"
    /\ UNCHANGED <<setups, serverVars, toServer, toClient, clientVars>>
-----------------------------------------------------------------------------
(* The clients.                                                            *)

Send(c, kinds) ==
    toServer' = toServer \o [k \in 1 .. Len(kinds) |-> [from |-> c, kind |-> kinds[k]]]

Connect(c) ==
    /\ client[c] = "idle"
    /\ client' = [client EXCEPT ![c] = "syn"]
    /\ Send(c, <<"SYN">>)
    /\ UNCHANGED <<main, setups, serverVars, toClient, requested, answered>>

SendRequest(c) ==
    /\ client[c] = "open" /\ c \notin requested
    /\ requested' = requested \cup {c}
    /\ Send(c, <<"REQ">>)
    /\ UNCHANGED <<main, setups, serverVars, toClient, client, answered>>

\* What a client in some state does with a segment: its new state, what it sends.
Reactions ==
    {<<"syn", "SYNACK", "open", <<"ACK">>>>, <<"gone", "SYNACK", "gone", <<"RST">>>>,
     <<"open", "FIN", "done", <<"ACKFIN", "FIN">>>>,
     <<"halfclosed", "FIN", "done", <<"ACKFIN">>>>}
    \cup {<<s, "RST", "refused", <<>>>> : s \in {"syn", "open", "halfclosed"}}

Reaction(state, kind) ==
    LET known == {r \in Reactions : r[1] = state /\ r[2] = kind}
    IN  IF known = {} THEN <<state, kind, state, <<>>>> ELSE CHOOSE r \in known : TRUE

ClientReceive(c) ==
    /\ toClient[c] # <<>> /\ client[c] # "vanished"
    /\ LET r == Reaction(client[c], Head(toClient[c]))
       IN  /\ client' = [client EXCEPT ![c] = r[3]]
           /\ Send(c, r[4])
    /\ toClient' = [toClient EXCEPT ![c] = Tail(@)]
    /\ answered' = [answered EXCEPT ![c] =
                      IF Head(toClient[c]) = "RESP" THEN @ + 1 ELSE @]
    /\ UNCHANGED <<main, setups, serverVars, requested>>

\* The client gives up; an open connection is reset.
Abort(c) ==
    /\ "abort" \in Faults /\ client[c] \in {"syn", "open"}
    /\ client' = [client EXCEPT ![c] = "gone"]
    /\ Send(c, IF client[c] = "open" THEN <<"RST">> ELSE <<>>)
    /\ UNCHANGED <<main, setups, serverVars, toClient, requested, answered>>

\* The client has nothing more to send and closes its side before the answer.
HalfClose(c) ==
    /\ "halfclose" \in Faults /\ client[c] = "open" /\ c \in requested
    /\ client' = [client EXCEPT ![c] = "halfclosed"]
    /\ Send(c, <<"FIN">>)
    /\ UNCHANGED <<main, setups, serverVars, toClient, requested, answered>>

\* The client is switched off and never sends again.
Vanish(c) ==
    /\ "vanish" \in Faults /\ client[c] \in {"syn", "open"}
    /\ client' = [client EXCEPT ![c] = "vanished"]
    /\ UNCHANGED <<main, setups, serverVars, toServer, toClient, requested, answered>>

ListenerNext ==
    \/ SetupHttpListener \/ TimerPoll \/ ServeHttpOnce
    \/ ExecuteCommand \/ CommandDone
    \/ \E c \in Clients : Connect(c) \/ SendRequest(c) \/ ClientReceive(c)
    \/ \E c \in Clients : Abort(c) \/ HalfClose(c) \/ Vanish(c)

\* The main thread keeps running and returns from commands to the prompt, where
\* it finds the console idle again and again; a client's TCP keeps answering, but
\* no client has to connect or, once connected, to send anything.
Fairness ==
    /\ WF_listenerVars(SetupHttpListener) /\ WF_listenerVars(CommandDone)
    /\ SF_listenerVars(ServeHttpOnce)
    /\ \A c \in Clients : WF_listenerVars(ClientReceive(c))

ListenerSpec == ListenerInit /\ [][ListenerNext]_listenerVars /\ Fairness
-----------------------------------------------------------------------------
Socket == [state : SocketStates, port : Nat, peer : Clients \cup {NoClient},
           rx : BOOLEAN, out : Seq(FromServer)]

ListenerTypeOK ==
    /\ main \in {"boot", "idle", "busy"} /\ setups \in Seq(Nat \ {0})
    /\ sockets \in Seq(Socket)
    /\ handle \in 0 .. Len(sockets) /\ port \in Nat /\ responded \in BOOLEAN
    /\ toServer \in Seq([from : Clients, kind : FromClient])
    /\ toClient \in [Clients -> Seq(FromServer)]
    /\ client \in [Clients -> {"idle", "syn", "open", "halfclosed", "done", "refused",
                              "gone", "vanished"}]
    /\ requested \subseteq Clients /\ answered \in [Clients -> Nat]

Http == sockets[handle]

\* However polls of the interrupt fall between those of the read loop, a
\* client is answered at most once, and only after its request.
OneAnswerPerRequest ==
    \A c \in Clients :
        LET onTheWay == Cardinality({i \in DOMAIN toClient[c] : toClient[c][i] = "RESP"})
            queued == {k \in DOMAIN sockets : sockets[k].peer = c /\ sockets[k].out # <<>>}
        IN  /\ answered[c] + onTheWay <= 1
            /\ answered[c] + onTheWay = 1 => c \in requested /\ queued = {}

Stuck == {"halfclosed", "vanished"}

Listens == handle # 0 /\ Http.state = "Listen"

\* c has the socket and will not give it back: it half-closed, vanished, or is
\* connected and silent, so the read loop waits for a request (mod.rs:111-112).
Holds(c) ==
    /\ handle # 0 /\ Http.peer = c
    /\ client[c] \in Stuck \/ (client[c] = "open" /\ c \notin requested)

\* The listener always comes back: whatever connections came and went, the
\* socket listens again, again and again (mod.rs:86-88), unless one client
\* keeps it for ever, half-closed, vanished or silent.
ListenerReturns == []<>Listens \/ \E c \in Clients : <>[]Holds(c)

\* A client that has sent its request and waits is answered, unless it gives up
\* itself, or was refused.
RequestAnswered ==
    \A c \in Clients :
        c \in requested ~>
            (answered[c] = 1 \/ client[c] \in {"gone", "refused"} \cup Stuck)

\* The same whatever clients do: nothing holds the listener for ever
\* (mod.rs:130, "let smoltcp handle it").
ListenerAlwaysReturns == []<>Listens

\* "Idempotent - only the first call takes effect" (mod.rs:73): the listener
\* stays on the port of the first call.
FirstCallTakesEffect == handle # 0 => Http.port = FirstPort
=============================================================================
