---------------------------- MODULE KernelLocks ----------------------------
(***************************************************************************)
(* One CPU, two contexts: kernel_main's thread and the hardware interrupts.*)
(* What each does is a sequence of the steps that matter between them:     *)
(* taking and releasing the spin locks of SERIAL, PICS, NETWORK and the    *)
(* heap, fetching a timestamp and polling smoltcp with it.  The interrupt  *)
(* gate clears IF, so the handler is never interrupted and the thread does *)
(* not move until the handler returns; a lock the thread holds is then     *)
(* held for good.                                                          *)
(***************************************************************************)
EXTENDS Integers, Sequences

CONSTANTS Ops,        \* what the thread may do after boot
          MaxTicks    \* bound on timestamps fetched

ASSUME LocksAssumption ==
    /\ Ops \subseteq {"print", "alloc", "serve", "https"}
    /\ MaxTicks \in Nat \ {0}

Contexts == {"main", "irq"}
Locks == {"serial", "pics", "heap", "network"}
Clocks == {"net", "own"}    \* NET_TICKS and POLL_TICKS

VARIABLES code,        \* what is left to do, per context; <<>> when idle
          inIrq,       \* the handler has the CPU
          enabled,     \* the interrupt flag IF outside the handler
          holder,      \* who holds each lock, "free" if nobody
          ready,       \* what has been initialised: the heap, NETWORK
          stamp,       \* the timestamp a context has fetched, and its counter
          ticks,       \* NET_TICKS
          pollTicks,   \* tls.rs POLL_TICKS
          polls,       \* per counter, the timestamps of its two latest polls
          panicked, reported,  \* a panic has begun; a failure's message is out
          fault        \* "none", or a CPU exception, with SERIAL "free" or "held" then

vars == <<code, inIrq, enabled, holder, ready, stamp, ticks, pollTicks, polls,
          panicked, reported, fault>>
-----------------------------------------------------------------------------
\* A step: what it does, to which lock, and how many steps an alternative skips.
Step(op, lock, skip) == [op |-> op, lock |-> lock, skip |-> skip]
Acquire(l) == Step("acquire", l, 0)
Release(l) == Step("release", l, 0)
Do(op) == Step(op, "serial", 0)

\* serial_print!, and any allocation or deallocation on the heap.
SerialPrint == <<Acquire("serial"), Release("serial")>>
Alloc == <<Acquire("heap"), Release("heap")>>

\* Interface::poll: a received frame is copied to a Vec (VirtioNet::receive).
Poll == <<Do("poll"), Step("frame", "heap", 2)>> \o Alloc

\* Seeded form: the timestamp is fetched before the lock is tried.
ServeHttpOnce_EarlyTick ==
    <<Do("tick"), Step("try", "network", 5)>> \o Poll \o <<Release("network")>>

\* net::serve_http_once: poll under try_lock; the exchange itself only touches
\* the socket's buffers.
ServeHttpOnce ==
    <<Step("try", "network", 6), Do("tick")>> \o Poll \o <<Release("network")>>

\* Seeded forms: NETWORK locked outright; NETWORK taken to be initialised; the
\* lock released before the poll.
TimerHandler_Lock ==
    <<Step("get", "network", 7), Acquire("network"), Do("tick")>> \o Poll
      \o <<Release("network"), Acquire("pics"), Release("pics")>>
TimerHandler_NoGet ==
    <<Step("try", "network", 6), Do("tick")>> \o Poll
      \o <<Release("network"), Acquire("pics"), Release("pics")>>

\* interrupts::timer_handler: net::poll, then the end of interrupt to the PIC.
TimerHandler ==
    <<Step("get", "network", 7), Step("try", "network", 6), Do("tick")>> \o Poll
      \o <<Release("network"), Acquire("pics"), Release("pics")>>

\* interrupts::keyboard_handler: the scan code is dropped.
KeyboardHandler == <<Acquire("pics"), Release("pics")>>

\* Seeded form: the stack frame is formatted to a String first.
FaultHandler_Format == Alloc \o SerialPrint \o <<Do("report"), Do("halt")>>

\* The handlers of page and general protection faults: two prints, then a loop.
FaultHandler == SerialPrint \o SerialPrint \o <<Do("report"), Do("halt")>>

\* tls::https_request: the lock is held from connect to close, and time comes
\* from a counter of its own.  Two polls stand for its two loops.
HttpsRequest ==
    <<Acquire("network")>> \o Alloc \o <<Do("ownTick")>> \o Poll
      \o <<Do("ownTick")>> \o Poll \o <<Release("network")>>

\* kernel_main up to the prompt: serial::init, gdt (no lock), interrupts::init,
\* memory::init and its probe, net::init, the containers, setup_http_listener.
KernelMain ==
    SerialPrint \o <<Acquire("pics"), Release("pics"), Do("sti")>> \o SerialPrint
      \o <<Acquire("heap"), Do("heapReady"), Release("heap")>> \o Alloc \o SerialPrint
      \o Alloc \o <<Do("networkReady")>> \o SerialPrint
      \o Alloc \o SerialPrint
      \o <<Acquire("network")>> \o Alloc \o <<Release("network")>> \o SerialPrint

Program == [print |-> SerialPrint, alloc |-> Alloc, serve |-> ServeHttpOnce,
            https |-> HttpsRequest]

\* Seeded form of the panic handler: SERIAL is locked without forcing it open.
PanicHandler_NoForce == <<Acquire("serial"), Do("report"), Release("serial"), Do("halt")>>

\* main.rs, panic(): SERIAL is forced open, the message printed, then a loop.
PanicHandler == <<Do("forceSerial"), Acquire("serial"), Do("report"),
                  Release("serial"), Do("halt")>>
-----------------------------------------------------------------------------
Init ==
    /\ code = [x \in Contexts |-> IF x = "main" THEN KernelMain ELSE <<>>]
    /\ inIrq = FALSE /\ enabled = FALSE
    /\ holder = [l \in Locks |-> "free"]
    /\ ready = {}
    /\ stamp = [x \in Contexts |-> <<"net", 0>>]
    /\ ticks = 0 /\ pollTicks = 0 /\ polls = [c \in Clocks |-> <<0, 0>>]
    /\ panicked = FALSE /\ reported = FALSE /\ fault = "none"

Running == IF inIrq THEN "irq" ELSE "main"
SkipTo(s, n) == SubSeq(s, n + 2, Len(s))
Go(x, n) == code' = [code EXCEPT ![x] = SkipTo(@, n)]
Keep == UNCHANGED <<inIrq, panicked, fault>>

\* The next step of context x is `op`; what is left after it follows.
At(x, op) == x = Running /\ code[x] # <<>> /\ Head(code[x]).op = op
LockOf(x) == Head(code[x]).lock

\* A spin lock is taken when free; a context that finds it held spins.
Take(x) ==
    /\ At(x, "acquire") /\ holder[LockOf(x)] = "free"
    /\ holder' = [holder EXCEPT ![LockOf(x)] = x]
    /\ Go(x, 0) /\ Keep
    /\ UNCHANGED <<enabled, ready, stamp, ticks, pollTicks, polls, reported>>

\* A guard is dropped.
Drop(x) ==
    /\ At(x, "release")
    /\ holder' = [holder EXCEPT ![LockOf(x)] = "free"]
    /\ Go(x, 0) /\ Keep
    /\ UNCHANGED <<enabled, ready, stamp, ticks, pollTicks, polls, reported>>

\* try_lock: when the lock is held, the section is skipped.
TryLock(x) ==
    /\ At(x, "try")
    /\ IF holder[LockOf(x)] = "free"
       THEN holder' = [holder EXCEPT ![LockOf(x)] = x] /\ Go(x, 0)
       ELSE holder' = holder /\ Go(x, Head(code[x]).skip)
    /\ Keep
    /\ UNCHANGED <<enabled, ready, stamp, ticks, pollTicks, polls, reported>>

\* NETWORK.get(), and whether the receive ring holds a frame.
Branch(x) ==
    /\ \/ At(x, "get") /\ Go(x, IF LockOf(x) \in ready THEN 0 ELSE Head(code[x]).skip)
       \/ At(x, "frame") /\ \E n \in {0, Head(code[x]).skip} : Go(x, n)
    /\ Keep
    /\ UNCHANGED <<enabled, holder, ready, stamp, ticks, pollTicks, polls, reported>>

\* fetch_add on NET_TICKS, or on https_request's POLL_TICKS.
FetchTime(x) ==
    /\ \/ /\ At(x, "tick") /\ ticks < MaxTicks
          /\ ticks' = ticks + 1 /\ UNCHANGED pollTicks
          /\ stamp' = [stamp EXCEPT ![x] = <<"net", ticks>>]
       \/ /\ At(x, "ownTick") /\ pollTicks < MaxTicks
          /\ pollTicks' = pollTicks + 1 /\ UNCHANGED ticks
          /\ stamp' = [stamp EXCEPT ![x] = <<"own", pollTicks>>]
    /\ Go(x, 0) /\ Keep
    /\ UNCHANGED <<enabled, holder, ready, polls, reported>>

\* smoltcp is polled with the timestamp fetched.
PollStack(x) ==
    /\ At(x, "poll")
    /\ polls' = [polls EXCEPT ![stamp[x][1]] = <<@[2], stamp[x][2]>>]
    /\ Go(x, 0) /\ Keep
    /\ UNCHANGED <<enabled, holder, ready, stamp, ticks, pollTicks, reported>>

\* The boot steps: interrupts::enable, the heap and NETWORK become usable.
Initialise(x) ==
    /\ \/ At(x, "sti") /\ enabled' = TRUE /\ UNCHANGED ready
       \/ At(x, "heapReady") /\ ready' = ready \cup {"heap"} /\ UNCHANGED enabled
       \/ At(x, "networkReady") /\ ready' = ready \cup {"network"} /\ UNCHANGED enabled
    /\ Go(x, 0) /\ Keep
    /\ UNCHANGED <<holder, stamp, ticks, pollTicks, polls, reported>>

\* The panic handler's own steps.
Report(x) ==
    /\ \/ /\ At(x, "forceSerial")
          /\ holder' = [holder EXCEPT !["serial"] = "free"] /\ UNCHANGED reported
       \/ At(x, "report") /\ reported' = TRUE /\ UNCHANGED holder
    /\ Go(x, 0) /\ Keep
    /\ UNCHANGED <<enabled, ready, stamp, ticks, pollTicks, polls>>

\* The thread is between operations and starts another.
StartOp ==
    /\ Running = "main" /\ code["main"] = <<>>
    /\ \E op \in Ops : code' = [code EXCEPT !["main"] = Program[op]]
    /\ Keep
    /\ UNCHANGED <<enabled, holder, ready, stamp, ticks, pollTicks, polls, reported>>

\* A key is pressed between any two steps of the thread.
KeyboardInterrupt ==
    /\ ~inIrq /\ enabled
    /\ inIrq' = TRUE
    /\ code' = [code EXCEPT !["irq"] = KeyboardHandler]
    /\ UNCHANGED <<enabled, holder, ready, stamp, ticks, pollTicks, polls,
                   panicked, reported, fault>>

\* The timer fires between any two steps of the thread.
TimerInterrupt ==
    /\ ~inIrq /\ enabled /\ ticks < MaxTicks
    /\ inIrq' = TRUE
    /\ code' = [code EXCEPT !["irq"] = TimerHandler]
    /\ UNCHANGED <<enabled, holder, ready, stamp, ticks, pollTicks, polls,
                   panicked, reported, fault>>

ReturnFromInterrupt ==
    /\ inIrq /\ code["irq"] = <<>>
    /\ inIrq' = FALSE
    /\ UNCHANGED <<code, enabled, holder, ready, stamp, ticks, pollTicks, polls,
                   panicked, reported, fault>>

\* A panic in whichever context runs: panic = "abort", so nothing it holds is
\* released.  The allocator itself does not panic.
Panic(x) ==
    /\ x = Running /\ ~panicked /\ fault = "none" /\ holder["heap"] # x
    /\ panicked' = TRUE
    /\ code' = [code EXCEPT ![x] = PanicHandler]
    /\ UNCHANGED <<inIrq, enabled, holder, ready, stamp, ticks, pollTicks, polls,
                   reported, fault>>

\* A page or general protection fault in whichever context runs, once the
\* handlers are loaded: the gate clears IF and the handler never returns.
CpuException(x) ==
    /\ x = Running /\ ~panicked /\ fault = "none" /\ enabled
    /\ fault' = IF holder["serial"] = "free" THEN "free" ELSE "held"
    /\ enabled' = FALSE
    /\ code' = [code EXCEPT ![x] = FaultHandler]
    /\ UNCHANGED <<inIrq, holder, ready, stamp, ticks, pollTicks, polls, panicked,
                   reported>>

CpuStep(x) == \/ Take(x) \/ Drop(x) \/ TryLock(x) \/ Branch(x)
              \/ FetchTime(x) \/ PollStack(x) \/ Initialise(x) \/ Report(x)

Next == \/ \E x \in Contexts : CpuStep(x) \/ Panic(x) \/ CpuException(x)
        \/ StartOp \/ TimerInterrupt \/ KeyboardInterrupt \/ ReturnFromInterrupt

\* The CPU executes the running context; timer ticks are far enough apart for
\* the thread to move between them.
Fairness == /\ WF_vars(CpuStep("irq")) /\ WF_vars(ReturnFromInterrupt)
            /\ SF_vars(CpuStep("main"))

Spec == Init /\ [][Next]_vars /\ Fairness
-----------------------------------------------------------------------------
TypeOK ==
    /\ inIrq \in BOOLEAN /\ enabled \in BOOLEAN
    /\ holder \in [Locks -> Contexts \cup {"free"}]
    /\ ready \subseteq {"heap", "network"}
    /\ ticks \in 0 .. MaxTicks /\ pollTicks \in 0 .. MaxTicks
    /\ panicked \in BOOLEAN /\ reported \in BOOLEAN

Wants(x, l) == At(x, "acquire") /\ LockOf(x) = l

\* A handler waits for no lock the thread may hold when it is interrupted, but
\* for a fault in it while SERIAL is held, and for the heap's (mod.rs:138,
\* interrupts.rs:42 and 56-83); and interrupts come before the heap exists
\* (main.rs:77-80), where none may use it.
HandlerGoesOn ==
    /\ \A l \in Locks \ {"heap"} :
          Wants("irq", l) /\ fault # "held" => holder[l] # "main"
    /\ Wants("irq", "heap") => "heap" \in ready

\* A counter never runs backwards for smoltcp: timestamps are fetched and used
\* under one hold of NETWORK, so the two contexts cannot use them out of order
\* (mod.rs:27, 94-97 and 138-140; tls.rs:105-110).
TimeMovesForward == \A c \in Clocks : polls[c][1] <= polls[c][2]

\* A panic is reported on the serial console, whatever was locked when it
\* began (main.rs:168-170).
PanicIsReported == panicked ~> reported

\* A fault is reported wherever it strikes, in the allocator or under NETWORK's
\* lock included, unless somebody holds SERIAL: its handlers print without
\* forcing it open as panic() does (interrupts.rs:56-67).
FaultIsReported == (fault = "free") ~> reported

\* The same for every fault (the stack frame is there to be seen).
EveryFaultIsReported == (fault # "none") ~> reported

\* What the interrupt may wait for is never held by the thread it interrupted
\* ("so it never blocks the shell", mod.rs:88).
IrqNeverSpins ==
    \A l \in Locks : Wants("irq", l) /\ fault = "none" => holder[l] # "main"
=============================================================================
