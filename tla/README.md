# TLA+ models of oci_kernel

This directory holds TLA+ models of the kernel in `src/kernel/src`, the TLC
configurations that check them on small instances, and proofs that TLAPS checks.
Each module is translated from the Rust source; a reference such as
`vswitch.rs:66` is to a file under `src/kernel/src`. `PROJECT.json` names, for
every definition, the lines it stands for.

To check something: `tlc -config MCIpPool.cfg MCIpPool`, `tlapm NetworkProofs.tla`.

## 1. The system

The kernel is one program on one CPU with two contexts: the thread that runs
`kernel_main` and then the operator's shell for ever, and the interrupts: the timer's, which
polls the network stack, the keyboard's, and the CPU's exceptions. There is no preemption and no second core; what makes it
concurrent is the interrupt, the devices (virtio-net), and the network peers.

| Component | Source | State it keeps | Operations | Correct when |
|---|---|---|---|---|
| Boot memory | `memory/mod.rs`, `memory/heap.rs` | cursor over the memory map | `allocate_frame`, `heap::init` | no frame has two users, all are usable, boot fails only when none is left |
| Buddy allocator | `memory/buddy.rs` | free list per order | `new_from_frames`, `allocate`, `free` | no frame lost or doubled, buddies merged, refusal only without a block; no panic once it is built |
| Locks and interrupts | `main.rs`, `interrupts.rs`, `serial.rs` | SERIAL, PICS, NETWORK, heap locks; IF; NET_TICKS, POLL_TICKS | print, allocate, serve, `https_request`; timer, keyboard, exception and panic handlers | a handler never waits for the thread it interrupted; a panic or a fault is reported |
| virtio-net driver | `net/virtio_net.rs` | two virtqueues, receive buffers, one transmit buffer | `receive`, `TxToken::consume`, `init` | each frame received reaches the kernel once and unaltered; no old frame is sent for a new one |
| HTTP listener | `net/mod.rs`, `net/stack.rs` | HTTP_HANDLE, HTTP_PORT, HTTP_RESPONDED, one socket | `setup_http_listener`, `serve_http_once`, `poll` | every request answered once, the socket listens again unless one client keeps it |
| HTTPS client | `net/tls.rs` | NEXT_PORT, POLL_TICKS, one socket per call | `https_request` | cuts are told where the framing can; no socket is left; a call returns unless the server falls silent |
| IP pool, port forwards | `net/vswitch.rs` | used addresses and cursor; PORT_FORWARDS | `allocate`, `release`, `available`, `lookup_port_forward` | an address has one owner; the lowest free one is next |
| Scheduler | `process/scheduler.rs` | queue and cursor | `add`, `next`, `set_state` | nobody waiting is overtaken twice; no idling |
| Container runtime | `container/*`, `main.rs` | STORE, IMAGE_STORE, VOLUME_STORE, ids | boot loop, `run`, `stop`, pull, rm, create | ids, records and rules agree |
| Root filesystem | `fs/overlayfs.rs` | the writable layer | `read`, `write`, `remove`, `list`, `is_dir`, `exists` | it behaves as one flat map |
| Operator shell | `host/getty.rs` | the line being edited, login, current directory | keys, commands | the screen shows the name typed and no password, paths are canonical, commands reach what they name |
| Command parser | `host/shell.rs` | none | `parse`, `parse_ports`, `parse_volumes` | a word is read once, as a flag or as a value |
| Configuration parser | `config.rs` | section flags, builder, mapping in progress | `from_yaml`, `parse_memory` | what is read is what was meant; a size is exact or stops the boot |
| Isolation: cgroup, PIDs | `isolation/cgroup.rs`, `namespace.rs` | memory and process counters, next PID | check, charge, release, allocate | what processes hold stays within the declared limit; counts are exact |
| Isolation: seccomp, other namespaces | `isolation/seccomp.rs`, `namespace.rs` | constants | lookups | not modelled |
| Registry, images, layers | `oci/*`, `net/http.rs` | token, layers by digest, images | `authenticate`, `pull_manifest`, `pull_layer`, store, decompress | what is stored matches its digest; an image has its own manifest; cuts are seen |

Who talks to whom: the shell calls the filesystem, the runtime and (while it waits
for a key) the HTTP listener; the boot calls memory, network, parser and
runtime; the listener and the HTTPS client share smoltcp's stack under NETWORK's
lock with the timer interrupt; smoltcp drives the virtio driver; every one of them
allocates from the heap behind one more spin lock.

What is hard here, and what the models are aimed at: the timer interrupt between
any two steps of the thread (locks, timestamps, polls between two calls of
`serve_http_once`); a device and peers that run by themselves; connection states the
code leaves to "smoltcp will handle it"; cursors into structures that change
between calls (IP pool, scheduler, frames, 16-bit ring indices); four pieces of
parser state reset at different lines; limits that pass through four hands; answers cut at any byte,
in framings that cannot all tell; long legal sequences of allocate and free, create and stop. Crash recovery is not an issue: nothing is persistent.

## 2. The modules

Every model has one module; abstract specifications have their own; `MC*` modules
give constants their values; `*Proofs` hold theorems.

| Module | Models | Abstract specification | Checked by (run) |
|---|---|---|---|
| `IpPool` | `vswitch.rs` `IpPool` | `AddressPool` | `ip_pool` |
| `Scheduler` | `scheduler.rs` | | `scheduler` |
| `Console` | line editing at the two login prompts of the serial console | | `runtime` |
| `ShellCommand` | `shell.rs`: from a line to a command | one scan of the options (`OptionsOf`) | `runtime` |
| `ContainerRuntime` | boot loop, `getty.rs` container, image and volume commands, `lookup_port_forward`; extends `Console` and `ShellCommand` | | `runtime` |
| `HttpListener` | `net/mod.rs` with clients | | `http` |
| `KernelLocks` | locks, all interrupt handlers and the panic handler, timestamps | | `locks`, `irq_spins` |
| `VirtioNet` | both virtqueues with the device | `FrameQueue` | `virtio` |
| `BuddyAllocator` | `buddy.rs` | `FramePool` | `buddy` |
| `ConfigParser` | `KernelConfig::from_yaml`, `parse_memory` | the meaning of a document (`Meant`) | `config` |
| `Isolation` | `cgroup.rs`, PID namespace, processes in one container | | `config` |
| `DeclaredContainers` | a parsed container started; composes the two above | | `config` |
| `RootFs` | `overlayfs.rs` under the filesystem commands of `getty.rs` | `FlatFs` | `root_fs` |
| `HttpsRequest` | `https_request` with the server | | `image_pull` |
| `HttpResponse` | `http.rs` `parse_response` on what was received | | `image_pull` |
| `LayerEnvelope` | `layer.rs` on gzip members and cuts of them | | `image_pull` |
| `ImagePull` | registry and image store; extends the three above | `ContentStore` | `image_pull` |
| `BootMemory` | `allocate_frame`, `heap::init`, the queue address | | `boot_memory` |

Definitions called `X_Something` ("Seeded form") are variants of `X` with one
plausible mistake. No specification uses them; each property is shown to be violated
when its `X` is replaced by one of them (`mutants` in `PROJECT.json`).

### How state and actions correspond to the code

* **IpPool.** `used`, `next` are the fields; `last` remembers the latest answer for the
  refinement. The loop of `allocate` is one step: the cursor lands behind the first
  free candidate, or on the broadcast address (`AllocateNone`). `Release` takes
  any address, held or not, like the code. Saturating arithmetic is kept (`SatAdd`,
  `SatSub`).
* **Scheduler.** `queue` keeps the entries' states, since entries are never removed;
  `current` is the code's index plus one, with 0 for `usize::MAX`. `since` and
  `overtaken` are history.
* **Console.** `buf` holds the bytes `read_line` collects, `shown` what the characters it writes leave on
  the terminal behind the prompt. Bytes of 0x80 and above are typed too: each is echoed as a character of
  its own, and `from_utf8_lossy` makes text of them at Enter (characters of one and two bytes; longer ones
  are left out). `ascii` remembers whether there was one. `user` is kept until the password's Enter
  checks both. Lines at the shell prompt arrive whole, in `ContainerRuntime`.
* **ShellCommand.** A line is a sequence of words, a word the sequence of its fields between
  colons. `Patterns` is the match of `parse`, tried in order; `container run` and `echo` are
  operators of their own. `Scan` is the loop of `parse_ports` and of `parse_volumes`, `ScanStep` one iteration:
  what the loop gives from word `i` on.
* **ContainerRuntime.** `store` is the BTreeMap of records, `forwards` is
  PORT_FORWARDS, `next_id` the atomic counter. `phase` and `pending` are where boot
  stands. `Launch` is create, start, register and push rules: the boot loop and
  `container run` are two copies of that code. `Submit(line)` is one turn of `run_shell`: parse,
  then one action per command that changes state; the rest only print (`Others`).
* **Isolation.** One container and the processes in it. Each method of `CgroupHandle` is an operator; a process
  asks and, if it is not refused, charges what it allocates (`Allocate`) or itself (`Spawn`); it frees
  in parts (`Free`) and at its exit (`Exit`). The methods that charge take `&mut self` and nothing in the kernel
  calls them yet: the processes are external, follow the comments at `cgroup.rs:31-33` and `52`, and nothing runs between
  check and charge. `MachineMemory` is what there is to allocate. `IsolationSpec` is the life of one
  container with any limit; the steps of `DeclaredContainers` are its steps or leave its variables alone (proved).
* **DeclaredContainers.** Runs the parser to its end, then starts a parsed container
  (`Container::create` passes the memory limit on) and lets its processes run. `declared` remembers
  the memory that the text, not the parser, gives the container.
* **HttpListener.** `Polled` is one `stack.poll`: all frames of the receive ring pass
  through the socket set, then queued segments leave. `TimerPoll` is the interrupt's
  poll, an `Ingress` per frame and one `Egress`, `ServeHttpOnce` the read loop's with its match on the socket state (`Rearm`,
  `Respond`, `Leave`). Connection states are smoltcp's. The two contexts exclude each
  other by NETWORK's lock, and the interrupt runs to its end, so each is one step;
  `KernelLocks` looks into that.
* **KernelLocks.** Each context has a program counter as the list of steps left:
  acquire, release, try-lock, fetch a timestamp, poll. The interrupt may come
  between any two steps of the thread while IF is set; nothing runs but the handler until
  it returns. `Program` gives the list of each operation of the thread. `SerialPrint`, `Alloc`, `Poll`, `ServeHttpOnce`, `TimerHandler`,
  `KeyboardHandler`, `FaultHandler`, `HttpsRequest`, `KernelMain`, `PanicHandler` are the lists, in
  the order of the code. A fault strikes at any step, IF or not.
* **VirtioNet.** The ring indices are modulo `IndexMod` (2^16 in the code), slots modulo
  `QueueSize`. `Receive` is `Device::receive` with the recycling of its descriptor,
  `ReceiveBogus` the same for an id outside the ring. `TxToken::consume` is three steps, `WriteFrame`,
  `Describe` and `Publish`, since the device may take the descriptor between them. It looks at
  nothing the device writes, so it overwrites the one buffer whether or not that was sent.
  The device's actions interleave freely with the driver's.
  For the refinement, `FramesIn` gives the frames of the descriptors the device has returned.
* **BuddyAllocator.** `free_lists` are sets per order (the Vec's order decides only which
  block is taken, which is nondeterministic here). `MergedOrder` is the loop of
  `free`; `panicked` is the index out of bounds at `buddy.rs:59` (`Panic`), which halts the kernel.
* **ConfigParser.** One action per match arm, on lines of (indentation, key, value).
  `Lines(doc)` writes a document the two ways the parser accepts, `Meant(doc)` is the
  result the document asks for. A size is a number and a unit, multiplied as `parse_memory`
  does in a debug build: an overflow panics (`panicked`). Other values are opaque and either parse
  or are `None`.
* **RootFs.** A path is a sequence of names, an argument a sequence of segments;
  `resolve_path` takes them one by one, each a `Collapse`. One action per command; `write` copies up
  before it writes. Touch, mkdir, echo, rm and cd keep their conditions; `cat` is
  represented by the operator `read` in the refinement; `ls` is not modelled.
* **HttpsRequest.** `pc` is the place in `https_request`; one action per loop iteration
  after its poll. A poll is several `PollRound`s, since `Interface::poll` repeats
  until nothing moves and segments may come in while it runs. Bytes are counted; what is on
  the way is a number of bytes and, behind them, the last thing that happened to the connection.
* **HttpResponse, LayerEnvelope.** Pure operators on sequences of tokens or bytes. An answer is
  built in one of four framings (a chunked one as two chunks of a byte) and cut anywhere; `ChunkStep` is an
  iteration of `parse_chunked`; a gzip member carries any subset of
  the optional fields, and DEFLATE is a toy format that knows its own length.
* **ImagePull.** Each operation of `Registry` is a request (`Request`, the `Connect` of
  `HttpsRequest`), the transport's steps, and an action that parses the answer and keeps or refuses
  it. `pull_manifest` is two requests. `then` and `stage = "again"` mark the place between them.
  A document's bytes name the document, so a hash or a JSON parser tells a cut or another document.
  The kernel does not call these operations yet, so any order of them is allowed.
* **BootMemory.** `given` maps a user (heap page, or page table of some level) to its
  frame. The allocator's nested search is `First(i)`; `Requests` are what `map_to`
  asks for, from the top table down, after the page's own frame.

## 3. What is checked

All safety properties hold in every reachable state of the instance, all refinements
are checked as TLC properties.

| Run | Instance | Shows |
|---|---|---|
| `ip_pool` | a /29 in a space of 32 addresses, release of any address | `PoolSpec`: the cursor pool implements the abstract one; `LowestFreeFirst`; `AvailableIsExact`: `available()` and `allocate()` never disagree |
| `scheduler` | up to 4 entries in 4 states | `NoOvertaking`: while a process waits runnable, no other is picked twice; `WorkConserving` |
| `runtime` | a login typed byte by byte, with one key of two bytes; 2 declared and 2 more containers, 24 lines good and bad, all option lists of up to 5 words | `PsNumberIsId`: the number `ps` shows is the id `stop` takes; `RoutesAreStable`; `DeclaredAreServed`; `OptionsReadOnce`: two scans agree with one; `ScreenShowsLine`: what is typed in ASCII is what the screen shows, and no password is shown |
| `http` | 2 clients that may abort, half-close or vanish | `OneAnswerPerRequest`; `RequestAnswered`; `ListenerReturns`: the socket listens again and again unless one client keeps it for ever |
| `locks` | boot and any mix of 4 operations, 4 timestamps per counter; a tick, a key or a fault between any two steps | `HandlerGoesOn`: no handler waits for the thread except for the heap's lock, nor uses the heap too early; `TimeMovesForward`, `PanicIsReported`, `FaultIsReported` |
| `irq_spins` | the same without HTTPS | violated: the handler waits for the heap lock of the thread it interrupted |
| `virtio` | 3 descriptors, indices modulo 6, ids outside the ring | `BufferOwnedOnce`, `RxIsQueue` (refinement), `NoOldFrameSent`: however late the device is, buffer and length of a descriptor are never those of an older frame |
| `buddy` | 3 lists of 8 to 10 frames, with and without a whole block of 8; sizes 1, 2, 3, 5, orders below 3 | `PoolSpec` (refinement), `FullyMerged`, `PanicsWhileBuilt`: the panic of `buddy.rs:59` comes with the frame that completes a whole block, and only while the allocator is built |
| `config` | 3493 documents of 1 to 3 containers, 40 memory sizes, then 3 processes in one container | `ReadsEverything` (with sizes exact or a panic), `PortsStayWithContainer`, `DeclaredLimitBinds`: its processes never hold more than the text of the container says |
| `root_fs` | 2 lower layers, 8 arguments, 5 paths, 2 contents | `FlatSpec` (refinement), canonical paths in `TypeOK` |
| `image_pull` | 2 images that share a layer, 4 requests, 4 framings, closes, resets and silence at any point, buffers of 1 and 2 bytes; gzip members with every option and every cut of them | `StoreSpec` (refinement), `ManifestsAreGenuine`, `CutsAreSeen`, `LayersUnpack`, `NoSocketLeft`, `OperationReturns`, ephemeral ports in `PullTypeOK` |
| `boot_memory` | 1000 maps of 3 regions, 7 frames wanted | `FramesDistinct`, `PanicsOnlyWhenExhausted` |

**Bounds, and why they are enough.** They are chosen so that each boundary in the code is
crossed: the IP pool fills up and empties, so the cursor reaches the broadcast address
and is rewound past several free addresses; four scheduler entries suffice for a picked one,
a waiting one and one that changes state on either side; ring indices wrap twice in a ring
of three; the buddy frames split and merge through all orders and run out, and a whole block comes in ascending order and in a scattered one; every answer
is longer than the receive buffer (2) and the chunk (1), and NEXT_PORT wraps after
two calls of four, which is enough for a manifest after a token and a layer after that, or for a token of
the other image in between; `usize` has 4 bits and a kilo is 2 in `config`, so that each unit can
fit, reach and overflow the type, and `MachineMemory` (9) is more than the default limit (6), so that it is the
limit and not the machine that refuses; three processes ask for 2, 3 or 14 bytes, the last of which overflows
`usize` as soon as anything is charged, and `CgroupPids` (2) is one process too few; `MaxOptions` (5) is one complete option of each kind and a word left over;
`MaxLine` (3) is a credential of one letter with a blank of one or of two bytes, or a wrong letter, beside it; `MaxInflated` (2) is
below the longest payload; a heap of three pages that does not fill its tables crosses a boundary
at both levels, with maps that have too few frames, empty regions and unusable ones. Two HTTP
clients are one that holds the socket and one that is refused or comes next.
`MaxTicks` bounds the timestamps in `KernelLocks`: at the bound the timer stops, hence
`CHECK_DEADLOCK FALSE` there; a real spin in the handler is a deadlock too.
`BootMemory` and `DeclaredContainers` end, and a panic halts `BuddyAllocator`, so deadlock is off there as well.
All other runs check deadlock.

**Fairness.** `HttpListener`: the main thread keeps running, returns from commands and
finds the console idle again and again (strong fairness of `ServeHttpOnce`, since
commands interrupt it; `getty.rs:626-638` polls in the wait for each byte, so this is an operator who does not keep the shell busy forever);
clients' TCP takes the segments that were sent to it, since one lost on the wire is retransmitted (weak fairness of
`ClientReceive` alone). Nothing makes a client connect, send its request, or stay; the timer need not fire. `KernelLocks`: the CPU executes
the context that has it; the thread gets strong fairness because ticks are 55 ms apart.
`ImagePull`: the code between two requests runs, the loops of `https_request` run; a poll ends when
nothing moves. Nothing makes the server accept, answer, close or reset. `DeclaredContainers`: the parser's loop runs.

**Exceptions that are part of the properties.** `ListenerReturns` excepts a client that keeps the socket for
ever: it half-closed or vanished while connected, or is connected and never sends (`Holds`);
`RequestAnswered` excepts the first two. `OperationReturns` excepts a server that stays connected and silent for ever (`Silent`);
`PortsStayWithContainer` excepts
mappings still in progress when something closes their container; `CutsAreSeen` allows a cut when the server
reset or closed before its answer was complete, unless it sent chunks; `ScreenShowsLine` speaks of names typed in ASCII;
`FaultIsReported` excepts a fault while SERIAL is held, and `HandlerGoesOn` the heap's lock; `PanicsWhileBuilt` says where the
buddy allocator panics and where not; `NoOldFrameSent` allows a frame of a later `consume` under an earlier descriptor.
Each exception is one of the disagreements below.

## 4. What is proved

TLAPS proves these for every value of the constants that satisfies the modules' `ASSUME`s.

| Theorem | Statement | Argument |
|---|---|---|
| `NetworkProofs!TypeCorrect`, `NoSkip` | `TypeOK`; every address behind the cursor is in use | `TypeOK /\ NoSkippedAddress` is inductive: `allocate` only passes used addresses, `release` moves the cursor back to what it frees |
| `NetworkProofs!LowestFirst`, `ImplementsPool` | `LowestFreeFirst`, `PoolSpec` | both follow step by step from `NoSkip`: the candidates are all the free addresses |
| `NetworkProofs!AvailableExact` | `AvailableIsExact` when `Base + Size <= AddrTop` | by cardinality; the hypothesis is needed (see below) |
| `KernelProofs!SchedulerTypeCorrect`, `BoundedBypass`, `NeverIdles` | `QueueTypeOK`, `NoOvertaking`, `WorkConserving` | `NoOvertaking` is not inductive: `OnArc` says that entries picked since `i` was picked lie on the arc of the ring from behind `i` to the cursor, so the next pick is new to everybody who waits |
| `DeclaredProofs!LimitsHold` | `LimitsAreHard`, from `IsolationSpec` | what is charged is what is held, at every step: a release never reaches the saturation of `SatSub`, a charge that was checked never that of `SatAdd`. Totals are cardinalities of sets of bytes (`Bytes`), so that they can be split by process |
| `DeclaredProofs!PortsStay` | `PortsStayWithContainer` | see below |
| `DeclaredProofs!NothingIsMisread` | the safety part of `ReadsEverything` (`AnswersAreRight`): the parser panics only over a size that no `usize` holds, and otherwise returns what is meant, with no mapping invented, repeated or reordered | the same invariant |
| `DeclaredProofs!BootIsContained`, `DeclaredMemoryBinds` | `BootSpec => IsolationSpec`; `DeclaredLimitBinds` | reading leaves the container alone; a size that was read is a `usize`, so starting a declared container is a `Start` of `Isolation` (`BootStep`); and it is the size the text gives, by the invariant of the parser |
| `MemoryProofs!FramesUsable`, `NoFrameTwice`, `FailsOnlyWhenFull` | `TypeOK`, `FramesDistinct`, `PanicsOnlyWhenExhausted` | the cursor draws a line through the memory map: usable frames behind it are exactly those handed out (`OnlyBehind`, `AllBehind`) |
| `MemoryProofs!AlwaysMerged` | `FullyMerged`, from `BuddySpec` | a block of order `o` is a cell of the grid of that order and two buddies are the halves of a cell of the next (`Merging`); the loop of `free` stops at the first buddy that is not free, so it leaves no pair behind (`MergeKeeps`), and a split leaves one half of each cell it opens (`SplitKeeps`) |
| `MemoryProofs!AllocatorIsPool`, `OnlyWholeBlocksPanic` | `BuddySpec => PoolSpec`; `PanicsWhileBuilt` | every frame is pending, in one free block or in one held block (`BuddyInv`); an aligned block all of whose frames are free lies inside a listed one, or two free buddies would stand unmerged (`FreeIsListed`), so a refusal is right (`NoneListedNoneFree`) and the parts of a whole block are never all free (`NoWholeFree`). The merge loop overflows only at a frame that completes such a block (`OverflowIsWhole`); once built, the frames given to the allocator hold no whole block (`PartsOnly`), so no block given back does |
| `RootFsProofs!Flattened` | `Spec => FlatSpec` | a write adds one path whatever is copied up (`WriteAddsOnePath`), a removal uncovers the image (`ViewOfRemove`); needs that the writable layer holds only listed paths |
| `RootFsProofs!OneSpelling` | `TypeOK` | `Collapse` keeps a path free of the empty name, `.` and `..`, hence so does the loop over any argument |
| `KernelProofs!HandlersGoOn`, `TimeGoesForward` | `HandlerGoesOn`, `TimeMovesForward` | see below |
| `NetworkProofs!AnsweredOnce` | `OneAnswerPerRequest` | a client has one chance of an answer, which is its SYN in the ring, then the socket that took it, then the answer on its way, then the answer it got, and never two of these (`OneChance`); a poll hands frames over one at a time, so each frame is a step of an induction (`IngressKeeps`, `TakenKeeps`) |
| `VirtioNetProofs!OneOwner` | `BufferOwnedOnce` | unwrapped counters `l <= u <= a <= l + QueueSize` stand behind the three 16-bit indices (`RingAt`); the ring entries from `l` to `a` name each descriptor at most once, which survives each wrap because `IndexMod` is a multiple of `QueueSize` |
| `VirtioNetProofs!ReceiveIsAQueue` | `RxIsQueue` | over the same invariant: a device's return appends a frame, the driver's read takes the head, and an id outside the ring holds no frame |
| `VirtioNetProofs!OldFramesStayUnsent` | `NoOldFrameSent` | buffer and length are those of the frame under way or, between two frames, of the last one published; as the device takes descriptors in order, every descriptor still out is of that frame or an older one |
| `ContainerRuntimeProofs!PsNumbersAreIds`, `BootServesDeclared` | `PsNumberIsId`, `DeclaredAreServed` | records are numbered from 1 without a gap, and until the login what is installed is what was declared up to the boot loop's place (`BootedSoFar`) |
| `ContainerRuntimeProofs!RoutesStay` | `RoutesAreStable` | rules are only pushed, behind those that the lookup meets first |
| `ContainerRuntimeProofs!OneScan`, `OptionsAreReadOnce` | two scans agree with one, for option lists of any length; `OptionsReadOnce` | induction on the words left: the ports scan steps over what the volumes scan reads and the other way round, unless a flag stands where a value should |
| `ContainerRuntimeProofs!ScreenIsTheLine` | `ScreenShowsLine` | as long as only ASCII is typed, line and screen are the same sequence, which each key keeps (`ScreenInv`); `from_utf8_lossy` leaves ASCII as it is, by induction (`AsciiIsItself`) |
| `ImagePullProofs!PullTypes`, `SocketsAreRemoved` | `PullTypeOK`, `NoSocketLeft` | each place of `https_request` has its facts (`HttpsInv`), among them that bytes are conserved: what was received, is buffered and is on the way adds up to what the server sent |
| `ImagePullProofs!CutsSeen`, `ManifestsGenuine` | `CutsAreSeen`, `ManifestsAreGenuine` | what `parse_response` makes of a proper prefix of an answer, framing by framing, `parse_chunked` by induction; a manifest that parses is whole, and `op` still names the image it was asked for |
| `ImagePullProofs!LayersUnpacked` | `LayersUnpack` | field by field, where the header of a member ends (`Layout`); read from a cut, each offset is where it should be, or both it and the field's end are beyond the cut (`Reaches`, `HeaderIsSkipped`), so what is left is a part of the payload or nothing (`StrippedIs`) |
| `ImagePullProofs!StoreKeepsContent` | `PullSpec => StoreSpec` | a layer is stored only when its digest is the one asked for, and other steps leave the store alone |

**The locks.** `HandlerGoesOn` says what a handler does next, so it depends on where in its code each
context is. A context's program counter is a sequence of steps, and the invariant (`LocksInv`) says
that this sequence is always the rest, from some step `k` on, of one of nine programs
(`Placement`), together with what is true at that place (`Facts`): between `lock` and `unlock` of
NETWORK the context holds it, before a poll it has just fetched the timestamp, before `sti` interrupts are
off. `Shared` holds what the contexts owe each other: the thread has PICS only with interrupts off,
a fault's handler that finds SERIAL free finds it so to its end, and the stack was last polled at a time
between the one before and now. A step of one context then keeps its place (`Onward`), and the other
stands still (`Bystander`), which uses that a lock that is held is not taken from its holder.

**The parser.** The invariant (`ParserInv`) says at which place of the document the parser is: within the
head, behind section `j` of container `k`, behind mapping `m` of such a section or between its two lines,
behind `i` lines of the resources, or at the end (`Somewhere`). A place fixes the lines still to
read (`SectionsFrom`, `PortsFrom`, ...), the containers pushed so far, each of which is what it should be
(`PushedRight`), and what the builder holds: policy and limits of the sections read, and mappings such that
with the pending one they are those of the sections read, behind what came in from the container before
(`b`, empty unless that one was `Loose`). Each line takes the parser from one place to
the next (`HeadStep`, `SectionStep`, `HostStep`, `PortStep`, `LimitStep`, `NextContainer`, `LastContainer`, `TailStep`), whichever container,
section or mapping it belongs to. The lines of a document and its mappings are both
`FlattenSeq`s, a recursion in the community modules: what it returns is proved once, by induction, from both ends
(`FlattenAppend`, `FlattenFirst`).

**Induction.** Loops over data (`resolve_path`, `Scan`, `parse_chunked`, `FramesIn`, `FlattenSeq`, the frames of `Polled`) and the shift `1 << o` (`Pow2`) are recursive functions.
That such a function exists, and what it returns, is proved by induction on a number, from the
least element of a set of naturals (`LeastElement`, `Inductively`): the library's induction theorems need
a prover that is not there.

Assumptions worth knowing. `BootAssumption` takes the memory map as ascending and disjoint
regions of whole pages, as the bootloader delivers it. `IpPoolAssumption` lets
`Base + 2` fit the address space, which `new()` needs not to overflow. `BuddyAssumption` gives the allocator each frame once. `ConsoleAssumption` has keys send bytes of characters that UTF-8 writes with one or two. `RootFsAssumption`
types the layers and arguments and lets the home directory be a canonical path, as `/root` is; that `.keep` is a string, the prover is told there. `VirtioAssumption` has
indices wrap at a multiple of the queue size, two or more (2^16 and 16 in the code). `RuntimeAssumption` and
`ShellAssumption` let a line be a sequence of words and numerals mean numbers. `ParserAssumption` types the documents and lets a section that has values (`restart`, `resources`) come once per container, as a key of a YAML mapping does. `IsolationAssumption` has requests of at least a byte, and a machine with no more than `usize::MAX` of them; that processes check before they charge is in the actions.
`PullAssumption`
has servers answer with a Content-Length among other framings. `LocksAssumption` only names the operations, `ListenerAssumption` the ports and the faults of clients.
The counterparts in TLC are the runs of section 3, whose modules extend the
same specifications, so TLC evaluates the assumptions.

Only model-checked is liveness: `ListenerReturns`, `RequestAnswered`, `OperationReturns`, `PanicIsReported`,
`FaultIsReported` and that the parser of `ReadsEverything` comes to an end. Fairness needs ENABLED, which the prover does not expand.

## 5. Disagreements between code, comments and documents

`irq_spins` is a run of the project. Each other row starts from the configuration of a run,
with its `INVARIANT` and `PROPERTY` lines replaced by the property named here (an invariant
unless marked P) and the constant changed as given; TLC then reports it violated.

| Configuration, change | Property | What happens |
|---|---|---|
| `MCIrqSpins` | `IrqNeverSpins` | the timer handler polls the stack and copies a received frame into a Vec (`virtio_net.rs:362`): if it interrupted the thread inside the allocator, it waits for ever. `mod.rs:88`: "Uses `try_lock` so it never blocks the shell." |
| `MCKernelLocks` | `EveryFaultIsReported` (P) | the fault handlers print through SERIAL's lock and, unlike `panic()`, do not force it open (`interrupts.rs:56-67`): a fault inside `_print` hangs silently. |
| `MCBootMemory` | `DmaReachesQueue` | `VirtioNet::init` subtracts the physical-memory offset from heap addresses, which `heap::init` mapped elsewhere; and two heap pages need not be neighbours (`virtio_net.rs:193`: "convert virtual queue addresses to physical for DMA") |
| `MCBuddyAllocator` | `NeverPanics` | `free` may merge up to `MAX_ORDER`, one list too far (`buddy.rs:59`): building the allocator from frames that hold a whole aligned block of 2^`MAX_ORDER` panics, as memory normally does |
| `MCConfigParser` | `PreviousIsFlushed` | the last mapping of a container that ends with its ports moves into the next container (`config.rs:74`: "Flush previous container") |
| `MCConfigParser` | `DeclaredPidsEnforced` (P) | the `pids` a container declares never reach its cgroup, which allows 100 (`spec.rs:59`: "Resource limits enforced by the cgroup") |
| `MCImagePull` | `LengthIsChecked` | a body shorter than its Content-Length, be it by a reset or by a server that closes early, is returned as if whole (`http.rs:86`: "Use Content-Length if present"); layers are saved by their digest, manifests by the JSON parser |
| `MCImagePull` | `OperationAlwaysReturns` (P) | a server that accepts and stays silent holds the read loop, NETWORK's lock and the shell for ever (`tls.rs:134`: "Poll and accumulate the response until the server closes the connection."; the loop at 138 has no bound) |
| `MCImagePull` | `SendsWhenEstablished` | SynSent counts as active, so the wait for the connection ends at once (`tls.rs:108`: "Poll until the connection is established.") |
| `MCImagePull` | `ResponseIsAll` | a reset or a close in the middle is returned as success (`tls.rs:66`: "return all response bytes") |
| `MCImagePull`, `RequestLen = 2` | `RequestIsWhole` | a request longer than the transmit buffer is cut (`tls.rs:129`) |
| `MCHttpListener` | `ListenerAlwaysReturns` (P) | a client that half-closes before it is answered leaves the only socket in CloseWait for ever (`mod.rs:130`: "let smoltcp handle it"); so does, in Established, one that vanishes or that connects and never sends (`mod.rs:111-112` waits for a request) |
| `MCHttpListener`, `SetupPorts <- TwoSetups` | `FirstCallTakesEffect` | a second `setup_http_listener` changes the port of the next re-arm (`mod.rs:73`: "Idempotent — only the first call takes effect."); the kernel calls it once |
| `MCVirtioNet` | `EveryFrameIntact` | one transmit buffer for all entries: a frame the device has not sent yet is overwritten by the next (`virtio_net.rs:317`), and the later one goes out twice |
| `MCIpPool`, `Base <- MCTopBase` | `AvailableIsExact` | in a subnet that ends at 255.255.255.255 the saturated bound loses the last address (`vswitch.rs:51`) |
| `MCContainerRuntime` | `EchoIsLine` | a byte of 0x80 or above is echoed as a character of its own, while the line is decoded as UTF-8 (`getty.rs:595-602`; `getty.rs:585`: "Read a line, echoing each character."): screen and line differ for any such key |
| `MCContainerRuntime` | `ForwardsAreActive` | rules of stopped containers stay (`container/mod.rs:26`: "Active port-forward rules") |
| `MCRootFs` | `FileIsNotDir` | a write below a file makes the file a directory too (`overlayfs.rs:344`: "that's a file") |

Also, seen while modelling: `https_request` takes its timestamps from POLL_TICKS while everything
else uses NET_TICKS, so time jumps for smoltcp at each call, although each counter by itself
is monotonic (`TimeMovesForward`); `mod.rs:27` speaks of one counter "incremented on every smoltcp poll call".

## 6. Not modelled

* The seccomp policy and the user, UTS and IPC namespaces: constants set at creation and pure
  lookups in them, without a caller. The firewall answers of `VSwitch` are constants too.
* `ContainerStore::remove` and `running_count`, and the image store's lookups: no caller outside the
  tests. (A command that did remove records would break `PsNumberIsId`: that is its mutant.)
* Commands that only print, `ls` with `OverlayMount::list` among them, and the words that `parse` hands to them.
* Editing of lines at the shell prompt, which is `read_line` again, and keys that send three bytes or more.
* SHA-256, JSON and DEFLATE: opaque, with the one property that a cut or another document is told
  apart. Number parsing in `http.rs`, `shell.rs` and `config.rs` is a table of values.
* `gdt.rs`; PCI probing, feature negotiation and the UART, FIFO overrun included: port I/O that only the
  hardware's side would make interesting.
* The host-side runner, Makefile and installer.
* smoltcp, the virtio device, the remote peers, the registry server, a container's processes and the
  page-table mapper are external: modelled from how this code uses them.

## 7. Plan

In this order; done unless marked open.

1. Memory and cursors: `IpPool` with `AddressPool` and proofs; `Scheduler` with proofs;
   `BuddyAllocator` with `FramePool` and the refinement proof; `BootMemory` with proofs.
2. The concurrent core: `KernelLocks` with all its handlers, `HttpListener`, `VirtioNet` with
   `FrameQueue`, `HttpsRequest`.
3. The operator's view: `ContainerRuntime` over `Console` and `ShellCommand`, `RootFs` with `FlatFs`
   and the refinement proof, `ConfigParser`.
4. The pull pipeline: `ImagePull` over `HttpsRequest`, `HttpResponse` and `LayerEnvelope`, with
   `ContentStore`. Containers that are declared and then limited: `DeclaredContainers`.
5. Proofs over these: `KernelLocks`, `VirtioNet`, `ContainerRuntime`, `ImagePull`, `RootFs`,
   `HttpListener`, `Isolation`, `BuddyAllocator`, `ConfigParser`, `DeclaredContainers`. Liveness is out of the prover's reach.
6. Open, model, if the kernel grows callers for them: `HttpListener` over the lock steps of
   `KernelLocks`, the store of what was pulled, containers' processes.
