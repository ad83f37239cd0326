----------------------------- MODULE BootMemory -----------------------------
(***************************************************************************)
(* Memory at boot (memory/mod.rs, memory/heap.rs): BootInfoFrameAllocator  *)
(* walks the bootloader's memory map, and heap::init takes from it a frame *)
(* for every heap page and, through map_to, for every page table that is   *)
(* missing on the way.  The bootloader has mapped all of physical memory   *)
(* at PhysOffset (main.rs, BOOT_CONFIG).                                   *)
(*                                                                         *)
(* Addresses count pages.  A region of the map is [usable, start, end].    *)
(* Whoever gets a frame is named <<level, index>>: a heap page at level 0, *)
(* a page table at the levels above.                                       *)
(***************************************************************************)
EXTENDS Integers, Sequences, SequencesExt, FiniteSetsExt

CONSTANTS Maps,        \* memory maps a bootloader may hand over
          HeapStart,   \* HEAP_START, in pages
          HeapPages,   \* HEAP_SIZE, in pages
          Fan,         \* entries of a page table (512)
          Levels,      \* levels of tables that map_to may create (3)
          PhysOffset,  \* where physical memory is mapped
          PfnSpace     \* 2^32: the queue address register holds 32 bits

Region == [usable : BOOLEAN, start : Nat, end : Nat]

ASSUME BootAssumption ==
    /\ HeapStart \in Nat /\ HeapPages \in Nat \ {0} /\ Levels \in Nat
    /\ Fan \in Nat \ {0, 1} /\ PhysOffset \in Nat /\ PfnSpace \in Nat \ {0}
    /\ Maps \subseteq Seq(Region)
    /\ \A m \in Maps : \A i \in DOMAIN m :
          m[i].start <= m[i].end /\ \A j \in 1..(i - 1) : m[j].end <= m[i].start

VARIABLES memory_regions,  \* the memory map
          region_idx,      \* the region searched, by its place in the map
          frame_offset,    \* frames of that region already handed out
          given,           \* user of a frame |-> frame
          phase            \* "heap", "ready" or "panic"

vars == <<memory_regions, region_idx, frame_offset, given, phase>>

Init ==
    /\ memory_regions \in Maps
    /\ region_idx = 1 /\ frame_offset = 0
    /\ given = [u \in {} |-> 0] /\ phase = "heap"
-----------------------------------------------------------------------------
\* The offset from which region i is searched.
OffsetIn(i) == IF i = region_idx THEN frame_offset ELSE 0

\* Seeded forms: the offset is kept from region to region; the frame just past
\* a region counts as its own.
HasRoom_KeepOffset(i) ==
    /\ memory_regions[i].usable /\ i >= region_idx
    /\ frame_offset < memory_regions[i].end - memory_regions[i].start
HasRoom_Inclusive(i) ==
    /\ memory_regions[i].usable /\ i >= region_idx
    /\ OffsetIn(i) <= memory_regions[i].end - memory_regions[i].start

HasRoom(i) ==
    /\ memory_regions[i].usable /\ i >= region_idx
    /\ OffsetIn(i) < memory_regions[i].end - memory_regions[i].start

WithRoom == {i \in DOMAIN memory_regions : HasRoom(i)}

First(i) == i \in WithRoom /\ \A j \in WithRoom : i <= j

\* The frame that allocate_frame finds in region i.
FrameIn(i) == memory_regions[i].start + OffsetIn(i)

\* Seeded form: the offset is not advanced.
Advance_Stay(i) == region_idx' = i /\ frame_offset' = OffsetIn(i)

Advance(i) == region_idx' = i /\ frame_offset' = OffsetIn(i) + 1

\* allocate_frame, when every region is exhausted.
Exhausted ==
    /\ WithRoom = {}
    /\ region_idx' = Len(memory_regions) + 1 /\ frame_offset' = 0
-----------------------------------------------------------------------------
Pages == HeapStart..(HeapStart + HeapPages - 1)

\* What one heap page asks for: its own frame, then map_to's tables from the
\* top down.
Requests(page) ==
    <<<<0, page>>>> \o [k \in 1..Levels |-> <<Levels + 1 - k, page \div Fan ^ (Levels + 1 - k)>>]

Missing(u) == u \notin DOMAIN given
Waiting == \E p \in Pages : \E k \in 1..(Levels + 1) : Missing(Requests(p)[k])

\* The pages are mapped in order, and a table once created is found again.
NextUser(u) ==
    \E p \in Pages : \E k \in 1..(Levels + 1) :
        /\ u = Requests(p)[k] /\ Missing(u)
        /\ \A q \in Pages : \A j \in 1..(Levels + 1) :
              q < p \/ (q = p /\ j < k) => ~Missing(Requests(q)[j])
Users == UNION {Range(Requests(p)) : p \in Pages}

\* allocate_frame finds a frame in the first region with room.
Give == /\ phase = "heap"
        /\ \E u \in Users, i \in DOMAIN memory_regions :
              /\ NextUser(u) /\ First(i) /\ Advance(i)
              /\ given' = [v \in DOMAIN given \cup {u} |->
                              IF v = u THEN FrameIn(i) ELSE given[v]]
        /\ UNCHANGED <<memory_regions, phase>>

\* `expect("no physical frames for heap")` and the unwrap of map_to.
OutOfFrames == /\ phase = "heap" /\ Waiting
               /\ Exhausted
               /\ phase' = "panic"
               /\ UNCHANGED <<memory_regions, given>>

HeapReady == /\ phase = "heap" /\ ~Waiting
             /\ phase' = "ready"
             /\ UNCHANGED <<memory_regions, region_idx, frame_offset, given>>

Next == Give \/ OutOfFrames \/ HeapReady

Spec == Init /\ [][Next]_vars
-----------------------------------------------------------------------------
\* VirtioNet::init: the frame number the device is told for a queue that the
\* heap placed at page q.
QueuePfn(q) == (q - PhysOffset) % PfnSpace
-----------------------------------------------------------------------------
FramesOf(r) == r.start..(r.end - 1)
UsableFrames == UNION {FramesOf(memory_regions[i]) :
                          i \in {i \in DOMAIN memory_regions : memory_regions[i].usable}}

\* Every frame handed out is usable memory by the bootloader's map.
TypeOK ==
    /\ region_idx \in 1..(Len(memory_regions) + 1) /\ frame_offset \in Nat
    /\ phase \in {"heap", "ready", "panic"}
    /\ \A u \in DOMAIN given : given[u] \in UsableFrames

\* No frame has two users: heap pages and page tables, all from one allocator
\* that is called again from inside map_to.
FramesDistinct == \A u, v \in DOMAIN given : given[u] = given[v] => u = v

\* The boot gives up for want of frames only when it has used every usable one.
PanicsOnlyWhenExhausted ==
    phase = "panic" => \A f \in UsableFrames : \E u \in DOMAIN given : given[u] = f

\* virtio_net.rs: "convert virtual queue addresses to physical for DMA": the
\* device finds a queue of two pages in the two frames behind them.
DmaReachesQueue ==
    phase = "ready" =>
        \A q \in Pages \ {HeapStart + HeapPages - 1} :
            QueuePfn(q) = given[<<0, q>>] /\ QueuePfn(q) + 1 = given[<<0, q + 1>>]
=============================================================================
