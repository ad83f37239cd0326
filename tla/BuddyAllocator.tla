--------------------------- MODULE BuddyAllocator ---------------------------
(***************************************************************************)
(* memory/buddy.rs: free blocks of 2^o frames, one list per order o.  The  *)
(* order of blocks within a list is abstracted: a list is a set and        *)
(* allocate() may take any of its blocks.  Callers give back what they     *)
(* got, once, with the count they asked for.                               *)
(***************************************************************************)
EXTENDS Integers, FiniteSets, Sequences

CONSTANTS MaxOrder,     \* MAX_ORDER, the number of lists
          FrameLists,   \* what new_from_frames may be given: frames, in order
          Counts,       \* the sizes callers ask for
          None

ASSUME BuddyAssumption ==
    /\ MaxOrder \in Nat \ {0}
    /\ FrameLists \subseteq Seq(Nat) /\ Counts \subseteq Nat
    /\ \A list \in FrameLists : \A i, j \in DOMAIN list : list[i] = list[j] => i = j

Orders == 0 .. (MaxOrder - 1)
AllFrames == UNION {{list[k] : k \in DOMAIN list} : list \in FrameLists}

VARIABLES pending,      \* frames new_from_frames has still to add
          free_lists,   \* the free lists
          held,         \* blocks callers hold: first frame and count
          panicked,     \* an index was out of bounds
          answer        \* order of the latest allocate(), and its answer

buddyVars == <<pending, free_lists, held, panicked, answer>>

BuddyInit ==
    /\ pending \in FrameLists
    /\ free_lists = [o \in Orders |-> {}]
    /\ held = {} /\ panicked = FALSE /\ answer = <<0, None>>

\* 1 << o
Pow2[o \in Nat] == IF o = 0 THEN 1 ELSE 2 * Pow2[o - 1]

\* count.next_power_of_two().trailing_zeros()
OrderOf(count) ==
    CHOOSE o \in 0 .. count : Pow2[o] >= count /\ \A p \in 0 .. count : Pow2[p] >= count => o <= p

\* Seeded form: the buddy is the next block instead of the other half.
Buddy_Add(f, o) == f + Pow2[o]

\* frame ^ (1 << o), and the lower of the two buddies of order o.
Buddy(f, o) == IF (f \div Pow2[o]) % 2 = 0 THEN f + Pow2[o] ELSE f - Pow2[o]
BlockAt(f, o) == f - (f % Pow2[o])

\* Seeded form: the merge loop also stops where the buddy is the lower one.
MergedOrder_UpOnly(f, o) ==
    CHOOSE n \in o .. MaxOrder :
        /\ n = MaxOrder \/ Buddy(BlockAt(f, n), n) \notin free_lists[n]
                        \/ Buddy(BlockAt(f, n), n) < BlockAt(f, n)
        /\ \A k \in o .. (n - 1) : /\ Buddy(BlockAt(f, k), k) \in free_lists[k]
                                   /\ Buddy(BlockAt(f, k), k) > BlockAt(f, k)

\* The order at which the merge loop of free() ends: the first one whose buddy
\* is not free, MAX_ORDER if there is none.
MergedOrder(f, o) ==
    CHOOSE n \in o .. MaxOrder :
        /\ n = MaxOrder \/ Buddy(BlockAt(f, n), n) \notin free_lists[n]
        /\ \A k \in o .. (n - 1) : Buddy(BlockAt(f, k), k) \in free_lists[k]

\* Seeded form: the bound excludes the last list too.
Overflows_AtLast(f, count) == MergedOrder(f, OrderOf(count)) >= MaxOrder - 1

\* The list reached does not exist: MAX_ORDER is the number of lists.
Overflows(f, count) == MergedOrder(f, OrderOf(count)) = MaxOrder

\* free(): merge as far as buddies are free, then push to the list reached.
free(f, count) ==
    LET o == OrderOf(count)
        n == MergedOrder(f, o)
    IN  /\ ~Overflows(f, count)
        /\ free_lists' = [k \in Orders |->
                IF k \in o .. (n - 1) THEN free_lists[k] \ {Buddy(BlockAt(f, k), k)}
                ELSE IF k = n THEN free_lists[k] \cup {BlockAt(f, n)}
                ELSE free_lists[k]]

\* new_from_frames: one frame of the iterator.
AddFrame ==
    /\ ~panicked /\ pending # <<>>
    /\ pending' = Tail(pending)
    /\ free(Head(pending), 1)
    /\ UNCHANGED <<held, panicked, answer>>

\* Seeded form: the halves of a split block are not put back.
Split_LoseOne(f, order, o) ==
    free_lists' = [k \in Orders |->
        IF k = o THEN free_lists[k] \ {f}
        ELSE IF k \in (order + 1) .. (o - 1) THEN free_lists[k] \cup {f + Pow2[k]}
        ELSE free_lists[k]]

\* Take block f of order o, and put back one buddy of each order below it.
Split(f, order, o) ==
    free_lists' = [k \in Orders |->
        IF k = o THEN free_lists[k] \ {f}
        ELSE IF k \in order .. (o - 1) THEN free_lists[k] \cup {f + Pow2[k]}
        ELSE free_lists[k]]

\* allocate(): the lowest list, from the order asked for, that has a block.
AllocateSome(count) ==
    /\ ~panicked /\ pending = <<>>
    /\ \E o \in OrderOf(count) .. (MaxOrder - 1) :
          /\ \A k \in OrderOf(count) .. (o - 1) : free_lists[k] = {}
          /\ \E f \in free_lists[o] :
                /\ Split(f, OrderOf(count), o)
                /\ held' = held \cup {[frame |-> f, count |-> count]}
                /\ answer' = <<OrderOf(count), f>>
    /\ UNCHANGED <<pending, panicked>>

AllocateNone(count) ==
    /\ ~panicked /\ pending = <<>>
    /\ \A o \in OrderOf(count) .. (MaxOrder - 1) : free_lists[o] = {}
    /\ answer' = <<OrderOf(count), None>>
    /\ UNCHANGED <<pending, free_lists, held, panicked>>

\* A caller gives a block back.
Free(block) ==
    /\ ~panicked /\ pending = <<>>
    /\ free(block.frame, block.count)
    /\ held' = held \ {block}
    /\ UNCHANGED <<pending, panicked, answer>>

\* The index of free() is out of bounds, for a frame of the iterator or for a
\* block given back.  The kernel halts: nobody reads the lists any more.
Panic ==
    /\ ~panicked /\ panicked' = TRUE
    /\ IF pending # <<>> THEN Overflows(Head(pending), 1)
                         ELSE \E block \in held : Overflows(block.frame, block.count)
    /\ UNCHANGED <<pending, free_lists, held, answer>>

BuddyNext ==
    \/ AddFrame \/ Panic
    \/ \E count \in Counts : AllocateSome(count) \/ AllocateNone(count)
    \/ \E block \in held : Free(block)

BuddySpec == BuddyInit /\ [][BuddyNext]_buddyVars
-----------------------------------------------------------------------------
Block(f, o) == f .. (f + Pow2[o] - 1)
FreeFrames == UNION {UNION {Block(f, o) : f \in free_lists[o]} : o \in Orders}
PendingFrames == {pending[k] : k \in DOMAIN pending}

BuddyTypeOK ==
    /\ pending \in Seq(AllFrames) /\ panicked \in BOOLEAN
    /\ free_lists \in [Orders -> SUBSET AllFrames]
    /\ held \subseteq [frame : AllFrames, count : Counts]
    /\ answer \in (0 .. MaxOrder) \X (AllFrames \cup {None})

\* Free blocks are aligned to their size, and two buddies are never both free:
\* they would have been merged (buddy.rs:46-58).
FullyMerged ==
    \A o \in Orders : \A f \in free_lists[o] :
        f % Pow2[o] = 0 /\ Buddy(f, o) \notin free_lists[o]

\* The allocator implements the pool of aligned blocks: whatever is split and
\* merged no frame is lost or held twice, and a request is refused only when no
\* aligned free block of its size is left (buddy.rs:26-60).
Pool == INSTANCE FramePool
        WITH Frames <- AllFrames, Orders <- {OrderOf(c) : c \in Counts}, Size <- Pow2,
             fresh <- PendingFrames, avail <- FreeFrames,
             held <- {<<h.frame, OrderOf(h.count)>> : h \in held}
PoolSpec == Pool!Spec

\* An aligned block of 2^MAX_ORDER frames.
Whole(S) == \E f \in AllFrames : f % Pow2[MaxOrder] = 0 /\ Block(f, MaxOrder) \subseteq S

\* free() panics at the frame that completes a block of 2^MAX_ORDER, always, in
\* whichever order the frames come.  That is while the allocator is built; once
\* it is, no sequence of requests makes it panic (buddy.rs:14-24, 46-59).
PanicsWhileBuilt ==
    /\ ~Whole(FreeFrames)
    /\ panicked => pending # <<>> /\ Whole(FreeFrames \cup {Head(pending)})

\* MAX_ORDER is said to be the order of the largest block: freeing its two
\* halves makes that block.
NeverPanics == ~panicked
=============================================================================
