----------------------------- MODULE VirtioNet -----------------------------
(***************************************************************************)
(* net/virtio_net.rs: the driver's side of the receive and the transmit    *)
(* virtqueue, with the device as the external other side.  Ring indices    *)
(* are 16 bits wide and wrap; slots are indices modulo the queue size.     *)
(* The driver runs under NETWORK's lock; the device runs at any time.      *)
(***************************************************************************)
EXTENDS Integers, Sequences

CONSTANTS QueueSize,    \* QUEUE_SIZE
          Rounds,       \* times the ring fits into 2^16
          Frames,       \* contents of a frame
          MaxQueued     \* bound on frames transmitted and not yet sent

ASSUME VirtioAssumption ==
    /\ QueueSize \in Nat \ {0} /\ Rounds \in Nat \ {0, 1}
    /\ Frames \subseteq Nat \ {0}
    /\ MaxQueued \in Nat

IndexMod == Rounds * QueueSize    \* 2^16
Slots == 0 .. (QueueSize - 1)
Index == 0 .. (IndexMod - 1)

VARIABLES avail_idx, avail_ring,   \* rx_queue, written by the driver
          used_idx, used_ring,     \* rx_queue, written by the device
          rx_bufs,                 \* contents of each receive buffer, 0 when fresh
          rx_last_used,            \* the driver's place in the used ring
          dev_avail,               \* the device's place in the available ring
          packet                   \* the frame of the latest RxToken
VARIABLES tx_avail_idx, tx_buf,    \* tx_queue and the one transmit buffer
          tx_desc,                 \* the frame descriptor 0 gives the length of
          tx_step,                 \* how far TxToken::consume is with ...
          tx_frame,                \* ... the frame smoltcp is sending
          tx_taken,                \* the device's place in the transmit ring
          queued                   \* frames transmitted, not yet sent (history)

rxVars == <<avail_idx, avail_ring, used_idx, used_ring, rx_bufs, rx_last_used,
            dev_avail, packet>>
txVars == <<tx_avail_idx, tx_buf, tx_desc, tx_step, tx_frame, tx_taken, queued>>
vars == <<rxVars, txVars>>

Succ(i) == (i + 1) % IndexMod                    \* wrapping_add(1)
Ahead(from, to) == (to - from) % IndexMod        \* entries between two indices
Slot(i, k) == ((i + k) % IndexMod) % QueueSize   \* slot of the k-th entry after i

\* VirtioNet::init: every receive descriptor is offered to the device.
Init ==
    /\ avail_idx = QueueSize % IndexMod
    /\ avail_ring = [s \in Slots |-> s]
    /\ used_idx = 0 /\ used_ring = [s \in Slots |-> 0]
    /\ rx_bufs = [s \in Slots |-> 0]
    /\ rx_last_used = 0 /\ dev_avail = 0 /\ packet = 0
    /\ tx_avail_idx = 0 /\ tx_buf = 0 /\ tx_desc = 0 /\ tx_taken = 0
    /\ tx_step = "idle" /\ tx_frame = 0 /\ queued = <<>>
-----------------------------------------------------------------------------
\* The device fills the next offered buffer and returns its descriptor; with
\* no buffer offered the frame is dropped before it reaches the ring.
DeviceReceive(f) ==
    /\ dev_avail # avail_idx
    /\ LET d == avail_ring[dev_avail % QueueSize]
       IN  /\ rx_bufs' = [rx_bufs EXCEPT ![d] = f]
           /\ used_ring' = [used_ring EXCEPT ![used_idx % QueueSize] = d]
    /\ used_idx' = Succ(used_idx)
    /\ dev_avail' = Succ(dev_avail)
    /\ UNCHANGED <<avail_idx, avail_ring, rx_last_used, packet, txVars>>

\* A device that returns a descriptor under an id that does not exist.
DeviceBogus ==
    /\ dev_avail # avail_idx
    /\ used_ring' = [used_ring EXCEPT ![used_idx % QueueSize] = QueueSize]
    /\ used_idx' = Succ(used_idx)
    /\ dev_avail' = Succ(dev_avail)
    /\ UNCHANGED <<avail_idx, avail_ring, rx_bufs, rx_last_used, packet, txVars>>

UsedElem == used_ring[rx_last_used % QueueSize]

\* Seeded forms: the recycled descriptor goes to the slot of the used ring's
\* index; it is offered twice.
Recycle_UsedSlot(d) ==
    /\ avail_ring' = [avail_ring EXCEPT ![Succ(rx_last_used) % QueueSize] = d]
    /\ avail_idx' = Succ(avail_idx)
Recycle_Twice(d) ==
    /\ avail_ring' = [avail_ring EXCEPT ![avail_idx % QueueSize] = d,
                                        ![Succ(avail_idx) % QueueSize] = d]
    /\ avail_idx' = Succ(Succ(avail_idx))

\* The descriptor is offered to the device again.
Recycle(d) ==
    /\ avail_ring' = [avail_ring EXCEPT ![avail_idx % QueueSize] = d]
    /\ avail_idx' = Succ(avail_idx)

\* Device::receive: nothing new in the used ring.
\* (`rx_last_used == used_idx` returns None and changes nothing.)
HasUsed == rx_last_used # used_idx

\* Device::receive: the payload is copied out, the descriptor recycled.
Receive ==
    /\ tx_step = "idle" /\ HasUsed /\ UsedElem < QueueSize
    /\ rx_last_used' = Succ(rx_last_used)
    /\ packet' = rx_bufs[UsedElem]
    /\ Recycle(UsedElem)
    /\ UNCHANGED <<used_idx, used_ring, rx_bufs, dev_avail, txVars>>

\* Device::receive: an id outside the ring is skipped and not recycled.
ReceiveBogus ==
    /\ tx_step = "idle" /\ HasUsed /\ UsedElem >= QueueSize
    /\ rx_last_used' = Succ(rx_last_used)
    /\ UNCHANGED <<avail_idx, avail_ring, used_idx, used_ring, rx_bufs, dev_avail,
                   packet, txVars>>
-----------------------------------------------------------------------------
\* TxToken::consume: smoltcp writes its frame into the one buffer; nothing
\* looks at what the device has taken, and the device runs between the steps.
WriteFrame(f) ==
    /\ tx_step = "idle" /\ Len(queued) < MaxQueued
    /\ tx_step' = "written" /\ tx_frame' = f /\ tx_buf' = f
    /\ UNCHANGED <<tx_avail_idx, tx_desc, tx_taken, queued, rxVars>>

\* Seeded form: the descriptor is filled once, at the first frame.
Describe_Once ==
    /\ tx_step = "written"
    /\ tx_step' = "described" /\ tx_desc' = IF tx_desc = 0 THEN tx_frame ELSE tx_desc
    /\ UNCHANGED <<tx_avail_idx, tx_buf, tx_frame, tx_taken, queued, rxVars>>

\* The descriptor is filled with the length of this frame.
Describe ==
    /\ tx_step = "written"
    /\ tx_step' = "described" /\ tx_desc' = tx_frame
    /\ UNCHANGED <<tx_avail_idx, tx_buf, tx_frame, tx_taken, queued, rxVars>>

\* Descriptor 0 is added to the ring and the device notified.
Publish ==
    /\ tx_step = "described"
    /\ tx_step' = "idle" /\ tx_avail_idx' = Succ(tx_avail_idx)
    /\ queued' = Append(queued, tx_frame)
    /\ UNCHANGED <<tx_buf, tx_desc, tx_frame, tx_taken, rxVars>>

\* The device takes the next descriptor, 0, and sends the buffer it names.
DeviceTransmit ==
    /\ tx_taken # tx_avail_idx
    /\ tx_taken' = Succ(tx_taken)
    /\ queued' = Tail(queued)
    /\ UNCHANGED <<tx_avail_idx, tx_buf, tx_desc, tx_step, tx_frame, rxVars>>

Next ==
    \/ \E f \in Frames : DeviceReceive(f)
    \/ DeviceBogus \/ Receive \/ ReceiveBogus
    \/ \E f \in Frames : WriteFrame(f)
    \/ Describe \/ Publish \/ DeviceTransmit

Spec == Init /\ [][Next]_vars
-----------------------------------------------------------------------------
TypeOK ==
    /\ avail_idx \in Index /\ used_idx \in Index /\ rx_last_used \in Index
    /\ dev_avail \in Index
    /\ avail_ring \in [Slots -> Slots]
    /\ used_ring \in [Slots -> 0 .. QueueSize]
    /\ rx_bufs \in [Slots -> Frames \cup {0}] /\ packet \in Frames \cup {0}
    /\ tx_avail_idx \in Index /\ tx_taken \in Index
    /\ {tx_buf, tx_desc, tx_frame} \subseteq Frames \cup {0} /\ queued \in Seq(Frames)
    /\ tx_step \in {"idle", "written", "described"}

\* Descriptors offered to the device, and returned by it, oldest first.
Offered == [k \in 1 .. Ahead(dev_avail, avail_idx) |-> avail_ring[Slot(dev_avail, k - 1)]]
Returned == [k \in 1 .. Ahead(rx_last_used, used_idx) |-> used_ring[Slot(rx_last_used, k - 1)]]

\* The frames in the buffers of returned descriptors, oldest first; an id
\* outside the ring holds none.
FrameStep(ids, bufs, before, k) ==
    IF k = 0 THEN <<>>
    ELSE IF ids[k] \in Slots THEN Append(before[k - 1], bufs[ids[k]])
    ELSE before[k - 1]
FramesIn(ids, bufs) ==
    LET before[k \in 0 .. Len(ids)] == FrameStep(ids, bufs, before, k)
    IN  before[Len(ids)]

\* However the indices wrap, a receive buffer is never with the device and the
\* driver at once, nor offered twice; ids outside the ring only lose buffers
\* (virtio_net.rs:346-370).
BufferOwnedOnce ==
    LET all == Offered \o Returned
        ids == {k \in DOMAIN all : all[k] \in Slots}
    IN  /\ Len(all) <= QueueSize
        /\ \A j, k \in ids : all[j] = all[k] => j = k

\* The receive ring is a bounded queue: each frame the device accepted reaches
\* smoltcp once, unaltered and in order, whatever ids outside the ring it also
\* returns (virtio_net.rs:345-373).
Rx == INSTANCE FrameQueue
      WITH Capacity <- QueueSize, out <- packet,
           queue <- FramesIn(Returned, rx_bufs)
RxIsQueue == Rx!Spec

\* The frames a descriptor under way may stand for, the device being late:
\* its own and those smoltcp wrote after it.
NoOlderThan(k) ==
    {queued[j] : j \in k .. Len(queued)} \cup (IF tx_step = "idle" THEN {} ELSE {tx_frame})

\* Whenever the device takes a descriptor, buffer and length are those of the
\* frame it was published for or, once that is overwritten, of a later one;
\* never of a frame before it.  Between two frames they agree
\* (virtio_net.rs:316-335).
NoOldFrameSent ==
    /\ \A k \in DOMAIN queued : {tx_buf, tx_desc} \subseteq NoOlderThan(k)
    /\ tx_step = "idle" => tx_buf = tx_desc

\* Each frame leaves as it was written, whenever the device takes it.
EveryFrameIntact == tx_step = "idle" => \A k \in DOMAIN queued : queued[k] = tx_buf
=============================================================================
