------------------------------ MODULE LidarQueue ------------------------------
(***************************************************************************)
(* The lock-free ring of comm/ldq.{h,cpp}: one thread pushes (PubHandler's *)
(* RawDataProcess, through Lds::PushLidarData) and one pops (the           *)
(* PointCloudDataPollThread, through the publish functions of Lddc).       *)
(*                                                                         *)
(* rd_idx and wr_idx are uint32_t: they wrap at IdxMod and are reduced to  *)
(* a slot by a mask, that is modulo the power-of-two queue size.           *)
(*                                                                         *)
(* Both operations touch shared memory twice, a slot and an index.         *)
(* The indices are volatile but the code has no fence, so whether the two  *)
(* accesses of one operation take effect in program order is up to the     *)
(* build and the processor.  Reorder = FALSE is a build that keeps them    *)
(* in order, Reorder = TRUE one that may not.                              *)
(***************************************************************************)
EXTENDS Integers, Sequences

CONSTANTS
  Frames,      (* PointPacket contents                                *)
  QueueSize,   (* LidarDataQueue::size, that is mask + 1              *)
  IdxMod,      (* 2^32 in the code: where rd_idx and wr_idx wrap      *)
  NoFrame,     (* content of a slot or a variable never written       *)
  Reorder      (* may the two accesses of one operation be reordered? *)

ASSUME SizeAssumption ==
  /\ QueueSize \in Nat \ {0}
  /\ IdxMod \in Nat
  /\ IdxMod > QueueSize
  /\ IdxMod % QueueSize = 0
ASSUME FrameAssumption == NoFrame \notin Frames
ASSUME ReorderAssumption == Reorder \in BOOLEAN

VARIABLES
  storage_packet,   (* the slots                                           *)
  rd_idx, wr_idx,
  pushTodo,         (* accesses left of the push in progress, {} if none   *)
  pushSlot, packet, (* its masked index and the frame it stores            *)
  popTodo,          (* accesses left of the pop in progress, {} if none    *)
  popSlot, pkg,     (* its masked index and the consumer's StoragePacket   *)
  delivered,        (* the frame of the last completed QueuePop            *)
  refused           (* the frame last dropped because the queue was full   *)

producerVars == <<wr_idx, storage_packet, pushTodo, pushSlot, packet, refused>>
consumerVars == <<rd_idx, popTodo, popSlot, pkg, delivered>>
vars == <<producerVars, consumerVars>>

Slots == 0 .. QueueSize - 1
Indices == 0 .. IdxMod - 1
FrameOrNone == Frames \cup {NoFrame}

(* uint32_t arithmetic on the two indices *)
Incr(idx) == IF idx = IdxMod - 1 THEN 0 ELSE idx + 1
Used(rd, wr) == IF wr >= rd THEN wr - rd ELSE wr - rd + IdxMod
QueueUsedSize == Used(rd_idx, wr_idx)
(* Mutant: size where the code compares with mask. *)
QueueIsFull_offByOne == QueueUsedSize > QueueSize
QueueIsFull == QueueUsedSize > QueueSize - 1
QueueIsEmpty == rd_idx = wr_idx
Slot(idx) == idx % QueueSize

Init ==
  /\ storage_packet = [s \in Slots |-> NoFrame]
  /\ rd_idx = 0 /\ wr_idx = 0
  /\ pushTodo = {} /\ pushSlot = 0 /\ packet = NoFrame
  /\ popTodo = {} /\ popSlot = 0 /\ pkg = NoFrame
  /\ delivered = NoFrame /\ refused = NoFrame

(* PushLidarData finds room and enters QueuePushAny. *)
PushBegin(f) ==
  /\ pushTodo = {}
  /\ ~QueueIsFull
  /\ pushTodo' = {"slot", "idx"}
  /\ pushSlot' = Slot(wr_idx)
  /\ packet' = f
  /\ UNCHANGED <<storage_packet, wr_idx, refused, consumerVars>>

(* PushLidarData finds the queue full and drops the new frame. *)
PushRefused(f) ==
  /\ pushTodo = {}
  /\ QueueIsFull
  /\ refused' = f
  /\ UNCHANGED <<storage_packet, wr_idx, pushTodo, pushSlot, packet, consumerVars>>

(* QueuePushAny writes base_time, points_num and points of the slot ... *)
PushStore ==
  /\ "slot" \in pushTodo
  /\ storage_packet' = [storage_packet EXCEPT ![pushSlot] = packet]
  /\ pushTodo' = pushTodo \ {"slot"}
  /\ UNCHANGED <<wr_idx, pushSlot, packet, refused, consumerVars>>

(* Mutant: wr_idx is advanced before the slot is written. *)
PushPublish_first ==
  /\ "idx" \in pushTodo
  /\ wr_idx' = Incr(wr_idx)
  /\ pushTodo' = pushTodo \ {"idx"}
  /\ UNCHANGED <<storage_packet, pushSlot, packet, refused, consumerVars>>

(* ... and then advances wr_idx, which is what the consumer looks at. *)
PushPublish ==
  /\ "idx" \in pushTodo
  /\ "slot" \in pushTodo => Reorder
  /\ wr_idx' = Incr(wr_idx)
  /\ pushTodo' = pushTodo \ {"idx"}
  /\ UNCHANGED <<storage_packet, pushSlot, packet, refused, consumerVars>>

(* The test for emptiness.  Only the consumer shortens the queue, so the   *)
(* tests of both while loops and of QueuePrePop agree.                     *)
PopBegin ==
  /\ popTodo = {}
  /\ ~QueueIsEmpty
  /\ popTodo' = {"slot", "idx"}
  /\ popSlot' = Slot(rd_idx)
  /\ UNCHANGED <<rd_idx, pkg, delivered, producerVars>>

(* QueuePop returns, pkg in hand, once both of its accesses are done. *)
PopReturns(done) ==
  delivered' = IF popTodo = {done} THEN pkg' ELSE delivered

QueuePrePop ==
  /\ "slot" \in popTodo
  /\ pkg' = storage_packet[popSlot]
  /\ popTodo' = popTodo \ {"slot"}
  /\ PopReturns("slot")
  /\ UNCHANGED <<rd_idx, popSlot, producerVars>>

QueuePopUpdate ==
  /\ "idx" \in popTodo
  /\ "slot" \in popTodo => Reorder
  /\ rd_idx' = Incr(rd_idx)
  /\ popTodo' = popTodo \ {"idx"}
  /\ pkg' = pkg
  /\ PopReturns("idx")
  /\ UNCHANGED <<popSlot, producerVars>>

Producer ==
  \/ \E f \in Frames : PushBegin(f) \/ PushRefused(f)
  \/ PushStore
  \/ PushPublish

Consumer == PopBegin \/ QueuePrePop \/ QueuePopUpdate

Next == Producer \/ Consumer

Spec == Init /\ [][Next]_vars

-------------------------------------------------------------------------------
TypeOK ==
  /\ storage_packet \in [Slots -> FrameOrNone]
  /\ rd_idx \in Indices /\ wr_idx \in Indices
  /\ pushTodo \in SUBSET {"slot", "idx"} /\ pushSlot \in Slots
  /\ popTodo \in SUBSET {"slot", "idx"} /\ popSlot \in Slots
  /\ packet \in FrameOrNone /\ pkg \in FrameOrNone
  /\ delivered \in FrameOrNone /\ refused \in FrameOrNone

(* The unsigned difference of the two indices stays between what the       *)
(* accesses under way need and the queue size, across every wrap of either *)
(* index and in any order of the accesses.  A producer that overran the    *)
(* consumer would make QueueIsFull false again and lose a lap of frames; a *)
(* consumer that overtook the producer would replay one.                   *)
IndicesInStep ==
  /\ QueueUsedSize + (IF "idx" \in pushTodo THEN 1 ELSE 0) <= QueueSize
  /\ (IF "idx" \in popTodo THEN 1 ELSE 0) <= QueueUsedSize

(* The two threads never access the same slot at the same time, so the     *)
(* copies of QueuePushAny and of QueuePrePop cannot tear a frame.          *)
SlotExclusive ==
  "slot" \in pushTodo /\ "slot" \in popTodo => pushSlot # popSlot

(* The unread frames, oldest first: what the ring stands for. *)
Contents ==
  [i \in 1 .. QueueUsedSize |-> storage_packet[Slot(rd_idx + i - 1)]]

(* The ring implements the bounded queue PushLidarData relies on: frames   *)
(* leave in the order they came, none is lost but by a full queue, none    *)
(* is delivered twice or half-written.                                     *)
Fifo == INSTANCE BoundedFifo WITH queue <- Contents, Capacity <- QueueSize
RefinesFifo == Fifo!Spec

-------------------------------------------------------------------------------
(* The inductive invariants behind these properties. *)

(* The masked index a thread computed on entry still is the current one. *)
SlotsCurrent ==
  /\ "idx" \in pushTodo => pushSlot = Slot(wr_idx)
  /\ "idx" \in popTodo => popSlot = Slot(rd_idx)

IndexInv == TypeOK /\ IndicesInStep /\ SlotsCurrent

(* What holds when the accesses of an operation stay in program order. *)
InOrder ==
  /\ "slot" \in pushTodo => "idx" \in pushTodo
  /\ "slot" \in popTodo => "idx" \in popTodo

(* Every unread slot, and the one a push has just stored, holds a frame,   *)
(* and a pop has copied the oldest.                                        *)
SlotsFilled ==
  /\ \A i \in 0 .. QueueSize - 1 :
       i < QueueUsedSize => storage_packet[Slot(rd_idx + i)] \in Frames
  /\ pushTodo # {} => packet \in Frames
  /\ pushTodo = {"idx"} => storage_packet[pushSlot] = packet
  /\ popTodo = {"idx"} => pkg = storage_packet[popSlot]

DataInv == IndexInv /\ InOrder /\ SlotsFilled
===============================================================================
