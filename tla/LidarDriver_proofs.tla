-------------------------- MODULE LidarDriver_proofs --------------------------
(***************************************************************************)
(* Proofs about the way of a frame to its publisher: the ring of           *)
(* comm/ldq.cpp, for every queue size, every index width that is a         *)
(* multiple of it and every set of frames; then the wake-ups of the poll   *)
(* thread, for every number of lidars and every queue size.                *)
(***************************************************************************)
EXTENDS MC_LidarDriver, SequenceTheorems, TLAPS

-------------------------------------------------------------------------------
(* Remainders.  The provers know quotient and remainder; what they need    *)
(* help with is that a remainder is unique.                                *)

(* A number is its quotient times the divisor, plus its remainder. *)
LEMMA DivMod ==
  ASSUME NEW n \in Nat \ {0}, NEW a \in Nat
  PROVE  /\ a = n * (a \div n) + (a % n)
         /\ a % n \in 0 .. n - 1
         /\ a \div n \in Nat
  BY SMT

(* A multiple of n that lies strictly between -n and n is 0. *)
LEMMA SmallMultiple ==
  ASSUME NEW n \in Nat \ {0}, NEW k \in Int, n * k < n, n * k > -n
  PROVE  k = 0
<1>1. CASE k >= 1
  <2>1. n * k >= n  BY <1>1, SMT
  <2>2. QED  BY <2>1
<1>2. CASE k <= -1
  <2>1. n * k <= -n  BY <1>2, SMT
  <2>2. QED  BY <2>1
<1>3. QED  BY <1>1, <1>2

(* Numbers less than n apart have different remainders: the slots of the   *)
(* unread frames, and the one being written, are all different.            *)
LEMMA ModDistinct ==
  ASSUME NEW n \in Nat \ {0}, NEW a \in Nat, NEW b \in Nat,
         a < b, b - a < n
  PROVE  a % n # b % n
<1> SUFFICES ASSUME a % n = b % n PROVE FALSE
  OBVIOUS
<1> DEFINE qa == a \div n
           qb == b \div n
<1>1. a = n * qa + (a % n) /\ qa \in Nat /\ a % n \in 0 .. n - 1  BY DivMod
<1>2. b = n * qb + (b % n) /\ qb \in Nat /\ b % n \in 0 .. n - 1  BY DivMod
<1> HIDE DEF qa, qb
<1>p. n * qa \in Int /\ n * qb \in Int  BY <1>1, <1>2, SMT
<1>3. b - a = n * qb - n * qa  BY <1>1, <1>2, <1>p
<1>4. n * qb - n * qa = n * (qb - qa)  BY <1>1, <1>2, SMT
<1>5. n * (qb - qa) < n /\ n * (qb - qa) > 0  BY <1>3, <1>4
<1>6. qb - qa = 0  BY <1>5, <1>1, <1>2, SmallMultiple
<1>7. QED  BY <1>5, <1>6

(* Adding a multiple of n does not change the remainder. *)
LEMMA ModShift ==
  ASSUME NEW n \in Nat \ {0}, NEW a \in Nat, NEW m \in Nat, m % n = 0
  PROVE  (a + m) % n = a % n
<1> DEFINE qa == a \div n
           qm == m \div n
           qs == (a + m) \div n
<1>1. a = n * qa + (a % n) /\ qa \in Nat /\ a % n \in 0 .. n - 1  BY DivMod
<1>2. m = n * qm /\ qm \in Nat
  <2>1. m = n * qm + (m % n) /\ qm \in Nat  BY DivMod
  <2>2. n * qm \in Nat  BY <2>1, SMT
  <2>3. QED  BY <2>1, <2>2
<1>3. /\ a + m = n * qs + ((a + m) % n) /\ qs \in Nat
      /\ (a + m) % n \in 0 .. n - 1
  <2>1. a + m \in Nat  OBVIOUS
  <2>2. QED  BY <2>1, DivMod
<1> HIDE DEF qa, qm, qs
<1>p. n * qa \in Int /\ n * qm \in Int /\ n * qs \in Int
  BY <1>1, <1>2, <1>3, SMT
<1>4. n * qs - n * qa - n * qm = (a % n) - ((a + m) % n)
  <2> DEFINE pa == n * qa
             pm == n * qm
             ps == n * qs
             ra == a % n
             rs == (a + m) % n
  <2>1. /\ pa \in Int /\ pm \in Int /\ ps \in Int /\ ra \in Int /\ rs \in Int
        /\ a = pa + ra /\ m = pm /\ a + m = ps + rs
    BY <1>1, <1>2, <1>3, <1>p
  <2> HIDE DEF pa, pm, ps, ra, rs
  <2>2. ps - pa - pm = ra - rs  BY <2>1
  <2>3. QED  BY <2>2 DEF pa, pm, ps, ra, rs
<1>5. n * qs - n * qa - n * qm = n * (qs - qa - qm)
  BY <1>1, <1>2, <1>3, SMT
<1>6. n * (qs - qa - qm) < n /\ n * (qs - qa - qm) > -n
  BY <1>1, <1>3, <1>4, <1>5
<1>7. qs - qa - qm = 0  BY <1>6, <1>1, <1>2, <1>3, SmallMultiple
<1>8. n * (qs - qa - qm) = 0  BY <1>7
<1>9. QED  BY <1>1, <1>3, <1>4, <1>5, <1>8

-------------------------------------------------------------------------------
(* The index arithmetic of the ring. *)

(* A slot is one of the queue's slots. *)
LEMMA SlotType ==
  ASSUME NEW a \in Nat
  PROVE  Slot(a) \in Slots
BY SizeAssumption, DivMod DEF Slot, Slots

(* An index and the same index one wrap later name the same slot. *)
LEMMA SlotWrap ==
  ASSUME NEW a \in Nat
  PROVE  Slot(a + IdxMod) = Slot(a)
BY SizeAssumption, ModShift DEF Slot

(* Incrementing an index stays an index and moves to the next slot. *)
LEMMA IncrFacts ==
  ASSUME NEW a \in Indices
  PROVE  Incr(a) \in Indices
BY SizeAssumption DEF Incr, Indices

(* The next slot, seen from an index that may just have wrapped. *)
LEMMA SlotIncr ==
  ASSUME NEW a \in Indices, NEW k \in Nat
  PROVE  Slot(Incr(a) + k) = Slot(a + k + 1)
<1>1. CASE a = IdxMod - 1
  <2>1. a + k + 1 = k + IdxMod  BY <1>1, SizeAssumption
  <2>2. QED  BY <1>1, <2>1, SlotWrap, SizeAssumption DEF Incr
<1>2. CASE a # IdxMod - 1
  <2>1. Incr(a) + k = a + k + 1  BY <1>2, SizeAssumption DEF Incr, Indices
  <2>2. QED  BY <2>1
<1>3. QED  BY <1>1, <1>2

(* Used is the distance from the read to the write index. *)
LEMMA UsedFacts ==
  ASSUME NEW rd \in Indices, NEW wr \in Indices
  PROVE  /\ Used(rd, wr) \in 0 .. IdxMod - 1
         /\ (Used(rd, wr) = 0) <=> (rd = wr)
         /\ Used(rd, wr) + 1 < IdxMod => Used(rd, Incr(wr)) = Used(rd, wr) + 1
         /\ Used(rd, wr) >= 1 => Used(Incr(rd), wr) = Used(rd, wr) - 1
BY SizeAssumption DEF Used, Incr, Indices

(* The slot the producer writes is the one Used places past the reader's. *)
LEMMA SlotOfWrite ==
  ASSUME NEW rd \in Indices, NEW wr \in Indices
  PROVE  Slot(wr) = Slot(rd + Used(rd, wr))
<1>1. CASE wr >= rd
  <2>1. rd + Used(rd, wr) = wr  BY <1>1, SizeAssumption DEF Used, Indices
  <2>2. QED  BY <2>1
<1>2. CASE wr < rd
  <2>1. rd + Used(rd, wr) = wr + IdxMod
    BY <1>2, SizeAssumption DEF Used, Indices
  <2>2. wr \in Nat  BY SizeAssumption DEF Indices
  <2>3. QED  BY <2>1, <2>2, SlotWrap
<1>3. QED  BY <1>1, <1>2, SizeAssumption DEF Indices

(* Two places less than a queue's length past the reader are two slots. *)
LEMMA SlotsDiffer ==
  ASSUME NEW rd \in Indices, NEW i \in Nat, NEW j \in Nat,
         i < j, j < QueueSize
  PROVE  Slot(rd + i) # Slot(rd + j)
<1>1. rd \in Nat  BY SizeAssumption DEF Indices
<1>2. /\ rd + i \in Nat /\ rd + j \in Nat
      /\ rd + i < rd + j /\ (rd + j) - (rd + i) < QueueSize
  BY <1>1, SizeAssumption
<1>3. QED  BY <1>2, SizeAssumption, ModDistinct DEF Slot

-------------------------------------------------------------------------------
(* The index invariant: it needs no assumption on the memory order. *)

(* The indices are equal at the start.                                      *)
LEMMA IndexInit == Init => IndexInv
<1> SUFFICES ASSUME Init PROVE IndexInv
  OBVIOUS
<1>1. TypeOK
  BY SizeAssumption DEF Init, TypeOK, Slots, Indices, FrameOrNone
<1>2. IndicesInStep
  BY SizeAssumption DEF Init, IndicesInStep, QueueUsedSize, Used
<1>3. SlotsCurrent
  BY DEF Init, SlotsCurrent
<1>4. QED  BY <1>1, <1>2, <1>3 DEF IndexInv

(* Every step keeps the indices in step, in any memory order.               *)
LEMMA IndexStep == IndexInv /\ [Next]_vars => IndexInv'
<1> SUFFICES ASSUME IndexInv, [Next]_vars PROVE IndexInv'
  OBVIOUS
<1> USE SizeAssumption DEF IndexInv
<1> rd_idx \in Nat /\ wr_idx \in Nat /\ rd_idx \in Indices /\ wr_idx \in Indices
  BY DEF TypeOK, Indices
<1>1. ASSUME NEW f \in Frames, PushBegin(f) PROVE IndexInv'
  <2>1. Slot(wr_idx) \in Slots  BY SlotType
  <2>2. TypeOK'
    BY <1>1, <2>1 DEF PushBegin, TypeOK, FrameOrNone, consumerVars
  <2>3. IndicesInStep'
    BY <1>1, UsedFacts
    DEF PushBegin, TypeOK, IndicesInStep, QueueIsFull, QueueUsedSize, consumerVars
  <2>4. SlotsCurrent'
    BY <1>1 DEF PushBegin, SlotsCurrent, consumerVars
  <2>5. QED  BY <2>2, <2>3, <2>4
<1>2. ASSUME NEW f \in Frames, PushRefused(f) PROVE IndexInv'
  BY <1>2 DEF PushRefused, TypeOK, IndicesInStep, QueueUsedSize, SlotsCurrent,
              FrameOrNone, consumerVars
<1>3. ASSUME PushStore PROVE IndexInv'
  BY <1>3 DEF PushStore, TypeOK, IndicesInStep, QueueUsedSize, SlotsCurrent,
              FrameOrNone, consumerVars
<1>4. ASSUME PushPublish PROVE IndexInv'
  <2>1. TypeOK'
    BY <1>4, IncrFacts DEF PushPublish, TypeOK, consumerVars
  <2>2. QueueUsedSize' = QueueUsedSize + 1
    BY <1>4, UsedFacts
    DEF PushPublish, IndicesInStep, QueueUsedSize, consumerVars
  <2>3. IndicesInStep'
    BY <1>4, <2>2, UsedFacts
    DEF PushPublish, IndicesInStep, QueueUsedSize, consumerVars
  <2>4. SlotsCurrent'
    BY <1>4 DEF PushPublish, SlotsCurrent, consumerVars
  <2>5. QED  BY <2>1, <2>3, <2>4
<1>5. ASSUME PopBegin PROVE IndexInv'
  <2>1. Slot(rd_idx) \in Slots  BY SlotType
  <2>2. TypeOK'
    BY <1>5, <2>1 DEF PopBegin, TypeOK, producerVars
  <2>3. IndicesInStep'
    BY <1>5, UsedFacts
    DEF PopBegin, IndicesInStep, QueueIsEmpty, QueueUsedSize, producerVars
  <2>4. SlotsCurrent'
    BY <1>5 DEF PopBegin, SlotsCurrent, producerVars
  <2>5. QED  BY <2>2, <2>3, <2>4
<1>6. ASSUME QueuePrePop PROVE IndexInv'
  <2>1. TypeOK'
    BY <1>6 DEF QueuePrePop, PopReturns, TypeOK, producerVars
  <2>2. IndicesInStep' /\ SlotsCurrent'
    BY <1>6 DEF QueuePrePop, IndicesInStep, QueueUsedSize, SlotsCurrent,
                producerVars
  <2>3. QED  BY <2>1, <2>2
<1>7. ASSUME QueuePopUpdate PROVE IndexInv'
  <2>1. TypeOK'
    BY <1>7, IncrFacts DEF QueuePopUpdate, PopReturns, TypeOK, producerVars
  <2>2. QueueUsedSize' = QueueUsedSize - 1
    BY <1>7, UsedFacts
    DEF QueuePopUpdate, IndicesInStep, QueueUsedSize, producerVars
  <2>3. IndicesInStep'
    BY <1>7, <2>2, UsedFacts
    DEF QueuePopUpdate, IndicesInStep, QueueUsedSize, producerVars
  <2>4. SlotsCurrent'
    BY <1>7 DEF QueuePopUpdate, SlotsCurrent, producerVars
  <2>5. QED  BY <2>1, <2>3, <2>4
<1>8. CASE UNCHANGED vars
  BY <1>8 DEF vars, producerVars, consumerVars, TypeOK, IndicesInStep,
              QueueUsedSize, SlotsCurrent
<1>9. QED
  BY <1>1, <1>2, <1>3, <1>4, <1>5, <1>6, <1>7, <1>8 DEF Next, Producer, Consumer

(* The variables keep their types. *)
THEOREM TypeCorrect == Spec => []TypeOK
<1>1. IndexInv => TypeOK  BY DEF IndexInv
<1>2. QED  BY <1>1, IndexInit, IndexStep, PTL DEF Spec

(* Neither thread overruns the other: the wrapped difference of the        *)
(* indices counts the unread frames, whatever the memory order.            *)
THEOREM IndicesStayInStep == Spec => []IndicesInStep
<1>1. IndexInv => IndicesInStep  BY DEF IndexInv
<1>2. QED  BY <1>1, IndexInit, IndexStep, PTL DEF Spec

-------------------------------------------------------------------------------
(* With the accesses in program order, the slots hold what was pushed. *)

(* While a frame is being stored, its slot is none of the unread ones. *)
LEMMA StoreIsOutside ==
  ASSUME IndexInv, InOrder, "slot" \in pushTodo,
         NEW i \in Nat, i < QueueUsedSize
  PROVE  pushSlot # Slot(rd_idx + i)
<1>1. rd_idx \in Indices /\ wr_idx \in Indices
  BY DEF IndexInv, TypeOK
<1>2. QueueUsedSize \in Nat /\ QueueUsedSize < QueueSize
  BY <1>1, UsedFacts, SizeAssumption
  DEF IndexInv, IndicesInStep, InOrder, QueueUsedSize
<1>3. pushSlot = Slot(rd_idx + QueueUsedSize)
  BY <1>1, SlotOfWrite DEF IndexInv, SlotsCurrent, InOrder, QueueUsedSize
<1>4. QED  BY <1>1, <1>2, <1>3, SlotsDiffer

(* The slot a pop works on is that of the oldest unread frame. *)
LEMMA PopIsOldest ==
  ASSUME IndexInv, "idx" \in popTodo
  PROVE  popSlot = Slot(rd_idx + 0) /\ 0 < QueueUsedSize
<1>1. rd_idx \in Nat /\ rd_idx \in Indices /\ wr_idx \in Indices
  BY SizeAssumption DEF IndexInv, TypeOK, Indices
<1>2. popSlot = Slot(rd_idx)  BY DEF IndexInv, SlotsCurrent
<1>3. rd_idx + 0 = rd_idx  BY <1>1
<1>4. 0 < QueueUsedSize
  BY <1>1, UsedFacts, SizeAssumption DEF IndexInv, IndicesInStep, QueueUsedSize
<1>5. QED  BY <1>2, <1>3, <1>4

(* In program order the two threads are never at one slot.                  *)
LEMMA SlotExclusion == IndexInv /\ InOrder => SlotExclusive
<1> SUFFICES ASSUME IndexInv, InOrder, "slot" \in pushTodo, "slot" \in popTodo
             PROVE  pushSlot # popSlot
  BY DEF SlotExclusive
<1>1. popSlot = Slot(rd_idx + 0) /\ 0 < QueueUsedSize
  BY PopIsOldest DEF InOrder
<1>2. QED  BY <1>1, StoreIsOutside

(* The queue is empty at the start.                                         *)
LEMMA DataInit == Init => DataInv
<1> SUFFICES ASSUME Init PROVE DataInv
  OBVIOUS
<1>1. InOrder  BY DEF Init, InOrder
<1>2. SlotsFilled
  BY SizeAssumption DEF Init, SlotsFilled, QueueUsedSize, Used
<1>3. QED  BY <1>1, <1>2, IndexInit DEF DataInv

(* Without reordering every step keeps the slots in use filled.             *)
LEMMA DataStep ==
  ASSUME ~Reorder
  PROVE  DataInv /\ [Next]_vars => DataInv'
<1> SUFFICES ASSUME DataInv, [Next]_vars PROVE DataInv'
  OBVIOUS
<1> USE SizeAssumption
<1>1. IndexInv /\ IndexInv' /\ InOrder /\ SlotsFilled
  BY IndexStep DEF DataInv
<1>2. /\ TypeOK /\ TypeOK' /\ rd_idx \in Nat /\ wr_idx \in Nat
      /\ rd_idx \in Indices /\ wr_idx \in Indices
      /\ QueueUsedSize \in Nat
  <2>1. TypeOK /\ TypeOK'  BY <1>1 DEF IndexInv
  <2>2. rd_idx \in Indices /\ wr_idx \in Indices  BY <2>1 DEF TypeOK
  <2>3. rd_idx \in Nat /\ wr_idx \in Nat  BY <2>2 DEF Indices
  <2>4. QueueUsedSize \in Nat  BY <2>2, UsedFacts DEF QueueUsedSize
  <2>5. QED  BY <2>1, <2>2, <2>3, <2>4
<1> SUFFICES InOrder' /\ SlotsFilled'
  BY <1>1 DEF DataInv
<1>3. ASSUME NEW f \in Frames, PushBegin(f) PROVE InOrder' /\ SlotsFilled'
  BY <1>1, <1>3
  DEF PushBegin, InOrder, SlotsFilled, QueueUsedSize, consumerVars
<1>4. ASSUME NEW f \in Frames, PushRefused(f) PROVE InOrder' /\ SlotsFilled'
  BY <1>1, <1>4
  DEF PushRefused, InOrder, SlotsFilled, QueueUsedSize, consumerVars
<1>5. ASSUME PushStore PROVE InOrder' /\ SlotsFilled'
  <2>1. InOrder'
    BY <1>1, <1>5 DEF PushStore, InOrder, consumerVars
  <2>2. QueueUsedSize' = QueueUsedSize /\ rd_idx' = rd_idx
    BY <1>5 DEF PushStore, QueueUsedSize, consumerVars
  <2>3. ASSUME NEW i \in 0 .. QueueSize - 1, i < QueueUsedSize
        PROVE  storage_packet'[Slot(rd_idx + i)] = storage_packet[Slot(rd_idx + i)]
    <3>1. pushSlot # Slot(rd_idx + i)
      BY <1>1, <1>5, <2>3, StoreIsOutside DEF PushStore
    <3>2. Slot(rd_idx + i) \in Slots  BY <1>2, SlotType
    <3>3. QED  BY <1>2, <1>5, <3>1, <3>2 DEF PushStore, TypeOK
  <2>4. \A i \in 0 .. QueueSize - 1 :
          i < QueueUsedSize' => storage_packet'[Slot(rd_idx' + i)] \in Frames
    BY <1>1, <2>2, <2>3 DEF SlotsFilled
  <2>5. packet' = packet /\ packet' \in Frames /\ storage_packet'[pushSlot'] = packet'
    BY <1>1, <1>2, <1>5 DEF PushStore, SlotsFilled, TypeOK
  <2>6. ASSUME popTodo' = {"idx"} PROVE pkg' = storage_packet'[popSlot']
    <3>1. popTodo = {"idx"} /\ pkg' = pkg /\ popSlot' = popSlot
      BY <1>5, <2>6 DEF PushStore, consumerVars
    <3>2. popSlot = Slot(rd_idx + 0) /\ 0 < QueueUsedSize
      BY <1>1, <3>1, PopIsOldest
    <3>3. QED  BY <1>1, <2>3, <3>1, <3>2 DEF SlotsFilled
  <2>7. QED  BY <2>1, <2>4, <2>5, <2>6 DEF SlotsFilled
<1>6. ASSUME PushPublish PROVE InOrder' /\ SlotsFilled'
  <2>1. pushTodo = {"idx"} /\ pushTodo' = {}
    BY <1>2, <1>6 DEF PushPublish, TypeOK
  <2>2. /\ rd_idx' = rd_idx /\ storage_packet' = storage_packet
        /\ QueueUsedSize' = QueueUsedSize + 1
    BY <1>1, <1>2, <1>6, UsedFacts
    DEF PushPublish, IndexInv, IndicesInStep, QueueUsedSize, consumerVars
  <2>3. storage_packet[Slot(rd_idx + QueueUsedSize)] \in Frames
    BY <1>1, <1>2, <2>1, SlotOfWrite
    DEF IndexInv, SlotsCurrent, SlotsFilled, QueueUsedSize
  <2>4. ASSUME NEW i \in 0 .. QueueSize - 1, i < QueueUsedSize'
        PROVE  storage_packet'[Slot(rd_idx' + i)] \in Frames
    BY <1>1, <1>2, <2>2, <2>3, <2>4 DEF SlotsFilled
  <2>5. InOrder'  BY <1>1, <1>6, <2>1 DEF PushPublish, InOrder, consumerVars
  <2>6. QED
    BY <1>1, <1>6, <2>1, <2>4, <2>5 DEF PushPublish, SlotsFilled, consumerVars
<1>7. ASSUME PopBegin PROVE InOrder' /\ SlotsFilled'
  BY <1>1, <1>7
  DEF PopBegin, InOrder, SlotsFilled, QueueUsedSize, producerVars
<1>8. ASSUME QueuePrePop PROVE InOrder' /\ SlotsFilled'
  BY <1>1, <1>8
  DEF QueuePrePop, InOrder, SlotsFilled, QueueUsedSize, producerVars
<1>9. ASSUME QueuePopUpdate PROVE InOrder' /\ SlotsFilled'
  <2>1. popTodo = {"idx"} /\ popTodo' = {}
    BY <1>2, <1>9 DEF QueuePopUpdate, TypeOK
  <2>2. rd_idx' = Incr(rd_idx) /\ QueueUsedSize' = QueueUsedSize - 1
    BY <1>1, <1>2, <1>9, UsedFacts
    DEF QueuePopUpdate, IndexInv, IndicesInStep, QueueUsedSize, producerVars
  <2>3. ASSUME NEW i \in 0 .. QueueSize - 1, i < QueueUsedSize'
        PROVE  storage_packet'[Slot(rd_idx' + i)] \in Frames
    <3>1. i + 1 < QueueUsedSize /\ i + 1 \in 0 .. QueueSize - 1
      BY <1>1, <1>2, <2>2, <2>3 DEF IndexInv, IndicesInStep
    <3>2. Slot(rd_idx' + i) = Slot(rd_idx + (i + 1))
      BY <1>2, <2>2, SlotIncr
    <3>3. QED
      BY <1>1, <1>9, <3>1, <3>2 DEF SlotsFilled, QueuePopUpdate, producerVars
  <2>4. InOrder'  BY <1>1, <1>9, <2>1 DEF QueuePopUpdate, InOrder, producerVars
  <2>5. QED
    BY <1>1, <1>9, <2>1, <2>3, <2>4 DEF QueuePopUpdate, SlotsFilled, producerVars
<1>10. CASE UNCHANGED vars
  BY <1>1, <1>10 DEF vars, producerVars, consumerVars, InOrder, SlotsFilled,
                     QueueUsedSize
<1>11. QED
  BY <1>3, <1>4, <1>5, <1>6, <1>7, <1>8, <1>9, <1>10 DEF Next, Producer, Consumer,
         DataInv

(* With the accesses in program order the two threads are never in the     *)
(* same slot, although nothing locks it.                                   *)
THEOREM SlotsExclusive ==
  ASSUME ~Reorder
  PROVE  Spec => []SlotExclusive
<1>1. DataInv => SlotExclusive  BY SlotExclusion DEF DataInv
<1>2. DataInv /\ [Next]_vars => DataInv'  BY DataStep
<1>3. QED  BY <1>1, <1>2, DataInit, PTL DEF Spec

-------------------------------------------------------------------------------
(* The ring implements the bounded queue. *)

(* What Contents is: a sequence of QueueUsedSize frames. *)
ContentsShape ==
  /\ QueueUsedSize \in 0 .. QueueSize
  /\ Contents \in Seq(Frames)
  /\ Len(Contents) = QueueUsedSize
  /\ \A i \in 1 .. QueueUsedSize :
       Contents[i] = storage_packet[Slot(rd_idx + i - 1)]

(* The slots in use are a sequence of frames.                               *)
LEMMA ContentsFacts == DataInv => ContentsShape
<1> SUFFICES ASSUME DataInv PROVE ContentsShape
  OBVIOUS
<1>1. /\ rd_idx \in Nat /\ rd_idx \in Indices /\ wr_idx \in Indices
  BY SizeAssumption DEF DataInv, IndexInv, TypeOK, Indices
<1>2. QueueUsedSize \in 0 .. QueueSize
  BY <1>1, UsedFacts, SizeAssumption
  DEF DataInv, IndexInv, IndicesInStep, QueueUsedSize
<1>3. ASSUME NEW i \in 1 .. QueueUsedSize
      PROVE  storage_packet[Slot(rd_idx + i - 1)] \in Frames
  <2>1. i - 1 \in 0 .. QueueSize - 1 /\ i - 1 < QueueUsedSize
    BY <1>2, SizeAssumption
  <2>2. rd_idx + (i - 1) = rd_idx + i - 1  BY <1>1
  <2>3. QED  BY <2>1, <2>2 DEF DataInv, SlotsFilled
<1>4. QED  BY <1>2, <1>3 DEF Contents, ContentsShape

(* The queue starts as the abstract one does.                               *)
LEMMA FifoInit == Init => Fifo!Init
<1> SUFFICES ASSUME Init PROVE Fifo!Init
  OBVIOUS
<1>1. QueueUsedSize = 0
  BY SizeAssumption DEF Init, QueueUsedSize, Used
<1>2. Contents \in Seq(Frames) /\ Len(Contents) = 0
  BY <1>1, DataInit, ContentsFacts DEF ContentsShape
<1>3. Contents = <<>>  BY <1>2
<1>4. QED  BY <1>3 DEF Init, Fifo!Init

(* Every step is one of the abstract queue, or none.                        *)
LEMMA FifoStep ==
  ASSUME ~Reorder
  PROVE  DataInv /\ [Next]_vars => [Fifo!Next]_(Fifo!vars)
<1> SUFFICES ASSUME DataInv, [Next]_vars
             PROVE  [Fifo!Next]_(Fifo!vars)
  OBVIOUS
<1> USE SizeAssumption
<1>1. DataInv /\ DataInv' /\ IndexInv /\ InOrder /\ SlotsFilled /\ TypeOK
  BY DataStep DEF DataInv, IndexInv
<1>2. /\ rd_idx \in Nat /\ rd_idx \in Indices /\ wr_idx \in Indices
      /\ QueueUsedSize \in 0 .. QueueSize /\ QueueUsedSize' \in 0 .. QueueSize
  <2>1. ContentsShape /\ ContentsShape'  BY <1>1, ContentsFacts, PTL
  <2>2. QED  BY <1>1, <2>1 DEF TypeOK, Indices, ContentsShape
<1>3. /\ Contents \in Seq(Frames) /\ Len(Contents) = QueueUsedSize
      /\ \A i \in 1 .. QueueUsedSize :
           Contents[i] = storage_packet[Slot(rd_idx + i - 1)]
      /\ Contents' \in Seq(Frames) /\ Len(Contents') = QueueUsedSize'
      /\ \A i \in 1 .. QueueUsedSize' :
           Contents'[i] = storage_packet'[Slot(rd_idx' + i - 1)]
  <2>1. ContentsShape /\ ContentsShape'  BY <1>1, ContentsFacts, PTL
  <2>2. QED  BY <2>1 DEF ContentsShape
<1>4. ASSUME UNCHANGED <<rd_idx, wr_idx, storage_packet>>
      PROVE  UNCHANGED Contents
  BY <1>4 DEF Contents, QueueUsedSize
<1>5. ASSUME NEW f \in Frames, PushBegin(f) PROVE UNCHANGED Fifo!vars
  BY <1>4, <1>5 DEF PushBegin, consumerVars, Fifo!vars
<1>6. ASSUME NEW f \in Frames, PushRefused(f) PROVE Fifo!Refuse(f)
  BY <1>2, <1>3, <1>4, <1>6
  DEF PushRefused, QueueIsFull, consumerVars, Fifo!Refuse
<1>7. ASSUME PushStore PROVE UNCHANGED Fifo!vars
  <2>1. QueueUsedSize' = QueueUsedSize /\ rd_idx' = rd_idx
    BY <1>7 DEF PushStore, QueueUsedSize, consumerVars
  <2>2. ASSUME NEW i \in 1 .. QueueUsedSize
        PROVE  storage_packet'[Slot(rd_idx + i - 1)]
                 = storage_packet[Slot(rd_idx + i - 1)]
    <3>1. i - 1 \in Nat /\ i - 1 < QueueUsedSize /\ rd_idx + (i - 1) = rd_idx + i - 1
      BY <1>2
    <3>2. pushSlot # Slot(rd_idx + i - 1)
      BY <1>1, <1>7, <3>1, StoreIsOutside DEF PushStore
    <3>3. Slot(rd_idx + i - 1) \in Slots
      BY <1>2, <3>1, SlotType
    <3>4. QED  BY <1>1, <1>7, <3>2, <3>3 DEF PushStore, TypeOK
  <2>3. Contents' = Contents  BY <2>1, <2>2 DEF Contents
  <2>4. QED  BY <1>7, <2>3 DEF PushStore, consumerVars, Fifo!vars
<1>8. ASSUME PushPublish PROVE Fifo!Accept(packet) /\ packet \in Frames
  <2>1. pushTodo = {"idx"}
    BY <1>1, <1>8 DEF PushPublish, TypeOK
  <2>2. /\ rd_idx' = rd_idx /\ storage_packet' = storage_packet
        /\ QueueUsedSize' = QueueUsedSize + 1
        /\ QueueUsedSize < QueueSize
    BY <1>1, <1>2, <1>8, UsedFacts
    DEF PushPublish, IndexInv, IndicesInStep, QueueUsedSize, consumerVars
  <2>3. packet = storage_packet[Slot(rd_idx + QueueUsedSize)] /\ packet \in Frames
    BY <1>1, <1>2, <2>1, SlotOfWrite
    DEF IndexInv, SlotsCurrent, SlotsFilled, QueueUsedSize
  <2>4. rd_idx + QueueUsedSize = rd_idx + (QueueUsedSize + 1) - 1  BY <1>2
  <2>5. Contents' = Append(Contents, packet)
    <3> DEFINE appended == Append(Contents, packet)
    <3>1. /\ appended \in Seq(Frames) /\ Len(appended) = QueueUsedSize + 1
          /\ \A i \in 1 .. QueueUsedSize : appended[i] = Contents[i]
          /\ appended[QueueUsedSize + 1] = packet
      BY <1>3, <2>3, AppendProperties
    <3> HIDE DEF appended
    <3>2. ASSUME NEW i \in 1 .. QueueUsedSize + 1
          PROVE  Contents'[i] = appended[i]
      <4>1. Contents'[i] = storage_packet[Slot(rd_idx + i - 1)]
        BY <1>3, <2>2
      <4>2. CASE i = QueueUsedSize + 1  BY <2>3, <2>4, <3>1, <4>1, <4>2
      <4>3. CASE i # QueueUsedSize + 1
        <5>1. i \in 1 .. QueueUsedSize  BY <1>2, <4>3
        <5>2. QED  BY <1>3, <3>1, <4>1, <5>1
      <4>4. QED  BY <4>2, <4>3
    <3>3. Contents' = appended
      BY <1>3, <2>2, <3>1, <3>2, SeqEqual
    <3>4. QED  BY <3>3 DEF appended
  <2>6. QED
    BY <1>3, <1>8, <2>2, <2>3, <2>5 DEF PushPublish, consumerVars, Fifo!Accept
<1>9. ASSUME PopBegin PROVE UNCHANGED Fifo!vars
  BY <1>4, <1>9 DEF PopBegin, producerVars, Fifo!vars
<1>10. ASSUME QueuePrePop PROVE UNCHANGED Fifo!vars
  <2>1. popTodo # {"slot"}  BY <1>1, <1>10 DEF InOrder, QueuePrePop
  <2>2. QED
    BY <1>4, <1>10, <2>1 DEF QueuePrePop, PopReturns, producerVars, Fifo!vars
<1>11. ASSUME QueuePopUpdate PROVE Fifo!Deliver
  <2>1. popTodo = {"idx"}
    BY <1>1, <1>11 DEF QueuePopUpdate, TypeOK
  <2>2. popSlot = Slot(rd_idx + 0) /\ 0 < QueueUsedSize
    BY <1>1, <2>1, PopIsOldest
  <2>3. /\ rd_idx' = Incr(rd_idx) /\ storage_packet' = storage_packet
        /\ QueueUsedSize' = QueueUsedSize - 1
    BY <1>2, <1>11, <2>2, UsedFacts
    DEF QueuePopUpdate, QueueUsedSize, producerVars
  <2>4. Contents # <<>> /\ Head(Contents) = Contents[1]
    BY <1>3, <2>2
  <2>5. delivered' = Head(Contents)
    <3>1. delivered' = storage_packet[popSlot]
      BY <1>1, <1>11, <2>1 DEF QueuePopUpdate, PopReturns, SlotsFilled
    <3>2. rd_idx + 1 - 1 = rd_idx + 0 /\ 1 \in 1 .. QueueUsedSize
      BY <1>2, <2>2
    <3>3. QED  BY <1>3, <2>2, <2>4, <3>1, <3>2
  <2>6. Contents' = Tail(Contents)
    <3> DEFINE rest == Tail(Contents)
    <3>1. /\ rest \in Seq(Frames) /\ Len(rest) = QueueUsedSize - 1
          /\ \A i \in 1 .. QueueUsedSize - 1 : rest[i] = Contents[i + 1]
      BY <1>3, <2>4, HeadTailProperties
    <3> HIDE DEF rest
    <3>2. ASSUME NEW i \in 1 .. QueueUsedSize - 1
          PROVE  Contents'[i] = rest[i]
      <4>1. /\ i - 1 \in Nat /\ i + 1 \in 1 .. QueueUsedSize
            /\ rd_idx + (i - 1) + 1 = rd_idx + (i + 1) - 1
        BY <1>2
      <4>2. Incr(rd_idx) + (i - 1) = Incr(rd_idx) + i - 1
        BY <1>2, IncrFacts DEF Indices
      <4>3. Slot(Incr(rd_idx) + (i - 1)) = Slot(rd_idx + (i - 1) + 1)
        BY <1>2, <4>1, SlotIncr
      <4>4. Contents'[i] = storage_packet[Slot(Incr(rd_idx) + i - 1)]
        BY <1>3, <2>3
      <4>5. QED  BY <1>3, <3>1, <4>1, <4>2, <4>3, <4>4
    <3>3. Contents' = rest  BY <1>3, <2>3, <3>1, <3>2, SeqEqual
    <3>4. QED  BY <3>3 DEF rest
  <2>7. QED
    BY <1>11, <2>4, <2>5, <2>6 DEF QueuePopUpdate, producerVars, Fifo!Deliver
<1>12. CASE UNCHANGED vars
  BY <1>4, <1>12 DEF vars, producerVars, consumerVars, Fifo!vars
<1>13. QED
  BY <1>5, <1>6, <1>7, <1>8, <1>9, <1>10, <1>11, <1>12
  DEF Next, Producer, Consumer, Fifo!Next

(* With the accesses in program order, the ring is the bounded first-in    *)
(* first-out queue: the sequence of frames published is the sequence of    *)
(* frames accepted, and only a full queue refuses one.                     *)
THEOREM RingIsFifo ==
  ASSUME ~Reorder
  PROVE  Spec => RefinesFifo
<1>1. DataInv /\ [Next]_vars => DataInv'  BY DataStep
<1>2. DataInv /\ [Next]_vars => [Fifo!Next]_(Fifo!vars)  BY FifoStep
<1>3. QED
  BY <1>1, <1>2, DataInit, FifoInit, PTL DEF Spec, RefinesFifo, Fifo!Spec
-------------------------------------------------------------------------------
(* Needs no memory order: only the one producer raises the count, and only  *)
(* after it has read zero.                                                  *)
WakeupCount ==
  /\ count \in Nat
  /\ producer = "signal" => count = 0
  /\ count <= 1

(* Every step keeps the count of the semaphore below two.                   *)
LEMMA WakeupCountStep == WakeupCount /\ [Delivery!Next]_(Delivery!vars) => WakeupCount'
<1> SUFFICES ASSUME WakeupCount, [Delivery!Next]_(Delivery!vars) PROVE WakeupCount'
  OBVIOUS
<1> USE DEF WakeupCount
<1>1. CASE Delivery!Sensor
  BY <1>1 DEF Delivery!Sensor, Delivery!Push, Delivery!PushFull
<1>2. CASE Delivery!Producing
  <2>1. CASE Delivery!CheckNotEmpty  BY <2>1 DEF Delivery!CheckNotEmpty
  <2>2. CASE Delivery!GetCount  BY <2>2 DEF Delivery!GetCount
  <2>3. CASE Delivery!Signal  BY <2>3 DEF Delivery!Signal
  <2>4. QED  BY <1>2, <2>1, <2>2, <2>3 DEF Delivery!Producing
<1>3. CASE Delivery!Drain
  BY <1>3 DEF Delivery!Drain, Delivery!producerVars
<1>4. CASE Delivery!Polling
  BY <1>4 DEF Delivery!Polling, Delivery!PollTop, Delivery!Wait, Delivery!SkipLidar,
              Delivery!EnterLidar, Delivery!Publish, Delivery!QueueEmptied,
              Delivery!TestExit, Delivery!producerVars
<1>5. CASE Delivery!RequestExit \/ Delivery!Destructor
  BY <1>5 DEF Delivery!RequestExit, Delivery!Destructor, Delivery!SetExitSignal,
              Delivery!Join, Delivery!producerVars
<1>6. CASE \E l \in Delivery!Lidars : Delivery!StartSampling(l)
  BY <1>6 DEF Delivery!StartSampling, Delivery!producerVars
<1>7. CASE UNCHANGED Delivery!vars
  BY <1>7 DEF Delivery!vars, Delivery!producerVars
<1>8. QED  BY <1>1, <1>2, <1>3, <1>4, <1>5, <1>6, <1>7 DEF Delivery!Next

(* At most one wake-up of the poll thread is outstanding, although the      *)
(* producer reads Semaphore::count_ without its mutex.                      *)
THEOREM OneWakeup == Delivery!Spec => []AtMostOneWakeup
<1>1. Delivery!Init => WakeupCount  BY DEF Delivery!Init, WakeupCount
<1>2. WakeupCount => AtMostOneWakeup
  BY DEF WakeupCount, AtMostOneWakeup, Delivery!AtMostOneWakeup
<1>3. QED  BY <1>1, <1>2, WakeupCountStep, PTL DEF Delivery!Spec

-------------------------------------------------------------------------------
(* Nothing is owed at the start.                                            *)
LEMMA WakeupInit == Delivery!Init => Delivery!WakeupInv
<1> SUFFICES ASSUME Delivery!Init PROVE Delivery!WakeupInv
  OBVIOUS
<1>1. Delivery!TypeOK  BY DriverAssumption DEF Delivery!DeliveryAssumption,
                                               Delivery!Init, Delivery!TypeOK,
                                               Delivery!Lidars
<1>2. QED  BY <1>1 DEF Delivery!Init, Delivery!WakeupInv

(* Every step keeps a wake-up for what is stored.                           *)
LEMMA WakeupStep ==
  Delivery!WakeupInv /\ [Delivery!Next]_(Delivery!vars) => Delivery!WakeupInv'
<1> SUFFICES ASSUME Delivery!WakeupInv, [Delivery!Next]_(Delivery!vars)
             PROVE  Delivery!WakeupInv'
  OBVIOUS
<1> USE DriverAssumption DEF Delivery!DeliveryAssumption, Delivery!WakeupInv,
                             Delivery!Lidars, Delivery!config
<1>1. ASSUME NEW l \in Delivery!Lidars, Delivery!Push(l) PROVE Delivery!WakeupInv'
  <2>1. Delivery!TypeOK'  BY <1>1 DEF Delivery!Push, Delivery!Owe, Delivery!TypeOK,
                                      Delivery!pollerVars
  <2>2. target' \in Delivery!Lidars /\ late_stores' = late_stores
        /\ (~late_stores => buffered' = NoLidar)
    BY <1>1 DEF Delivery!Push
  <2>3. ASSUME NEW k \in owed', ~late_stores
        PROVE  queued'[k] > 0 /\ connect_state'[k] = "sampling" /\ Delivery!Accounted(k)'
    <3>1. CASE k = l
      BY <1>1, <2>3, <3>1 DEF Delivery!Push, Delivery!Owe, Delivery!Accounted,
                              Delivery!TypeOK
    <3>2. CASE k # l
      BY <1>1, <2>3, <3>2
      DEF Delivery!Push, Delivery!Owe, Delivery!Accounted, Delivery!TypeOK,
          Delivery!pollerVars, Delivery!IsRequestExit
    <3>3. QED  BY <3>1, <3>2
  <2>4. QED  BY <2>1, <2>2, <2>3
<1>2. ASSUME NEW l \in Delivery!Lidars, Delivery!PushFull(l) PROVE Delivery!WakeupInv'
  BY <1>2 DEF Delivery!PushFull, Delivery!Owe, Delivery!TypeOK, Delivery!Accounted,
              Delivery!pollerVars, Delivery!IsRequestExit
<1>3. ASSUME Delivery!CheckNotEmpty PROVE Delivery!WakeupInv'
  BY <1>3 DEF Delivery!CheckNotEmpty, Delivery!TypeOK, Delivery!Accounted,
              Delivery!pollerVars, Delivery!IsRequestExit
<1>4. ASSUME Delivery!GetCount PROVE Delivery!WakeupInv'
  BY <1>4 DEF Delivery!GetCount, Delivery!TypeOK, Delivery!Accounted,
              Delivery!pollerVars, Delivery!IsRequestExit
<1>5. ASSUME Delivery!Signal PROVE Delivery!WakeupInv'
  BY <1>5 DEF Delivery!Signal, Delivery!TypeOK, Delivery!Accounted,
              Delivery!pollerVars, Delivery!IsRequestExit
<1>6. ASSUME Delivery!Drain PROVE Delivery!WakeupInv'
  BY <1>6 DEF Delivery!Drain, Delivery!TypeOK, Delivery!Accounted,
              Delivery!producerVars, Delivery!pollerVars, Delivery!IsRequestExit
<1>7. ASSUME Delivery!PollTop PROVE Delivery!WakeupInv'
  BY <1>7 DEF Delivery!PollTop, Delivery!TypeOK, Delivery!Accounted,
              Delivery!producerVars, Delivery!IsRequestExit
<1>8. ASSUME Delivery!Wait PROVE Delivery!WakeupInv'
  BY <1>8 DEF Delivery!Wait, Delivery!TypeOK, Delivery!Accounted,
              Delivery!producerVars, Delivery!IsRequestExit
<1>9. ASSUME Delivery!SkipLidar PROVE Delivery!WakeupInv'
  <2>1. Delivery!TypeOK' /\ (producer' # "idle" => target' \in Delivery!Lidars)
    BY <1>9 DEF Delivery!SkipLidar, Delivery!NextLidar, Delivery!TypeOK,
                Delivery!producerVars
  <2>2. UNCHANGED <<late_stores, queued, buffered, connect_state, count, producer, target,
                    node, owed>>
    BY <1>9 DEF Delivery!SkipLidar, Delivery!producerVars
  <2>3. ASSUME NEW l \in owed, ~late_stores PROVE Delivery!Accounted(l)'
    <3>1. l \in Delivery!Lidars /\ visiting \in Delivery!Lidars  BY
       DEF Delivery!TypeOK
    <3>2. CASE visiting = l
      <4>1. Delivery!IsRequestExit
        BY <1>9, <2>3, <3>2 DEF Delivery!SkipLidar, Delivery!Visible,
                                Delivery!TypeOK
      <4>2. poller' # "wait" /\ Delivery!IsRequestExit'
        BY <1>9, <4>1, <2>2 DEF Delivery!SkipLidar, Delivery!NextLidar,
                                Delivery!IsRequestExit
      <4>3. QED  BY <4>2 DEF Delivery!Accounted
    <3>3. CASE visiting # l
      BY <1>9, <2>2, <2>3, <3>1, <3>3
      DEF Delivery!SkipLidar, Delivery!NextLidar, Delivery!Accounted,
          Delivery!IsRequestExit
    <3>4. QED  BY <3>2, <3>3
  <2>4. QED  BY <2>1, <2>2, <2>3
<1>10. ASSUME Delivery!EnterLidar PROVE Delivery!WakeupInv'
  BY <1>10 DEF Delivery!EnterLidar, Delivery!TypeOK, Delivery!Accounted,
               Delivery!producerVars, Delivery!IsRequestExit
<1>11. ASSUME Delivery!Publish PROVE Delivery!WakeupInv'
  <2> USE <1>11 DEF Delivery!Publish
  <2>1. UNCHANGED <<Delivery!config, buffered, connect_state, count, producer, target,
                    visiting, node>>
    BY DEF Delivery!producerVars
  <2>2. /\ queued \in [Delivery!Lidars -> 0 .. MaxQueue]
        /\ visiting \in Delivery!Lidars /\ owed \subseteq Delivery!Lidars
    BY DEF Delivery!TypeOK
  <2>3. queued[visiting] > 0
    BY <2>2 DEF Delivery!Visible
  <2>4. /\ queued' \in [Delivery!Lidars -> 0 .. MaxQueue]
        /\ \A l \in Delivery!Lidars : l # visiting => queued'[l] = queued[l]
    BY <2>2, <2>3
  <2>5. poller' \in {"poll", "publish"} /\ poller = "publish" /\ owed' \subseteq owed
    OBVIOUS
  <2>6. Delivery!TypeOK'
    BY <2>1, <2>4, <2>5 DEF Delivery!TypeOK
  <2>7. ASSUME NEW l \in owed', ~late_stores
        PROVE  queued'[l] > 0 /\ Delivery!Accounted(l)'
    <3>1. l \in owed /\ l \in Delivery!Lidars  BY <2>2, <2>5
    <3>2. queued'[l] > 0
      <4>1. CASE l # visiting  BY <2>4, <2>7, <3>1, <4>1
      <4>2. CASE l = visiting
        <5>1. queued'[visiting] # 0  BY <2>7, <4>2
        <5>2. queued'[visiting] \in Nat  BY <2>2, <2>4
        <5>3. QED  BY <4>2, <5>1, <5>2
      <4>3. QED  BY <4>1, <4>2
    <3>3. Delivery!Accounted(l)'
      BY <2>1, <2>5, <2>7, <3>1 DEF Delivery!Accounted, Delivery!IsRequestExit
    <3>4. QED  BY <3>2, <3>3
  <2>8. QED
    BY <2>1, <2>5, <2>6, <2>7
<1>12. ASSUME Delivery!QueueEmptied PROVE Delivery!WakeupInv'
  BY <1>12 DEF Delivery!QueueEmptied, Delivery!TypeOK, Delivery!Accounted,
               Delivery!producerVars, Delivery!IsRequestExit
<1>13. ASSUME Delivery!TestExit PROVE Delivery!WakeupInv'
  BY <1>13 DEF Delivery!TestExit, Delivery!TypeOK, Delivery!Accounted,
               Delivery!producerVars, Delivery!IsRequestExit
<1>14. ASSUME NEW l \in Delivery!Lidars, Delivery!StartSampling(l)
       PROVE  Delivery!WakeupInv'
  BY <1>14 DEF Delivery!StartSampling, Delivery!TypeOK, Delivery!Accounted,
               Delivery!producerVars, Delivery!pollerVars, Delivery!IsRequestExit
<1>15. ASSUME Delivery!RequestExit \/ Delivery!SetExitSignal \/ Delivery!Join
       PROVE  Delivery!WakeupInv'
  BY <1>15 DEF Delivery!RequestExit, Delivery!SetExitSignal, Delivery!Join,
               Delivery!TypeOK, Delivery!Accounted, Delivery!producerVars,
               Delivery!pollerVars, Delivery!IsRequestExit
<1>16. CASE UNCHANGED Delivery!vars
  BY <1>16 DEF Delivery!vars, Delivery!TypeOK, Delivery!Accounted,
               Delivery!producerVars, Delivery!pollerVars, Delivery!IsRequestExit
<1>17. QED
  BY <1>1, <1>2, <1>3, <1>4, <1>5, <1>6, <1>7, <1>8, <1>9, <1>10, <1>11, <1>12,
     <1>13, <1>14, <1>15, <1>16
  DEF Delivery!Next, Delivery!Sensor, Delivery!Producing, Delivery!Polling,
      Delivery!Destructor

(* When stores become visible in order, no wake-up is lost: the poll thread *)
(* never sleeps on a frame of a sampling lidar, although it and the         *)
(* producer share no lock over queue and count together.                    *)
THEOREM WakeupsSuffice == Delivery!Spec => []NoLostWakeup
<1>1. Delivery!WakeupInv => NoLostWakeup
  BY DEF NoLostWakeup, Delivery!WakeupInv, Delivery!NoLostWakeup, Delivery!Accounted,
         Delivery!TypeOK
<1>2. QED  BY <1>1, WakeupInit, WakeupStep, PTL DEF Delivery!Spec

(* The variables keep their types, whatever the memory order: no queue      *)
(* holds more than its capacity.                                            *)
THEOREM DeliveryTypes == Delivery!Spec => []Delivery!TypeOK
<1>1. Delivery!WakeupInv => Delivery!TypeOK  BY DEF Delivery!WakeupInv
<1>2. QED  BY <1>1, WakeupInit, WakeupStep, PTL DEF Delivery!Spec
===============================================================================
