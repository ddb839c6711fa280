------------------------- MODULE FrameAssembly_proofs -------------------------
(***************************************************************************)
(* Proofs about the assembly of frames: for any number of lidars, any      *)
(* interval, any time the clock may reach, any packets lost and any        *)
(* changes of the clocks.                                                  *)
(***************************************************************************)
EXTENDS FrameAssembly, SequenceSelection_proofs

Packets == [lidar : Lidars, point : Point]
Of(l) == [lidar : {l}, point : Point]

(* The numbers of the points of a cloud, and of the packets of a queue.     *)
Numbers(s) == [k \in DOMAIN s |-> s[k].nr]
PacketNumbers(s) == [k \in DOMAIN s |-> s[k].point.nr]
Queued(l) == Select(raw_packet_queue, Of(l))

AssemblyTypes ==
  /\ now \in 1 .. MaxTick
  /\ synchronised \subseteq Lidars /\ sent \subseteq Lidars
  /\ received \in [Lidars -> 0 .. MaxTick]
  /\ \A l \in Lidars : received[l] <= now /\ (l \notin sent => received[l] < now)
  /\ raw_packet_queue \in Seq(Packets)
  /\ checking \in Lidars \cup {NoLidar}
  /\ points_clouds \in [Lidars -> Seq(Point)] /\ points \in [Lidars -> Seq(Point)]
  /\ published \in [Lidars -> Seq(Nat)]

(* The types hold at the start.                                             *)
LEMMA TypesInit == FrameInit => AssemblyTypes
<1> SUFFICES ASSUME FrameInit  PROVE AssemblyTypes  OBVIOUS
<1>1. 1 \in 1 .. MaxTick /\ 0 \in 0 .. MaxTick  BY AssemblyAssumption
<1>2. synchronised \subseteq Lidars  BY DEF FrameInit
<1>3. QED  BY <1>1, <1>2 DEF FrameInit, AssemblyTypes

(* The point of a packet is one.                                            *)
LEMMA PacketPoint ==
  ASSUME AssemblyTypes, NEW l \in Lidars, Packet(l)
  PROVE  /\ received' = [received EXCEPT ![l] = @ + 1] /\ received'[l] \in 1 .. now
         /\ [nr |-> received'[l], offset_time |-> TimeStamp(l)] \in Point
<1>1. received' = [received EXCEPT ![l] = @ + 1] /\ l \notin sent  BY DEF Packet
<1>2. received[l] \in Nat /\ received'[l] = received[l] + 1 /\ received[l] < now /\ now \in 1 .. MaxTick
  BY <1>1 DEF AssemblyTypes
<1>3. TimeStamp(l) \in Stamps
  BY <1>2, AssemblyAssumption DEF TimeStamp, Stamps
<1>4. received'[l] \in 1 .. now /\ received'[l] \in 1 .. MaxTick + 1
  BY <1>2, AssemblyAssumption
<1>5. QED  BY <1>1, <1>3, <1>4 DEF Point

(* Frames are published as sequences of points.                             *)
LEMMA PublishTypes ==
  ASSUME AssemblyTypes, NEW ls \in SUBSET Lidars, Publish(ls)
  PROVE  /\ points_clouds' \in [Lidars -> Seq(Point)] /\ points' \in [Lidars -> Seq(Point)]
         /\ published' \in [Lidars -> Seq(Nat)]
         /\ \A l \in Lidars :
              IF l \in ls
              THEN /\ points_clouds'[l] = << >> /\ points'[l] = points_clouds[l]
                   /\ published'[l] = published[l] \o Numbers(points_clouds[l])
              ELSE UNCHANGED <<points_clouds[l], points[l], published[l]>>
<1>1. /\ points' = [l \in Lidars |-> IF l \in ls THEN points_clouds[l] ELSE points[l]]
      /\ points_clouds' = [l \in Lidars |-> IF l \in ls THEN << >> ELSE points_clouds[l]]
  BY DEF Publish, TakeClouds
<1>2. published' = [l \in Lidars |-> IF l \in ls THEN published[l] \o Numbers(points'[l]) ELSE published[l]]
  BY DEF Publish, Numbers
<1>3. \A l \in Lidars : points_clouds[l] \in Seq(Point) /\ points[l] \in Seq(Point) /\ published[l] \in Seq(Nat)
  BY DEF AssemblyTypes
<1>4. \A s \in Seq(Point) : Numbers(s) \in Seq(Nat)
  <2>1. \A x \in Point : x.nr \in Nat  BY AssemblyAssumption DEF Point
  <2>2. QED  BY <2>1 DEF Numbers
<1>5. points_clouds' \in [Lidars -> Seq(Point)] /\ points' \in [Lidars -> Seq(Point)]  BY <1>1, <1>3
<1>6. \A l \in Lidars : published[l] \o Numbers(points'[l]) \in Seq(Nat)
  <2>1. \A l \in Lidars : Numbers(points'[l]) \in Seq(Nat)  BY <1>4, <1>5
  <2>2. QED  BY <1>3, <2>1
<1>7. published' \in [Lidars -> Seq(Nat)]  BY <1>2, <1>3, <1>6
<1>8. QED  BY <1>1, <1>2, <1>5, <1>7

(* Every step keeps the types.                                              *)
LEMMA TypesStep ==
  ASSUME AssemblyTypes, [FrameNext]_frameVars
  PROVE  AssemblyTypes'
<1>1. ASSUME NEW l \in Lidars, Packet(l)  PROVE AssemblyTypes'
  <2> DEFINE packet == [lidar |-> l, point |-> [nr |-> received'[l], offset_time |-> TimeStamp(l)]]
  <2>1. packet \in Packets /\ raw_packet_queue' = Append(raw_packet_queue, packet)
    BY <1>1, PacketPoint DEF Packet, Packets
  <2> HIDE DEF packet
  <2>2. raw_packet_queue' \in Seq(Packets)  BY <2>1 DEF AssemblyTypes
  <2>3. received' \in [Lidars -> 0 .. MaxTick] /\ received'[l] <= now
        /\ \A k \in Lidars : k # l => received'[k] = received[k]
    <3>1. received' = [received EXCEPT ![l] = @ + 1] /\ received'[l] \in 1 .. now
      BY <1>1, PacketPoint
    <3>2. received'[l] \in 0 .. MaxTick  BY <3>1, AssemblyAssumption DEF AssemblyTypes
    <3>3. QED  BY <3>1, <3>2 DEF AssemblyTypes
  <2>4. QED  BY <1>1, <2>2, <2>3 DEF Packet, AssemblyTypes, handlerVars
<1>2. ASSUME NEW l \in Lidars, ClockChanges(l)  PROVE AssemblyTypes'
  BY <1>2 DEF ClockChanges, AssemblyTypes, handlerVars
<1>3. CASE Tick
  <2>1. now' \in 1 .. MaxTick /\ now' = now + 1 /\ now \in Nat
    <3>1. now < MaxTick /\ now' = now + 1  BY <1>3 DEF Tick
    <3>2. now \in 1 .. MaxTick /\ MaxTick \in Nat  BY AssemblyAssumption DEF AssemblyTypes
    <3>3. QED  BY <3>1, <3>2
  <2>2. \A l \in Lidars : received[l] \in Nat /\ received[l] <= now  BY DEF AssemblyTypes
  <2>3. \A l \in Lidars : received[l] < now'  BY <2>1, <2>2
  <2>4. QED  BY <1>3, <2>1, <2>2, <2>3 DEF Tick, AssemblyTypes, handlerVars
<1>4. CASE Process
  <2> DEFINE packet == Head(raw_packet_queue)
  <2>1. packet \in Packets /\ Tail(raw_packet_queue) \in Seq(Packets)  BY <1>4 DEF Process, AssemblyTypes
  <2>2. packet.lidar \in Lidars /\ packet.point \in Point  BY <2>1 DEF Packets
  <2>3. points_clouds' = [points_clouds EXCEPT ![packet.lidar] = Append(@, packet.point)]
    BY <1>4 DEF Process
  <2> HIDE DEF packet
  <2>4. points_clouds' \in [Lidars -> Seq(Point)]  BY <2>2, <2>3 DEF AssemblyTypes
  <2>5. checking' \in Lidars  BY <1>4, <2>2 DEF Process, packet
  <2>6. QED  BY <1>4, <2>1, <2>4, <2>5 DEF Process, AssemblyTypes, sdkVars
<1>5. CASE CheckTimerSynced
  <2>1. /\ points_clouds' \in [Lidars -> Seq(Point)] /\ points' \in [Lidars -> Seq(Point)]
        /\ published' \in [Lidars -> Seq(Nat)]
    <3>1. {checking} \in SUBSET Lidars  BY <1>5 DEF CheckTimerSynced, AssemblyTypes
    <3>2. CASE Publish({checking})  BY <3>1, <3>2, PublishTypes
    <3>3. CASE UNCHANGED <<points_clouds, points, published>>  BY <3>3 DEF AssemblyTypes
    <3>4. QED  BY <1>5, <3>2, <3>3 DEF CheckTimerSynced
  <2>2. QED  BY <1>5, <2>1 DEF CheckTimerSynced, AssemblyTypes, sdkVars
<1>6. CASE CheckTimerUnsynced
  <2>1. /\ points_clouds' \in [Lidars -> Seq(Point)] /\ points' \in [Lidars -> Seq(Point)]
        /\ published' \in [Lidars -> Seq(Nat)]
    <3>1. CASE Publish(Lidars)  BY <3>1, PublishTypes
    <3>2. CASE UNCHANGED <<points_clouds, points, published>>  BY <3>2 DEF AssemblyTypes
    <3>3. QED  BY <1>6, <3>1, <3>2 DEF CheckTimerUnsynced, InFrame, handlerVars
  <2>2. QED  BY <1>6, <2>1 DEF CheckTimerUnsynced, AssemblyTypes, sdkVars
<1>7. CASE Uninit  BY <1>7 DEF Uninit, AssemblyTypes, sdkVars, handlerVars
<1>8. CASE UNCHANGED frameVars  BY <1>8 DEF frameVars, AssemblyTypes, sdkVars, handlerVars
<1>9. QED  BY <1>1, <1>2, <1>3, <1>4, <1>5, <1>6, <1>7, <1>8 DEF FrameNext

-------------------------------------------------------------------------------
(* The numbers of points that are moved. *)

(* A point added to a cloud adds its number.                                *)
LEMMA NumbersAppend ==
  ASSUME NEW s \in Seq(Point), NEW x \in Point
  PROVE  /\ Numbers(s) \in Seq(Nat) /\ x.nr \in Nat
         /\ Numbers(Append(s, x)) = Append(Numbers(s), x.nr)
<1>1. \A y \in Point : y.nr \in Nat  BY AssemblyAssumption DEF Point
<1>2. QED  BY <1>1 DEF Numbers

(* A packet added to the queue adds the number of its point.                *)
LEMMA PacketNumbersAppend ==
  ASSUME NEW s \in Seq(Packets), NEW p \in Packets
  PROVE  /\ PacketNumbers(s) \in Seq(Nat) /\ p.point.nr \in Nat
         /\ PacketNumbers(Append(s, p)) = Append(PacketNumbers(s), p.point.nr)
<1>1. \A y \in Packets : y.point.nr \in Nat  BY AssemblyAssumption DEF Packets, Point
<1>2. QED  BY <1>1 DEF PacketNumbers

(* A packet before others has its number before theirs.                     *)
LEMMA PacketNumbersFirst ==
  ASSUME NEW s \in Seq(Packets), NEW p \in Packets
  PROVE  PacketNumbers(<<p>> \o s) = <<p.point.nr>> \o PacketNumbers(s)
<1>1. \A y \in Packets : y.point.nr \in Nat  BY AssemblyAssumption DEF Packets, Point
<1> DEFINE a == <<p>> \o s
           b == <<p.point.nr>> \o PacketNumbers(s)
<1>2. /\ a \in Seq(Packets) /\ Len(a) = Len(s) + 1 /\ a[1] = p
      /\ \A k \in 2 .. Len(s) + 1 : a[k] = s[k - 1]
  OBVIOUS
<1>3. PacketNumbers(s) \in Seq(Nat) /\ Len(PacketNumbers(s)) = Len(s)
      /\ \A k \in 1 .. Len(s) : PacketNumbers(s)[k] = s[k].point.nr
  BY <1>1 DEF PacketNumbers
<1>4. /\ b \in Seq(Nat) /\ Len(b) = Len(s) + 1 /\ b[1] = p.point.nr
      /\ \A k \in 2 .. Len(s) + 1 : b[k] = PacketNumbers(s)[k - 1]
  BY <1>1, <1>3
<1> HIDE DEF a, b
<1>5. /\ PacketNumbers(a) \in Seq(Nat) /\ Len(PacketNumbers(a)) = Len(s) + 1
      /\ \A k \in 1 .. Len(s) + 1 : PacketNumbers(a)[k] = a[k].point.nr
  BY <1>1, <1>2 DEF PacketNumbers
<1>6. \A k \in 1 .. Len(s) + 1 : k = 1 \/ (k \in 2 .. Len(s) + 1 /\ k - 1 \in 1 .. Len(s))
  OBVIOUS
<1>7. \A k \in 1 .. Len(s) + 1 : PacketNumbers(a)[k] = b[k]
  BY <1>2, <1>3, <1>4, <1>5, <1>6
<1>8. PacketNumbers(a) = b  BY <1>4, <1>5, <1>7, SeqEqual
<1>9. QED  BY <1>8 DEF a, b

(* One lidar's points, with P published, C in its cloud and Q in the queue. *)
InOrder(P, C, Q, n) == P \o C \o Q = [k \in 1 .. n |-> k]

(* Three sequences put together are the same either way.                    *)
LEMMA Associative ==
  ASSUME NEW a \in Seq(Nat), NEW b \in Seq(Nat), NEW c \in Seq(Nat)
  PROVE  (a \o b) \o c = a \o (b \o c)
BY ConcatAssociative, SMTT(30)

(* What is appended to the second of two sequences is appended to both.     *)
LEMMA AppendConcat ==
  ASSUME NEW a \in Seq(Nat), NEW b \in Seq(Nat), NEW x \in Nat
  PROVE  a \o Append(b, x) = Append(a \o b, x)
<1>1. <<x>> \in Seq(Nat) /\ a \o b \in Seq(Nat)  BY ConcatProperties
<1>2. Append(b, x) = b \o <<x>> /\ Append(a \o b, x) = (a \o b) \o <<x>>  BY <1>1, AppendIsConcat
<1>3. QED  BY <1>1, <1>2, Associative

(* The next point goes to the end of the queue.                             *)
LEMMA PointQueued ==
  ASSUME NEW P \in Seq(Nat), NEW C \in Seq(Nat), NEW Q \in Seq(Nat), NEW n \in Nat,
         InOrder(P, C, Q, n)
  PROVE  InOrder(P, C, Append(Q, n + 1), n + 1)
<1> DEFINE S == P \o C
           one == [k \in 1 .. n + 1 |-> k]
<1>1. S \in Seq(Nat) /\ S \o Q = [k \in 1 .. n |-> k]  BY DEF InOrder
<1> HIDE DEF S
<1>2. S \o Append(Q, n + 1) = Append(S \o Q, n + 1)
  <2>1. S \in Seq(Nat) /\ Q \in Seq(Nat) /\ n + 1 \in Nat  BY <1>1
  <2>2. QED  BY <2>1, AppendConcat
<1>3. Append([k \in 1 .. n |-> k], n + 1) = one
  <2>1. [k \in 1 .. n |-> k] \in Seq(Nat) /\ one \in Seq(Nat)  OBVIOUS
  <2>2. Len([k \in 1 .. n |-> k]) = n /\ Len(one) = n + 1  OBVIOUS
  <2>3. QED  BY <2>1, <2>2
<1>4. QED  BY <1>1, <1>2, <1>3 DEF S, InOrder

(* The first queued point goes to the end of the cloud.                     *)
LEMMA PointProcessed ==
  ASSUME NEW P \in Seq(Nat), NEW C \in Seq(Nat), NEW Q \in Seq(Nat), NEW n \in Nat, NEW x \in Nat,
         InOrder(P, C, <<x>> \o Q, n)
  PROVE  InOrder(P, Append(C, x), Q, n)
<1> DEFINE S == P \o C
<1>1. S \in Seq(Nat) /\ P \o Append(C, x) = Append(S, x)  BY AppendConcat
<1> HIDE DEF S
<1>2. Append(S, x) \o Q = S \o (<<x>> \o Q)
  <2>1. Append(S, x) = S \o <<x>> /\ <<x>> \in Seq(Nat)  BY <1>1
  <2>2. \A a, b, c \in Seq(Nat) : (a \o b) \o c = a \o (b \o c)  BY Associative
  <2>3. (S \o <<x>>) \o Q = S \o (<<x>> \o Q)  BY <1>1, <2>1, <2>2
  <2>4. QED  BY <2>1, <2>3
<1>3. QED  BY <1>1, <1>2 DEF InOrder, S

(* The cloud goes to the end of what is published.                          *)
LEMMA CloudPublished ==
  ASSUME NEW P \in Seq(Nat), NEW C \in Seq(Nat), NEW Q \in Seq(Nat), NEW n \in Nat,
         InOrder(P, C, Q, n)
  PROVE  InOrder(P \o C, << >>, Q, n)
<1> DEFINE S == P \o C
<1>1. S \in Seq(Nat)  OBVIOUS
<1> HIDE DEF S
<1>2. S \o << >> = S  BY <1>1
<1>3. QED  BY <1>2 DEF InOrder, S

(* The points of every lidar, each at the place of its number.              *)
OnceInv == \A l \in Lidars : InOrder(published[l], Numbers(points_clouds[l]), PacketNumbers(Queued(l)), received[l])

(* No points have no numbers.                                               *)
LEMMA NumbersOfNone == Numbers(<< >>) = << >> /\ PacketNumbers(<< >>) = << >>
BY DEF Numbers, PacketNumbers

(* At the start there is no point.                                          *)
LEMMA OnceInit == FrameInit => OnceInv
<1> SUFFICES ASSUME FrameInit, NEW l \in Lidars
             PROVE  InOrder(published[l], Numbers(points_clouds[l]), PacketNumbers(Queued(l)), received[l])
  BY DEF OnceInv
<1>1. published[l] = << >> /\ points_clouds[l] = << >> /\ received[l] = 0 /\ raw_packet_queue = << >>
  BY DEF FrameInit
<1>2. Queued(l) = << >>  BY <1>1, SelectEmpty DEF Queued
<1>3. << >> \o << >> \o << >> = [k \in 1 .. 0 |-> k]  OBVIOUS
<1>4. QED  BY <1>1, <1>2, <1>3, NumbersOfNone DEF InOrder

(* What is kept of the queue for one lidar is in it.                        *)
LEMMA QueuedTypes ==
  ASSUME AssemblyTypes, NEW l \in Lidars
  PROVE  /\ Queued(l) \in Seq(Packets) /\ PacketNumbers(Queued(l)) \in Seq(Nat)
         /\ Numbers(points_clouds[l]) \in Seq(Nat) /\ published[l] \in Seq(Nat) /\ received[l] \in Nat
<1>1. Queued(l) \in Seq(Packets \cap Of(l))  BY SelectType DEF AssemblyTypes, Queued
<1>2. Queued(l) \in Seq(Packets)  BY <1>1
<1>3. \A y \in Packets : y.point.nr \in Nat  BY AssemblyAssumption DEF Packets, Point
<1>4. \A y \in Point : y.nr \in Nat  BY AssemblyAssumption DEF Point
<1>5. PacketNumbers(Queued(l)) \in Seq(Nat)
  <2> DEFINE q == Queued(l)
  <2>1. Len(q) \in Nat /\ DOMAIN q = 1 .. Len(q) /\ \A k \in 1 .. Len(q) : q[k] \in Packets  BY <1>2
  <2> HIDE DEF q
  <2>2. PacketNumbers(q) \in [1 .. Len(q) -> Nat]  BY <1>3, <2>1 DEF PacketNumbers
  <2>3. PacketNumbers(q) \in Seq(Nat)  BY <2>1, <2>2
  <2>4. QED  BY <2>3 DEF q
<1>6. Numbers(points_clouds[l]) \in Seq(Nat)
  <2> DEFINE c == points_clouds[l]
  <2>1. c \in Seq(Point)  BY DEF AssemblyTypes
  <2> HIDE DEF c
  <2>2. Len(c) \in Nat /\ DOMAIN c = 1 .. Len(c) /\ \A k \in 1 .. Len(c) : c[k] \in Point  BY <2>1
  <2>3. Numbers(c) \in [1 .. Len(c) -> Nat]  BY <1>4, <2>2 DEF Numbers
  <2>4. Numbers(c) \in Seq(Nat)  BY <2>2, <2>3
  <2>5. QED  BY <2>4 DEF c
<1>7. QED  BY <1>2, <1>5, <1>6 DEF AssemblyTypes

(* The packets of a lidar are those with its name.                          *)
LEMMA OfLidar ==
  ASSUME NEW packet \in Packets, NEW l
  PROVE  packet \in Of(l) <=> packet.lidar = l
BY DEF Packets, Of

(* A packet goes to the end of its lidar's part of the queue.               *)
LEMMA OncePacket ==
  ASSUME AssemblyTypes, OnceInv, NEW l \in Lidars, Packet(l), NEW k \in Lidars
  PROVE  InOrder(published[k], Numbers(points_clouds[k]), PacketNumbers(Queued(k)), received[k])'
<1> DEFINE packet == [lidar |-> l, point |-> [nr |-> received'[l], offset_time |-> TimeStamp(l)]]
<1>1. packet \in Packets /\ packet.lidar = l /\ packet.point.nr = received'[l]
  BY PacketPoint DEF Packets
<1>2. raw_packet_queue' = Append(raw_packet_queue, packet) /\ UNCHANGED <<published, points_clouds>>
  BY DEF Packet, handlerVars
<1>3. received' = [received EXCEPT ![l] = @ + 1]  BY DEF Packet
<1> HIDE DEF packet
<1>4. Queued(k)' = IF packet \in Of(k) THEN Append(Queued(k), packet) ELSE Queued(k)
  <2>1. raw_packet_queue \in Seq(Packets)  BY DEF AssemblyTypes
  <2>2. Select(Append(raw_packet_queue, packet), Of(k)) =
          IF packet \in Of(k) THEN Append(Select(raw_packet_queue, Of(k)), packet)
          ELSE Select(raw_packet_queue, Of(k))
    BY <1>1, <2>1, SelectAppend
  <2>3. QED  BY <1>2, <2>2 DEF Queued
<1>5. /\ Queued(k) \in Seq(Packets) /\ PacketNumbers(Queued(k)) \in Seq(Nat)
      /\ Numbers(points_clouds[k]) \in Seq(Nat) /\ published[k] \in Seq(Nat) /\ received[k] \in Nat
  BY QueuedTypes
<1>6. InOrder(published[k], Numbers(points_clouds[k]), PacketNumbers(Queued(k)), received[k])
  BY DEF OnceInv
<1>7. CASE k = l
  <2>1. Queued(k)' = Append(Queued(k), packet)  BY <1>1, <1>4, <1>7, OfLidar
  <2>2. received'[k] = received[k] + 1  BY <1>3, <1>7 DEF AssemblyTypes
  <2>3. PacketNumbers(Append(Queued(k), packet)) = Append(PacketNumbers(Queued(k)), packet.point.nr)
    BY <1>1, <1>5, PacketNumbersAppend
  <2>4. PacketNumbers(Queued(k)') = Append(PacketNumbers(Queued(k)), received[k] + 1)
    BY <1>1, <1>7, <2>1, <2>2, <2>3
  <2>5. InOrder(published[k], Numbers(points_clouds[k]), Append(PacketNumbers(Queued(k)), received[k] + 1),
                received[k] + 1)
    BY <1>5, <1>6, PointQueued
  <2>6. QED  BY <1>2, <2>2, <2>4, <2>5
<1>8. CASE k # l
  <2>1. Queued(k)' = Queued(k)  BY <1>1, <1>4, <1>8, OfLidar
  <2>2. received'[k] = received[k]  BY <1>3, <1>8 DEF AssemblyTypes
  <2>3. QED  BY <1>2, <1>6, <2>1, <2>2
<1>9. QED  BY <1>7, <1>8

(* The head of the queue goes to the end of its lidar's cloud.              *)
LEMMA OnceProcess ==
  ASSUME AssemblyTypes, OnceInv, Process, NEW k \in Lidars
  PROVE  InOrder(published[k], Numbers(points_clouds[k]), PacketNumbers(Queued(k)), received[k])'
<1> DEFINE packet == Head(raw_packet_queue)
           rest == Select(Tail(raw_packet_queue), Of(k))
<1>1. packet \in Packets /\ raw_packet_queue \in Seq(Packets) /\ raw_packet_queue # << >>
      /\ Tail(raw_packet_queue) \in Seq(Packets)
  BY DEF Process, AssemblyTypes
<1>2. /\ raw_packet_queue' = Tail(raw_packet_queue) /\ UNCHANGED <<published, received>>
      /\ points_clouds' = [points_clouds EXCEPT ![packet.lidar] = Append(@, packet.point)]
  BY DEF Process, sdkVars
<1>3. Queued(k)' = rest  BY <1>2 DEF Queued
<1>4. rest \in Seq(Packets)
  <2>1. rest \in Seq(Packets \cap Of(k))  BY <1>1, SelectType
  <2>2. QED  BY <2>1
<1>5. Queued(k) = IF packet \in Of(k) THEN <<packet>> \o rest ELSE rest
  BY <1>1, SelectTail DEF Queued
<1>6. packet.lidar \in Lidars /\ packet.point \in Point  BY <1>1 DEF Packets
<1> HIDE DEF packet, rest
<1>7. /\ Numbers(points_clouds[k]) \in Seq(Nat) /\ published[k] \in Seq(Nat) /\ received[k] \in Nat
      /\ points_clouds[k] \in Seq(Point)
  BY QueuedTypes DEF AssemblyTypes
<1>8. InOrder(published[k], Numbers(points_clouds[k]), PacketNumbers(Queued(k)), received[k])
  BY DEF OnceInv
<1>9. CASE packet.lidar = k
  <2>1. Queued(k) = <<packet>> \o rest  BY <1>1, <1>5, <1>9, OfLidar
  <2>2. PacketNumbers(<<packet>> \o rest) = <<packet.point.nr>> \o PacketNumbers(rest)
    BY <1>1, <1>4, PacketNumbersFirst
  <2>3. PacketNumbers(rest) \in Seq(Nat) /\ packet.point.nr \in Nat
    BY <1>1, <1>4, PacketNumbersAppend
  <2>4. points_clouds'[k] = Append(points_clouds[k], packet.point)
    BY <1>2, <1>9 DEF AssemblyTypes
  <2>5. Numbers(points_clouds'[k]) = Append(Numbers(points_clouds[k]), packet.point.nr)
    BY <1>6, <1>7, <2>4, NumbersAppend
  <2>6. InOrder(published[k], Numbers(points_clouds[k]), <<packet.point.nr>> \o PacketNumbers(rest), received[k])
    BY <1>8, <2>1, <2>2
  <2>7. InOrder(published[k], Append(Numbers(points_clouds[k]), packet.point.nr), PacketNumbers(rest), received[k])
    BY <1>7, <2>3, <2>6, PointProcessed
  <2>8. QED  BY <1>2, <1>3, <2>5, <2>7
<1>10. CASE packet.lidar # k
  <2>1. Queued(k) = rest  BY <1>1, <1>5, <1>10, OfLidar
  <2>2. points_clouds'[k] = points_clouds[k]  BY <1>2, <1>10 DEF AssemblyTypes
  <2>3. QED  BY <1>2, <1>3, <1>8, <2>1, <2>2
<1>11. QED  BY <1>9, <1>10

(* A cloud goes to the end of what is published.                            *)
LEMMA OncePublish ==
  ASSUME AssemblyTypes, OnceInv, NEW ls \in SUBSET Lidars, Publish(ls),
         UNCHANGED <<raw_packet_queue, received>>, NEW k \in Lidars
  PROVE  InOrder(published[k], Numbers(points_clouds[k]), PacketNumbers(Queued(k)), received[k])'
<1>1. /\ Numbers(points_clouds[k]) \in Seq(Nat) /\ published[k] \in Seq(Nat) /\ received[k] \in Nat
      /\ PacketNumbers(Queued(k)) \in Seq(Nat)
  BY QueuedTypes
<1>2. InOrder(published[k], Numbers(points_clouds[k]), PacketNumbers(Queued(k)), received[k])
  BY DEF OnceInv
<1>3. Queued(k)' = Queued(k)  BY DEF Queued
<1>4. IF k \in ls
      THEN points_clouds'[k] = << >> /\ published'[k] = published[k] \o Numbers(points_clouds[k])
      ELSE UNCHANGED <<points_clouds[k], published[k]>>
  BY PublishTypes
<1>5. InOrder(published[k] \o Numbers(points_clouds[k]), << >>, PacketNumbers(Queued(k)), received[k])
  BY <1>1, <1>2, CloudPublished
<1>6. QED  BY <1>2, <1>3, <1>4, <1>5, NumbersOfNone

(* Every step keeps the points in their places.                             *)
LEMMA OnceStep ==
  ASSUME AssemblyTypes, OnceInv, [FrameNext]_frameVars
  PROVE  OnceInv'
<1> SUFFICES ASSUME NEW k \in Lidars
             PROVE  InOrder(published[k], Numbers(points_clouds[k]), PacketNumbers(Queued(k)), received[k])'
  BY DEF OnceInv
<1>1. CASE UNCHANGED <<raw_packet_queue, received, points_clouds, published>>
  BY <1>1 DEF OnceInv, Queued
<1>2. ASSUME NEW ls \in SUBSET Lidars, Publish(ls), UNCHANGED <<raw_packet_queue, received>>
      PROVE  InOrder(published[k], Numbers(points_clouds[k]), PacketNumbers(Queued(k)), received[k])'
  BY <1>2, OncePublish
<1>3. CASE \E l \in Lidars : Packet(l)  BY <1>3, OncePacket
<1>4. CASE \E l \in Lidars : ClockChanges(l)  BY <1>1, <1>4 DEF ClockChanges, handlerVars
<1>5. CASE Tick  BY <1>1, <1>5 DEF Tick, handlerVars
<1>6. CASE Process  BY <1>6, OnceProcess
<1>7. CASE CheckTimerSynced
  <2>1. {checking} \in SUBSET Lidars  BY <1>7 DEF CheckTimerSynced, AssemblyTypes
  <2>2. UNCHANGED <<raw_packet_queue, received>>  BY <1>7 DEF CheckTimerSynced, sdkVars
  <2>3. Publish({checking}) \/ UNCHANGED <<points_clouds, published>>  BY <1>7 DEF CheckTimerSynced
  <2>4. QED  BY <1>1, <1>2, <2>1, <2>2, <2>3
<1>8. CASE CheckTimerUnsynced
  <2>1. UNCHANGED <<raw_packet_queue, received>>  BY <1>8 DEF CheckTimerUnsynced, sdkVars
  <2>2. Publish(Lidars) \/ UNCHANGED <<points_clouds, published>>
    BY <1>8 DEF CheckTimerUnsynced, InFrame, handlerVars
  <2>3. QED  BY <1>1, <1>2, <2>1, <2>2
<1>9. CASE Uninit  BY <1>1, <1>9 DEF Uninit, sdkVars, handlerVars
<1>10. CASE UNCHANGED frameVars  BY <1>1, <1>10 DEF frameVars, sdkVars, handlerVars
<1>11. QED  BY <1>3, <1>4, <1>5, <1>6, <1>7, <1>8, <1>9, <1>10 DEF FrameNext

(* Every point received is published once and in its place, in the cloud or *)
(* in the queue: over any changes between the two branches of CheckTimer.   *)
THEOREM PointsPublishedOnce == FrameSpec => []EveryPointOnce
<1>1. OnceInv => EveryPointOnce
  BY DEF OnceInv, InOrder, Numbers, PacketNumbers, Queued, Of, EveryPointOnce
<1>2. AssemblyTypes /\ [FrameNext]_frameVars => AssemblyTypes'  BY TypesStep
<1>3. AssemblyTypes /\ OnceInv /\ [FrameNext]_frameVars => OnceInv'  BY OnceStep
<1>4. QED  BY TypesInit, OnceInit, <1>1, <1>2, <1>3, PTL DEF FrameSpec

-------------------------------------------------------------------------------
(* Frames of lidars none of whose clocks was ever synchronised: points are  *)
(* queued in the order of their time stamps, and a frame takes all of them  *)
(* that have been processed.                                                *)
CutInv ==
  NeverSynced =>
    /\ ~is_timestamp_sync
    /\ UnsyncedFramesCut
    /\ \A i, j \in DOMAIN raw_packet_queue : i < j =>
         raw_packet_queue[i].point.offset_time <= raw_packet_queue[j].point.offset_time
    /\ \A j \in DOMAIN raw_packet_queue : raw_packet_queue[j].point.offset_time <= now
    /\ \A l \in Lidars : \A i \in DOMAIN points_clouds[l] :
         /\ points_clouds[l][i].offset_time <= now
         /\ \A j \in DOMAIN raw_packet_queue :
              points_clouds[l][i].offset_time <= raw_packet_queue[j].point.offset_time
    /\ \A l \in Lidars : \A i \in DOMAIN points[l] :
         /\ points[l][i].offset_time <= now
         /\ \A j \in DOMAIN raw_packet_queue :
              points[l][i].offset_time <= raw_packet_queue[j].point.offset_time

(* Every time stamp is a number.                                            *)
LEMMA StampNumbers ==
  ASSUME AssemblyTypes
  PROVE  /\ now \in Nat
         /\ \A j \in DOMAIN raw_packet_queue : raw_packet_queue[j].point.offset_time \in Nat
         /\ \A l \in Lidars : \A i \in DOMAIN points_clouds[l] : points_clouds[l][i].offset_time \in Nat
         /\ \A l \in Lidars : \A i \in DOMAIN points[l] : points[l][i].offset_time \in Nat
<1>1. \A x \in Point : x.offset_time \in Nat  BY AssemblyAssumption DEF Point, Stamps
<1>2. \A y \in Packets : y.point.offset_time \in Nat  BY <1>1 DEF Packets
<1>3. now \in Nat  BY AssemblyAssumption DEF AssemblyTypes
<1>4. \A j \in DOMAIN raw_packet_queue : raw_packet_queue[j] \in Packets
  BY DEF AssemblyTypes
<1>5. \A l \in Lidars : (\A i \in DOMAIN points_clouds[l] : points_clouds[l][i] \in Point)
                        /\ \A i \in DOMAIN points[l] : points[l][i] \in Point
  <2>1. \A s \in Seq(Point) : \A i \in DOMAIN s : s[i] \in Point  OBVIOUS
  <2>2. QED  BY <2>1 DEF AssemblyTypes
<1>6. QED  BY <1>1, <1>2, <1>3, <1>4, <1>5

(* The newest packet is queued last.                                        *)
LEMMA CutPacket ==
  ASSUME AssemblyTypes, CutInv, NeverSynced, NEW l \in Lidars, Packet(l)
  PROVE  CutInv'
<1> DEFINE packet == [lidar |-> l, point |-> [nr |-> received'[l], offset_time |-> TimeStamp(l)]]
           n == Len(raw_packet_queue)
<1>1. packet \in Packets /\ packet.point.offset_time = now
  BY PacketPoint DEF Packets, TimeStamp, NeverSynced
<1>2. /\ raw_packet_queue' = Append(raw_packet_queue, packet)
      /\ UNCHANGED <<now, points, points_clouds>> /\ ~is_timestamp_sync'
  BY DEF Packet, handlerVars, NeverSynced
<1> HIDE DEF packet
<1>3. /\ n \in Nat /\ DOMAIN raw_packet_queue = 1 .. n /\ DOMAIN raw_packet_queue' = 1 .. n + 1
      /\ \A j \in 1 .. n + 1 : raw_packet_queue'[j] = IF j = n + 1 THEN packet ELSE raw_packet_queue[j]
  <2>1. raw_packet_queue \in Seq(Packets)  BY DEF AssemblyTypes
  <2>2. QED  BY <1>1, <1>2, <2>1
<1> HIDE DEF n
<1>4. \A j \in 1 .. n + 1 : j # n + 1 => j \in 1 .. n  BY <1>3
<1>5. now \in Nat  BY StampNumbers
<1>6. \A i, j \in 1 .. n + 1 : i < j =>
        raw_packet_queue'[i].point.offset_time <= raw_packet_queue'[j].point.offset_time
  <2> SUFFICES ASSUME NEW i \in 1 .. n + 1, NEW j \in 1 .. n + 1, i < j
               PROVE  raw_packet_queue'[i].point.offset_time <= raw_packet_queue'[j].point.offset_time
    OBVIOUS
  <2>1. i \in 1 .. n  BY <1>3
  <2>2. i # n + 1  BY <1>3, <2>1
  <2>3. QED  BY <1>1, <1>3, <1>4, <2>1, <2>2 DEF CutInv
<1>7. \A j \in 1 .. n + 1 : raw_packet_queue'[j].point.offset_time <= now
  BY <1>1, <1>3, <1>4, <1>5 DEF CutInv
<1>8. \A k \in Lidars : \A i \in DOMAIN points_clouds[k] : \A j \in 1 .. n + 1 :
        points_clouds[k][i].offset_time <= raw_packet_queue'[j].point.offset_time
  BY <1>1, <1>3, <1>4 DEF CutInv
<1>9. \A k \in Lidars : \A i \in DOMAIN points[k] : \A j \in 1 .. n + 1 :
        points[k][i].offset_time <= raw_packet_queue'[j].point.offset_time
  BY <1>1, <1>3, <1>4 DEF CutInv
<1>10. QED  BY <1>2, <1>3, <1>6, <1>7, <1>8, <1>9 DEF CutInv, UnsyncedFramesCut

(* The oldest packet goes to its lidar's cloud.                             *)
LEMMA CutProcess ==
  ASSUME AssemblyTypes, CutInv, NeverSynced, Process
  PROVE  CutInv'
<1> DEFINE packet == Head(raw_packet_queue)
<1>1. /\ raw_packet_queue \in Seq(Packets) /\ raw_packet_queue # << >> /\ packet \in Packets
      /\ 1 \in DOMAIN raw_packet_queue /\ packet = raw_packet_queue[1]
      /\ \A j \in DOMAIN raw_packet_queue' :
           /\ j + 1 \in DOMAIN raw_packet_queue /\ raw_packet_queue'[j] = raw_packet_queue[j + 1]
           /\ j \in Nat /\ 1 < j + 1
  BY DEF Process, AssemblyTypes
<1>2. /\ points_clouds' = [points_clouds EXCEPT ![packet.lidar] = Append(@, packet.point)]
      /\ UNCHANGED <<now, is_timestamp_sync, points>>
  BY DEF Process, sdkVars
<1>3. packet.lidar \in Lidars /\ packet.point \in Point  BY <1>1 DEF Packets
<1> HIDE DEF packet
<1>4. \A l \in Lidars : \A i \in DOMAIN points_clouds'[l] :
        \/ i \in DOMAIN points_clouds[l] /\ points_clouds'[l][i] = points_clouds[l][i]
        \/ points_clouds'[l][i] = packet.point
  <2> SUFFICES ASSUME NEW l \in Lidars, NEW i \in DOMAIN points_clouds'[l]
               PROVE  \/ i \in DOMAIN points_clouds[l] /\ points_clouds'[l][i] = points_clouds[l][i]
                      \/ points_clouds'[l][i] = packet.point
    OBVIOUS
  <2>1. points_clouds[l] \in Seq(Point)  BY DEF AssemblyTypes
  <2>2. CASE packet.lidar = l
    <3>1. points_clouds'[l] = Append(points_clouds[l], packet.point)  BY <1>2, <2>2 DEF AssemblyTypes
    <3>2. QED  BY <1>3, <2>1, <3>1
  <2>3. CASE packet.lidar # l
    <3>1. points_clouds'[l] = points_clouds[l]  BY <1>2, <2>3 DEF AssemblyTypes
    <3>2. QED  BY <3>1
  <2>4. QED  BY <2>2, <2>3
<1>5. \A j \in DOMAIN raw_packet_queue' : packet.point.offset_time <= raw_packet_queue'[j].point.offset_time
  BY <1>1 DEF CutInv
<1>6. packet.point.offset_time <= now  BY <1>1 DEF CutInv
<1>7. \A l \in Lidars : \A i \in DOMAIN points[l] : points[l][i].offset_time <= packet.point.offset_time
  BY <1>1 DEF CutInv
<1>8. UnsyncedFramesCut'
  <2> SUFFICES ASSUME NEW l \in Lidars, NEW g \in Lidars,
                      NEW i \in DOMAIN points[g], NEW j \in DOMAIN points_clouds'[l]
               PROVE  points[g][i].offset_time <= points_clouds'[l][j].offset_time
    BY <1>2 DEF UnsyncedFramesCut
  <2>1. CASE j \in DOMAIN points_clouds[l] /\ points_clouds'[l][j] = points_clouds[l][j]
    BY <2>1 DEF CutInv, UnsyncedFramesCut
  <2>2. CASE points_clouds'[l][j] = packet.point  BY <1>7, <2>2
  <2>3. QED  BY <1>4, <2>1, <2>2
<1>9. \A i, j \in DOMAIN raw_packet_queue' : i < j =>
        raw_packet_queue'[i].point.offset_time <= raw_packet_queue'[j].point.offset_time
  BY <1>1 DEF CutInv
<1>10. \A j \in DOMAIN raw_packet_queue' : raw_packet_queue'[j].point.offset_time <= now
  BY <1>1 DEF CutInv
<1>11. \A l \in Lidars : \A i \in DOMAIN points_clouds'[l] :
         /\ points_clouds'[l][i].offset_time <= now
         /\ \A j \in DOMAIN raw_packet_queue' :
              points_clouds'[l][i].offset_time <= raw_packet_queue'[j].point.offset_time
  BY <1>1, <1>4, <1>5, <1>6 DEF CutInv
<1>12. \A l \in Lidars : \A i \in DOMAIN points[l] :
         /\ points[l][i].offset_time <= now
         /\ \A j \in DOMAIN raw_packet_queue' :
              points[l][i].offset_time <= raw_packet_queue'[j].point.offset_time
  BY <1>1 DEF CutInv
<1>13. QED  BY <1>2, <1>8, <1>9, <1>10, <1>11, <1>12 DEF CutInv

(* A frame takes all clouds.                                                *)
LEMMA CutCheck ==
  ASSUME AssemblyTypes, CutInv, NeverSynced, CheckTimerUnsynced
  PROVE  CutInv'
<1>1. UNCHANGED <<now, is_timestamp_sync, raw_packet_queue>>  BY DEF CheckTimerUnsynced, sdkVars
<1>2. CASE UNCHANGED <<points, points_clouds>>  BY <1>1, <1>2 DEF CutInv, UnsyncedFramesCut
<1>3. CASE Publish(Lidars)
  <2>1. \A l \in Lidars : points_clouds'[l] = << >> /\ points'[l] = points_clouds[l]
    BY <1>3, PublishTypes
  <2>2. UnsyncedFramesCut'  BY <2>1 DEF UnsyncedFramesCut
  <2>3. QED  BY <1>1, <2>1, <2>2 DEF CutInv
<1>4. QED  BY <1>2, <1>3 DEF CheckTimerUnsynced, InFrame, handlerVars

(* Every step keeps the order of the points.                                *)
LEMMA CutStep ==
  ASSUME AssemblyTypes, changes \in Nat, CutInv, [FrameNext]_frameVars
  PROVE  CutInv'
<1> SUFFICES ASSUME NeverSynced'  PROVE CutInv'  BY DEF CutInv
<1>1. ASSUME NEW l \in Lidars, ClockChanges(l)  PROVE FALSE
  <2>1. changes' = changes + 1  BY <1>1 DEF ClockChanges
  <2>2. QED  BY <2>1 DEF NeverSynced
<1>2. UNCHANGED <<synchronised, changes>>
  BY <1>1 DEF FrameNext, frameVars, Packet, Tick, Process, CheckTimerSynced, CheckTimerUnsynced, Uninit, sdkVars
<1>3. NeverSynced  BY <1>2 DEF NeverSynced
<1>4. CASE UNCHANGED <<now, is_timestamp_sync, raw_packet_queue, points, points_clouds>>
  BY <1>3, <1>4 DEF CutInv, UnsyncedFramesCut
<1>5. CASE Tick
  <2>1. now' = now + 1 /\ UNCHANGED <<is_timestamp_sync, raw_packet_queue, points, points_clouds>>
    BY <1>5 DEF Tick, handlerVars
  <2>2. now \in Nat /\ \A x \in Nat : x <= now => x <= now'  BY <2>1, StampNumbers
  <2>3. QED  BY <1>3, <2>1, <2>2, StampNumbers DEF CutInv, UnsyncedFramesCut
<1>6. CASE \E l \in Lidars : Packet(l)  BY <1>3, <1>6, CutPacket
<1>7. CASE Process  BY <1>3, <1>7, CutProcess
<1>8. CASE CheckTimerUnsynced  BY <1>3, <1>8, CutCheck
<1>9. CASE CheckTimerSynced  BY <1>3, <1>9 DEF CutInv, CheckTimerSynced
<1>10. CASE Uninit \/ UNCHANGED frameVars  BY <1>4, <1>10 DEF Uninit, frameVars, sdkVars, handlerVars
<1>11. QED  BY <1>1, <1>5, <1>6, <1>7, <1>8, <1>9, <1>10 DEF FrameNext

(* Without synchronised clocks no point waits for a later frame that is     *)
(* older than one, of whichever lidar, in the frame published last.         *)
THEOREM FramesCutTogether == FrameSpec => []UnsyncedFramesCut
<1> DEFINE Counted == changes \in Nat
<1>1. FrameInit => CutInv
  <2> SUFFICES ASSUME FrameInit  PROVE CutInv  OBVIOUS
  <2>1. \A l \in Lidars : DOMAIN points[l] = {} /\ DOMAIN points_clouds[l] = {}  BY DEF FrameInit
  <2>2. DOMAIN raw_packet_queue = {} /\ ~is_timestamp_sync  BY DEF FrameInit
  <2>3. QED  BY <2>1, <2>2 DEF CutInv, UnsyncedFramesCut
<1>2. CutInv => UnsyncedFramesCut  BY DEF CutInv, UnsyncedFramesCut
<1>3. FrameInit => Counted  BY DEF FrameInit
<1>4. Counted /\ [FrameNext]_frameVars => Counted'
  <2> SUFFICES ASSUME Counted, [FrameNext]_frameVars  PROVE changes' \in Nat  OBVIOUS
  <2>1. CASE \E l \in Lidars : ClockChanges(l)
    <3>1. changes' = changes + 1  BY <2>1 DEF ClockChanges
    <3>2. QED  BY <3>1
  <2>2. CASE UNCHANGED changes  BY <2>2
  <2>3. UNCHANGED changes \/ \E l \in Lidars : ClockChanges(l)
    BY DEF FrameNext, frameVars, Packet, Tick, Process, CheckTimerSynced, CheckTimerUnsynced, Uninit, sdkVars
  <2>4. QED  BY <2>1, <2>2, <2>3
<1>5. AssemblyTypes /\ [FrameNext]_frameVars => AssemblyTypes'  BY TypesStep
<1>6. AssemblyTypes /\ Counted /\ CutInv /\ [FrameNext]_frameVars => CutInv'  BY CutStep
<1> HIDE DEF Counted
<1>7. QED  BY TypesInit, <1>1, <1>2, <1>3, <1>4, <1>5, <1>6, PTL DEF FrameSpec

-------------------------------------------------------------------------------
(* Frames of a lidar with a synchronised clock that loses no packet: its    *)
(* points have consecutive time stamps, and a frame ends with the k-th      *)
(* point after the time stamp b if it is in a millisecond in which frames   *)
(* end and far enough from the first.                                       *)
Ends(t) == (t \div TicksPerMs) % IntervalMs = 0 /\ t \div TicksPerMs # 0
Due(b, k) == Ends(b + k) /\ k - 1 >= Tolerance

(* The interval, the grid and the tolerance, in ticks: the grid has as many *)
(* whole milliseconds as the interval.                                      *)
LEMMA Lengths ==
  /\ TicksPerMs \in Nat \ {0} /\ IntervalMs \in Nat \ {0}
  /\ Grid \in Nat \ {0} /\ Grid = IntervalMs * TicksPerMs
  /\ Interval \in Nat /\ Interval - Grid \in 0 .. TicksPerMs - 1
  /\ Tolerance \in Nat /\ Tolerance = Interval - TicksPerMs
<1>1. TicksPerMs \in Nat \ {0} /\ Interval \in Nat /\ Interval >= 2 * TicksPerMs
  BY AssemblyAssumption
<1>2. PICK q \in Nat, r \in 0 .. TicksPerMs - 1 : Interval = TicksPerMs * q + r /\ q = Interval \div TicksPerMs
  BY <1>1, Division
<1>3. q # 0
  <2>1. ASSUME q = 0  PROVE FALSE
    <3>1. TicksPerMs * q = 0  BY <1>1, <2>1
    <3>2. Interval < TicksPerMs  BY <1>1, <1>2, <3>1
    <3>3. QED  BY <1>1, <3>2
  <2>2. QED  BY <2>1
<1>4. IntervalMs = q  BY <1>2 DEF IntervalMs
<1>5. Grid = TicksPerMs * q /\ TicksPerMs * q \in Nat /\ TicksPerMs * q # 0
  BY <1>1, <1>3, <1>4 DEF Grid
<1>6. Interval - Grid = r  BY <1>1, <1>2, <1>5
<1>7. QED  BY <1>1, <1>3, <1>4, <1>5, <1>6 DEF Grid, Tolerance

(* Products grow with their factors.                                        *)
LEMMA Products ==
  ASSUME NEW c \in Nat, NEW x \in Nat, NEW y \in Nat, x < y
  PROVE  c * y >= c * x + c
<1> DEFINE d == y - x - 1
<1>1. d \in Nat /\ y = x + 1 + d  OBVIOUS
<1> HIDE DEF d
<1>2. c * y = c * x + c + c * d  BY <1>1
<1>3. c * d \in Nat /\ c * x \in Nat  BY <1>1
<1>4. QED  BY <1>2, <1>3

(* Every tick of a millisecond that is a multiple of the grid is one that a *)
(* frame may end with.                                                      *)
LEMMA EndsAt ==
  ASSUME NEW a \in Nat \ {0}, NEW i \in 0 .. TicksPerMs - 1
  PROVE  a * Grid + i \in Nat /\ Ends(a * Grid + i)
<1>1. TicksPerMs \in Nat \ {0} /\ IntervalMs \in Nat \ {0} /\ Grid = IntervalMs * TicksPerMs
  BY Lengths
<1> DEFINE m == a * IntervalMs
<1>2. m \in Nat /\ m # 0 /\ m % IntervalMs = 0  BY <1>1
<1>3. a * Grid = m * TicksPerMs  BY <1>1
<1> HIDE DEF m
<1> DEFINE t == m * TicksPerMs + i
<1>4. t \in Nat  BY <1>1, <1>2
<1>5. t \div TicksPerMs = m
  <2>1. PICK q \in Nat, r \in 0 .. TicksPerMs - 1 : t = TicksPerMs * q + r /\ q = t \div TicksPerMs
    <3> HIDE DEF t
    <3>1. QED  BY <1>1, <1>4, Division
  <2>2. TicksPerMs * q + r = TicksPerMs * m + i  BY <1>1, <1>2, <2>1
  <2>3. q = m
    <3> HIDE DEF t
    <3>1. ASSUME q < m  PROVE FALSE
      <4>1. TicksPerMs * m >= TicksPerMs * q + TicksPerMs  BY <1>1, <1>2, <3>1, Products
      <4>2. r < TicksPerMs /\ r \in Int /\ i \in Nat /\ TicksPerMs \in Int  BY <1>1
      <4>3. TicksPerMs * m \in Int /\ TicksPerMs * q \in Int  BY <1>1, <1>2
      <4> DEFINE x == TicksPerMs * m
                 y == TicksPerMs * q
      <4>4. x >= y + TicksPerMs /\ y + r = x + i /\ x \in Int /\ y \in Int  BY <2>2, <4>1, <4>3
      <4> HIDE DEF x, y
      <4>5. QED  BY <4>2, <4>4
    <3>2. ASSUME q > m  PROVE FALSE
      <4>1. TicksPerMs * q >= TicksPerMs * m + TicksPerMs  BY <1>1, <1>2, <3>2, Products
      <4>2. i < TicksPerMs /\ i \in Int /\ r \in Nat /\ TicksPerMs \in Int  BY <1>1
      <4>3. TicksPerMs * m \in Int /\ TicksPerMs * q \in Int  BY <1>1, <1>2
      <4> DEFINE x == TicksPerMs * q
                 y == TicksPerMs * m
      <4>4. x >= y + TicksPerMs /\ x + r = y + i /\ x \in Int /\ y \in Int  BY <2>2, <4>1, <4>3
      <4> HIDE DEF x, y
      <4>5. QED  BY <4>2, <4>4
    <3>3. QED  BY <1>2, <3>1, <3>2
  <2>4. QED  BY <2>1, <2>3
<1> HIDE DEF t
<1>6. Ends(t)  BY <1>2, <1>5 DEF Ends
<1>7. QED  BY <1>3, <1>4, <1>6 DEF t

(* A frame is due in less than two steps of the grid, and in one after a    *)
(* frame: at the first tick of the next multiple, or, if the last frame     *)
(* ended late in its millisecond, with the tick that makes the frame long   *)
(* enough.                                                                  *)
LEMMA NextEnd ==
  ASSUME NEW b \in Nat
  PROVE  \E k \in Nat : Due(b, k) /\ k < 2 * Grid /\ (Ends(b) => k <= Grid)
<1>1. /\ TicksPerMs \in Nat \ {0} /\ IntervalMs \in Nat \ {0}
      /\ Grid \in Nat \ {0} /\ Grid = IntervalMs * TicksPerMs /\ Interval \in Nat
      /\ Interval - Grid \in 0 .. TicksPerMs - 1
      /\ Tolerance \in Nat /\ Tolerance = Interval - TicksPerMs
  BY Lengths
<1>2. CASE Ends(b)
  <2>1. PICK q \in Nat, r \in 0 .. TicksPerMs - 1 : b = TicksPerMs * q + r /\ q = b \div TicksPerMs
    BY <1>1, Division
  <2>2. q % IntervalMs = 0 /\ q # 0  BY <1>2, <2>1 DEF Ends
  <2>3. PICK a \in Nat : q = IntervalMs * a
    <3>1. PICK a \in Nat, t \in 0 .. IntervalMs - 1 : q = IntervalMs * a + t /\ t = q % IntervalMs
      BY <1>1, Division
    <3>2. t = 0  BY <2>2, <3>1
    <3>3. IntervalMs * a \in Nat  BY <1>1
    <3>4. q = IntervalMs * a  BY <1>1, <3>1, <3>2, <3>3
    <3>5. QED  BY <3>4
  <2> DEFINE late == r + (Interval - Grid) + 1 - TicksPerMs
             i == IF late > 0 THEN late ELSE 0
             k == Grid + i - r
             e == (a + 1) * Grid + i
  <2>4. i \in 0 .. TicksPerMs - 1 /\ i <= r /\ i >= late /\ i >= 0  BY <1>1, <2>1
  <2>5. e \in Nat /\ Ends(e)
    <3>1. a + 1 \in Nat \ {0}  OBVIOUS
    <3> HIDE DEF i
    <3>2. QED  BY <2>4, <3>1, EndsAt
  <2>6. e = b + k
    <3>1. TicksPerMs * q = a * Grid
      <4>1. TicksPerMs * (IntervalMs * a) = a * (IntervalMs * TicksPerMs)  BY <1>1
      <4>2. QED  BY <1>1, <2>3, <4>1
    <3>2. (a + 1) * Grid = a * Grid + Grid /\ a * Grid \in Nat  BY <1>1
    <3> HIDE DEF i
    <3>3. QED  BY <1>1, <2>1, <2>4, <3>1, <3>2
  <2>7. k \in Nat /\ k - 1 >= Tolerance /\ k <= Grid /\ k < 2 * Grid
    <3>1. k \in Int /\ k <= Grid  BY <1>1, <2>1, <2>4
    <3>2. k - 1 >= Tolerance
      <4> HIDE DEF i
      <4>1. QED  BY <1>1, <2>1, <2>4
    <3> HIDE DEF k
    <3>3. QED  BY <1>1, <3>1, <3>2
  <2> HIDE DEF k, e, i
  <2>8. QED  BY <2>5, <2>6, <2>7 DEF Due
<1>3. CASE ~Ends(b)
  <2> DEFINE y == b + Tolerance
  <2>1. y \in Nat  BY <1>1
  <2>2. PICK q \in Nat, r \in 0 .. Grid - 1 : y = Grid * q + r
    <3> HIDE DEF y
    <3>1. QED  BY <1>1, <2>1, Division
  <2> DEFINE e == (q + 1) * Grid
             k == e - b
  <2>3. e \in Nat /\ Ends(e)
    <3>1. q + 1 \in Nat \ {0} /\ 0 \in 0 .. TicksPerMs - 1  BY <1>1
    <3>2. (q + 1) * Grid + 0 \in Nat /\ Ends((q + 1) * Grid + 0)  BY <3>1, EndsAt
    <3>3. (q + 1) * Grid + 0 = (q + 1) * Grid  BY <1>1
    <3>4. QED  BY <3>2, <3>3
  <2>4. e = Grid * q + Grid /\ Grid * q \in Nat  BY <1>1
  <2> HIDE DEF e
  <2>5. k \in Nat /\ k - 1 >= Tolerance /\ k < 2 * Grid /\ b + k = e
    BY <1>1, <2>2, <2>3, <2>4
  <2> HIDE DEF k
  <2>6. QED  BY <1>3, <2>3, <2>5 DEF Due
<1>4. QED  BY <1>2, <1>3

(* The time stamps of a lidar, as long as all are synchronised.             *)
Stamped(x) == x.offset_time = x.nr + ClockOffset
StampedAll(l) ==
  /\ received[l] = IF l \in sent THEN now ELSE now - 1
  /\ \A j \in 1 .. Len(raw_packet_queue) :
       raw_packet_queue[j].lidar = l => Stamped(raw_packet_queue[j].point)
  /\ \A j \in 1 .. Len(points_clouds[l]) : Stamped(points_clouds[l][j])

(* Its frames: the last one ended where one may, and of the points since    *)
(* only one that has just arrived may be the end of the next.               *)
LastEnd(l) == Len(published[l]) + ClockOffset
Framed(l) ==
  /\ frame_count[l] >= 1 => Ends(LastEnd(l))
  /\ frame_count[l] = 2 => Len(points[l]) > Tolerance /\ Len(points[l]) <= Grid
  /\ checking = l => points_clouds[l] # << >>
  /\ \A k \in 1 .. Len(points_clouds[l]) :
       Due(LastEnd(l), k) => checking = l /\ k = Len(points_clouds[l])

HistoryTypes ==
  lost \in [Lidars -> Nat] /\ frame_count \in [Lidars -> 0 .. 2] /\ changes \in Nat
FlagInv == raw_packet_queue # << >> \/ checking # NoLidar => is_timestamp_sync
SyncInv ==
  /\ HistoryTypes
  /\ NeverUnsynced => FlagInv /\ \A l \in Lidars : lost[l] = 0 => StampedAll(l) /\ Framed(l)

(* No time stamps and no frames at the start.                               *)
LEMMA SyncInit == FrameInit => SyncInv
<1> SUFFICES ASSUME FrameInit  PROVE SyncInv  OBVIOUS
<1>1. HistoryTypes /\ FlagInv  BY DEF FrameInit, HistoryTypes, FlagInv
<1>2. ASSUME NEW l \in Lidars  PROVE StampedAll(l) /\ Framed(l)
  <2>1. /\ received[l] = 0 /\ sent = {} /\ now = 1 /\ raw_packet_queue = << >>
        /\ points_clouds[l] = << >> /\ frame_count[l] = 0 /\ checking = NoLidar
    BY DEF FrameInit
  <2>2. NoLidar # l  BY AssemblyAssumption
  <2>3. StampedAll(l)  BY <2>1 DEF StampedAll
  <2>4. Framed(l)  BY <2>1, <2>2 DEF Framed
  <2>5. QED  BY <2>3, <2>4
<1>3. QED  BY <1>1, <1>2 DEF SyncInv

(* The numbers in a cloud carry on from what is published.                  *)
LEMMA CloudNumbers ==
  ASSUME AssemblyTypes, OnceInv, NEW l \in Lidars, NEW j \in 1 .. Len(points_clouds[l])
  PROVE  points_clouds[l][j].nr = Len(published[l]) + j
<1> DEFINE P == published[l]
           C == Numbers(points_clouds[l])
           Q == PacketNumbers(Queued(l))
           n == received[l]
           p == Len(P)
<1>1. C \in Seq(Nat) /\ P \in Seq(Nat) /\ Q \in Seq(Nat) /\ n \in Nat
  BY QueuedTypes
<1>2. Len(C) = Len(points_clouds[l]) /\ C[j] = points_clouds[l][j].nr
  <2>1. points_clouds[l] \in Seq(Point)  BY DEF AssemblyTypes
  <2>2. QED  BY <2>1 DEF Numbers
<1>3. InOrder(P, C, Q, n)  BY DEF OnceInv
<1> HIDE DEF P, C, Q, n
<1>4. p \in Nat /\ p + j \in 1 .. Len(P \o C) /\ (P \o C)[p + j] = C[j]  BY <1>1, <1>2
<1> DEFINE S == P \o C
<1>5. S \in Seq(Nat)  BY <1>1
<1> HIDE DEF S, p
<1>6. p + j \in 1 .. Len(S \o Q) /\ (S \o Q)[p + j] = S[p + j]  BY <1>1, <1>4, <1>5 DEF S
<1>7. S \o Q = [k \in 1 .. n |-> k]  BY <1>3 DEF InOrder, S
<1>8. p + j \in 1 .. n
  <2>1. Len([k \in 1 .. n |-> k]) = n  BY <1>1
  <2>2. QED  BY <1>6, <1>7, <2>1
<1>9. C[j] = p + j  BY <1>4, <1>6, <1>7, <1>8 DEF S
<1>10. QED  BY <1>2, <1>9 DEF p, P

(* The test of the code is that of the model of consecutive stamps.         *)
LEMMA FrameDueIs ==
  ASSUME AssemblyTypes, OnceInv, NEW l \in Lidars, points_clouds[l] # << >>, StampedAll(l)
  PROVE  /\ FrameDue(l) <=> Due(LastEnd(l), Len(points_clouds[l]))
         /\ RecentTime(l) = LastEnd(l) + Len(points_clouds[l])
<1> DEFINE c == Len(points_clouds[l])
           p == Len(published[l])
           b == LastEnd(l)
<1>1. points_clouds[l] \in Seq(Point) /\ published[l] \in Seq(Nat)  BY DEF AssemblyTypes
<1>2. p \in Nat /\ c \in Nat \ {0} /\ 1 \in 1 .. c /\ c \in 1 .. c  BY <1>1
<1>3. points_clouds[l][1].nr = p + 1 /\ points_clouds[l][c].nr = p + c  BY <1>2, CloudNumbers
<1>4. BaseTime(l) = b + 1 /\ RecentTime(l) = b + c /\ b \in Nat
  <2>1. points_clouds[l][1].offset_time = points_clouds[l][1].nr + ClockOffset
    BY <1>2 DEF StampedAll, Stamped
  <2>2. points_clouds[l][c].offset_time = points_clouds[l][c].nr + ClockOffset
    BY <1>2 DEF StampedAll, Stamped
  <2>3. BaseTime(l) = points_clouds[l][1].offset_time /\ RecentTime(l) = points_clouds[l][c].offset_time
    BY DEF BaseTime, RecentTime
  <2>4. b = p + ClockOffset /\ ClockOffset \in Nat  BY AssemblyAssumption DEF LastEnd
  <2> HIDE DEF p, c, b
  <2>5. QED  BY <1>2, <1>3, <2>1, <2>2, <2>3, <2>4
<1>5. RecentTime(l) \in Stamps
  <2>1. points_clouds[l][c] \in Point  BY <1>1, <1>2
  <2>2. QED  BY <2>1 DEF RecentTime, Point
<1>6. (RecentTime(l) - BaseTime(l)) % TimeMod = c - 1
  <2>1. RecentTime(l) - BaseTime(l) = c - 1  BY <1>2, <1>4
  <2>2. c - 1 \in Nat /\ c - 1 < TimeMod /\ TimeMod \in Nat \ {0}
    BY <1>2, <1>4, <1>5, AssemblyAssumption DEF Stamps
  <2>3. \A x \in Nat : x < TimeMod => x % TimeMod = x  BY <2>2
  <2> HIDE DEF c
  <2>4. QED  BY <2>1, <2>2, <2>3
<1>7. FrameDue(l) <=> /\ Ends(RecentTime(l))
                      /\ (RecentTime(l) - BaseTime(l)) % TimeMod >= Tolerance
  BY DEF FrameDue, Ends
<1>8. FrameDue(l) <=> Ends(b + c) /\ c - 1 >= Tolerance
  <2> HIDE DEF b, c
  <2>1. QED  BY <1>4, <1>6, <1>7
<1>9. QED  BY <1>4, <1>8 DEF Due

(* A clock that was never unsynchronised was not before this step.          *)
LEMMA StaysSynced ==
  ASSUME [FrameNext]_frameVars, NeverUnsynced', HistoryTypes
  PROVE  NeverUnsynced
<1>1. ASSUME NEW l \in Lidars, ClockChanges(l)  PROVE FALSE
  <2>1. changes' = changes + 1  BY <1>1 DEF ClockChanges
  <2>2. QED  BY <2>1 DEF NeverUnsynced, HistoryTypes
<1>2. UNCHANGED <<synchronised, changes>>
  BY <1>1 DEF FrameNext, frameVars, Packet, Tick, Process, CheckTimerSynced, CheckTimerUnsynced, Uninit, sdkVars
<1>3. QED  BY <1>2 DEF NeverUnsynced

(* What no step but those named changes of a lidar's frames.                *)
LEMMA FramedStays ==
  ASSUME NEW l \in Lidars, Framed(l), UNCHANGED <<handlerVars, checking>>
  PROVE  Framed(l)'
BY DEF Framed, LastEnd, handlerVars

(* The stamp of a packet carries on from the one before.                    *)
LEMMA SyncPacket ==
  ASSUME AssemblyTypes, SyncInv, NeverUnsynced, NEW k \in Lidars, Packet(k)
  PROVE  FlagInv' /\ \A l \in Lidars : lost'[l] = 0 => StampedAll(l)' /\ Framed(l)'
<1> DEFINE packet == [lidar |-> k, point |-> [nr |-> received'[k], offset_time |-> TimeStamp(k)]]
<1>1. /\ raw_packet_queue' = Append(raw_packet_queue, packet) /\ packet.lidar = k
      /\ packet.point.nr = received'[k] /\ packet.point.offset_time = now + ClockOffset
      /\ packet \in Packets
  BY PacketPoint DEF Packet, TimeStamp, NeverUnsynced, Packets
<1>2. /\ k \notin sent /\ sent' = sent \cup {k} /\ received' = [received EXCEPT ![k] = @ + 1]
      /\ UNCHANGED <<now, lost, checking, handlerVars>> /\ is_timestamp_sync' = (k \in synchronised)
  BY DEF Packet
<1> HIDE DEF packet
<1>4. FlagInv'
  <2>1. k \in synchronised  BY DEF NeverUnsynced
  <2>2. QED  BY <1>2, <2>1 DEF FlagInv
<1>5. ASSUME NEW l \in Lidars, lost'[l] = 0  PROVE StampedAll(l)' /\ Framed(l)'
  <2>1. StampedAll(l) /\ Framed(l)  BY <1>2, <1>5 DEF SyncInv
  <2>2. Framed(l)'  BY <1>2, <2>1, FramedStays
  <2>3. received'[l] = IF l \in sent' THEN now' ELSE now' - 1
    <3>1. received[l] = IF l \in sent THEN now ELSE now - 1  BY <2>1 DEF StampedAll
    <3>2. now \in Int /\ received[l] \in Int  BY DEF AssemblyTypes
    <3>3. received'[l] = IF l = k THEN received[l] + 1 ELSE received[l]  BY <1>2 DEF AssemblyTypes
    <3>4. QED  BY <1>2, <3>1, <3>2, <3>3
  <2>4. k = l => Stamped(packet.point)  BY <1>1, <1>2, <2>3 DEF Stamped
  <2>5. /\ raw_packet_queue \in Seq(Packets) /\ Len(raw_packet_queue') = Len(raw_packet_queue) + 1
        /\ \A j \in 1 .. Len(raw_packet_queue') :
             raw_packet_queue'[j] = IF j = Len(raw_packet_queue) + 1 THEN packet ELSE raw_packet_queue[j]
    <3>1. raw_packet_queue \in Seq(Packets)  BY DEF AssemblyTypes
    <3>2. QED  BY <1>1, <3>1
  <2>6. \A j \in 1 .. Len(raw_packet_queue) + 1 :
          j # Len(raw_packet_queue) + 1 => j \in 1 .. Len(raw_packet_queue)
    BY <2>5
  <2>7. \A j \in 1 .. Len(raw_packet_queue') :
          raw_packet_queue'[j].lidar = l => Stamped(raw_packet_queue'[j].point)
    <3>1. \A j \in 1 .. Len(raw_packet_queue) :
            raw_packet_queue[j].lidar = l => Stamped(raw_packet_queue[j].point)
      BY <2>1 DEF StampedAll
    <3>2. QED  BY <1>1, <2>4, <2>5, <2>6, <3>1
  <2>8. StampedAll(l)'
    <3>1. \A j \in 1 .. Len(points_clouds[l]) : Stamped(points_clouds[l][j])  BY <2>1 DEF StampedAll
    <3>2. UNCHANGED points_clouds  BY <1>2 DEF handlerVars
    <3>3. QED  BY <2>3, <2>7, <3>1, <3>2 DEF StampedAll, Stamped
  <2>9. QED  BY <2>2, <2>8
<1>6. QED  BY <1>4, <1>5

(* Only a lidar that has sent in this tick has not lost a packet.           *)
LEMMA SyncTick ==
  ASSUME AssemblyTypes, SyncInv, NeverUnsynced, Tick
  PROVE  FlagInv' /\ \A l \in Lidars : lost'[l] = 0 => StampedAll(l)' /\ Framed(l)'
<1>1. /\ now' = now + 1 /\ sent' = {} /\ lost' = [l \in Lidars |-> IF l \in sent THEN lost[l] ELSE lost[l] + 1]
      /\ UNCHANGED <<received, raw_packet_queue, is_timestamp_sync, checking, handlerVars>>
  BY DEF Tick
<1>2. lost \in [Lidars -> Nat]  BY DEF SyncInv, HistoryTypes
<1>4. FlagInv'  BY <1>1 DEF SyncInv, FlagInv
<1>5. ASSUME NEW l \in Lidars, lost'[l] = 0  PROVE StampedAll(l)' /\ Framed(l)'
  <2>1. l \in sent /\ lost[l] = 0
    <3>1. lost[l] \in Nat /\ lost'[l] = IF l \in sent THEN lost[l] ELSE lost[l] + 1  BY <1>1, <1>2
    <3>2. QED  BY <1>5, <3>1
  <2>2. StampedAll(l) /\ Framed(l)  BY <2>1 DEF SyncInv
  <2>3. Framed(l)'  BY <1>1, <2>2, FramedStays
  <2>4. received[l] = now /\ now \in Int  BY <2>1, <2>2 DEF StampedAll, AssemblyTypes
  <2>5. received'[l] = now' - 1 /\ l \notin sent'  BY <1>1, <2>4
  <2>6. StampedAll(l)'  BY <1>1, <2>2, <2>5 DEF StampedAll, Stamped, handlerVars
  <2>7. QED  BY <2>3, <2>6
<1>6. QED  BY <1>4, <1>5

(* Only the point that has just come to a cloud may end a frame.            *)
LEMMA SyncProcess ==
  ASSUME AssemblyTypes, SyncInv, NeverUnsynced, Process
  PROVE  FlagInv' /\ \A l \in Lidars : lost'[l] = 0 => StampedAll(l)' /\ Framed(l)'
<1> DEFINE packet == Head(raw_packet_queue)
<1>1. /\ raw_packet_queue \in Seq(Packets) /\ raw_packet_queue # << >> /\ packet \in Packets
      /\ packet = raw_packet_queue[1] /\ 1 \in 1 .. Len(raw_packet_queue)
  BY DEF Process, AssemblyTypes
<1>2. /\ points_clouds' = [points_clouds EXCEPT ![packet.lidar] = Append(@, packet.point)]
      /\ checking = NoLidar /\ checking' = packet.lidar /\ raw_packet_queue' = Tail(raw_packet_queue)
      /\ UNCHANGED <<now, sent, received, is_timestamp_sync, points, published, frame_count, lost>>
  BY DEF Process, sdkVars
<1>3. packet.lidar \in Lidars /\ packet.point \in Point  BY <1>1 DEF Packets
<1> HIDE DEF packet
<1>5. FlagInv'
  <2>1. is_timestamp_sync  BY <1>1 DEF SyncInv, FlagInv
  <2>2. QED  BY <1>2, <2>1 DEF FlagInv
<1>6. ASSUME NEW l \in Lidars, lost'[l] = 0  PROVE StampedAll(l)' /\ Framed(l)'
  <2>1. StampedAll(l) /\ Framed(l)  BY <1>2, <1>6 DEF SyncInv
  <2>2. NoLidar # l  BY AssemblyAssumption
  <2>3. \A k \in 1 .. Len(points_clouds[l]) : ~Due(LastEnd(l), k)  BY <1>2, <2>1, <2>2 DEF Framed
  <2>4. points_clouds[l] \in Seq(Point)  BY DEF AssemblyTypes
  <2>5. \A j \in 1 .. Len(raw_packet_queue') :
          raw_packet_queue'[j].lidar = l => Stamped(raw_packet_queue'[j].point)
    <3>1. \A j \in 1 .. Len(raw_packet_queue) :
            raw_packet_queue[j].lidar = l => Stamped(raw_packet_queue[j].point)
      BY <2>1 DEF StampedAll
    <3>2. \A j \in 1 .. Len(raw_packet_queue') :
            j + 1 \in 1 .. Len(raw_packet_queue) /\ raw_packet_queue'[j] = raw_packet_queue[j + 1]
      BY <1>1, <1>2
    <3>3. QED  BY <3>1, <3>2
  <2>6. CASE packet.lidar = l
    <3>1. Stamped(packet.point)  BY <1>1, <2>1, <2>6 DEF StampedAll
    <3>2. points_clouds'[l] = Append(points_clouds[l], packet.point)  BY <1>2, <2>6 DEF AssemblyTypes
    <3>3. /\ Len(points_clouds'[l]) = Len(points_clouds[l]) + 1 /\ points_clouds'[l] # << >>
          /\ \A j \in 1 .. Len(points_clouds'[l]) :
               points_clouds'[l][j] = IF j = Len(points_clouds[l]) + 1 THEN packet.point ELSE points_clouds[l][j]
      BY <1>3, <2>4, <3>2
    <3>4. \A j \in 1 .. Len(points_clouds[l]) + 1 :
            j # Len(points_clouds[l]) + 1 => j \in 1 .. Len(points_clouds[l])
      BY <2>4
    <3>5. \A j \in 1 .. Len(points_clouds'[l]) : Stamped(points_clouds'[l][j])
      BY <2>1, <3>1, <3>3, <3>4 DEF StampedAll
    <3>6. StampedAll(l)'  BY <1>2, <2>1, <2>5, <3>5 DEF StampedAll, Stamped
    <3>7. LastEnd(l)' = LastEnd(l)  BY <1>2 DEF LastEnd
    <3>8. Framed(l)'  BY <1>2, <2>1, <2>3, <2>6, <3>3, <3>4, <3>7 DEF Framed, Due, Ends
    <3>9. QED  BY <3>6, <3>8
  <2>7. CASE packet.lidar # l
    <3>1. points_clouds'[l] = points_clouds[l]  BY <1>2, <2>7 DEF AssemblyTypes
    <3>2. StampedAll(l)'  BY <1>2, <2>1, <2>5, <3>1 DEF StampedAll, Stamped
    <3>3. LastEnd(l)' = LastEnd(l)  BY <1>2 DEF LastEnd
    <3>4. Framed(l)'  BY <1>2, <2>1, <2>3, <2>7, <3>1, <3>3 DEF Framed, Due, Ends
    <3>5. QED  BY <3>2, <3>4
  <2>8. QED  BY <2>6, <2>7
<1>7. QED  BY <1>5, <1>6

(* Every step keeps the types of the counts.                                *)
LEMMA HistoryStep ==
  ASSUME AssemblyTypes, HistoryTypes, [FrameNext]_frameVars
  PROVE  HistoryTypes'
<1>1. CASE UNCHANGED <<lost, frame_count, changes>>  BY <1>1 DEF HistoryTypes
<1>2. ASSUME NEW ls \in SUBSET Lidars, Publish(ls), UNCHANGED <<lost, changes>>
      PROVE  HistoryTypes'
  <2>1. frame_count' = [l \in Lidars |->
          IF l \in ls /\ points_clouds[l] # << >> /\ frame_count[l] < 2
          THEN frame_count[l] + 1 ELSE frame_count[l]]
    BY <1>2 DEF Publish
  <2>2. QED  BY <1>2, <2>1 DEF HistoryTypes
<1>3. CASE \E l \in Lidars : Packet(l)  BY <1>1, <1>3 DEF Packet, handlerVars
<1>4. CASE \E l \in Lidars : ClockChanges(l)  BY <1>4 DEF ClockChanges, HistoryTypes, handlerVars
<1>5. CASE Tick
  <2>1. lost' = [l \in Lidars |-> IF l \in sent THEN lost[l] ELSE lost[l] + 1]
        /\ UNCHANGED <<frame_count, changes>>
    BY <1>5 DEF Tick, handlerVars
  <2>2. QED  BY <2>1 DEF HistoryTypes
<1>6. CASE Process  BY <1>1, <1>6 DEF Process
<1>7. CASE CheckTimerSynced
  <2>1. {checking} \in SUBSET Lidars  BY <1>7 DEF CheckTimerSynced, AssemblyTypes
  <2>2. UNCHANGED <<lost, changes>>  BY <1>7 DEF CheckTimerSynced
  <2>3. Publish({checking}) \/ UNCHANGED frame_count  BY <1>7 DEF CheckTimerSynced
  <2>4. QED  BY <1>1, <1>2, <2>1, <2>2, <2>3
<1>8. CASE CheckTimerUnsynced
  <2>1. UNCHANGED <<lost, changes>>  BY <1>8 DEF CheckTimerUnsynced
  <2>2. Publish(Lidars) \/ UNCHANGED frame_count
    BY <1>8 DEF CheckTimerUnsynced, InFrame, handlerVars
  <2>3. QED  BY <1>1, <1>2, <2>1, <2>2
<1>9. CASE Uninit  BY <1>1, <1>9 DEF Uninit, handlerVars
<1>10. CASE UNCHANGED frameVars  BY <1>1, <1>10 DEF frameVars, handlerVars
<1>11. QED  BY <1>3, <1>4, <1>5, <1>6, <1>7, <1>8, <1>9, <1>10 DEF FrameNext

(* A frame that is due is of the length it should have, and the next one    *)
(* begins where it ended; while none is due, none of its points may end it. *)
LEMMA SyncCheck ==
  ASSUME AssemblyTypes, OnceInv, SyncInv, NeverUnsynced, CheckTimerSynced
  PROVE  FlagInv' /\ \A l \in Lidars : lost'[l] = 0 => StampedAll(l)' /\ Framed(l)'
<1>1. /\ checking # NoLidar /\ checking \in Lidars /\ checking' = NoLidar /\ is_timestamp_sync
      /\ UNCHANGED <<now, sent, received, is_timestamp_sync, raw_packet_queue, lost>>
  BY DEF CheckTimerSynced, AssemblyTypes, sdkVars
<1>2. FlagInv'  BY <1>1 DEF FlagInv
<1>3. ASSUME NEW l \in Lidars, lost'[l] = 0  PROVE StampedAll(l)' /\ Framed(l)'
  <2>1. StampedAll(l) /\ Framed(l) /\ NoLidar # l  BY <1>1, <1>3, AssemblyAssumption DEF SyncInv
  <2>2. points_clouds[l] \in Seq(Point) /\ Len(points_clouds[l]) \in Nat  BY DEF AssemblyTypes
  <2>3. ASSUME UNCHANGED <<points_clouds[l], points[l], published[l], frame_count[l]>>,
               \A k \in 1 .. Len(points_clouds[l]) : ~Due(LastEnd(l), k)
        PROVE  StampedAll(l)' /\ Framed(l)'
    <3>1. StampedAll(l)'  BY <1>1, <2>1, <2>3 DEF StampedAll, Stamped
    <3>2. LastEnd(l)' = LastEnd(l)  BY <2>3 DEF LastEnd
    <3>3. Framed(l)'  BY <1>1, <2>1, <2>3, <3>2 DEF Framed, Due, Ends
    <3>4. QED  BY <3>1, <3>3
  <2>4. CASE checking # l
    <3>1. \A k \in 1 .. Len(points_clouds[l]) : ~Due(LastEnd(l), k)  BY <2>1, <2>4 DEF Framed
    <3>2. UNCHANGED <<points_clouds[l], points[l], published[l], frame_count[l]>>
      <4>1. CASE Publish({checking})
        <5>1. {checking} \in SUBSET Lidars /\ l \notin {checking}  BY <1>1, <2>4
        <5>2. UNCHANGED <<points_clouds[l], points[l], published[l]>>
          BY <4>1, <5>1, PublishTypes
        <5>3. UNCHANGED frame_count[l]  BY <4>1, <5>1 DEF Publish
        <5>4. QED  BY <5>2, <5>3
      <4>2. QED  BY <4>1 DEF CheckTimerSynced
    <3>3. QED  BY <2>3, <3>1, <3>2
  <2>5. CASE checking = l /\ ~FrameDue(l)
    <3>1. points_clouds[l] # << >>  BY <2>1, <2>5 DEF Framed
    <3>2. ~Due(LastEnd(l), Len(points_clouds[l]))  BY <2>1, <2>5, <3>1, FrameDueIs
    <3>3. \A k \in 1 .. Len(points_clouds[l]) : ~Due(LastEnd(l), k)  BY <2>1, <3>2 DEF Framed
    <3>4. UNCHANGED <<points_clouds[l], points[l], published[l], frame_count[l]>>
      BY <2>5 DEF CheckTimerSynced
    <3>5. QED  BY <2>3, <3>3, <3>4
  <2>6. CASE checking = l /\ FrameDue(l)
    <3> DEFINE c == Len(points_clouds[l])
               b == LastEnd(l)
    <3>1. points_clouds[l] # << >>  BY <2>1, <2>6 DEF Framed
    <3>2. Due(b, c)  BY <2>1, <2>6, <3>1, FrameDueIs
    <3>3. Publish({checking}) /\ {checking} \in SUBSET Lidars /\ l \in {checking}
      BY <1>1, <2>6 DEF CheckTimerSynced
    <3>4. /\ points_clouds'[l] = << >> /\ points'[l] = points_clouds[l]
          /\ published'[l] = published[l] \o Numbers(points_clouds[l])
      BY <3>3, PublishTypes
    <3>5. frame_count'[l] = IF frame_count[l] < 2 THEN frame_count[l] + 1 ELSE frame_count[l]
      BY <3>1, <3>3 DEF Publish
    <3>6. frame_count[l] \in 0 .. 2  BY DEF SyncInv, HistoryTypes
    <3>7. LastEnd(l)' = b + c /\ b \in Nat
      <4>1. Numbers(points_clouds[l]) \in Seq(Nat) /\ published[l] \in Seq(Nat)  BY QueuedTypes
      <4>2. Len(Numbers(points_clouds[l])) = c  BY <2>2 DEF Numbers
      <4>3. Len(published'[l]) = Len(published[l]) + c /\ Len(published[l]) \in Nat
        <5>1. \A P, N \in Seq(Nat) : Len(P \o N) = Len(P) + Len(N) /\ Len(P) \in Nat  OBVIOUS
        <5>2. Len(published[l] \o Numbers(points_clouds[l])) = Len(published[l]) + c
              /\ Len(published[l]) \in Nat
          BY <4>1, <4>2, <5>1
        <5>3. QED  BY <3>4, <5>2
      <4>4. ClockOffset \in Nat /\ c \in Nat  BY <2>2, AssemblyAssumption
      <4> HIDE DEF c
      <4>5. QED  BY <4>3, <4>4 DEF LastEnd
    <3>8. c > Tolerance
      <4>1. Tolerance \in Nat /\ c \in Nat  BY <2>2, Lengths
      <4> HIDE DEF c, b
      <4>2. QED  BY <3>2, <4>1 DEF Due
    <3>9. frame_count'[l] = 2 => c <= Grid
      <4>1. SUFFICES ASSUME frame_count'[l] = 2  PROVE c <= Grid  OBVIOUS
      <4>2. frame_count[l] >= 1  BY <3>5, <3>6, <4>1
      <4>3. Ends(b)  BY <2>1, <4>2 DEF Framed
      <4>4. PICK k \in Nat : Due(b, k) /\ k <= Grid  BY <3>7, <4>3, NextEnd
      <4>5. k \in 1 .. c => k = c  BY <2>1, <4>4 DEF Framed
      <4>6. k >= 1 /\ Grid \in Nat
        <5>1. k - 1 >= Tolerance /\ Tolerance \in Nat /\ Grid \in Nat  BY <4>4, Lengths DEF Due
        <5>2. QED  BY <5>1
      <4> HIDE DEF c
      <4>7. QED  BY <2>2, <4>4, <4>5, <4>6 DEF c
    <3>10. Ends(LastEnd(l)')  BY <3>2, <3>7 DEF Due
    <3>11. Framed(l)'
      <4>1. \A k \in 1 .. Len(points_clouds'[l]) : FALSE  BY <3>4
      <4>2. Ends(LastEnd(l))'  BY <3>10 DEF Ends
      <4>3. (frame_count[l] = 2 => Len(points[l]) > Tolerance /\ Len(points[l]) <= Grid)'
        BY <3>4, <3>8, <3>9
      <4>4. QED  BY <1>1, <2>1, <4>1, <4>2, <4>3 DEF Framed
    <3>12. StampedAll(l)'  BY <1>1, <2>1, <3>4 DEF StampedAll, Stamped
    <3>13. QED  BY <3>11, <3>12
  <2>7. QED  BY <2>4, <2>5, <2>6
<1>4. QED  BY <1>2, <1>3

(* Every step keeps the frames regular.                                     *)
LEMMA SyncStep ==
  ASSUME AssemblyTypes, OnceInv, SyncInv, [FrameNext]_frameVars
  PROVE  SyncInv'
<1>1. HistoryTypes'  BY HistoryStep DEF SyncInv
<1>2. ASSUME NeverUnsynced'
      PROVE  FlagInv' /\ \A l \in Lidars : lost'[l] = 0 => StampedAll(l)' /\ Framed(l)'
  <2>1. NeverUnsynced  BY <1>2, StaysSynced DEF SyncInv
  <2>2. ASSUME UNCHANGED <<now, sent, received, is_timestamp_sync, raw_packet_queue, checking,
                           handlerVars, lost>>
        PROVE  FlagInv' /\ \A l \in Lidars : lost'[l] = 0 => StampedAll(l)' /\ Framed(l)'
    <3>1. FlagInv'  BY <2>1, <2>2 DEF SyncInv, FlagInv
    <3>2. ASSUME NEW l \in Lidars, lost'[l] = 0  PROVE StampedAll(l)' /\ Framed(l)'
      <4>1. StampedAll(l) /\ Framed(l)  BY <2>1, <2>2, <3>2 DEF SyncInv
      <4>2. QED  BY <2>2, <4>1, FramedStays DEF StampedAll, Stamped, handlerVars
    <3>3. QED  BY <3>1, <3>2
  <2>3. CASE \E l \in Lidars : Packet(l)  BY <2>1, <2>3, SyncPacket
  <2>4. CASE \E l \in Lidars : ClockChanges(l)
    <3>1. changes' = changes + 1 /\ changes' = 0 /\ changes \in Nat
      BY <1>2, <2>4 DEF ClockChanges, NeverUnsynced, SyncInv, HistoryTypes
    <3>2. QED  BY <3>1
  <2>5. CASE Tick  BY <2>1, <2>5, SyncTick
  <2>6. CASE Process  BY <2>1, <2>6, SyncProcess
  <2>7. CASE CheckTimerSynced  BY <2>1, <2>7, SyncCheck
  <2>8. CASE CheckTimerUnsynced  BY <2>1, <2>8 DEF CheckTimerUnsynced, SyncInv, FlagInv
  <2>9. CASE Uninit  BY <2>2, <2>9 DEF Uninit, sdkVars
  <2>10. CASE UNCHANGED frameVars  BY <2>2, <2>10 DEF frameVars, sdkVars
  <2>11. QED  BY <2>3, <2>4, <2>5, <2>6, <2>7, <2>8, <2>9, <2>10 DEF FrameNext
<1>3. QED  BY <1>1, <1>2 DEF SyncInv

(* While every clock is synchronised, the frames of a lidar that loses no   *)
(* packet have the points of at most one step of the grid and of at least   *)
(* the interval but a millisecond, and no end of a frame is missed: for     *)
(* every interval, with or without a fraction of a millisecond.             *)
THEOREM SyncedFrames == FrameSpec => []SyncedFramesRegular
<1>1. AssemblyTypes /\ SyncInv => SyncedFramesRegular
  <2> SUFFICES ASSUME AssemblyTypes, SyncInv, NeverUnsynced, NEW l \in Lidars, lost[l] = 0
               PROVE  /\ frame_count[l] = 2 => Len(points[l]) > Tolerance /\ Len(points[l]) <= Grid
                      /\ Len(points_clouds[l]) < 2 * Grid
    BY DEF SyncedFramesRegular
  <2>1. Framed(l)  BY DEF SyncInv
  <2>2. LastEnd(l) \in Nat
    <3>1. Len(published[l]) \in Nat /\ ClockOffset \in Nat  BY AssemblyAssumption DEF AssemblyTypes
    <3>2. QED  BY <3>1 DEF LastEnd
  <2>3. PICK k \in Nat : Due(LastEnd(l), k) /\ k < 2 * Grid  BY <2>2, NextEnd
  <2>4. k >= 1
    <3>1. k - 1 >= Tolerance /\ Tolerance \in Nat  BY <2>3, Lengths DEF Due
    <3>2. QED  BY <3>1
  <2>5. k \in 1 .. Len(points_clouds[l]) => k = Len(points_clouds[l])  BY <2>1, <2>3 DEF Framed
  <2>6. Len(points_clouds[l]) \in Nat /\ Grid \in Nat  BY Lengths DEF AssemblyTypes
  <2>7. Len(points_clouds[l]) < 2 * Grid  BY <2>3, <2>4, <2>5, <2>6
  <2>8. QED  BY <2>1, <2>7 DEF Framed
<1>2. AssemblyTypes /\ [FrameNext]_frameVars => AssemblyTypes'  BY TypesStep
<1>3. AssemblyTypes /\ OnceInv /\ [FrameNext]_frameVars => OnceInv'  BY OnceStep
<1>4. AssemblyTypes /\ OnceInv /\ SyncInv /\ [FrameNext]_frameVars => SyncInv'  BY SyncStep
<1>5. QED  BY TypesInit, OnceInit, SyncInit, <1>1, <1>2, <1>3, <1>4, PTL DEF FrameSpec
===============================================================================
