---------------------------- MODULE ScanToMap_proofs ----------------------------
(***************************************************************************)
(* Proofs about the way of a scan into the map: FAST-LIO's buffers and the *)
(* packages made of them, for every bound, every length of a scan and      *)
(* every step of the clocks; the local map, for every number of axes, size *)
(* of the box and range of the sensor; the pose graph, for every number of *)
(* key poses, threshold and outcome of ICP and ISAM2; the preprocessing,   *)
(* for every scan, setting and number of lines.                            *)
(***************************************************************************)
EXTENDS MC_ScanToMap, SequenceSelection_proofs

(* FastLioSync *)

(* The clocks are steady: samples follow each other, and from the end of a  *)
(* scan to that of the next it takes longer than from sample to sample.     *)
SamplesOften ==
  /\ 0 \notin ImuSteps
  /\ \A step \in LidarSteps, s \in ImuSteps, d1, d2 \in Durations : d1 + s < step + d2

(* How many scans are out of the buffer.                                    *)
ScansOut == Len(stamps) - Len(lidar_buffer)

(* The buffer has the newest scans, each with its time.                     *)
ScanInv ==
  /\ stamps \in Seq(Nat) /\ time_buffer \in Seq(Nat) /\ lidar_buffer \in Seq(Nat)
  /\ last_timestamp_lidar \in Nat /\ lidar_beg_time \in Nat /\ lidar_end_time \in Nat
  /\ Len(time_buffer) = Len(lidar_buffer) /\ ScansOut \in Nat
  /\ \A i \in 1 .. Len(lidar_buffer) :
       lidar_buffer[i] = ScansOut + i /\ time_buffer[i] = stamps[ScansOut + i]
  /\ stamps # << >> => last_timestamp_lidar = stamps[Len(stamps)]
  /\ lidar \in 0 .. Len(stamps) /\ (lidar # NoScan => lidar_beg_time = stamps[lidar])
  /\ lidar_pushed \in BOOLEAN
  /\ lidar_pushed => /\ lidar_buffer # << >> /\ lidar = ScansOut + 1
                     /\ lidar_end_time - lidar_beg_time \in Durations

(* The samples that no package has yet.                                     *)
SampleInv ==
  /\ imu_buffer \in Seq(Nat) /\ imu \in Seq(Nat) /\ last_timestamp_imu \in Nat
  /\ \A i, j \in 1 .. Len(imu_buffer) : i < j => imu_buffer[i] < imu_buffer[j]
  /\ \A i \in 1 .. Len(imu_buffer) - 1 : imu_buffer[i + 1] - imu_buffer[i] \in ImuSteps
  /\ imu_buffer # << >> => last_timestamp_imu = imu_buffer[Len(imu_buffer)]
  /\ imu # << >> => IF imu_buffer = << >> THEN last_timestamp_imu = imu[Len(imu)]
                    ELSE imu_buffer[1] - imu[Len(imu)] \in ImuSteps

StampSteps == \A i \in 1 .. Len(stamps) - 1 : stamps[i + 1] - stamps[i] \in LidarSteps

(* The next sample is from before the next scan's end.                      *)
NextSamples == IF imu_buffer = << >> THEN {last_timestamp_imu + s : s \in ImuSteps} ELSE {imu_buffer[1]}
NextBegins == IF time_buffer = << >> THEN {last_timestamp_lidar + step : step \in LidarSteps} ELSE {time_buffer[1]}
NextEnds == IF lidar_pushed THEN {lidar_end_time} ELSE {beg + d : beg \in NextBegins, d \in Durations}
EarlyInv == \A sample \in NextSamples, end \in NextEnds : sample < end

PackageInv ==
  ~lidar_pushed /\ lidar # NoScan =>
    /\ \A i \in 1 .. Len(imu) : imu[i] <= lidar_end_time
    /\ \A i \in 1 .. Len(imu_buffer) : imu_buffer[i] > lidar_end_time
    /\ last_timestamp_imu >= lidar_end_time

RegisteredInv ==
  /\ registered \in Seq([scan : Nat, beg : Nat])
  /\ \A i \in 1 .. Len(registered) :
       /\ registered[i].scan \in 1 .. ScansOut
       /\ registered[i].beg = stamps[registered[i].scan]
       /\ \A j \in 1 .. i - 1 : registered[j].scan < registered[i].scan

PackagesInv == ScanInv /\ StampSteps /\ SampleInv /\ EarlyInv /\ PackageInv /\ RegisteredInv

(* Which samples a package takes: all those up to the end.                  *)
LEMMA TakenIs ==
  ASSUME SampleInv, NEW end \in Nat, imu_buffer # << >>, imu_buffer[1] < end, last_timestamp_imu >= end
  PROVE  /\ Taken(end) \in 1 .. Len(imu_buffer)
         /\ \A i \in 1 .. Taken(end) : imu_buffer[i] <= end
         /\ \A i \in Taken(end) + 1 .. Len(imu_buffer) : imu_buffer[i] > end
<1> DEFINE N == Len(imu_buffer)
           P(n) == /\ \A i \in 1 .. n : imu_buffer[i] <= end /\ (i < n => imu_buffer[i] < end)
                   /\ n > 0 => imu_buffer[1] < end
                   /\ \/ n = N
                      \/ n = 0 /\ imu_buffer[1] >= end
                      \/ n > 0 /\ (imu_buffer[n] = end \/ imu_buffer[n + 1] > end)
<1>1. /\ N \in Nat /\ N > 0 /\ imu_buffer[N] >= end
      /\ \A i \in 1 .. N : imu_buffer[i] \in Nat
      /\ \A i, j \in 1 .. N : i < j => imu_buffer[i] < imu_buffer[j]
  BY DEF SampleInv
<1>2. \E n \in 0 .. N : P(n)
  <2> DEFINE T == {n \in 1 .. N : imu_buffer[n] >= end}
  <2>1. T \in SUBSET Nat /\ T # {}  BY <1>1
  <2>2. PICK m \in T : \A k \in T : m <= k  BY <2>1, LeastNumber
  <2>3. /\ m \in 1 .. N /\ imu_buffer[m] >= end /\ m > 1
        /\ \A i \in 1 .. m - 1 : imu_buffer[i] < end
    <3>1. \A i \in 1 .. N : i < m => imu_buffer[i] < end  BY <1>1, <2>2
    <3>2. QED  BY <1>1, <2>2, <3>1
  <2>4. CASE imu_buffer[m] = end
    <3>1. \A i \in 1 .. m : imu_buffer[i] <= end /\ (i < m => imu_buffer[i] < end)
      <4> TAKE i \in 1 .. m
      <4>1. i \in 1 .. N /\ (i = m \/ i \in 1 .. m - 1)  BY <1>1, <2>3
      <4>2. imu_buffer[i] \in Nat  BY <1>1, <4>1
      <4>3. QED  BY <2>3, <2>4, <4>1, <4>2
    <3>2. imu_buffer[1] < end
      <4>1. 1 \in 1 .. m - 1  BY <2>3
      <4>2. QED  BY <2>3, <4>1
    <3>3. P(m)  BY <2>3, <2>4, <3>1, <3>2
    <3>4. QED  BY <2>3, <3>3
  <2>5. CASE imu_buffer[m] # end
    <3>1. imu_buffer[m - 1 + 1] > end  BY <1>1, <2>3, <2>5
    <3>2. P(m - 1)
      <4>1. \A i \in 1 .. m - 1 : imu_buffer[i] <= end /\ imu_buffer[i] < end  BY <1>1, <2>3
      <4>2. QED  BY <2>3, <3>1, <4>1
    <3>3. m - 1 \in 0 .. N  BY <1>1, <2>3
    <3> HIDE DEF P
    <3>4. QED  BY <3>2, <3>3
  <2>6. QED  BY <2>4, <2>5
<1>3. Taken(end) = CHOOSE n \in 0 .. N : P(n)  BY DEF Taken
<1>4. Taken(end) \in 0 .. N /\ P(Taken(end))  BY <1>2, <1>3
<1> DEFINE n == Taken(end)
<1>5. n \in 0 .. N /\ P(n)  BY <1>4
<1> HIDE DEF n
<1>6. n \in 1 .. N  BY <1>1, <1>5
<1>7. \A i \in n + 1 .. N : imu_buffer[i] > end
  <2> TAKE i \in n + 1 .. N
  <2>1. CASE imu_buffer[n] = end  BY <1>1, <1>6, <2>1
  <2>2. CASE imu_buffer[n + 1] > end
    <3>1. n + 1 \in 1 .. N /\ i \in 1 .. N  BY <1>1, <1>6
    <3>2. i = n + 1 \/ n + 1 < i  BY <1>1, <1>6
    <3>3. i # n + 1 => imu_buffer[n + 1] < imu_buffer[i]  BY <1>1, <3>1, <3>2
    <3>4. QED  BY <1>1, <2>2, <3>1, <3>3
  <2>3. QED  BY <1>1, <1>5, <1>6, <2>1, <2>2
<1>8. QED  BY <1>5, <1>6, <1>7 DEF n

(* A sequence that gets longer by one.                                      *)
LEMMA Appended ==
  ASSUME NEW S, NEW q \in Seq(S), NEW x \in S
  PROVE  /\ Append(q, x) \in Seq(S) /\ Len(Append(q, x)) = Len(q) + 1
         /\ \A i \in 1 .. Len(q) + 1 : Append(q, x)[i] = IF i = Len(q) + 1 THEN x ELSE q[i]
OBVIOUS

(* A sequence that gets shorter by its first.                               *)
LEMMA Shortened ==
  ASSUME NEW q \in Seq(Nat)
  PROVE  /\ Len(q) = 1 => Tail(q) = << >>
         /\ Len(q) > 1 => Tail(q) # << >> /\ Tail(q)[1] = q[2]
<1>1. CASE Len(q) > 0
  <2>1. q # << >>  BY <1>1
  <2>2. /\ Tail(q) \in Seq(Nat) /\ Len(Tail(q)) = Len(q) - 1 /\ Len(q) \in Nat
        /\ \A i \in 1 .. Len(Tail(q)) : Tail(q)[i] = q[i + 1]
    BY <2>1
  <2>3. Len(q) = 1 => Tail(q) = << >>
    <3>1. \A t \in Seq(Nat) : Len(t) <= 0 => t = << >>  OBVIOUS
    <3>2. Len(q) = 1 => Len(Tail(q)) <= 0  BY <2>2
    <3>3. QED  BY <2>2, <3>1, <3>2
  <2>4. Len(q) > 1 => Tail(q) # << >> /\ Tail(q)[1] = q[2]
    <3> SUFFICES ASSUME Len(q) > 1  PROVE Tail(q) # << >> /\ Tail(q)[1] = q[2]  OBVIOUS
    <3>1. Len(Tail(q)) > 0 /\ 1 \in 1 .. Len(Tail(q)) /\ 1 + 1 = 2  BY <2>2
    <3>2. \A t \in Seq(Nat) : Len(t) > 0 => t # << >>  OBVIOUS
    <3>3. Tail(q)[1] = q[1 + 1]  BY <2>2, <3>1
    <3>4. QED  BY <2>2, <3>1, <3>2, <3>3
  <2>5. QED  BY <2>3, <2>4
<1>2. CASE ~(Len(q) > 0)  BY <1>2
<1>3. QED  BY <1>1, <1>2

(* At the start every buffer is empty.                                      *)
LEMMA SyncStarts ==
  ASSUME Init PROVE ScanInv /\ (SamplesOften => PackagesInv)
<1> USE DEF Init, NoScan
<1>1. ScanInv
  <2>1. Len(stamps) = 0 /\ Len(lidar_buffer) = 0 /\ Len(time_buffer) = 0  OBVIOUS
  <2>2. ScansOut = 0  BY <2>1 DEF ScansOut
  <2>3. /\ \A i \in 1 .. Len(lidar_buffer) :
             lidar_buffer[i] = ScansOut + i /\ time_buffer[i] = stamps[ScansOut + i]
        /\ lidar \in 0 .. Len(stamps)
    BY <2>1
  <2>4. stamps \in Seq(Nat) /\ time_buffer \in Seq(Nat) /\ lidar_buffer \in Seq(Nat)  OBVIOUS
  <2>5. ~lidar_pushed /\ lidar_pushed \in BOOLEAN  OBVIOUS
  <2>6. QED  BY <2>1, <2>2, <2>3, <2>4, <2>5 DEF ScanInv
<1>2. StampSteps  BY DEF StampSteps
<1>3. SampleInv  BY DEF SampleInv
<1>4. SamplesOften => EarlyInv
  <2> SUFFICES ASSUME SamplesOften, NEW s \in ImuSteps, NEW step \in LidarSteps, NEW d \in Durations
               PROVE  0 + s < 0 + step + d
    BY DEF EarlyInv, NextSamples, NextEnds, NextBegins
  <2>1. d + s < step + d  BY DEF SamplesOften
  <2>2. s \in Nat /\ step \in Nat /\ d \in Nat  BY SyncAssumption
  <2>3. QED  BY <2>1, <2>2
<1>5. PackageInv  BY DEF PackageInv
<1>6. RegisteredInv  BY DEF RegisteredInv
<1>7. QED  BY <1>1, <1>2, <1>3, <1>4, <1>5, <1>6 DEF PackagesInv

(* What a callback of the lidar does when its clock is steady.              *)
LEMMA ScanReceived ==
  ASSUME ScanInv, NEW dt \in Nat, LidarCallback(last_timestamp_lidar + dt)
  PROVE  LET time == last_timestamp_lidar + dt
             n == Len(stamps)
         IN /\ time \in Nat
            /\ lidar_buffer' = Append(lidar_buffer, n + 1)
            /\ time_buffer' = Append(time_buffer, time)
            /\ last_timestamp_lidar' = time /\ stamps' = Append(stamps, time)
            /\ UNCHANGED <<imu_buffer, last_timestamp_imu, measures, mapping>>
            /\ ScansOut' = ScansOut /\ ScanInv'
<1> DEFINE time == last_timestamp_lidar + dt
           n == Len(stamps)
           k == Len(lidar_buffer)
<1>1. time \in Nat /\ ~(time < last_timestamp_lidar)  BY DEF ScanInv
<1>2. /\ lidar_buffer' = Append(lidar_buffer, n + 1)
      /\ time_buffer' = Append(time_buffer, time)
      /\ last_timestamp_lidar' = time /\ stamps' = Append(stamps, time)
      /\ UNCHANGED <<imu_buffer, last_timestamp_imu, measures, mapping>>
  BY <1>1 DEF LidarCallback
<1> HIDE DEF time
<1>3. /\ n \in Nat /\ k \in Nat /\ ScansOut = n - k /\ ScansOut \in Nat
      /\ Len(time_buffer) = k
  BY DEF ScanInv, ScansOut
<1>4. /\ lidar_buffer' \in Seq(Nat) /\ Len(lidar_buffer') = k + 1
      /\ \A i \in 1 .. k + 1 : lidar_buffer'[i] = IF i = k + 1 THEN n + 1 ELSE lidar_buffer[i]
  <2>1. lidar_buffer \in Seq(Nat) /\ n + 1 \in Nat  BY <1>3 DEF ScanInv
  <2>2. QED  BY <1>2, <2>1, Appended
<1>5. /\ time_buffer' \in Seq(Nat) /\ Len(time_buffer') = k + 1
      /\ \A i \in 1 .. k + 1 : time_buffer'[i] = IF i = k + 1 THEN time ELSE time_buffer[i]
  <2>1. time_buffer \in Seq(Nat)  BY DEF ScanInv
  <2>2. QED  BY <1>1, <1>2, <1>3, <2>1, Appended
<1>6. /\ stamps' \in Seq(Nat) /\ Len(stamps') = n + 1
      /\ \A i \in 1 .. n + 1 : stamps'[i] = IF i = n + 1 THEN time ELSE stamps[i]
  <2>1. stamps \in Seq(Nat)  BY DEF ScanInv
  <2>2. QED  BY <1>1, <1>2, <2>1, Appended
<1>7. ScansOut' = ScansOut  BY <1>3, <1>4, <1>6 DEF ScansOut
<1>8. \A i \in 1 .. k + 1 : lidar_buffer'[i] = ScansOut + i /\ time_buffer'[i] = stamps'[ScansOut + i]
  <2> TAKE i \in 1 .. k + 1
  <2>1. CASE i = k + 1
    <3>1. ScansOut + i = n + 1 /\ n + 1 \in 1 .. n + 1  BY <1>3, <2>1
    <3>2. QED  BY <1>4, <1>5, <1>6, <2>1, <3>1
  <2>2. CASE i # k + 1
    <3>1. i \in 1 .. k /\ ScansOut + i \in 1 .. n + 1 /\ ScansOut + i # n + 1  BY <1>3, <2>2
    <3>2. lidar_buffer[i] = ScansOut + i /\ time_buffer[i] = stamps[ScansOut + i]
      BY <3>1 DEF ScanInv
    <3>3. QED  BY <1>4, <1>5, <1>6, <2>2, <3>1, <3>2
  <2>3. QED  BY <2>1, <2>2
<1>9. last_timestamp_lidar' = stamps'[Len(stamps')]
  <2>1. n + 1 \in 1 .. n + 1  BY <1>3
  <2>2. QED  BY <1>2, <1>6, <2>1
<1>10. /\ lidar' \in 0 .. Len(stamps') /\ (lidar' # NoScan => lidar_beg_time' = stamps'[lidar'])
       /\ lidar_pushed' \in BOOLEAN /\ lidar_beg_time' \in Nat /\ lidar_end_time' \in Nat
       /\ lidar_pushed' => lidar_buffer' # << >> /\ lidar' = ScansOut + 1
                           /\ lidar_end_time' - lidar_beg_time' \in Durations
  <2>1. UNCHANGED measures  BY <1>2
  <2>2. lidar \in 0 .. n /\ (lidar # NoScan => lidar_beg_time = stamps[lidar])  BY DEF ScanInv
  <2>3. lidar # NoScan => lidar \in 1 .. n + 1 /\ lidar # n + 1  BY <1>3, <2>2 DEF NoScan
  <2>4. lidar # NoScan => stamps'[lidar] = stamps[lidar]  BY <1>6, <2>3
  <2>5. lidar' = lidar /\ lidar' \in 0 .. n + 1  BY <1>3, <2>1, <2>2 DEF measures
  <2>6. lidar_buffer' # << >>  BY <1>3, <1>4
  <2>7. QED  BY <1>6, <2>1, <2>2, <2>4, <2>5, <2>6 DEF ScanInv, measures
<1>11. ScanInv'
  BY <1>1, <1>2, <1>3, <1>4, <1>5, <1>6, <1>7, <1>8, <1>9, <1>10 DEF ScanInv
<1>12. QED  BY <1>1, <1>2, <1>7, <1>11 DEF time

(* Samples do not touch the scans' buffers.                                 *)
LEMMA SampleReceived ==
  ASSUME ScanInv, UNCHANGED <<lidar_buffer, time_buffer, last_timestamp_lidar, measures, stamps>>
  PROVE  ScanInv' /\ ScansOut' = ScansOut
BY DEF ScanInv, ScansOut, measures

(* Measures has the oldest scan.                                            *)
LEMMA ScanTaken ==
  ASSUME ScanInv, NEW d \in Durations, lidar_buffer # << >>, TakeScan(d)
  PROVE  /\ lidar' = ScansOut + 1 /\ lidar' \in 1 .. Len(stamps) /\ lidar' = Head(lidar_buffer)
         /\ lidar_beg_time' = time_buffer[1] /\ lidar_beg_time' = stamps[lidar']
         /\ lidar_beg_time' \in Nat /\ lidar_end_time' \in Nat
         /\ lidar_end_time' - lidar_beg_time' \in Durations
<1>1. /\ Len(lidar_buffer) \in Nat /\ Len(lidar_buffer) > 0 /\ Len(stamps) \in Nat
      /\ ScansOut \in Nat /\ ScansOut = Len(stamps) - Len(lidar_buffer)
      /\ Head(lidar_buffer) = lidar_buffer[1] /\ Len(time_buffer) = Len(lidar_buffer)
      /\ time_buffer \in Seq(Nat)
  BY DEF ScanInv, ScansOut
<1>2. /\ lidar_buffer[1] = ScansOut + 1 /\ time_buffer[1] = stamps[ScansOut + 1]
      /\ ScansOut + 1 \in 1 .. Len(stamps)
  <2>1. 1 \in 1 .. Len(lidar_buffer) /\ ScansOut + 1 \in 1 .. Len(stamps)  BY <1>1
  <2>2. QED  BY <2>1 DEF ScanInv
<1>3. time_buffer[1] \in Nat /\ Head(time_buffer) = time_buffer[1] /\ d \in Nat
  BY <1>1, SyncAssumption
<1>4. CASE lidar_pushed
  <2>1. /\ lidar = ScansOut + 1 /\ lidar # NoScan /\ lidar_end_time - lidar_beg_time \in Durations
        /\ lidar_beg_time = stamps[lidar] /\ lidar_beg_time \in Nat /\ lidar_end_time \in Nat
    BY <1>1, <1>4 DEF ScanInv, NoScan
  <2>2. UNCHANGED <<lidar, lidar_beg_time, lidar_end_time>>  BY <1>4 DEF TakeScan
  <2>3. QED  BY <1>1, <1>2, <2>1, <2>2
<1>5. CASE ~lidar_pushed
  <2>1. /\ lidar' = Head(lidar_buffer) /\ lidar_beg_time' = Head(time_buffer)
        /\ lidar_end_time' = Head(time_buffer) + d
    BY <1>5 DEF TakeScan
  <2>2. lidar' = lidar_buffer[1] /\ lidar_beg_time' = time_buffer[1] /\ lidar_end_time' = time_buffer[1] + d
    BY <1>1, <1>3, <2>1
  <2>3. lidar_end_time' \in Nat /\ lidar_end_time' - lidar_beg_time' = d  BY <1>3, <2>2
  <2>4. QED  BY <1>1, <1>2, <1>3, <2>2, <2>3
<1>6. QED  BY <1>4, <1>5

(* Measures has a scan that waits for its samples.                          *)
LEMMA ScanWaits ==
  ASSUME ScanInv, NEW d \in Durations, SyncWaits(d)
  PROVE  ScanInv' /\ ScansOut' = ScansOut
<1>1. /\ lidar_buffer # << >> /\ TakeScan(d) /\ lidar_pushed' = TRUE /\ UNCHANGED <<buffers, stamps>>
  BY DEF SyncWaits
<1>2. ScansOut' = ScansOut  BY <1>1 DEF ScansOut, buffers
<1>3. /\ lidar' = ScansOut + 1 /\ lidar' \in 1 .. Len(stamps)
      /\ lidar_beg_time' = stamps[lidar'] /\ lidar_beg_time' \in Nat /\ lidar_end_time' \in Nat
      /\ lidar_end_time' - lidar_beg_time' \in Durations
  BY <1>1, ScanTaken
<1>4. lidar' \in 0 .. Len(stamps)  BY <1>3
<1>5. QED  BY <1>1, <1>2, <1>3, <1>4 DEF ScanInv, buffers

(* The package is made: its scan is out of the buffer.                      *)
LEMMA PackageMade ==
  ASSUME ScanInv, NEW d \in Durations, SyncPackages(d)
  PROVE  /\ ScanInv' /\ ScansOut' = ScansOut + 1 /\ lidar' = ScansOut' /\ lidar' # NoScan
         /\ lidar_pushed' = FALSE
         /\ time_buffer # << >> /\ time_buffer' = Tail(time_buffer) /\ lidar_beg_time' = time_buffer[1]
         /\ lidar_end_time' - lidar_beg_time' \in Durations
<1>1. /\ lidar_buffer # << >> /\ TakeScan(d) /\ lidar_pushed' = FALSE
      /\ lidar_buffer' = Tail(lidar_buffer) /\ time_buffer' = Tail(time_buffer)
      /\ UNCHANGED <<last_timestamp_lidar, stamps>>
  BY DEF SyncPackages, PopScan
<1>2. /\ lidar' = ScansOut + 1 /\ lidar' \in 1 .. Len(stamps)
      /\ lidar_beg_time' = time_buffer[1] /\ lidar_beg_time' = stamps[lidar']
      /\ lidar_beg_time' \in Nat /\ lidar_end_time' \in Nat
      /\ lidar_end_time' - lidar_beg_time' \in Durations
  BY <1>1, ScanTaken
<1> DEFINE k == Len(lidar_buffer)
<1>3. /\ k \in Nat /\ k > 0 /\ Len(time_buffer) = k /\ Len(stamps) \in Nat /\ ScansOut \in Nat
      /\ ScansOut = Len(stamps) - k /\ lidar_buffer \in Seq(Nat) /\ time_buffer \in Seq(Nat)
  BY <1>1 DEF ScanInv, ScansOut
<1>4. /\ lidar_buffer' \in Seq(Nat) /\ Len(lidar_buffer') = k - 1
      /\ \A i \in 1 .. k - 1 : lidar_buffer'[i] = lidar_buffer[i + 1]
  BY <1>1, <1>3
<1>5. time_buffer # << >>  BY <1>3
<1>6. /\ time_buffer' \in Seq(Nat) /\ Len(time_buffer') = k - 1
      /\ \A i \in 1 .. k - 1 : time_buffer'[i] = time_buffer[i + 1]
  BY <1>1, <1>3, <1>5
<1>7. ScansOut' = ScansOut + 1  BY <1>1, <1>3, <1>4 DEF ScansOut
<1>8. \A i \in 1 .. k - 1 : lidar_buffer'[i] = ScansOut + 1 + i /\ time_buffer'[i] = stamps[ScansOut + 1 + i]
  <2> TAKE i \in 1 .. k - 1
  <2>1. i + 1 \in 1 .. k /\ ScansOut + (i + 1) = ScansOut + 1 + i  BY <1>3
  <2>2. lidar_buffer[i + 1] = ScansOut + (i + 1) /\ time_buffer[i + 1] = stamps[ScansOut + (i + 1)]
    BY <2>1 DEF ScanInv
  <2>3. QED  BY <1>4, <1>6, <2>1, <2>2
<1>9. lidar' \in 0 .. Len(stamps) /\ lidar' # NoScan  BY <1>2, <1>3 DEF NoScan
<1>10. ScanInv'
  <2>1. ScansOut' \in Nat  BY <1>3, <1>7
  <2>2. \A i \in 1 .. Len(lidar_buffer') :
          lidar_buffer'[i] = ScansOut' + i /\ time_buffer'[i] = stamps'[ScansOut' + i]
    BY <1>1, <1>4, <1>7, <1>8
  <2>3. QED
    BY <1>1, <1>2, <1>4, <1>6, <1>9, <2>1, <2>2 DEF ScanInv
<1>11. QED  BY <1>1, <1>2, <1>5, <1>7, <1>9, <1>10

(* ScanHasItsTime needs no more than the order of the scans.                *)
LEMMA ScansInOrder == Spec => [](steady => ScanInv)
<1>1. Init => (steady => ScanInv)  BY SyncStarts
<1>2. (steady => ScanInv) /\ [Next]_vars => (steady => ScanInv)'
  <2> SUFFICES ASSUME steady => ScanInv, [Next]_vars, steady'  PROVE ScanInv'  OBVIOUS
  <2>1. CASE Next
    <3>1. steady /\ ScanInv  BY <2>1 DEF Next
    <3>2. ASSUME NEW dt \in LidarSteps, LidarCallback(last_timestamp_lidar + dt)  PROVE ScanInv'
      <4>1. dt \in Nat  BY SyncAssumption
      <4>2. QED  BY <3>1, <3>2, <4>1, ScanReceived
    <3>3. ASSUME NEW dt \in ImuSteps, ImuCallback(last_timestamp_imu + dt)  PROVE ScanInv'
      BY <3>1, <3>3, SampleReceived DEF ImuCallback
    <3>4. ASSUME NEW d \in Durations, TimerCallback(d)  PROVE ScanInv'
      BY <3>1, <3>4, ScanWaits, PackageMade DEF TimerCallback
    <3>5. QED  BY <2>1, <3>1, <3>2, <3>3, <3>4 DEF Next
  <2>2. CASE UNCHANGED vars
    <3>1. steady /\ ScanInv  BY <2>2 DEF vars
    <3>2. QED  BY <2>2, <3>1, SampleReceived DEF vars, buffers
  <2>3. QED  BY <2>1, <2>2
<1>3. QED  BY <1>1, <1>2, PTL DEF Spec

(* As long as the clocks are steady, the scan in Measures is under its own   *)
(* begin time, and while it waits for samples it stays the first of the     *)
(* buffer (sync_packages, lidar_pushed).                                    *)
THEOREM ScansKeepTheirTime == Spec => []ScanHasItsTime
<1>1. (steady => ScanInv) => ScanHasItsTime
  <2> SUFFICES ASSUME steady, ScanInv PROVE ScanHasItsTime  BY DEF ScanHasItsTime
  <2>1. lidar_pushed => lidar_buffer # << >> /\ Head(lidar_buffer) = lidar
    <3> SUFFICES ASSUME lidar_pushed PROVE lidar_buffer # << >> /\ Head(lidar_buffer) = lidar  OBVIOUS
    <3>1. lidar_buffer # << >> /\ lidar = ScansOut + 1 /\ lidar_buffer \in Seq(Nat)  BY DEF ScanInv
    <3>2. 1 \in 1 .. Len(lidar_buffer) /\ Head(lidar_buffer) = lidar_buffer[1]  BY <3>1
    <3>3. QED  BY <3>1, <3>2 DEF ScanInv
  <2>2. QED  BY <2>1 DEF ScanHasItsTime, ScanInv
<1>2. QED  BY <1>1, ScansInOrder, PTL

(* A scan is received: what comes next in time is as before.                *)
LEMMA LidarKeeps ==
  ASSUME PackagesInv, NEW dt \in LidarSteps, LidarCallback(last_timestamp_lidar + dt)
  PROVE  PackagesInv'
<1> DEFINE time == last_timestamp_lidar + dt
           n == Len(stamps)
<1>1. ScanInv /\ StampSteps /\ SampleInv /\ EarlyInv /\ PackageInv /\ RegisteredInv  BY DEF PackagesInv
<1>2. dt \in Nat  BY SyncAssumption
<1>3. /\ time \in Nat /\ time_buffer' = Append(time_buffer, time)
      /\ last_timestamp_lidar' = time /\ stamps' = Append(stamps, time)
      /\ UNCHANGED <<imu_buffer, last_timestamp_imu, measures, mapping>>
      /\ ScansOut' = ScansOut /\ ScanInv'
  BY <1>1, <1>2, ScanReceived
<1>4. /\ n \in Nat /\ Len(stamps') = n + 1
      /\ \A i \in 1 .. n + 1 : stamps'[i] = IF i = n + 1 THEN time ELSE stamps[i]
  <2>1. stamps \in Seq(Nat)  BY <1>1 DEF ScanInv
  <2>2. QED  BY <1>3, <2>1, Appended
<1>5. StampSteps'
  <2> SUFFICES ASSUME NEW i \in 1 .. n  PROVE stamps'[i + 1] - stamps'[i] \in LidarSteps
    BY <1>4 DEF StampSteps
  <2>1. CASE i = n
    <3>1. stamps # << >>  BY <1>4, <2>1
    <3>2. last_timestamp_lidar = stamps[n] /\ last_timestamp_lidar \in Nat  BY <1>1, <3>1 DEF ScanInv
    <3>3. stamps'[n + 1] = time /\ stamps'[n] = stamps[n]  BY <1>4, <2>1
    <3>4. time - last_timestamp_lidar = dt  BY <1>2, <3>2
    <3>5. QED  BY <2>1, <3>2, <3>3, <3>4
  <2>2. CASE i # n
    <3>1. i \in 1 .. n - 1 /\ i \in 1 .. n + 1 /\ i + 1 \in 1 .. n + 1 /\ i # n + 1 /\ i + 1 # n + 1
      BY <1>4, <2>2
    <3>2. QED  BY <1>1, <1>4, <3>1 DEF StampSteps
  <2>3. QED  BY <2>1, <2>2
<1>6. SampleInv'  BY <1>1, <1>3 DEF SampleInv, measures
<1>7. EarlyInv'
  <2>1. NextSamples' = NextSamples  BY <1>3 DEF NextSamples
  <2>2. NextBegins' \subseteq NextBegins
    <3>1. CASE time_buffer = << >>
      <4>1. time_buffer' # << >> /\ time_buffer'[1] = time  BY <1>3, <3>1
      <4>2. QED  BY <3>1, <4>1 DEF NextBegins
    <3>2. CASE time_buffer # << >>
      <4>1. time_buffer \in Seq(Nat)  BY <1>1 DEF ScanInv
      <4>2. Len(time_buffer) \in Nat /\ Len(time_buffer) > 0  BY <3>2, <4>1
      <4>3. time_buffer' # << >> /\ time_buffer'[1] = time_buffer[1]
        <5>1. Len(time_buffer') = Len(time_buffer) + 1 /\ time_buffer' \in Seq(Nat)
              /\ \A i \in 1 .. Len(time_buffer) + 1 :
                   time_buffer'[i] = IF i = Len(time_buffer) + 1 THEN time ELSE time_buffer[i]
          BY <1>3, <4>1, Appended
        <5>2. QED  BY <4>2, <5>1
      <4>4. QED  BY <3>2, <4>3 DEF NextBegins
    <3>3. QED  BY <3>1, <3>2
  <2>3. lidar_pushed' = lidar_pushed /\ lidar_end_time' = lidar_end_time  BY <1>3 DEF measures
  <2>4. NextEnds' \subseteq NextEnds  BY <2>2, <2>3 DEF NextEnds
  <2>5. QED  BY <1>1, <2>1, <2>4 DEF EarlyInv
<1>8. PackageInv'  BY <1>1, <1>3 DEF PackageInv, measures
<1>9. RegisteredInv'
  <2>1. registered' = registered  BY <1>3 DEF mapping
  <2>2. \A i \in 1 .. Len(registered) : registered[i].scan \in 1 .. n + 1 /\ registered[i].scan # n + 1
    <3>1. ScansOut \in Nat /\ ScansOut <= n  BY <1>1, <1>4 DEF ScanInv, ScansOut
    <3>2. \A i \in 1 .. Len(registered) : registered[i].scan \in 1 .. ScansOut  BY <1>1 DEF RegisteredInv
    <3>3. \A k \in 1 .. ScansOut : k \in 1 .. n + 1 /\ k # n + 1  BY <1>4, <3>1
    <3>4. QED  BY <3>2, <3>3
  <2>3. \A i \in 1 .. Len(registered) : stamps'[registered[i].scan] = stamps[registered[i].scan]
    BY <1>4, <2>2
  <2>4. QED  BY <1>1, <1>3, <2>1, <2>3 DEF RegisteredInv
<1>10. QED  BY <1>3, <1>5, <1>6, <1>7, <1>8, <1>9 DEF PackagesInv

(* A sample is received.                                                    *)
LEMMA ImuKeeps ==
  ASSUME SamplesOften, PackagesInv, NEW dt \in ImuSteps, ImuCallback(last_timestamp_imu + dt)
  PROVE  PackagesInv'
<1> DEFINE time == last_timestamp_imu + dt
           n == Len(imu_buffer)
<1>1. ScanInv /\ StampSteps /\ SampleInv /\ EarlyInv /\ PackageInv /\ RegisteredInv  BY DEF PackagesInv
<1>2. /\ dt \in Nat /\ dt > 0 /\ last_timestamp_imu \in Nat /\ time \in Nat /\ imu_buffer \in Seq(Nat)
      /\ n \in Nat
  <2>1. dt \in Nat /\ dt # 0  BY SyncAssumption DEF SamplesOften
  <2>2. QED  BY <1>1, <2>1 DEF SampleInv
<1>3. /\ imu_buffer' = Append(imu_buffer, time) /\ last_timestamp_imu' = time
      /\ UNCHANGED <<lidar_buffer, time_buffer, last_timestamp_lidar, measures, mapping, stamps>>
  <2>1. ~(time < last_timestamp_imu)  BY <1>2
  <2>2. QED  BY <2>1 DEF ImuCallback
<1> HIDE DEF time, n
<1>4. /\ imu_buffer' \in Seq(Nat) /\ Len(imu_buffer') = n + 1
      /\ \A i \in 1 .. n + 1 : imu_buffer'[i] = IF i = n + 1 THEN time ELSE imu_buffer[i]
  BY <1>2, <1>3, Appended DEF n
<1>5. ScanInv' /\ ScansOut' = ScansOut  BY <1>1, <1>3, SampleReceived
<1>6. StampSteps' /\ RegisteredInv'
  BY <1>1, <1>3, <1>5 DEF StampSteps, RegisteredInv, mapping
<1>7. \A i \in 1 .. n : imu_buffer[i] \in Nat /\ imu_buffer[i] < time
  <2>1. \A i \in 1 .. n : imu_buffer[i] \in Nat  BY <1>2 DEF n
  <2> SUFFICES ASSUME NEW i \in 1 .. n  PROVE imu_buffer[i] <= last_timestamp_imu
    BY <1>2, <2>1 DEF time
  <2>2. imu_buffer # << >> /\ n \in 1 .. n  BY <1>2 DEF n
  <2>3. last_timestamp_imu = imu_buffer[n]  BY <1>1, <2>2 DEF SampleInv, n
  <2>4. i = n \/ i < n  BY <1>2
  <2>5. i < n => imu_buffer[i] < imu_buffer[n]  BY <1>1, <2>2 DEF SampleInv, n
  <2>6. QED  BY <1>2, <2>1, <2>2, <2>3, <2>4, <2>5
<1>8. SampleInv'
  <2>1. \A i, j \in 1 .. n + 1 : i < j => imu_buffer'[i] < imu_buffer'[j]
    <3> TAKE i, j \in 1 .. n + 1
    <3> HAVE i < j
    <3>1. i \in 1 .. n /\ imu_buffer'[i] = imu_buffer[i]  BY <1>2, <1>4
    <3>2. CASE j = n + 1  BY <1>4, <1>7, <3>1, <3>2
    <3>3. CASE j # n + 1
      <4>1. j \in 1 .. n /\ imu_buffer'[j] = imu_buffer[j]  BY <1>2, <1>4, <3>3
      <4>2. QED  BY <1>1, <3>1, <4>1 DEF SampleInv, n
    <3>4. QED  BY <3>2, <3>3
  <2>2. \A i \in 1 .. n : imu_buffer'[i + 1] - imu_buffer'[i] \in ImuSteps
    <3> TAKE i \in 1 .. n
    <3>1. imu_buffer'[i] = imu_buffer[i]  BY <1>2, <1>4
    <3>2. CASE i = n
      <4>1. imu_buffer # << >>  BY <1>2 DEF n
      <4>2. last_timestamp_imu = imu_buffer[n]  BY <1>1, <4>1 DEF SampleInv, n
      <4>3. imu_buffer'[n + 1] = time  BY <1>2, <1>4
      <4>4. time - last_timestamp_imu = dt  BY <1>2 DEF time
      <4>5. QED  BY <3>1, <3>2, <4>2, <4>3, <4>4
    <3>3. CASE i # n
      <4>1. i \in 1 .. n - 1 /\ imu_buffer'[i + 1] = imu_buffer[i + 1]  BY <1>2, <1>4, <3>3
      <4>2. QED  BY <1>1, <3>1, <4>1 DEF SampleInv, n
    <3>4. QED  BY <3>2, <3>3
  <2>3. imu_buffer'[n + 1] = time /\ imu_buffer' # << >>  BY <1>2, <1>4
  <2>4. imu' = imu /\ imu \in Seq(Nat)  BY <1>1, <1>3 DEF SampleInv, measures
  <2>5. imu # << >> => imu_buffer'[1] - imu[Len(imu)] \in ImuSteps
    <3> SUFFICES ASSUME imu # << >> PROVE imu_buffer'[1] - imu[Len(imu)] \in ImuSteps  OBVIOUS
    <3>1. CASE imu_buffer = << >>
      <4>1. n = 0 /\ last_timestamp_imu = imu[Len(imu)]  BY <1>1, <3>1 DEF SampleInv, n
      <4>2. imu_buffer'[1] = time  BY <2>3, <4>1
      <4>3. time - last_timestamp_imu = dt  BY <1>2 DEF time
      <4>4. QED  BY <4>1, <4>2, <4>3
    <3>2. CASE imu_buffer # << >>
      <4>1. 1 \in 1 .. n  BY <1>2, <3>2 DEF n
      <4>2. imu_buffer'[1] = imu_buffer[1]  BY <1>2, <1>4, <4>1
      <4>3. QED  BY <1>1, <3>2, <4>2 DEF SampleInv
    <3>3. QED  BY <3>1, <3>2
  <2>6. Len(imu_buffer') - 1 = n /\ imu_buffer'[Len(imu_buffer')] = time  BY <1>2, <1>4, <2>3
  <2>7. /\ imu_buffer' \in Seq(Nat) /\ imu' \in Seq(Nat) /\ last_timestamp_imu' \in Nat
        /\ last_timestamp_imu' = imu_buffer'[Len(imu_buffer')]
    BY <1>2, <1>3, <1>4, <2>4, <2>6
  <2>8. QED  BY <1>4, <2>1, <2>2, <2>3, <2>4, <2>5, <2>6, <2>7 DEF SampleInv
<1>9. EarlyInv'
  <2>1. NextSamples' \subseteq NextSamples
    <3>1. imu_buffer' # << >>  BY <1>2, <1>4
    <3>2. CASE imu_buffer = << >>
      <4>1. n = 0  BY <3>2 DEF n
      <4>2. imu_buffer'[1] = time  BY <1>4, <4>1
      <4>3. QED  BY <3>1, <3>2, <4>2 DEF NextSamples, time
    <3>3. CASE imu_buffer # << >>
      <4>1. 1 \in 1 .. n  BY <1>2, <3>3 DEF n
      <4>2. imu_buffer'[1] = imu_buffer[1]  BY <1>2, <1>4, <4>1
      <4>3. QED  BY <3>1, <3>3, <4>2 DEF NextSamples
    <3>4. QED  BY <3>2, <3>3
  <2>2. NextEnds' = NextEnds  BY <1>3 DEF NextEnds, NextBegins, measures
  <2>3. QED  BY <1>1, <2>1, <2>2 DEF EarlyInv
<1>10. PackageInv'
  <2> SUFFICES ASSUME ~lidar_pushed, lidar # NoScan
               PROVE  /\ \A i \in 1 .. Len(imu) : imu[i] <= lidar_end_time
                      /\ \A i \in 1 .. Len(imu_buffer') : imu_buffer'[i] > lidar_end_time
                      /\ last_timestamp_imu' >= lidar_end_time
    BY <1>3 DEF PackageInv, measures
  <2>1. /\ \A i \in 1 .. Len(imu) : imu[i] <= lidar_end_time
        /\ \A i \in 1 .. n : imu_buffer[i] > lidar_end_time
        /\ last_timestamp_imu >= lidar_end_time
    BY <1>1 DEF PackageInv, n
  <2>2. time > lidar_end_time /\ time >= lidar_end_time
    <3>1. lidar_end_time \in Nat  BY <1>1 DEF ScanInv
    <3>2. QED  BY <1>2, <2>1, <3>1 DEF time
  <2>3. \A i \in 1 .. n + 1 : i # n + 1 => i \in 1 .. n  BY <1>2
  <2>4. \A i \in 1 .. n + 1 : imu_buffer'[i] > lidar_end_time  BY <1>4, <2>1, <2>2, <2>3
  <2>5. Len(imu_buffer') = n + 1 /\ last_timestamp_imu' = time  BY <1>3, <1>4
  <2>6. QED  BY <2>1, <2>2, <2>4, <2>5
<1>11. QED  BY <1>5, <1>6, <1>8, <1>9, <1>10 DEF PackagesInv

(* The scan's end is the one that the next sample is before.                *)
LEMMA EndIsNext ==
  ASSUME ScanInv, EarlyInv, NEW d \in Durations, lidar_buffer # << >>, TakeScan(d)
  PROVE  \A sample \in NextSamples : sample < lidar_end_time'
<1>1. CASE lidar_pushed
  <2>1. lidar_end_time' = lidar_end_time  BY <1>1 DEF TakeScan
  <2>2. QED  BY <1>1, <2>1 DEF EarlyInv, NextEnds
<1>2. CASE ~lidar_pushed
  <2>1. lidar_end_time' = Head(time_buffer) + d  BY <1>2 DEF TakeScan
  <2>2. time_buffer \in Seq(Nat) /\ Len(time_buffer) = Len(lidar_buffer) /\ Len(lidar_buffer) > 0
    BY DEF ScanInv
  <2>3. time_buffer # << >> /\ Head(time_buffer) = time_buffer[1]  BY <2>2
  <2>4. lidar_end_time' \in NextEnds  BY <1>2, <2>1, <2>3 DEF NextEnds, NextBegins
  <2>5. QED  BY <2>4 DEF EarlyInv
<1>3. QED  BY <1>1, <1>2

(* A scan that waits is the one whose end is next.                          *)
LEMMA WaitKeeps ==
  ASSUME PackagesInv, NEW d \in Durations, SyncWaits(d)
  PROVE  PackagesInv'
<1>1. ScanInv /\ StampSteps /\ SampleInv /\ EarlyInv /\ PackageInv /\ RegisteredInv  BY DEF PackagesInv
<1>2. /\ lidar_buffer # << >> /\ TakeScan(d) /\ lidar_pushed' = TRUE
      /\ UNCHANGED <<buffers, imu, mapping, stamps>>
  BY DEF SyncWaits
<1>3. ScanInv' /\ ScansOut' = ScansOut  BY <1>1, ScanWaits
<1>4. StampSteps' /\ SampleInv' /\ RegisteredInv'
  BY <1>1, <1>2, <1>3 DEF StampSteps, SampleInv, RegisteredInv, mapping, buffers
<1>5. EarlyInv'
  <2>1. \A sample \in NextSamples : sample < lidar_end_time'  BY <1>1, <1>2, EndIsNext
  <2>2. NextSamples' = NextSamples  BY <1>2 DEF NextSamples, buffers
  <2>3. NextEnds' = {lidar_end_time'}  BY <1>2 DEF NextEnds
  <2>4. QED  BY <2>1, <2>2, <2>3 DEF EarlyInv
<1>6. PackageInv'  BY <1>2 DEF PackageInv
<1>7. QED  BY <1>3, <1>4, <1>5, <1>6 DEF PackagesInv

(* The samples of a package are not none, and those that stay are later.    *)
LEMMA SamplesPopped ==
  ASSUME SamplesOften, PackagesInv, NEW d \in Durations, SyncPackages(d)
  PROVE  /\ imu' # << >> /\ imu_buffer # << >> /\ Head(imu') = imu_buffer[1]
         /\ SampleInv' /\ PackageInv'
         /\ \A sample \in NextSamples' : \E s \in ImuSteps : sample <= lidar_end_time' + s /\ sample \in Nat
<1> DEFINE end == lidar_end_time'
           n == Taken(end)
           N == Len(imu_buffer)
<1>1. ScanInv /\ SampleInv /\ EarlyInv  BY DEF PackagesInv
<1>2. /\ lidar_buffer # << >> /\ imu_buffer # << >> /\ TakeScan(d) /\ last_timestamp_imu >= end
      /\ imu' = SubSeq(imu_buffer, 1, n) /\ imu_buffer' = SubSeq(imu_buffer, n + 1, N)
      /\ UNCHANGED last_timestamp_imu
  BY DEF SyncPackages, PopSamples
<1>3. /\ imu_buffer \in Seq(Nat) /\ N \in Nat /\ N > 0 /\ last_timestamp_imu = imu_buffer[N]
      /\ last_timestamp_imu \in Nat
      /\ \A i, j \in 1 .. N : i < j => imu_buffer[i] < imu_buffer[j]
      /\ \A i \in 1 .. N - 1 : imu_buffer[i + 1] - imu_buffer[i] \in ImuSteps
  BY <1>1, <1>2 DEF SampleInv
<1>4. end \in Nat /\ imu_buffer[1] < end
  <2>1. end \in Nat  BY <1>1, <1>2, ScanTaken
  <2>2. imu_buffer[1] \in NextSamples  BY <1>2 DEF NextSamples
  <2>3. QED  BY <1>1, <1>2, <2>1, <2>2, EndIsNext
<1>5. /\ n \in 1 .. N /\ \A i \in 1 .. n : imu_buffer[i] <= end
      /\ \A i \in n + 1 .. N : imu_buffer[i] > end
  BY <1>1, <1>2, <1>4, TakenIs
<1> HIDE DEF n, end, N
<1>6. /\ imu' \in Seq(Nat) /\ Len(imu') = n /\ \A i \in 1 .. n : imu'[i] = imu_buffer[i]
  <2>1. \A i \in 1 .. n : imu_buffer[i] \in Nat  BY <1>3, <1>5 DEF N
  <2>2. QED  BY <1>2, <1>3, <1>5, <2>1 DEF N
<1>7. /\ imu_buffer' \in Seq(Nat) /\ Len(imu_buffer') = N - n
      /\ \A i \in 1 .. N - n : imu_buffer'[i] = imu_buffer[n + i]
  <2>1. \A i \in n + 1 .. N : imu_buffer[i] \in Nat  BY <1>3, <1>5 DEF N
  <2>2. QED  BY <1>2, <1>3, <1>5, <2>1 DEF N
<1>8. imu' # << >> /\ Head(imu') = imu_buffer[1] /\ imu'[Len(imu')] = imu_buffer[n]
  BY <1>3, <1>5, <1>6
<1>9. \A i \in 1 .. N - n : n + i \in n + 1 .. N /\ n + i \in 1 .. N  BY <1>3, <1>5
<1>10. SampleInv'
  <2>1. \A i, j \in 1 .. N - n : i < j => imu_buffer'[i] < imu_buffer'[j]
    <3> TAKE i, j \in 1 .. N - n
    <3> HAVE i < j
    <3>1. n + i < n + j  BY <1>3, <1>5
    <3>2. QED  BY <1>3, <1>7, <1>9, <3>1
  <2>2. \A i \in 1 .. N - n - 1 : imu_buffer'[i + 1] - imu_buffer'[i] \in ImuSteps
    <3> TAKE i \in 1 .. N - n - 1
    <3>1. i \in 1 .. N - n /\ i + 1 \in 1 .. N - n /\ n + i \in 1 .. N - 1 /\ n + (i + 1) = (n + i) + 1
      BY <1>3, <1>5
    <3>2. QED  BY <1>3, <1>7, <3>1
  <2>3. imu_buffer' # << >> => last_timestamp_imu' = imu_buffer'[N - n]
    <3> SUFFICES ASSUME imu_buffer' # << >> PROVE last_timestamp_imu = imu_buffer'[N - n]  BY <1>2
    <3>1. N - n \in 1 .. N - n /\ n + (N - n) = N  BY <1>3, <1>5, <1>7
    <3>2. QED  BY <1>3, <1>7, <3>1
  <2>4. IF imu_buffer' = << >> THEN last_timestamp_imu' = imu'[Len(imu')]
        ELSE imu_buffer'[1] - imu'[Len(imu')] \in ImuSteps
    <3>1. CASE imu_buffer' = << >>
      <4>1. n = N  BY <1>3, <1>5, <1>7, <3>1
      <4>2. QED  BY <1>2, <1>3, <1>8, <3>1, <4>1
    <3>2. CASE imu_buffer' # << >>
      <4>1. 1 \in 1 .. N - n /\ n \in 1 .. N - 1  BY <1>3, <1>5, <1>7, <3>2
      <4>2. QED  BY <1>3, <1>7, <1>8, <3>2, <4>1
    <3>3. QED  BY <3>1, <3>2
  <2>5. QED  BY <1>2, <1>3, <1>6, <1>7, <2>1, <2>2, <2>3, <2>4 DEF SampleInv
<1>11. PackageInv'
  <2>1. \A i \in 1 .. n : imu'[i] <= end  BY <1>5, <1>6
  <2>2. \A i \in 1 .. N - n : imu_buffer'[i] > end  BY <1>5, <1>7, <1>9
  <2>3. last_timestamp_imu' >= end  BY <1>2
  <2>4. QED  BY <1>6, <1>7, <2>1, <2>2, <2>3 DEF PackageInv, end
<1>12. \A sample \in NextSamples' : \E s \in ImuSteps : sample <= end + s /\ sample \in Nat
  <2> TAKE sample \in NextSamples'
  <2>1. imu_buffer[n] \in Nat /\ imu_buffer[n] <= end  BY <1>3, <1>5 DEF N
  <2>2. CASE imu_buffer' = << >>
    <3>1. n = N  BY <1>3, <1>5, <1>7, <2>2
    <3>2. PICK s \in ImuSteps : sample = last_timestamp_imu + s  BY <1>2, <2>2 DEF NextSamples
    <3>3. s \in Nat  BY SyncAssumption
    <3>4. last_timestamp_imu <= end  BY <1>3, <2>1, <3>1
    <3>5. last_timestamp_imu \in Nat /\ end \in Nat  BY <1>3, <1>4 DEF end
    <3>6. sample <= end + s /\ sample \in Nat  BY <3>2, <3>3, <3>4, <3>5
    <3>7. QED  BY <3>6
  <2>3. CASE imu_buffer' # << >>
    <3>1. sample = imu_buffer'[1]  BY <2>3 DEF NextSamples
    <3>2. 1 \in 1 .. N - n /\ n \in 1 .. N - 1  BY <1>3, <1>5, <1>7, <2>3
    <3>3. sample = imu_buffer[n + 1] /\ imu_buffer[n + 1] - imu_buffer[n] \in ImuSteps
      BY <1>3, <1>7, <3>1, <3>2
    <3>4. imu_buffer[n + 1] \in Nat  BY <1>3, <3>2 DEF N
    <3> DEFINE s == imu_buffer[n + 1] - imu_buffer[n]
    <3>5. s \in ImuSteps  BY <3>3
    <3>6. sample <= end + s /\ sample \in Nat
      <4>1. end \in Nat  BY <1>4 DEF end
      <4>2. QED  BY <2>1, <3>3, <3>4, <4>1
    <3>7. QED  BY <3>5, <3>6
  <2>4. QED  BY <2>2, <2>3
<1>13. QED  BY <1>2, <1>8, <1>10, <1>11, <1>12 DEF end

(* The rest of the timer's callback: it registers the new scan or none.     *)
LEMMA ScanRegistered ==
  ASSUME imu' # << >>, FirstScan \/ NoSamples \/ InitImu \/ Undistort
  PROVE  \/ registered' = registered
         \/ registered' = Append(registered, [scan |-> lidar', beg |-> lidar_beg_time'])
<1>1. ~NoSamples  BY DEF NoSamples
<1>2. CASE FirstScan  BY <1>2 DEF FirstScan
<1>3. CASE InitImu  BY <1>3 DEF InitImu
<1>4. CASE Undistort  BY <1>4 DEF Undistort, UseCloud
<1>5. QED  BY <1>1, <1>2, <1>3, <1>4

(* A package is made: the next sample is before the next scan's end, because *)
(* the one taken last is not after this scan's.                             *)
LEMMA PackageKeeps ==
  ASSUME SamplesOften, PackagesInv, NEW d \in Durations, SyncPackages(d),
         FirstScan \/ NoSamples \/ InitImu \/ Undistort
  PROVE  PackagesInv'
<1>1. ScanInv /\ StampSteps /\ SampleInv /\ EarlyInv /\ PackageInv /\ RegisteredInv  BY DEF PackagesInv
<1>2. /\ ScanInv' /\ ScansOut' = ScansOut + 1 /\ lidar' = ScansOut' /\ lidar_pushed' = FALSE
      /\ lidar' # NoScan
      /\ time_buffer # << >> /\ time_buffer' = Tail(time_buffer) /\ lidar_beg_time' = time_buffer[1]
      /\ lidar_end_time' - lidar_beg_time' \in Durations
  BY <1>1, PackageMade
<1>3. /\ imu' # << >> /\ SampleInv' /\ PackageInv'
      /\ \A sample \in NextSamples' : \E s \in ImuSteps : sample <= lidar_end_time' + s /\ sample \in Nat
  BY SamplesPopped
<1>4. UNCHANGED <<last_timestamp_lidar, stamps>>  BY DEF SyncPackages
<1>5. StampSteps'  BY <1>1, <1>4 DEF StampSteps
<1>6. \A beg \in NextBegins' : \E step \in LidarSteps : beg = time_buffer[1] + step
  <2>1. /\ time_buffer \in Seq(Nat) /\ Len(time_buffer) \in Nat /\ Len(time_buffer) > 0
        /\ ScansOut \in Nat /\ ScansOut = Len(stamps) - Len(time_buffer) /\ Len(stamps) \in Nat
        /\ stamps \in Seq(Nat)
    <3>1. /\ time_buffer \in Seq(Nat) /\ stamps \in Seq(Nat) /\ ScansOut \in Nat
          /\ Len(time_buffer) = Len(lidar_buffer)
      BY <1>1 DEF ScanInv
    <3>2. ScansOut = Len(stamps) - Len(time_buffer)  BY <3>1 DEF ScansOut
    <3>3. QED  BY <1>2, <3>1, <3>2
  <2>2. /\ 1 \in 1 .. Len(time_buffer) /\ ScansOut + 1 \in 1 .. Len(stamps)  BY <2>1
  <2>3. time_buffer[1] = stamps[ScansOut + 1] /\ time_buffer[1] \in Nat
    <3>1. 1 \in 1 .. Len(lidar_buffer)  BY <1>1, <2>2 DEF ScanInv
    <3>2. time_buffer[1] = stamps[ScansOut + 1]  BY <1>1, <3>1 DEF ScanInv
    <3>3. time_buffer[1] \in Nat  BY <2>1, <2>2
    <3>4. QED  BY <3>2, <3>3
  <2>4. CASE Len(time_buffer) = 1
    <3>1. time_buffer' = << >>  BY <1>2, <2>1, <2>4, Shortened
    <3>2. ScansOut + 1 = Len(stamps) /\ stamps # << >>  BY <2>1, <2>4
    <3>3. last_timestamp_lidar' = time_buffer[1]  BY <1>1, <1>4, <2>3, <3>2 DEF ScanInv
    <3>4. QED  BY <3>1, <3>3 DEF NextBegins
  <2>5. CASE Len(time_buffer) > 1
    <3>1. time_buffer' # << >> /\ time_buffer'[1] = time_buffer[2]  BY <1>2, <2>1, <2>5, Shortened
    <3>2. 2 \in 1 .. Len(time_buffer) /\ ScansOut + 1 \in 1 .. Len(stamps) - 1 /\ ScansOut + 2 = ScansOut + 1 + 1
          /\ ScansOut + 2 \in 1 .. Len(stamps)
      BY <2>1, <2>5
    <3>3. time_buffer[2] = stamps[ScansOut + 1 + 1] /\ time_buffer[2] \in Nat
      <4>1. 2 \in 1 .. Len(lidar_buffer)  BY <1>1, <3>2 DEF ScanInv
      <4>2. time_buffer[2] = stamps[ScansOut + 2]  BY <1>1, <4>1 DEF ScanInv
      <4>3. time_buffer[2] \in Nat  BY <2>1, <3>2
      <4>4. QED  BY <3>2, <4>2, <4>3
    <3>4. time_buffer[2] - time_buffer[1] \in LidarSteps  BY <1>1, <2>3, <3>2, <3>3 DEF StampSteps
    <3>5. time_buffer[2] = time_buffer[1] + (time_buffer[2] - time_buffer[1])  BY <2>3, <3>3
    <3>6. NextBegins' = {time_buffer[2]}  BY <3>1 DEF NextBegins
    <3>7. QED  BY <3>4, <3>5, <3>6
  <2>6. Len(time_buffer) = 1 \/ Len(time_buffer) > 1
    <3>1. \A k \in Nat : k > 0 => k = 1 \/ k > 1  OBVIOUS
    <3>2. QED  BY <2>1, <3>1
  <2>7. QED  BY <2>4, <2>5, <2>6
<1>7. EarlyInv'
  <2> SUFFICES ASSUME NEW sample \in NextSamples', NEW end \in NextEnds'  PROVE sample < end
    BY DEF EarlyInv
  <2>1. PICK s \in ImuSteps : sample <= lidar_end_time' + s /\ sample \in Nat  BY <1>3
  <2>2. PICK beg \in NextBegins', d2 \in Durations : end = beg + d2  BY <1>2 DEF NextEnds
  <2>3. PICK step \in LidarSteps : beg = time_buffer[1] + step  BY <1>6, <2>2
  <2> DEFINE d1 == lidar_end_time' - lidar_beg_time'
  <2>4. d1 \in Durations /\ lidar_beg_time' \in Nat /\ lidar_end_time' \in Nat
        /\ lidar_beg_time' = time_buffer[1]
    BY <1>2 DEF ScanInv
  <2>5. s \in Nat /\ step \in Nat /\ d2 \in Nat  BY SyncAssumption
  <2>6. d1 + s < step + d2  BY <2>4 DEF SamplesOften
  <2>7. lidar_end_time' = time_buffer[1] + d1 /\ d1 \in Nat /\ time_buffer[1] \in Nat
    BY <2>4, SyncAssumption
  <2> HIDE DEF d1
  <2>8. sample <= time_buffer[1] + d1 + s /\ end = time_buffer[1] + step + d2
    BY <2>1, <2>2, <2>3, <2>7
  <2>9. QED  BY <2>1, <2>5, <2>6, <2>7, <2>8
<1>8. RegisteredInv'
  <2> DEFINE m == Len(registered)
             new == [scan |-> lidar', beg |-> lidar_beg_time']
  <2>1. /\ ScansOut \in Nat /\ registered \in Seq([scan : Nat, beg : Nat]) /\ m \in Nat
        /\ \A i \in 1 .. m : /\ registered[i].scan \in 1 .. ScansOut
                             /\ registered[i].beg = stamps[registered[i].scan]
                             /\ \A j \in 1 .. i - 1 : registered[j].scan < registered[i].scan
    <3>1. ScansOut \in Nat  BY <1>1 DEF ScanInv
    <3>2. QED  BY <1>1, <3>1 DEF RegisteredInv
  <2>2. \A k \in 1 .. ScansOut : k \in 1 .. ScansOut' /\ k < ScansOut'  BY <1>2, <2>1
  <2>3. /\ new \in [scan : Nat, beg : Nat] /\ new.scan = ScansOut' /\ new.beg = stamps[ScansOut']
        /\ ScansOut' \in 1 .. ScansOut'
    <3>1. lidar_beg_time' = stamps[lidar'] /\ lidar_beg_time' \in Nat  BY <1>2, <1>4 DEF ScanInv
    <3>2. ScansOut' \in Nat /\ ScansOut' \in 1 .. ScansOut'  BY <1>2, <2>1
    <3>3. QED  BY <1>2, <3>1, <3>2
  <2> HIDE DEF new
  <2>4. CASE registered' = registered  BY <1>4, <2>1, <2>2, <2>4 DEF RegisteredInv
  <2>5. CASE registered' = Append(registered, new)
    <3>1. /\ registered' \in Seq([scan : Nat, beg : Nat]) /\ Len(registered') = m + 1
          /\ \A i \in 1 .. m + 1 : registered'[i] = IF i = m + 1 THEN new ELSE registered[i]
      BY <2>1, <2>3, <2>5, Appended
    <3>2. ASSUME NEW i \in 1 .. m + 1
          PROVE  /\ registered'[i].scan \in 1 .. ScansOut'
                 /\ registered'[i].beg = stamps[registered'[i].scan]
                 /\ \A j \in 1 .. i - 1 : registered'[j].scan < registered'[i].scan
      <4>1. \A j \in 1 .. i - 1 : j \in 1 .. m /\ registered'[j] = registered[j]
        <5>1. \A j \in 1 .. i - 1 : j \in 1 .. m /\ j \in 1 .. m + 1 /\ j # m + 1  BY <2>1
        <5>2. QED  BY <3>1, <5>1
      <4>2. CASE i = m + 1  BY <2>1, <2>2, <2>3, <3>1, <4>1, <4>2
      <4>3. CASE i # m + 1
        <5>1. i \in 1 .. m /\ registered'[i] = registered[i]  BY <2>1, <3>1, <4>3
        <5>2. QED  BY <2>1, <2>2, <4>1, <5>1
      <4>4. QED  BY <4>2, <4>3
    <3>3. QED  BY <1>4, <3>1, <3>2 DEF RegisteredInv
  <2>6. QED  BY <1>3, <2>4, <2>5, ScanRegistered DEF new
<1>9. QED  BY <1>2, <1>3, <1>5, <1>7, <1>8 DEF PackagesInv

(* A step that changes nothing.                                             *)
LEMMA StutterKeeps ==
  ASSUME PackagesInv, UNCHANGED vars  PROVE PackagesInv'
<1> USE DEF vars, buffers, measures, mapping
<1>1. ScanInv' /\ ScansOut' = ScansOut  BY SampleReceived DEF PackagesInv
<1>2. StampSteps' /\ SampleInv'  BY DEF PackagesInv, StampSteps, SampleInv
<1>3. EarlyInv'
  <2>1. NextSamples' = NextSamples /\ NextEnds' = NextEnds  BY DEF NextSamples, NextEnds, NextBegins
  <2>2. QED  BY <2>1 DEF PackagesInv, EarlyInv
<1>4. PackageInv'  BY DEF PackagesInv, PackageInv
<1>5. RegisteredInv'  BY <1>1 DEF PackagesInv, RegisteredInv
<1>6. QED  BY <1>1, <1>2, <1>3, <1>4, <1>5 DEF PackagesInv

(* So it is in every state, as long as the clocks are steady.               *)
LEMMA PackagesSafe ==
  ASSUME SamplesOften PROVE Spec => [](steady => PackagesInv)
<1>1. Init => (steady => PackagesInv)  BY SyncStarts
<1>2. (steady => PackagesInv) /\ [Next]_vars => (steady => PackagesInv)'
  <2> SUFFICES ASSUME steady => PackagesInv, [Next]_vars, steady'  PROVE PackagesInv'  OBVIOUS
  <2>1. CASE Next
    <3>1. steady /\ PackagesInv  BY <2>1 DEF Next
    <3>2. ASSUME NEW dt \in LidarSteps, LidarCallback(last_timestamp_lidar + dt)  PROVE PackagesInv'
      BY <3>1, <3>2, LidarKeeps
    <3>3. ASSUME NEW dt \in ImuSteps, ImuCallback(last_timestamp_imu + dt)  PROVE PackagesInv'
      BY <3>1, <3>3, ImuKeeps
    <3>4. ASSUME NEW d \in Durations, TimerCallback(d)  PROVE PackagesInv'
      BY <3>1, <3>4, WaitKeeps, PackageKeeps DEF TimerCallback
    <3>5. QED  BY <2>1, <3>1, <3>2, <3>3, <3>4 DEF Next
  <2>2. CASE UNCHANGED vars
    <3>1. steady /\ PackagesInv  BY <2>2 DEF vars
    <3>2. QED  BY <2>2, <3>1, StutterKeeps
  <2>3. QED  BY <2>1, <2>2
<1>3. QED  BY <1>1, <1>2, PTL DEF Spec

(* A package has the samples up to the end of its scan and leaves none of   *)
(* them behind (the loop of sync_packages over imu_buffer).                 *)
THEOREM PackagesAreComplete ==
  ASSUME SamplesOften PROVE Spec => []PackageComplete
<1>1. (steady => PackagesInv) => PackageComplete
  <2> SUFFICES ASSUME steady, PackagesInv PROVE PackageComplete  BY DEF PackageComplete
  <2>1. imu \in Seq(Nat) /\ imu_buffer \in Seq(Nat)  BY DEF PackagesInv, SampleInv
  <2>2. DOMAIN imu = 1 .. Len(imu) /\ DOMAIN imu_buffer = 1 .. Len(imu_buffer)  BY <2>1
  <2>3. QED  BY <2>2 DEF PackageComplete, PackagesInv, PackageInv
<1>2. QED  BY <1>1, PackagesSafe, PTL

(* No scan is registered twice, or after a later one, or under a time that  *)
(* is not its own: a package never comes without samples, with which        *)
(* timer_callback would use the cloud of the scan before.                   *)
THEOREM ScansRegisteredOnce ==
  ASSUME SamplesOften PROVE Spec => []RegisteredOnce
<1>1. (steady => PackagesInv) => RegisteredOnce
  <2> SUFFICES ASSUME steady, PackagesInv PROVE RegisteredOnce  BY DEF RegisteredOnce
  <2>1. registered \in Seq([scan : Nat, beg : Nat])  BY DEF PackagesInv, RegisteredInv
  <2>2. DOMAIN registered = 1 .. Len(registered)  BY <2>1
  <2>3. QED  BY <2>2 DEF RegisteredOnce, PackagesInv, RegisteredInv
<1>2. QED  BY <1>1, PackagesSafe, PTL

(* A package starts with the sample that follows the last of the package     *)
(* before: none is lost and none is given to the filter twice.              *)
THEOREM SamplesCarryOn ==
  ASSUME SamplesOften, ImuSteps = {1} PROVE Spec => SamplesContiguous
<1> DEFINE Carry == steady /\ imu' # imu /\ imu # << >> /\ imu' # << >> => Head(imu') = imu[Len(imu)] + 1
<1>1. (steady => PackagesInv) /\ [Next]_vars => [Carry]_vars
  <2> SUFFICES ASSUME steady => PackagesInv, Next, steady, imu' # imu, imu # << >>, imu' # << >>
               PROVE  Head(imu') = imu[Len(imu)] + 1
    OBVIOUS
  <2>1. PICK d \in Durations : SyncPackages(d)
    BY DEF Next, LidarCallback, ImuCallback, TimerCallback, SyncWaits, measures
  <2>2. PackagesInv  OBVIOUS
  <2>3. imu_buffer # << >> /\ Head(imu') = imu_buffer[1]  BY <2>1, <2>2, SamplesPopped
  <2>4. /\ imu_buffer[1] - imu[Len(imu)] = 1 /\ imu_buffer \in Seq(Nat) /\ imu \in Seq(Nat)
    BY <2>2, <2>3 DEF PackagesInv, SampleInv
  <2>5. 1 \in 1 .. Len(imu_buffer) /\ Len(imu) \in 1 .. Len(imu)  BY <2>3, <2>4
  <2>6. imu_buffer[1] \in Nat /\ imu[Len(imu)] \in Nat  BY <2>4, <2>5
  <2>7. QED  BY <2>3, <2>4, <2>6
<1>2. QED  BY <1>1, PackagesSafe, PTL DEF Spec, SamplesContiguous

-------------------------------------------------------------------------------
(* LocalMap *)

BoxOK(box) ==
  /\ box \in [vertex_min : LocalMap!Places, vertex_max : LocalMap!Places]
  /\ \A i \in Axes : box.vertex_max[i] = box.vertex_min[i] + cube_len

\* The lidar is farther than it can see from every side.
Inner(box, p) == \A i \in Axes : /\ p[i] - box.vertex_min[i] > DET_RANGE
                                 /\ box.vertex_max[i] - p[i] > DET_RANGE

LocalMapInv ==
  /\ pos_LiD \in LocalMap!Places
  /\ mapped \in SUBSET LocalMap!Places
  /\ LocalMap_Points = NULL => mapped = {}
  /\ LocalMap_Points # NULL => /\ BoxOK(LocalMap_Points)
                               /\ Inner(LocalMap_Points, pos_LiD)
                               /\ \A x \in mapped : LocalMap!InBox(LocalMap_Points, x)

(* Half of a number, rounded down. *)
LEMMA Half == ASSUME NEW n \in Nat
              PROVE  n \div 2 \in Nat /\ 2 * (n \div 2) <= n /\ n <= 2 * (n \div 2) + 1
OBVIOUS

(* The box moves by half the range at least, and by no more than leaves the *)
(* lidar in sight of neither side.                                          *)
LEMMA MovDist ==
  ASSUME LocalMap!LocalMapAssumption
  PROVE  /\ LocalMap!mov_dist \in Nat
         /\ LocalMap!mov_dist >= DET_RANGE \div 2
         /\ 2 * cube_len - 3 * DET_RANGE - 2 * LocalMap!mov_dist > 2 * DET_RANGE
<1> DEFINE third == ((cube_len - 3 * DET_RANGE) * 9) \div 20
<1>1. cube_len \in Nat /\ DET_RANGE \in Nat /\ cube_len > 3 * DET_RANGE  BY DEF LocalMap!LocalMapAssumption
<1>2. third \in Int /\ 20 * third <= 9 * (cube_len - 3 * DET_RANGE)  BY <1>1
<1>3. LocalMap!mov_dist = IF third > DET_RANGE \div 2 THEN third ELSE DET_RANGE \div 2  BY DEF LocalMap!mov_dist
<1> HIDE DEF third
<1>4. QED  BY <1>1, <1>2, <1>3, Half

(* After the box has moved along an axis, or not, the lidar is inside again, *)
(* and the box has moved by nothing or by mov_dist.                          *)
LEMMA ShiftKeeps ==
  ASSUME LocalMap!LocalMapAssumption,
         NEW box, BoxOK(box), NEW old \in LocalMap!Places, Inner(box, old),
         NEW p \in LocalMap!Places, NEW i \in Axes, LocalMap!Distance(p[i], old[i]) <= MaxStep
  PROVE  /\ LocalMap!Shift(box, p, i) \in {0 - LocalMap!mov_dist, 0, LocalMap!mov_dist}
         /\ p[i] - (box.vertex_min[i] + LocalMap!Shift(box, p, i)) > DET_RANGE
         /\ (box.vertex_max[i] + LocalMap!Shift(box, p, i)) - p[i] > DET_RANGE
<1> DEFINE d == p[i] - box.vertex_min[i]
           e == box.vertex_max[i] - p[i]
<1>1. /\ cube_len \in Nat /\ DET_RANGE \in Nat /\ MaxStep \in Nat
      /\ MaxStep <= DET_RANGE \div 2
  BY DEF LocalMap!LocalMapAssumption
<1>2. /\ p[i] \in Int /\ old[i] \in Int
      /\ box.vertex_min[i] \in Int /\ box.vertex_max[i] \in Int
      /\ box.vertex_max[i] = box.vertex_min[i] + cube_len
      /\ old[i] - box.vertex_min[i] > DET_RANGE /\ box.vertex_max[i] - old[i] > DET_RANGE
  BY DEF BoxOK, Inner, LocalMap!Places
<1>3. d \in Int /\ e \in Int /\ d + e = cube_len  BY <1>1, <1>2
<1>4. d > DET_RANGE - (DET_RANGE \div 2) /\ e > DET_RANGE - (DET_RANGE \div 2)
  <2>1. p[i] - old[i] <= MaxStep /\ old[i] - p[i] <= MaxStep  BY <1>1, <1>2 DEF LocalMap!Distance
  <2>2. QED  BY <2>1, <1>1, <1>2, Half
<1>5. d > 0 /\ e > 0  BY <1>1, <1>3, <1>4, Half
<1>6. /\ LocalMap!TooNear(p[i], box.vertex_min[i]) <=> 2 * d <= 3 * DET_RANGE
      /\ LocalMap!TooNear(p[i], box.vertex_max[i]) <=> 2 * e <= 3 * DET_RANGE
  BY <1>2, <1>5 DEF LocalMap!TooNear, LocalMap!Distance
<1>7. /\ p[i] - (box.vertex_min[i] + LocalMap!Shift(box, p, i)) = d - LocalMap!Shift(box, p, i)
      /\ (box.vertex_max[i] + LocalMap!Shift(box, p, i)) - p[i] = e + LocalMap!Shift(box, p, i)
      /\ LocalMap!Shift(box, p, i) = IF 2 * d <= 3 * DET_RANGE THEN 0 - LocalMap!mov_dist
                            ELSE IF 2 * e <= 3 * DET_RANGE THEN LocalMap!mov_dist ELSE 0
  BY <1>2, <1>6, MovDist DEF LocalMap!Shift
<1> HIDE DEF d, e
<1>8. QED  BY <1>1, <1>3, <1>4, <1>7, MovDist, Half

(* A point of the box that is in no slab is inside the box that has moved; a *)
(* point that is in a slab is out of sight.                                  *)
LEMMA SlabsAreFar ==
  ASSUME LocalMap!LocalMapAssumption,
         NEW box, BoxOK(box), NEW old \in LocalMap!Places, Inner(box, old),
         NEW p \in LocalMap!Places, \A i \in Axes : LocalMap!Distance(p[i], old[i]) <= MaxStep,
         NEW x \in LocalMap!Places, LocalMap!InBox(box, x)
  PROVE  /\ (\A slab \in LocalMap!cub_needrm(box, p) : ~LocalMap!InBox(slab, x)) => LocalMap!InBox(LocalMap!New_LocalMap_Points(box, p), x)
         /\ (\E slab \in LocalMap!cub_needrm(box, p) : LocalMap!InBox(slab, x)) =>
               \E i \in Axes : LocalMap!Distance(x[i], p[i]) > DET_RANGE
<1> DEFINE Slab(i) == IF LocalMap!Shift(box, p, i) < 0 THEN [box EXCEPT !.vertex_min[i] = box.vertex_max[i] - LocalMap!mov_dist]
                                             ELSE [box EXCEPT !.vertex_max[i] = box.vertex_min[i] + LocalMap!mov_dist]
<1>1. LocalMap!cub_needrm(box, p) = {Slab(i) : i \in {j \in Axes : LocalMap!Shift(box, p, j) # 0}}  BY DEF LocalMap!cub_needrm
<1>2. DET_RANGE \in Nat /\ LocalMap!mov_dist \in Nat  BY MovDist DEF LocalMap!LocalMapAssumption
<1>3. box.vertex_min \in LocalMap!Places /\ box.vertex_max \in LocalMap!Places
      /\ box \in [vertex_min : LocalMap!Places, vertex_max : LocalMap!Places]
  BY DEF BoxOK
<1>4. ASSUME NEW i \in Axes
      PROVE  /\ x[i] \in Int /\ p[i] \in Int /\ box.vertex_min[i] \in Int /\ box.vertex_max[i] \in Int
             /\ box.vertex_min[i] <= x[i] /\ x[i] < box.vertex_max[i]
             /\ LocalMap!Shift(box, p, i) \in {0 - LocalMap!mov_dist, 0, LocalMap!mov_dist}
             /\ p[i] - (box.vertex_min[i] + LocalMap!Shift(box, p, i)) > DET_RANGE
             /\ (box.vertex_max[i] + LocalMap!Shift(box, p, i)) - p[i] > DET_RANGE
  <2>1. /\ LocalMap!Shift(box, p, i) \in {0 - LocalMap!mov_dist, 0, LocalMap!mov_dist}
        /\ p[i] - (box.vertex_min[i] + LocalMap!Shift(box, p, i)) > DET_RANGE
        /\ (box.vertex_max[i] + LocalMap!Shift(box, p, i)) - p[i] > DET_RANGE
    BY ShiftKeeps
  <2>2. QED  BY <2>1, <1>3 DEF LocalMap!Places, LocalMap!InBox
\* A point of the box is in slab i when its i-th coordinate is.
<1>5. ASSUME NEW i \in Axes, LocalMap!Shift(box, p, i) # 0
      PROVE  LocalMap!InBox(Slab(i), x) <=> IF LocalMap!Shift(box, p, i) < 0 THEN box.vertex_max[i] - LocalMap!mov_dist <= x[i]
                                                         ELSE x[i] < box.vertex_min[i] + LocalMap!mov_dist
  <2>1. CASE LocalMap!Shift(box, p, i) < 0
    <3>1. /\ Slab(i).vertex_max = box.vertex_max
          /\ Slab(i).vertex_min = [box.vertex_min EXCEPT ![i] = box.vertex_max[i] - LocalMap!mov_dist]
      BY <2>1, <1>3
    <3>2. \A j \in Axes : Slab(i).vertex_min[j] = IF j = i THEN box.vertex_max[i] - LocalMap!mov_dist ELSE box.vertex_min[j]
      BY <3>1, <1>3 DEF LocalMap!Places
    <3> HIDE DEF Slab
    <3>3. QED  BY <2>1, <3>1, <3>2, <1>4 DEF LocalMap!InBox
  <2>2. CASE ~(LocalMap!Shift(box, p, i) < 0)
    <3>1. /\ Slab(i).vertex_min = box.vertex_min
          /\ Slab(i).vertex_max = [box.vertex_max EXCEPT ![i] = box.vertex_min[i] + LocalMap!mov_dist]
      BY <2>2, <1>3
    <3>2. \A j \in Axes : Slab(i).vertex_max[j] = IF j = i THEN box.vertex_min[i] + LocalMap!mov_dist ELSE box.vertex_max[j]
      BY <3>1, <1>3 DEF LocalMap!Places
    <3> HIDE DEF Slab
    <3>3. QED  BY <2>2, <3>1, <3>2, <1>4 DEF LocalMap!InBox
  <2>3. QED  BY <2>1, <2>2
<1> HIDE DEF Slab
<1>6. ASSUME \A slab \in LocalMap!cub_needrm(box, p) : ~LocalMap!InBox(slab, x)
      PROVE  LocalMap!InBox(LocalMap!New_LocalMap_Points(box, p), x)
  <2>1. ASSUME NEW i \in Axes
        PROVE  /\ box.vertex_min[i] + LocalMap!Shift(box, p, i) <= x[i]
               /\ x[i] < box.vertex_max[i] + LocalMap!Shift(box, p, i)
    <3>1. CASE LocalMap!Shift(box, p, i) = 0  BY <3>1, <1>4
    <3>2. CASE LocalMap!Shift(box, p, i) # 0
      <4>1. ~LocalMap!InBox(Slab(i), x)  BY <3>2, <1>1, <1>6
      <4>2. QED  BY <3>2, <4>1, <1>2, <1>4, <1>5
    <3>3. QED  BY <3>1, <3>2
  <2>2. QED  BY <2>1 DEF LocalMap!InBox, LocalMap!New_LocalMap_Points
<1>7. ASSUME NEW slab \in LocalMap!cub_needrm(box, p), LocalMap!InBox(slab, x)
      PROVE  \E i \in Axes : LocalMap!Distance(x[i], p[i]) > DET_RANGE
  <2>1. PICK i \in Axes : LocalMap!Shift(box, p, i) # 0 /\ slab = Slab(i)  BY <1>1
  <2>2. LocalMap!Distance(x[i], p[i]) > DET_RANGE  BY <2>1, <1>2, <1>4, <1>5, <1>7 DEF LocalMap!Distance
  <2>3. QED  BY <2>2
<1>8. QED  BY <1>6, <1>7

(* One scan: the box stays around the lidar, holds every point of the map,  *)
(* and only points out of sight are deleted.                                *)
LEMMA ScanKeeps ==
  ASSUME LocalMap!LocalMapAssumption, LocalMapInv,
         NEW p \in LocalMap!Places, NEW seen \in SUBSET LocalMap!Places,
         \A x \in seen, i \in Axes : LocalMap!Distance(x[i], p[i]) <= DET_RANGE,
         LocalMap!Scan(p, seen)
  PROVE  /\ LocalMapInv'
         /\ \A x \in mapped' : LocalMap!InBox(LocalMap_Points', x)
         /\ \A x \in mapped \ mapped' : ~LocalMap!InRange(x)'
<1>1. /\ cube_len \in Nat /\ DET_RANGE \in Nat /\ cube_len > 3 * DET_RANGE
      /\ cube_len % 2 = 0 /\ NULL \notin [vertex_min : LocalMap!Places, vertex_max : LocalMap!Places]
  BY DEF LocalMap!LocalMapAssumption
<1>2. pos_LiD' = p  BY DEF LocalMap!Scan
<1>3. SUFFICES /\ BoxOK(LocalMap_Points') /\ Inner(LocalMap_Points', p)
               /\ mapped' \in SUBSET LocalMap!Places
               /\ \A x \in mapped' \ seen : LocalMap!InBox(LocalMap_Points', x)
               /\ \A x \in mapped \ mapped' : ~LocalMap!InRange(x)'
  <2>1. ASSUME NEW x \in seen, BoxOK(LocalMap_Points'), Inner(LocalMap_Points', p)
        PROVE  LocalMap!InBox(LocalMap_Points', x)
    <3>1. ASSUME NEW i \in Axes
          PROVE  LocalMap_Points'.vertex_min[i] <= x[i] /\ x[i] < LocalMap_Points'.vertex_max[i]
      <4>1. /\ x[i] \in Int /\ p[i] \in Int
            /\ LocalMap_Points'.vertex_min[i] \in Int /\ LocalMap_Points'.vertex_max[i] \in Int
        BY <2>1 DEF BoxOK, LocalMap!Places
      <4>2. LocalMap!Distance(x[i], p[i]) <= DET_RANGE  OBVIOUS
      <4>3. /\ p[i] - LocalMap_Points'.vertex_min[i] > DET_RANGE
            /\ LocalMap_Points'.vertex_max[i] - p[i] > DET_RANGE
        BY <2>1 DEF Inner
      <4>4. QED  BY <4>1, <4>2, <4>3, <1>1 DEF LocalMap!Distance
    <3>2. QED  BY <3>1 DEF LocalMap!InBox
  <2>2. QED  BY <2>1, <1>1, <1>2 DEF LocalMapInv, BoxOK
<1>4. CASE LocalMap_Points = NULL
  <2> DEFINE half == cube_len \div 2
  <2>1. half \in Int /\ 2 * half = cube_len  BY <1>1
  <2>2. LocalMap_Points' = LocalMap!Around(p, half) /\ mapped' = seen /\ mapped = {}
    BY <1>4 DEF LocalMap!Scan, LocalMapInv
  <2> HIDE DEF half
  <2>3. /\ LocalMap_Points'.vertex_min = [i \in Axes |-> p[i] - half]
        /\ LocalMap_Points'.vertex_max = [i \in Axes |-> p[i] + half]
        /\ LocalMap_Points' = [vertex_min |-> [i \in Axes |-> p[i] - half], vertex_max |-> [i \in Axes |-> p[i] + half]]
    BY <2>2 DEF LocalMap!Around
  <2>4. \A i \in Axes : p[i] \in Int  BY DEF LocalMap!Places
  <2>5. BoxOK(LocalMap_Points')  BY <2>1, <2>3, <2>4 DEF BoxOK, LocalMap!Places
  <2>6. Inner(LocalMap_Points', p)  BY <2>1, <2>3, <2>4, <1>1 DEF Inner
  <2>7. QED  BY <2>2, <2>5, <2>6
<1>5. CASE LocalMap_Points # NULL
  <2> DEFINE box == LocalMap_Points
             near == {x \in mapped : \A slab \in LocalMap!cub_needrm(box, p) : ~LocalMap!InBox(slab, x)}
  <2>1. /\ BoxOK(box) /\ Inner(box, pos_LiD) /\ pos_LiD \in LocalMap!Places
        /\ \A x \in mapped : x \in LocalMap!Places /\ LocalMap!InBox(box, x)
    BY <1>5 DEF LocalMapInv
  <2>2. /\ \A i \in Axes : LocalMap!Distance(p[i], pos_LiD[i]) <= MaxStep
        /\ LocalMap_Points' = LocalMap!New_LocalMap_Points(box, p)
        /\ mapped' = near \cup seen
    BY <1>5 DEF LocalMap!Scan
  <2> HIDE DEF box
  <2>3. ASSUME NEW i \in Axes
        PROVE  /\ box.vertex_min[i] \in Int /\ box.vertex_max[i] \in Int /\ LocalMap!Shift(box, p, i) \in Int
               /\ box.vertex_max[i] = box.vertex_min[i] + cube_len
               /\ p[i] - (box.vertex_min[i] + LocalMap!Shift(box, p, i)) > DET_RANGE
               /\ (box.vertex_max[i] + LocalMap!Shift(box, p, i)) - p[i] > DET_RANGE
    <3>1. /\ LocalMap!Shift(box, p, i) \in {0 - LocalMap!mov_dist, 0, LocalMap!mov_dist}
          /\ p[i] - (box.vertex_min[i] + LocalMap!Shift(box, p, i)) > DET_RANGE
          /\ (box.vertex_max[i] + LocalMap!Shift(box, p, i)) - p[i] > DET_RANGE
      BY <2>1, <2>2, ShiftKeeps
    <3>2. QED  BY <2>1, <3>1, MovDist DEF BoxOK, LocalMap!Places
  <2>4. BoxOK(LocalMap_Points') /\ Inner(LocalMap_Points', p)
    <3>1. /\ LocalMap_Points' \in [vertex_min : LocalMap!Places, vertex_max : LocalMap!Places]
          /\ \A i \in Axes : /\ LocalMap_Points'.vertex_min[i] = box.vertex_min[i] + LocalMap!Shift(box, p, i)
                             /\ LocalMap_Points'.vertex_max[i] = box.vertex_max[i] + LocalMap!Shift(box, p, i)
      BY <2>2, <2>3 DEF LocalMap!New_LocalMap_Points, LocalMap!Places
    <3>2. QED  BY <3>1, <2>3, <1>1 DEF BoxOK, Inner
  <2>5. ASSUME NEW x \in mapped
        PROVE  /\ x \in near => LocalMap!InBox(LocalMap_Points', x)
               /\ x \notin near => \E i \in Axes : LocalMap!Distance(x[i], p[i]) > DET_RANGE
    BY <2>1, <2>2, SlabsAreFar
  <2>6. ASSUME NEW x \in mapped \ mapped'  PROVE ~LocalMap!InRange(x)'
    <3>1. PICK i \in Axes : LocalMap!Distance(x[i], p[i]) > DET_RANGE  BY <2>2, <2>5, <2>6
    <3>2. LocalMap!Distance(x[i], p[i]) \in Int  BY <2>1 DEF LocalMap!Distance, LocalMap!Places
    <3>3. ~(LocalMap!Distance(x[i], p[i]) <= DET_RANGE)  BY <3>1, <3>2, <1>1
    <3>4. QED  BY <3>3, <1>2 DEF LocalMap!InRange, LocalMap!Distance
  <2>7. mapped' \in SUBSET LocalMap!Places  BY <2>1, <2>2
  <2>8. \A x \in mapped' \ seen : LocalMap!InBox(LocalMap_Points', x)  BY <2>2, <2>5
  <2>9. QED  BY <2>4, <2>6, <2>7, <2>8
<1>6. QED  BY <1>4, <1>5

(* The box stays around the lidar in every state, so that no scan deletes a *)
(* point in sight and the map never has a point outside the box             *)
(* (lasermap_fov_segment).                                                  *)
THEOREM MapStaysLocal == ASSUME LocalMap!LocalMapAssumption PROVE LocalMap!Spec => MapIsLocal
<1> DEFINE Local == /\ \A x \in mapped' : LocalMap!InBox(LocalMap_Points', x)
                    /\ \A x \in mapped \ mapped' : ~LocalMap!InRange(x)'
<1>1. LocalMap!Init => LocalMapInv  BY DEF LocalMap!Init, LocalMapInv, LocalMap!Places
<1>2. ASSUME LocalMapInv, [LocalMap!Next]_(LocalMap!vars)
      PROVE  LocalMapInv' /\ [Local]_(LocalMap!vars)
  <2>1. CASE LocalMap!Next
    <3>1. PICK p \in [Axes -> -Reach .. Reach], seen \in SUBSET LocalMap!Places :
            /\ \A x \in seen, i \in Axes : LocalMap!Distance(x[i], p[i]) <= DET_RANGE
            /\ LocalMap!Scan(p, seen)
      <4>1. \A n \in Nat, m \in Nat : [Axes -> -n - m .. n + m] \subseteq LocalMap!Places  BY DEF LocalMap!Places
      <4>2. Reach \in Nat /\ DET_RANGE \in Nat  BY DEF LocalMap!LocalMapAssumption
      <4>3. QED  BY <2>1, <4>1, <4>2 DEF LocalMap!Next
    <3>2. p \in LocalMap!Places  BY DEF LocalMap!Places, LocalMap!LocalMapAssumption
    <3>3. QED  BY <1>2, <3>1, <3>2, ScanKeeps
  <2>2. CASE UNCHANGED LocalMap!vars  BY <1>2, <2>2 DEF LocalMapInv, LocalMap!vars
  <2>3. QED  BY <1>2, <2>1, <2>2
<1>3. QED  BY <1>1, <1>2, PTL DEF LocalMap!Spec, MapIsLocal, LocalMap!MapIsLocal

-------------------------------------------------------------------------------
(* PoseGraph *)

(* Nothing waits for ISAM2 between two callbacks.                           *)
GraphTypes ==
  /\ last_message_time \in Graph!Times
  /\ cloud_buffer \in Seq(Graph!CloudWithPose)
  /\ m_key_poses \in Seq(Graph!KeyPoseWithCloud) /\ Len(m_key_poses) <= MaxPoses
  /\ m_cache_pairs = << >> /\ m_initial_values = << >> /\ m_graph = << >>
  /\ m_history_pairs \in Seq(Graph!LoopPair)
  /\ isam2 \in [keys : Seq(Graph!Keys), factors : Seq(Graph!Factor)]
  /\ m_offset \in Drifts

(* Key poses follow each other in time, and messages after them.            *)
OrderInv ==
  /\ \A i, j \in 1 .. Len(m_key_poses) : i <= j => m_key_poses[i].time <= m_key_poses[j].time
  /\ \A i \in 1 .. Len(m_key_poses) :
       /\ m_key_poses[i].time <= last_message_time
       /\ \A j \in 1 .. Len(cloud_buffer) : m_key_poses[i].time <= cloud_buffer[j].second
  /\ \A j \in 1 .. Len(cloud_buffer) : cloud_buffer[j].second <= last_message_time

(* Loops are between key poses there are.                                   *)
LoopsInv ==
  /\ \A i \in 1 .. Len(m_history_pairs) : m_history_pairs[i].source < Len(m_key_poses)
  /\ Graph!LoopsApart

GraphInv == GraphTypes /\ OrderInv /\ LoopsInv /\ Graph!GraphComplete

(* The loop, if one is found, that key pose n closes.                       *)
IsLoop(pair, n) ==
  /\ pair \in Graph!LoopPair /\ pair.source = n /\ pair.target < n /\ n + 1 >= MinPoses
  /\ m_key_poses'[n + 1].time - m_key_poses'[pair.target + 1].time > LoopTime
  /\ MinDetect > 0 /\ m_history_pairs # << >> =>
       m_key_poses'[n + 1].time - m_key_poses'[m_history_pairs[Len(m_history_pairs)].source + 1].time >= MinDetect

LoopAdded(n) ==
  \E pair : /\ IsLoop(pair, n)
            /\ m_history_pairs' = Append(m_history_pairs, pair)
            /\ isam2'.factors = Append(Append(isam2.factors, Graph!NewFactor(n)),
                                       [kind |-> "loop", from |-> pair.target, to |-> pair.source])

(* What is estimated are the drifts.                                        *)
LEMMA EstimatesKeepTimes ==
  ASSUME NEW key_poses \in Seq(Graph!KeyPoseWithCloud), NEW has_loop \in BOOLEAN,
         NEW new \in Graph!Estimates(key_poses, has_loop)
  PROVE  /\ new \in Seq(Graph!KeyPoseWithCloud) /\ Len(new) = Len(key_poses)
         /\ \A i \in 1 .. Len(key_poses) : new[i].time = key_poses[i].time
<1>1. CASE new = key_poses  BY <1>1
<1>2. CASE \E drift \in [DOMAIN key_poses -> Drifts] :
             new = [i \in DOMAIN key_poses |-> [key_poses[i] EXCEPT !.drift = drift[i]]]
  <2>1. PICK drift \in [DOMAIN key_poses -> Drifts] :
             new = [i \in DOMAIN key_poses |-> [key_poses[i] EXCEPT !.drift = drift[i]]]
    BY <1>2
  <2>2. DOMAIN key_poses = 1 .. Len(key_poses) /\ Len(key_poses) \in Nat  OBVIOUS
  <2>3. ASSUME NEW i \in 1 .. Len(key_poses)
        PROVE  new[i] \in Graph!KeyPoseWithCloud /\ new[i].time = key_poses[i].time
    <3>1. key_poses[i] \in Graph!KeyPoseWithCloud /\ drift[i] \in Drifts  BY <2>1, <2>2
    <3>2. new[i] = [key_poses[i] EXCEPT !.drift = drift[i]]  BY <2>1, <2>2
    <3>3. QED  BY <3>1, <3>2 DEF Graph!KeyPoseWithCloud
  <2>4. new \in [1 .. Len(key_poses) -> Graph!KeyPoseWithCloud]  BY <2>1, <2>2, <2>3
  <2>5. QED  BY <2>2, <2>3, <2>4
<1>3. QED  BY <1>1, <1>2 DEF Graph!Estimates

(* The effects of timerCB on a message that makes a key pose.               *)
LEMMA KeyPoseAdded ==
  ASSUME Graph!GraphAssumption, GraphInv, Graph!TimerKeyPose
  PROVE  LET n == Len(m_key_poses)
         IN /\ n + 1 <= MaxPoses /\ cloud_buffer # << >> /\ cloud_buffer' = << >>
            /\ m_key_poses' \in Seq(Graph!KeyPoseWithCloud) /\ Len(m_key_poses') = n + 1
            /\ \A i \in 1 .. n : m_key_poses'[i].time = m_key_poses[i].time
            /\ m_key_poses'[n + 1].time = cloud_buffer[1].second
            /\ m_offset' \in Drifts
            /\ m_cache_pairs' = << >> /\ m_initial_values' = << >> /\ m_graph' = << >>
            /\ UNCHANGED last_message_time
            /\ isam2'.keys = Append(isam2.keys, n) /\ isam2' = [keys |-> isam2'.keys, factors |-> isam2'.factors]
            /\ \/ /\ m_history_pairs' = m_history_pairs
                  /\ isam2'.factors = Append(isam2.factors, Graph!NewFactor(n))
               \/ LoopAdded(n)
<1> DEFINE n == Len(m_key_poses)
           new == Graph!NewKeyPose(Head(cloud_buffer))
           key_poses == Append(m_key_poses, new)
<1>1. GraphTypes  BY DEF GraphInv
<1>2. n \in Nat /\ n < MaxPoses /\ MaxPoses \in Nat /\ cloud_buffer # << >>
  BY <1>1 DEF GraphTypes, Graph!TimerKeyPose, Graph!GraphAssumption
<1>3. new \in Graph!KeyPoseWithCloud /\ new.time = cloud_buffer[1].second
  <2>1. Head(cloud_buffer) \in Graph!CloudWithPose /\ Head(cloud_buffer) = cloud_buffer[1]
    BY <1>1, <1>2 DEF GraphTypes
  <2>2. m_offset \in Drifts  BY <1>1 DEF GraphTypes
  <2>3. QED  BY <2>1, <2>2 DEF Graph!NewKeyPose, Graph!CloudWithPose, Graph!KeyPoseWithCloud
<1> HIDE DEF new
<1>4. /\ key_poses \in Seq(Graph!KeyPoseWithCloud) /\ Len(key_poses) = n + 1
      /\ \A i \in 1 .. n : key_poses[i] = m_key_poses[i]
      /\ key_poses[n + 1] = new
  BY <1>1, <1>3 DEF GraphTypes
<1> HIDE DEF key_poses
<1>5. PICK found \in Graph!FoundPairs(key_poses) :
        /\ m_history_pairs' = m_history_pairs \o found
        /\ m_cache_pairs' = << >>
        /\ isam2' = [keys    |-> isam2.keys \o Append(m_initial_values, n),
                     factors |-> isam2.factors \o Append(m_graph, Graph!NewFactor(n))
                                   \o Graph!LoopFactors(m_cache_pairs \o found)]
        /\ m_key_poses' \in Graph!Estimates(key_poses, m_cache_pairs \o found # << >>)
  BY DEF Graph!TimerKeyPose, Graph!CacheAfter, key_poses, new
<1>6. /\ m_offset' = m_key_poses'[Len(m_key_poses')].drift
      /\ m_initial_values' = << >> /\ m_graph' = << >> /\ cloud_buffer' = << >> /\ UNCHANGED last_message_time
  BY DEF Graph!TimerKeyPose, Graph!OffsetOf, Graph!Back
<1>7. /\ m_key_poses' \in Seq(Graph!KeyPoseWithCloud) /\ Len(m_key_poses') = n + 1
      /\ \A i \in 1 .. n + 1 : m_key_poses'[i].time = key_poses[i].time
  BY <1>4, <1>5, EstimatesKeepTimes
<1>8. /\ \A i \in 1 .. n : m_key_poses'[i].time = m_key_poses[i].time
      /\ m_key_poses'[n + 1].time = cloud_buffer[1].second
  BY <1>2, <1>3, <1>4, <1>7
<1>9. m_offset' \in Drifts
  <2>1. n + 1 \in 1 .. Len(m_key_poses')  BY <1>2, <1>7
  <2>2. m_key_poses'[n + 1] \in Graph!KeyPoseWithCloud  BY <1>7, <2>1
  <2>3. QED  BY <1>6, <1>7, <2>2 DEF Graph!KeyPoseWithCloud
<1>10. /\ m_cache_pairs = << >> /\ m_initial_values = << >> /\ m_graph = << >>
       /\ isam2.keys \in Seq(Graph!Keys) /\ isam2.factors \in Seq(Graph!Factor)
       /\ m_history_pairs \in Seq(Graph!LoopPair)
  BY <1>1 DEF GraphTypes
<1>11. Graph!NewFactor(n) \in Graph!Factor /\ n \in Graph!Keys
  BY <1>2 DEF Graph!NewFactor, Graph!Factor, Graph!Keys
<1>12. isam2'.keys = Append(isam2.keys, n)
  <2>1. isam2'.keys = isam2.keys \o Append(<< >>, n)  BY <1>5, <1>10
  <2>2. QED  BY <1>10, <1>11, <2>1
<1>13. isam2' = [keys |-> isam2'.keys, factors |-> isam2'.factors]  BY <1>5
<1>14. isam2'.factors = Append(isam2.factors, Graph!NewFactor(n)) \o Graph!LoopFactors(<< >> \o found)
  <2>1. isam2'.factors = isam2.factors \o Append(<< >>, Graph!NewFactor(n)) \o Graph!LoopFactors(<< >> \o found)
    BY <1>5, <1>10
  <2>2. isam2.factors \o Append(<< >>, Graph!NewFactor(n)) = Append(isam2.factors, Graph!NewFactor(n))
    BY <1>10, <1>11
  <2>3. QED  BY <2>1, <2>2
<1>18. m_cache_pairs' = << >>  BY <1>5
<1>15. CASE found = << >>
  <2>1. Graph!LoopFactors(<< >> \o found) = << >>  BY <1>15 DEF Graph!LoopFactors
  <2>2. isam2'.factors = Append(isam2.factors, Graph!NewFactor(n))  BY <1>10, <1>11, <1>14, <2>1
  <2>3. m_history_pairs' = m_history_pairs  BY <1>5, <1>10, <1>15
  <2>4. QED  BY <1>2, <1>6, <1>7, <1>8, <1>9, <1>12, <1>13, <1>18, <2>2, <2>3
<1>16. CASE found # << >>
  <2>1. PICK k \in Graph!Targets(key_poses) :
          /\ found = <<[target |-> k, source |-> Len(key_poses) - 1]>>
          /\ Len(key_poses) >= MinPoses /\ Graph!PauseIsOver(key_poses)
    BY <1>5, <1>16 DEF Graph!FoundPairs
  <2> DEFINE pair == [target |-> k, source |-> n]
             loop == [kind |-> "loop", from |-> k, to |-> n]
  <2>2. found = <<pair>>  BY <1>2, <1>4, <2>1
  <2>3. /\ k \in 0 .. n - 1
        /\ Graph!Distance(key_poses[n + 1].time, key_poses[k + 1].time) > LoopTime
    BY <1>2, <1>4, <2>1 DEF Graph!Targets, Graph!Back
  <2>4. pair \in Graph!LoopPair /\ loop \in Graph!Factor
    BY <1>2, <2>3 DEF Graph!LoopPair, Graph!Keys, Graph!Factor
  <2>5. IsLoop(pair, n)
    <3>1. k + 1 \in 1 .. n /\ 1 \in 1 .. Len(cloud_buffer)  BY <1>1, <1>2, <2>3 DEF GraphTypes
    <3>2. m_key_poses[k + 1].time <= cloud_buffer[1].second  BY <3>1 DEF GraphInv, OrderInv
    <3>3. /\ key_poses[n + 1].time = m_key_poses'[n + 1].time /\ key_poses[k + 1].time = m_key_poses'[k + 1].time
          /\ m_key_poses'[k + 1].time = m_key_poses[k + 1].time
          /\ m_key_poses'[n + 1].time = cloud_buffer[1].second
      BY <1>2, <1>7, <1>8, <3>1
    <3>4. m_key_poses[k + 1].time \in Int /\ cloud_buffer[1].second \in Int
      <4>1. m_key_poses[k + 1] \in Graph!KeyPoseWithCloud /\ cloud_buffer[1] \in Graph!CloudWithPose
        BY <1>1, <3>1 DEF GraphTypes
      <4>2. QED  BY <4>1 DEF Graph!KeyPoseWithCloud, Graph!CloudWithPose, Graph!Times
    <3>5. m_key_poses'[n + 1].time - m_key_poses'[k + 1].time > LoopTime
      BY <2>3, <3>2, <3>3, <3>4 DEF Graph!Distance
    <3>6. MinDetect > 0 /\ m_history_pairs # << >> =>
            m_key_poses'[n + 1].time - m_key_poses'[m_history_pairs[Len(m_history_pairs)].source + 1].time >= MinDetect
      <4>1. SUFFICES ASSUME MinDetect > 0, m_history_pairs # << >>
                     PROVE  m_key_poses'[n + 1].time - m_key_poses'[m_history_pairs[Len(m_history_pairs)].source + 1].time >= MinDetect
        OBVIOUS
      <4> DEFINE j == m_history_pairs[Len(m_history_pairs)].source + 1
      <4>2. key_poses[n + 1].time - key_poses[j].time >= MinDetect
        BY <1>4, <2>1, <4>1 DEF Graph!PauseIsOver, Graph!Back
      <4>3. j \in 1 .. n
        <5>1. Len(m_history_pairs) \in 1 .. Len(m_history_pairs)  BY <1>10, <4>1
        <5>2. m_history_pairs[Len(m_history_pairs)] \in Graph!LoopPair  BY <1>10, <5>1
        <5>3. m_history_pairs[Len(m_history_pairs)].source \in Nat
              /\ m_history_pairs[Len(m_history_pairs)].source < n
          BY <5>1, <5>2 DEF GraphInv, LoopsInv, Graph!LoopPair, Graph!Keys
        <5>4. QED  BY <1>2, <5>3
      <4> HIDE DEF j
      <4>4. key_poses[j].time = m_key_poses'[j].time  BY <1>2, <1>7, <4>3
      <4>5. QED  BY <3>3, <4>2, <4>4 DEF j
    <3>7. QED  BY <1>2, <1>4, <2>1, <2>3, <2>4, <3>5, <3>6 DEF IsLoop
  <2>6. m_history_pairs' = Append(m_history_pairs, pair)  BY <1>5, <1>10, <2>2, <2>4
  <2>7. Graph!LoopFactors(<< >> \o found) = <<loop>>
    <3>1. << >> \o found = <<pair>>  BY <2>2, <2>4
    <3>2. QED  BY <3>1 DEF Graph!LoopFactors
  <2>8. isam2'.factors = Append(Append(isam2.factors, Graph!NewFactor(n)), loop)
    <3>1. Append(isam2.factors, Graph!NewFactor(n)) \in Seq(Graph!Factor)  BY <1>10, <1>11
    <3>2. \A s \in Seq(Graph!Factor), f \in Graph!Factor : s \o <<f>> = Append(s, f)  OBVIOUS
    <3>3. QED  BY <1>14, <2>4, <2>7, <3>1, <3>2
  <2>9. loop = [kind |-> "loop", from |-> pair.target, to |-> pair.source]  OBVIOUS
  <2> HIDE DEF pair, loop
  <2>10. LoopAdded(n)
    <3>1. isam2'.factors = Append(Append(isam2.factors, Graph!NewFactor(n)),
                                  [kind |-> "loop", from |-> pair.target, to |-> pair.source])
      BY <2>8, <2>9
    <3>2. QED  BY <2>5, <2>6, <3>1, Zenon DEF LoopAdded, IsLoop, Graph!NewFactor
  <2>11. QED  BY <1>2, <1>6, <1>7, <1>8, <1>9, <1>12, <1>13, <1>18, <2>10
<1>17. QED  BY <1>15, <1>16

(* The factors of some kinds.                                               *)
OfKind(kinds) == [kind : kinds, from : Graph!Keys, to : Graph!Keys]

(* The graph's selection is that of the lemmas.                             *)
LEMMA SameSelection ==
  ASSUME NEW s, NEW S  PROVE Graph!Select(s, S) = Select(s, S)
BY DEF Graph!Select, Graph!Kept, Select, Kept

(* Factors that are added, by kind.                                         *)
LEMMA FactorAdded ==
  ASSUME NEW F \in Seq(Graph!Factor), NEW f \in Graph!Factor, NEW kinds
  PROVE  Select(Append(F, f), OfKind(kinds)) =
           IF f.kind \in kinds THEN Append(Select(F, OfKind(kinds)), f) ELSE Select(F, OfKind(kinds))
<1> DEFINE S == OfKind(kinds)
<1>1. f \in S <=> f.kind \in kinds  BY DEF Graph!Factor, OfKind
<1> HIDE DEF S
<1>2. Select(Append(F, f), S) = IF f \in S THEN Append(Select(F, S), f) ELSE Select(F, S)
  BY SelectAppend
<1>3. QED  BY <1>1, <1>2 DEF S

(* The factor of a key pose and, if it closes one, of a loop.               *)
LEMMA NewFactors ==
  ASSUME Graph!GraphAssumption,
         NEW F \in Seq(Graph!Factor), NEW n \in Graph!Keys, NEW pair \in Graph!LoopPair
  PROVE  LET f == Graph!NewFactor(n)
             loop == [kind |-> "loop", from |-> pair.target, to |-> pair.source]
             ofPoses(s) == Select(s, OfKind({"prior", "odometry"}))
             ofLoops(s) == Select(s, OfKind({"loop"}))
         IN /\ Append(F, f) \in Seq(Graph!Factor) /\ Append(Append(F, f), loop) \in Seq(Graph!Factor)
            /\ ofPoses(Append(F, f)) = Append(ofPoses(F), f)
            /\ ofLoops(Append(F, f)) = ofLoops(F)
            /\ ofPoses(Append(Append(F, f), loop)) = Append(ofPoses(F), f)
            /\ ofLoops(Append(Append(F, f), loop)) = Append(ofLoops(F), loop)
<1> DEFINE f == Graph!NewFactor(n)
           loop == [kind |-> "loop", from |-> pair.target, to |-> pair.source]
<1>1. f \in Graph!Factor /\ f.kind \in {"prior", "odometry"} /\ f.kind \notin {"loop"}
  BY DEF Graph!GraphAssumption, Graph!NewFactor, Graph!Factor, Graph!Keys
<1>2. loop \in Graph!Factor /\ loop.kind \notin {"prior", "odometry"} /\ loop.kind \in {"loop"}
  BY DEF Graph!LoopPair, Graph!Factor, Graph!Keys
<1> HIDE DEF f, loop
<1>3. Append(F, f) \in Seq(Graph!Factor)  BY <1>1
<1>4. Append(Append(F, f), loop) \in Seq(Graph!Factor)  BY <1>2, <1>3
<1>5. \A kinds : Select(Append(F, f), OfKind(kinds)) =
        IF f.kind \in kinds THEN Append(Select(F, OfKind(kinds)), f) ELSE Select(F, OfKind(kinds))
  BY <1>1, FactorAdded
<1>6. \A kinds : Select(Append(Append(F, f), loop), OfKind(kinds)) =
        IF loop.kind \in kinds THEN Append(Select(Append(F, f), OfKind(kinds)), loop)
        ELSE Select(Append(F, f), OfKind(kinds))
  BY <1>2, <1>3, FactorAdded
<1>7. /\ Select(Append(F, f), OfKind({"prior", "odometry"})) = Append(Select(F, OfKind({"prior", "odometry"})), f)
      /\ Select(Append(F, f), OfKind({"loop"})) = Select(F, OfKind({"loop"}))
  BY <1>1, <1>5
<1>8. /\ Select(Append(Append(F, f), loop), OfKind({"prior", "odometry"})) = Append(Select(F, OfKind({"prior", "odometry"})), f)
      /\ Select(Append(Append(F, f), loop), OfKind({"loop"})) = Append(Select(F, OfKind({"loop"})), loop)
  BY <1>2, <1>6, <1>7
<1>9. QED  BY <1>3, <1>4, <1>7, <1>8 DEF f, loop

(* The three parts of GraphComplete.                                        *)
Complete(keys, F, n, history) ==
  /\ keys = [i \in 1 .. n |-> i - 1]
  /\ Select(F, OfKind({"prior", "odometry"})) = [i \in 1 .. n |-> Graph!NewFactor(i - 1)]
  /\ Select(F, OfKind({"loop"})) = Graph!LoopFactors(history)

(* They say the same.                                                       *)
LEMMA CompleteIs ==
  ASSUME m_key_poses \in Seq(Graph!KeyPoseWithCloud)
  PROVE  Graph!GraphComplete <=> Complete(isam2.keys, isam2.factors, Len(m_key_poses), m_history_pairs)
<1>1. DOMAIN m_key_poses = 1 .. Len(m_key_poses)  OBVIOUS
<1>2. QED  BY <1>1, SameSelection DEF Graph!GraphComplete, Complete, OfKind

(* Lists that name what they list, when they get longer.                    *)
LEMMA NextKey ==
  ASSUME NEW n \in Nat
  PROVE  /\ Append([i \in 1 .. n |-> i - 1], n) = [i \in 1 .. n + 1 |-> i - 1]
         /\ n < MaxPoses /\ MaxPoses \in Nat =>
              Append([i \in 1 .. n |-> Graph!NewFactor(i - 1)], Graph!NewFactor(n))
                = [i \in 1 .. n + 1 |-> Graph!NewFactor(i - 1)]
<1>1. Append([i \in 1 .. n |-> i - 1], n) = [i \in 1 .. n + 1 |-> i - 1]
  <2>1. [i \in 1 .. n |-> i - 1] \in Seq(Nat) /\ [i \in 1 .. n + 1 |-> i - 1] \in Seq(Nat)  OBVIOUS
  <2>2. Len([i \in 1 .. n |-> i - 1]) = n /\ Len([i \in 1 .. n + 1 |-> i - 1]) = n + 1  OBVIOUS
  <2>3. QED  BY <2>1, <2>2
<1>2. ASSUME n < MaxPoses, MaxPoses \in Nat
      PROVE  Append([i \in 1 .. n |-> Graph!NewFactor(i - 1)], Graph!NewFactor(n))
                = [i \in 1 .. n + 1 |-> Graph!NewFactor(i - 1)]
  <2> DEFINE f(i) == Graph!NewFactor(i - 1)
             a == [i \in 1 .. n |-> f(i)]
             b == [i \in 1 .. n + 1 |-> f(i)]
  <2>1. \A i \in 1 .. n + 1 : f(i) \in Graph!Factor
    BY <1>2 DEF Graph!NewFactor, Graph!Factor, Graph!Keys
  <2>2. f(n + 1) = Graph!NewFactor(n)
    <3>1. n + 1 - 1 = n  OBVIOUS
    <3>2. QED  BY <3>1
  <2> HIDE DEF f
  <2>3. a \in Seq(Graph!Factor) /\ b \in Seq(Graph!Factor) /\ Len(a) = n /\ Len(b) = n + 1  BY <2>1
  <2>4. \A i \in 1 .. n : a[i] = f(i)  OBVIOUS
  <2>5. \A i \in 1 .. n + 1 : b[i] = f(i)  OBVIOUS
  <2> HIDE DEF a, b
  <2>6. Append(a, f(n + 1)) = b
    <3>1. f(n + 1) \in Graph!Factor  BY <2>1
    <3>2. Append(a, f(n + 1)) \in Seq(Graph!Factor) /\ Len(Append(a, f(n + 1))) = n + 1
      BY <2>3, <3>1
    <3>3. \A i \in 1 .. n + 1 : Append(a, f(n + 1))[i] = f(i)
      BY <2>3, <2>4, <3>1
    <3>4. QED  BY <2>3, <2>5, <3>2, <3>3, SeqEqual
  <2>7. QED  BY <2>2, <2>6 DEF a, b, f
<1>3. QED  BY <1>1, <1>2

(* The factors of the loops, with one more.                                 *)
LEMMA NextLoop ==
  ASSUME NEW history \in Seq(Graph!LoopPair), NEW pair \in Graph!LoopPair
  PROVE  Graph!LoopFactors(Append(history, pair))
           = Append(Graph!LoopFactors(history), [kind |-> "loop", from |-> pair.target, to |-> pair.source])
<1> DEFINE n == Len(history)
           a == Graph!LoopFactors(history)
           b == Graph!LoopFactors(Append(history, pair))
           loop == [kind |-> "loop", from |-> pair.target, to |-> pair.source]
<1>1. /\ Append(history, pair) \in Seq(Graph!LoopPair) /\ Len(Append(history, pair)) = n + 1 /\ n \in Nat
      /\ \A i \in 1 .. n + 1 : Append(history, pair)[i] = IF i = n + 1 THEN pair ELSE history[i]
      /\ DOMAIN Append(history, pair) = 1 .. n + 1 /\ DOMAIN history = 1 .. n
  OBVIOUS
<1>2. \A p \in Graph!LoopPair : [kind |-> "loop", from |-> p.target, to |-> p.source] \in Graph!Factor
  BY DEF Graph!LoopPair, Graph!Factor
<1>3. /\ a \in Seq(Graph!Factor) /\ Len(a) = n
      /\ \A i \in 1 .. n : a[i] = [kind |-> "loop", from |-> history[i].target, to |-> history[i].source]
  BY <1>1, <1>2 DEF Graph!LoopFactors
<1>4. /\ b \in Seq(Graph!Factor) /\ Len(b) = n + 1
      /\ \A i \in 1 .. n + 1 : b[i] = IF i = n + 1 THEN loop
                                      ELSE [kind |-> "loop", from |-> history[i].target, to |-> history[i].source]
  BY <1>1, <1>2 DEF Graph!LoopFactors
<1>5. loop \in Graph!Factor  BY <1>2
<1> HIDE DEF a, b, loop, n
<1>6. Append(a, loop) \in Seq(Graph!Factor) /\ Len(Append(a, loop)) = n + 1
  BY <1>3, <1>5
<1>7. \A i \in 1 .. n + 1 : Append(a, loop)[i] = b[i]
  <2>1. \A i \in 1 .. n + 1 : i # n + 1 => i \in 1 .. n  BY <1>1
  <2>2. QED  BY <1>1, <1>3, <1>4, <1>5, <2>1
<1>8. Append(a, loop) = b  BY <1>4, <1>6, <1>7, SeqEqual
<1>9. QED  BY <1>8 DEF a, b, loop

(* At the start the graph is empty.                                         *)
LEMMA GraphStarts ==
  ASSUME Graph!GraphAssumption, Graph!Init  PROVE GraphInv
<1> USE DEF Graph!Init
<1>1. GraphTypes
  BY DEF Graph!GraphAssumption, GraphTypes
<1>2. OrderInv  BY DEF OrderInv
<1>3. LoopsInv  BY DEF LoopsInv, Graph!LoopsApart
<1>4. Graph!GraphComplete
  <2>1. m_key_poses \in Seq(Graph!KeyPoseWithCloud) /\ Len(m_key_poses) = 0  OBVIOUS
  <2>2. [i \in 1 .. 0 |-> i - 1] = << >> /\ [i \in 1 .. 0 |-> Graph!NewFactor(i - 1)] = << >>  OBVIOUS
  <2>3. Graph!LoopFactors(<< >>) = << >>  BY DEF Graph!LoopFactors
  <2>4. Complete(<< >>, << >>, 0, << >>)  BY <2>2, <2>3, SelectEmpty DEF Complete
  <2>5. isam2.keys = << >> /\ isam2.factors = << >> /\ m_history_pairs = << >>  OBVIOUS
  <2>6. Complete(isam2.keys, isam2.factors, Len(m_key_poses), m_history_pairs)  BY <2>1, <2>4, <2>5
  <2>7. QED  BY <2>1, <2>6, CompleteIs
<1>5. QED  BY <1>1, <1>2, <1>3, <1>4 DEF GraphInv

(* A message, or none, leaves the graph as it is.                           *)
LEMMA GraphRests ==
  ASSUME GraphInv, UNCHANGED Graph!graphVars
  PROVE  LoopsInv' /\ Graph!GraphComplete'
<1> USE DEF GraphInv, Graph!graphVars
<1>1. LoopsInv'  BY DEF LoopsInv, Graph!LoopsApart
<1>2. Graph!GraphComplete'  BY DEF Graph!GraphComplete
<1>3. QED  BY <1>1, <1>2

(* syncCB drops what is older than the message before.                      *)
LEMMA MessageKeeps ==
  ASSUME Graph!GraphAssumption, GraphInv, NEW cp \in Graph!CloudWithPose, Graph!SyncCB(cp)
  PROVE  GraphInv'
<1>1. /\ cp.second >= last_message_time /\ last_message_time' = cp.second
      /\ cloud_buffer' = Append(cloud_buffer, cp) /\ UNCHANGED Graph!graphVars
  BY DEF Graph!SyncCB
<1>2. GraphTypes'
  BY <1>1 DEF GraphInv, GraphTypes, Graph!graphVars, Graph!CloudWithPose
<1>3. OrderInv'
  <2> DEFINE m == Len(cloud_buffer)
  <2>1. /\ m \in Nat /\ Len(cloud_buffer') = m + 1
        /\ \A j \in 1 .. m + 1 : cloud_buffer'[j] = IF j = m + 1 THEN cp ELSE cloud_buffer[j]
    BY <1>1 DEF GraphInv, GraphTypes
  <2>2. /\ cp.second \in Int /\ last_message_time \in Int
        /\ \A j \in 1 .. m : cloud_buffer[j].second \in Int
        /\ \A i \in 1 .. Len(m_key_poses) : m_key_poses[i].time \in Int
    <3>1. \A j \in 1 .. m : cloud_buffer[j] \in Graph!CloudWithPose  BY DEF GraphInv, GraphTypes
    <3>2. \A i \in 1 .. Len(m_key_poses) : m_key_poses[i] \in Graph!KeyPoseWithCloud
      BY DEF GraphInv, GraphTypes
    <3>3. QED
      BY <3>1, <3>2 DEF GraphInv, GraphTypes, Graph!KeyPoseWithCloud, Graph!CloudWithPose, Graph!Times
  <2>3. OrderInv  BY DEF GraphInv
  <2>4. m_key_poses' = m_key_poses  BY <1>1 DEF Graph!graphVars
  <2>5. \A i, j \in 1 .. Len(m_key_poses) : i <= j => m_key_poses[i].time <= m_key_poses[j].time
    BY <2>3 DEF OrderInv
  <2>6. \A i \in 1 .. Len(m_key_poses) :
          /\ m_key_poses[i].time <= cp.second
          /\ \A j \in 1 .. m + 1 : m_key_poses[i].time <= cloud_buffer'[j].second
    <3>1. \A i \in 1 .. Len(m_key_poses) :
            /\ m_key_poses[i].time <= last_message_time
            /\ \A j \in 1 .. m : m_key_poses[i].time <= cloud_buffer[j].second
      BY <2>3 DEF OrderInv
    <3>2. \A i \in 1 .. Len(m_key_poses) : m_key_poses[i].time <= cp.second  BY <1>1, <2>2, <3>1
    <3>3. \A j \in 1 .. m + 1 : j # m + 1 => j \in 1 .. m  BY <2>1
    <3>4. QED  BY <2>1, <3>1, <3>2, <3>3
  <2>7. \A j \in 1 .. m + 1 : cloud_buffer'[j].second <= cp.second
    <3>1. \A j \in 1 .. m : cloud_buffer[j].second <= last_message_time  BY <2>3 DEF OrderInv
    <3>2. \A j \in 1 .. m : cloud_buffer[j].second <= cp.second  BY <1>1, <2>2, <3>1
    <3>3. \A j \in 1 .. m + 1 : j # m + 1 => j \in 1 .. m  BY <2>1
    <3>4. QED  BY <2>1, <2>2, <3>2, <3>3
  <2>8. QED  BY <1>1, <2>1, <2>4, <2>5, <2>6, <2>7 DEF OrderInv
<1>4. QED  BY <1>1, <1>2, <1>3, GraphRests DEF GraphInv

(* timerCB throws the messages away.                                        *)
LEMMA NoKeyPoseKeeps ==
  ASSUME GraphInv, Graph!TimerNoKeyPose  PROVE GraphInv'
<1>1. cloud_buffer' = << >> /\ UNCHANGED <<last_message_time, Graph!graphVars>>
  BY DEF Graph!TimerNoKeyPose
<1>2. GraphTypes'  BY <1>1 DEF GraphInv, GraphTypes, Graph!graphVars
<1>3. OrderInv'  BY <1>1 DEF GraphInv, OrderInv, Graph!graphVars
<1>4. QED  BY <1>1, <1>2, <1>3, GraphRests DEF GraphInv

(* A new key pose comes last in time, ...                                   *)
LEMMA KeyPoseKeepsOrder ==
  ASSUME Graph!GraphAssumption, GraphInv, Graph!TimerKeyPose
  PROVE  OrderInv'
<1> DEFINE n == Len(m_key_poses)
<1>1. /\ cloud_buffer # << >> /\ cloud_buffer' = << >> /\ UNCHANGED last_message_time
      /\ Len(m_key_poses') = n + 1
      /\ \A i \in 1 .. n : m_key_poses'[i].time = m_key_poses[i].time
      /\ m_key_poses'[n + 1].time = cloud_buffer[1].second
  BY KeyPoseAdded
<1>2. n \in Nat /\ 1 \in 1 .. Len(cloud_buffer)  BY <1>1 DEF GraphInv, GraphTypes
<1>3. /\ \A i, j \in 1 .. n : i <= j => m_key_poses[i].time <= m_key_poses[j].time
      /\ \A i \in 1 .. n : m_key_poses[i].time <= last_message_time /\ m_key_poses[i].time <= cloud_buffer[1].second
      /\ cloud_buffer[1].second <= last_message_time
  BY <1>2 DEF GraphInv, OrderInv
<1>4. cloud_buffer[1].second \in Int
  <2>1. cloud_buffer[1] \in Graph!CloudWithPose  BY <1>2 DEF GraphInv, GraphTypes
  <2>2. QED  BY <2>1 DEF Graph!CloudWithPose, Graph!Times
<1> DEFINE new == cloud_buffer[1].second
<1> HIDE DEF n, new
<1>5. \A i \in 1 .. n + 1 : i # n + 1 => i \in 1 .. n  BY <1>2
<1>6. \A i \in 1 .. n + 1 : m_key_poses'[i].time = IF i = n + 1 THEN new ELSE m_key_poses[i].time
  BY <1>1, <1>5 DEF n, new
<1>7. new <= new /\ \A i \in 1 .. n : m_key_poses[i].time <= new  BY <1>3, <1>4 DEF n, new
<1>8. \A i, j \in 1 .. n + 1 : i <= j => m_key_poses'[i].time <= m_key_poses'[j].time
  <2> TAKE i, j \in 1 .. n + 1
  <2>1. CASE j = n + 1  BY <1>5, <1>6, <1>7, <2>1
  <2>2. CASE j # n + 1 /\ i <= j
    <3>1. i \in 1 .. n /\ j \in 1 .. n /\ i # n + 1  BY <1>2, <2>2
    <3>2. m_key_poses[i].time <= m_key_poses[j].time  BY <1>3, <2>2, <3>1 DEF n
    <3>3. QED  BY <1>6, <2>2, <3>1, <3>2
  <2>3. QED  BY <2>1, <2>2
<1>9. \A i \in 1 .. n + 1 : m_key_poses'[i].time <= last_message_time
  BY <1>3, <1>5, <1>6 DEF n, new
<1>10. Len(cloud_buffer') = 0  BY <1>1
<1>11. Len(m_key_poses') = n + 1 /\ UNCHANGED last_message_time  BY <1>1 DEF n
<1>12. QED  BY <1>8, <1>9, <1>10, <1>11 DEF OrderInv

(* ... and closes at most a loop that is apart from those there are.        *)
LEMMA KeyPoseKeepsLoops ==
  ASSUME Graph!GraphAssumption, GraphInv, Graph!TimerKeyPose
  PROVE  LoopsInv'
<1> DEFINE n == Len(m_key_poses)
           m == Len(m_history_pairs)
<1>1. /\ n \in Nat /\ m \in Nat /\ m_history_pairs \in Seq(Graph!LoopPair)
      /\ DOMAIN m_history_pairs = 1 .. m /\ MinDetect \in Nat
      /\ m_key_poses' \in Seq(Graph!KeyPoseWithCloud) /\ Len(m_key_poses') = n + 1
      /\ \A i \in 1 .. n : m_key_poses'[i].time = m_key_poses[i].time
      /\ m_history_pairs' = m_history_pairs \/ LoopAdded(n)
  <2>1. /\ n \in Nat /\ m \in Nat /\ m_history_pairs \in Seq(Graph!LoopPair)
        /\ DOMAIN m_history_pairs = 1 .. m /\ MinDetect \in Nat
    BY DEF GraphInv, GraphTypes, Graph!GraphAssumption
  <2>2. QED  BY <2>1, KeyPoseAdded
<1>2. \A i \in 1 .. m : /\ m_history_pairs[i].source \in Nat /\ m_history_pairs[i].source < n
                        /\ m_history_pairs[i].target \in Nat
                        /\ m_history_pairs[i].target < m_history_pairs[i].source
                        /\ m_history_pairs[i].source + 1 >= MinPoses
  <2>1. \A i \in 1 .. m : m_history_pairs[i] \in Graph!LoopPair  BY <1>1
  <2>2. \A i \in 1 .. m : m_history_pairs[i].source \in Nat /\ m_history_pairs[i].target \in Nat
    BY <2>1 DEF Graph!LoopPair, Graph!Keys
  <2>3. QED  BY <1>1, <2>2 DEF GraphInv, LoopsInv, Graph!LoopsApart
<1>3. \A i \in 1 .. m :
        /\ m_key_poses'[m_history_pairs[i].source + 1].time = m_key_poses[m_history_pairs[i].source + 1].time
        /\ m_key_poses'[m_history_pairs[i].target + 1].time = m_key_poses[m_history_pairs[i].target + 1].time
  <2>1. \A i \in 1 .. m : m_history_pairs[i].source + 1 \in 1 .. n /\ m_history_pairs[i].target + 1 \in 1 .. n
    <3>1. \A k, l \in Nat : l < k /\ k < n => k + 1 \in 1 .. n /\ l + 1 \in 1 .. n
      <4>1. n \in Nat  BY <1>1
      <4>2. QED  BY <4>1
    <3>2. QED  BY <1>2, <3>1
  <2>2. QED  BY <1>1, <2>1
<1>4. /\ \A i \in 1 .. m :
           m_key_poses'[m_history_pairs[i].source + 1].time - m_key_poses'[m_history_pairs[i].target + 1].time > LoopTime
      /\ \A i, j \in 1 .. m : i < j =>
           m_key_poses'[m_history_pairs[j].source + 1].time - m_key_poses'[m_history_pairs[i].source + 1].time >= MinDetect
  <2>1. /\ \A i \in 1 .. m :
             m_key_poses[m_history_pairs[i].source + 1].time - m_key_poses[m_history_pairs[i].target + 1].time > LoopTime
        /\ \A i, j \in 1 .. m : i < j =>
             m_key_poses[m_history_pairs[j].source + 1].time - m_key_poses[m_history_pairs[i].source + 1].time >= MinDetect
    BY <1>1 DEF GraphInv, LoopsInv, Graph!LoopsApart
  <2>2. QED  BY <1>3, <2>1
<1>5. CASE m_history_pairs' = m_history_pairs
  <2>1. \A i \in 1 .. Len(m_history_pairs') : m_history_pairs'[i].source < Len(m_key_poses')
    BY <1>1, <1>2, <1>5
  <2>2. Graph!LoopsApart'  BY <1>1, <1>2, <1>4, <1>5 DEF Graph!LoopsApart
  <2>3. QED  BY <2>1, <2>2 DEF LoopsInv
<1>6. CASE LoopAdded(n)
  <2>1. PICK pair : IsLoop(pair, n) /\ m_history_pairs' = Append(m_history_pairs, pair)
    BY <1>6 DEF LoopAdded
  <2>2. /\ pair \in Graph!LoopPair /\ pair.source = n /\ pair.target \in Nat /\ pair.target < n /\ n + 1 >= MinPoses
        /\ m_key_poses'[n + 1].time - m_key_poses'[pair.target + 1].time > LoopTime
    BY <2>1 DEF IsLoop, Graph!LoopPair, Graph!Keys
  <2>3. /\ Len(m_history_pairs') = m + 1 /\ DOMAIN m_history_pairs' = 1 .. m + 1
        /\ \A i \in 1 .. m + 1 : m_history_pairs'[i] = IF i = m + 1 THEN pair ELSE m_history_pairs[i]
        /\ \A i \in 1 .. m + 1 : i # m + 1 => i \in 1 .. m
    <3>1. m \in Nat /\ m_history_pairs \in Seq(Graph!LoopPair)  BY <1>1
    <3>2. \A h \in Seq(Graph!LoopPair), p \in Graph!LoopPair :
            /\ Append(h, p) \in Seq(Graph!LoopPair) /\ Len(Append(h, p)) = Len(h) + 1
            /\ \A i \in 1 .. Len(h) + 1 : Append(h, p)[i] = IF i = Len(h) + 1 THEN p ELSE h[i]
      OBVIOUS
    <3>3. /\ m_history_pairs' \in Seq(Graph!LoopPair) /\ Len(m_history_pairs') = m + 1
          /\ \A i \in 1 .. m + 1 : m_history_pairs'[i] = IF i = m + 1 THEN pair ELSE m_history_pairs[i]
      BY <2>1, <2>2, <3>1, <3>2
    <3>4. \A i \in 1 .. m + 1 : i # m + 1 => i \in 1 .. m  BY <3>1
    <3>5. QED  BY <3>3, <3>4
  <2>4. ASSUME NEW i \in 1 .. m
        PROVE  m_key_poses'[n + 1].time - m_key_poses'[m_history_pairs[i].source + 1].time >= MinDetect
    <3> DEFINE latest == m_key_poses'[n + 1].time
               last   == m_key_poses'[m_history_pairs[m].source + 1].time
               this   == m_key_poses'[m_history_pairs[i].source + 1].time
    <3>1. /\ m_history_pairs[i].source + 1 \in 1 .. n + 1 /\ m_history_pairs[m].source + 1 \in 1 .. n + 1
          /\ n + 1 \in 1 .. n + 1 /\ m \in 1 .. m
      <4>1. n \in Nat /\ m \in Nat  BY <1>1
      <4>2. m \in 1 .. m /\ n + 1 \in 1 .. n + 1  BY <4>1
      <4>3. \A k \in Nat : k < n => k + 1 \in 1 .. n + 1  BY <4>1
      <4>4. QED  BY <1>2, <4>2, <4>3
    <3>2. latest \in Int /\ last \in Int /\ this \in Int
      <4>1. \A k \in 1 .. n + 1 : m_key_poses'[k] \in Graph!KeyPoseWithCloud  BY <1>1
      <4>2. \A k \in 1 .. n + 1 : m_key_poses'[k].time \in Int
        BY <4>1 DEF Graph!KeyPoseWithCloud, Graph!Times
      <4>3. QED  BY <3>1, <4>2
    <3>3. this <= latest
      <4>1. OrderInv'  BY KeyPoseKeepsOrder
      <4>2. m_history_pairs[i].source + 1 <= n + 1  BY <1>1, <3>1
      <4>3. QED  BY <1>1, <3>1, <4>1, <4>2 DEF OrderInv
    <3>4. MinDetect > 0 => latest - last >= MinDetect
      <4>1. m_history_pairs # << >>  BY <1>1
      <4>2. QED  BY <2>1, <4>1 DEF IsLoop
    <3>5. i # m => last - this >= MinDetect
      <4>1. i # m => i < m  BY <3>1
      <4>2. QED  BY <1>4, <3>1, <4>1
    <3>6. i = m => last = this  OBVIOUS
    <3> HIDE DEF latest, last, this
    <3>7. MinDetect \in Nat  BY <1>1
    <3>8. latest - this >= MinDetect
      <4>1. CASE MinDetect = 0  BY <3>2, <3>3, <4>1
      <4>2. CASE MinDetect > 0 /\ i = m  BY <3>4, <3>6, <4>2
      <4>3. CASE MinDetect > 0 /\ i # m  BY <3>2, <3>4, <3>5, <3>7, <4>3
      <4>4. QED  BY <3>7, <4>1, <4>2, <4>3
    <3>9. QED  BY <3>8 DEF latest, this
  <2>5. \A i \in 1 .. m + 1 : m_history_pairs'[i].source < n + 1
    BY <1>1, <1>2, <2>2, <2>3
  <2>6. \A i \in 1 .. m + 1 :
          /\ m_history_pairs'[i].target < m_history_pairs'[i].source
          /\ m_history_pairs'[i].source + 1 >= MinPoses
          /\ m_key_poses'[m_history_pairs'[i].source + 1].time - m_key_poses'[m_history_pairs'[i].target + 1].time > LoopTime
    BY <1>2, <1>4, <2>2, <2>3
  <2>7. \A i, j \in 1 .. m + 1 : i < j =>
          m_key_poses'[m_history_pairs'[j].source + 1].time - m_key_poses'[m_history_pairs'[i].source + 1].time >= MinDetect
    <3> TAKE i, j \in 1 .. m + 1
    <3> HAVE i < j
    <3>1. i \in 1 .. m /\ m_history_pairs'[i] = m_history_pairs[i]  BY <1>1, <2>3
    <3>2. CASE j = m + 1  BY <2>2, <2>3, <2>4, <3>1, <3>2
    <3>3. CASE j # m + 1  BY <1>4, <2>3, <3>1, <3>3
    <3>4. QED  BY <3>2, <3>3
  <2>8. Graph!LoopsApart'  BY <2>3, <2>6, <2>7 DEF Graph!LoopsApart
  <2>9. QED  BY <1>1, <2>3, <2>5, <2>8 DEF LoopsInv
<1>7. QED  BY <1>1, <1>5, <1>6

(* ISAM2 is given the new key pose and the new loop.                        *)
LEMMA KeyPoseKeepsGraph ==
  ASSUME Graph!GraphAssumption, GraphInv, Graph!TimerKeyPose
  PROVE  GraphTypes' /\ Graph!GraphComplete'
<1> DEFINE n == Len(m_key_poses)
           f == Graph!NewFactor(n)
<1>1. /\ n \in Nat /\ n + 1 <= MaxPoses /\ cloud_buffer' = << >>
      /\ m_key_poses' \in Seq(Graph!KeyPoseWithCloud) /\ Len(m_key_poses') = n + 1
      /\ m_offset' \in Drifts
      /\ m_cache_pairs' = << >> /\ m_initial_values' = << >> /\ m_graph' = << >>
      /\ UNCHANGED last_message_time
      /\ isam2'.keys = Append(isam2.keys, n) /\ isam2' = [keys |-> isam2'.keys, factors |-> isam2'.factors]
      /\ \/ m_history_pairs' = m_history_pairs /\ isam2'.factors = Append(isam2.factors, f)
         \/ LoopAdded(n)
  BY KeyPoseAdded DEF GraphInv, GraphTypes
<1>2. /\ m_history_pairs \in Seq(Graph!LoopPair)
      /\ isam2.keys \in Seq(Graph!Keys) /\ isam2.factors \in Seq(Graph!Factor)
      /\ last_message_time \in Graph!Times /\ MaxPoses \in Nat /\ n \in Graph!Keys
  <2>1. MaxPoses \in Nat  BY DEF Graph!GraphAssumption
  <2>2. n \in Graph!Keys  BY <1>1, <2>1 DEF Graph!Keys
  <2>3. QED  BY <2>1, <2>2 DEF GraphInv, GraphTypes
<1>3. Complete(isam2.keys, isam2.factors, n, m_history_pairs)
  BY CompleteIs DEF GraphInv, GraphTypes
<1>4. isam2'.keys \in Seq(Graph!Keys)  BY <1>1, <1>2
<1>5. isam2'.keys = [i \in 1 .. n + 1 |-> i - 1]  BY <1>1, <1>3, NextKey DEF Complete
<1>6. Append([i \in 1 .. n |-> Graph!NewFactor(i - 1)], f) = [i \in 1 .. n + 1 |-> Graph!NewFactor(i - 1)]
  BY <1>1, <1>2, NextKey
<1>7. /\ m_history_pairs' \in Seq(Graph!LoopPair) /\ isam2'.factors \in Seq(Graph!Factor)
      /\ Complete(isam2'.keys, isam2'.factors, n + 1, m_history_pairs')
  <2> DEFINE poses == OfKind({"prior", "odometry"})
             loops == OfKind({"loop"})
  <2>1. CASE m_history_pairs' = m_history_pairs /\ isam2'.factors = Append(isam2.factors, f)
    <3>1. [target |-> 0, source |-> 0] \in Graph!LoopPair  BY <1>2 DEF Graph!LoopPair, Graph!Keys
    <3>2. /\ Append(isam2.factors, f) \in Seq(Graph!Factor)
          /\ Select(Append(isam2.factors, f), poses) = Append(Select(isam2.factors, poses), f)
          /\ Select(Append(isam2.factors, f), loops) = Select(isam2.factors, loops)
      BY <1>2, <3>1, NewFactors
    <3>3. QED  BY <1>2, <1>3, <1>5, <1>6, <2>1, <3>2 DEF Complete
  <2>2. CASE LoopAdded(n)
    <3>1. PICK pair : /\ pair \in Graph!LoopPair
                      /\ m_history_pairs' = Append(m_history_pairs, pair)
                      /\ isam2'.factors = Append(Append(isam2.factors, f),
                                                 [kind |-> "loop", from |-> pair.target, to |-> pair.source])
      BY <2>2 DEF LoopAdded, IsLoop
    <3> DEFINE loop == [kind |-> "loop", from |-> pair.target, to |-> pair.source]
    <3>2. /\ isam2'.factors \in Seq(Graph!Factor)
          /\ Select(isam2'.factors, poses) = Append(Select(isam2.factors, poses), f)
          /\ Select(isam2'.factors, loops) = Append(Select(isam2.factors, loops), loop)
      <4>1. pair \in Graph!LoopPair /\ isam2'.factors = Append(Append(isam2.factors, f), loop)
        BY <3>1
      <4>2. /\ Append(Append(isam2.factors, f), loop) \in Seq(Graph!Factor)
            /\ Select(Append(Append(isam2.factors, f), loop), poses) = Append(Select(isam2.factors, poses), f)
            /\ Select(Append(Append(isam2.factors, f), loop), loops) = Append(Select(isam2.factors, loops), loop)
        BY <1>2, <4>1, NewFactors
      <4> HIDE DEF f, loop, poses, loops
      <4>3. QED  BY <4>1, <4>2
    <3>3. m_history_pairs' \in Seq(Graph!LoopPair)  BY <1>2, <3>1
    <3>4. Graph!LoopFactors(m_history_pairs') = Append(Graph!LoopFactors(m_history_pairs), loop)
      BY <1>2, <3>1, NextLoop
    <3>5. QED  BY <1>3, <1>5, <1>6, <3>2, <3>3, <3>4 DEF Complete
  <2>3. QED  BY <1>1, <2>1, <2>2
<1>8. GraphTypes'
  <2>1. isam2' \in [keys : Seq(Graph!Keys), factors : Seq(Graph!Factor)]  BY <1>1, <1>4, <1>7
  <2>2. QED  BY <1>1, <1>2, <1>7, <2>1 DEF GraphTypes
<1>9. Graph!GraphComplete'
  <2>1. DOMAIN m_key_poses' = 1 .. n + 1  BY <1>1
  <2>2. QED  BY <1>7, <2>1, SameSelection DEF Graph!GraphComplete, Complete, OfKind
<1>10. QED  BY <1>8, <1>9

(* So it is in every state.                                                 *)
LEMMA GraphSafe ==
  ASSUME Graph!GraphAssumption PROVE Graph!Spec => []GraphInv
<1>1. Graph!Init => GraphInv  BY GraphStarts
<1>2. GraphInv /\ [Graph!Next]_(Graph!vars) => GraphInv'
  <2> SUFFICES ASSUME GraphInv, [Graph!Next]_(Graph!vars) PROVE GraphInv'  OBVIOUS
  <2>1. ASSUME NEW cp \in Graph!CloudWithPose, Graph!SyncCB(cp) PROVE GraphInv'  BY <2>1, MessageKeeps
  <2>2. CASE Graph!TimerNoKeyPose  BY <2>2, NoKeyPoseKeeps
  <2>3. CASE Graph!TimerKeyPose
    BY <2>3, KeyPoseKeepsOrder, KeyPoseKeepsLoops, KeyPoseKeepsGraph DEF GraphInv
  <2>4. CASE UNCHANGED Graph!vars
    <3>1. UNCHANGED <<last_message_time, cloud_buffer, Graph!graphVars>>  BY <2>4 DEF Graph!vars
    <3>2. GraphTypes'  BY <3>1 DEF GraphInv, GraphTypes, Graph!graphVars
    <3>3. OrderInv'  BY <3>1 DEF GraphInv, OrderInv, Graph!graphVars
    <3>4. QED  BY <3>1, <3>2, <3>3, GraphRests DEF GraphInv
  <2>5. QED  BY <2>1, <2>2, <2>3, <2>4 DEF Graph!Next
<1>3. QED  BY <1>1, <1>2, PTL DEF Graph!Spec

(* Every loop leads back to a key pose that is older by more than            *)
(* loop_time_tresh, and loops are min_loop_detect_duration apart, wherever  *)
(* the graph has moved the poses since (searchForLoopPairs).                *)
THEOREM LoopsKeepApart ==
  ASSUME Graph!GraphAssumption PROVE Graph!Spec => []LoopsApart
<1>1. GraphInv => LoopsApart  BY DEF GraphInv, LoopsInv, LoopsApart
<1>2. QED  BY <1>1, GraphSafe, PTL

(* ISAM2 was given a value for every key pose and every factor once, in     *)
(* order: nothing is left in the caches between callbacks, and nothing is   *)
(* given twice (addKeyPose, smoothAndUpdate).                               *)
THEOREM GraphIsComplete ==
  ASSUME Graph!GraphAssumption PROVE Graph!Spec => []GraphComplete
<1>1. GraphInv => GraphComplete  BY DEF GraphInv, GraphComplete
<1>2. QED  BY <1>1, GraphSafe, PTL

-------------------------------------------------------------------------------
(* Preprocess *)

(* A direction tells how far a line has turned, if it is known to have       *)
(* turned less than twice, and less than once since the last point.          *)
LEMMA TurnFound ==
  ASSUME NEW d \in Nat \ {0}, NEW fall \in 1 - d .. d - 1, NEW turn \in 0 .. 2 * d - 1,
         NEW last \in Nat, (fall - turn) % d = 0, last <= turn, turn < last + d
  PROVE  LET c == IF fall >= 0 THEN fall ELSE fall + d
         IN  (IF c < last THEN c + d ELSE c) = turn
<1>1. PICK q \in Int : fall - turn = d * q
  <2> DEFINE q == (fall - turn) \div d
  <2>1. q \in Int  OBVIOUS
  <2>2. fall - turn = d * q + 0  OBVIOUS
  <2> HIDE DEF q
  <2>3. d * q \in Int  BY <2>1
  <2>4. QED  BY <2>1, <2>2, <2>3
<1>2. q \in {0, -1, -2}
  <2>1. CASE q >= 1
    <3>1. d * q >= d  BY <2>1
    <3>2. fall - turn <= d - 1  OBVIOUS
    <3>3. QED  BY <1>1, <3>1, <3>2
  <2>2. CASE q <= -3
    <3>1. d * q <= d * (-3)  BY <2>2
    <3>2. d * (-3) = -3 * d /\ fall - turn >= 2 - 3 * d  OBVIOUS
    <3>3. QED  BY <1>1, <3>1, <3>2
  <2>3. QED  BY <2>1, <2>2
<1>3. CASE q = 0
  <2>1. fall = turn  BY <1>1, <1>3
  <2>2. QED  BY <2>1
<1>4. CASE q = -1
  <2>1. fall - turn = -d  BY <1>1, <1>4
  <2>2. QED  BY <2>1
<1>5. CASE q = -2
  <2>1. fall - turn = -2 * d  BY <1>1, <1>5
  <2>2. QED  BY <2>1
<1>6. QED  BY <1>2, <1>3, <1>4, <1>5

(* What may be known of the lines.                                           *)
LineTimes == [yaw_fp : Int, time_last : Int]
Knowledge == [Pre!Lines -> LineTimes \cup {NULL}]

(* A point of a line makes more of what is known of it.                      *)
LEMMA YawTimeValue ==
  ASSUME NEW known \in Knowledge, NEW p \in Pre!Point, p.line \in Pre!Lines
  PROVE  /\ Pre!YawTime(known, p) \in Knowledge
         /\ \A l \in Pre!Lines : l # p.line => Pre!YawTime(known, p)[l] = known[l]
         /\ known[p.line] = NULL =>
              Pre!YawTime(known, p)[p.line] = [yaw_fp |-> p.yaw, time_last |-> 0]
         /\ known[p.line] # NULL =>
              LET fp == known[p.line].yaw_fp
                  c  == IF fp - p.yaw >= 0 THEN fp - p.yaw ELSE fp - p.yaw + FullTurn
              IN  Pre!YawTime(known, p)[p.line] =
                    [yaw_fp |-> fp,
                     time_last |-> IF c < known[p.line].time_last THEN c + FullTurn ELSE c]
<1> DEFINE l == p.line
           was == known[l]
           fp == was.yaw_fp
           c  == IF p.yaw <= fp THEN fp - p.yaw ELSE fp - p.yaw + FullTurn
           time == IF c < was.time_last THEN c + FullTurn ELSE c
           first == [yaw_fp |-> p.yaw, time_last |-> 0]
           later == [yaw_fp |-> fp, time_last |-> time]
<1>1. p.yaw \in Int /\ FullTurn \in Nat \ {0} /\ first \in LineTimes
  BY StagesAssumption DEF Pre!PreprocessAssumption, Pre!Point, LineTimes
<1>2. CASE was = NULL
  <2>1. Pre!YawTime(known, p) = [known EXCEPT ![l] = first]  BY <1>2 DEF Pre!YawTime
  <2> HIDE DEF first
  <2>2. QED  BY <1>1, <1>2, <2>1 DEF Knowledge, first
<1>3. CASE was # NULL
  <2>1. was \in LineTimes  BY <1>3 DEF Knowledge
  <2>2. fp \in Int /\ was.time_last \in Int  BY <2>1 DEF LineTimes
  <2>3. later \in LineTimes  BY <1>1, <2>2 DEF LineTimes
  <2>4. [was EXCEPT !.time_last = time] = later
    <3> HIDE DEF time
    <3>1. \A r \in LineTimes : \A t : [r EXCEPT !.time_last = t] = [yaw_fp |-> r.yaw_fp, time_last |-> t]
      BY DEF LineTimes
    <3>2. QED  BY <2>1, <3>1
  <2>5. Pre!YawTime(known, p) = [known EXCEPT ![l] = later]
    <3>1. Pre!YawTime(known, p) = [known EXCEPT ![l].time_last = time]
      BY <1>3 DEF Pre!YawTime
    <3> HIDE DEF time
    <3>2. [known EXCEPT ![l].time_last = time] = [known EXCEPT ![l] = [was EXCEPT !.time_last = time]]
      OBVIOUS
    <3>3. QED  BY <2>4, <3>1, <3>2
  <2>6. c = IF fp - p.yaw >= 0 THEN fp - p.yaw ELSE fp - p.yaw + FullTurn  BY <1>1, <2>2
  <2> HIDE DEF later, c
  <2>7. /\ Pre!YawTime(known, p) \in Knowledge /\ Pre!YawTime(known, p)[l] = later
        /\ \A k \in Pre!Lines : k # l => Pre!YawTime(known, p)[k] = known[k]
    BY <2>3, <2>5 DEF Knowledge
  <2>8. later = [yaw_fp |-> fp, time_last |-> IF c < was.time_last THEN c + FullTurn ELSE c]
    BY DEF later, c
  <2>9. QED  BY <1>3, <2>6, <2>7, <2>8
<1>4. QED  BY <1>2, <1>3

(* Known follows its recursion.                                             *)
LEMMA KnownValues ==
  ASSUME NEW s \in Seq(Pre!Point), \A i \in 1 .. Len(s) : s[i].line \in Pre!Lines
  PROVE  /\ Pre!Known(s)[0] = [l \in Pre!Lines |-> NULL]
         /\ \A n \in 0 .. Len(s) : Pre!Known(s)[n] \in Knowledge
         /\ \A n \in 1 .. Len(s) : Pre!Known(s)[n] = Pre!YawTime(Pre!Known(s)[n - 1], s[n])
<1> DEFINE N == Len(s)
           none == [l \in Pre!Lines |-> NULL]
           More(n, known) == Pre!YawTime(known, s[n])
           Step == [n \in 1 .. N |-> [known \in Knowledge |-> More(n, known)]]
           Solves(f) == f = [n \in 0 .. N |-> IF n = 0 THEN none ELSE More(n, f[n - 1])]
<1>1. N \in Nat /\ none \in Knowledge  BY DEF Knowledge
<1>2. ASSUME NEW n \in 1 .. N, NEW known \in Knowledge  PROVE More(n, known) \in Knowledge
  <2>1. s[n] \in Pre!Point /\ s[n].line \in Pre!Lines  OBVIOUS
  <2>2. QED  BY <2>1, YawTimeValue
<1>3. \E f \in [0 .. N -> Knowledge] : Solves(f)
  <2> HIDE DEF N, none, More
  <2>1. Step \in [1 .. N -> [Knowledge -> Knowledge]]  BY <1>2
  <2>2. \A n \in 1 .. N, known \in Knowledge : Step[n][known] = More(n, known)  OBVIOUS
  <2> HIDE DEF Step
  <2>3. PICK f \in [0 .. N -> Knowledge] : Recurs(f, N, none, Step)  BY <1>1, <2>1, Recursion
  <2>4. ASSUME NEW n \in 1 .. N  PROVE Step[n][f[n - 1]] = More(n, f[n - 1])
    <3>1. f[n - 1] \in Knowledge  BY <1>1
    <3>2. QED  BY <2>2, <3>1
  <2>5. \A n \in 0 .. N : n # 0 => n \in 1 .. N  BY <1>1
  <2>6. \A n \in 0 .. N : f[n] = IF n = 0 THEN none ELSE More(n, f[n - 1])
    BY <2>3, <2>4, <2>5 DEF Recurs
  <2>7. f = [n \in 0 .. N |-> f[n]]  OBVIOUS
  <2>8. QED  BY <2>6, <2>7
<1> DEFINE K == Pre!Known(s)
<1>4. Solves(K)
  <2>1. K = CHOOSE g : Solves(g)  BY DEF Pre!Known
  <2> HIDE DEF Solves, K
  <2>2. QED  BY <1>3, <2>1
<1>5. \A n \in 0 .. N : K[n] = IF n = 0 THEN none ELSE More(n, K[n - 1])
  <2> HIDE DEF K, More, none, N
  <2>1. QED  BY <1>4
<1> HIDE DEF K
<1>6. K[0] = none /\ \A n \in 1 .. N : K[n] = More(n, K[n - 1])
  <2> HIDE DEF More, none, N
  <2>1. QED  BY <1>1, <1>5
<1>7. \A n \in 0 .. N : K[n] \in Knowledge
  <2> HIDE DEF More, none, N
  <2> DEFINE T == {n \in 0 .. N : K[n] \in Knowledge}
  <2>1. 0 \in T  BY <1>1, <1>6
  <2>2. ASSUME NEW n \in 1 .. N, n - 1 \in T  PROVE n \in T  BY <1>2, <1>6, <2>2
  <2> HIDE DEF T
  <2>3. \A n \in 0 .. N : n \in T  BY <1>1, <2>1, <2>2, Induction
  <2>4. QED  BY <2>3 DEF T
<1>8. QED  BY <1>6, <1>7 DEF K

(* The points of a line so far, and that no gap between them hides a turn.   *)
OfLine(s, n, l) == {j \in 1 .. n : s[j].line = l}
NoGap(s, mine)  == \A j, m \in mine : (j < m /\ (\A x \in mine : x <= j \/ x >= m))
                                        => s[m].turned - s[j].turned < FullTurn

(* What is known of a line is the direction of its first point and, if it    *)
(* has turned less than twice and without gaps, how far it has turned since. *)
LineKnown(s, n, l) ==
  LET mine  == OfLine(s, n, l)
      known == Pre!Known(s)[n][l]
  IN  IF mine = {} THEN known = NULL
      ELSE \E first, newest \in mine :
             /\ \A j \in mine : first <= j /\ j <= newest
             /\ known \in LineTimes /\ known.yaw_fp = s[first].yaw
             /\ NoGap(s, mine) /\ s[newest].turned - s[first].turned < 2 * FullTurn
                  => known.time_last = s[newest].turned - s[first].turned

(* That goes on from point to point.                                        *)
LEMMA LinesKnown ==
  ASSUME NEW s \in Seq(Pre!Point), Pre!Clockwise(s), \A i \in 1 .. Len(s) : s[i].line \in Pre!Lines
  PROVE  \A n \in 0 .. Len(s) : \A l \in Pre!Lines : LineKnown(s, n, l)
<1> DEFINE N == Len(s)
           K == Pre!Known(s)
           T == {n \in 0 .. N : \A l \in Pre!Lines : LineKnown(s, n, l)}
<1>1. N \in Nat /\ FullTurn \in Nat \ {0} /\ NULL \notin LineTimes
  BY StagesAssumption DEF Pre!PreprocessAssumption, LineTimes
<1>2. /\ K[0] = [l \in Pre!Lines |-> NULL]
      /\ \A n \in 0 .. N : K[n] \in Knowledge
      /\ \A n \in 1 .. N : K[n] = Pre!YawTime(K[n - 1], s[n])
  BY KnownValues
<1>3. \A n \in 1 .. N : /\ s[n] \in Pre!Point /\ s[n].line \in Pre!Lines
                        /\ s[n].yaw \in Int /\ s[n].turned \in Int
  <2>1. \A n \in 1 .. N : s[n] \in Pre!Point /\ s[n].line \in Pre!Lines  OBVIOUS
  <2>2. \A p \in Pre!Point : p.yaw \in Int /\ p.turned \in Int  BY DEF Pre!Point
  <2>3. QED  BY <2>1, <2>2
<1>4. \A j, m \in 1 .. N : j < m /\ s[j].line = s[m].line =>
        /\ s[j].turned <= s[m].turned
        /\ s[j].yaw - s[m].yaw \in 1 - FullTurn .. FullTurn - 1
        /\ (s[j].yaw - s[m].yaw - (s[m].turned - s[j].turned)) % FullTurn = 0
  BY DEF Pre!Clockwise
<1> HIDE DEF N, K
<1>5. 0 \in T
  <2>1. \A l \in Pre!Lines : OfLine(s, 0, l) = {} /\ K[0][l] = NULL  BY <1>2 DEF OfLine
  <2>2. QED  BY <1>1, <2>1 DEF LineKnown, K
<1>6. ASSUME NEW n \in 1 .. N, n - 1 \in T  PROVE n \in T
  <2> DEFINE p    == s[n]
             prev == n - 1
  <2>1. n \in 0 .. N /\ prev \in 0 .. N /\ prev \in Nat /\ prev < n /\ K[prev] \in Knowledge
    BY <1>1, <1>2, <1>6
  <2>2. K[n] = Pre!YawTime(K[prev], p) /\ p \in Pre!Point /\ p.line \in Pre!Lines
    BY <1>2, <1>3
  <2>9. /\ \A l \in Pre!Lines : l # p.line => K[n][l] = K[prev][l]
        /\ K[prev][p.line] = NULL => K[n][p.line] = [yaw_fp |-> p.yaw, time_last |-> 0]
        /\ K[prev][p.line] # NULL =>
             LET fp == K[prev][p.line].yaw_fp
                 c  == IF fp - p.yaw >= 0 THEN fp - p.yaw ELSE fp - p.yaw + FullTurn
             IN  K[n][p.line] =
                   [yaw_fp |-> fp,
                    time_last |-> IF c < K[prev][p.line].time_last THEN c + FullTurn ELSE c]
    <3> HIDE DEF p, prev
    <3>1. K[prev] \in Knowledge /\ p \in Pre!Point /\ p.line \in Pre!Lines  BY <2>1, <2>2
    <3> DEFINE new == Pre!YawTime(K[prev], p)
    <3>2. K[n] = new  BY <2>2
    <3>3. /\ \A l \in Pre!Lines : l # p.line => new[l] = K[prev][l]
          /\ K[prev][p.line] = NULL => new[p.line] = [yaw_fp |-> p.yaw, time_last |-> 0]
          /\ K[prev][p.line] # NULL =>
               LET fp == K[prev][p.line].yaw_fp
                   c  == IF fp - p.yaw >= 0 THEN fp - p.yaw ELSE fp - p.yaw + FullTurn
               IN  new[p.line] =
                     [yaw_fp |-> fp,
                      time_last |-> IF c < K[prev][p.line].time_last THEN c + FullTurn ELSE c]
      BY <3>1, YawTimeValue, Zenon
    <3> HIDE DEF new
    <3>4. QED  BY <3>2, <3>3, Zenon
  <2>3. \A l \in Pre!Lines : LineKnown(s, prev, l)  BY <1>6
  <2>4. \A l : \A j \in OfLine(s, n, l) : j = n \/ j \in OfLine(s, prev, l)
    BY <1>1, <2>1 DEF OfLine
  <2>5. \A l : \A j \in OfLine(s, prev, l) :
          j \in 1 .. N /\ j < n /\ j \in OfLine(s, n, l) /\ s[j].line = l
    BY <1>1, <2>1 DEF OfLine
  <2> HIDE DEF p, prev
  <2>6. ASSUME NEW l \in Pre!Lines, l # p.line  PROVE LineKnown(s, n, l)
    <3>1. n \notin OfLine(s, n, l)  BY <2>6 DEF OfLine, p
    <3>2. OfLine(s, n, l) = OfLine(s, prev, l)
      <4>1. \A j : j \in OfLine(s, n, l) <=> j \in OfLine(s, prev, l)  BY <2>4, <2>5, <3>1
      <4>2. QED  BY <4>1, Zenon
    <3>3. K[n][l] = K[prev][l]  BY <2>6, <2>9
    <3>4. LineKnown(s, prev, l)  BY <2>3
    <3>5. QED  BY <3>2, <3>3, <3>4 DEF LineKnown, K
  <2>7. LineKnown(s, n, p.line)
    <3> DEFINE l == p.line
               mine == OfLine(s, n, l)
               before == OfLine(s, prev, l)
    <3>1. n \in mine /\ \A j \in mine : j \in 1 .. N /\ j <= n
      BY <1>1, <1>6, <2>4, <2>5 DEF OfLine, p
    <3>2. p.yaw \in Int /\ p.turned \in Int  BY <1>3 DEF p
    <3>3. CASE before = {}
      <4>1. K[prev][l] = NULL  BY <2>2, <2>3, <3>3 DEF LineKnown, K
      <4>2. K[n][l] = [yaw_fp |-> p.yaw, time_last |-> 0]  BY <2>9, <4>1
      <4>3. mine = {n}  BY <2>4, <3>1, <3>3
      <4>4. K[n][l] \in LineTimes /\ K[n][l].yaw_fp = s[n].yaw
            /\ K[n][l].time_last = s[n].turned - s[n].turned
        BY <3>2, <4>2 DEF LineTimes, p
      <4>5. \A j \in mine : n <= j /\ j <= n  BY <1>1, <4>3
      <4>6. QED  BY <3>1, <4>4, <4>5 DEF LineKnown, K
    <3>4. CASE before # {}
      <4>1. PICK first \in before, newest \in before :
              /\ \A j \in before : first <= j /\ j <= newest
              /\ K[prev][l] \in LineTimes /\ K[prev][l].yaw_fp = s[first].yaw
              /\ NoGap(s, before) /\ s[newest].turned - s[first].turned < 2 * FullTurn
                   => K[prev][l].time_last = s[newest].turned - s[first].turned
        BY <2>2, <2>3, <3>4 DEF LineKnown, K
      <4> DEFINE was  == K[prev][l]
                 fall == s[first].yaw - p.yaw
                 turn == p.turned - s[first].turned
                 last == s[newest].turned - s[first].turned
                 c    == IF fall >= 0 THEN fall ELSE fall + FullTurn
                 time == IF c < was.time_last THEN c + FullTurn ELSE c
      <4>2. was # NULL /\ was.time_last \in Int  BY <1>1, <4>1 DEF LineTimes
      <4>3. K[n][l] = [yaw_fp |-> s[first].yaw, time_last |-> time]
        BY <2>9, <4>1, <4>2, Zenon
      <4>4. /\ first \in 1 .. N /\ first < n /\ newest \in 1 .. N /\ newest < n
            /\ first \in mine /\ newest \in mine /\ s[first].line = l /\ s[newest].line = l
            /\ s[n].line = l
        BY <2>5, <4>1 DEF p
      <4>5. /\ s[first].turned <= s[newest].turned /\ s[newest].turned <= p.turned
            /\ fall \in 1 - FullTurn .. FullTurn - 1 /\ (fall - turn) % FullTurn = 0
        <5>1. first = newest \/ first < newest  BY <1>1, <4>1, <4>4
        <5>2. s[first].turned <= s[newest].turned
          <6>1. CASE first = newest
            <7>1. s[first].turned \in Int  BY <1>3, <4>4
            <7>2. QED  BY <6>1, <7>1
          <6>2. CASE first < newest  BY <1>4, <4>4, <6>2
          <6>3. QED  BY <5>1, <6>1, <6>2
        <5>3. QED  BY <1>4, <1>6, <4>4, <5>2 DEF p
      <4>6. s[first].turned \in Int /\ s[newest].turned \in Int /\ s[first].yaw \in Int  BY <1>3, <4>4
      <4>7. \A j \in mine : first <= j /\ j <= n  BY <1>1, <2>4, <3>1, <4>1, <4>4
      <4>8. K[n][l] \in LineTimes /\ K[n][l].yaw_fp = s[first].yaw /\ K[n][l].time_last = time
        <5>1. time \in Int  BY <1>1, <3>2, <4>2, <4>6, SMTT(30)
        <5> HIDE DEF time
        <5>2. QED  BY <4>3, <4>6, <5>1 DEF LineTimes
      <4>9. ASSUME NoGap(s, mine), s[n].turned - s[first].turned < 2 * FullTurn
            PROVE  time = turn
        <5>1. NoGap(s, before)
          <6> SUFFICES ASSUME NEW j \in before, NEW m \in before, j < m,
                              \A x \in before : x <= j \/ x >= m
                       PROVE  s[m].turned - s[j].turned < FullTurn
            BY DEF NoGap
          <6>1. j \in mine /\ m \in mine /\ m < n /\ m \in 1 .. N  BY <2>5
          <6>2. \A x \in mine : x <= j \/ x >= m  BY <1>1, <2>4, <6>1
          <6>3. QED  BY <4>9, <6>1, <6>2 DEF NoGap
        <5>2. turn < last + FullTurn
          <6>1. \A x \in mine : x <= newest \/ x >= n  BY <1>1, <2>4, <4>1, <4>4
          <6>2. s[n].turned - s[newest].turned < FullTurn  BY <3>1, <4>4, <4>9, <6>1 DEF NoGap
          <6>3. QED  BY <1>1, <3>2, <4>6, <6>2, SMTT(30) DEF p
        <5>3. last < 2 * FullTurn /\ last \in Nat /\ last <= turn /\ turn \in 0 .. 2 * FullTurn - 1
          <6>1. last \in Int /\ turn \in Int /\ 0 <= last /\ last <= turn
            BY <3>2, <4>5, <4>6, SMTT(30)
          <6>2. turn < 2 * FullTurn  BY <4>9 DEF p
          <6> HIDE DEF last, turn
          <6>3. QED  BY <1>1, <6>1, <6>2
        <5>4. was.time_last = last  BY <4>1, <5>1, <5>3
        <5> HIDE DEF fall, turn, last
        <5>5. QED  BY <1>1, <4>5, <5>2, <5>3, <5>4, TurnFound
      <4> HIDE DEF was, time
      <4>10. QED
        BY <3>1, <4>4, <4>7, <4>8, <4>9 DEF LineKnown, K, p
    <3>5. QED  BY <3>3, <3>4
  <2>8. QED  BY <2>1, <2>6, <2>7
<1> HIDE DEF T
<1>7. \A n \in 0 .. N : n \in T  BY <1>1, <1>5, <1>6, Induction
<1>8. QED  BY <1>7 DEF T, N

(* The time of a point is how far its line has turned.                       *)
LEMMA TimesFound ==
  ASSUME NEW s \in Seq(Pre!Point), Pre!Clockwise(s), \A i \in 1 .. Len(s) : s[i].line \in Pre!Lines,
         NEW i \in 1 .. Len(s)
  PROVE  LET mine  == {j \in 1 .. i : s[j].line = s[i].line}
             first == CHOOSE j \in mine : \A m \in mine : j <= m
             turn  == s[i].turned - s[first].turned
         IN  turn < 2 * FullTurn /\ NoGap(s, mine) => Pre!YawTimes(s)[i] = turn
<1> DEFINE l == s[i].line
           mine == OfLine(s, i, l)
           first == CHOOSE j \in mine : \A m \in mine : j <= m
<1>1. l \in Pre!Lines /\ i \in mine /\ mine \subseteq 1 .. i /\ i \in Nat  BY DEF OfLine
<1>2. LineKnown(s, i, l)  BY <1>1, LinesKnown
<1>3. PICK f \in mine, newest \in mine :
        /\ \A j \in mine : f <= j /\ j <= newest
        /\ NoGap(s, mine) /\ s[newest].turned - s[f].turned < 2 * FullTurn
             => Pre!Known(s)[i][l].time_last = s[newest].turned - s[f].turned
  BY <1>1, <1>2 DEF LineKnown
<1>4. newest = i  BY <1>1, <1>3
<1>5. first = f
  <2>1. \A j \in mine : (\A m \in mine : j <= m) => j = f  BY <1>1, <1>3
  <2> HIDE DEF mine
  <2>2. QED  BY <1>3, <2>1
<1>6. Pre!YawTimes(s)[i] = Pre!Known(s)[i][l].time_last  BY DEF Pre!YawTimes
<1> HIDE DEF first
<1>7. s[i].turned - s[first].turned < 2 * FullTurn /\ NoGap(s, mine)
        => Pre!YawTimes(s)[i] = s[i].turned - s[first].turned
  BY <1>3, <1>4, <1>5, <1>6
<1>8. QED  BY <1>7 DEF first, OfLine

(* The points put out are points of the scan, with their times.              *)
LEMMA SurfValues ==
  ASSUME NEW s \in Seq(Pre!Point), NEW S, NEW times
  PROVE  LET surf == Pre!Surf(Pre!Indices(s, S), times)
         IN  \A k \in DOMAIN surf : /\ surf[k].index \in 1 .. Len(s)
                                    /\ surf[k].time = times[surf[k].index]
<1> DEFINE all == [i \in 1 .. Len(s) |-> i]
           indices == Pre!Indices(s, S)
<1>1. all \in Seq(1 .. Len(s))  OBVIOUS
<1>2. indices = Select(all, S)  BY DEF Pre!Indices, Pre!Select, Pre!Kept, Select, Kept
<1> HIDE DEF all, indices
<1>3. indices \in Seq(1 .. Len(s))
  <2>1. indices \in Seq((1 .. Len(s)) \cap S)  BY <1>1, <1>2, SelectType
  <2>2. QED  BY <2>1
<1>4. \A k \in DOMAIN indices : indices[k] \in 1 .. Len(s)  BY <1>3
<1>5. QED  BY <1>4 DEF Pre!Surf, indices

(* What arrives, and how the node is set, does not change.                   *)
Given == scan \in RawScans /\ setting \in RawSettings

(* No step of the preprocessing changes them.                                *)
LEMMA GivenStep == Given /\ [Pre!Next]_(Pre!vars) => Given'
<1> SUFFICES ASSUME Given, [Pre!Next]_(Pre!vars) PROVE Given'  OBVIOUS
<1>1. UNCHANGED <<scan, setting>>
  BY DEF Pre!Next, Pre!vars, Pre!Filter, Pre!Sort, Pre!GiveFeature, Pre!FindPlanes, Pre!FindEdges,
         Pre!FindSmallPlanes, Pre!Output, Pre!NextLine, Pre!Stays
<1>2. QED  BY <1>1 DEF Given

(* The times put out are those at which the points of s were measured.       *)
TimesRight(s, surf) ==
  \A k \in DOMAIN surf :
    LET i     == surf[k].index
        mine  == {j \in 1 .. i : s[j].line = s[i].line}
        first == CHOOSE j \in mine : \A m \in mine : j <= m
        turn  == s[i].turned - s[first].turned
    IN  turn < 2 * FullTurn /\ NoGap(s, mine) => surf[k].time = turn
MadeUp(settings, s) == \/ settings.lidar_type = "MID360"
                       \/ settings.lidar_type = "VELO16" /\ ~Pre!given_offset_time(s)

(* The property of the times in these words, before a step and after it.     *)
LEMMA TimesMeaning ==
  TimesFollowRotation <=>
    (pl_surf \notin {NULL, << >>} /\ MadeUp(setting, scan) => TimesRight(scan, pl_surf))
BY DEF TimesFollowRotation, Pre!TimesFollowRotation, Pre!given_offset_time, MadeUp, TimesRight, NoGap

(* The same of the next state.                                               *)
LEMMA TimesMeans ==
  TimesFollowRotation' <=>
    (pl_surf' \notin {NULL, << >>} /\ MadeUp(setting', scan') => TimesRight(scan', pl_surf'))
BY DEF TimesFollowRotation, Pre!TimesFollowRotation, Pre!given_offset_time, MadeUp, TimesRight, NoGap

(* Filter puts out points with their times.                                 *)
LEMMA FilterTimes == Given /\ Pre!Filter => TimesFollowRotation'
<1> SUFFICES ASSUME Given, Pre!Filter PROVE TimesFollowRotation'  OBVIOUS
<1>1. UNCHANGED <<scan, setting>>  BY DEF Pre!Filter
<1> SUFFICES ASSUME MadeUp(setting, scan) PROVE TimesRight(scan, pl_surf')
  BY <1>1, TimesMeans
<1>2. scan \in Seq(Pre!Point) /\ Pre!Clockwise(scan)
  BY StagesAssumption DEF Given, Pre!PreprocessAssumption
<1>3. \A i \in 1 .. Len(scan) : scan[i].line \in Pre!Lines
  <2>1. DOMAIN scan = 1 .. Len(scan)  BY <1>2
  <2>2. QED  BY <2>1 DEF MadeUp, Pre!Filter, Pre!LineOutside
<1>4. PICK S : pl_surf' = Pre!Surf(Pre!Indices(scan, S), Pre!YawTimes(scan))
  BY DEF MadeUp, Pre!Filter, Pre!mid360_handler, Pre!velodyne_handler
<1>5. \A k \in DOMAIN pl_surf' : /\ pl_surf'[k].index \in 1 .. Len(scan)
                                 /\ pl_surf'[k].time = Pre!YawTimes(scan)[pl_surf'[k].index]
  BY <1>2, <1>4, SurfValues
<1>6. ASSUME NEW k \in DOMAIN pl_surf'
      PROVE  LET i     == pl_surf'[k].index
                 mine  == {j \in 1 .. i : scan[j].line = scan[i].line}
                 first == CHOOSE j \in mine : \A m \in mine : j <= m
                 turn  == scan[i].turned - scan[first].turned
             IN  turn < 2 * FullTurn /\ NoGap(scan, mine) => pl_surf'[k].time = turn
  BY <1>2, <1>3, <1>5, TimesFound
<1>7. QED  BY <1>6 DEF TimesRight

(* Times made up from directions are those at which the points were          *)
(* measured, whatever the scan: while a line has turned less than twice and  *)
(* no gap hides a turn.                                                      *)
THEOREM TimesFollow == Pre!Spec => []TimesFollowRotation
<1>1. Pre!Init => Given /\ TimesFollowRotation
  BY DEF Pre!Init, Given, TimesFollowRotation, Pre!TimesFollowRotation
<1>2. Given /\ TimesFollowRotation /\ [Pre!Next]_(Pre!vars) => TimesFollowRotation'
  <2> SUFFICES ASSUME Given, TimesFollowRotation, [Pre!Next]_(Pre!vars) PROVE TimesFollowRotation'
    OBVIOUS
  <2>1. CASE Pre!Filter  BY <2>1, FilterTimes
  <2>2. CASE Pre!Sort  BY <2>2, TimesMeans DEF Pre!Sort
  <2>3. CASE UNCHANGED <<scan, setting, pl_surf>>
    <3>1. pl_surf' = pl_surf /\ setting' = setting /\ scan' = scan  BY <2>3
    <3>2. MadeUp(setting', scan') <=> MadeUp(setting, scan)  BY <3>1
    <3>3. TimesRight(scan', pl_surf') <=> TimesRight(scan, pl_surf)  BY <3>1
    <3>4. QED  BY <3>1, <3>2, <3>3, TimesMeaning, TimesMeans
  <2>4. Pre!Filter \/ Pre!Sort \/ UNCHANGED <<scan, setting, pl_surf>>
    BY DEF Pre!Next, Pre!vars, Pre!GiveFeature, Pre!FindPlanes, Pre!FindEdges,
           Pre!FindSmallPlanes, Pre!Output, Pre!NextLine, Pre!Stays
  <2>5. QED  BY <2>1, <2>2, <2>3, <2>4
<1>3. QED  BY <1>1, <1>2, GivenStep, PTL DEF Pre!Spec

(* The types of points that are used.                                        *)
Ftypes == {"Nor", "Poss_Plane", "Real_Plane", "Edge_Jump", "Edge_Plane", "Wire"}

(* What the loop of the output has done with the points up to "upto": each  *)
(* point of a plane is in one group, and nothing else is.                    *)
Grouped(ftype, n, head, upto, surf) ==
  /\ surf \in Seq(SUBSET (1 .. Len(ftype)))
  /\ \A i \in 1 .. Len(ftype) :
       LET groups == {g \in DOMAIN surf : i \in surf[g]}
       IN  IF ftype[i] \in Pre!Planes /\ i >= head /\ i < upto
           THEN \E g \in groups : groups = {g}
           ELSE groups = {}
  /\ \A g \in DOMAIN surf : surf[g] # {} /\ \A i, j \in surf[g] : i - j < n

(* A group that goes on where the others end.                               *)
LEMMA GroupAdded ==
  ASSUME NEW ftype \in Seq(Ftypes), NEW n \in Nat, NEW head \in Nat, NEW upto \in Nat \ {0},
         NEW hi \in 1 .. Len(ftype), NEW surf, Grouped(ftype, n, head, upto, surf),
         head <= upto, upto <= hi, hi - upto < n, \A i \in upto .. hi : ftype[i] \in Pre!Planes
  PROVE  Grouped(ftype, n, head, hi + 1, Append(surf, upto .. hi))
<1> DEFINE N == Len(ftype)
           G == upto .. hi
           L == Len(surf)
           more == Append(surf, G)
           Groups(q, i) == {g \in DOMAIN q : i \in q[g]}
<1>1. N \in Nat /\ hi <= N /\ G \subseteq 1 .. N /\ surf \in Seq(SUBSET (1 .. N))  BY DEF Grouped
<1>2. /\ more \in Seq(SUBSET (1 .. N)) /\ L \in Nat
      /\ DOMAIN surf = 1 .. L /\ DOMAIN more = 1 .. L + 1
      /\ more[L + 1] = G /\ \A g \in 1 .. L : more[g] = surf[g]
  <2>1. G \in SUBSET (1 .. N)  BY <1>1
  <2> HIDE DEF G, N
  <2>2. QED  BY <1>1, <2>1
<1>3. \A i \in 1 .. N : /\ i \notin G => Groups(more, i) = Groups(surf, i)
                        /\ i \in G /\ Groups(surf, i) = {} => Groups(more, i) = {L + 1}
  <2> HIDE DEF G, N, L, more
  <2>1. \A g : g \in 1 .. L + 1 <=> g \in 1 .. L \/ g = L + 1  BY <1>2
  <2>2. QED  BY <1>2, <2>1
<1>4. ASSUME NEW i \in 1 .. N
      PROVE  IF ftype[i] \in Pre!Planes /\ i >= head /\ i < hi + 1
             THEN \E g \in Groups(more, i) : Groups(more, i) = {g}
             ELSE Groups(more, i) = {}
  <2>1. IF ftype[i] \in Pre!Planes /\ i >= head /\ i < upto
        THEN \E g \in Groups(surf, i) : Groups(surf, i) = {g}
        ELSE Groups(surf, i) = {}
    BY DEF Grouped
  <2>2. CASE i \in G
    <3>1. Groups(surf, i) = {}  BY <2>1, <2>2
    <3>2. Groups(more, i) = {L + 1}  BY <1>3, <2>2, <3>1
    <3>3. ftype[i] \in Pre!Planes /\ i >= head /\ i < hi + 1  BY <2>2
    <3> HIDE DEF Groups
    <3>4. QED  BY <3>2, <3>3
  <2>3. CASE i \notin G
    <3>1. Groups(more, i) = Groups(surf, i)  BY <1>3, <2>3
    <3>2. i < hi + 1 <=> i < upto  BY <1>1, <2>3
    <3> HIDE DEF Groups
    <3>3. QED  BY <2>1, <3>1, <3>2
  <2>4. QED  BY <2>2, <2>3
<1>5. ASSUME NEW g \in DOMAIN more  PROVE more[g] # {} /\ \A i, j \in more[g] : i - j < n
  <2>1. CASE g \in 1 .. L
    <3>1. g \in DOMAIN surf /\ more[g] = surf[g]  BY <1>2, <2>1
    <3>2. QED  BY <3>1 DEF Grouped
  <2>2. CASE g = L + 1
    <3>1. upto \in G /\ \A i, j \in G : i - j < n  BY <1>1
    <3>2. more[g] = G  BY <1>2, <2>2
    <3>3. QED  BY <3>1, <3>2
  <2>3. QED  BY <1>2, <2>1, <2>2
<1>6. QED  BY <1>2, <1>4, <1>5 DEF Grouped

(* A point that is not of a plane is in no group.                           *)
LEMMA GroupsSkip ==
  ASSUME NEW ftype, NEW n, NEW head, NEW upto \in Nat, NEW surf,
         Grouped(ftype, n, head, upto, surf), ftype[upto] \notin Pre!Planes
  PROVE  Grouped(ftype, n, head, upto + 1, surf)
BY SMTT(30) DEF Grouped

(* The loop after a point: the run it is in, and what it has put out.        *)
PutOut(ftype, n, head, k, out) ==
  /\ out \in [surf : Seq(SUBSET (1 .. Len(ftype))), corn : Seq(Nat), last_surface : Nat]
  /\ LET run == out.last_surface
     IN  /\ run # 0 => /\ head <= run /\ run <= k /\ k - run + 1 < n
                       /\ \A i \in run .. k : ftype[i] \in Pre!Planes
         /\ Grouped(ftype, n, head, IF run = 0 THEN k + 1 ELSE run, out.surf)

(* The loop keeps the run it is in and the groups apart.                     *)
LEMMA OutputStepKeeps ==
  ASSUME NEW ftype \in Seq(Ftypes), NEW n \in Nat \ {0}, NEW head \in Nat \ {0},
         NEW k \in 1 .. Len(ftype), head <= k, NEW out, PutOut(ftype, n, head, k - 1, out)
  PROVE  PutOut(ftype, n, head, k, Pre!OutputStep(ftype, n, out, k))
<1> DEFINE N == Len(ftype)
           Out == [surf : Seq(SUBSET (1 .. N)), corn : Seq(Nat), last_surface : Nat]
           run == out.last_surface
           start == IF run = 0 THEN k ELSE run
           next == Pre!OutputStep(ftype, n, out, k)
           Record(surf, corn, last) == [surf |-> surf, corn |-> corn, last_surface |-> last]
<1>1. /\ out \in Out /\ run \in Nat /\ N \in Nat /\ k \in Nat \ {0} /\ k <= N
      /\ out.surf \in Seq(SUBSET (1 .. N)) /\ out.corn \in Seq(Nat)
      /\ start \in Nat \ {0} /\ start <= k /\ head <= start
      /\ \A i \in start .. k - 1 : ftype[i] \in Pre!Planes
      /\ Grouped(ftype, n, head, start, out.surf)
      /\ run # 0 => run <= k - 1 /\ k - run < n
  BY DEF PutOut
<1>2. ASSUME NEW surf \in Seq(SUBSET (1 .. N)), NEW last
      PROVE  /\ [out EXCEPT !.surf = surf, !.last_surface = last] = Record(surf, out.corn, last)
             /\ [out EXCEPT !.last_surface = last] = Record(out.surf, out.corn, last)
  <2>1. out \in [surf : Seq(SUBSET (1 .. N)), corn : Seq(Nat), last_surface : Nat]  BY <1>1
  <2> DEFINE A == Seq(SUBSET (1 .. N))
             B == Seq(Nat)
             C == Nat
  <2>2. out \in [surf : A, corn : B, last_surface : C] /\ surf \in A  BY <2>1
  <2> HIDE DEF A, B, C
  <2>3. ASSUME NEW q \in [surf : A, corn : B, last_surface : C]
        PROVE  [q EXCEPT !.last_surface = last] = Record(q.surf, q.corn, last)
    OBVIOUS
  <2> DEFINE first == [out EXCEPT !.surf = surf]
  <2>4. /\ first \in [surf : A, corn : B, last_surface : C]
        /\ first.surf = surf /\ first.corn = out.corn
    BY <2>2
  <2>5. [out EXCEPT !.surf = surf, !.last_surface = last] = [first EXCEPT !.last_surface = last]
    OBVIOUS
  <2> HIDE DEF first, Record
  <2>6. QED  BY <2>2, <2>3, <2>4, <2>5
<1>3. \A surf, corn, last : Record(surf, corn, last).surf = surf /\ Record(surf, corn, last).last_surface = last
  OBVIOUS
<1>4. \A surf \in Seq(SUBSET (1 .. N)), corn \in Seq(Nat), last \in Nat : Record(surf, corn, last) \in Out
  OBVIOUS
<1>5. CASE ftype[k] \in Pre!Planes /\ k = start + n - 1
  <2> DEFINE surf == Append(out.surf, start .. k)
  <2>1. Grouped(ftype, n, head, k + 1, surf)
    <3>1. \A i \in start .. k : ftype[i] \in Pre!Planes  BY <1>1, <1>5
    <3>2. k - start < n  BY <1>1, <1>5
    <3> HIDE DEF start
    <3>3. QED  BY <1>1, <3>1, <3>2, GroupAdded
  <2>2. surf \in Seq(SUBSET (1 .. N))  BY <2>1 DEF Grouped
  <2>3. next = Record(surf, out.corn, 0)
    <3>1. next = [out EXCEPT !.surf = surf, !.last_surface = 0]  BY <1>5 DEF Pre!OutputStep
    <3> HIDE DEF surf, next, Record, Out
    <3>2. 0 \in Nat  OBVIOUS
    <3>3. QED  BY <1>1, <1>2, <2>2, <3>1, <3>2
  <2> HIDE DEF surf, next, Record, Out
  <2>4. next.last_surface = 0 /\ next.surf = surf /\ next \in Out
    <3>1. next.last_surface = 0 /\ next.surf = surf  BY <1>3, <2>3
    <3>2. next \in Out  BY <1>1, <1>4, <2>2, <2>3
    <3>3. QED  BY <3>1, <3>2
  <2>5. QED  BY <2>1, <2>4 DEF PutOut, Out, next
<1>6. CASE ftype[k] \in Pre!Planes /\ k # start + n - 1
  <2>1. next = Record(out.surf, out.corn, start)
    <3>1. next = [out EXCEPT !.last_surface = start]  BY <1>6 DEF Pre!OutputStep
    <3> HIDE DEF next, Record, Out, start
    <3>2. QED  BY <1>1, <1>2, <3>1
  <2>2. k - start + 1 < n /\ \A i \in start .. k : ftype[i] \in Pre!Planes
    <3>1. k - start < n  BY <1>1
    <3>2. k - start # n - 1  BY <1>1, <1>6
    <3> HIDE DEF start
    <3>3. k - start + 1 < n  BY <1>1, <3>1, <3>2
    <3>4. \A i \in start .. k : i = k \/ i \in start .. k - 1  BY <1>1
    <3>5. QED  BY <1>1, <1>6, <3>3, <3>4
  <2> HIDE DEF next, Record, Out, start
  <2>3. next.last_surface = start /\ next.surf = out.surf /\ next \in Out
    <3>1. start \in Nat  BY <1>1
    <3>2. next.last_surface = start /\ next.surf = out.surf  BY <1>3, <2>1
    <3>3. next \in Out  BY <1>1, <1>4, <2>1, <3>1
    <3>4. QED  BY <3>2, <3>3
  <2>4. QED  BY <1>1, <2>2, <2>3 DEF PutOut, Out, next, start
<1>7. CASE ftype[k] \notin Pre!Planes
  <2> DEFINE surf == IF run # 0 THEN Append(out.surf, start .. k - 1) ELSE out.surf
             corn == IF ftype[k] \in Pre!Edges THEN Append(out.corn, k) ELSE out.corn
  <2>1. next = Record(surf, corn, 0)  BY <1>7 DEF Pre!OutputStep
  <2>2. Grouped(ftype, n, head, k, surf)
    <3>1. CASE run = 0  BY <1>1, <3>1
    <3>2. CASE run # 0
      <4>1. start = run /\ k - 1 \in 1 .. N /\ start <= k - 1 /\ (k - 1) - start < n /\ (k - 1) + 1 = k
        BY <1>1, <3>2
      <4> HIDE DEF start, run
      <4>2. Grouped(ftype, n, head, (k - 1) + 1, Append(out.surf, start .. k - 1))
        BY <1>1, <4>1, GroupAdded
      <4>3. QED  BY <3>2, <4>1, <4>2
    <3>3. QED  BY <3>1, <3>2
  <2>3. corn \in Seq(Nat)  BY <1>1
  <2> HIDE DEF surf, corn, next, Record, Out
  <2>4. Grouped(ftype, n, head, k + 1, surf) /\ surf \in Seq(SUBSET (1 .. N))
    <3>1. k \in Nat  BY <1>1
    <3>2. Grouped(ftype, n, head, k + 1, surf)  BY <1>7, <2>2, <3>1, GroupsSkip, Zenon
    <3>3. QED  BY <3>2 DEF Grouped
  <2>5. next.last_surface = 0 /\ next.surf = surf /\ next \in Out  BY <1>3, <1>4, <2>1, <2>3, <2>4
  <2>6. QED  BY <2>4, <2>5 DEF PutOut, Out, next
<1>8. QED  BY <1>5, <1>6, <1>7

(* What the loop has put out after the last point.                           *)
LEMMA AllPutOut ==
  ASSUME NEW ftype \in Seq(Ftypes), NEW n \in Nat \ {0}, NEW head \in Nat \ {0}
  PROVE  PutOut(ftype, n, head, Len(ftype), Pre!Outputs(ftype, n, head)[Len(ftype)])
<1> DEFINE N == Len(ftype)
           Out == [surf : Seq(SUBSET (1 .. N)), corn : Seq(Nat), last_surface : Nat]
           Good(k) == {out \in Out : PutOut(ftype, n, head, k, out)}
           none == [surf |-> << >>, corn |-> << >>, last_surface |-> 0]
           More(k, out) == IF k < head THEN none ELSE Pre!OutputStep(ftype, n, out, k)
           Step == [k \in 1 .. N |-> [out \in Out |-> IF out \in Good(k - 1) THEN More(k, out) ELSE none]]
           Solves(f) == f = [k \in 0 .. N |-> IF k < head THEN none
                                              ELSE Pre!OutputStep(ftype, n, f[k - 1], k)]
<1>1. N \in Nat /\ none \in Out  OBVIOUS
<1>2. ASSUME NEW k \in 0 .. N, k < head  PROVE none \in Good(k)
  <2>1. none.last_surface = 0 /\ none.surf = << >> /\ << >> \in Seq(SUBSET (1 .. N)) /\ DOMAIN << >> = {}
    OBVIOUS
  <2>2. Grouped(ftype, n, head, k + 1, << >>)
    <3>1. \A i \in 1 .. N : ~(i >= head /\ i < k + 1)  BY <1>2
    <3>2. QED  BY <2>1, <3>1 DEF Grouped
  <2> HIDE DEF none
  <2>3. PutOut(ftype, n, head, k, none)  BY <1>1, <2>1, <2>2 DEF PutOut
  <2>4. QED  BY <1>1, <2>3
<1>3. ASSUME NEW k \in 1 .. N, NEW out \in Good(k - 1)  PROVE More(k, out) \in Good(k)
  <2>1. CASE k < head  BY <1>1, <1>2, <2>1
  <2>2. CASE k >= head
    <3>1. PutOut(ftype, n, head, k, Pre!OutputStep(ftype, n, out, k))  BY <1>3, <2>2, OutputStepKeeps
    <3>2. Pre!OutputStep(ftype, n, out, k) \in Out  BY <3>1 DEF PutOut
    <3>3. ~(k < head)  BY <1>1, <2>2
    <3> HIDE DEF Out
    <3>4. QED  BY <3>1, <3>2, <3>3
  <2>3. QED  BY <1>1, <2>1, <2>2
<1>4. PICK f \in [0 .. N -> Out] : Recurs(f, N, none, Step)
  <2>1. ASSUME NEW k \in 1 .. N, NEW out \in Out
        PROVE  (IF out \in Good(k - 1) THEN More(k, out) ELSE none) \in Out
    <3>1. CASE out \in Good(k - 1)
      <4>1. More(k, out) \in Good(k)  BY <1>3, <3>1
      <4> HIDE DEF More
      <4>2. QED  BY <3>1, <4>1
    <3>2. CASE out \notin Good(k - 1)  BY <1>1, <3>2
    <3>3. QED  BY <3>1, <3>2
  <2> HIDE DEF N, Out, none, More, Good
  <2>2. Step \in [1 .. N -> [Out -> Out]]  BY <2>1
  <2> HIDE DEF Step
  <2>3. QED  BY <1>1, <2>2, Recursion
<1>5. \A k \in 1 .. N, out \in Out : Step[k][out] = IF out \in Good(k - 1) THEN More(k, out) ELSE none
  <2> HIDE DEF N, Out, none, More, Good
  <2>1. QED  OBVIOUS
<1>6. f[0] = none /\ \A k \in 1 .. N : f[k - 1] \in Out /\ f[k] = Step[k][f[k - 1]]
  <2> HIDE DEF N, Out, none, Step
  <2>1. \A k \in 1 .. N : k - 1 \in 0 .. N  BY <1>1
  <2>2. QED  BY <1>4, <2>1 DEF Recurs
<1> HIDE DEF Step
<1>7. \A k \in 0 .. N : f[k] \in Good(k)
  <2> DEFINE T == {k \in 0 .. N : f[k] \in Good(k)}
  <2>1. 0 \in T
    <3>1. 0 \in 0 .. N /\ 0 < head  BY <1>1
    <3>2. none \in Good(0)  BY <1>2, <3>1
    <3> HIDE DEF none, Good
    <3>3. QED  BY <1>6, <3>1, <3>2
  <2>2. ASSUME NEW k \in 1 .. N, k - 1 \in T  PROVE k \in T
    <3>1. f[k - 1] \in Good(k - 1) /\ f[k - 1] \in Out  BY <1>6, <2>2
    <3>2. More(k, f[k - 1]) \in Good(k)  BY <1>3, <3>1
    <3> HIDE DEF none, Good, More, Out
    <3>3. f[k] = More(k, f[k - 1])  BY <1>5, <1>6, <3>1
    <3>4. k \in 0 .. N  BY <1>1
    <3>5. QED  BY <3>2, <3>3, <3>4
  <2> HIDE DEF T
  <2>3. \A k \in 0 .. N : k \in T  BY <1>1, <2>1, <2>2, Induction
  <2>4. QED  BY <2>3 DEF T
<1>8. Solves(f)
  <2>1. ASSUME NEW k \in 0 .. N
        PROVE  f[k] = IF k < head THEN none ELSE Pre!OutputStep(ftype, n, f[k - 1], k)
    <3>1. CASE k = 0
      <4>1. k < head  BY <3>1
      <4> HIDE DEF none
      <4>2. QED  BY <1>6, <3>1, <4>1
    <3>2. CASE k # 0
      <4>1. k \in 1 .. N /\ k - 1 \in 0 .. N  BY <1>1, <3>2
      <4>2. f[k - 1] \in Good(k - 1) /\ f[k - 1] \in Out  BY <1>6, <1>7, <4>1
      <4>3. f[k] = More(k, f[k - 1])
        <5> HIDE DEF none, Good, More, Out
        <5>1. QED  BY <1>5, <1>6, <4>1, <4>2
      <4> HIDE DEF none
      <4>4. QED  BY <4>3
    <3>3. QED  BY <3>1, <3>2
  <2> HIDE DEF none
  <2>2. QED  BY <2>1
<1> DEFINE F == Pre!Outputs(ftype, n, head)
<1>9. Solves(F)
  <2>1. F = CHOOSE g : Solves(g)  BY DEF Pre!Outputs
  <2> HIDE DEF Solves, F
  <2>2. QED  BY <1>8, <2>1
<1>10. \A k \in 0 .. N : F[k] = IF k < head THEN none ELSE Pre!OutputStep(ftype, n, F[k - 1], k)
  <2> HIDE DEF F, none, N
  <2>1. QED  BY <1>9
<1> HIDE DEF F
<1>11. F[0] = none /\ \A k \in 1 .. N : F[k] = More(k, F[k - 1])
  <2>1. 0 \in 0 .. N /\ 0 < head /\ \A k \in 1 .. N : k \in 0 .. N  BY <1>1
  <2> HIDE DEF none, N
  <2>2. QED  BY <1>10, <2>1
<1>12. \A k \in 0 .. N : F[k] \in Good(k)
  <2> DEFINE T == {k \in 0 .. N : F[k] \in Good(k)}
  <2>1. 0 \in T
    <3>1. 0 \in 0 .. N /\ 0 < head  BY <1>1
    <3>2. none \in Good(0)  BY <1>2, <3>1
    <3> HIDE DEF none, Good
    <3>3. QED  BY <1>11, <3>1, <3>2
  <2>2. ASSUME NEW k \in 1 .. N, k - 1 \in T  PROVE k \in T
    <3>1. F[k - 1] \in Good(k - 1)  BY <2>2
    <3>2. More(k, F[k - 1]) \in Good(k)  BY <1>3, <3>1
    <3> HIDE DEF none, Good, More, Out
    <3>3. k \in 0 .. N  BY <1>1
    <3>4. QED  BY <1>11, <3>2, <3>3
  <2> HIDE DEF T
  <2>3. \A k \in 0 .. N : k \in T  BY <1>1, <2>1, <2>2, Induction
  <2>4. QED  BY <2>3 DEF T
<1>13. N \in 0 .. N  BY <1>1
<1> HIDE DEF Out
<1>14. QED  BY <1>12, <1>13 DEF F

(* A line at work: its types fit it, and no point inside the blind range is  *)
(* taken for a part of a plane.                                             *)
AtWork == {"planes", "edges", "small", "output"}
Working(work, line) ==
  /\ work \in [at : AtWork, i : Nat, head : Nat \ {0}, last_state : {0, 1}, straight : SUBSET Nat,
               ftype : [DOMAIN line -> Ftypes]]
  /\ \A i \in DOMAIN line : work.ftype[i] \in Pre!Planes => ~line[i]

(* What holds of the lines still to be looked at and of the one at work.     *)
FeatureInv ==
  /\ pl_buff # NULL => pl_surf = << >>
  /\ types # NULL =>
       /\ pl_buff # NULL /\ pl_buff # << >>
       /\ types.at \in AtWork \cup {"finished", "outside"}
       /\ types.at \in AtWork => Working(types, Head(pl_buff))
  /\ pl_buff # NULL => pl_buff \in Seq(Seq(BOOLEAN))

(* At first there are none.                                                  *)
LEMMA FeatureInit == Pre!Init => FeatureInv
BY DEF Pre!Init, FeatureInv

(* The lines given to give_feature are lines of marks.                       *)
LEMMA SortedLines ==
  ASSUME NEW s \in Seq(Pre!Point), NEW lidar_type
  PROVE  Pre!Buffers(s, lidar_type) \in Seq(Seq(BOOLEAN))
<1> DEFINE all == [i \in 1 .. Len(s) |-> i]
           In(l) == {i \in DOMAIN s : s[i].line = l /\ Pre!InBuffer(s, i, lidar_type)}
           lines == [l \in 1 .. N_SCANS |-> Pre!Buffer(s, l - 1, lidar_type)]
           Long == {line \in {lines[l] : l \in 1 .. N_SCANS} : Pre!LongEnough(line, lidar_type)}
<1>1. N_SCANS \in Nat /\ all \in Seq(1 .. Len(s)) /\ \A i \in 1 .. Len(s) : s[i].near \in BOOLEAN
  <2>1. \A i \in 1 .. Len(s) : s[i] \in Pre!Point  OBVIOUS
  <2>2. \A p \in Pre!Point : p.near \in BOOLEAN  BY DEF Pre!Point
  <2>3. QED  BY <2>1, <2>2, StagesAssumption DEF Pre!PreprocessAssumption
<1>2. ASSUME NEW l  PROVE Pre!Buffer(s, l, lidar_type) \in Seq(BOOLEAN)
  <2> DEFINE in == Pre!Indices(s, In(l))
  <2>1. in = Select(all, In(l))  BY DEF Pre!Indices, Pre!Select, Pre!Kept, Select, Kept
  <2>2. Pre!Buffer(s, l, lidar_type) = [k \in DOMAIN in |-> s[in[k]].near]  BY DEF Pre!Buffer
  <2> HIDE DEF all, in, In
  <2>3. in \in Seq((1 .. Len(s)) \cap In(l))  BY <1>1, <2>1, SelectType
  <2>4. in \in Seq(1 .. Len(s))  BY <2>3
  <2>5. \A k \in DOMAIN in : in[k] \in 1 .. Len(s)  BY <2>4
  <2>6. DOMAIN in = 1 .. Len(in) /\ Len(in) \in Nat  BY <2>4
  <2>7. QED  BY <1>1, <2>2, <2>5, <2>6
<1>3. lines \in Seq(Seq(BOOLEAN))  BY <1>1, <1>2
<1>4. Pre!Buffers(s, lidar_type) = Select(lines, Long)
  BY DEF Pre!Buffers, Pre!Select, Pre!Kept, Select, Kept
<1> HIDE DEF lines, Long
<1>5. Select(lines, Long) \in Seq(Seq(BOOLEAN) \cap Long)  BY <1>3, SelectType
<1>6. QED  BY <1>4, <1>5

(* The least number of a set is one of it.                                   *)
LEMMA LeastChosen ==
  ASSUME NEW T \in SUBSET Nat, T # {}
  PROVE  (CHOOSE n \in T : \A m \in T : n <= m) \in T
<1>1. \E n \in T : \A m \in T : n <= m  BY LeastNumber
<1>2. QED  BY <1>1

(* A step of give_feature that keeps the line.                               *)
LEMMA LineStays ==
  ASSUME FeatureInv, types # NULL, Pre!Stays, types'.at \in AtWork \cup {"finished", "outside"},
         types'.at \in AtWork => Working(types', Head(pl_buff))
  PROVE  FeatureInv'
BY DEF FeatureInv, Pre!Stays, Working

(* The points of a plane that was judged one are beyond the blind range.     *)
LEMMA JudgedInView ==
  ASSUME pl_buff \in Seq(Seq(BOOLEAN)), pl_buff # << >>, NEW i \in Nat, NEW judged \in Pre!plane_judge(i)
  PROVE  /\ judged.i_nex \in Nat /\ (judged.plane => i < judged.i_nex)
         /\ judged.plane /\ judged.i_nex <= Len(Pre!Line) => \A j \in i .. judged.i_nex : ~Pre!Line[j]
<1> DEFINE line == Pre!Line
           near == {j \in i .. i + group_size - 1 : line[j]}
           ends == {j \in i + group_size .. Len(line) + 1 : \A k \in i + group_size .. j - 1 : ~line[k]}
           flat == {j \in ends : j > Len(line) \/ ~line[j]}
<1>1. line \in Seq(BOOLEAN) /\ group_size \in Nat \ {0}
  BY StagesAssumption DEF Pre!Line, Pre!PreprocessAssumption
<1>2. Pre!plane_judge(i) =
        IF near # {} THEN {[plane |-> FALSE, i_nex |-> CHOOSE j \in near : \A k \in near : j <= k]}
        ELSE [plane : {FALSE}, i_nex : ends] \cup [plane : {TRUE}, i_nex : flat]
  BY DEF Pre!plane_judge, Pre!Near
<1>3. near \subseteq Nat /\ ends \subseteq Nat /\ flat \subseteq ends  BY <1>1
<1> HIDE DEF line
<1>4. CASE near # {}
  <2>1. (CHOOSE j \in near : \A k \in near : j <= k) \in near  BY <1>3, <1>4, LeastChosen
  <2> HIDE DEF near, ends, flat
  <2>2. judged = [plane |-> FALSE, i_nex |-> CHOOSE j \in near : \A k \in near : j <= k]
    BY <1>2, <1>4
  <2>3. QED  BY <1>3, <2>1, <2>2
<1>5. CASE near = {}
  <2>1. judged \in [plane : {FALSE}, i_nex : ends] \cup [plane : {TRUE}, i_nex : flat]
    <3> HIDE DEF near, ends, flat
    <3>1. QED  BY <1>2, <1>5
  <2>2. judged.i_nex \in ends /\ (judged.plane => judged.i_nex \in flat)
    <3> HIDE DEF near, ends, flat
    <3>1. QED  BY <1>3, <2>1
  <2>3. ASSUME judged.plane, judged.i_nex <= Len(line), NEW j \in i .. judged.i_nex
        PROVE  ~line[j]
    <3>1. judged.i_nex \in Nat /\ Len(line) \in Nat  BY <1>1, <1>3, <2>2
    <3>2. CASE j \in i .. i + group_size - 1  BY <1>5, <3>2
    <3>3. CASE j \in i + group_size .. judged.i_nex - 1  BY <2>2, <3>3
    <3>4. CASE j = judged.i_nex  BY <2>2, <2>3, <3>1, <3>4
    <3>5. QED  BY <1>1, <2>3, <3>1, <3>2, <3>3, <3>4
  <2>4. i < judged.i_nex /\ judged.i_nex \in Nat  BY <1>1, <1>3, <2>2
  <2>5. QED  BY <2>3, <2>4 DEF line
<1>6. QED  BY <1>4, <1>5

(* A plane that is judged to go on behind the line has its last point, which *)
(* is beyond the blind range.                                                *)
LEMMA OverrunInView ==
  ASSUME pl_buff \in Seq(Seq(BOOLEAN)), pl_buff # << >>, NEW i \in Nat, i <= Len(Pre!Line) - group_size,
         NEW judged \in Pre!plane_judge(i), judged.plane, judged.i_nex > Len(Pre!Line)
  PROVE  ~Pre!Line[Len(Pre!Line)]
<1> DEFINE line == Pre!Line
           N    == Len(line)
           near == {j \in i .. i + group_size - 1 : line[j]}
           ends == {j \in i + group_size .. N + 1 : \A k \in i + group_size .. j - 1 : ~line[k]}
           flat == {j \in ends : j > N \/ ~line[j]}
<1>1. line \in Seq(BOOLEAN) /\ N \in Nat /\ group_size \in Nat \ {0}
  BY StagesAssumption DEF Pre!Line, Pre!PreprocessAssumption
<1>2. Pre!plane_judge(i) =
        IF near # {} THEN {[plane |-> FALSE, i_nex |-> CHOOSE j \in near : \A k \in near : j <= k]}
        ELSE [plane : {FALSE}, i_nex : ends] \cup [plane : {TRUE}, i_nex : flat]
  BY DEF Pre!plane_judge, Pre!Near
<1>3. judged.i_nex \in ends
  <2>1. flat \subseteq ends  OBVIOUS
  <2> DEFINE first == CHOOSE j \in near : \A k \in near : j <= k
  <2> HIDE DEF near, ends, flat, first
  <2>2. near = {}
    <3>1. near # {} => judged = [plane |-> FALSE, i_nex |-> first]  BY <1>2 DEF first
    <3>2. near # {} => judged.plane = FALSE  BY <3>1
    <3>3. QED  BY <3>2, Zenon
  <2>3. judged \in [plane : {FALSE}, i_nex : ends] \cup [plane : {TRUE}, i_nex : flat]
    BY <1>2, <2>2
  <2>4. QED  BY <2>1, <2>3
<1>4. judged.i_nex > N /\ i <= N - group_size  OBVIOUS
<1> HIDE DEF line, N
<1>5. N \in i + group_size .. judged.i_nex - 1  BY <1>1, <1>3, <1>4
<1>6. ~line[N]  BY <1>3, <1>5
<1>7. QED  BY <1>6 DEF line, N

(* Of a line at work where it is and its types are changed.                  *)
LEMMA WorkGoesOn ==
  ASSUME NEW line, NEW work, Working(work, line), NEW at \in AtWork, NEW i \in Nat
  PROVE  /\ Working([work EXCEPT !.at = at, !.i = i], line)
         /\ Working([work EXCEPT !.at = at], line)
         /\ Working([work EXCEPT !.i = i], line)
         /\ \A last \in {0, 1} : Working([work EXCEPT !.i = i, !.last_state = last], line)
         /\ \A j \in Nat : Working([work EXCEPT !.i = i, !.straight = @ \cup {j}], line)
         /\ \A ftype \in [DOMAIN line -> Ftypes] :
              (\A j \in DOMAIN line : ftype[j] \in Pre!Planes => ~line[j]) =>
                /\ Working([work EXCEPT !.i = i, !.ftype = ftype], line)
                /\ \A last \in {0, 1} :
                     Working([work EXCEPT !.i = i, !.last_state = last, !.ftype = ftype], line)
<1> DEFINE Types == [DOMAIN line -> Ftypes]
           Works == [at : AtWork, i : Nat, head : Nat \ {0}, last_state : {0, 1}, straight : SUBSET Nat,
                     ftype : Types]
<1>1. work \in Works  BY DEF Working
<1>2. QED  BY <1>1 DEF Working

(* The steps of give_feature before the output.                              *)
Work == Pre!GiveFeature \/ Pre!FindPlanes \/ Pre!FindEdges \/ Pre!FindSmallPlanes

(* give_feature keeps the types of a line what they are meant to be, and     *)
(* reads on behind it only as StaysInside says.                              *)
LEMMA WorkStep ==
  Given /\ FeatureInv /\ Work => FeatureInv' /\ types'.at \in AtWork \cup {"outside"} /\ StaysInside'
<1> SUFFICES ASSUME Given, FeatureInv, Work
             PROVE  FeatureInv' /\ types'.at \in AtWork \cup {"outside"} /\ StaysInside'
  OBVIOUS
<1> DEFINE line == Pre!Line
           N == Len(line)
<1>1. ASSUME types # NULL
      PROVE  /\ pl_buff \in Seq(Seq(BOOLEAN)) /\ pl_buff # << >> /\ line = Head(pl_buff)
             /\ line \in Seq(BOOLEAN) /\ N \in Nat /\ DOMAIN line = 1 .. N
  <2>1. pl_buff \in Seq(Seq(BOOLEAN)) /\ pl_buff # << >>  BY <1>1 DEF FeatureInv
  <2>2. Head(pl_buff) \in Seq(BOOLEAN)  BY <2>1
  <2>3. QED  BY <2>1, <2>2 DEF Pre!Line
<1> DEFINE Left == (\A i \in DOMAIN line : line[i]) \/ ~line[N]
<1>7. /\ types'.at # "outside" => StaysInside'
      /\ Left /\ pl_buff' = pl_buff => StaysInside'
  BY DEF StaysInside, Pre!StaysInside, Pre!Near, Pre!Line
<1>2. CASE Pre!GiveFeature
  <2>1. pl_buff \in Seq(Seq(BOOLEAN)) /\ pl_buff # << >> /\ pl_buff # NULL /\ Pre!Stays
    BY <1>2 DEF Pre!GiveFeature, FeatureInv
  <2>2. line \in Seq(BOOLEAN) /\ line = Head(pl_buff)  BY <2>1 DEF Pre!Line
  <2> DEFINE beyond == {i \in DOMAIN line : ~line[i]}
             head == CHOOSE i \in beyond : \A j \in beyond : i <= j
             new == [at |-> "planes", i |-> head, head |-> head, last_state |-> 0, straight |-> {},
                     ftype |-> [i \in DOMAIN line |-> "Nor"]]
  <2>3. \/ beyond # {} /\ types' = new
        \/ beyond = {} /\ types' = [at |-> "outside"]
    BY <1>2 DEF Pre!GiveFeature, Pre!Outside, Pre!Near
  <2>4. CASE beyond # {} /\ types' = new
    <3>1. head \in beyond /\ beyond \subseteq Nat \ {0}
      <4>1. beyond \subseteq Nat \ {0}  BY <2>2
      <4>2. beyond \in SUBSET Nat  BY <4>1
      <4> HIDE DEF beyond
      <4>3. QED  BY <2>4, <4>1, <4>2, LeastChosen
    <3> HIDE DEF head, beyond, line
    <3>2. head \in Nat \ {0}  BY <3>1
    <3>3. Working(new, line)  BY <3>2 DEF Working, AtWork, Ftypes, Pre!Planes
    <3>4. types'.at = "planes"  BY <2>4
    <3>5. QED  BY <1>7, <2>1, <2>2, <2>4, <3>3, <3>4 DEF FeatureInv, Pre!Stays, AtWork, Working
  <2>5. CASE beyond = {} /\ types' = [at |-> "outside"]
    <3>1. Left /\ pl_buff' = pl_buff  BY <2>1, <2>5 DEF Pre!Stays
    <3> HIDE DEF Left
    <3>2. QED  BY <1>7, <2>1, <2>5, <3>1 DEF FeatureInv, Pre!Stays, AtWork
  <2>6. QED  BY <2>3, <2>4, <2>5
<1>3. CASE Pre!FindPlanes
  <2>1. types # NULL /\ types.at = "planes" /\ Pre!Stays  BY <1>3 DEF Pre!FindPlanes
  <2>2. Working(types, line)  BY <1>1, <2>1 DEF FeatureInv, AtWork
  <2>3. types.i \in Nat /\ types.head \in Nat /\ types.ftype \in [DOMAIN line -> Ftypes] /\ types.at \in AtWork
        /\ \A i \in DOMAIN line : types.ftype[i] \in Pre!Planes => ~line[i]
    BY <2>2 DEF Working
  <2>4. \/ types' = [types EXCEPT !.at = "edges", !.i = types.head + 3]
        \/ types' = [types EXCEPT !.i = @ + 1]
        \/ \E judged \in Pre!plane_judge(types.i) :
             \/ types' = [types EXCEPT !.i = judged.i_nex + 1, !.last_state = 0]
             \/ judged.plane /\ judged.i_nex <= N /\ \E first \in Ftypes :
                  types' = [types EXCEPT !.i = judged.i_nex, !.last_state = 1,
                                         !.ftype = Pre!PlaneTypes(@, types.i, judged.i_nex, first)]
        \/ Left /\ types' = [at |-> "outside"]
    <3> DEFINE Planes(judged) ==
                 \E first \in Ftypes :
                   types' = [types EXCEPT !.i = judged.i_nex, !.last_state = 1,
                                          !.ftype = Pre!PlaneTypes(@, types.i, judged.i_nex, first)]
               Overruns(judged) == judged.plane /\ judged.i_nex > N
    <3>1. \/ types' = [types EXCEPT !.at = "edges", !.i = types.head + 3]
          \/ types' = [types EXCEPT !.i = @ + 1]
          \/ \E judged \in Pre!plane_judge(types.i) :
               \/ types' = [types EXCEPT !.i = judged.i_nex + 1, !.last_state = 0]
               \/ judged.plane /\ ~(judged.i_nex > N) /\ Planes(judged)
          \/ /\ ~(types.i > N - group_size) /\ types' = [at |-> "outside"]
             /\ \E judged \in Pre!plane_judge(types.i) : Overruns(judged)
      BY <1>3 DEF Pre!FindPlanes, Pre!Outside, Ftypes
    <3>2. \A judged \in Pre!plane_judge(types.i) : ~(judged.i_nex > N) => judged.i_nex <= N
      <4>1. \A judged \in Pre!plane_judge(types.i) : judged.i_nex \in Nat  BY <1>1, <2>1, <2>3, JudgedInView
      <4>2. QED  BY <1>1, <2>1, <4>1
    <3>3. ASSUME ~(types.i > N - group_size), NEW judged \in Pre!plane_judge(types.i), Overruns(judged)
          PROVE  Left
      <4>1. group_size \in Nat  BY StagesAssumption DEF Pre!PreprocessAssumption
      <4>2. types.i <= N - group_size  BY <1>1, <2>1, <2>3, <3>3, <4>1
      <4>3. ~line[N]  BY <1>1, <2>1, <2>3, <3>3, <4>2, OverrunInView
      <4>4. QED  BY <4>3
    <3> HIDE DEF Left, Overruns
    <3>4. QED  BY <3>1, <3>2, <3>3
  <2>5. \/ types'.at \in AtWork /\ Working(types', line)
        \/ Left /\ types' = [at |-> "outside"]
    <3>1. CASE types' = [types EXCEPT !.at = "edges", !.i = types.head + 3]
      <4>1. Working(types', line)
        <5>1. types.head + 3 \in Nat /\ "edges" \in AtWork  BY <2>3 DEF AtWork
        <5>2. QED  BY <2>2, <3>1, <5>1, WorkGoesOn
      <4>2. QED  BY <4>1 DEF Working
    <3>2. CASE types' = [types EXCEPT !.i = @ + 1]
      <4>1. Working(types', line)
        <5>1. types.i + 1 \in Nat  BY <2>3
        <5>2. QED  BY <2>2, <2>3, <3>2, <5>1, WorkGoesOn
      <4>2. QED  BY <4>1 DEF Working
    <3>3. ASSUME NEW judged \in Pre!plane_judge(types.i),
                 types' = [types EXCEPT !.i = judged.i_nex + 1, !.last_state = 0]
          PROVE  types'.at \in AtWork /\ Working(types', line)
      <4>1. judged.i_nex + 1 \in Nat  BY <1>1, <2>1, <2>3, JudgedInView
      <4>2. Working(types', line)  BY <2>2, <2>3, <3>3, <4>1, WorkGoesOn
      <4>3. QED  BY <4>2 DEF Working
    <3>4. ASSUME NEW judged \in Pre!plane_judge(types.i), judged.plane, judged.i_nex <= N,
                 NEW first \in Ftypes,
                 types' = [types EXCEPT !.i = judged.i_nex, !.last_state = 1,
                                        !.ftype = Pre!PlaneTypes(@, types.i, judged.i_nex, first)]
          PROVE  types'.at \in AtWork /\ Working(types', line)
      <4> DEFINE ftype == Pre!PlaneTypes(types.ftype, types.i, judged.i_nex, first)
      <4>1. /\ judged.i_nex \in Nat /\ types.i < judged.i_nex /\ \A j \in types.i .. judged.i_nex : ~line[j]
        BY <1>1, <2>1, <2>3, <3>4, JudgedInView
      <4>2. DOMAIN types.ftype = 1 .. N /\ \A j \in 1 .. N : types.ftype[j] \in Ftypes
        BY <1>1, <2>1, <2>3
      <4>3. ftype \in [DOMAIN line -> Ftypes]
        BY <1>1, <2>1, <4>2 DEF Pre!PlaneTypes, Ftypes
      <4>4. ASSUME NEW j \in DOMAIN line, ftype[j] \in Pre!Planes  PROVE ~line[j]
        <5>1. ftype[j] = IF j = types.i THEN first
                         ELSE IF j = judged.i_nex THEN "Poss_Plane"
                         ELSE IF j \in types.i .. judged.i_nex THEN "Real_Plane" ELSE types.ftype[j]
          BY <1>1, <4>2 DEF Pre!PlaneTypes
        <5>2. CASE j \in types.i .. judged.i_nex  BY <4>1, <5>2
        <5>3. CASE j \notin types.i .. judged.i_nex
          <6>1. ftype[j] = types.ftype[j] \/ judged.i_nex < types.i
            <7> HIDE DEF ftype
            <7>1. QED  BY <1>1, <2>3, <4>1, <5>1, <5>3
          <6>2. QED  BY <1>1, <2>3, <4>1, <4>4, <6>1
        <5>4. QED  BY <5>2, <5>3
      <4> HIDE DEF ftype
      <4>5. types' = [types EXCEPT !.i = judged.i_nex, !.last_state = 1, !.ftype = ftype]
        BY <3>4 DEF ftype
      <4>6. Working(types', line)  BY <2>2, <2>3, <4>1, <4>3, <4>4, <4>5, WorkGoesOn
      <4>7. QED  BY <4>6 DEF Working
    <3> HIDE DEF Left
    <3>5. QED  BY <2>4, <3>1, <3>2, <3>3, <3>4
  <2> HIDE DEF Left
  <2>6. /\ types'.at \in AtWork \cup {"outside"} /\ (types'.at \in AtWork => Working(types', line))
        /\ types'.at \in AtWork \/ Left
    BY <2>5 DEF AtWork
  <2>7. StaysInside'  BY <1>7, <2>1, <2>6 DEF AtWork, Pre!Stays
  <2>8. QED  BY <1>1, <2>1, <2>6, <2>7, LineStays
<1>4. CASE Pre!FindEdges
  <2>1. types # NULL /\ types.at = "edges" /\ Pre!Stays  BY <1>4 DEF Pre!FindEdges
  <2>2. Working(types, line)  BY <1>1, <2>1 DEF FeatureInv, AtWork
  <2>3. types.i \in Nat /\ types.head \in Nat /\ types.ftype \in [DOMAIN line -> Ftypes] /\ types.at \in AtWork
        /\ types.i + 1 \in Nat /\ types.head + 1 \in Nat /\ "small" \in AtWork
        /\ \A i \in DOMAIN line : types.ftype[i] \in Pre!Planes => ~line[i]
    BY <2>2 DEF Working, AtWork
  <2> DEFINE i == types.i
             Typed(t) == [types.ftype EXCEPT ![i] = t]
  <2>4. \/ types' = [types EXCEPT !.at = "small", !.i = types.head + 1]
        \/ types' = [types EXCEPT !.i = i + 1]
        \/ types' = [types EXCEPT !.i = i + 1, !.straight = @ \cup {i}]
        \/ \E t \in {"Edge_Jump", "Wire"} : types' = [types EXCEPT !.i = i + 1, !.ftype = Typed(t)]
    BY <1>4 DEF Pre!FindEdges
  <2>5. \A t \in {"Edge_Jump", "Wire"} :
          /\ Typed(t) \in [DOMAIN line -> Ftypes]
          /\ \A j \in DOMAIN line : Typed(t)[j] \in Pre!Planes => ~line[j]
    BY <2>3 DEF Ftypes, Pre!Planes
  <2>6. Working(types', line)
    <3> HIDE DEF Typed
    <3>1. CASE types' = [types EXCEPT !.at = "small", !.i = types.head + 1]
      BY <2>2, <2>3, <3>1, WorkGoesOn
    <3>2. CASE types' = [types EXCEPT !.i = i + 1]
      BY <2>2, <2>3, <3>2, WorkGoesOn
    <3>3. CASE types' = [types EXCEPT !.i = i + 1, !.straight = @ \cup {i}]
      BY <2>2, <2>3, <3>3, WorkGoesOn
    <3>4. ASSUME NEW t \in {"Edge_Jump", "Wire"}, types' = [types EXCEPT !.i = i + 1, !.ftype = Typed(t)]
          PROVE  Working(types', line)
      <4> DEFINE ftype == Typed(t)
      <4>1. ftype \in [DOMAIN line -> Ftypes] /\ \A j \in DOMAIN line : ftype[j] \in Pre!Planes => ~line[j]
        BY <2>5
      <4>2. types' = [types EXCEPT !.i = i + 1, !.ftype = ftype]  BY <3>4
      <4> HIDE DEF ftype
      <4>3. QED  BY <2>2, <2>3, <4>1, <4>2, WorkGoesOn
    <3>5. QED  BY <2>4, <3>1, <3>2, <3>3, <3>4
  <2>7. types'.at \in AtWork  BY <2>6 DEF Working
  <2>8. StaysInside'  BY <1>7, <2>7 DEF AtWork
  <2>9. QED  BY <1>1, <2>1, <2>6, <2>7, <2>8, LineStays
<1>5. CASE Pre!FindSmallPlanes
  <2>1. types # NULL /\ types.at = "small" /\ Pre!Stays  BY <1>5 DEF Pre!FindSmallPlanes
  <2>2. Working(types, line)  BY <1>1, <2>1 DEF FeatureInv, AtWork
  <2>3. types.i \in Nat /\ types.ftype \in [DOMAIN line -> Ftypes] /\ types.at \in AtWork
        /\ types.i + 1 \in Nat /\ "output" \in AtWork
        /\ \A i \in DOMAIN line : types.ftype[i] \in Pre!Planes => ~line[i]
    BY <2>2 DEF Working, AtWork
  <2> DEFINE i == types.i
             ftype == [j \in DOMAIN types.ftype |-> IF j \in i - 1 .. i + 1 /\ types.ftype[j] = "Nor"
                                                    THEN "Real_Plane" ELSE types.ftype[j]]
  <2>4. \/ types' = [types EXCEPT !.at = "output"]
        \/ types' = [types EXCEPT !.i = i + 1]
        \/ /\ \A j \in i - 1 .. i + 1 : ~line[j]
           /\ types' = [types EXCEPT !.i = i + 1, !.ftype = ftype]
    BY <1>5 DEF Pre!FindSmallPlanes, Pre!Near
  <2>5. ftype \in [DOMAIN line -> Ftypes]  BY <2>3 DEF Ftypes
  <2>6. (\A j \in i - 1 .. i + 1 : ~line[j]) =>
          \A j \in DOMAIN line : ftype[j] \in Pre!Planes => ~line[j]
    BY <2>3
  <2>7. Working(types', line)
    <3> HIDE DEF ftype
    <3>1. CASE types' = [types EXCEPT !.at = "output"]  BY <2>2, <2>3, <3>1, WorkGoesOn
    <3>2. CASE types' = [types EXCEPT !.i = i + 1]  BY <2>2, <2>3, <3>2, WorkGoesOn
    <3>3. CASE (\A j \in i - 1 .. i + 1 : ~line[j]) /\ types' = [types EXCEPT !.i = i + 1, !.ftype = ftype]
      BY <2>2, <2>3, <2>5, <2>6, <3>3, WorkGoesOn
    <3>4. QED  BY <2>4, <3>1, <3>2, <3>3
  <2>8. types'.at \in AtWork  BY <2>7 DEF Working
  <2>9. StaysInside'  BY <1>7, <2>8 DEF AtWork
  <2>10. QED  BY <1>1, <2>1, <2>7, <2>8, <2>9, LineStays
<1>6. QED  BY <1>2, <1>3, <1>4, <1>5 DEF Work

(* Every step keeps the lines and the types.                                 *)
LEMMA FeatureStep == Given /\ FeatureInv /\ [Pre!Next]_(Pre!vars) => FeatureInv'
<1> SUFFICES ASSUME Given, FeatureInv, [Pre!Next]_(Pre!vars) PROVE FeatureInv'  OBVIOUS
<1> DEFINE line == Pre!Line
           N == Len(line)
<1>1. ASSUME types # NULL
      PROVE  /\ pl_buff \in Seq(Seq(BOOLEAN)) /\ pl_buff # << >> /\ line = Head(pl_buff)
             /\ line \in Seq(BOOLEAN) /\ N \in Nat /\ DOMAIN line = 1 .. N
  <2>1. pl_buff \in Seq(Seq(BOOLEAN)) /\ pl_buff # << >>  BY <1>1 DEF FeatureInv
  <2>2. Head(pl_buff) \in Seq(BOOLEAN)  BY <2>1
  <2>3. QED  BY <2>1, <2>2 DEF Pre!Line
<1>2. group_size \in Nat \ {0} /\ NULL # << >>
  BY StagesAssumption DEF Pre!PreprocessAssumption
<1>3. CASE Pre!Filter
  BY <1>2, <1>3 DEF Pre!Filter, FeatureInv, Working
<1>4. CASE Pre!Sort
  <2>1. pl_surf = NULL /\ pl_surf' = << >> /\ types' = types  BY <1>4 DEF Pre!Sort
  <2>2. types = NULL  BY <1>2, <2>1 DEF FeatureInv
  <2>3. pl_buff' \in Seq(Seq(BOOLEAN))
    <3>1. scan \in Seq(Pre!Point)  BY StagesAssumption DEF Given, Pre!PreprocessAssumption
    <3>2. pl_buff' = Pre!Buffers(scan, setting.lidar_type)  BY <1>4 DEF Pre!Sort
    <3>3. QED  BY <3>1, <3>2, SortedLines
  <2>4. QED  BY <2>1, <2>2, <2>3 DEF FeatureInv
<1>5. CASE Work  BY <1>5, WorkStep
<1>6. CASE Pre!Output
  <2>1. types # NULL /\ Pre!Stays /\ types'.at = "finished"  BY <1>6 DEF Pre!Output
  <2>2. QED  BY <2>1, LineStays DEF AtWork
<1>7. CASE Pre!NextLine
  <2>1. types # NULL /\ types' = NULL /\ pl_buff' = Tail(pl_buff) /\ pl_surf' = pl_surf
    BY <1>7 DEF Pre!NextLine
  <2>2. Tail(pl_buff) \in Seq(Seq(BOOLEAN))  BY <1>1, <2>1
  <2>3. QED  BY <2>1, <2>2 DEF FeatureInv
<1>8. CASE UNCHANGED Pre!vars
  BY <1>8 DEF Pre!vars, FeatureInv, Working
<1>9. QED  BY <1>3, <1>4, <1>5, <1>6, <1>7, <1>8 DEF Pre!Next, Work

(* When a line is finished its planes are represented.                       *)
LEMMA OutputRepresents == Given /\ FeatureInv /\ Pre!Output => PlanesRepresented'
<1> SUFFICES ASSUME Given, FeatureInv, Pre!Output PROVE PlanesRepresented'  OBVIOUS
<1> DEFINE line  == Pre!Line
           N     == Len(line)
           n     == setting.point_filter_num
           head  == types.head
           ftype == types.ftype
           out   == Pre!Outputs(ftype, n, head)[N]
           surf  == out.surf
           run   == out.last_surface
<1>1. /\ types # NULL /\ types.at = "output" /\ pl_buff' = pl_buff /\ setting' = setting
      /\ types' = [at |-> "finished", ftype |-> ftype, head |-> head, surf |-> surf, corn |-> out.corn]
  BY DEF Pre!Output, Pre!Stays
<1>2. /\ pl_buff \in Seq(Seq(BOOLEAN)) /\ pl_buff # << >> /\ Working(types, line)
  BY <1>1 DEF FeatureInv, AtWork, Pre!Line
<1>3. line \in Seq(BOOLEAN) /\ N \in Nat /\ DOMAIN line = 1 .. N  BY <1>2 DEF Pre!Line
<1>4. n \in Nat \ {0}  BY StagesAssumption DEF Given, Pre!PreprocessAssumption
<1>5. /\ head \in Nat \ {0} /\ ftype \in [1 .. N -> Ftypes]
      /\ \A i \in 1 .. N : ftype[i] \in Pre!Planes => ~line[i]
  BY <1>2, <1>3 DEF Working
<1> HIDE DEF N, n, head, ftype
<1>6. ftype \in Seq(Ftypes) /\ Len(ftype) = N
  BY <1>3, <1>5
<1>7. PutOut(ftype, n, head, N, out)
  <2> HIDE DEF out
  <2>1. PutOut(ftype, n, head, Len(ftype), Pre!Outputs(ftype, n, head)[Len(ftype)])
    BY <1>4, <1>5, <1>6, AllPutOut
  <2>2. QED  BY <1>6, <2>1 DEF out
<1>8. /\ run \in Nat
      /\ run # 0 => /\ head <= run /\ run <= N /\ N - run + 1 < n
                    /\ \A i \in run .. N : ftype[i] \in Pre!Planes
      /\ Grouped(ftype, n, head, IF run = 0 THEN N + 1 ELSE run, surf)
  BY <1>7 DEF PutOut
<1> HIDE DEF surf, run, out
<1> DEFINE Groups(i) == {k \in DOMAIN surf : i \in surf[k]}
<1>9. ASSUME NEW i \in 1 .. N
      PROVE  IF ftype[i] \in Pre!Planes /\ i >= head
             THEN \/ \E k \in Groups(i) : Groups(i) = {k}
                  \/ /\ Groups(i) = {} /\ \A j \in i .. N : ftype[j] \in Pre!Planes
                     /\ N - i + 1 < n
             ELSE Groups(i) = {}
  <2> DEFINE upto == IF run = 0 THEN N + 1 ELSE run
  <2>1. IF ftype[i] \in Pre!Planes /\ i >= head /\ i < upto
        THEN \E k \in Groups(i) : Groups(i) = {k}
        ELSE Groups(i) = {}
    BY <1>6, <1>8 DEF Grouped
  <2> HIDE DEF Groups
  <2>2. CASE i < upto  BY <2>1, <2>2
  <2>3. CASE ~(i < upto)
    <3>1. run # 0 /\ run <= i  BY <1>3, <1>8, <2>3
    <3>2. N - i + 1 < n /\ \A j \in i .. N : ftype[j] \in Pre!Planes  BY <1>3, <1>4, <1>8, <3>1
    <3>3. QED  BY <2>1, <2>3, <3>2
  <2>4. QED  BY <2>2, <2>3
<1>10. ASSUME NEW k \in DOMAIN surf
       PROVE  /\ surf[k] # {} /\ \A i \in surf[k] : ~line[i]
              /\ \A i, j \in surf[k] : i - j < n
  <2>1. surf \in Seq(SUBSET (1 .. N)) /\ surf[k] # {} /\ \A i, j \in surf[k] : i - j < n
    BY <1>6, <1>8 DEF Grouped
  <2>2. ASSUME NEW i \in surf[k]  PROVE ~line[i]
    <3>1. i \in 1 .. N /\ Groups(i) # {}  BY <2>1, <2>2
    <3>2. ftype[i] \in Pre!Planes  BY <1>9, <3>1
    <3>3. QED  BY <1>5, <3>1, <3>2
  <2>3. QED  BY <2>1, <2>2
<1>11. /\ types'.ftype = ftype /\ types'.head = head /\ types'.surf = surf /\ setting'.point_filter_num = n
       /\ Pre!Line' = line
  BY <1>1 DEF n, Pre!Line
<1>12. Len(Pre!Line') = N /\ DOMAIN Pre!Line' = 1 .. N  BY <1>3, <1>11 DEF N
<1> HIDE DEF line
<1>13. QED
  BY <1>9, <1>10, <1>11, <1>12 DEF PlanesRepresented, Pre!PlanesRepresented, Pre!Near

(* Each point of a plane is in one surface point, or in a rest at the end of *)
(* its line, for every scan and whatever planes and edges are found.         *)
LEMMA PlanesOnce == Pre!Spec => []PlanesRepresented
<1>1. Pre!Init => Given /\ FeatureInv /\ PlanesRepresented
  BY FeatureInit DEF Pre!Init, Given, PlanesRepresented, Pre!PlanesRepresented
<1>2. Given /\ FeatureInv /\ PlanesRepresented /\ [Pre!Next]_(Pre!vars) => PlanesRepresented'
  <2> SUFFICES ASSUME Given, FeatureInv, PlanesRepresented, [Pre!Next]_(Pre!vars)
               PROVE  PlanesRepresented'
    OBVIOUS
  <2>1. CASE Pre!Output  BY <2>1, OutputRepresents
  <2>2. CASE (types' # NULL /\ types'.at # "finished") \/ types' = NULL
    BY <2>2 DEF PlanesRepresented, Pre!PlanesRepresented
  <2>3. CASE UNCHANGED <<setting, pl_buff, types>>
    BY <2>3 DEF PlanesRepresented, Pre!PlanesRepresented, Pre!Line, Pre!Near
  <2>4. CASE Pre!Sort
    <3>1. types = NULL /\ types' = types
      BY <2>4, StagesAssumption DEF Pre!Sort, FeatureInv, Pre!PreprocessAssumption
    <3>2. QED  BY <2>2, <3>1
  <2>5. CASE Work
    <3>1. types'.at # "finished"  BY <2>5, WorkStep DEF AtWork
    <3>2. QED  BY <3>1 DEF PlanesRepresented, Pre!PlanesRepresented
  <2>6. CASE Pre!NextLine  BY <2>2, <2>6 DEF Pre!NextLine
  <2>7. Pre!Filter => UNCHANGED <<setting, pl_buff, types>>  BY DEF Pre!Filter
  <2>8. UNCHANGED Pre!vars => UNCHANGED <<setting, pl_buff, types>>  BY DEF Pre!vars
  <2>9. QED  BY <2>1, <2>3, <2>4, <2>5, <2>6, <2>7, <2>8 DEF Pre!Next, Work
<1>3. QED  BY <1>1, <1>2, GivenStep, FeatureStep, PTL DEF Pre!Spec
(* A line is overrun only if nothing of it is in view or its last point is: *)
(* for every scan, whatever the groups that are judged planes.               *)
LEMMA LinesStayInside == Pre!Spec => []StaysInside
<1>1. Pre!Init => Given /\ FeatureInv /\ StaysInside
  BY FeatureInit DEF Pre!Init, Given, StaysInside, Pre!StaysInside
<1>2. Given /\ FeatureInv /\ StaysInside /\ [Pre!Next]_(Pre!vars) => StaysInside'
  <2> SUFFICES ASSUME Given, FeatureInv, StaysInside, [Pre!Next]_(Pre!vars)
               PROVE  StaysInside'
    OBVIOUS
  <2>1. CASE Work  BY <2>1, WorkStep
  <2>2. CASE UNCHANGED <<pl_buff, types>>
    BY <2>2 DEF StaysInside, Pre!StaysInside, Pre!Line, Pre!Near
  <2>3. CASE Pre!Sort
    <3>1. types = NULL /\ types' = types
      BY <2>3, StagesAssumption DEF Pre!Sort, FeatureInv, Pre!PreprocessAssumption
    <3>2. QED  BY <3>1 DEF StaysInside, Pre!StaysInside
  <2>4. CASE Pre!Output \/ Pre!NextLine
    BY <2>4 DEF Pre!Output, Pre!NextLine, StaysInside, Pre!StaysInside
  <2>5. Pre!Filter \/ UNCHANGED Pre!vars => UNCHANGED <<pl_buff, types>>  BY DEF Pre!Filter, Pre!vars
  <2>6. QED  BY <2>1, <2>2, <2>3, <2>4, <2>5 DEF Pre!Next, Work
<1>3. QED  BY <1>1, <1>2, GivenStep, FeatureStep, PTL DEF Pre!Spec
(* However give_feature ends with a line, it ends as it should: finished, it *)
(* has each point of a plane represented once; abandoned, the line is one of *)
(* those that nothing guards.                                                *)
THEOREM FeaturesAreRight == Pre!Spec => []FeaturesRight
<1>1. PlanesRepresented /\ StaysInside => FeaturesRight
  BY DEF PlanesRepresented, StaysInside, FeaturesRight, Pre!FeaturesRight
<1>2. QED  BY <1>1, PlanesOnce, LinesStayInside, PTL
===============================================================================
