-------------------------- MODULE LidarSetup_proofs --------------------------
(***************************************************************************)
(* Proofs about the configuration of the lidars: for every set of lidars,  *)
(* every set of options, every configuration file and every size of the    *)
(* device table.                                                           *)
(***************************************************************************)
EXTENDS LidarSetup, SequenceSelection_proofs

(* The int8_t of an integer. *)
LEMMA Int8Values ==
  ASSUME NEW v \in Int
  PROVE  Int8(v) \in -128 .. 127
BY DEF Int8

(* Where the entries of a file end up. *)
Table == UNION {[D -> [Options -> -128 .. 127]] : D \in SUBSET Handles}

(* What an entry gives is a row of the table.                               *)
LEMMA UserConfigType ==
  ASSUME NEW entry, IsEntry(entry)
  PROVE  UserConfig(entry) \in [Options -> -128 .. 127]
<1>1. ASSUME NEW o \in Options
      PROVE  (IF o \in DOMAIN entry.given THEN Int8(entry.given[o]) ELSE NotGiven) \in -128 .. 127
  BY Int8Values DEF IsEntry, NotGiven
<1>2. QED  BY <1>1 DEF UserConfig

(* An entry is put into the table without disturbing the others. *)
LEMMA PutValues ==
  ASSUME NEW table \in Table, NEW entry, IsEntry(entry), entry.ip # NULL
  PROVE  /\ Put(table, entry) \in Table
         /\ HasIndex(DOMAIN table, entry.ip) =>
              /\ DOMAIN Put(table, entry) = DOMAIN table \cup {entry.ip}
              /\ Put(table, entry)[entry.ip] = UserConfig(entry)
              /\ \A h \in DOMAIN table : h # entry.ip => Put(table, entry)[h] = table[h]
         /\ ~HasIndex(DOMAIN table, entry.ip) => Put(table, entry) = table
<1>1. entry.ip \in Handles /\ UserConfig(entry) \in [Options -> -128 .. 127]
  BY UserConfigType DEF IsEntry
<1>2. PICK D \in SUBSET Handles : table \in [D -> [Options -> -128 .. 127]]  BY DEF Table
<1>3. CASE HasIndex(DOMAIN table, entry.ip)
  <2> DEFINE more == [h \in DOMAIN table \cup {entry.ip} |->
                        IF h = entry.ip THEN UserConfig(entry) ELSE table[h]]
  <2>1. Put(table, entry) = more  BY <1>3 DEF Put
  <2>2. more \in [D \cup {entry.ip} -> [Options -> -128 .. 127]]  BY <1>1, <1>2
  <2>3. D \cup {entry.ip} \in SUBSET Handles  BY <1>1
  <2>4. /\ DOMAIN more = DOMAIN table \cup {entry.ip} /\ more[entry.ip] = UserConfig(entry)
        /\ \A h \in DOMAIN table : h # entry.ip => more[h] = table[h]
    OBVIOUS
  <2> HIDE DEF more
  <2>5. more \in Table  BY <2>2, <2>3 DEF Table
  <2>6. QED  BY <1>3, <2>1, <2>4, <2>5
<1>4. CASE ~HasIndex(DOMAIN table, entry.ip)
  BY <1>4 DEF Put
<1>5. QED  BY <1>3, <1>4

(* What the parser hands over are entries with an address. *)
LEMMA ParsedEntries ==
  ASSUME NEW f \in Files
  PROVE  /\ Len(Parse(f)) \in Nat /\ DOMAIN Parse(f) = 1 .. Len(Parse(f))
         /\ \A n \in 1 .. Len(Parse(f)) : IsEntry(Parse(f)[n]) /\ Parse(f)[n].ip # NULL
<1> DEFINE q == f.entries
           E == {q[k] : k \in DOMAIN q}
           S == {q[k] : k \in {j \in DOMAIN q : q[j].ip # NULL}}
<1>1. q \in Seq(E) /\ \A e \in E : IsEntry(e)  BY SetupAssumption
<1>2. \A e \in S : e.ip # NULL  OBVIOUS
<1>3. Parse(f) = Select(q, S) \/ Parse(f) = << >>  BY DEF Parse, ParseUserConfigs
<1> HIDE DEF q, E, S
<1>4. Select(q, S) \in Seq(E \cap S)  BY <1>1, SelectType
<1>5. CASE Parse(f) = << >>  BY <1>5
<1>6. CASE Parse(f) = Select(q, S)
  <2> DEFINE r == Select(q, S)
  <2> HIDE DEF r
  <2>1. r \in Seq(E \cap S)  BY <1>4 DEF r
  <2>2. Len(r) \in Nat /\ DOMAIN r = 1 .. Len(r) /\ \A n \in 1 .. Len(r) : r[n] \in E \cap S  BY <2>1
  <2>3. QED  BY <1>1, <1>2, <1>6, <2>2 DEF r
<1>7. QED  BY <1>3, <1>5, <1>6

(* The recursive function of InitLivoxLidar is one. *)
LEMMA TablesValues ==
  ASSUME NEW q, Len(q) \in Nat,
         \A n \in 1 .. Len(q) : IsEntry(q[n]) /\ q[n].ip # NULL
  PROVE  /\ Tables(q)[0] = << >>
         /\ \A n \in 1 .. Len(q) : Tables(q)[n] = Put(Tables(q)[n - 1], q[n])
         /\ \A n \in 0 .. Len(q) : Tables(q)[n] \in Table
<1> DEFINE N == Len(q)
           nil == << >>
           Step == [n \in 1 .. N |-> [t \in Table |-> Put(t, q[n])]]
           Solves(f) == f = [n \in 0 .. N |-> IF n = 0 THEN nil ELSE Put(f[n - 1], q[n])]
<1>1. N \in Nat  OBVIOUS
<1>2. nil \in Table
  <2>1. nil \in [{} -> [Options -> -128 .. 127]] /\ {} \in SUBSET Handles  OBVIOUS
  <2>2. QED  BY <2>1 DEF Table
<1>3. ASSUME NEW n \in 1 .. N, NEW t \in Table  PROVE Put(t, q[n]) \in Table
  BY PutValues
<1> HIDE DEF N, nil
<1>4. \E f : Solves(f)
  <2>1. Step \in [1 .. N -> [Table -> Table]]  BY <1>3
  <2>2. \A n \in 1 .. N, t \in Table : Step[n][t] = Put(t, q[n])  OBVIOUS
  <2> HIDE DEF Step
  <2>3. PICK f \in [0 .. N -> Table] : Recurs(f, N, nil, Step)  BY <1>1, <1>2, <2>1, Recursion
  <2>4. ASSUME NEW n \in 1 .. N  PROVE Step[n][f[n - 1]] = Put(f[n - 1], q[n])
    <3>1. f[n - 1] \in Table  BY <1>1
    <3>2. QED  BY <2>2, <3>1
  <2>5. \A n \in 0 .. N : n # 0 => n \in 1 .. N  BY <1>1
  <2>6. \A n \in 0 .. N : f[n] = IF n = 0 THEN nil ELSE Put(f[n - 1], q[n])
    BY <2>3, <2>4, <2>5 DEF Recurs
  <2>7. f = [n \in 0 .. N |-> f[n]]  OBVIOUS
  <2>8. QED  BY <2>6, <2>7
<1> DEFINE K == Tables(q)
<1>5. Solves(K)
  <2>1. K = CHOOSE g : Solves(g)  BY DEF Tables, N, nil
  <2> HIDE DEF Solves, K
  <2>2. QED  BY <1>4, <2>1
<1>6. \A n \in 0 .. N : K[n] = IF n = 0 THEN nil ELSE Put(K[n - 1], q[n])
  <2> HIDE DEF K
  <2>1. QED  BY <1>5
<1> HIDE DEF K
<1>7. K[0] = nil  BY <1>1, <1>6
<1>8. \A n \in 1 .. N : K[n] = Put(K[n - 1], q[n])  BY <1>1, <1>6
<1>9. \A n \in 0 .. N : K[n] \in Table
  <2> DEFINE T == {n \in 0 .. N : K[n] \in Table}
  <2>1. 0 \in T  BY <1>1, <1>2, <1>7
  <2>2. ASSUME NEW n \in 1 .. N, n - 1 \in T  PROVE n \in T
    BY <1>3, <1>8, <2>2
  <2> HIDE DEF T
  <2>3. \A n \in 0 .. N : n \in T  BY <1>1, <2>1, <2>2, Induction
  <2>4. QED  BY <2>3 DEF T
<1>10. QED  BY <1>7, <1>8, <1>9 DEF K, N, nil

(* What a table holds after n entries: each lidar in it has the values of   *)
(* its last entry, and there was no room for a lidar that has an entry but  *)
(* no place.                                                                *)
HasLast(t, q, n, h) ==
  \E k \in 1 .. n :
    /\ q[k].ip = h /\ t[h] = UserConfig(q[k])
    /\ \A m \in 1 .. n : m > k => q[m].ip # h
Full(t) == ~(Cardinality(DOMAIN t) < MaxSource)
Holds(t, q, n) ==
  /\ \A h \in DOMAIN t : HasLast(t, q, n, h)
  /\ \A k \in 1 .. n : q[k].ip \in DOMAIN t \/ Full(t)

(* The table holds the entries it was built from, up to each of them.       *)
LEMMA TablesHold ==
  ASSUME NEW q, Len(q) \in Nat,
         \A n \in 1 .. Len(q) : IsEntry(q[n]) /\ q[n].ip # NULL
  PROVE  \A n \in 0 .. Len(q) : Holds(Tables(q)[n], q, n)
<1> DEFINE N == Len(q)
           K == Tables(q)
           T == {n \in 0 .. N : Holds(K[n], q, n)}
<1>1. N \in Nat  OBVIOUS
<1>2. /\ K[0] = << >>
      /\ \A n \in 1 .. N : K[n] = Put(K[n - 1], q[n])
      /\ \A n \in 0 .. N : K[n] \in Table
  BY TablesValues
<1> HIDE DEF N, K
<1>3. 0 \in T
  <2>1. DOMAIN K[0] = {}  BY <1>2
  <2>2. QED  BY <1>1, <2>1 DEF Holds
<1>4. ASSUME NEW n \in 1 .. N, n - 1 \in T  PROVE n \in T
  <2> DEFINE t == K[n - 1]
             u == K[n]
             entry == q[n]
  <2>1. n - 1 \in 0 .. N /\ n \in 0 .. N  BY <1>1
  <2>2. t \in Table /\ u = Put(t, entry) /\ Holds(t, q, n - 1)  BY <1>2, <1>4, <2>1
  <2>3. IsEntry(entry) /\ entry.ip # NULL  BY DEF N
  <2>4. \A k \in 1 .. n : k \in 1 .. n - 1 \/ k = n  BY <1>1
  <2>5. \A k \in 1 .. n - 1 : k \in 1 .. n /\ n > k  BY <1>1
  <2> HIDE DEF t, u
  <2>6. CASE HasIndex(DOMAIN t, entry.ip)
    <3>1. /\ DOMAIN u = DOMAIN t \cup {entry.ip} /\ u[entry.ip] = UserConfig(entry)
          /\ \A h \in DOMAIN t : h # entry.ip => u[h] = t[h]
      BY <2>2, <2>3, <2>6, PutValues
    <3>2. HasLast(u, q, n, entry.ip)
      <4>1. n \in 1 .. n /\ \A m \in 1 .. n : ~(m > n)  BY <1>1
      <4>2. QED  BY <3>1, <4>1 DEF HasLast
    <3>3. ASSUME NEW h \in DOMAIN u, h # entry.ip  PROVE HasLast(u, q, n, h)
      <4>1. h \in DOMAIN t /\ u[h] = t[h]  BY <3>1, <3>3
      <4>2. PICK k \in 1 .. n - 1 :
                 /\ q[k].ip = h /\ t[h] = UserConfig(q[k])
                 /\ \A m \in 1 .. n - 1 : m > k => q[m].ip # h
        BY <2>2, <4>1 DEF Holds, HasLast
      <4>3. \A m \in 1 .. n : m > k => q[m].ip # h  BY <2>4, <3>3, <4>2
      <4>4. QED  BY <2>5, <4>1, <4>2, <4>3 DEF HasLast
    <3>4. Full(t) => DOMAIN u = DOMAIN t
      <4>1. Full(t) => entry.ip \in DOMAIN t  BY <2>6 DEF HasIndex, Full
      <4>2. QED  BY <3>1, <4>1
    <3>5. \A k \in 1 .. n : q[k].ip \in DOMAIN u \/ Full(u)
      BY <2>2, <2>4, <3>1, <3>4 DEF Holds, Full
    <3>6. Holds(u, q, n)  BY <3>2, <3>3, <3>5 DEF Holds
    <3>7. QED  BY <2>1, <3>6 DEF u
  <2>7. CASE ~HasIndex(DOMAIN t, entry.ip)
    <3>1. u = t  BY <2>2, <2>3, <2>7, PutValues
    <3>2. entry.ip \notin DOMAIN t /\ Full(t)  BY <2>7 DEF HasIndex, Full
    <3>3. ASSUME NEW h \in DOMAIN u  PROVE HasLast(u, q, n, h)
      <4>1. PICK k \in 1 .. n - 1 :
                 /\ q[k].ip = h /\ t[h] = UserConfig(q[k])
                 /\ \A m \in 1 .. n - 1 : m > k => q[m].ip # h
        BY <2>2, <3>1 DEF Holds, HasLast
      <4>2. \A m \in 1 .. n : m > k => q[m].ip # h  BY <2>4, <3>1, <3>2, <4>1
      <4>3. QED  BY <2>5, <3>1, <4>1, <4>2 DEF HasLast
    <3>4. Holds(u, q, n)  BY <3>1, <3>2, <3>3 DEF Holds
    <3>5. QED  BY <2>1, <3>4 DEF u
  <2>8. QED  BY <2>6, <2>7
<1>5. \A n \in 0 .. N : n \in T
  <2> HIDE DEF T
  <2>1. QED  BY <1>1, <1>3, <1>4, Induction
<1>6. QED  BY <1>5 DEF N, K

(* So the table of the driver has every lidar of the file that fits in, with *)
(* the values of its last entry.                                            *)
LEMMA DriverTable ==
  ASSUME NEW f \in Files
  PROVE  InitLivoxLidar(f) \in Table /\ Holds(InitLivoxLidar(f), Parse(f), Len(Parse(f)))
<1> DEFINE q == Parse(f)
<1>1. Len(q) \in Nat /\ \A n \in 1 .. Len(q) : IsEntry(q[n]) /\ q[n].ip # NULL
  BY ParsedEntries
<1> HIDE DEF q
<1>2. Len(q) \in 0 .. Len(q)  BY <1>1
<1>3. Tables(q)[Len(q)] \in Table  BY <1>1, <1>2, TablesValues
<1>4. Holds(Tables(q)[Len(q)], q, Len(q))  BY <1>1, <1>2, TablesHold
<1>5. QED  BY <1>3, <1>4 DEF q, InitLivoxLidar

(* The table has of a lidar what its last entry gives, as bytes; and what   *)
(* the handlers find configured are those that are not -1.                  *)
LEMMA EntryIsConfigured ==
  ASSUME file \in Files, livox_config = InitLivoxLidar(file),
         NEW h, Entries(h) # {}, h \in DOMAIN livox_config
  PROVE  /\ Configured(h) = {o \in DOMAIN Given(h) : Int8(Given(h)[o]) # NotGiven}
         /\ \A o \in Configured(h) : livox_config[h][o] = Int8(Given(h)[o])
<1> DEFINE q == Parse(file)
<1>1. /\ Len(q) \in Nat /\ DOMAIN q = 1 .. Len(q)
      /\ \A n \in 1 .. Len(q) : IsEntry(q[n])
  BY ParsedEntries
<1>2. Holds(livox_config, q, Len(q))  BY DriverTable
<1>3. Entries(h) = {k \in DOMAIN q : q[k].ip = h}  BY DEF Entries
<1>4. Given(h) = q[Max(Entries(h))].given  BY DEF Given
<1> HIDE DEF q
<1>5. PICK k \in 1 .. Len(q) :
           /\ q[k].ip = h /\ livox_config[h] = UserConfig(q[k])
           /\ \A m \in 1 .. Len(q) : m > k => q[m].ip # h
  BY <1>2 DEF Holds, HasLast
<1>6. k \in Entries(h) /\ \A m \in Entries(h) : k >= m
  BY <1>1, <1>3, <1>5
<1>7. Max(Entries(h)) = k
  <2> DEFINE E == Entries(h)
  <2>1. \A m \in E : m \in Nat  BY <1>1, <1>3
  <2>2. k \in E /\ \A m \in E : k >= m  BY <1>6
  <2> HIDE DEF E
  <2>3. \E x \in E : \A y \in E : x >= y  BY <2>2
  <2>4. Max(E) \in E /\ \A y \in E : Max(E) >= y  BY <2>3 DEF Max
  <2>5. Max(E) >= k /\ k >= Max(E) /\ k \in Nat /\ Max(E) \in Nat  BY <2>1, <2>2, <2>4
  <2>6. Max(E) = k  BY <2>5
  <2>7. QED  BY <2>6 DEF E
<1>8. Given(h) = q[k].given /\ DOMAIN Given(h) \subseteq Options  BY <1>1, <1>4, <1>7 DEF IsEntry
<1>9. livox_config[h] =
        [o \in Options |-> IF o \in DOMAIN Given(h) THEN Int8(Given(h)[o]) ELSE NotGiven]
  BY <1>5, <1>8 DEF UserConfig
<1>10. QED  BY <1>8, <1>9 DEF Configured

-------------------------------------------------------------------------------
(* Nothing has been asked of the lidar yet. *)
Quiet(h) ==
  /\ connect_state[h] = "off"
  /\ \A c \in commands[h] : c.req \notin Options

(* An option of this announcement is in force, or its command is still      *)
(* going to be carried out.                                                 *)
OnItsWay(h, o) ==
  o \in applied[h] \/ [req |-> o, round |-> round[h], done |-> FALSE] \in commands[h]

(* Why a lidar is right to be sampling: its options are marked before the   *)
(* first command leaves, and a mark is taken off by an acknowledgement.     *)
LidarInv(h) ==
  /\ h \notin registered => Quiet(h)
  /\ Quiet(h) \/ Configured(h) \ acked[h] \subseteq set_bits[h]
  /\ connect_state[h] = "sampling" => Configured(h) \subseteq acked[h]
  /\ h \in announced /\ refused[h] = {} /\ ~Quiet(h) =>
       \A o \in Configured(h) : OnItsWay(h, o)

(* The table is that of the file, and a lidar for which it had no room will *)
(* never get a place.                                                       *)
TableInv ==
  /\ livox_config = InitLivoxLidar(file)
  /\ DOMAIN livox_config \subseteq registered
  /\ \A h \in Handles : Entries(h) # {} /\ h \notin DOMAIN livox_config =>
       h \notin registered /\ ~(Cardinality(registered) < MaxSource)

SetupInv == TypeOK /\ TableInv /\ \A h \in Handles : LidarInv(h)

(* The driver starts with the table of its file and no commands.            *)
LEMMA SetupInit == Init => SetupInv
<1> SUFFICES ASSUME Init PROVE SetupInv  OBVIOUS
<1>1. file \in Files /\ livox_config = InitLivoxLidar(file) /\ registered = DOMAIN livox_config
  BY DEF Init
<1>2. livox_config \in Table /\ Holds(livox_config, Parse(file), Len(Parse(file)))
  BY <1>1, DriverTable
<1>3. PICK D \in SUBSET Handles : livox_config \in [D -> [Options -> -128 .. 127]]
  BY <1>2 DEF Table
<1>4. TypeOK
  <2>1. file \in Files /\ registered \subseteq Handles /\ DOMAIN livox_config \subseteq Handles
    BY <1>1, <1>3
  <2>2. livox_config \in [DOMAIN livox_config -> [Options -> -128 .. 127]]  BY <1>3
  <2>3. round \in [Handles -> 0 .. MaxRounds]  BY SetupAssumption DEF Init
  <2>4. QED  BY <2>1, <2>2, <2>3 DEF Init, TypeOK
<1>5. TableInv
  <2>1. ASSUME NEW h \in Handles, Entries(h) # {}, h \notin DOMAIN livox_config
        PROVE  h \notin registered /\ ~(Cardinality(registered) < MaxSource)
    <3>1. PICK k \in DOMAIN Parse(file) : Parse(file)[k].ip = h  BY <2>1 DEF Entries
    <3>2. k \in 1 .. Len(Parse(file))  BY <1>1, ParsedEntries
    <3>3. Full(livox_config)  BY <1>2, <2>1, <3>1, <3>2 DEF Holds
    <3>4. QED  BY <1>1, <2>1, <3>3 DEF Full
  <2>2. QED  BY <1>1, <2>1 DEF TableInv
<1>6. \A h \in Handles : LidarInv(h)  BY DEF Init, LidarInv, Quiet
<1>7. QED  BY <1>4, <1>5, <1>6 DEF SetupInv

-------------------------------------------------------------------------------
(* What every step of one lidar h leaves alone.                             *)
Frame(h) ==
  /\ UNCHANGED <<file, livox_config>>
  /\ \A g \in Handles : g # h =>
       /\ UNCHANGED <<connect_state[g], commands[g], set_bits[g], acked[g], applied[g],
                      refused[g], round[g]>>
       /\ (g \in registered' <=> g \in registered)
       /\ (g \in announced' <=> g \in announced)

(* A step about one lidar leaves what is true of the others.                *)
LEMMA Elsewhere ==
  ASSUME NEW h, Frame(h), NEW g \in Handles, g # h, LidarInv(g)
  PROVE  LidarInv(g)'
<1>1. /\ UNCHANGED <<connect_state[g], commands[g], set_bits[g], acked[g], applied[g],
                     refused[g], round[g], livox_config>>
      /\ (g \in registered' <=> g \in registered)
      /\ (g \in announced' <=> g \in announced)
  BY DEF Frame
<1>2. Configured(g)' = Configured(g)  BY <1>1 DEF Configured
<1>3. Quiet(g)' <=> Quiet(g)  BY <1>1 DEF Quiet
<1>4. \A o : OnItsWay(g, o)' <=> OnItsWay(g, o)  BY <1>1 DEF OnItsWay
<1>5. QED  BY <1>1, <1>2, <1>3, <1>4 DEF LidarInv

(* The commands one lidar is sent. *)
LEMMA SentCommands ==
  ASSUME TypeOK, NEW h \in Handles, NEW reqs \in SUBSET Requests, NEW n \in 1 .. MaxRounds,
         Send(h, reqs, n)
  PROVE  /\ commands' \in [Handles -> SUBSET Command]
         /\ commands'[h] = commands[h] \cup [req : reqs, round : {n}, done : {FALSE}]
         /\ \A g \in Handles : g # h => commands'[g] = commands[g]
<1>1. commands \in [Handles -> SUBSET Command]  BY DEF TypeOK
<1>2. [req : reqs, round : {n}, done : {FALSE}] \subseteq Command  BY DEF Command
<1>3. QED  BY <1>1, <1>2 DEF Send

(* A lidar that is announced begins a round.                                *)
LEMMA AnnounceStep ==
  ASSUME SetupInv, NEW h \in Handles, Announce(h)
  PROVE  /\ round' \in [Handles -> 0 .. MaxRounds] /\ round'[h] \in 1 .. MaxRounds
         /\ \A g \in Handles : g # h => round'[g] = round[g]
         /\ announced' \subseteq Handles
         /\ \A g \in Handles : g # h => (g \in announced' <=> g \in announced)
BY SetupAssumption DEF SetupInv, TypeOK, Announce

(* A lidar of the table is sent what the table asks.                        *)
LEMMA KnownStep ==
  ASSUME SetupInv, NEW h \in Handles, InfoChangeKnown(h)
  PROVE  SetupInv'
<1>1. TypeOK /\ TableInv /\ LidarInv(h)  BY DEF SetupInv
<1>2. UNCHANGED <<file, livox_config, registered, connect_state, deviceVars, historyVars>> /\ h \in registered
  BY DEF InfoChangeKnown
<1>3. Configured(h) \subseteq Options  BY DEF Configured
<1>4. /\ round' \in [Handles -> 0 .. MaxRounds] /\ round'[h] \in 1 .. MaxRounds
      /\ \A g \in Handles : g # h => round'[g] = round[g]
      /\ announced' \subseteq Handles
      /\ \A g \in Handles : g # h => (g \in announced' <=> g \in announced)
  BY AnnounceStep DEF InfoChangeKnown
<1>5. /\ commands' \in [Handles -> SUBSET Command]
      /\ commands'[h] = commands[h] \cup
           [req : Configured(h) \cup {"work_mode"}, round : {round'[h]}, done : {FALSE}]
      /\ \A g \in Handles : g # h => commands'[g] = commands[g]
  <2>1. Configured(h) \cup {"work_mode"} \in SUBSET Requests  BY <1>3 DEF Requests
  <2>2. Send(h, Configured(h) \cup {"work_mode"}, round'[h])  BY DEF InfoChangeKnown
  <2> DEFINE n == round'[h]
             reqs == Configured(h) \cup {"work_mode"}
  <2>3. n \in 1 .. MaxRounds /\ reqs \in SUBSET Requests /\ Send(h, reqs, n)  BY <1>4, <2>1, <2>2
  <2> HIDE DEF n, reqs
  <2>4. /\ commands' \in [Handles -> SUBSET Command]
        /\ commands'[h] = commands[h] \cup [req : reqs, round : {n}, done : {FALSE}]
        /\ \A g \in Handles : g # h => commands'[g] = commands[g]
    BY <1>1, <2>3, SentCommands
  <2>5. QED  BY <2>4 DEF n, reqs
<1>6. /\ set_bits' \in [Handles -> SUBSET Options] /\ Configured(h) \subseteq set_bits'[h]
      /\ \A g \in Handles : g # h => set_bits'[g] = set_bits[g]
  BY <1>1, <1>3 DEF InfoChangeKnown, TypeOK
<1>7. TypeOK'  BY <1>1, <1>2, <1>4, <1>5, <1>6 DEF TypeOK, deviceVars, historyVars
<1>8. TableInv'  BY <1>1, <1>2 DEF TableInv, Entries
<1>9. Frame(h)  BY <1>2, <1>4, <1>5, <1>6 DEF Frame, deviceVars, historyVars
<1>10. LidarInv(h)'
  <2>1. Configured(h)' = Configured(h)  BY <1>2 DEF Configured
  <2>2. \A o \in Configured(h) : OnItsWay(h, o)'
    <3>1. \A o \in Configured(h) : [req |-> o, round |-> round'[h], done |-> FALSE] \in commands'[h]
      BY <1>5
    <3>2. QED  BY <3>1 DEF OnItsWay
  <2>3. QED  BY <1>1, <1>2, <1>6, <2>1, <2>2 DEF LidarInv, historyVars
<1>11. QED  BY <1>7, <1>8, <1>9, <1>10, Elsewhere DEF SetupInv

(* A lidar that is not in the table is entered, if there is room.           *)
LEMMA UnknownStep ==
  ASSUME SetupInv, NEW h \in Handles, InfoChangeUnknown(h)
  PROVE  SetupInv'
<1>1. TypeOK /\ TableInv /\ LidarInv(h)  BY DEF SetupInv
<1>2. UNCHANGED <<file, livox_config, set_bits, connect_state, deviceVars, historyVars>> /\ h \notin registered
  BY DEF InfoChangeUnknown
<1>3. Quiet(h)  BY <1>1, <1>2 DEF LidarInv
<1>4. /\ round' \in [Handles -> 0 .. MaxRounds] /\ round'[h] \in 1 .. MaxRounds
      /\ \A g \in Handles : g # h => round'[g] = round[g]
      /\ announced' \subseteq Handles
      /\ \A g \in Handles : g # h => (g \in announced' <=> g \in announced)
  BY AnnounceStep DEF InfoChangeUnknown
<1>5. /\ commands' \in [Handles -> SUBSET Command]
      /\ \A c \in commands'[h] : c \in commands[h] \/ c.req = "work_mode"
      /\ \A g \in Handles : g # h => commands'[g] = commands[g]
  <2>1. CASE HasIndex(registered, h)
    <3>1. Send(h, {"work_mode"}, round'[h]) /\ {"work_mode"} \in SUBSET Requests
      BY <2>1 DEF InfoChangeUnknown, Requests
    <3> DEFINE n == round'[h]
    <3>2. n \in 1 .. MaxRounds /\ Send(h, {"work_mode"}, n)  BY <1>4, <3>1
    <3> HIDE DEF n
    <3>3. /\ commands' \in [Handles -> SUBSET Command]
          /\ commands'[h] = commands[h] \cup [req : {"work_mode"}, round : {n}, done : {FALSE}]
          /\ \A g \in Handles : g # h => commands'[g] = commands[g]
      BY <1>1, <3>1, <3>2, SentCommands
    <3>4. QED  BY <3>3
  <2>2. CASE ~HasIndex(registered, h)
    BY <1>1, <2>2 DEF InfoChangeUnknown, TypeOK
  <2>3. QED  BY <2>1, <2>2
<1>6. /\ registered \subseteq registered' /\ registered' \subseteq registered \cup {h}
      /\ registered' # registered => Cardinality(registered) < MaxSource
  BY <1>2 DEF InfoChangeUnknown, HasIndex
<1>7. TypeOK'  BY <1>1, <1>2, <1>4, <1>5, <1>6 DEF TypeOK, deviceVars, historyVars
<1>8. TableInv'
  <2>1. livox_config' = InitLivoxLidar(file)' /\ DOMAIN livox_config' \subseteq registered'
    BY <1>1, <1>2, <1>6 DEF TableInv
  <2>2. ASSUME NEW g \in Handles, Entries(g)' # {}, g \notin DOMAIN livox_config'
        PROVE  g \notin registered' /\ ~(Cardinality(registered') < MaxSource)
    <3>1. Entries(g) # {} /\ g \notin DOMAIN livox_config  BY <1>2, <2>2 DEF Entries
    <3>2. g \notin registered /\ ~(Cardinality(registered) < MaxSource)
      BY <1>1, <3>1 DEF TableInv
    <3>3. registered' = registered  BY <1>6, <3>2
    <3>4. QED  BY <3>2, <3>3
  <2>3. QED  BY <2>1, <2>2 DEF TableInv
<1>9. Frame(h)  BY <1>2, <1>4, <1>5, <1>6 DEF Frame, deviceVars, historyVars
<1>10. LidarInv(h)'
  <2>1. Quiet(h)'  BY <1>2, <1>3, <1>5, SetupAssumption DEF Quiet
  <2>2. connect_state'[h] # "sampling"  BY <1>2, <1>3 DEF Quiet
  <2>3. QED  BY <2>1, <2>2 DEF LidarInv
<1>11. QED  BY <1>7, <1>8, <1>9, <1>10, Elsewhere DEF SetupInv

(* A lidar that restarts forgets what was applied.                          *)
LEMMA RestartStep ==
  ASSUME SetupInv, NEW h \in Handles, Restart(h)
  PROVE  SetupInv'
<1>1. TypeOK /\ TableInv /\ LidarInv(h)  BY DEF SetupInv
<1>2. UNCHANGED <<file, livox_config, registered, set_bits, connect_state, commands, round, historyVars>>
  BY DEF Restart
<1>3. /\ announced' = announced \ {h} /\ normal' \subseteq normal
      /\ applied' \in [Handles -> SUBSET Options]
      /\ \A g \in Handles : g # h => applied'[g] = applied[g]
  BY <1>1 DEF Restart, TypeOK
<1>4. TypeOK'  BY <1>1, <1>2, <1>3 DEF TypeOK, historyVars
<1>5. TableInv'  BY <1>1, <1>2 DEF TableInv, Entries
<1>6. Frame(h)  BY <1>2, <1>3 DEF Frame, historyVars
<1>7. LidarInv(h)'
  <2>1. Quiet(h)' <=> Quiet(h)  BY <1>2 DEF Quiet
  <2>2. Configured(h)' = Configured(h)  BY <1>2 DEF Configured
  <2>3. QED  BY <1>1, <1>2, <1>3, <2>1, <2>2 DEF LidarInv, historyVars
<1>8. QED  BY <1>4, <1>5, <1>6, <1>7, Elsewhere DEF SetupInv

(* A command is carried out, answered, timed out or refused: what becomes   *)
(* of the commands of its lidar.                                            *)
LEMMA CommandsChange ==
  ASSUME SetupInv, NEW h \in Handles, NEW c \in commands[h], NEW new \in SUBSET Command,
         \A d \in new : d.req = c.req,
         commands' = [commands EXCEPT ![h] = (@ \ {c}) \cup new],
         UNCHANGED <<file, livox_config, registered, announced, round>>
  PROVE  /\ commands' \in [Handles -> SUBSET Command] /\ c \in Command
         /\ \A g \in Handles : g # h => commands'[g] = commands[g]
         /\ commands'[h] = (commands[h] \ {c}) \cup new
         /\ (\A d \in commands[h] : d.req \notin Options) => \A d \in commands'[h] : d.req \notin Options
         /\ Configured(h)' = Configured(h) /\ TableInv'
<1>1. commands \in [Handles -> SUBSET Command]  BY DEF SetupInv, TypeOK
<1>2. c \in Command  BY <1>1
<1>3. TableInv'  BY DEF SetupInv, TableInv, Entries
<1>4. Configured(h)' = Configured(h)  BY DEF Configured
<1>5. QED  BY <1>1, <1>2, <1>3, <1>4

(* A lidar carries out a command.                                           *)
LEMMA CarryOutStep ==
  ASSUME SetupInv, NEW h \in Handles, NEW c \in commands[h], CarryOut(h, c)
  PROVE  SetupInv'
<1> DEFINE new == {[c EXCEPT !.done = TRUE]}
<1>1. TypeOK /\ LidarInv(h)  BY DEF SetupInv
<1>2. UNCHANGED <<file, livox_config, registered, set_bits, connect_state, announced, round, historyVars>>
  BY DEF CarryOut
<1>3. new \in SUBSET Command /\ \A d \in new : d.req = c.req
  <2>1. c \in Command  BY <1>1 DEF TypeOK
  <2>2. [c EXCEPT !.done = TRUE] \in Command /\ [c EXCEPT !.done = TRUE].req = c.req
    BY <2>1 DEF Command
  <2>3. QED  BY <2>2
<1>4. commands' = [commands EXCEPT ![h] = (@ \ {c}) \cup new]  BY DEF CarryOut
<1> HIDE DEF new
<1>5. /\ commands' \in [Handles -> SUBSET Command]
      /\ \A g \in Handles : g # h => commands'[g] = commands[g]
      /\ commands'[h] = (commands[h] \ {c}) \cup new
      /\ (\A d \in commands[h] : d.req \notin Options) => \A d \in commands'[h] : d.req \notin Options
      /\ Configured(h)' = Configured(h) /\ TableInv'
  BY <1>2, <1>3, <1>4, CommandsChange
<1>6. /\ applied' \in [Handles -> SUBSET Options] /\ normal' \subseteq Handles
      /\ \A g \in Handles : g # h => applied'[g] = applied[g]
      /\ applied[h] \subseteq applied'[h] /\ (c.req \in Options => c.req \in applied'[h])
  BY <1>1 DEF CarryOut, TypeOK
<1>7. TypeOK'  BY <1>1, <1>2, <1>5, <1>6 DEF TypeOK, historyVars
<1>8. Frame(h)  BY <1>2, <1>5, <1>6 DEF Frame, historyVars
<1>9. LidarInv(h)'
  <2>1. Quiet(h) => Quiet(h)'  BY <1>2, <1>5 DEF Quiet
  <2>2. ASSUME NEW o \in Configured(h), OnItsWay(h, o)  PROVE OnItsWay(h, o)'
    <3>1. o \in Options  BY DEF Configured
    <3>2. CASE o \in applied[h]  BY <1>6, <3>2 DEF OnItsWay
    <3>3. CASE [req |-> o, round |-> round[h], done |-> FALSE] \in commands[h]
      <4>1. CASE c = [req |-> o, round |-> round[h], done |-> FALSE]
        BY <1>6, <3>1, <4>1 DEF OnItsWay
      <4>2. CASE c # [req |-> o, round |-> round[h], done |-> FALSE]
        BY <1>2, <1>5, <3>3, <4>2 DEF OnItsWay
      <4>3. QED  BY <4>1, <4>2
    <3>4. QED  BY <2>2, <3>2, <3>3 DEF OnItsWay
  <2>3. QED  BY <1>1, <1>2, <1>5, <2>1, <2>2 DEF LidarInv, historyVars
<1>10. QED  BY <1>5, <1>7, <1>8, <1>9, Elsewhere DEF SetupInv

(* A command that was not answered is sent again.                           *)
LEMMA TimedOutStep ==
  ASSUME SetupInv, NEW h \in Handles, NEW c \in commands[h], TimedOut(h, c)
  PROVE  SetupInv'
<1> DEFINE new == {[c EXCEPT !.done = FALSE]}
<1>1. TypeOK /\ LidarInv(h)  BY DEF SetupInv
<1>2. UNCHANGED <<file, livox_config, registered, set_bits, connect_state, announced, round, deviceVars,
                  historyVars>> /\ c.done
  BY DEF TimedOut
<1>3. new \in SUBSET Command /\ \A d \in new : d.req = c.req
  <2>1. c \in Command  BY <1>1 DEF TypeOK
  <2>2. [c EXCEPT !.done = FALSE] \in Command /\ [c EXCEPT !.done = FALSE].req = c.req
    BY <2>1 DEF Command
  <2>3. QED  BY <2>2
<1>4. commands' = [commands EXCEPT ![h] = (@ \ {c}) \cup new]  BY DEF TimedOut
<1> HIDE DEF new
<1>5. /\ commands' \in [Handles -> SUBSET Command]
      /\ \A g \in Handles : g # h => commands'[g] = commands[g]
      /\ commands'[h] = (commands[h] \ {c}) \cup new
      /\ (\A d \in commands[h] : d.req \notin Options) => \A d \in commands'[h] : d.req \notin Options
      /\ Configured(h)' = Configured(h) /\ TableInv'
  BY <1>2, <1>3, <1>4, CommandsChange
<1>6. TypeOK'  BY <1>1, <1>2, <1>5 DEF TypeOK, deviceVars, historyVars
<1>7. Frame(h)  BY <1>2, <1>5 DEF Frame, deviceVars, historyVars
<1>8. LidarInv(h)'
  <2>1. Quiet(h) => Quiet(h)'  BY <1>2, <1>5 DEF Quiet
  <2>2. ASSUME NEW o \in Configured(h), OnItsWay(h, o)  PROVE OnItsWay(h, o)'
    <3>1. c # [req |-> o, round |-> round[h], done |-> FALSE]  BY <1>2
    <3>2. QED  BY <1>2, <1>5, <2>2, <3>1 DEF OnItsWay, deviceVars
  <2>3. QED  BY <1>1, <1>2, <1>5, <2>1, <2>2 DEF LidarInv, historyVars
<1>9. QED  BY <1>5, <1>6, <1>7, <1>8, Elsewhere DEF SetupInv

(* An answer is that to a command that was carried out.                     *)
LEMMA AcknowledgedStep ==
  ASSUME SetupInv, NEW h \in Handles, NEW c \in commands[h], Acknowledged(h, c)
  PROVE  SetupInv'
<1> DEFINE new == {}
<1>1. TypeOK /\ LidarInv(h)  BY DEF SetupInv
<1>2. UNCHANGED <<file, livox_config, registered, announced, round, deviceVars, refused>> /\ c.done
  BY DEF Acknowledged
<1>3. commands' = [commands EXCEPT ![h] = (@ \ {c}) \cup new]
  <2>1. \A S : (S \ {c}) \cup new = S \ {c}  OBVIOUS
  <2>2. commands' = [commands EXCEPT ![h] = @ \ {c}]  BY DEF Acknowledged, Finish
  <2>3. QED  BY <2>1, <2>2
<1>nil. new \in SUBSET Command /\ (\A d \in new : d.req = c.req) /\ \A S : S \cup new = S  OBVIOUS
<1> HIDE DEF new
<1>4. /\ commands' \in [Handles -> SUBSET Command]
      /\ \A g \in Handles : g # h => commands'[g] = commands[g]
      /\ commands'[h] = (commands[h] \ {c}) \cup new
      /\ (\A d \in commands[h] : d.req \notin Options) => \A d \in commands'[h] : d.req \notin Options
      /\ Configured(h)' = Configured(h) /\ TableInv'
  <2>1. UNCHANGED <<file, livox_config, registered, announced, round>>  BY <1>2
  <2>2. new \in SUBSET Command /\ \A d \in new : d.req = c.req  BY <1>nil
  <2>3. QED  BY <1>3, <2>1, <2>2, CommandsChange
<1>5. /\ set_bits' \in [Handles -> SUBSET Options] /\ acked' \in [Handles -> SUBSET Options]
      /\ connect_state' \in [Handles -> {"off", "sampling"}]
      /\ \A g \in Handles : g # h =>
           UNCHANGED <<set_bits[g], acked[g], connect_state[g]>>
      /\ c.req \in Options =>
           /\ set_bits'[h] = set_bits[h] \ {c.req} /\ acked'[h] = acked[h] \cup {c.req}
           /\ connect_state'[h] = IF set_bits'[h] = {} THEN "sampling" ELSE connect_state[h]
      /\ c.req \notin Options => UNCHANGED <<set_bits[h], acked[h], connect_state[h]>>
  BY <1>1 DEF Acknowledged, TypeOK
<1>6. TypeOK'  BY <1>1, <1>2, <1>4, <1>5 DEF TypeOK, deviceVars
<1>7. Frame(h)  BY <1>2, <1>4, <1>5 DEF Frame, deviceVars
<1>8. LidarInv(h)'
  <2>1. Quiet(h) => Quiet(h)'  BY <1>4, <1>5, <1>nil DEF Quiet
  <2>2. ASSUME NEW o \in Configured(h), OnItsWay(h, o)  PROVE OnItsWay(h, o)'
    <3>1. c # [req |-> o, round |-> round[h], done |-> FALSE]  BY <1>2
    <3>2. QED  BY <1>2, <1>4, <1>nil, <2>2, <3>1 DEF OnItsWay, deviceVars
  <2>3. Quiet(h) \/ Configured(h) \ acked'[h] \subseteq set_bits'[h]
    BY <1>1, <1>5 DEF LidarInv
  <2>4. connect_state'[h] = "sampling" => Configured(h) \subseteq acked'[h]
    <3>1. CASE c.req \in Options
      <4>1. Configured(h) \ acked'[h] \subseteq set_bits'[h]  BY <2>3, <3>1 DEF Quiet
      <4>2. QED  BY <1>1, <1>5, <3>1, <4>1 DEF LidarInv
    <3>2. CASE c.req \notin Options  BY <1>1, <1>5, <3>2 DEF LidarInv
    <3>3. QED  BY <3>1, <3>2
  <2>5. QED  BY <1>1, <1>2, <1>4, <2>1, <2>2, <2>3, <2>4 DEF LidarInv
<1>9. QED  BY <1>4, <1>6, <1>7, <1>8, Elsewhere DEF SetupInv

(* A refused command is not sent again.                                     *)
LEMMA RefusedStep ==
  ASSUME SetupInv, NEW h \in Handles, NEW c \in commands[h], Refused(h, c)
  PROVE  SetupInv'
<1> DEFINE new == {}
<1>1. TypeOK /\ LidarInv(h)  BY DEF SetupInv
<1>2. UNCHANGED <<file, livox_config, registered, set_bits, connect_state, announced, round, deviceVars, acked>>
  BY DEF Refused
<1>3. commands' = [commands EXCEPT ![h] = (@ \ {c}) \cup new]
  <2>1. \A S : (S \ {c}) \cup new = S \ {c}  OBVIOUS
  <2>2. commands' = [commands EXCEPT ![h] = @ \ {c}]  BY DEF Refused, Finish
  <2>3. QED  BY <2>1, <2>2
<1>nil. new \in SUBSET Command /\ (\A d \in new : d.req = c.req) /\ \A S : S \cup new = S  OBVIOUS
<1> HIDE DEF new
<1>4. /\ commands' \in [Handles -> SUBSET Command] /\ c \in Command
      /\ \A g \in Handles : g # h => commands'[g] = commands[g]
      /\ commands'[h] = (commands[h] \ {c}) \cup new
      /\ (\A d \in commands[h] : d.req \notin Options) => \A d \in commands'[h] : d.req \notin Options
      /\ Configured(h)' = Configured(h) /\ TableInv'
  BY <1>2, <1>3, <1>nil, CommandsChange
<1>5. c.req \in Options  BY <1>4 DEF Refused, Command, Requests
<1>6. /\ refused' \in [Handles -> SUBSET Options] /\ c.req \in refused'[h]
      /\ \A g \in Handles : g # h => refused'[g] = refused[g]
  BY <1>1, <1>5 DEF Refused, TypeOK
<1>7. TypeOK'  BY <1>1, <1>2, <1>4, <1>6 DEF TypeOK, deviceVars
<1>8. Frame(h)  BY <1>2, <1>4, <1>6 DEF Frame, deviceVars
<1>9. LidarInv(h)'
  <2>1. Quiet(h) => Quiet(h)'  BY <1>2, <1>4 DEF Quiet
  <2>2. refused'[h] # {}  BY <1>6
  <2>3. QED  BY <1>1, <1>2, <1>4, <2>1, <2>2 DEF LidarInv
<1>10. QED  BY <1>4, <1>7, <1>8, <1>9, Elsewhere DEF SetupInv

(* Every step keeps the invariant. *)
LEMMA SetupStep ==
  ASSUME SetupInv, [Next]_vars
  PROVE  SetupInv'
<1>1. CASE \E h \in Handles :
             \/ InfoChangeKnown(h)
             \/ InfoChangeUnknown(h)
             \/ Restart(h)
             \/ \E c \in commands[h] :
                  CarryOut(h, c) \/ Acknowledged(h, c) \/ TimedOut(h, c) \/ Refused(h, c)
  BY <1>1, KnownStep, UnknownStep, RestartStep, CarryOutStep, AcknowledgedStep, TimedOutStep, RefusedStep
<1>2. CASE UNCHANGED vars
  <2>1. TypeOK'  BY <1>2 DEF SetupInv, TypeOK, vars, deviceVars, historyVars
  <2>2. TableInv'  BY <1>2 DEF SetupInv, TableInv, Entries, vars
  <2>3. ASSUME NEW h \in Handles  PROVE LidarInv(h)'
    <3>1. Configured(h)' = Configured(h)  BY <1>2 DEF Configured, vars
    <3>2. Quiet(h)' <=> Quiet(h)  BY <1>2 DEF Quiet, vars
    <3>3. \A o : OnItsWay(h, o)' <=> OnItsWay(h, o)  BY <1>2 DEF OnItsWay, vars, deviceVars
    <3>4. LidarInv(h)  BY DEF SetupInv
    <3>5. QED  BY <1>2, <3>1, <3>2, <3>3, <3>4 DEF LidarInv, vars, historyVars
  <2>4. QED  BY <2>1, <2>2, <2>3 DEF SetupInv
<1>3. QED  BY <1>1, <1>2 DEF Next

(* The state of the handlers is of its types, the device table is that of   *)
(* the file, and every lidar is where its marks and its commands say.       *)
THEOREM SetupSafe == Spec => []SetupInv
<1>1. SetupInv /\ [Next]_vars => SetupInv'  BY SetupStep
<1>2. QED  BY SetupInit, <1>1, PTL DEF Spec

(* No lidar is sent, or acknowledges, an option that the handlers do not    *)
(* find configured for it.                                                  *)
SentInv ==
  \A h \in Handles :
    /\ \A c \in commands[h] : c.req \in Options => c.req \in Configured(h)
    /\ acked[h] \subseteq Configured(h)

(* What is sent comes from the table, and the table does not change.        *)
LEMMA SentStep == SetupInv /\ SentInv /\ [Next]_vars => SentInv'
<1> SUFFICES ASSUME SetupInv, SentInv, [Next]_vars, NEW g \in Handles
             PROVE  /\ \A c \in commands'[g] : c.req \in Options => c.req \in Configured(g)'
                    /\ acked'[g] \subseteq Configured(g)'
  BY DEF SentInv
<1>1. TypeOK  BY DEF SetupInv
<1>2. UNCHANGED livox_config
  BY DEF Next, vars, InfoChangeKnown, InfoChangeUnknown, Restart, CarryOut, Acknowledged, TimedOut, Refused
<1>3. Configured(g)' = Configured(g)  BY <1>2 DEF Configured
<1>4. (\A c \in commands[g] : c.req \in Options => c.req \in Configured(g)) /\ acked[g] \subseteq Configured(g)
  BY DEF SentInv
<1>5. ASSUME NEW h \in Handles, InfoChangeKnown(h)
      PROVE  /\ \A c \in commands'[g] : c \in commands[g] \/ c.req \in Configured(g) \cup {"work_mode"}
             /\ acked' = acked
  BY <1>1, <1>5 DEF InfoChangeKnown, Send, TypeOK, historyVars
<1>6. ASSUME NEW h \in Handles, InfoChangeUnknown(h)
      PROVE  (\A c \in commands'[g] : c \in commands[g] \/ c.req = "work_mode") /\ acked' = acked
  <2>1. commands' = commands \/ Send(h, {"work_mode"}, round'[h])  BY <1>6 DEF InfoChangeUnknown
  <2>2. ASSUME Send(h, {"work_mode"}, round'[h])
        PROVE  \A c \in commands'[g] : c \in commands[g] \/ c.req = "work_mode"
    BY <1>1, <2>2 DEF Send, TypeOK
  <2>3. acked' = acked  BY <1>6 DEF InfoChangeUnknown, historyVars
  <2>4. QED  BY <2>1, <2>2, <2>3
<1>7. ASSUME NEW h \in Handles, Restart(h)  PROVE commands' = commands /\ acked' = acked
  BY <1>7 DEF Restart, historyVars
<1>8. ASSUME NEW h \in Handles, NEW c \in commands[h],
             CarryOut(h, c) \/ Acknowledged(h, c) \/ TimedOut(h, c) \/ Refused(h, c)
      PROVE  /\ \A d \in commands'[g] : \E e \in commands[g] : d.req = e.req
             /\ \A o \in acked'[g] :
                  \/ o \in acked[g]
                  \/ o \in Options /\ \E e \in commands[g] : o = e.req
  <2>1. c.req = [c EXCEPT !.done = TRUE].req /\ c.req = [c EXCEPT !.done = FALSE].req
    BY <1>1, <1>8 DEF TypeOK, Command
  <2>2. commands'[g] \subseteq
          commands[g] \cup (IF g = h THEN {[c EXCEPT !.done = TRUE], [c EXCEPT !.done = FALSE]} ELSE {})
    BY <1>1, <1>8 DEF CarryOut, Acknowledged, TimedOut, Refused, Finish, TypeOK
  <2>3. \/ acked' = acked
        \/ c.req \in Options /\ acked' = [acked EXCEPT ![h] = @ \cup {c.req}]
    BY <1>8 DEF CarryOut, Acknowledged, TimedOut, Refused, historyVars
  <2>4. ASSUME NEW o \in acked'[g]
        PROVE  \/ o \in acked[g]
               \/ o \in Options /\ \E e \in commands[g] : o = e.req
    BY <1>1, <1>8, <2>3 DEF TypeOK
  <2>5. \A d \in commands'[g] : \E e \in commands[g] : d.req = e.req  BY <1>8, <2>1, <2>2
  <2>6. QED  BY <2>4, <2>5
<1>9. CASE Next
  <2>1. "work_mode" \notin Options  BY SetupAssumption
  <2>2. QED  BY <1>3, <1>4, <1>5, <1>6, <1>7, <1>8, <1>9, <2>1 DEF Next
<1>10. CASE UNCHANGED vars  BY <1>3, <1>4, <1>10 DEF vars, historyVars
<1>11. QED  BY <1>9, <1>10

(* A lidar of the file is published only once it has acknowledged what its  *)
(* last entry gives, each option as the byte the parser keeps of it; and    *)
(* nothing else was ever sent to it.                                        *)
THEOREM PublishedAsConfigured == Spec => []EntryIsInForce
<1>1. Init => SentInv  BY DEF Init, SentInv
<1>2. Spec => []SentInv  BY <1>1, SetupSafe, SentStep, PTL DEF Spec
<1>3. SetupInv /\ SentInv => EntryIsInForce
  <2> SUFFICES ASSUME SetupInv, SentInv, NEW h \in Handles, connect_state[h] = "sampling", Entries(h) # {}
               PROVE  /\ acked[h] = {o \in DOMAIN Given(h) : Int8(Given(h)[o]) # NotGiven}
                      /\ \A o \in acked[h] : livox_config[h][o] = Int8(Given(h)[o])
    BY DEF EntryIsInForce
  <2>1. TypeOK /\ TableInv /\ LidarInv(h)  BY DEF SetupInv
  <2>2. h \in registered  BY <2>1 DEF LidarInv, Quiet
  <2>3. h \in DOMAIN livox_config  BY <2>1, <2>2 DEF TableInv
  <2>4. /\ Configured(h) = {o \in DOMAIN Given(h) : Int8(Given(h)[o]) # NotGiven}
        /\ \A o \in Configured(h) : livox_config[h][o] = Int8(Given(h)[o])
    BY <2>1, <2>3, EntryIsConfigured DEF TypeOK, TableInv
  <2>5. acked[h] = Configured(h)  BY <2>1 DEF LidarInv, SentInv
  <2>6. QED  BY <2>4, <2>5
<1>4. QED  BY SetupSafe, <1>2, <1>3, PTL

(* A lidar that is published, and has no command left to answer, has every  *)
(* option in force; however often it restarted, and whichever answers of an *)
(* earlier round cleared the marks of a later one.                          *)
THEOREM SettledIsApplied == Spec => []SettledMeansApplied
<1>1. SetupInv => SettledMeansApplied
  <2> SUFFICES ASSUME SetupInv, NEW h \in announced, connect_state[h] = "sampling",
                      Outstanding(h) \cap Options = {}, refused[h] = {},
                      NEW o \in Configured(h)
               PROVE  o \in applied[h]
    BY DEF SettledMeansApplied
  <2>1. h \in Handles /\ LidarInv(h) /\ o \in Options  BY DEF SetupInv, TypeOK, Configured
  <2>2. OnItsWay(h, o)  BY <2>1 DEF LidarInv, Quiet
  <2>3. [req |-> o, round |-> round[h], done |-> FALSE] \notin commands[h]
    BY <2>1 DEF Outstanding
  <2>4. QED  BY <2>2, <2>3 DEF OnItsWay
<1>2. QED  BY SetupSafe, <1>1, PTL
===============================================================================
