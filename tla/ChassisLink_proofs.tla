--------------------------- MODULE ChassisLink_proofs ---------------------------
(***************************************************************************)
(* Proofs about ChassisNode and its core: for every configuration, every   *)
(* number of attempts, replies and restarts and every length of the        *)
(* endpoint's queues; and, at the end, about the mission of PatrolSender.  *)
(***************************************************************************)
EXTENDS MC_Car, SequenceTheorems, TLAPS

(* The bounds are numbers.                                                  *)
LEMMA Bounds ==
  /\ MaxAttempts \in Nat \ {0} /\ MaxCandidates \in Nat \ {0}
  /\ MaxChannel \in Nat \ {0} /\ MaxRestarts \in Nat
BY LinkAssumption, Zenon

(* What the strings of the two sides have to do with each other: no other   *)
(* command is one of the configuration, and only the answer to a            *)
(* configuration command contains one.                                      *)
LEMMA ConfigNames ==
  ConfigSet \cap {"PING", "STOP", "STATUS", "SET 0", "SET v", "none", "ERR"} = {}
<1>1. ConfigSet \cap (OtherCommands \cup {"OK SET", "rpmsg-echo", "BOOT=", "ERR", "none"}) = {}
  BY LinkAssumption, Zenon
<1>2. QED  BY <1>1 DEF OtherCommands

(* The configuration commands are those at the places of Config.            *)
LEMMA ConfigPlaces ==
  /\ Len(Config) \in Nat \ {0}
  /\ \A i \in 1 .. Len(Config) : Config[i] \in ConfigSet
  /\ \A c \in ConfigSet : \E i \in 1 .. Len(Config) : c = Config[i]
<1>1. Config \in Seq(STRING) /\ Config # <<>>  BY LinkAssumption, Zenon
<1>2. Len(Config) \in Nat \ {0} /\ DOMAIN Config = 1 .. Len(Config)  BY <1>1
<1>3. QED  BY <1>2 DEF ConfigSet

(* Only the answer to a configuration command contains one.                 *)
LEMMA Needles ==
  ASSUME NEW c \in Command
  PROVE  /\ c \in ConfigSet => Needle(c) = c
         /\ Needle(c) \in ConfigSet => c \in ConfigSet
<1>1. ConfigSet \cap {"OK SET", "rpmsg-echo", "BOOT="} = {}
  <2>1. ConfigSet \cap (OtherCommands \cup {"OK SET", "rpmsg-echo", "BOOT=", "ERR", "none"}) = {}
    BY LinkAssumption, Zenon
  <2>2. QED  BY <2>1
<1>2. c \in ConfigSet => Needle(c) = c  BY ConfigNames DEF Needle
<1>3. ASSUME Needle(c) \in ConfigSet  PROVE c \in ConfigSet
  <2>1. CASE c \in {"PING", "STATUS", "SET 0", "SET v"}
    <3>1. Needle(c) \in {"rpmsg-echo", "BOOT=", "OK SET"}  BY <2>1 DEF Needle
    <3>2. QED  BY <3>1, <1>1, <1>3
  <2>2. CASE c = "STOP"
    <3>1. Needle(c) = "STOP"  BY <2>2 DEF Needle
    <3>2. QED  BY <3>1, ConfigNames, <1>3
  <2>3. QED  BY <2>1, <2>2 DEF Command, OtherCommands
<1>4. QED  BY <1>2, <1>3

(* The lines in a queue.  A queue grows at the end and is shortened from    *)
(* the front.                                                               *)
Lines(q) == {q[i] : i \in DOMAIN q}

(* A line that is read leaves the others.                                   *)
LEMMA TailLines ==
  ASSUME NEW S, NEW q \in Seq(S), q # <<>>
  PROVE  /\ Tail(q) \in Seq(S) /\ Len(Tail(q)) \in Nat /\ Len(Tail(q)) <= Len(q)
         /\ Head(q) \in S /\ Head(q) \in Lines(q) /\ Lines(Tail(q)) \subseteq Lines(q)
BY DEF Lines

(* A line that is sent is added to the others.                              *)
LEMMA AppendLines ==
  ASSUME NEW S, NEW q \in Seq(S), NEW x \in S
  PROVE  /\ Append(q, x) \in Seq(S) /\ Len(Append(q, x)) = Len(q) + 1
         /\ Lines(Append(q, x)) = Lines(q) \cup {x}
<1>1. Append(q, x) \in Seq(S) /\ Len(Append(q, x)) = Len(q) + 1  OBVIOUS
<1>2. Lines(Append(q, x)) \subseteq Lines(q) \cup {x}  BY DEF Lines
<1>3. x \in Lines(Append(q, x))  
  <2>1. Append(q, x)[Len(q) + 1] = x /\ Len(q) + 1 \in DOMAIN Append(q, x)  OBVIOUS
  <2>2. QED  BY <2>1 DEF Lines
<1>4. ASSUME NEW i \in DOMAIN q  PROVE q[i] \in Lines(Append(q, x))
  <2>1. Append(q, x)[i] = q[i] /\ i \in DOMAIN Append(q, x)  OBVIOUS
  <2>2. QED  BY <2>1 DEF Lines
<1>5. QED  BY <1>1, <1>2, <1>3, <1>4 DEF Lines

(* Draining leaves some of the lines.                                       *)
LEMMA DrainedLines ==
  ASSUME NEW S, NEW q \in Seq(S)
  PROVE  /\ Drained(q) \in Seq(S) /\ Len(Drained(q)) \in Nat /\ Len(Drained(q)) <= Len(q)
         /\ Lines(Drained(q)) \subseteq Lines(q)
<1>1. CASE Len(q) <= DrainReads
  BY <1>1 DEF Drained, DrainReads, Lines
<1>2. CASE Len(q) > DrainReads
  BY <1>2 DEF Drained, DrainReads, Lines
<1>3. QED  BY <1>1, <1>2 DEF DrainReads

-------------------------------------------------------------------------------
(* Which command can be under way when. *)
RequestInv ==
  /\ request \in ConfigSet => tries \in 1 .. Len(Config) /\ request = Config[tries]
  /\ request = "PING" => ~ready /\ tries \in 1 .. MaxAttempts
  /\ request \in {"SET 0", "SET v", "STATUS"} /\ node = "running" => ready
  /\ node = "leaving" => request \in {"SET 0", "STOP"}
  /\ node = "gone" => Idle
  /\ node = "running" => request # "STOP"

(* The STOP of the destructor is the last the core is sent, so that no      *)
(* speed comes after it.                                                    *)
StopInv ==
  /\ node = "running" => "STOP" \notin Lines(commands)
  /\ \A i, j \in DOMAIN commands : i < j /\ commands[i] = "STOP" => commands[j] # "SET v"

(* What the core has done of the configuration: START it may have taken     *)
(* back, once no speed can follow any more.                                 *)
Stopped == node # "running" /\ "SET v" \notin Lines(commands)
InForce(c) == c \in applied \/ (c = "START" /\ Stopped)
Configured == \A c \in ConfigSet : InForce(c)

(* As long as the core has not restarted: a configuration command that is   *)
(* answered is in force; a node that is ready has had the answers to all,   *)
(* or to all it has sent so far; and a speed is on its way, or at the core, *)
(* only after that.                                                         *)
DrivenInv ==
  restarts = 0 =>
    /\ \A reply \in Lines(replies) : reply.text \in ConfigSet => InForce(reply.text)
    /\ ready => IF request \in ConfigSet THEN \A i \in 1 .. tries - 1 : InForce(Config[i])
                ELSE Configured
    /\ request = "SET v" \/ "SET v" \in Lines(commands) \/ speed = "v" => Configured

(* While the link is being set up, and when it is down, the last word is    *)
(* not "Ok".                                                                *)
ReportInv ==
  /\ node = "running" /\ request \in ConfigSet \cup {"PING"} => status_code # "Ok"
  /\ LossIsReported

LinkInv == TypeOK /\ RequestInv

(* The node starts idle, with nothing sent and nothing lost.                *)
LEMMA LinkInit == Init => LinkInv /\ DrivenInv /\ ReportInv
<1> SUFFICES ASSUME Init PROVE LinkInv /\ DrivenInv /\ ReportInv  OBVIOUS
<1>1. TypeOK
  <2>1. ready \in BOOLEAN /\ timed_out \in BOOLEAN  BY Zenon DEF Init
  <2>2. /\ setpoint \in {"0", "v"} /\ speed \in {"0", "v"} /\ request = "PING"
        /\ step \in {"write", "read"} /\ tries \in Nat /\ candidates \in 0 .. MaxCandidates
        /\ status_code = "none" /\ node = "running" /\ applied = {} /\ restarts \in 0 .. MaxRestarts
    BY Bounds DEF Init
  <2>3. /\ commands \in Seq(Command) /\ Len(commands) <= MaxChannel
        /\ replies \in Seq(Reply) /\ Len(replies) <= MaxChannel
    BY Bounds DEF Init
  <2>4. "PING" \in Command  BY DEF Command, OtherCommands
  <2>5. QED  BY <2>1, <2>2, <2>3, <2>4, Zenon DEF TypeOK
<1>2. RequestInv
  <2>1. request = "PING" /\ ~ready /\ node = "running"  BY DEF Init
  <2>2. tries \in 1 .. MaxAttempts  BY Bounds DEF Init
  <2>3. QED  BY <2>1, <2>2, ConfigNames, Zenon DEF RequestInv
<1>3. DrivenInv
  <2>1. Lines(commands) = {} /\ Lines(replies) = {}  BY DEF Init, Lines
  <2>2. QED  BY <2>1 DEF Init, DrivenInv
<1>4. ReportInv  BY DEF Init, ReportInv, LossIsReported, Idle
<1>5. QED  BY <1>1, <1>2, <1>3, <1>4 DEF LinkInv

(* How a transaction ends, with its reply or without one: what the node     *)
(* goes on with.                                                            *)
GoesOn ==
  /\ tries' \in Nat /\ step' \in {"write", "read"}
  /\ \/ request' = "none" /\ node' = (IF node = "leaving" THEN "gone" ELSE "running")
     \/ request' = "STOP" /\ node' = "leaving" /\ node = "leaving"
     \/ request' = "PING" /\ request = "PING" /\ tries' = tries + 1 /\ tries < MaxAttempts
          /\ node' = "running" /\ node = "running"
     \/ request' \in ConfigSet /\ request' = Config[tries'] /\ tries' \in 1 .. Len(Config)
          /\ request \in ConfigSet \cup {"PING"}
          /\ tries' = (IF request = "PING" THEN 1 ELSE tries + 1)
          /\ node' = "running" /\ node = "running"

(* After a configuration command comes the next, or none after the last.    *)
LEMMA NextConfigGoesOn ==
  ASSUME LinkInv, node = "running", request \in ConfigSet, NextConfig, UNCHANGED node
  PROVE  GoesOn /\ (Idle' => tries = Len(Config))
<1>1. tries \in 1 .. Len(Config) /\ Len(Config) \in Nat  BY ConfigPlaces DEF LinkInv, RequestInv
<1>2. step \in {"write", "read"}  BY DEF LinkInv, TypeOK
<1>3. CASE tries < Len(Config)
  <2>1. tries' \in 1 .. Len(Config) /\ tries' = tries + 1  BY <1>1, <1>3 DEF NextConfig
  <2>2. request' = Config[tries'] /\ step' = "write"  BY <2>1, <1>3 DEF NextConfig, Start
  <2>3. request' \in ConfigSet /\ request' # "none"  BY <2>1, <2>2, ConfigPlaces, ConfigNames
  <2>4. request # "PING"  BY ConfigNames
  <2>5. QED  BY <2>1, <2>2, <2>3, <2>4 DEF GoesOn, Idle
<1>4. CASE ~(tries < Len(Config))
  <2>1. request' = "none" /\ step' = step /\ tries' = tries  BY <1>4 DEF NextConfig, Done
  <2>2. tries = Len(Config)  BY <1>1, <1>4
  <2>3. QED  BY <2>1, <2>2, <1>1, <1>2 DEF GoesOn
<1>5. QED  BY <1>3, <1>4

(* After the STOP of the destructor the node is gone.                       *)
LEMMA LeaveGoesOn ==
  ASSUME LinkInv, node = "leaving", Leave
  PROVE  GoesOn
BY DEF Leave, Start, Done, GoesOn, LinkInv, TypeOK

(* A transaction that was answered goes on as GoesOn says.                  *)
LEMMA SuccessGoesOn ==
  ASSUME LinkInv, ~Idle, NEW reply, NEW rest, Succeed(reply, rest)
  PROVE  GoesOn
<1>1. node = "leaving" \/ node = "running"  BY DEF LinkInv, RequestInv, TypeOK
<1>2. CASE node = "leaving"
  BY <1>2, LeaveGoesOn DEF Succeed
<1>3. CASE node = "running" /\ request = "PING"
  <2>1. request \notin ConfigSet  BY <1>3, ConfigNames
  <2>2. request' = Config[1] /\ step' = "write" /\ tries' = 1 /\ node' = "running"
    BY <1>3, <2>1 DEF Succeed, Start
  <2>3. 1 \in 1 .. Len(Config)  BY ConfigPlaces
  <2>4. Config[1] \in ConfigSet  BY <2>3, ConfigPlaces
  <2>5. QED  BY <1>3, <2>2, <2>3, <2>4 DEF GoesOn
<1>4. CASE node = "running" /\ request \in ConfigSet
  BY <1>4, ConfigNames, NextConfigGoesOn DEF Succeed
<1>5. CASE node = "running" /\ request \in {"SET 0", "SET v", "STATUS"}
  BY <1>5, ConfigNames DEF Succeed, Done, GoesOn, LinkInv, TypeOK
<1>6. QED  BY <1>1, <1>2, <1>3, <1>4, <1>5 DEF Succeed

(* So does one that has failed.                                             *)
LEMMA FailureGoesOn ==
  ASSUME LinkInv, ~Idle, NEW rest, Fail(rest)
  PROVE  GoesOn
<1>1. node = "leaving" \/ node = "running"  BY DEF LinkInv, RequestInv, TypeOK
<1>2. CASE node = "leaving"
  BY <1>2, LeaveGoesOn DEF Fail
<1>3. CASE node = "running" /\ request = "PING"
  <2>1. request \notin ConfigSet  BY <1>3, ConfigNames
  <2>2. tries \in Nat /\ step \in {"write", "read"}  BY DEF LinkInv, TypeOK
  <2>3. CASE tries < MaxAttempts
    <3>1. request' = "PING" /\ step' = "write" /\ tries' = tries + 1 /\ node' = "running"
      BY <1>3, <2>1, <2>2, <2>3, Bounds DEF Fail, Start
    <3>2. QED  BY <1>3, <2>2, <2>3, <3>1 DEF GoesOn
  <2>4. CASE ~(tries < MaxAttempts)
    <3>1. request' = "none" /\ step' = step /\ tries' = tries /\ node' = "running"
      BY <1>3, <2>1, <2>4 DEF Fail, Done
    <3>2. QED  BY <1>3, <2>2, <3>1 DEF GoesOn
  <2>5. QED  BY <2>3, <2>4
<1>4. CASE node = "running" /\ request \in ConfigSet
  BY <1>4, ConfigNames, NextConfigGoesOn DEF Fail
<1>5. CASE node = "running" /\ request \in {"SET 0", "SET v", "STATUS"}
  BY <1>5, ConfigNames DEF Fail, Done, GoesOn, LinkInv, TypeOK
<1>6. QED  BY <1>1, <1>2, <1>3, <1>4, <1>5 DEF Fail

-------------------------------------------------------------------------------
(* After a transaction the types are right and the next command is one that *)
(* can be under way, whatever became of ready_ and the status code.         *)
LEMMA GoesOnRight ==
  ASSUME LinkInv, GoesOn, request' = "PING" => ~ready'
  PROVE  request' \in Command \cup {"none"} /\ node' \in {"running", "leaving", "gone"} /\ RequestInv'
<1>1. CASE request' = "none" /\ node' = (IF node = "leaving" THEN "gone" ELSE "running")
  BY <1>1, ConfigNames DEF RequestInv, Idle
<1>2. CASE request' = "STOP" /\ node' = "leaving"
  BY <1>2, ConfigNames DEF RequestInv, Idle, Command, OtherCommands
<1>3. CASE request' = "PING" /\ tries' = tries + 1 /\ tries < MaxAttempts /\ node' = "running" /\ request = "PING"
  <2>1. tries' \in 1 .. MaxAttempts  BY <1>3, Bounds DEF LinkInv, TypeOK
  <2>2. QED  BY <1>3, <2>1, ConfigNames DEF RequestInv, Command, OtherCommands
<1>4. CASE request' \in ConfigSet /\ request' = Config[tries'] /\ tries' \in 1 .. Len(Config) /\ node' = "running"
  <2>1. request' \notin {"PING", "STOP", "STATUS", "SET 0", "SET v"}  BY <1>4, ConfigNames
  <2>2. QED  BY <1>4, <2>1 DEF RequestInv, Command
<1>5. QED  BY <1>1, <1>2, <1>3, <1>4 DEF GoesOn

(* A transaction that was answered keeps the types and sends what may be.   *)
LEMMA SuccessKeeps ==
  ASSUME LinkInv, ~Idle, NEW reply, NEW rest \in Seq(Reply), Len(rest) <= MaxChannel,
         Succeed(reply, rest), candidates' = candidates,
         UNCHANGED <<setpoint, timed_out, commands, coreVars>>
  PROVE  LinkInv' /\ Lines(replies') \subseteq Lines(rest)
<1>1. GoesOn  BY SuccessGoesOn
<1>2. request' # "PING"
  <2>1. request = "PING" => request' = Config[1] \/ node = "leaving"
    BY ConfigNames DEF Succeed, Start
  <2>2. Config[1] \in ConfigSet  BY ConfigPlaces
  <2>3. ~(node = "leaving" /\ request = "PING")  BY DEF LinkInv, RequestInv
  <2>4. Config[1] # "PING"  BY <2>2, ConfigNames
  <2>5. request' = "PING" => request = "PING"  BY <1>1, ConfigNames DEF GoesOn
  <2>6. QED  BY <2>1, <2>3, <2>4, <2>5
<1>3. request' \in Command \cup {"none"} /\ node' \in {"running", "leaving", "gone"} /\ RequestInv'
  BY <1>1, <1>2, GoesOnRight
<1>4. ready' \in BOOLEAN  BY Zenon DEF Succeed
<1>5. replies' \in Seq(Reply) /\ Len(replies') <= MaxChannel /\ Lines(replies') \subseteq Lines(rest)
  <2>1. replies' = rest \/ replies' = Drained(rest)  BY DEF Succeed
  <2>2. Drained(rest) \in Seq(Reply) /\ Len(Drained(rest)) <= MaxChannel
          /\ Lines(Drained(rest)) \subseteq Lines(rest)
    BY DrainedLines, Bounds
  <2>3. QED  BY <2>1, <2>2
<1>6. status_code' \in {"none", "Ok", "RpmsgNotReady", "RttStopped", "StatusParseError",
                        "CanError", "CommError"}
  <2>1. status_code' \in StatusCodes(reply) \/ status_code' = status_code  BY DEF Succeed
  <2>2. QED  BY <2>1 DEF StatusCodes, LinkInv, TypeOK
<1>7. tries' \in Nat /\ step' \in {"write", "read"}  BY <1>1 DEF GoesOn
<1>8. TypeOK'  BY <1>3, <1>4, <1>5, <1>6, <1>7, Zenon DEF TypeOK, LinkInv, coreVars
<1>9. QED  BY <1>3, <1>5, <1>8 DEF LinkInv

(* So does one that has failed.                                             *)
LEMMA FailureKeeps ==
  ASSUME LinkInv, ~Idle, NEW rest \in Seq(Reply), Len(rest) <= MaxChannel,
         Fail(rest), candidates' = candidates,
         UNCHANGED <<setpoint, timed_out, commands, coreVars>>
  PROVE  LinkInv' /\ Lines(replies') \subseteq Lines(rest)
<1>1. GoesOn  BY FailureGoesOn
<1>2. request' = "PING" => ~ready'
  <2>1. request' = "PING" => request = "PING"  BY <1>1, ConfigNames DEF GoesOn
  <2>2. request = "PING" => ~ready  BY DEF LinkInv, RequestInv
  <2>3. ready' => ready  BY DEF Fail, StillReady
  <2>4. QED  BY <2>1, <2>2, <2>3
<1>3. request' \in Command \cup {"none"} /\ node' \in {"running", "leaving", "gone"} /\ RequestInv'
  BY <1>1, <1>2, GoesOnRight
<1>4. ready' \in BOOLEAN  BY Zenon DEF Fail, StillReady
<1>5. replies' \in Seq(Reply) /\ Len(replies') <= MaxChannel /\ Lines(replies') \subseteq Lines(rest)
  <2>1. replies' = rest \/ replies' = Drained(rest)  BY DEF Fail
  <2>2. Drained(rest) \in Seq(Reply) /\ Len(Drained(rest)) <= MaxChannel
          /\ Lines(Drained(rest)) \subseteq Lines(rest)
    BY DrainedLines, Bounds
  <2>3. QED  BY <2>1, <2>2
<1>6. status_code' \in {"none", "Ok", "RpmsgNotReady", "RttStopped", "StatusParseError",
                        "CanError", "CommError"}
  <2>1. status_code' \in {"RpmsgNotReady", "CommError", status_code}  BY DEF Fail, FailureCode
  <2>2. QED  BY <2>1 DEF LinkInv, TypeOK
<1>7. tries' \in Nat /\ step' \in {"write", "read"}  BY <1>1 DEF GoesOn
<1>8. TypeOK'  BY <1>3, <1>4, <1>5, <1>6, <1>7, Zenon DEF TypeOK, LinkInv, coreVars
<1>9. QED  BY <1>3, <1>5, <1>8 DEF LinkInv

(* A reply is read, or none comes. *)
LEMMA ReadKeeps ==
  ASSUME LinkInv, ReadReply
  PROVE  LinkInv'
<1> DEFINE reply == Head(replies)
           rest == Tail(replies)
<1>1. rest \in Seq(Reply) /\ Len(rest) <= MaxChannel
  <2>1. replies \in Seq(Reply) /\ replies # <<>> /\ Len(replies) <= MaxChannel
    BY DEF LinkInv, TypeOK, ReadReply
  <2>2. QED  BY <2>1, TailLines, Bounds
<1>2. ~Idle /\ UNCHANGED <<setpoint, timed_out, commands, coreVars>>  BY DEF ReadReply
<1>3. CASE Succeed(reply, rest) /\ UNCHANGED candidates
  <2> HIDE DEF reply, rest
  <2>1. QED  BY <1>1, <1>2, <1>3, SuccessKeeps
<1>4. CASE Fail(rest) /\ UNCHANGED candidates
  <2> HIDE DEF reply, rest
  <2>1. QED  BY <1>1, <1>2, <1>4, FailureKeeps
<1>5. CASE /\ candidates > 1 /\ candidates' = candidates - 1 /\ replies' = rest
           /\ UNCHANGED <<ready, request, step, tries, status_code, node>>
  <2> HIDE DEF rest
  <2>1. candidates' \in 0 .. MaxCandidates  BY <1>5, Bounds DEF LinkInv, TypeOK
  <2>2. TypeOK'  BY <1>1, <1>2, <1>5, <2>1, Zenon DEF LinkInv, TypeOK, coreVars
  <2>3. RequestInv'  BY <1>5 DEF LinkInv, RequestInv, Idle
  <2>4. QED  BY <2>2, <2>3 DEF LinkInv
<1>6. QED  BY <1>3, <1>4, <1>5 DEF ReadReply

(* A command for the core, carried out or refused: the node does not notice.*)
LEMMA CoreKeeps ==
  ASSUME LinkInv, Execute \/ Refuse
  PROVE  /\ LinkInv'
         /\ \A d \in applied : d \in applied' \/ (d = "START" /\ Head(commands) = "STOP")
         /\ Head(commands) \in Command /\ Head(commands) \in Lines(commands)
         /\ Lines(commands') \subseteq Lines(commands)
<1> DEFINE c == Head(commands)
<1>1. commands \in Seq(Command) /\ commands # <<>> /\ commands' = Tail(commands) /\ Len(commands) <= MaxChannel
  BY DEF LinkInv, TypeOK, Execute, Refuse
<1>2. /\ c \in Command /\ c \in Lines(commands) /\ Lines(commands') \subseteq Lines(commands)
      /\ commands' \in Seq(Command) /\ Len(commands') <= MaxChannel
  BY <1>1, TailLines, Bounds
<1>3. PICK text \in {Needle(d) : d \in Command} \cup {"ERR"} : Answer(text)
  BY <1>2 DEF Execute, Refuse
<1>4. replies' \in Seq(Reply) /\ Len(replies') <= MaxChannel
  <2>1. ("START" \in applied') \in BOOLEAN  OBVIOUS
  <2>2. [text |-> text, run |-> "START" \in applied'] \in Reply  BY <2>1, <1>3, Zenon DEF Reply
  <2>3. replies \in Seq(Reply)  BY DEF LinkInv, TypeOK
  <2>4. Len(replies) < MaxChannel /\ replies' = Append(replies, [text |-> text, run |-> "START" \in applied'])
    BY <1>3 DEF Answer
  <2> DEFINE r == [text |-> text, run |-> "START" \in applied']
  <2> HIDE DEF r
  <2>5. r \in Reply /\ replies' = Append(replies, r)  BY <2>2, <2>4 DEF r
  <2>6. QED  BY <2>3, <2>4, <2>5, AppendLines, Bounds
<1>5. /\ applied' \subseteq ConfigSet
      /\ \A d \in applied : d \in applied' \/ (d = "START" /\ c = "STOP")
  <2>1. CASE Refuse  BY <2>1 DEF Refuse, LinkInv, TypeOK
  <2>2. CASE Execute
    <3>1. applied \subseteq ConfigSet  BY DEF LinkInv, TypeOK
    <3>2. CASE c \in ConfigSet
      <4>0. c # "STOP"  BY <3>2, ConfigNames
      <4>1. applied' = applied \cup {c}  BY <2>2, <3>2, <4>0 DEF Execute
      <4>2. QED  BY <3>1, <3>2, <4>1
    <3>3. CASE c \notin ConfigSet /\ c = "STOP"
      <4>1. applied' = applied \ {"START"}  BY <2>2, <3>3 DEF Execute
      <4>2. QED  BY <3>1, <3>3, <4>1
    <3>4. CASE c \notin ConfigSet /\ c # "STOP"
      <4>1. applied' = applied  BY <2>2, <3>4 DEF Execute
      <4>2. QED  BY <3>1, <4>1
    <3>5. QED  BY <3>2, <3>3, <3>4
  <2>3. QED  BY <2>1, <2>2
<1>6. speed' \in {"0", "v"}  BY DEF Execute, Refuse, LinkInv, TypeOK
<1>7. UNCHANGED <<nodeVars, restarts>>  BY DEF Execute, Refuse
<1>8. TypeOK'  BY <1>2, <1>4, <1>5, <1>6, <1>7, Zenon DEF LinkInv, TypeOK, nodeVars
<1>9. RequestInv'  BY <1>7 DEF LinkInv, RequestInv, Idle, nodeVars
<1>10. QED  BY <1>2, <1>5, <1>8, <1>9 DEF LinkInv

(* Every step keeps the types and sends only what can be sent. *)
LEMMA LinkStep ==
  ASSUME LinkInv, [Next]_vars
  PROVE  LinkInv'
<1> USE DEF LinkInv
<1>1. ASSUME NEW v \in {"0", "v"}, CmdVel(v)  PROVE LinkInv'
  <2>1. timed_out' \in BOOLEAN /\ setpoint' \in {"0", "v"}  BY <1>1, Zenon DEF CmdVel
  <2>2. TypeOK'  BY <1>1, <2>1, Zenon DEF TypeOK, CmdVel, coreVars
  <2>3. RequestInv'  BY <1>1 DEF RequestInv, Idle, CmdVel
  <2>4. QED  BY <2>2, <2>3
<1>2. CASE Bootstrap
  <2>1. replies' \in Seq(Reply) /\ Len(replies') <= MaxChannel
    BY <1>2, DrainedLines, Bounds DEF Bootstrap, TypeOK
  <2>2. request' = "PING" /\ request' \in Command /\ step' = "write" /\ tries' = 1 /\ tries' \in Nat
    BY <1>2 DEF Bootstrap, Start, Command, OtherCommands
  <2>3. TypeOK'  BY <1>2, <2>1, <2>2, Zenon DEF TypeOK, Bootstrap, coreVars
  <2>4. tries' \in 1 .. MaxAttempts  BY <2>2, Bounds
  <2>5. node' = "running" /\ ~ready'  BY <1>2 DEF Bootstrap
  <2>6. RequestInv'  BY <2>2, <2>4, <2>5, ConfigNames DEF RequestInv
  <2>7. QED  BY <2>3, <2>6
<1>3. CASE Control
  <2>1. request' \in {"SET 0", "SET v"} /\ step' = "write"  BY <1>3 DEF Control, Start
  <2>2. request' \in Command  BY <2>1 DEF Command, OtherCommands
  <2>3. TypeOK'  BY <1>3, <2>1, <2>2, Zenon DEF TypeOK, Control, coreVars
  <2>4. node' = "running" /\ (ready => ready') /\ ready  BY <1>3 DEF Control
  <2>5. RequestInv'  BY <2>1, <2>4, ConfigNames DEF RequestInv
  <2>6. QED  BY <2>3, <2>5
<1>4. CASE StatusLoop
  <2>1. CASE ready
    <3>1. request' = "STATUS" /\ request' \in Command /\ step' = "write" /\ status_code' = status_code
      BY <1>4, <2>1 DEF StatusLoop, Start, Command, OtherCommands
    <3>2. TypeOK'  BY <1>4, <3>1, Zenon DEF TypeOK, StatusLoop, coreVars
    <3>3. node' = "running" /\ ready'  BY <1>4, <2>1 DEF StatusLoop
    <3>4. RequestInv'  BY <3>1, <3>3, ConfigNames DEF RequestInv
    <3>5. QED  BY <3>2, <3>4
  <2>2. CASE ~ready
    <3>1. request' = request /\ step' = step /\ status_code' = "RpmsgNotReady"
      BY <1>4, <2>2 DEF StatusLoop
    <3>2. TypeOK'  BY <1>4, <3>1, Zenon DEF TypeOK, StatusLoop, coreVars
    <3>3. RequestInv'  BY <1>4, <3>1 DEF RequestInv, StatusLoop, Idle
    <3>4. QED  BY <3>2, <3>3
  <2>3. QED  BY <2>1, <2>2
<1>5. CASE Destroy
  <2>1. request' = "SET 0" /\ request' \in Command /\ step' = "write" /\ node' = "leaving"
    BY <1>5 DEF Destroy, Start, Command, OtherCommands
  <2>2. TypeOK'  BY <1>5, <2>1, Zenon DEF TypeOK, Destroy, coreVars
  <2>3. RequestInv'  BY <2>1, ConfigNames DEF RequestInv
  <2>4. QED  BY <2>2, <2>3
<1>6. CASE WriteCommand
  <2>1. request \in Command /\ Len(commands) < MaxChannel /\ commands' = Append(commands, request)
    BY <1>6 DEF TypeOK, WriteCommand, Idle
  <2>2. commands' \in Seq(Command) /\ Len(commands') <= MaxChannel
    BY <2>1, AppendLines, Bounds DEF TypeOK
  <2>3. step' = "read" /\ candidates' \in 0 .. MaxCandidates  BY <1>6, Bounds DEF WriteCommand
  <2>4. TypeOK'  BY <1>6, <2>2, <2>3, Zenon DEF TypeOK, WriteCommand, coreVars
  <2>5. RequestInv'  BY <1>6 DEF RequestInv, WriteCommand, Idle
  <2>6. QED  BY <2>4, <2>5
<1>7. CASE WriteFails
  BY <1>7, FailureKeeps DEF WriteFails, TypeOK
<1>8. CASE ReadReply  BY <1>8, ReadKeeps
<1>9. CASE ReadTimesOut
  BY <1>9, FailureKeeps DEF ReadTimesOut, TypeOK
<1>10. CASE CmdExpires
  <2>1. timed_out' \in BOOLEAN  BY <1>10, Zenon DEF CmdExpires
  <2>2. TypeOK'  BY <1>10, <2>1, Zenon DEF TypeOK, CmdExpires, coreVars
  <2>3. RequestInv'  BY <1>10 DEF RequestInv, Idle, CmdExpires
  <2>4. QED  BY <2>2, <2>3
<1>11. CASE Execute \/ Refuse  BY <1>11, CoreKeeps
<1>12. CASE CoreRestarts
  <2>1. commands' \in Seq(Command) /\ Len(commands') <= MaxChannel  BY <1>12, Bounds DEF CoreRestarts
  <2>2. restarts' \in 0 .. MaxRestarts  BY <1>12, Bounds DEF CoreRestarts, TypeOK
  <2>3. applied' \subseteq ConfigSet /\ speed' \in {"0", "v"}  BY <1>12 DEF CoreRestarts
  <2>4. TypeOK'  BY <1>12, <2>1, <2>2, <2>3, Zenon DEF TypeOK, CoreRestarts, nodeVars
  <2>5. RequestInv'  BY <1>12 DEF RequestInv, Idle, CoreRestarts, nodeVars
  <2>6. QED  BY <2>4, <2>5
<1>13. CASE UNCHANGED vars
  <2>1. TypeOK'  BY <1>13, Zenon DEF TypeOK, vars, nodeVars, coreVars
  <2>2. RequestInv'  BY <1>13 DEF RequestInv, Idle, vars, nodeVars
  <2>3. QED  BY <2>1, <2>2
<1>14. QED
  BY <1>1, <1>2, <1>3, <1>4, <1>5, <1>6, <1>7, <1>8, <1>9, <1>10, <1>11, <1>12, <1>13
  DEF Next, Callbacks, Transaction, Environment

-------------------------------------------------------------------------------
(* A running node sends no STOP, and after it no speed.                     *)
LEMMA StopStep ==
  ASSUME LinkInv, StopInv, [Next]_vars
  PROVE  StopInv' /\ (Stopped => Stopped')
<1>1. commands \in Seq(Command) /\ Len(commands) \in Nat /\ DOMAIN commands = 1 .. Len(commands)
  BY DEF LinkInv, TypeOK
<1>2. node' = "running" => node = "running"
  <2>1. ASSUME ~Idle, NEW reply, NEW rest, Succeed(reply, rest) \/ Fail(rest)
        PROVE  node' = "running" => node = "running"
    <3>1. GoesOn  BY <2>1, SuccessGoesOn, FailureGoesOn
    <3>2. node = "running" \/ node = "leaving"  BY <2>1 DEF LinkInv, TypeOK, RequestInv
    <3>3. QED  BY <3>1, <3>2 DEF GoesOn
  <2>2. ReadReply \/ WriteFails \/ ReadTimesOut => (node' = "running" => node = "running")
    BY <2>1 DEF ReadReply, WriteFails, ReadTimesOut
  <2>3. \/ ReadReply \/ WriteFails \/ ReadTimesOut
        \/ node' = node \/ node' = "leaving"
    BY DEF Next, Callbacks, Transaction, Environment, CmdVel, Bootstrap, Control, StatusLoop, Destroy,
        WriteCommand, CmdExpires, Execute, Refuse, CoreRestarts, vars, nodeVars
  <2>4. QED  BY <2>2, <2>3
<1>3. CASE commands' = commands  BY <1>2, <1>3 DEF StopInv, Stopped, Lines
<1>4. CASE WriteCommand
  <2>1. request \in Command /\ commands' = Append(commands, request) /\ node' = node
    BY <1>4 DEF LinkInv, TypeOK, WriteCommand, Idle
  <2>2. Lines(commands') = Lines(commands) \cup {request}  BY <1>1, <2>1, AppendLines
  <2>3. node = "running" => request # "STOP"  BY DEF LinkInv, RequestInv
  <2>4. node # "running" => request \in {"SET 0", "STOP"}
    BY <1>4 DEF WriteCommand, LinkInv, TypeOK, RequestInv
  <2>5. ASSUME NEW i \in DOMAIN commands', NEW j \in DOMAIN commands', i < j, commands'[i] = "STOP"
        PROVE  commands'[j] # "SET v"
    <3>1. i \in DOMAIN commands /\ commands[i] = "STOP"  BY <1>1, <2>1, <2>5
    <3>2. node # "running"  BY <3>1 DEF StopInv, Lines
    <3>3. CASE j \in DOMAIN commands
      <4>1. commands'[j] = commands[j]  BY <1>1, <2>1, <3>3
      <4>2. QED  BY <2>5, <3>1, <3>3, <4>1 DEF StopInv
    <3>4. CASE j \notin DOMAIN commands
      <4>1. commands'[j] = request  BY <1>1, <2>1, <3>4
      <4>2. QED  BY <2>4, <3>2, <4>1
    <3>5. QED  BY <3>3, <3>4
  <2>6. QED  BY <2>1, <2>2, <2>3, <2>4, <2>5 DEF StopInv, Stopped
<1>5. CASE Execute \/ Refuse
  <2>1. commands' = Tail(commands) /\ commands # <<>>  BY <1>5 DEF Execute, Refuse
  <2>2. Lines(commands') \subseteq Lines(commands)  BY <1>5, CoreKeeps
  <2>3. \A i \in DOMAIN commands' : i + 1 \in DOMAIN commands /\ commands'[i] = commands[i + 1] /\ i \in Nat
    BY <1>1, <2>1
  <2>4. ASSUME NEW i \in DOMAIN commands', NEW j \in DOMAIN commands', i < j, commands'[i] = "STOP"
        PROVE  commands'[j] # "SET v"
    <3>1. i + 1 < j + 1  BY <2>3, <2>4
    <3>2. QED  BY <2>3, <2>4, <3>1 DEF StopInv
  <2>5. QED  BY <1>2, <2>2, <2>4 DEF StopInv, Stopped
<1>6. CASE CoreRestarts
  <2>1. commands' = << >> /\ node' = node  BY <1>6 DEF CoreRestarts, nodeVars
  <2>2. Lines(commands') = {} /\ DOMAIN commands' = {}  BY <2>1 DEF Lines
  <2>3. QED  BY <2>1, <2>2 DEF StopInv, Stopped
<1>7. QED
  BY <1>3, <1>4, <1>5, <1>6
  DEF Next, Callbacks, Transaction, Environment, CmdVel, Bootstrap, Control, StatusLoop, Destroy,
      WriteFails, ReadReply, ReadTimesOut, CmdExpires, vars

(* What is in force stays in force until the core restarts: a STOP takes    *)
(* back only START, and only when no speed can follow.                      *)
LEMMA InForceStays ==
  ASSUME LinkInv, StopInv, [Next]_vars, restarts' = 0
  PROVE  /\ restarts = 0
         /\ \A c : InForce(c) => InForce(c)'
         /\ Configured => Configured'
<1>1. CASE CoreRestarts
  <2>1. restarts \in Nat /\ restarts' = restarts + 1
    BY <1>1, Bounds DEF CoreRestarts, LinkInv, TypeOK
  <2>2. QED  BY <2>1
<1>2. CASE ~CoreRestarts
  <2>1. Stopped => Stopped'  BY StopStep
  <2>2. CASE Execute \/ Refuse
    <3>1. restarts' = restarts  BY <2>2 DEF Execute, Refuse
    <3>2. \A d \in applied : d \in applied' \/ (d = "START" /\ Head(commands) = "STOP")
      BY <2>2, CoreKeeps
    <3>3. Head(commands) = "STOP" => Stopped'
      <4>1. commands \in Seq(Command) /\ commands # <<>> /\ commands' = Tail(commands) /\ node' = node
        BY <2>2 DEF LinkInv, TypeOK, Execute, Refuse, nodeVars
      <4>2. ASSUME Head(commands) = "STOP"  PROVE node # "running" /\ "SET v" \notin Lines(commands')
        <5>1. 1 \in DOMAIN commands /\ commands[1] = "STOP"  BY <4>1, <4>2
        <5>2. \A i \in DOMAIN commands' : i + 1 \in DOMAIN commands /\ 1 < i + 1 /\ commands'[i] = commands[i + 1]
          BY <4>1
        <5>3. \A i \in DOMAIN commands' : commands'[i] # "SET v"  BY <5>1, <5>2 DEF StopInv
        <5>4. QED  BY <5>1, <5>3 DEF StopInv, Lines
      <4>3. QED  BY <4>1, <4>2 DEF Stopped
    <3>4. QED  BY <2>1, <3>1, <3>2, <3>3 DEF InForce, Configured
  <2>3. CASE ~(Execute \/ Refuse)
    <3>1. restarts' = restarts /\ applied' = applied
      BY <1>2, <2>3
      DEF Next, Callbacks, Transaction, Environment, CmdVel, Bootstrap, Control, StatusLoop, Destroy,
          WriteCommand, WriteFails, ReadReply, ReadTimesOut, CmdExpires, vars, coreVars
    <3>2. QED  BY <2>1, <3>1 DEF InForce, Configured
  <2>4. QED  BY <2>2, <2>3
<1>3. QED  BY <1>1, <1>2

(* A transaction that ends gives the core nothing to do and starts no       *)
(* motion; it leaves a ready node with what ready means.                    *)
LEMMA EndedDriven ==
  ASSUME LinkInv, DrivenInv, restarts = 0, ~Idle, GoesOn,
         Lines(replies') \subseteq Lines(replies),
         ready' => ready \/ (request = "PING" /\ request' \in ConfigSet),
         ready' /\ request \in ConfigSet => InForce(request),
         request \in ConfigSet /\ Idle' => tries = Len(Config),
         UNCHANGED <<commands, coreVars>>,
         \A c : InForce(c) => InForce(c)', Configured => Configured'
  PROVE  DrivenInv'
<1>1. \A reply \in Lines(replies') : reply.text \in ConfigSet => InForce(reply.text)'
  BY DEF DrivenInv
<1>2. request' # "SET v"  BY ConfigNames DEF GoesOn
<1>3. request' = "SET v" \/ "SET v" \in Lines(commands') \/ speed' = "v" => Configured'
  BY <1>2 DEF DrivenInv, coreVars, Lines
<1>4. ASSUME ready'  
      PROVE  IF request' \in ConfigSet THEN \A i \in 1 .. tries' - 1 : InForce(Config[i]) ELSE Configured
  <2>1. CASE request = "PING" /\ request' \in ConfigSet
    <3>1. tries' = 1  BY <2>1, ConfigNames DEF GoesOn
    <3>2. QED  BY <2>1, <3>1
  <2>2. CASE request = "PING" /\ request' \notin ConfigSet
    BY <1>4, <2>2 DEF LinkInv, RequestInv
  <2>3. CASE request \in ConfigSet
    <3>1. tries \in 1 .. Len(Config) /\ request = Config[tries] /\ Len(Config) \in Nat
      BY <2>3, ConfigPlaces DEF LinkInv, RequestInv
    <3>2. ready /\ InForce(Config[tries])  BY <1>4, <2>3, <3>1, ConfigNames
    <3>3. \A i \in 1 .. tries - 1 : InForce(Config[i])  BY <2>3, <3>2 DEF DrivenInv
    <3>4. \A i \in 1 .. tries : InForce(Config[i])
      <4>1. \A i \in 1 .. tries : i \in 1 .. tries - 1 \/ i = tries  BY <3>1
      <4>2. QED  BY <3>2, <3>3, <4>1
    <3>5. node # "leaving"  BY <2>3, ConfigNames DEF LinkInv, RequestInv
    <3>6. CASE request' \in ConfigSet
      <4>1. tries' = tries + 1  BY <2>3, <3>6, ConfigNames DEF GoesOn
      <4>2. tries' - 1 = tries  BY <3>1, <4>1
      <4>3. QED  BY <3>4, <3>6, <4>2
    <3>7. CASE request' \notin ConfigSet
      <4>1. Idle'  BY <2>3, <3>5, <3>7, ConfigNames DEF GoesOn, Idle
      <4>2. tries = Len(Config)  BY <2>3, <4>1
      <4>3. Configured  BY <3>4, <4>2, ConfigPlaces DEF Configured
      <4>4. QED  BY <3>7, <4>3
    <3>8. QED  BY <3>6, <3>7
  <2>4. CASE request \notin ConfigSet \cup {"PING"}
    <3>1. request' \notin ConfigSet  BY <2>4, ConfigNames DEF GoesOn
    <3>2. ready  BY <1>4, <2>4
    <3>3. QED  BY <2>4, <3>1, <3>2 DEF DrivenInv
  <2>5. QED  BY <2>1, <2>2, <2>3, <2>4
<1>5. QED  BY <1>1, <1>3, <1>4 DEF DrivenInv

(* An answer puts the command in force it is the answer to.                 *)
LEMMA SuccessDriven ==
  ASSUME LinkInv, DrivenInv, restarts = 0, ~Idle, replies # <<>>,
         Head(replies).text = Needle(request), Succeed(Head(replies), Tail(replies)),
         UNCHANGED <<setpoint, timed_out, candidates, commands, coreVars>>,
         \A c : InForce(c) => InForce(c)', Configured => Configured'
  PROVE  DrivenInv'
<1> DEFINE reply == Head(replies)
           rest == Tail(replies)
<1>1. /\ rest \in Seq(Reply) /\ Len(rest) <= MaxChannel
      /\ Lines(rest) \subseteq Lines(replies) /\ reply \in Lines(replies)
  <2>1. replies \in Seq(Reply) /\ replies # <<>> /\ Len(replies) <= MaxChannel
    BY DEF LinkInv, TypeOK
  <2>2. QED  BY <2>1, TailLines, Bounds
<1>2. reply.text = Needle(request) /\ Succeed(reply, rest)  OBVIOUS
<1> HIDE DEF reply, rest
<1>3. GoesOn  BY <1>2, SuccessGoesOn
<1>4. Lines(replies') \subseteq Lines(replies)  BY <1>1, <1>2, SuccessKeeps
<1>5. ready' => ready \/ (request = "PING" /\ request' \in ConfigSet)
  <2>1. ready' => ready \/ request = "PING"  BY <1>2 DEF Succeed
  <2>2. request = "PING" => node # "leaving"  BY DEF LinkInv, RequestInv
  <2>3. request = "PING" => request' = Config[1]  BY <1>2, <2>2, ConfigNames DEF Succeed, Start
  <2>4. Config[1] \in ConfigSet  BY ConfigPlaces
  <2>5. request = "PING" => request' \in ConfigSet  BY <2>3, <2>4
  <2>6. QED  BY <2>1, <2>5, Zenon
<1>6. request \in ConfigSet => InForce(request)
  <2>1. ASSUME request \in ConfigSet  PROVE reply.text = request
    <3>1. request \in Command  BY <2>1 DEF Command
    <3>2. Needle(request) = request  BY <2>1, <3>1, Needles
    <3>3. QED  BY <1>2, <3>2
  <2>2. QED  BY <1>1, <2>1 DEF DrivenInv
<1>7. ASSUME request \in ConfigSet, Idle'  PROVE tries = Len(Config)
  <2>1. node = "running"  BY <1>7, ConfigNames DEF LinkInv, RequestInv, TypeOK, Idle
  <2>2. NextConfig /\ UNCHANGED node  BY <1>2, <1>7, <2>1, ConfigNames DEF Succeed
  <2>3. QED  BY <1>7, <2>1, <2>2, NextConfigGoesOn
<1>8. QED  BY <1>3, <1>4, <1>5, <1>6, <1>7, EndedDriven

(* A transaction that has failed takes readiness away, or never gave it.    *)
LEMMA FailureDriven ==
  ASSUME LinkInv, DrivenInv, restarts = 0, ~Idle, NEW rest \in Seq(Reply), Len(rest) <= MaxChannel,
         Lines(rest) \subseteq Lines(replies), Fail(rest),
         UNCHANGED <<setpoint, timed_out, candidates, commands, coreVars>>,
         \A c : InForce(c) => InForce(c)', Configured => Configured'
  PROVE  DrivenInv'
<1>1. GoesOn  BY FailureGoesOn
<1>2. Lines(replies') \subseteq Lines(replies)  BY FailureKeeps
<1>3. ready' => ready  BY DEF Fail, StillReady
<1>4. request \in ConfigSet => ~ready'
  BY ConfigNames DEF Fail, StillReady, LinkInv, RequestInv
<1>5. ASSUME request \in ConfigSet, Idle'  PROVE tries = Len(Config)
  <2>1. node = "running"  BY <1>5, ConfigNames DEF LinkInv, RequestInv, TypeOK, Idle
  <2>2. NextConfig /\ UNCHANGED node  BY <1>5, <2>1, ConfigNames DEF Fail
  <2>3. QED  BY <1>5, <2>1, <2>2, NextConfigGoesOn
<1>6. ready' => ready \/ (request = "PING" /\ request' \in ConfigSet)  BY <1>3, Zenon
<1>7. ready' /\ request \in ConfigSet => InForce(request)  BY <1>4, Zenon
<1>8. QED  BY <1>1, <1>2, <1>5, <1>6, <1>7, EndedDriven

(* Every step keeps what ready and motion say of the configuration.         *)
LEMMA DrivenStep ==
  ASSUME LinkInv, StopInv, DrivenInv, [Next]_vars
  PROVE  DrivenInv'
<1> SUFFICES ASSUME restarts' = 0  PROVE DrivenInv'  BY DEF DrivenInv
<1>1. /\ restarts = 0
      /\ \A c : InForce(c) => InForce(c)'
      /\ Configured => Configured'
  BY InForceStays
<1>2. CASE WriteFails
  BY <1>1, <1>2, FailureDriven DEF WriteFails, LinkInv, TypeOK
<1>3. CASE ReadTimesOut
  BY <1>1, <1>3, FailureDriven DEF ReadTimesOut, LinkInv, TypeOK
<1>4. CASE ReadReply
  <2> DEFINE rest == Tail(replies)
  <2>1. rest \in Seq(Reply) /\ Len(rest) <= MaxChannel /\ Lines(rest) \subseteq Lines(replies)
    <3>1. replies \in Seq(Reply) /\ replies # <<>> /\ Len(replies) <= MaxChannel
      BY <1>4 DEF LinkInv, TypeOK, ReadReply
    <3>2. QED  BY <3>1, TailLines, Bounds
  <2>2. ~Idle /\ replies # <<>> /\ UNCHANGED <<setpoint, timed_out, commands, coreVars>>
    BY <1>4 DEF ReadReply
  <2>3. CASE Head(replies).text = Needle(request) /\ Succeed(Head(replies), rest) /\ UNCHANGED candidates
    BY <1>1, <2>2, <2>3, SuccessDriven
  <2>4. CASE Fail(rest) /\ UNCHANGED candidates
    <3> HIDE DEF rest
    <3>1. QED  BY <1>1, <2>1, <2>2, <2>4, FailureDriven
  <2>5. CASE replies' = rest /\ UNCHANGED <<ready, request, step, tries, status_code, node>>
    <3>1. Lines(replies') \subseteq Lines(replies)  BY <2>1, <2>5
    <3> HIDE DEF rest
    <3>2. QED  BY <1>1, <2>2, <2>5, <3>1 DEF DrivenInv, Lines, coreVars
  <2>6. QED  BY <1>4, <2>3, <2>4, <2>5 DEF ReadReply
<1>5. ASSUME UNCHANGED <<ready, request, tries, applied, speed, restarts, commands>>,
             Lines(replies') \subseteq Lines(replies)
      PROVE  DrivenInv'
  BY <1>1, <1>5 DEF DrivenInv, Lines
<1>6. ASSUME NEW v \in {"0", "v"}, CmdVel(v)  PROVE DrivenInv'
  BY <1>5, <1>6 DEF CmdVel, coreVars, Lines
<1>7. CASE CmdExpires
  BY <1>5, <1>7 DEF CmdExpires, coreVars, Lines
<1>8. CASE UNCHANGED vars
  BY <1>5, <1>8 DEF vars, nodeVars, coreVars, Lines
<1>9. ASSUME UNCHANGED <<replies, applied, speed, restarts, commands, ready>>,
             Idle, node = "running",
             request' \in {"SET 0", "SET v", "STATUS", "none"}, request' = "SET v" => ready
      PROVE  DrivenInv'
  <2>1. request \notin ConfigSet /\ request' \notin ConfigSet /\ request # "SET v"
    BY <1>9, ConfigNames DEF Idle
  <2>2. ready => Configured  BY <1>1, <2>1 DEF DrivenInv
  <2>3. \A reply \in Lines(replies') : reply.text \in ConfigSet => InForce(reply.text)'
    BY <1>1, <1>9 DEF DrivenInv, Lines
  <2>4. request' = "SET v" \/ "SET v" \in Lines(commands') \/ speed' = "v" => Configured'
    BY <1>1, <1>9, <2>2 DEF DrivenInv, Lines
  <2>5. ready' => Configured'  BY <1>1, <1>9, <2>2, Zenon
  <2>6. QED  BY <2>1, <2>3, <2>4, <2>5, Zenon DEF DrivenInv
<1>10. CASE Control
  BY <1>9, <1>10 DEF Control, Start, coreVars
<1>11. CASE StatusLoop
  <2>1. request' \in {"STATUS", "none"}  BY <1>11 DEF StatusLoop, Start, Idle
  <2>2. QED  BY <1>9, <1>11, <2>1 DEF StatusLoop, coreVars
<1>12. CASE Destroy
  BY <1>9, <1>12 DEF Destroy, Start, coreVars
<1>13. CASE Bootstrap
  <2>1. Lines(replies') \subseteq Lines(replies)
    BY <1>13, DrainedLines DEF Bootstrap, LinkInv, TypeOK
  <2>2. ~ready' /\ request' = "PING" /\ request # "SET v" /\ UNCHANGED <<commands, coreVars>>
    BY <1>13 DEF Bootstrap, Start, Idle
  <2>3. \A reply \in Lines(replies') : reply.text \in ConfigSet => InForce(reply.text)'
    BY <1>1, <2>1 DEF DrivenInv
  <2>4. request' = "SET v" \/ "SET v" \in Lines(commands') \/ speed' = "v" => Configured'
    BY <1>1, <2>2 DEF DrivenInv, Lines, coreVars
  <2>5. QED  BY <2>2, <2>3, <2>4, Zenon DEF DrivenInv
<1>14. CASE WriteCommand
  <2>1. commands \in Seq(Command) /\ request \in Command
    BY <1>14 DEF WriteCommand, LinkInv, TypeOK, Idle
  <2>2. Lines(commands') = Lines(commands) \cup {request}
    BY <1>14, <2>1, AppendLines DEF WriteCommand
  <2>3. UNCHANGED <<ready, request, tries, replies, coreVars>>
    BY <1>14 DEF WriteCommand
  <2>4. request' = "SET v" \/ "SET v" \in Lines(commands') \/ speed' = "v" => Configured'
    BY <1>1, <2>2, <2>3 DEF DrivenInv, coreVars
  <2>5. QED  BY <1>1, <2>3, <2>4 DEF DrivenInv, Lines, coreVars
<1>15. CASE Execute \/ Refuse
  <2> DEFINE c == Head(commands)
  <2>1. c \in Command /\ c \in Lines(commands) /\ Lines(commands') \subseteq Lines(commands)
    BY <1>15, CoreKeeps
  <2>2. UNCHANGED nodeVars  BY <1>15 DEF Execute, Refuse
  <2>3. PICK text : Answer(text) /\ (text \in ConfigSet => InForce(text)')
    <3>1. CASE Execute
      <4>1. Answer(Needle(c))  BY <3>1 DEF Execute
      <4>2. ASSUME Needle(c) \in ConfigSet  PROVE Needle(c) \in applied'
        <5>1. c \in ConfigSet /\ Needle(c) = c  BY <2>1, <4>2, Needles
        <5>2. c # "STOP"  BY <5>1, ConfigNames
        <5>3. applied' = applied \cup {c}  BY <3>1, <5>1, <5>2 DEF Execute
        <5>4. QED  BY <5>1, <5>3
      <4>3. QED  BY <4>1, <4>2 DEF InForce
    <3>2. CASE Refuse
      BY <3>2, ConfigNames DEF Refuse
    <3>3. QED  BY <1>15, <3>1, <3>2
  <2> DEFINE r == [text |-> text, run |-> "START" \in applied']
  <2>4. replies' = Append(replies, r) /\ replies \in Seq(Reply) /\ r.text = text
    BY <2>3 DEF Answer, LinkInv, TypeOK
  <2> HIDE DEF r
  <2>5. Lines(replies') \subseteq Lines(replies) \cup {r}
    BY <2>4 DEF Lines
  <2>6. \A reply \in Lines(replies') : reply.text \in ConfigSet => InForce(reply.text)'
    BY <1>1, <2>3, <2>4, <2>5 DEF DrivenInv
  <2>7. request' = "SET v" \/ "SET v" \in Lines(commands') \/ speed' = "v" => Configured'
    <3>1. speed' = "v" => speed = "v" \/ c = "SET v"  BY <1>15 DEF Execute, Refuse
    <3>2. QED  BY <1>1, <2>1, <2>2, <3>1 DEF DrivenInv, nodeVars
  <2>8. ready' => IF request' \in ConfigSet THEN \A i \in 1 .. tries' - 1 : InForce(Config[i])'
                 ELSE Configured'
    BY <1>1, <2>2 DEF DrivenInv, nodeVars
  <2>9. QED  BY <2>6, <2>7, <2>8, Zenon DEF DrivenInv
<1>16. CASE CoreRestarts
  BY <1>16, Bounds DEF CoreRestarts, LinkInv, TypeOK
<1>17. QED
  BY <1>2, <1>3, <1>4, <1>6, <1>7, <1>8, <1>10, <1>11, <1>12, <1>13, <1>14, <1>15, <1>16
  DEF Next, Callbacks, Transaction, Environment

-------------------------------------------------------------------------------
(* While the link is being set up, and when it is down, the last word is    *)
(* not "Ok", because every way of losing it reports something else and the  *)
(* bootstrap reports nothing but RpmsgNotReady.                             *)
LEMMA ReportStep ==
  ASSUME LinkInv, ReportInv, [Next]_vars
  PROVE  ReportInv'
<1>1. ASSUME UNCHANGED <<ready, request, status_code, node>>  PROVE ReportInv'
  BY <1>1 DEF ReportInv, LossIsReported, Idle
<1>2. CASE (\E v \in {"0", "v"} : CmdVel(v)) \/ WriteCommand \/ CmdExpires \/ Execute \/ Refuse
           \/ CoreRestarts \/ UNCHANGED vars
  BY <1>1, <1>2 DEF CmdVel, WriteCommand, CmdExpires, Execute, Refuse, CoreRestarts, vars, nodeVars
<1>3. CASE Bootstrap
  BY <1>3, ConfigNames DEF Bootstrap, Start, ReportInv, LossIsReported, Idle
<1>4. CASE Control
  BY <1>4, ConfigNames DEF Control, Start, ReportInv, LossIsReported, Idle
<1>5. CASE StatusLoop
  BY <1>5, ConfigNames DEF StatusLoop, Start, ReportInv, LossIsReported, Idle
<1>6. CASE Destroy
  BY <1>6 DEF Destroy, ReportInv, LossIsReported
<1>7. ASSUME ~Idle, NEW reply, NEW rest, Succeed(reply, rest)  PROVE ReportInv'
  <2>1. GoesOn  BY <1>7, SuccessGoesOn
  <2>2. CASE node' # "running"
    BY <2>2 DEF ReportInv, LossIsReported
  <2>3. CASE node' = "running" /\ request \in ConfigSet \cup {"PING"}
    <3>1. node = "running" /\ status_code' = status_code
      BY <1>7, <2>1, <2>3, ConfigNames DEF GoesOn, Succeed, LinkInv, TypeOK, RequestInv
    <3>2. QED  BY <2>3, <3>1 DEF ReportInv, LossIsReported
  <2>4. CASE node' = "running" /\ request \notin ConfigSet \cup {"PING"}
    <3>1. request' = "none" /\ node = "running"
      BY <2>1, <2>4, <1>7 DEF GoesOn, LinkInv, TypeOK, RequestInv
    <3>2. request \in {"SET 0", "SET v", "STATUS"}
      BY <1>7, <2>4, <3>1 DEF LinkInv, TypeOK, RequestInv, Command, OtherCommands, Idle
    <3>3. ready'  BY <1>7, <3>1, <3>2 DEF LinkInv, RequestInv, Succeed
    <3>4. QED  BY <3>1, <3>3, ConfigNames DEF ReportInv, LossIsReported
  <2>5. QED  BY <2>2, <2>3, <2>4
<1>8. ASSUME ~Idle, NEW rest, Fail(rest)  PROVE ReportInv'
  <2>1. GoesOn  BY <1>8, FailureGoesOn
  <2>2. CASE node' # "running"
    BY <2>2 DEF ReportInv, LossIsReported
  <2>3. CASE node' = "running" /\ request \in ConfigSet \cup {"PING"}
    <3>1. node = "running" /\ status_code' \in {status_code, "RpmsgNotReady"}
      BY <1>8, <2>1, <2>3, ConfigNames DEF GoesOn, Fail, FailureCode, LinkInv, TypeOK, RequestInv
    <3>2. QED  BY <2>3, <3>1 DEF ReportInv, LossIsReported
  <2>4. CASE node' = "running" /\ request \notin ConfigSet \cup {"PING"}
    <3>1. request' = "none" /\ node = "running"
      BY <2>1, <2>4, <1>8 DEF GoesOn, LinkInv, TypeOK, RequestInv
    <3>2. request \in {"SET 0", "SET v", "STATUS"}
      BY <1>8, <2>4, <3>1 DEF LinkInv, TypeOK, RequestInv, Command, OtherCommands, Idle
    <3>3. status_code' = "CommError"  BY <1>8, <2>4, <3>1, <3>2 DEF Fail, FailureCode
    <3>4. QED  BY <3>3 DEF ReportInv, LossIsReported
  <2>5. QED  BY <2>2, <2>3, <2>4
<1>9. CASE WriteFails  BY <1>8, <1>9 DEF WriteFails
<1>10. CASE ReadTimesOut  BY <1>8, <1>10 DEF ReadTimesOut
<1>11. CASE ReadReply  BY <1>1, <1>7, <1>8, <1>11 DEF ReadReply
<1>12. QED
  BY <1>2, <1>3, <1>4, <1>5, <1>6, <1>9, <1>10, <1>11 DEF Next, Callbacks, Transaction, Environment

-------------------------------------------------------------------------------
(* The variables keep their types, the queues of the endpoint their bound,  *)
(* and the command under way is one the state of the node allows: no SET    *)
(* and no STATUS of a running node without a link, nothing but the stop     *)
(* sequence once it is being destroyed.                                     *)
THEOREM LinkSafe == Spec => [](TypeOK /\ RequestInv)
<1>1. Init => LinkInv  BY LinkInit
<1>2. LinkInv /\ [Next]_vars => LinkInv'  BY LinkStep
<1>3. QED  BY <1>1, <1>2, PTL DEF Spec, LinkInv

(* Unless the core restarts behind the node's back, it is given no speed    *)
(* and does not drive for a running node before the whole configuration,    *)
(* START included, is in force: however replies are delayed, refused, lost  *)
(* or taken for those of another attempt, for a configuration of any        *)
(* length.                                                                  *)
THEOREM ConfiguredBeforeDriven == Spec => []DrivenOnlyConfigured
<1>1. Init => LinkInv /\ DrivenInv /\ StopInv
  <2>1. Init => StopInv  BY DEF Init, StopInv, Lines
  <2>2. QED  BY <2>1, LinkInit
<1>2. LinkInv /\ DrivenInv /\ StopInv /\ [Next]_vars => LinkInv' /\ DrivenInv' /\ StopInv'
  BY LinkStep, DrivenStep, StopStep
<1>3. LinkInv /\ DrivenInv => DrivenOnlyConfigured
  <2> SUFFICES ASSUME LinkInv, DrivenInv, restarts = 0,
                      (commands # <<>> /\ Head(commands) = "SET v") \/ (speed = "v" /\ node = "running")
               PROVE  ConfigSet \subseteq applied
    BY DEF DrivenOnlyConfigured
  <2>1. commands # <<>> => Head(commands) \in Lines(commands)
    <3>1. commands \in Seq(Command)  BY DEF LinkInv, TypeOK
    <3>2. QED  BY <3>1, TailLines
  <2>2. Configured /\ ~Stopped  BY <2>1 DEF DrivenInv, Stopped
  <2>3. QED  BY <2>2 DEF Configured, InForce
<1>4. QED  BY <1>1, <1>2, <1>3, PTL DEF Spec

(* Whenever the node has given the link up, vehicle_status_code has said so.*)
THEOREM LossReported == Spec => []LossIsReported
<1>1. Init => LinkInv /\ ReportInv  BY LinkInit
<1>2. LinkInv /\ ReportInv /\ [Next]_vars => LinkInv' /\ ReportInv'
  BY LinkStep, ReportStep
<1>3. ReportInv => LossIsReported  BY DEF ReportInv
<1>4. QED  BY <1>1, <1>2, <1>3, PTL DEF Spec
-------------------------------------------------------------------------------
(* The mission                                                               *)

(* Where the goal may come from: "ready" is only ever said after a            *)
(* localisation, and the transform never goes back to the initial one.        *)
ReadyInv ==
  /\ ready_msg \in {"none", "true", "false"}
  /\ (is_ready = TRUE \/ aligner = "ready" \/ ready_msg = "true" \/ goal_sent = TRUE)
       => map_to_odom = "localized"

(* The flag is up from the message that sets the goal off until connecting   *)
(* fails; there is no goal before that, and no second connection after it.   *)
SentInv ==
  /\ goals \in {0, 1} /\ goal_sent \in BOOLEAN
  /\ sender = "connecting" => goal_sent = TRUE /\ goals = 0
  /\ goals = 1 => goal_sent = TRUE
  /\ mission = "none" <=> goals = 0

(* The localiser and the broadcasting thread only say "ready" when they are. *)
LEMMA ReadyStep == ReadyInv /\ Patrol!Next => ReadyInv'
<1> SUFFICES ASSUME ReadyInv, Patrol!Next PROVE ReadyInv'  OBVIOUS
<1> USE DEF ReadyInv, Patrol!icpVars, Patrol!tfVars, Patrol!senderVars, Patrol!navVars
<1>1. CASE Patrol!Icp
  BY <1>1 DEF Patrol!Icp, Patrol!Cloud, Patrol!StartLocalization, Patrol!AlignmentFails,
              Patrol!UpdateTransform, Patrol!SetReady
<1>2. CASE Patrol!Broadcaster
  BY <1>2 DEF Patrol!Broadcaster, Patrol!BroadcastTf, Patrol!PublishReady
<1>3. CASE Patrol!Sender
  BY <1>3 DEF Patrol!Sender, Patrol!LocalizationCallback, Patrol!SendGoal, Patrol!ConnectTimesOut,
              Patrol!SenderEnds
<1>4. CASE Patrol!Nav2
  BY <1>4 DEF Patrol!Nav2, Patrol!Nav2Starts, Patrol!DecideGoal, Patrol!ReachWaypoint,
              Patrol!EndMission, Patrol!WaitEnds
<1>5. CASE Patrol!Plugin
  BY <1>5 DEF Patrol!Plugin, Patrol!AskFails, Patrol!AskAccepted, Patrol!WaitCompletes,
              Patrol!WaitInterrupted
<1>6. QED  BY <1>1, <1>2, <1>3, <1>4, <1>5 DEF Patrol!Next

(* The sender does not send twice, and Nav2 keeps the goal it was given.     *)
LEMMA SentStep == SentInv /\ Patrol!Next => SentInv'
<1> SUFFICES ASSUME SentInv, Patrol!Next PROVE SentInv'  OBVIOUS
<1> USE DEF SentInv, Patrol!icpVars, Patrol!tfVars, Patrol!senderVars, Patrol!navVars
<1>1. CASE Patrol!Icp
  BY <1>1 DEF Patrol!Icp, Patrol!Cloud, Patrol!StartLocalization, Patrol!AlignmentFails,
              Patrol!UpdateTransform, Patrol!SetReady
<1>2. CASE Patrol!Broadcaster
  BY <1>2 DEF Patrol!Broadcaster, Patrol!BroadcastTf, Patrol!PublishReady
<1>3. CASE Patrol!Sender
  <2>1. CASE Patrol!LocalizationCallback  BY <2>1 DEF Patrol!LocalizationCallback
  <2>2. CASE Patrol!SendGoal  BY <2>2 DEF Patrol!SendGoal
  <2>3. CASE Patrol!ConnectTimesOut
    <3>1. /\ sender = "connecting" /\ goals = 0 /\ goals' = goals /\ mission' = mission
          /\ sender' = "spinning"
      BY <2>3 DEF Patrol!ConnectTimesOut
    <3>2. goal_sent' = FALSE  BY <2>3, Zenon DEF Patrol!ConnectTimesOut
    <3>3. goals' \in {0, 1} /\ goals' # 1 /\ sender' # "connecting"  BY <3>1
    <3>4. mission' = "none" <=> goals' = 0  BY <3>1
    <3>5. QED  BY <3>2, <3>3, <3>4, Zenon
  <2>4. CASE Patrol!SenderEnds  BY <2>4 DEF Patrol!SenderEnds
  <2>5. QED  BY <1>3, <2>1, <2>2, <2>3, <2>4 DEF Patrol!Sender
<1>4. CASE Patrol!Nav2
  BY <1>4 DEF Patrol!Nav2, Patrol!Nav2Starts, Patrol!DecideGoal, Patrol!ReachWaypoint,
              Patrol!EndMission, Patrol!WaitEnds
<1>5. CASE Patrol!Plugin
  BY <1>5 DEF Patrol!Plugin, Patrol!AskFails, Patrol!AskAccepted, Patrol!WaitCompletes,
              Patrol!WaitInterrupted
<1>6. QED  BY <1>1, <1>2, <1>3, <1>4, <1>5 DEF Patrol!Next

(* A patrol is sent once at most, and only after a localisation: for every   *)
(* number of waypoints and of localisations, wherever messages are old and   *)
(* connections fail.                                                         *)
THEOREM OnePatrol == Patrol!Spec => []PatrolOnce
<1>1. Patrol!Init => ReadyInv /\ SentInv
  <2> SUFFICES ASSUME Patrol!Init PROVE ReadyInv /\ SentInv  OBVIOUS
  <2>1. is_ready = FALSE /\ goal_sent = FALSE  BY Zenon DEF Patrol!Init
  <2>2. /\ aligner = "idle" /\ ready_msg = "none" /\ goals = 0 /\ sender = "spinning"
        /\ mission = "none"
    BY DEF Patrol!Init
  <2>3. ReadyInv  BY <2>1, <2>2 DEF ReadyInv
  <2>4. sender # "connecting" /\ goals # 1 /\ goals \in {0, 1}  BY <2>2
  <2>5. goal_sent \in BOOLEAN  BY <2>1, Zenon
  <2>6. SentInv  BY <2>2, <2>4, <2>5 DEF SentInv
  <2>7. QED  BY <2>3, <2>6
<1>2. UNCHANGED Patrol!vars /\ ReadyInv /\ SentInv => ReadyInv' /\ SentInv'
  BY DEF Patrol!vars, Patrol!icpVars, Patrol!tfVars, Patrol!senderVars, Patrol!navVars, ReadyInv, SentInv
<1>3. ReadyInv /\ SentInv => PatrolOnce
  BY DEF ReadyInv, SentInv, PatrolOnce, Patrol!PatrolOnce
<1>4. QED  BY <1>1, <1>2, <1>3, ReadyStep, SentStep, PTL DEF Patrol!Spec
===============================================================================
