----------------------------- MODULE ChassisLink -----------------------------
(***************************************************************************)
(* ChassisNode and the real-time core it drives over an RPMsg endpoint:    *)
(* bootstrap, control and status transactions, command time-out, shutdown. *)
(*                                                                         *)
(* The node is one thread (rclcpp::spin), so a callback runs to its end    *)
(* before the next one starts; what interleaves with it is the core, the   *)
(* clock and the endpoint.  A transaction writes one line and then reads   *)
(* at most MaxCandidates replies, looking for one that contains the needle *)
(* of its command.  Nothing else ties a reply to its command: replies of   *)
(* earlier, abandoned transactions are read like any other.                *)
(*                                                                         *)
(* The core and the endpoint are external: commands are carried out in     *)
(* order, each gives one reply, and one read returns one reply.            *)
(***************************************************************************)
EXTENDS Integers, Sequences

CONSTANTS
  Config,         (* the commands of configureRuntime: MODE, ..., START   *)
  MaxAttempts,    (* PINGs of one configureRuntime                        *)
  MaxCandidates,  (* replies one transaction looks at                     *)
  MaxChannel,     (* bound: lines the endpoint holds in each direction    *)
  MaxRestarts     (* bound: restarts of the core                          *)

ConfigSet == {Config[i] : i \in DOMAIN Config}
OtherCommands == {"PING", "STOP", "STATUS", "SET 0", "SET v"}

ASSUME LinkAssumption ==
  /\ Config \in Seq(STRING) /\ Config # <<>>
  /\ Config[Len(Config)] = "START"
  /\ ConfigSet \cap (OtherCommands \cup {"OK SET", "rpmsg-echo", "BOOT=", "ERR", "none"}) = {}
  /\ MaxAttempts \in Nat \ {0} /\ MaxCandidates \in Nat \ {0}
  /\ MaxChannel \in Nat \ {0} /\ MaxRestarts \in Nat

Command == ConfigSet \cup OtherCommands

(* What the answer to a command contains; "ERR" for one the core refuses.  *)
(* A STATUS reply tells whether the core is started.                       *)
Needle(c) ==
  CASE c \in {"SET 0", "SET v"} -> "OK SET"
    [] c = "PING"               -> "rpmsg-echo"
    [] c = "STATUS"             -> "BOOT="
    [] OTHER                    -> c

Reply == [text : {Needle(c) : c \in Command} \cup {"ERR"}, run : BOOLEAN]

VARIABLES
  ready,          (* ready_                                                 *)
  setpoint,       (* vx_rtt_ and its siblings: the last cmd_vel, 0 or not   *)
  timed_out,      (* is the last cmd_vel older than command_timeout_sec_?   *)
  request,        (* the command under way, "none" between callbacks        *)
  step,           (* "write" or "read"                                      *)
  tries,          (* PING: attempt; Config: position in it                  *)
  candidates,     (* replies the transaction may still look at              *)
  status_code,    (* what vehicle_status_code said last                     *)
  node,           (* "running", "leaving" or "gone"                         *)
  commands,       (* lines written, not yet carried out                     *)
  replies,        (* replies not yet read                                   *)
  applied,        (* the core: configuration commands in force              *)
  speed,          (* the core: last SET it carried out                      *)
  restarts        (* of the core, counted to bound them                     *)

nodeVars == <<ready, setpoint, timed_out, request, step, tries, candidates, status_code, node>>
coreVars == <<applied, speed, restarts>>
vars == <<nodeVars, commands, replies, coreVars>>

Idle == request = "none"

Start(c) == request' = c /\ step' = "write"

(* Constructor: the members' defaults and the first configureRuntime. *)
Init ==
  /\ ready = FALSE /\ setpoint = "0" /\ timed_out = FALSE
  /\ request = "PING" /\ step = "write" /\ tries = 1 /\ candidates = 0
  /\ status_code = "none" /\ node = "running"
  /\ commands = <<>> /\ replies = <<>>
  /\ applied = {} /\ speed = "0" /\ restarts = 0

-------------------------------------------------------------------------------
(* The callbacks, each up to its first transaction. *)

CmdVel(v) ==
  /\ Idle /\ node = "running"
  /\ setpoint' = v /\ timed_out' = FALSE
  /\ UNCHANGED <<ready, request, step, tries, candidates, status_code, node,
                 commands, replies, coreVars>>

(* drainReplies: what it reads is thrown away, and it reads 32 times at most. *)
DrainReads == 32
Drained(lines) == SubSeq(lines, DrainReads + 1, Len(lines))

(* controlLoop without a link: configureRuntime, which drains first. *)
Bootstrap ==
  /\ Idle /\ node = "running"
  /\ ~ready
  /\ Start("PING") /\ tries' = 1
  /\ replies' = Drained(replies)
  /\ UNCHANGED <<ready, setpoint, timed_out, candidates, status_code, node, commands, coreVars>>

(* Mutants: no time-out; the timer fires even while the node is destroyed. *)
Control_noTimeout ==
  /\ Idle /\ node = "running"
  /\ ready
  /\ Start(IF setpoint = "0" THEN "SET 0" ELSE "SET v")
  /\ UNCHANGED <<ready, setpoint, timed_out, tries, candidates, status_code, node,
                 commands, replies, coreVars>>

Control_anytime ==
  /\ Idle
  /\ ready
  /\ Start(IF timed_out \/ setpoint = "0" THEN "SET 0" ELSE "SET v")
  /\ UNCHANGED <<ready, setpoint, timed_out, tries, candidates, status_code, node,
                 commands, replies, coreVars>>

(* controlLoop with one: the last command, or a stop if it is too old. *)
Control ==
  /\ Idle /\ node = "running"
  /\ ready
  /\ Start(IF timed_out \/ setpoint = "0" THEN "SET 0" ELSE "SET v")
  /\ UNCHANGED <<ready, setpoint, timed_out, tries, candidates, status_code, node,
                 commands, replies, coreVars>>

StatusLoop ==
  /\ Idle /\ node = "running"
  /\ IF ready
     THEN Start("STATUS") /\ UNCHANGED status_code
     ELSE status_code' = "RpmsgNotReady" /\ UNCHANGED <<request, step>>
  /\ UNCHANGED <<ready, setpoint, timed_out, tries, candidates, node,
                 commands, replies, coreVars>>

(* ~ChassisNode, with auto_start_: stop the wheels, then the core. *)
Destroy ==
  /\ Idle /\ node = "running"
  /\ node' = "leaving"
  /\ Start("SET 0")
  /\ UNCHANGED <<ready, setpoint, timed_out, tries, candidates, status_code,
                 commands, replies, coreVars>>

-------------------------------------------------------------------------------
(* What follows a transaction. *)

(* publishVehicleStatusFromReply: the keys of the CAN counters, and those   *)
(* without which nothing is said of the core, may be there or not.          *)
StatusCodes(reply) ==
  {"StatusParseError"} \cup IF reply.run THEN {"Ok", "CanError"} ELSE {"RttStopped"}

Done == request' = "none" /\ UNCHANGED <<step, tries>>

NextConfig ==
  IF tries < Len(Config)
  THEN Start(Config[tries + 1]) /\ tries' = tries + 1
  ELSE Done

Leave ==
  IF request = "STOP"
  THEN Done /\ node' = "gone"
  ELSE Start("STOP") /\ UNCHANGED <<tries, node>>

(* configureRuntime after a PING that was answered drains once more. *)
Succeed(reply, rest) ==
  /\ replies' = IF request = "PING" THEN Drained(rest) ELSE rest
  /\ ready' = (ready \/ request = "PING")
  /\ status_code' \in IF request = "STATUS" THEN StatusCodes(reply) ELSE {status_code}
  /\ \/ node = "leaving" /\ Leave
     \/ node # "leaving" /\ request = "PING" /\ Start(Config[1]) /\ tries' = 1
          /\ UNCHANGED node
     \/ node # "leaving" /\ request \in ConfigSet /\ NextConfig /\ UNCHANGED node
     \/ node # "leaving" /\ request \in {"SET 0", "SET v", "STATUS"} /\ Done
          /\ UNCHANGED node

(* Mutant: a failed configuration command leaves ready_ as it is. *)
StillReady_config ==
  ready /\ (request \in ConfigSet \cup {"STATUS"} \/ node = "leaving")

(* A failure clears ready_, save that of a STATUS or in the destructor. *)
StillReady == ready /\ (request = "STATUS" \/ node = "leaving")

(* Mutant: only a failed STATUS is reported. *)
FailureCode_quiet ==
  IF node = "running" /\ request = "STATUS" THEN "CommError" ELSE status_code

(* What it reports. *)
FailureCode ==
  CASE node = "leaving"                         -> status_code
    [] request = "PING" /\ tries = MaxAttempts  -> "RpmsgNotReady"
    [] request \in {"SET 0", "SET v", "STATUS"} -> "CommError"
    [] OTHER                                    -> status_code

(* It does not end the bootstrap: PING is tried again, and the rest of the  *)
(* configuration is sent all the same.                                      *)
Fail(rest) ==
  /\ replies' = IF request = "PING" /\ tries < MaxAttempts THEN Drained(rest) ELSE rest
  /\ ready' = StillReady
  /\ status_code' = FailureCode
  /\ \/ node = "leaving" /\ Leave
     \/ node # "leaving" /\ request = "PING" /\ tries < MaxAttempts
          /\ Start("PING") /\ tries' = tries + 1 /\ UNCHANGED node
     \/ node # "leaving" /\ request \in ConfigSet /\ NextConfig /\ UNCHANGED node
     \/ /\ node # "leaving"
        /\ \/ request = "PING" /\ tries = MaxAttempts
           \/ request \in {"SET 0", "SET v", "STATUS"}
        /\ Done /\ UNCHANGED node

-------------------------------------------------------------------------------
(* transactExpect, for whichever callback called it. *)

WriteCommand ==
  /\ ~Idle /\ step = "write"
  /\ Len(commands) < MaxChannel
  /\ commands' = Append(commands, request)
  /\ step' = "read" /\ candidates' = MaxCandidates
  /\ UNCHANGED <<ready, setpoint, timed_out, request, tries, status_code, node,
                 replies, coreVars>>

(* open or write fails: the endpoint is missing or full. *)
WriteFails ==
  /\ ~Idle /\ step = "write"
  /\ Fail(replies)
  /\ UNCHANGED <<setpoint, timed_out, candidates, commands, coreVars>>

ReadReply ==
  /\ ~Idle /\ step = "read"
  /\ replies # <<>>
  /\ LET reply == Head(replies)
     IN \/ /\ reply.text = Needle(request)
           /\ Succeed(reply, Tail(replies))
           /\ UNCHANGED candidates
        \/ /\ reply.text # Needle(request)
           /\ candidates > 1
           /\ candidates' = candidates - 1
           /\ replies' = Tail(replies)
           /\ UNCHANGED <<ready, request, step, tries, status_code, node>>
        \/ /\ reply.text # Needle(request)
           /\ candidates = 1
           /\ Fail(Tail(replies))
           /\ UNCHANGED candidates
  /\ UNCHANGED <<setpoint, timed_out, commands, coreVars>>

(* Twenty reads in a row found nothing. *)
ReadTimesOut ==
  /\ ~Idle /\ step = "read"
  /\ replies = <<>>
  /\ Fail(replies)
  /\ UNCHANGED <<setpoint, timed_out, candidates, commands, coreVars>>

-------------------------------------------------------------------------------
(* The environment. *)

(* The clock: the last cmd_vel passes command_timeout_sec_. *)
CmdExpires ==
  /\ ~timed_out /\ node = "running"
  /\ timed_out' = TRUE
  /\ UNCHANGED <<ready, setpoint, request, step, tries, candidates, status_code, node,
                 commands, replies, coreVars>>

Answer(text) ==
  /\ Len(replies) < MaxChannel
  /\ replies' = Append(replies, [text |-> text, run |-> "START" \in applied'])

(* The core carries out the oldest command ... *)
Execute ==
  /\ commands # <<>>
  /\ LET c == Head(commands)
     IN /\ applied' = CASE c \in ConfigSet -> applied \cup {c}
                        [] c = "STOP"      -> applied \ {"START"}
                        [] OTHER           -> applied
        /\ speed' = CASE c = "SET 0" -> "0" [] c = "SET v" -> "v" [] OTHER -> speed
        /\ Answer(Needle(c))
  /\ commands' = Tail(commands)
  /\ UNCHANGED <<nodeVars, restarts>>

(* ... or refuses it, a configuration command say. *)
Refuse ==
  /\ commands # <<>>
  /\ Head(commands) \in ConfigSet
  /\ UNCHANGED applied
  /\ Answer("ERR")
  /\ commands' = Tail(commands)
  /\ UNCHANGED <<nodeVars, speed, restarts>>

(* The core restarts: it stands still, unconfigured, its commands are lost. *)
CoreRestarts ==
  /\ restarts < MaxRestarts
  /\ restarts' = restarts + 1
  /\ applied' = {} /\ speed' = "0"
  /\ commands' = <<>>
  /\ UNCHANGED <<nodeVars, replies>>

Callbacks ==
  \/ \E v \in {"0", "v"} : CmdVel(v)
  \/ Bootstrap \/ Control \/ StatusLoop \/ Destroy

Transaction == WriteCommand \/ WriteFails \/ ReadReply \/ ReadTimesOut

Environment == CmdExpires \/ Execute \/ Refuse \/ CoreRestarts

Next == Callbacks \/ Transaction \/ Environment

Spec == Init /\ [][Next]_vars

(* The executor runs every timer that keeps coming due, a transaction ends  *)
(* because its reads are bounded, and the core works off what it is sent.   *)
Fairness ==
  /\ SF_vars(Bootstrap) /\ SF_vars(Control)
  /\ WF_vars(Transaction)
  /\ WF_vars(Execute)

FairSpec == Spec /\ Fairness

-------------------------------------------------------------------------------
TypeOK ==
  /\ ready \in BOOLEAN /\ timed_out \in BOOLEAN
  /\ setpoint \in {"0", "v"} /\ speed \in {"0", "v"}
  /\ request \in Command \cup {"none"}
  /\ step \in {"write", "read"}
  /\ tries \in Nat /\ candidates \in 0 .. MaxCandidates
  /\ status_code \in {"none", "Ok", "RpmsgNotReady", "RttStopped", "StatusParseError",
                     "CanError", "CommError"}
  /\ node \in {"running", "leaving", "gone"}
  /\ commands \in Seq(Command) /\ Len(commands) <= MaxChannel
  /\ replies \in Seq(Reply) /\ Len(replies) <= MaxChannel
  /\ applied \subseteq ConfigSet
  /\ restarts \in 0 .. MaxRestarts

(* Unless the core restarts behind the node's back, it is given no speed    *)
(* before it has carried out every command of the configuration, START      *)
(* included, whichever of its replies were late, refused, or taken for      *)
(* those of another attempt: neither when the next command it carries out   *)
(* is a speed, nor while it drives and the node runs.  Only the STOP of the *)
(* destructor takes START back, and the speed the core had may outlast it.  *)
DrivenOnlyConfigured ==
  /\ restarts = 0
  /\ \/ commands # <<>> /\ Head(commands) = "SET v"
     \/ speed = "v" /\ node = "running"
  => ConfigSet \subseteq applied

(* Whenever the node has given the link up it has said so: a listener of    *)
(* vehicle_status_code is not left with an old "Ok".                        *)
LossIsReported == node = "running" /\ Idle /\ ~ready => status_code # "Ok"

(* The link works: the core answers in time, refuses nothing and has        *)
(* answered everything when a callback starts.                              *)
LinkWorks ==
  /\ <>[][~WriteFails /\ ~ReadTimesOut /\ ~Refuse]_vars
  /\ <>[](Idle => commands = <<>>)

(* The car stops when nobody steers it: cmd_vel silent for good, a link     *)
(* that works in the end, and the core's speed is zero in the end, whatever *)
(* has to be drained and configured anew on the way.                        *)
SilenceStops == (LinkWorks /\ <>[]timed_out /\ [](node = "running")) => <>[](speed = "0")

(* Destroying the node stops the car, even if no reply ever arrives: once   *)
(* the destructor's stop is written, nothing sent before or after it makes  *)
(* the car move again.                                                      *)
StopWritten == node # "running" /\ \E i \in DOMAIN commands : commands[i] = "SET 0"
ExitStops == StopWritten ~> [](speed = "0")
===============================================================================
