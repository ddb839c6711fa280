------------------------------ MODULE LidarSetup ------------------------------
(***************************************************************************)
(* How a lidar gets from being discovered to being published:              *)
(* LivoxLidarCallback's handlers, the option bits they share under         *)
(* config_mutex_, and the device they configure through the Livox SDK.     *)
(*                                                                         *)
(* The SDK is external.  A command is delivered, carried out and answered, *)
(* or reported as timed out, whether it was carried out or not; the device *)
(* may also refuse it.  A device that restarts forgets its options and is  *)
(* announced again.  The attitude and IMU commands are left out: their     *)
(* callbacks send them again on a timeout and change no state.             *)
(***************************************************************************)
EXTENDS LidarConfig

CONSTANTS
  Handles,       (* lidars of the network, or named by a file               *)
  Files,         (* bound: configuration files, see LidarConfig             *)
  MaxRounds      (* bound: how often a lidar is announced                   *)

(* An entry, as far as the parser looks at it. *)
IsEntry(entry) ==
  /\ entry.ip \in Handles \cup {NULL}
  /\ DOMAIN entry.given \subseteq Options
  /\ \A o \in DOMAIN entry.given : entry.given[o] \in Int

ASSUME SetupAssumption ==
  /\ IsFiniteSet(Handles) /\ NULL \notin Handles
  /\ \A f \in Files :
       /\ f.entries \in Seq({f.entries[k] : k \in DOMAIN f.entries})
       /\ \A k \in DOMAIN f.entries : IsEntry(f.entries[k])
  /\ "work_mode" \notin Options
  /\ MaxSource \in Nat \ {0}
  /\ MaxRounds \in Nat \ {0}

Requests == Options \cup {"work_mode"}
Command == [req : Requests, round : 1 .. MaxRounds, done : BOOLEAN]

VARIABLES
  file,           (* the configuration file; never changes                 *)
  livox_config,   (* the options of the lidars of the file, by their       *)
                  (* values; never changes                                 *)
  registered,     (* handles with an entry in CacheIndex::map_index_       *)
  set_bits,       (* options not acknowledged yet                          *)
  connect_state,
  commands,       (* asynchronous commands outstanding, per lidar          *)
  announced,      (* has LidarInfoChangeCallback run since the last start? *)
  round,          (* how often it has run                                  *)
  applied,        (* the device's own state: options in force              *)
  normal,         (* lidars in work mode "normal"                          *)
  acked, refused  (* history: options ever acknowledged, ever refused      *)

deviceVars == <<applied, normal>>
historyVars == <<acked, refused>>
vars == <<file, livox_config, registered, set_bits, connect_state, commands, announced, round,
          deviceVars, historyVars>>

(* The options a handler finds != -1.  The device table is static storage, *)
(* so an entry no file configured holds zeros, and zero is not -1.         *)
Configured(h) ==
  IF h \in DOMAIN livox_config
  THEN {o \in Options : livox_config[h][o] # NotGiven}
  ELSE Options

Init ==
  /\ file \in Files
  /\ livox_config = InitLivoxLidar(file)
  /\ registered = DOMAIN livox_config
  /\ set_bits = [h \in Handles |-> {}]
  /\ connect_state = [h \in Handles |-> "off"]
  /\ commands = [h \in Handles |-> {}]
  /\ announced = {}
  /\ round = [h \in Handles |-> 0]
  /\ applied = [h \in Handles |-> {}]
  /\ normal = {}
  /\ acked = [h \in Handles |-> {}]
  /\ refused = [h \in Handles |-> {}]

Send(h, reqs, n) ==
  commands' = [commands EXCEPT
    ![h] = @ \cup [req : reqs, round : {n}, done : {FALSE}]]

(* Without lidars of this family in the file the SDK is not started. *)
Announce(h) ==
  /\ InitLidars(file)
  /\ h \notin announced
  /\ round[h] < MaxRounds
  /\ announced' = announced \cup {h}
  /\ round' = [round EXCEPT ![h] = @ + 1]

(* Mutant: a lidar that is sampling already is not configured again. *)
InfoChangeKnown_once(h) ==
  /\ h \in registered
  /\ Announce(h)
  /\ IF connect_state[h] = "sampling"
     THEN UNCHANGED <<set_bits, commands>>
     ELSE /\ set_bits' = [set_bits EXCEPT ![h] = @ \cup Configured(h)]
          /\ Send(h, Configured(h) \cup {"work_mode"}, round'[h])
  /\ UNCHANGED <<file, livox_config, registered, connect_state, deviceVars, historyVars>>

(* LidarInfoChangeCallback for a lidar in the table: every option the      *)
(* configuration has is marked and sent, under config_mutex_, then the     *)
(* work mode.  connect_state is left as it is.                             *)
InfoChangeKnown(h) ==
  /\ h \in registered
  /\ Announce(h)
  /\ set_bits' = [set_bits EXCEPT ![h] = @ \cup Configured(h)]
  /\ Send(h, Configured(h) \cup {"work_mode"}, round'[h])
  /\ UNCHANGED <<file, livox_config, registered, connect_state, deviceVars, historyVars>>

(* ... and for one that is not: it gets an entry if one is free. *)
InfoChangeUnknown(h) ==
  /\ h \notin registered
  /\ Announce(h)
  /\ IF HasIndex(registered, h)
     THEN /\ registered' = registered \cup {h}
          /\ Send(h, {"work_mode"}, round'[h])
     ELSE UNCHANGED <<registered, commands>>
  /\ UNCHANGED <<file, livox_config, set_bits, connect_state, deviceVars, historyVars>>

(* The device carries a command out. *)
CarryOut(h, c) ==
  /\ ~c.done
  /\ commands' = [commands EXCEPT ![h] = (@ \ {c}) \cup {[c EXCEPT !.done = TRUE]}]
  /\ IF c.req \in Options
     THEN applied' = [applied EXCEPT ![h] = @ \cup {c.req}] /\ UNCHANGED normal
     ELSE /\ normal' = IF c.req = "work_mode" THEN normal \cup {h} ELSE normal
          /\ UNCHANGED applied
  /\ UNCHANGED <<file, livox_config, registered, set_bits, connect_state, announced, round, historyVars>>

Finish(h, c) == commands' = [commands EXCEPT ![h] = @ \ {c}]

(* Set...Callback with kLivoxLidarStatusSuccess: the last option to be     *)
(* acknowledged starts the sampling.                                       *)
Acknowledged(h, c) ==
  /\ c.done
  /\ Finish(h, c)
  /\ IF c.req \in Options
     THEN /\ set_bits' = [set_bits EXCEPT ![h] = @ \ {c.req}]
          /\ connect_state' = [connect_state EXCEPT
                                 ![h] = IF set_bits'[h] = {} THEN "sampling" ELSE @]
          /\ acked' = [acked EXCEPT ![h] = @ \cup {c.req}]
     ELSE UNCHANGED <<set_bits, connect_state, acked>>
  /\ UNCHANGED <<file, livox_config, registered, announced, round, deviceVars, refused>>

(* Mutant: a command that timed out is given up. *)
TimedOut_givesUp(h, c) ==
  /\ c.done
  /\ Finish(h, c)
  /\ UNCHANGED <<file, livox_config, registered, set_bits, connect_state, announced, round, deviceVars,
                 historyVars>>

(* kLivoxLidarStatusTimeout: every callback sends its command again, here  *)
(* one the device has carried out (sending again one it has not is no      *)
(* change of this state).                                                  *)
TimedOut(h, c) ==
  /\ c.done
  /\ commands' = [commands EXCEPT ![h] = (@ \ {c}) \cup {[c EXCEPT !.done = FALSE]}]
  /\ UNCHANGED <<file, livox_config, registered, set_bits, connect_state, announced, round, deviceVars,
                 historyVars>>

(* Any other status: only WorkModeChangedCallback tries again. *)
Refused(h, c) ==
  /\ ~c.done
  /\ c.req # "work_mode"
  /\ Finish(h, c)
  /\ refused' = [refused EXCEPT ![h] = @ \cup ({c.req} \cap Options)]
  /\ UNCHANGED <<file, livox_config, registered, set_bits, connect_state, announced, round, deviceVars, acked>>

(* The lidar restarts: its options are gone and it will be announced again. *)
Restart(h) ==
  /\ h \in announced
  /\ round[h] < MaxRounds
  /\ announced' = announced \ {h}
  /\ applied' = [applied EXCEPT ![h] = {}]
  /\ normal' = normal \ {h}
  /\ UNCHANGED <<file, livox_config, registered, set_bits, connect_state, commands, round, historyVars>>

Next ==
  \E h \in Handles :
    \/ InfoChangeKnown(h)
    \/ InfoChangeUnknown(h)
    \/ Restart(h)
    \/ \E c \in commands[h] :
         CarryOut(h, c) \/ Acknowledged(h, c) \/ TimedOut(h, c) \/ Refused(h, c)

Spec == Init /\ [][Next]_vars

(* The SDK reports on every command in the end, not with a timeout for ever, *)
(* and announces a lidar that is on.                                         *)
Fairness ==
  \A h \in Handles :
    /\ WF_vars(InfoChangeKnown(h) \/ InfoChangeUnknown(h))
    /\ \A r \in Requests :
         /\ WF_vars(\E c \in commands[h] : c.req = r /\ CarryOut(h, c))
         /\ SF_vars(\E c \in commands[h] : c.req = r /\ Acknowledged(h, c))

FairSpec == Spec /\ Fairness

-------------------------------------------------------------------------------
TypeOK ==
  /\ file \in Files
  /\ livox_config \in [DOMAIN livox_config -> [Options -> -128 .. 127]]
  /\ registered \subseteq Handles
  /\ set_bits \in [Handles -> SUBSET Options]
  /\ connect_state \in [Handles -> {"off", "sampling"}]
  /\ commands \in [Handles -> SUBSET Command]
  /\ announced \subseteq Handles
  /\ round \in [Handles -> 0 .. MaxRounds]
  /\ applied \in [Handles -> SUBSET Options]
  /\ normal \subseteq Handles
  /\ acked \in [Handles -> SUBSET Options]
  /\ refused \in [Handles -> SUBSET Options]

Outstanding(h) == {c.req : c \in commands[h]}

(* The options in the last entry the file has for a lidar. *)
Entries(h) == {k \in DOMAIN Parse(file) : Parse(file)[k].ip = h}
Given(h) == IF Entries(h) = {} THEN << >> ELSE Parse(file)[Max(Entries(h))].given

(* Frames of a lidar of the file are published only once it has             *)
(* acknowledged the options of its last entry, and has never been sent      *)
(* another: each as the byte that the parser keeps of it (not always the    *)
(* number in the file, see FileIsSent), and none that comes out as -1.      *)
(* Whatever else is in the file and in whatever order, in whatever order    *)
(* the answers come, and however often a command was repeated.              *)
EntryIsInForce ==
  \A h \in Handles : connect_state[h] = "sampling" /\ Entries(h) # {} =>
    /\ acked[h] = {o \in DOMAIN Given(h) : Int8(Given(h)[o]) # NotGiven}
    /\ \A o \in acked[h] : livox_config[h][o] = Int8(Given(h)[o])

(* A lidar is set "according to the user-defined config", says              *)
(* livox_lidar_callback.cpp:54: each option sent to it is one its last      *)
(* entry gives, with the number that it gives.  But blind_spot_set, a       *)
(* number from 50 to 200 (README.md:200), is negative from 128 on after     *)
(* parse_livox_lidar_cfg.cpp:88; and the second time a lidar of no file is  *)
(* announced it has a place in the table, with zeros for options.           *)
FileIsSent ==
  \A h \in Handles : \A c \in commands[h] : c.req \in Options =>
    /\ c.req \in DOMAIN Given(h)
    /\ livox_config[h][c.req] = Given(h)[c.req]

(* Acknowledgements of the round before a restart may clear the bits of the *)
(* round after it, so that a restarted lidar is sampling with options it    *)
(* has forgotten; but not for longer than the new round's commands take.    *)
SettledMeansApplied ==
  \A h \in announced :
    /\ connect_state[h] = "sampling"
    /\ Outstanding(h) \cap Options = {}
    /\ refused[h] = {}
    => Configured(h) \subseteq applied[h]

(* Once options are on their way to a lidar it is published in the end,     *)
(* unless it refuses one; timeouts alone cannot prevent it.                 *)
EventuallySampling ==
  \A h \in Handles :
    set_bits[h] # {} ~>
      \/ connect_state[h] = "sampling" /\ set_bits[h] = {}
      \/ refused[h] # {}
===============================================================================
