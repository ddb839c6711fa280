----------------------------- MODULE BoundedFifo -----------------------------
(***************************************************************************)
(* What the driver expects of the queue between the thread that assembles  *)
(* point-cloud frames and the thread that publishes them: a first-in       *)
(* first-out queue of at most Capacity frames.  A frame offered while the  *)
(* queue is full is the one that is lost; nothing that was accepted is     *)
(* lost, repeated, or overtaken.                                           *)
(***************************************************************************)
EXTENDS Naturals, Sequences

CONSTANTS
  Frames,     (* the frames the producer may offer            *)
  Capacity,   (* number of frames the queue holds             *)
  NoFrame     (* "no frame yet", for the two history variables *)

VARIABLES
  queue,      (* the accepted, undelivered frames, oldest first     *)
  delivered,  (* the frame the consumer took last                   *)
  refused     (* the frame that was last dropped by a full queue    *)

vars == <<queue, delivered, refused>>

Init ==
  /\ queue = <<>>
  /\ delivered = NoFrame
  /\ refused = NoFrame

Accept(f) ==
  /\ Len(queue) < Capacity
  /\ queue' = Append(queue, f)
  /\ UNCHANGED <<delivered, refused>>

Refuse(f) ==
  /\ Len(queue) = Capacity
  /\ refused' = f
  /\ UNCHANGED <<queue, delivered>>

Deliver ==
  /\ queue # <<>>
  /\ delivered' = Head(queue)
  /\ queue' = Tail(queue)
  /\ UNCHANGED refused

Next == (\E f \in Frames : Accept(f) \/ Refuse(f)) \/ Deliver

Spec == Init /\ [][Next]_vars
==============================================================================
