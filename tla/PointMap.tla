------------------------------ MODULE PointMap ------------------------------
(***************************************************************************)
(* What FAST-LIO expects of its map of points, whatever trees it is kept   *)
(* in and whoever rebuilds them: one thread adds and deletes points, and   *)
(* everyone who reads the map reads all of it, as it was when the read     *)
(* began, until the read ends.  There is no action for a rebuild.          *)
(***************************************************************************)
EXTENDS Naturals

CONSTANTS
  Points,
  Readers,
  NULL        \* nothing is being read

VARIABLES
  points,     \* how often each point is in the map
  reading,    \* what each reader has before it
  lost        \* an operation was logged too late to be replayed in its place, or done to
              \* a tree that had left its place

vars == <<points, reading, lost>>

Bags == [Points -> Nat]

Init ==
  /\ points \in Bags
  /\ reading = [r \in Readers |-> NULL]
  /\ lost = FALSE

Unread == \A r \in Readers : reading[r] = NULL

Add(p) ==
  /\ Unread
  /\ points' = [points EXCEPT ![p] = @ + 1]
  /\ UNCHANGED <<reading, lost>>

Delete(box) ==
  /\ Unread
  /\ points' = [p \in Points |-> IF p \in box THEN 0 ELSE points[p]]
  /\ UNCHANGED <<reading, lost>>

Begin(r) ==
  /\ reading[r] = NULL
  /\ reading' = [reading EXCEPT ![r] = points]
  /\ UNCHANGED <<points, lost>>

End(r) ==
  /\ reading' = [reading EXCEPT ![r] = NULL]
  /\ UNCHANGED <<points, lost>>

\* The map may then change by itself, but not under the eyes of a reader.
Lose ==
  /\ lost' = TRUE
  /\ points' \in Bags
  /\ UNCHANGED reading

Next ==
  \/ \E p \in Points : Add(p)
  \/ \E box \in SUBSET Points : Delete(box)
  \/ \E r \in Readers : Begin(r) \/ End(r)
  \/ Lose

Spec == Init /\ [][Next]_vars
=============================================================================
