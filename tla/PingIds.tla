------------------------------ MODULE PingIds ------------------------------
(***************************************************************************)
(* How pings are numbered: by the second, in a byte that skips 0.  What a  *)
(* search of the last half minute covers is stated here in seconds; that   *)
(* the loop of getLoss covers just this in byte arithmetic is LossScan's   *)
(* SearchesLastSeconds.                                                    *)
(***************************************************************************)
EXTENDS Integers, FiniteSets

CONSTANTS
  Width,  \* 256: the values of a uint8
  Slots   \* 32: the length of a ring, and the window getLoss means

ASSUME WidthAssumption == Width \in Nat /\ Slots \in Nat /\ 1 < Slots /\ Slots < Width - 1

(* Ids repeat after this many seconds.                                     *)
Cycle == Width - 1

(* uint8(time.Now().Unix()%255) + 1, the id of the ping of second t.       *)
PingID(t) == (t % Cycle) + 1

(* Mutant: the search goes back the whole length of the ring.              *)
ReachFull(t) == Slots

(* How many seconds a search in second t looks back: one less than the     *)
(* ring has slots, and one less again when it passes the id 0.             *)
Reach(t) == IF PingID(t) < Slots THEN Slots - 2 ELSE Slots - 1

(* The ids it looks for.                                                   *)
Searched(t) == {PingID(t - k) : k \in 1 .. Reach(t)}
=============================================================================
