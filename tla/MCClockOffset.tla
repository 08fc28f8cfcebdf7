--------------------------- MODULE MCClockOffset ---------------------------
(* Instances of ClockOffset for TLC.                                       *)
EXTENDS ClockOffset, TLC

(* Offsets on both sides of zero, one of them beyond the limit.            *)
FewOffsets == {-1, 1, 2}

At(r, o) == [RTT |-> r, Offset |-> o]

(* Polls that agree, that differ in offset or round trip; that disagree in *)
(* direction; that fail.                                                   *)
SomePolls ==
  {<<At(1, -1), At(1, -1)>>, <<At(2, -1), At(1, -1)>>, <<At(2, -1), At(2, -1)>>,
   <<At(1, 1), At(2, 2)>>, <<At(2, 2), At(2, 1)>>, <<At(2, 2), At(2, 2)>>, <<At(1, 2), At(1, 2)>>,
   <<At(1, -1), At(1, 2)>>, <<At(1, 2), Failed>>, <<Failed, At(2, -1)>>, <<Failed, Failed>>}

Symmetry == Permutations(Server)
=============================================================================
