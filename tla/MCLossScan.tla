---------------------------- MODULE MCLossScan -----------------------------
(* Instances of LossScan for TLC.                                          *)
EXTENDS LossScan

(* Full rings of 32 at both ends of the cycle of 255, a sparse one, one    *)
(* with an empty slot.                                                     *)
SomeRings == {1 .. Slots, Width - Slots .. Width - 1, 0 .. Slots - 1,
              {8 * k + 1 : k \in 0 .. Slots - 1}}
=============================================================================
