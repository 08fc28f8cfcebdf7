----------------------------- MODULE MCAckRing -----------------------------
(* Instances of AckRing for TLC.                                           *)
EXTENDS AckRing, TLC

(* Goroutines, and the contents of pings, are interchangeable.             *)
Symmetry == Permutations(Worker) \cup Permutations(Info)
=============================================================================
