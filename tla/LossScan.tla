------------------------------ MODULE LossScan ------------------------------
(***************************************************************************)
(* getLoss: how many of the pings of the last half minute are missing from *)
(* the two rings of acknowledgements.  Pings are numbered by the second,   *)
(* in a byte that skips 0; the loop walks backwards from the current       *)
(* second in byte arithmetic.  A ring is kept as the set of the ids in it: *)
(* an empty slot has the id 0.                                             *)
(***************************************************************************)
EXTENDS PingIds

CONSTANT Rings  \* the rings to try

ASSUME RingsAssumption == Rings \subseteq SUBSET (0 .. Width - 1)

VARIABLES
  now,              \* the second getLoss is called in
  theirs, ours,     \* ids in rx.LastAcks and ses.LastAcks
  pc, i,            \* the loop
  TXLoss, RXLoss, TotalSent,  \* the results
  searched          \* history: the ids looked for

vars == <<now, theirs, ours, pc, i, TXLoss, RXLoss, TotalSent, searched>>

TipID == PingID(now)

Init ==
  /\ now \in Width - 1 .. 2 * (Width - 1) - 1
  /\ theirs \in Rings /\ ours \in Rings
  /\ pc = "check"
  /\ i = 0
  /\ TXLoss = 0 /\ RXLoss = 0 /\ TotalSent = 0
  /\ searched = {}

(* dumbLastAckSearchForID.                                                 *)
Acked(id, ring) == id \in ring

(* "Don't send loss stats when we don't have enough info": our ring is not *)
(* yet full.                                                               *)
TooEarly ==
  /\ pc = "check"
  /\ Acked(0, ours)
  /\ pc' = "done"
  /\ UNCHANGED <<now, theirs, ours, i, TXLoss, RXLoss, TotalSent, searched>>

Begin ==
  /\ pc = "check"
  /\ ~Acked(0, ours)
  /\ i' = (TipID - Slots) % Width
  /\ pc' = "scan"
  /\ UNCHANGED <<now, theirs, ours, TXLoss, RXLoss, TotalSent, searched>>

(* Mutants: 0 is not skipped; the byte stays at its end.                   *)
SuccZero(id) == (id + 1) % Width
SuccStuck(id) == IF id = Width - 1 THEN id ELSE id + 1

(* i++, twice if it wraps to 0.                                            *)
Succ(id) == IF (id + 1) % Width = 0 THEN 1 ELSE (id + 1) % Width

(* Mutant: the ids searched for in the two rings are counted the wrong     *)
(* way round.                                                              *)
CountSwapped(id) ==
  /\ TXLoss' = TXLoss + (IF Acked(id, ours) THEN 0 ELSE 1)
  /\ RXLoss' = RXLoss + (IF Acked(id, theirs) THEN 0 ELSE 1)

Count(id) ==
  /\ TXLoss' = TXLoss + (IF Acked(id, theirs) THEN 0 ELSE 1)
  /\ RXLoss' = RXLoss + (IF Acked(id, ours) THEN 0 ELSE 1)

Search ==
  /\ pc = "scan"
  /\ Succ(i) # TipID
  /\ i' = Succ(i)
  /\ Count(Succ(i))
  /\ searched' = searched \cup {Succ(i)}
  /\ UNCHANGED <<now, theirs, ours, pc, TotalSent>>

Finish ==
  /\ pc = "scan"
  /\ Succ(i) = TipID
  /\ i' = Succ(i)
  /\ TotalSent' = Slots
  /\ pc' = "done"
  /\ UNCHANGED <<now, theirs, ours, TXLoss, RXLoss, searched>>

Next == TooEarly \/ Begin \/ Search \/ Finish

(* The loop runs.                                                          *)
Spec == Init /\ [][Next]_vars /\ WF_vars(Next)

-----------------------------------------------------------------------------
(* The ids searched for in byte arithmetic are those the pings of the last *)
(* seconds were given by the remainder by 255, wherever in its cycle the   *)
(* id is: none is skipped, none is a ping not yet due.                     *)
SearchesLastSeconds ==
  TotalSent # 0 => searched = Searched(now)

(* The losses reported are the number of those pings each ring misses,     *)
(* none counted twice.                                                     *)
CountsAreExact ==
  TotalSent # 0 => /\ TXLoss = Cardinality(searched \ theirs)
                   /\ RXLoss = Cardinality(searched \ ours)

(* getLoss returns, for every second it is called in.                      *)
Terminates == <>(pc = "done")
=============================================================================
