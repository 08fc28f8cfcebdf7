--------------------------- MODULE LossScanProofs ---------------------------
(***************************************************************************)
(* getLoss, for a byte of any width, a ring of any length below it and any *)
(* two rings: the loop in byte arithmetic looks for the pings of the last  *)
(* seconds, each once.                                                     *)
(***************************************************************************)
EXTENDS LossScan, FiniteSetTheorems, TLAPS

(* The id of the ping k seconds before that of id tip.                     *)
Back(tip, k) == IF k < tip THEN tip - k ELSE tip - k + Cycle

(* The ids of the seconds after the k-th last, as far back as the search   *)
(* goes.                                                                   *)
Older(tip, k, reach) == {Back(tip, j) : j \in k + 1 .. reach}

(* The loop has looked for the seconds before the k-th last and its next   *)
(* id is that of the k-th last.                                            *)
ScanAt(k) ==
  /\ Succ(i) = Back(TipID, k)
  /\ searched = Older(TipID, k, Reach(now))

ScanInv ==
  /\ now \in Cycle .. 2 * Cycle - 1
  /\ i \in 0 .. Width - 1
  /\ pc \in {"check", "scan", "done"}
  /\ IsFiniteSet(searched)
  /\ TXLoss = Cardinality(searched \ theirs) /\ RXLoss = Cardinality(searched \ ours)
  /\ pc = "check" => searched = {}
  /\ pc = "scan" => \E k \in 0 .. Reach(now) : ScanAt(k)
  /\ TotalSent # 0 => pc = "done" /\ searched = Older(TipID, 0, Reach(now))

(* The id of this second is a byte other than 0.                           *)
LEMMA Tip ==
  ASSUME NEW t \in Cycle .. 2 * Cycle - 1
  PROVE  /\ Cycle \in Nat /\ Cycle > 0 /\ t \in Nat
         /\ PingID(t) = t - Cycle + 1 /\ PingID(t) \in 1 .. Cycle
         /\ Reach(t) \in 0 .. Cycle - 2
<1>1. Cycle \in Nat /\ Cycle > 1 /\ t \in Nat
  BY WidthAssumption DEF Cycle
<1> HIDE DEF Cycle
<1>2. t % Cycle = t - Cycle
  BY <1>1
<1>3. PingID(t) = t - Cycle + 1
  BY <1>2 DEF PingID
<1>4. Slots \in Nat /\ 1 < Slots /\ Slots < Cycle
  BY WidthAssumption DEF Cycle
<1> QED
  BY <1>1, <1>3, <1>4 DEF Reach

(* sendPackets' id of the k-th last second, in byte arithmetic.            *)
LEMMA BackIsPing ==
  ASSUME NEW t \in Cycle .. 2 * Cycle - 1, NEW k \in 0 .. Cycle - 1
  PROVE  PingID(t - k) = Back(PingID(t), k)
<1>1. /\ Cycle \in Nat /\ Cycle > 0 /\ t \in Nat
      /\ PingID(t) = t - Cycle + 1
  BY Tip
<1>2. t - k \in 0 .. 2 * Cycle - 1 /\ PingID(t - k) = ((t - k) % Cycle) + 1
  BY <1>1 DEF PingID
<1> HIDE DEF Cycle
<1>3. CASE t - k < Cycle
  <2>1. (t - k) % Cycle = t - k
    BY <1>1, <1>2, <1>3
  <2> QED
    BY <1>1, <1>2, <1>3, <2>1 DEF Back
<1>4. CASE t - k >= Cycle
  <2>1. (t - k) % Cycle = t - k - Cycle
    BY <1>1, <1>2, <1>4
  <2> QED
    BY <1>1, <1>2, <1>4, <2>1 DEF Back
<1> QED
  BY <1>1, <1>3, <1>4

(* The loop's i++ that skips 0 goes on to the next second.                 *)
LEMMA SuccOfBack ==
  ASSUME NEW tip \in 1 .. Cycle, NEW k \in 1 .. Cycle - 1
  PROVE  /\ Back(tip, k) \in 1 .. Cycle
         /\ Succ(Back(tip, k)) = Back(tip, k - 1)
<1>1. Width \in Nat /\ Cycle = Width - 1 /\ Width > 2
  BY WidthAssumption DEF Cycle
<1>2. Back(tip, k) \in 1 .. Cycle
  BY <1>1 DEF Back
<1>3. ASSUME NEW x \in 1 .. Cycle
      PROVE  Succ(x) = IF x = Cycle THEN 1 ELSE x + 1
  <2>1. CASE x = Cycle
    <3>1. x + 1 = Width
      BY <1>1, <2>1
    <3>2. Width % Width = 0
      BY <1>1
    <3> QED
      BY <2>1, <3>1, <3>2 DEF Succ
  <2>2. CASE x # Cycle
    <3>1. (x + 1) % Width = x + 1
      BY <1>1, <2>2
    <3> QED
      BY <2>2, <3>1 DEF Succ
  <2> QED
    BY <2>1, <2>2
<1> QED
  BY <1>1, <1>2, <1>3 DEF Back

(* Seconds less than a cycle apart have different ids.                     *)
LEMMA BackInjective ==
  ASSUME NEW tip \in 1 .. Cycle, NEW j \in 0 .. Cycle - 1, NEW k \in 0 .. Cycle - 1,
         Back(tip, j) = Back(tip, k)
  PROVE  j = k
<1>1. Cycle \in Nat
  BY WidthAssumption DEF Cycle
<1> QED
  BY <1>1 DEF Back

(* The loop starts before the oldest second of its reach, also where the   *)
(* start is in the cycle before, or on the id 0 that no ping has.          *)
LEMMA StartOfLoop ==
  ASSUME NEW t \in Cycle .. 2 * Cycle - 1, NEW s, s = (PingID(t) - Slots) % Width
  PROVE  s \in 0 .. Width - 1 /\ Succ(s) = Back(PingID(t), Reach(t))
<1>1. /\ Width \in Nat /\ Cycle = Width - 1 /\ Slots \in Nat /\ 1 < Slots /\ Slots < Cycle
      /\ PingID(t) \in 1 .. Cycle
  BY WidthAssumption, Tip DEF Cycle
<1> DEFINE tip == PingID(t)
<1> HIDE DEF tip
<1>2. CASE tip >= Slots
  <2>1. s = tip - Slots
    BY <1>1, <1>2 DEF tip
  <2>2. (s + 1) % Width = s + 1
    BY <1>1, <1>2, <2>1 DEF tip
  <2>3. Succ(s) = tip - Slots + 1
    BY <1>1, <1>2, <2>1, <2>2 DEF Succ, tip
  <2>4. Reach(t) = Slots - 1
    BY <1>1, <1>2 DEF Reach, tip
  <2> QED
    BY <1>1, <1>2, <2>1, <2>3, <2>4 DEF Back, tip
<1>3. CASE tip < Slots
  <2>1. s = tip - Slots + Width
    BY <1>1, <1>3 DEF tip
  <2>2. Reach(t) = Slots - 2
    BY <1>1, <1>3 DEF Reach, tip
  <2>3. CASE s = Cycle
    <3>1. s + 1 = Width /\ Width % Width = 0
      BY <1>1, <2>3
    <3>2. Succ(s) = 1
      BY <3>1 DEF Succ
    <3> QED
      BY <1>1, <1>3, <2>1, <2>2, <2>3, <3>2 DEF Back, tip
  <2>4. CASE s # Cycle
    <3>1. (s + 1) % Width = s + 1
      BY <1>1, <1>3, <2>1, <2>4 DEF tip
    <3>2. Succ(s) = s + 1
      BY <1>1, <1>3, <2>1, <3>1 DEF Succ, tip
    <3> QED
      BY <1>1, <1>3, <2>1, <2>2, <2>4, <3>2 DEF Back, tip
  <2> QED
    BY <2>3, <2>4
<1> QED
  BY <1>1, <1>2, <1>3 DEF tip

(* One more id looked for is one more loss, if the ring misses it.         *)
LEMMA CountOne ==
  ASSUME NEW S, IsFiniteSet(S), NEW ring, NEW x, x \notin S
  PROVE  Cardinality((S \cup {x}) \ ring) =
           Cardinality(S \ ring) + (IF x \in ring THEN 0 ELSE 1)
<1>1. IsFiniteSet(S \ ring) /\ Cardinality(S \ ring) \in Nat
  BY FS_Difference, FS_CardinalityType
<1>2. CASE x \in ring
  <2>1. (S \cup {x}) \ ring = S \ ring
    BY <1>2
  <2> QED
    BY <1>1, <1>2, <2>1
<1>3. CASE x \notin ring
  <2>1. (S \cup {x}) \ ring = (S \ ring) \cup {x} /\ x \notin S \ ring
    BY <1>3
  <2>2. Cardinality((S \ ring) \cup {x}) = Cardinality(S \ ring) + 1
    BY <1>1, <2>1, FS_AddElement
  <2> QED
    BY <1>3, <2>1, <2>2
<1> QED
  BY <1>2, <1>3

-----------------------------------------------------------------------------
(* Before the loop nothing is counted.                                     *)
LEMMA InitScan == Init => ScanInv
<1> SUFFICES ASSUME Init PROVE ScanInv
  OBVIOUS
<1>1. Width \in Nat /\ Width > 2 /\ now \in Cycle .. 2 * Cycle - 1
  BY WidthAssumption DEF Init, Cycle
<1>2. IsFiniteSet({}) /\ Cardinality({}) = 0
  BY FS_EmptySet
<1>3. searched \ theirs = {} /\ searched \ ours = {}
  BY DEF Init
<1> QED
  BY <1>1, <1>2, <1>3 DEF Init, ScanInv

(* The first id of the loop.                                               *)
LEMMA BeginScan == ASSUME ScanInv, Begin PROVE ScanInv'
<1>1. i' \in 0 .. Width - 1 /\ Succ(i') = Back(TipID, Reach(now))
  BY StartOfLoop DEF ScanInv, Begin, TipID
<1>2. Reach(now) \in Nat
  BY Tip DEF ScanInv
<1>3. Older(TipID, Reach(now), Reach(now)) = {}
  BY <1>2 DEF Older
<1>4. ScanAt(Reach(now))'
  BY <1>1, <1>3 DEF ScanInv, Begin, ScanAt, TipID, Succ
<1>5. (\E k \in 0 .. Reach(now) : ScanAt(k))'
  BY <1>2, <1>4 DEF Begin, ScanAt, TipID, Succ
<1> QED
  BY <1>1, <1>5 DEF ScanInv, Begin, TipID

(* One round of the loop looks for the next second, not looked for before. *)
LEMMA SearchScan == ASSUME ScanInv, Search PROVE ScanInv'
<1>1. PICK k \in 0 .. Reach(now) : ScanAt(k)
  BY DEF ScanInv, Search
<1>2. TipID \in 1 .. Cycle /\ Reach(now) \in 0 .. Cycle - 2 /\ Cycle \in Nat
  BY Tip DEF ScanInv, TipID
<1>3. k # 0
  <2>1. Back(TipID, 0) = TipID
    BY <1>2 DEF Back
  <2> QED
    BY <1>1, <2>1 DEF Search, ScanAt
<1>4. k \in 1 .. Cycle - 1 /\ k - 1 \in 0 .. Reach(now)
  BY <1>2, <1>3
<1>5. i' = Back(TipID, k) /\ i' \in 1 .. Cycle /\ Succ(i') = Back(TipID, k - 1)
  BY <1>1, <1>2, <1>4, SuccOfBack DEF Search, ScanAt
<1>6. searched' = searched \cup {Back(TipID, k)}
  BY <1>1 DEF Search, ScanAt
<1>7. Back(TipID, k) \notin searched
  <2> SUFFICES ASSUME NEW j \in k + 1 .. Reach(now), Back(TipID, j) = Back(TipID, k)
               PROVE  FALSE
    BY <1>1 DEF ScanAt, Older
  <2>1. j \in 0 .. Cycle - 1
    BY <1>2, <1>4
  <2>2. j = k
    BY <1>2, <1>4, <2>1, BackInjective
  <2> QED
    BY <1>2, <1>4, <2>2
<1>8. searched' = Older(TipID, k - 1, Reach(now))
  <2>1. k - 1 + 1 .. Reach(now) = (k + 1 .. Reach(now)) \cup {k}
    BY <1>2, <1>4
  <2> QED
    BY <1>1, <1>6, <2>1 DEF ScanAt, Older
<1>9. ScanAt(k - 1)'
  BY <1>5, <1>8 DEF Search, ScanAt, TipID, Succ
<1>10. (\E l \in 0 .. Reach(now) : ScanAt(l))'
  BY <1>4, <1>9 DEF Search, ScanAt, TipID, Succ
<1>11. IsFiniteSet(searched')
  BY <1>6, FS_AddElement DEF ScanInv
<1>12. TXLoss' = Cardinality(searched' \ theirs) /\ RXLoss' = Cardinality(searched' \ ours)
  BY <1>1, <1>6, <1>7, CountOne DEF ScanInv, Search, Count, Acked, ScanAt
<1>13. i' \in 0 .. Width - 1
  BY <1>5, WidthAssumption DEF Cycle
<1>14. TotalSent = 0
  BY DEF ScanInv, Search
<1> QED
  BY <1>10, <1>11, <1>12, <1>13, <1>14 DEF ScanInv, Search

(* The loop ends at the id of this second, with all before it looked for.  *)
LEMMA FinishScan == ASSUME ScanInv, Finish PROVE ScanInv'
<1>1. PICK k \in 0 .. Reach(now) : ScanAt(k)
  BY DEF ScanInv, Finish
<1>2. TipID \in 1 .. Cycle /\ Reach(now) \in 0 .. Cycle - 2 /\ Cycle \in Nat
  BY Tip DEF ScanInv, TipID
<1>3. Back(TipID, 0) = TipID
  BY <1>2 DEF Back
<1>4. k = 0
  <2>1. Back(TipID, k) = Back(TipID, 0)
    BY <1>1, <1>3 DEF Finish, ScanAt
  <2>2. k \in 0 .. Cycle - 1 /\ 0 \in 0 .. Cycle - 1
    BY <1>2
  <2> QED
    BY <1>2, <2>1, <2>2, BackInjective
<1>5. i' \in 0 .. Width - 1
  BY <1>2, WidthAssumption DEF Finish, Cycle
<1> QED
  BY <1>1, <1>4, <1>5 DEF ScanInv, Finish, ScanAt, TipID

(* Every step keeps the scan on the seconds.                               *)
LEMMA NextScan == ScanInv /\ [Next]_vars => ScanInv'
<1> SUFFICES ASSUME ScanInv, [Next]_vars PROVE ScanInv'
  OBVIOUS
<1>1. CASE TooEarly
  BY <1>1 DEF ScanInv, TooEarly, TipID
<1>2. CASE UNCHANGED vars
  BY <1>2 DEF ScanInv, ScanAt, TipID, Succ, vars
<1> QED
  BY <1>1, <1>2, BeginScan, SearchScan, FinishScan DEF Next

(* The loop of getLoss walks back second by second, in every state of      *)
(* every call.                                                             *)
THEOREM Scan == Spec => []ScanInv
<1> QED
  BY InitScan, NextScan, PTL DEF Spec

(* When getLoss reports, the ids it has searched for in byte arithmetic    *)
(* are those sendPackets gave the pings of the last seconds.               *)
THEOREM SearchedSeconds == Spec => []SearchesLastSeconds
<1>1. ScanInv => SearchesLastSeconds
  <2> SUFFICES ASSUME ScanInv, TotalSent # 0 PROVE searched = Searched(now)
    BY DEF SearchesLastSeconds
  <2>1. searched = {Back(TipID, k) : k \in 1 .. Reach(now)}
    BY DEF ScanInv, Older
  <2>2. now \in Cycle .. 2 * Cycle - 1 /\ Reach(now) \in 0 .. Cycle - 2 /\ Cycle \in Nat
    BY Tip DEF ScanInv
  <2>3. \A k \in 1 .. Reach(now) : PingID(now - k) = Back(TipID, k)
    BY <2>2, BackIsPing DEF TipID
  <2> QED
    BY <2>1, <2>3 DEF Searched
<1> QED
  BY <1>1, Scan, PTL

(* The losses getLoss reports are the numbers of those pings the two rings *)
(* miss: no id is counted twice.                                           *)
THEOREM ExactCounts == Spec => []CountsAreExact
<1>1. ScanInv => CountsAreExact
  BY DEF ScanInv, CountsAreExact
<1> QED
  BY <1>1, Scan, PTL
=============================================================================
