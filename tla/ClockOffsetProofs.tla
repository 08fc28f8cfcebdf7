------------------------- MODULE ClockOffsetProofs -------------------------
(***************************************************************************)
(* The clock offset, for any number of goroutines that ask for it, any set *)
(* of time servers and any answers.                                        *)
(***************************************************************************)
EXTENDS ClockOffset, FiniteSetTheorems, TLAPS

-----------------------------------------------------------------------------
(* A set of natural numbers has a least element.                           *)
LEMMA LeastExists ==
  ASSUME NEW T \in SUBSET Nat, T # {}
  PROVE  \E x \in T : \A y \in T : x <= y
<1>1. PICK x \in T : \A y \in T : ~(<<y, x>> \in OpToRel(<, Nat))
  BY NatLessThanWellFounded, WFMin
<1>2. \A y \in T : ~(y < x)
  BY <1>1 DEF OpToRel
<1> QED
  BY <1>2

(* The same of a measure on any set.                                       *)
LEMMA LeastBy ==
  ASSUME NEW T, T # {}, NEW f \in [T -> Nat]
  PROVE  \E x \in T : \A y \in T : f[x] <= f[y]
<1> DEFINE I == {f[x] : x \in T}
<1>1. I \in SUBSET Nat /\ I # {}
  OBVIOUS
<1>2. PICK m \in I : \A n \in I : m <= n
  BY <1>1, LeastExists
<1> QED
  BY <1>2

-----------------------------------------------------------------------------
(* The cells that the median is taken of.                                  *)

(* Answers that calibrateAgainstApple may consider: as many as there are   *)
(* cells at most, each with a number for an offset.                        *)
Considerable(R, S) ==
  /\ IsFiniteSet(S) /\ Cardinality(S) <= Considered
  /\ \A v \in S : R[v].Offset \in Int

(* The counts of the cells are numbers, and those of disjoint sets of      *)
(* offsets add up.                                                         *)
LEMMA CellsAdd ==
  ASSUME NEW R, NEW S, Considerable(R, S), NEW V, NEW W
  PROVE  /\ Cells(R, S, V) \in Nat
         /\ V \cap W = {} => Cells(R, S, V \cup W) = Cells(R, S, V) + Cells(R, S, W)
<1> DEFINE with(X) == {v \in S : R[v].Offset \in X}
           zeros(X) == IF 0 \in X THEN Considered - Cardinality(S) ELSE 0
<1>1. IsFiniteSet(S) /\ Considered \in Nat /\ Cardinality(S) <= Considered
  BY ConsideredAssumption DEF Considerable
<1>2. Cardinality(S) \in Nat
  BY <1>1, FS_CardinalityType
<1>3. ASSUME NEW X
      PROVE  IsFiniteSet(with(X)) /\ Cardinality(with(X)) \in Nat /\ zeros(X) \in Nat
  <2>1. with(X) \in SUBSET S
    OBVIOUS
  <2>2. IsFiniteSet(with(X))
    BY <1>1, <2>1, FS_Subset
  <2> QED
    BY <1>1, <1>2, <2>2, FS_CardinalityType
<1>4. Cells(R, S, V) = Cardinality(with(V)) + zeros(V)
  BY DEF Cells
<1>5. ASSUME V \cap W = {}
      PROVE  Cells(R, S, V \cup W) = Cells(R, S, V) + Cells(R, S, W)
  <2>1. with(V \cup W) = with(V) \cup with(W) /\ with(V) \cap with(W) = {}
    BY <1>5
  <2>2. Cardinality(with(V \cup W))
          = Cardinality(with(V)) + Cardinality(with(W)) - Cardinality(with(V) \cap with(W))
    BY <1>3, <2>1, FS_Union
  <2>3. Cardinality(with(V) \cap with(W)) = 0
    BY <2>1, FS_EmptySet
  <2>4. zeros(V \cup W) = zeros(V) + zeros(W)
    BY <1>1, <1>2, <1>5
  <2>5. /\ Cells(R, S, V \cup W) = Cardinality(with(V \cup W)) + zeros(V \cup W)
        /\ Cells(R, S, W) = Cardinality(with(W)) + zeros(W)
    BY DEF Cells
  <2> HIDE DEF with, zeros
  <2> QED
    BY <1>3, <1>4, <2>2, <2>3, <2>4, <2>5
<1> HIDE DEF with, zeros
<1> QED
  BY <1>3, <1>4, <1>5

(* A set of offsets that cells hold has one that a cell holds.             *)
LEMMA CellsWitness ==
  ASSUME NEW R, NEW S, Considerable(R, S), NEW V, Cells(R, S, V) > 0
  PROVE  \E y \in V : Cells(R, S, {y}) > 0
<1> DEFINE with(X) == {v \in S : R[v].Offset \in X}
<1>1. IsFiniteSet(S) /\ Considered \in Nat /\ Cardinality(S) <= Considered
  BY ConsideredAssumption DEF Considerable
<1>2. Cardinality(S) \in Nat
  BY <1>1, FS_CardinalityType
<1>3. ASSUME NEW X
      PROVE  /\ IsFiniteSet(with(X)) /\ Cardinality(with(X)) \in Nat
             /\ Cardinality(with(X)) = 0 <=> with(X) = {}
  <2>1. with(X) \in SUBSET S
    OBVIOUS
  <2>2. IsFiniteSet(with(X))
    BY <1>1, <2>1, FS_Subset
  <2> QED
    BY <2>2, FS_CardinalityType, FS_EmptySet
<1>4. CASE 0 \in V /\ Considered - Cardinality(S) > 0
  <2>1. Cells(R, S, {0}) = Cardinality(with({0})) + (Considered - Cardinality(S))
    BY DEF Cells
  <2>2. Cells(R, S, {0}) > 0
    <3>1. Cardinality(with({0})) \in Nat
      BY <1>3
    <3> HIDE DEF with
    <3> QED
      BY <1>1, <1>2, <1>4, <2>1, <3>1
  <2> QED
    BY <1>4, <2>2
<1>5. CASE with(V) # {}
  <2>1. PICK v \in S : R[v].Offset \in V
    BY <1>5
  <2> DEFINE y == R[v].Offset
  <2>2. v \in with({y})
    OBVIOUS
  <2>3. Cardinality(with({y})) \in Nat \ {0}
    BY <1>3, <2>2
  <2>4. Cells(R, S, {y})
          = Cardinality(with({y})) + (IF 0 \in {y} THEN Considered - Cardinality(S) ELSE 0)
    BY DEF Cells
  <2>5. Cells(R, S, {y}) > 0
    <3> HIDE DEF with, y
    <3> QED
      BY <1>1, <1>2, <2>3, <2>4
  <2> QED
    BY <2>1, <2>5
<1>6. CASE with(V) = {} /\ ~(0 \in V /\ Considered - Cardinality(S) > 0)
  <2>1. Cardinality(with(V)) = 0
    BY <1>3, <1>6
  <2>2. Cells(R, S, V)
          = Cardinality(with(V)) + (IF 0 \in V THEN Considered - Cardinality(S) ELSE 0)
    BY DEF Cells
  <2> HIDE DEF with
  <2> QED
    BY <1>1, <1>2, <1>6, <2>1, <2>2
<1> QED
  BY <1>4, <1>5, <1>6

(* All the cells hold one of the offsets measured, or 0.                   *)
LEMMA CellsAll ==
  ASSUME NEW R, NEW S, Considerable(R, S)
  PROVE  Cells(R, S, {R[v].Offset : v \in S} \cup {0}) = Considered
<1> DEFINE values == {R[v].Offset : v \in S} \cup {0}
<1>1. {v \in S : R[v].Offset \in values} = S /\ 0 \in values
  OBVIOUS
<1>2. Cardinality(S) \in Nat /\ Considered \in Nat
  BY FS_CardinalityType, ConsideredAssumption DEF Considerable
<1> HIDE DEF values
<1>3. Cells(R, S, values) = Cardinality(S) + (Considered - Cardinality(S))
  BY <1>1 DEF Cells
<1>4. Cells(R, S, values) = Considered
  BY <1>2, <1>3
<1> QED
  BY <1>4 DEF values

-----------------------------------------------------------------------------
(* The median.                                                             *)

(* What considerableNTPresponces[2] is after the sort by offset: the cells *)
(* that hold less, and those that hold more, are no more than half.        *)
IsMedian(R, S, x) ==
  LET values == {R[v].Offset : v \in S} \cup {0}
  IN /\ Cells(R, S, {x}) > 0
     /\ Cells(R, S, {y \in values : y < x}) <= Considered \div 2
     /\ Cells(R, S, {y \in values : y > x}) <= Considered \div 2

(* How a set of integers falls apart at one or two of its elements.        *)
LEMMA IntSplit ==
  ASSUME NEW V, \A u \in V : u \in Int, NEW x \in V, NEW y \in V
  PROVE  /\ {u \in V : u <= x} = {u \in V : u < x} \cup {x}
         /\ {u \in V : u < x} \cap {x} = {}
         /\ V = {u \in V : u <= x} \cup {u \in V : u > x}
         /\ {u \in V : u <= x} \cap {u \in V : u > x} = {}
         /\ y < x => {u \in V : u < x} = {u \in V : u <= y} \cup {u \in V : y < u /\ u < x}
         /\ {u \in V : u <= y} \cap {u \in V : y < u /\ u < x} = {}
<1>1. {u \in V : u <= x} = {u \in V : u < x} \cup {x} /\ {u \in V : u < x} \cap {x} = {}
  OBVIOUS
<1>2. V = {u \in V : u <= x} \cup {u \in V : u > x}
  OBVIOUS
<1>3. {u \in V : u <= x} \cap {u \in V : u > x} = {}
  OBVIOUS
<1>4. y < x => {u \in V : u < x} = {u \in V : u <= y} \cup {u \in V : y < u /\ u < x}
  OBVIOUS
<1>5. {u \in V : u <= y} \cap {u \in V : y < u /\ u < x} = {}
  OBVIOUS
<1> QED
  BY <1>1, <1>2, <1>3, <1>4, <1>5

(* There is one: the least offset up to which the cells are more than      *)
(* half.                                                                   *)
LEMMA MedianExists ==
  ASSUME NEW R, NEW S, Considerable(R, S)
  PROVE  \E x \in {R[v].Offset : v \in S} \cup {0} : IsMedian(R, S, x)
<1> DEFINE values == {R[v].Offset : v \in S} \cup {0}
           half == Considered \div 2
           C(V) == Cells(R, S, V)
           below(x) == {y \in values : y < x}
           above(x) == {y \in values : y > x}
           upto(x) == {y \in values : y <= x}
           filled == {x \in values : C({x}) > 0}
<1>1. \A u \in values : u \in Int
  BY DEF Considerable
<1>2. Considered \in Nat /\ half \in Nat /\ Considered = 2 * half + 1
  BY ConsideredAssumption
<1>3. C(values) = Considered
  BY CellsAll
<1>4. ASSUME NEW V, NEW W
      PROVE  C(V) \in Nat /\ (V \cap W = {} => C(V \cup W) = C(V) + C(W))
  BY CellsAdd
<1>5. ASSUME NEW V \in SUBSET values, C(V) > 0 PROVE \E y \in V : y \in filled
  <2>1. \E y \in V : C({y}) > 0
    BY <1>5, CellsWitness
  <2> QED
    BY <2>1
<1> HIDE DEF values, C, half
<1>6. ASSUME NEW x \in values
      PROVE  /\ C(upto(x)) \in Nat /\ C(upto(x)) <= Considered
             /\ C(upto(x)) = C(below(x)) + C({x})
             /\ Considered = C(upto(x)) + C(above(x))
  <2>1. upto(x) = below(x) \cup {x} /\ below(x) \cap {x} = {}
    BY <1>1, IntSplit
  <2>2. values = upto(x) \cup above(x) /\ upto(x) \cap above(x) = {}
    BY <1>1, IntSplit
  <2>3. C(upto(x)) = C(below(x)) + C({x})
    BY <1>4, <2>1
  <2>4. Considered = C(upto(x)) + C(above(x))
    BY <1>3, <1>4, <2>2
  <2>5. C(upto(x)) \in Nat /\ C(above(x)) \in Nat
    BY <1>4
  <2> HIDE DEF upto, above, below
  <2> QED
    BY <1>2, <2>3, <2>4, <2>5
<1>7. ASSUME NEW y \in values, NEW z \in filled, y < z
      PROVE  C(upto(y)) < C(upto(z))
  <2> DEFINE rest == {u \in values : y < u /\ u < z}
  <2>1. /\ below(z) = upto(y) \cup rest /\ upto(y) \cap rest = {} /\ z \in values
    BY <1>1, <1>7, IntSplit
  <2>2. C(below(z)) = C(upto(y)) + C(rest)
    BY <1>4, <2>1
  <2>3. C(upto(z)) = C(below(z)) + C({z}) /\ C({z}) > 0
    BY <1>6, <2>1
  <2>4. C(rest) \in Nat /\ C({z}) \in Nat /\ C(upto(y)) \in Nat
    BY <1>4
  <2> HIDE DEF upto, below, rest
  <2> QED
    BY <2>2, <2>3, <2>4
(* The offset with most cells up to it among any of them that are filled.  *)
<1>8. ASSUME NEW P \in SUBSET filled, P # {}
      PROVE  \E x \in P : \A y \in P : C(upto(y)) <= C(upto(x))
  <2> DEFINE f == [x \in P |-> Considered - C(upto(x))]
  <2>1. \A x \in P : C(upto(x)) \in Nat /\ C(upto(x)) <= Considered
    BY <1>6
  <2>2. f \in [P -> Nat]
    BY <1>2, <2>1
  <2>3. PICK x \in P : \A y \in P : f[x] <= f[y]
    <3> HIDE DEF f
    <3> QED
      BY <1>8, <2>2, LeastBy
  <2>4. \A y \in P : Considered - C(upto(x)) <= Considered - C(upto(y))
    BY <2>3
  <2> QED
    <3> HIDE DEF f, upto
    <3> QED
      BY <1>2, <2>1, <2>4
<1> DEFINE T == {x \in filled : C(upto(x)) > half}
<1>9. T # {}
  <2>1. filled # {}
    <3>1. C(values) > 0
      BY <1>2, <1>3
    <3> QED
      BY <1>5, <3>1
  <2>2. PICK x \in filled : \A y \in filled : C(upto(y)) <= C(upto(x))
    BY <1>8, <2>1
  <2>3. C(above(x)) = 0
    <3>1. C(above(x)) \in Nat
      BY <1>4
    <3> SUFFICES ASSUME C(above(x)) > 0 PROVE FALSE
      <4> HIDE DEF above, C
      <4> QED
        BY <3>1
    <3>2. PICK z \in above(x) : z \in filled
      BY <1>5
    <3>3. C(upto(x)) < C(upto(z)) /\ C(upto(z)) <= C(upto(x))
      BY <1>7, <2>2, <3>2
    <3>4. C(upto(x)) \in Nat /\ C(upto(z)) \in Nat
      BY <1>4
    <3> HIDE DEF upto
    <3> QED
      BY <3>3, <3>4
  <2>4. C(upto(x)) > half
    <3>1. Considered = C(upto(x)) + C(above(x)) /\ C(upto(x)) \in Nat
      BY <1>6, <2>2
    <3> HIDE DEF upto, above
    <3> QED
      BY <1>2, <2>3, <3>1
  <2> QED
    BY <2>2, <2>4
<1>10. PICK x \in T : \A y \in T : C(upto(x)) <= C(upto(y))
  <2> DEFINE f == [y \in T |-> C(upto(y))]
  <2>1. f \in [T -> Nat]
    BY <1>4
  <2>2. PICK x \in T : \A y \in T : f[x] <= f[y]
    <3> HIDE DEF f, T
    <3> QED
      BY <1>9, <2>1, LeastBy
  <2> QED
    BY <2>2
<1>11. x \in values /\ x \in filled /\ C({x}) > 0 /\ C(upto(x)) > half
  BY <1>10
<1>12. C(above(x)) <= half
  <2>1. Considered = C(upto(x)) + C(above(x)) /\ C(upto(x)) \in Nat /\ C(above(x)) \in Nat
    BY <1>4, <1>6, <1>11
  <2> HIDE DEF upto, above, T, filled
  <2> QED
    BY <1>2, <1>11, <2>1
<1>13. C(below(x)) <= half
  <2>1. SUFFICES ASSUME C(below(x)) > half PROVE FALSE
    BY <1>2, <1>4
  <2> DEFINE P == {y \in filled : y < x}
  <2>2. P # {}
    <3>1. C(below(x)) > 0
      BY <1>2, <1>4, <2>1
    <3> QED
      BY <1>5, <3>1
  <2>3. PICK y \in P : \A z \in P : C(upto(z)) <= C(upto(y))
    BY <1>8, <2>2
  <2> DEFINE rest == {z \in values : y < z /\ z < x}
  <2>4. C(rest) = 0
    <3>1. C(rest) \in Nat
      BY <1>4
    <3> SUFFICES ASSUME C(rest) > 0 PROVE FALSE
      <4> HIDE DEF rest, C
      <4> QED
        BY <3>1
    <3>2. PICK z \in rest : z \in filled
      BY <1>5
    <3>3. C(upto(y)) < C(upto(z)) /\ C(upto(z)) <= C(upto(y))
      BY <1>7, <2>3, <3>2
    <3>4. C(upto(y)) \in Nat /\ C(upto(z)) \in Nat
      BY <1>4
    <3> HIDE DEF upto
    <3> QED
      BY <3>3, <3>4
  <2>5. C(below(x)) = C(upto(y)) + C(rest)
    <3>1. below(x) = upto(y) \cup rest /\ upto(y) \cap rest = {}
      BY <1>1, <1>11, <2>3, IntSplit
    <3> QED
      BY <1>4, <3>1
  <2>6. C(upto(x)) = C(below(x)) + C({x})
    BY <1>6, <1>11
  <2>7. /\ C(upto(y)) \in Nat /\ C(upto(x)) \in Nat /\ C({x}) \in Nat /\ C(below(x)) \in Nat
    BY <1>4
  <2>8. C(upto(y)) = C(below(x))
    <3> HIDE DEF upto, below, rest
    <3> QED
      BY <2>4, <2>5, <2>7
  <2>9. y \in T
    BY <2>1, <2>3, <2>8
  <2>10. C(upto(x)) <= C(upto(y))
    BY <1>10, <2>9
  <2> HIDE DEF upto, below, T, filled
  <2> QED
    BY <1>11, <2>6, <2>7, <2>8, <2>10
<1>14. IsMedian(R, S, x)
  BY <1>11, <1>12, <1>13 DEF IsMedian, values, C, half
<1> QED
  BY <1>11, <1>14 DEF values

(* So MedianOffset is one of the offsets measured, or 0, and a median.     *)
LEMMA MedianFacts ==
  ASSUME NEW R, NEW S, Considerable(R, S)
  PROVE  /\ MedianOffset(R, S) \in {R[v].Offset : v \in S} \cup {0}
         /\ IsMedian(R, S, MedianOffset(R, S))
<1> DEFINE values == {R[v].Offset : v \in S} \cup {0}
<1>1. MedianOffset(R, S) = CHOOSE x \in values : IsMedian(R, S, x)
  BY DEF MedianOffset, IsMedian
<1>2. \E x \in values : IsMedian(R, S, x)
  BY MedianExists
<1> HIDE DEF values
<1>3. MedianOffset(R, S) \in values /\ IsMedian(R, S, MedianOffset(R, S))
  BY <1>1, <1>2
<1> QED
  BY <1>3 DEF values

-----------------------------------------------------------------------------
(* What a poll of a server amounts to.                                     *)

(* Of two numbers Max and Min are one each.                                *)
LEMMA MaxMinOfTwo ==
  ASSUME NEW x \in Int, NEW y \in Int
  PROVE  /\ Max({x, y}) = IF x >= y THEN x ELSE y
         /\ Min({x, y}) = IF x <= y THEN x ELSE y
BY DEF Max, Min

(* Sorting two measurements and a zero puts the one of smaller size in the *)
(* middle if they are on the same side of zero, and zero otherwise.        *)
LEMMA MiddleOfZero ==
  ASSUME NEW x \in Int, NEW y \in Int
  PROVE  /\ Middle(x, y, 0) \in {x, y, 0}
         /\ Middle(x, y, 0) # 0 => (x > 0 /\ y > 0) \/ (x < 0 /\ y < 0)
<1> DEFINE lo == IF x <= y THEN x ELSE y
           hi == IF x >= y THEN x ELSE y
           mid == IF hi <= 0 THEN hi ELSE 0
<1>1. Min({x, y}) = lo /\ Max({x, y}) = hi /\ lo \in Int /\ hi \in Int
  BY MaxMinOfTwo
<1>2. Min({hi, 0}) = mid /\ mid \in Int
  <2> HIDE DEF hi
  <2> QED
    BY <1>1, MaxMinOfTwo
<1>3. Max({lo, mid}) = IF lo >= mid THEN lo ELSE mid
  <2> HIDE DEF lo, mid
  <2> QED
    BY <1>1, <1>2, MaxMinOfTwo
<1>4. Middle(x, y, 0) = IF lo >= mid THEN lo ELSE mid
  BY <1>1, <1>2, <1>3 DEF Middle
<1> QED
  BY <1>4

(* Offsets, and the two that are not measured, are numbers.                *)
LEMMA OffsetsAreInt == \A x \in Offset \cup {0, 1} : x \in Int
<1>1. \A x \in Offset : x \in Int
  BY OffsetAssumption
<1> QED
  BY <1>1

(* The answer of a server: numbers, the offset one that was measured or 0, *)
(* and what is known if the answer is usable.                              *)
LEMMA PollFacts ==
  ASSUME NEW a \in Poll, NEW b \in Poll
  PROVE  /\ ntpTriplePoll(a, b).Offset \in Offset \cup {0}
         /\ ntpTriplePoll(a, b).RTT \in Nat
         /\ Usable(a, b) => a # Failed /\ b # Failed /\ a.Offset * b.Offset > 0
<1>1. OffsetOf(a) \in Offset \cup {0} /\ OffsetOf(b) \in Offset \cup {0}
  BY DEF Poll, ntpResult, OffsetOf
<1>2. RTTOf(a) \in Nat /\ RTTOf(b) \in Nat
  BY RoundTripAssumption DEF Poll, ntpResult, RTTOf
<1>3. OffsetOf(a) \in Int /\ OffsetOf(b) \in Int
  BY <1>1, OffsetsAreInt
<1>4. /\ ntpTriplePoll(a, b).Offset = Middle(OffsetOf(a), OffsetOf(b), 0)
      /\ ntpTriplePoll(a, b).RTT = Middle(RTTOf(a), RTTOf(b), 0)
  BY DEF ntpTriplePoll
<1>5. ntpTriplePoll(a, b).Offset \in {OffsetOf(a), OffsetOf(b), 0}
  BY <1>3, <1>4, MiddleOfZero
<1>6. ntpTriplePoll(a, b).RTT \in {RTTOf(a), RTTOf(b), 0}
  BY <1>2, <1>4, MiddleOfZero
<1>7. ASSUME Usable(a, b)
      PROVE  a # Failed /\ b # Failed /\ a.Offset * b.Offset > 0
  <2>1. Middle(OffsetOf(a), OffsetOf(b), 0) # 0
    BY <1>4, <1>7 DEF Usable
  <2>2. \/ OffsetOf(a) > 0 /\ OffsetOf(b) > 0
        \/ OffsetOf(a) < 0 /\ OffsetOf(b) < 0
    BY <1>3, <2>1, MiddleOfZero
  <2>3. a # Failed /\ b # Failed
    BY <2>2 DEF OffsetOf
  <2>4. a.Offset \in Int /\ b.Offset \in Int
    BY <1>3, <2>3 DEF OffsetOf
  <2>5. \/ a.Offset > 0 /\ b.Offset > 0
        \/ a.Offset < 0 /\ b.Offset < 0
    BY <2>2, <2>3 DEF OffsetOf
  <2>6. \A x, y \in Int : (x > 0 /\ y > 0) \/ (x < 0 /\ y < 0) => x * y > 0
    OBVIOUS
  <2> QED
    BY <2>3, <2>4, <2>5, <2>6
<1> QED
  BY <1>1, <1>2, <1>5, <1>6, <1>7

(* What a calibration may have collected.                                  *)
Collected == UNION {[D -> UsablePolls] : D \in SUBSET Server}

(* The answers behind a calibration have numbers for offset and round      *)
(* trip, and come from finitely many servers.                              *)
LEMMA AnswerFacts ==
  ASSUME NEW R \in Collected
  PROVE  /\ DOMAIN R \subseteq Server /\ IsFiniteSet(DOMAIN R)
         /\ DOMAIN Answer(R) = DOMAIN R
         /\ \A v \in DOMAIN R : /\ R[v][1] \in Poll /\ R[v][2] \in Poll
                                /\ Usable(R[v][1], R[v][2])
                                /\ Answer(R)[v].Offset \in Offset \cup {0}
                                /\ Answer(R)[v].RTT \in Nat
<1>1. PICK D \in SUBSET Server : R \in [D -> UsablePolls]
  BY DEF Collected
<1>2. IsFiniteSet(D)
  BY FS_Subset, ServerAssumption
<1>3. ASSUME NEW v \in D
      PROVE  /\ R[v][1] \in Poll /\ R[v][2] \in Poll /\ Usable(R[v][1], R[v][2])
             /\ Answer(R)[v] = ntpTriplePoll(R[v][1], R[v][2])
  <2>1. R[v] \in UsablePolls
    BY <1>1
  <2>2. R[v] \in Poll \X Poll /\ Usable(R[v][1], R[v][2])
    BY <2>1, PollsAssumption DEF UsablePolls
  <2> QED
    BY <1>1, <2>2 DEF Answer
<1>4. ASSUME NEW v \in D
      PROVE  Answer(R)[v].Offset \in Offset \cup {0} /\ Answer(R)[v].RTT \in Nat
  BY <1>3, PollFacts
<1> QED
  BY <1>1, <1>2, <1>3, <1>4 DEF Answer

(* The answers taken are some of them, as many as there are cells if there *)
(* are that many.                                                          *)
LEMMA BestFacts ==
  ASSUME NEW R \in Collected, NEW S \in Best(Answer(R))
  PROVE  /\ S \subseteq DOMAIN R /\ Considerable(Answer(R), S)
         /\ Cardinality(DOMAIN R) = Considered => S = DOMAIN R
         /\ \A u \in S, v \in DOMAIN R \ S : Answer(R)[u].RTT <= Answer(R)[v].RTT
<1>1. /\ IsFiniteSet(DOMAIN R) /\ DOMAIN Answer(R) = DOMAIN R
      /\ \A v \in DOMAIN R : Answer(R)[v].Offset \in Int
  <2>1. \A v \in DOMAIN R : Answer(R)[v].Offset \in Offset \cup {0}
    BY AnswerFacts
  <2>2. \A v \in DOMAIN R : Answer(R)[v].Offset \in Int
    BY <2>1, OffsetsAreInt
  <2> QED
    BY <2>2, AnswerFacts
<1>2. /\ S \in SUBSET DOMAIN R
      /\ Cardinality(S) = Min({Considered, Cardinality(DOMAIN R)})
      /\ \A u \in S, v \in DOMAIN R \ S : Answer(R)[u].RTT <= Answer(R)[v].RTT
  BY <1>1 DEF Best
<1>3. IsFiniteSet(S)
  BY <1>1, <1>2, FS_Subset
<1>4. Cardinality(DOMAIN R) \in Nat /\ Considered \in Nat
  BY <1>1, FS_CardinalityType, ConsideredAssumption
<1>5. Cardinality(S) = IF Considered <= Cardinality(DOMAIN R)
                       THEN Considered ELSE Cardinality(DOMAIN R)
  BY <1>2, <1>4, MaxMinOfTwo
<1>6. Considerable(Answer(R), S)
  BY <1>1, <1>2, <1>3, <1>4, <1>5 DEF Considerable
<1>7. Cardinality(DOMAIN R) = Considered => S = DOMAIN R
  BY <1>1, <1>2, <1>4, <1>5, FS_Subset
<1> QED
  BY <1>2, <1>6, <1>7

-----------------------------------------------------------------------------
(* The goroutines.                                                         *)

(* Until the first offset is stored only main is at work, and it cannot    *)
(* find lastSync set before it stores.                                     *)
MainAlone ==
  calibrated = "never" =>
    /\ ~started
    /\ \A c \in Caller \ {Main} : pc[c] = "idle"
    /\ pc[Main] \in {"idle", "calibrate", "store"}
    /\ lastSync = "recent" => pc[Main] = "store"

(* The answers kept are usable ones, and whoever is about to store has     *)
(* computed its offset from them.                                          *)
ValueFromResults ==
  /\ results \in Collected
  /\ results # << >> =>
       /\ ~flagClockIsPerfect
       /\ \A c \in Caller :
            pc[c] = "store" =>
              \E S \in Best(Answer(results)) : value[c] = MedianOffset(Answer(results), S)

CInv ==
  /\ TypeOK
  /\ OutOfSyncCaught
  /\ RecentMeansCalibrated
  /\ MainAlone
  /\ ValueFromResults

(* A calibration without answers has nothing in it.                        *)
LEMMA NoResults == << >> \in Collected /\ DOMAIN << >> = {}
<1>1. << >> \in [{} -> UsablePolls]
  OBVIOUS
<1> QED
  BY <1>1 DEF Collected

(* In the initial state nobody has asked.                                  *)
LEMMA InitCInv == ASSUME Init PROVE CInv
<1>1. flagClockIsPerfect \in BOOLEAN /\ started \in BOOLEAN
  BY Zenon DEF Init
<1>2. TypeOK
  BY <1>1, NoResults DEF Init, TypeOK, PC
<1>3. OutOfSyncCaught
  BY OffsetAssumption DEF Init, OutOfSyncCaught
<1>4. RecentMeansCalibrated /\ MainAlone /\ ValueFromResults
  BY NoResults, MainAssumption DEF Init, RecentMeansCalibrated, MainAlone, ValueFromResults
<1> QED
  BY <1>2, <1>3, <1>4 DEF CInv

(* A caller that has its offset from a calibration has one of the type.    *)
LEMMA CalibrateType ==
  ASSUME NEW R \in Collected, NEW S \in Best(Answer(R))
  PROVE  MedianOffset(Answer(R), S) \in Offset \cup {0}
<1>1. MedianOffset(Answer(R), S) \in {Answer(R)[v].Offset : v \in S} \cup {0}
  BY BestFacts, MedianFacts
<1>2. \A v \in S : Answer(R)[v].Offset \in Offset \cup {0}
  BY BestFacts, AnswerFacts
<1> QED
  BY <1>1, <1>2

(* The test at the head of getTimeOffset.                                  *)
LEMMA CallStep ==
  ASSUME CInv, NEW c \in Caller, Call(c)
  PROVE  CInv'
<1> USE DEF CInv, Call, Goto, MayCall, syncVars
<1>1. TypeOK'
  BY DEF TypeOK, PC
<1>2. OutOfSyncCaught' /\ RecentMeansCalibrated'
  BY DEF TypeOK, OutOfSyncCaught, RecentMeansCalibrated
<1>3. MainAlone'
  BY MainAssumption DEF TypeOK, MainAlone
<1>4. ValueFromResults'
  BY DEF TypeOK, ValueFromResults
<1> QED
  BY <1>1, <1>2, <1>3, <1>4

(* -clock-is-perfect.                                                      *)
LEMMA AssumePerfectStep ==
  ASSUME CInv, NEW c \in Caller, AssumePerfect(c)
  PROVE  CInv'
<1> USE DEF CInv, AssumePerfect, Goto
<1>1. TypeOK'
  BY DEF TypeOK, PC
<1>2. OutOfSyncCaught' /\ RecentMeansCalibrated'
  BY DEF TypeOK, OutOfSyncCaught, RecentMeansCalibrated
<1>3. MainAlone'
  BY MainAssumption DEF TypeOK, MainAlone
<1>4. ValueFromResults'
  BY DEF TypeOK, ValueFromResults
<1> QED
  BY <1>1, <1>2, <1>3, <1>4

(* calibrateAgainstApple.                                                  *)
LEMMA CalibrateStep ==
  ASSUME CInv, NEW c \in Caller, NEW R \in Collected, Calibrate(c, R)
  PROVE  CInv'
<1>1. PICK S \in Best(Answer(R)) : value' = [value EXCEPT ![c] = MedianOffset(Answer(R), S)]
  BY DEF Calibrate
<1>2. MedianOffset(Answer(R), S) \in Offset \cup {0}
  BY CalibrateType
<1>3. results' \in Collected /\ DOMAIN results' \subseteq Server
  BY NoResults, AnswerFacts DEF Calibrate
<1> DEFINE x == MedianOffset(Answer(R), S)
<1> HIDE DEF x
<1>4. value' = [value EXCEPT ![c] = x] /\ x \in Offset \cup {0}
  BY <1>1, <1>2 DEF x
<1>5. TypeOK'
  BY <1>3, <1>4 DEF CInv, TypeOK, PC, Calibrate, Goto
<1>6. OutOfSyncCaught' /\ RecentMeansCalibrated'
  BY DEF CInv, TypeOK, OutOfSyncCaught, RecentMeansCalibrated, Calibrate, Goto
<1>7. MainAlone'
  BY MainAssumption DEF CInv, TypeOK, MainAlone, Calibrate, Goto
<1>8. ValueFromResults'
  <2>1. CASE results' = << >>
    BY <1>3, <2>1 DEF ValueFromResults
  <2>2. CASE results' # << >>
    <3>1. results' = R /\ Alone(c) /\ ~flagClockIsPerfect'
      BY <2>2 DEF Calibrate
    <3>2. \A d \in Caller : pc'[d] = "store" => d = c
      BY <3>1 DEF CInv, TypeOK, Alone, Calibrate, Goto
    <3>3. value'[c] = MedianOffset(Answer(R), S)
      BY <1>4 DEF CInv, TypeOK, x
    <3> QED
      BY <1>3, <3>1, <3>2, <3>3 DEF ValueFromResults
  <2> QED
    BY <2>1, <2>2
<1> QED
  BY <1>5, <1>6, <1>7, <1>8 DEF CInv

(* The offset is stored.                                                   *)
LEMMA StoreStep ==
  ASSUME CInv, NEW c \in Caller, Store(c)
  PROVE  CInv'
<1> USE DEF CInv, Store, Goto
<1>1. TypeOK'
  BY NoResults DEF TypeOK, PC
<1>2. OutOfSyncCaught' /\ RecentMeansCalibrated'
  BY DEF TypeOK, OutOfSyncCaught, RecentMeansCalibrated
<1>3. MainAlone'
  BY DEF MainAlone
<1>4. ValueFromResults'
  BY NoResults DEF ValueFromResults
<1> QED
  BY <1>1, <1>2, <1>3, <1>4

(* The offset in force is tested.                                          *)
LEMMA CheckStep ==
  ASSUME CInv, NEW c \in Caller, Check(c)
  PROVE  CInv'
<1>1. /\ pc[c] = "check" /\ calibrated' = calibrated /\ timeOffset' = timeOffset
      /\ \/ pc' = [pc EXCEPT ![c] = "check"] /\ status' = "fatal"
         \/ ~OutOfSync /\ pc' = [pc EXCEPT ![c] = "return"] /\ status' = status
  BY DEF Check, Goto, syncVars
<1>2. UNCHANGED <<flagClockIsPerfect, lastSync, value, started, results>>
  BY DEF Check, syncVars
<1>3. TypeOK'
  BY <1>1, <1>2 DEF CInv, TypeOK, PC
<1>4. OutOfSyncCaught' /\ RecentMeansCalibrated'
  BY <1>1, <1>2 DEF CInv, TypeOK, OutOfSyncCaught, RecentMeansCalibrated, OutOfSync
<1>5. calibrated # "never"
  BY <1>1, MainAssumption DEF CInv, MainAlone
<1>6. MainAlone'
  BY <1>1, <1>5 DEF MainAlone
<1>7. ValueFromResults'
  BY <1>1, <1>2 DEF CInv, TypeOK, ValueFromResults
<1> QED
  BY <1>3, <1>4, <1>6, <1>7 DEF CInv

(* The offset is returned, and main goes on to start the others.           *)
LEMMA ReturnStep ==
  ASSUME CInv, NEW c \in Caller, Return(c)
  PROVE  CInv'
<1> USE DEF CInv, Return, Goto, syncVars
<1>1. TypeOK'
  BY DEF TypeOK, PC
<1>2. OutOfSyncCaught' /\ RecentMeansCalibrated'
  BY DEF TypeOK, OutOfSyncCaught, RecentMeansCalibrated
<1>3. MainAlone'
  <2>1. calibrated # "never"
    BY MainAssumption DEF MainAlone
  <2> QED
    BY <2>1 DEF MainAlone
<1>4. ValueFromResults'
  BY DEF TypeOK, ValueFromResults
<1> QED
  BY <1>1, <1>2, <1>3, <1>4

(* Half an hour passes.                                                    *)
LEMMA GoStaleStep == ASSUME CInv, GoStale PROVE CInv'
<1> USE DEF CInv, GoStale
<1>1. TypeOK'
  BY DEF TypeOK
<1>2. OutOfSyncCaught' /\ RecentMeansCalibrated' /\ MainAlone'
  BY DEF TypeOK, OutOfSyncCaught, RecentMeansCalibrated, MainAlone
<1>3. ValueFromResults'
  BY DEF TypeOK, ValueFromResults
<1> QED
  BY <1>1, <1>2, <1>3

(* The inductive invariant holds in every state.                           *)
THEOREM Invariant == Spec => []CInv
<1>1. Init => CInv
  BY InitCInv
<1>2. CInv /\ [Next]_vars => CInv'
  <2> SUFFICES ASSUME CInv, [Next]_vars PROVE CInv'
    OBVIOUS
  <2>1. CASE UNCHANGED vars
    BY <2>1 DEF CInv, TypeOK, OutOfSyncCaught, RecentMeansCalibrated, MainAlone,
                ValueFromResults, vars, syncVars
  <2>2. ASSUME NEW c \in Caller, NEW D \in SUBSET Server, NEW R \in [D -> UsablePolls],
               Calibrate(c, R)
        PROVE  CInv'
    <3>1. R \in Collected
      BY DEF Collected
    <3> QED
      BY <2>2, <3>1, CalibrateStep
  <2> QED
    BY <2>1, <2>2, CallStep, AssumePerfectStep, StoreStep, CheckStep, ReturnStep,
       GoStaleStep DEF Next
<1> QED
  BY <1>1, <1>2, PTL DEF Spec

-----------------------------------------------------------------------------
(* What the calibration promises of the offset.                            *)

(* As many cells as Cells counts hold an offset of V, at least: those of   *)
(* any servers with such an offset, and the unfilled ones if 0 is in V.    *)
LEMMA CellsBound ==
  ASSUME NEW R, NEW S, Considerable(R, S), NEW V, NEW M \in SUBSET S,
         \A v \in M : R[v].Offset \in V
  PROVE  /\ Cardinality(M) <= Cells(R, S, V)
         /\ 0 \in V => Cardinality(M) + (Considered - Cardinality(S)) <= Cells(R, S, V)
<1> DEFINE with == {v \in S : R[v].Offset \in V}
           zeros == IF 0 \in V THEN Considered - Cardinality(S) ELSE 0
<1>1. IsFiniteSet(S) /\ with \in SUBSET S /\ M \in SUBSET with
  BY DEF Considerable
<1>2. IsFiniteSet(with)
  BY <1>1, FS_Subset
<1>3. Cardinality(M) <= Cardinality(with) /\ IsFiniteSet(M)
  BY <1>1, <1>2, FS_Subset
<1>4. Cardinality(M) \in Nat /\ Cardinality(with) \in Nat /\ Cardinality(S) \in Nat
  BY <1>1, <1>2, <1>3, FS_CardinalityType
<1>5. zeros \in Nat /\ Considered \in Nat
  BY <1>4, ConsideredAssumption DEF Considerable
<1>6. Cells(R, S, V) = Cardinality(with) + zeros
  BY DEF Cells
<1>7. 0 \in V => zeros = Considered - Cardinality(S)
  OBVIOUS
<1> HIDE DEF with, zeros
<1> QED
  BY <1>3, <1>4, <1>5, <1>6, <1>7

(* Every majority of the cells has an offset on either side of a median:   *)
(* servers alone, and servers together with the unfilled cells.            *)
LEMMA MajorityAround ==
  ASSUME NEW R, NEW S, Considerable(R, S), NEW x \in Int, IsMedian(R, S, x),
         NEW M \in SUBSET S
  PROVE  /\ Cardinality(M) > Considered \div 2 => Within(x, {R[v].Offset : v \in M})
         /\ Cardinality(M) + (Considered - Cardinality(S)) > Considered \div 2 =>
              Within(x, {R[v].Offset : v \in M} \cup {0})
<1> DEFINE values == {R[v].Offset : v \in S} \cup {0}
           below == {y \in values : y < x}
           above == {y \in values : y > x}
           measured == {R[v].Offset : v \in M}
           unfilled == Considered - Cardinality(S)
<1>1. /\ \A v \in M : R[v].Offset \in Int /\ R[v].Offset \in values
      /\ 0 \in values
  BY DEF Considerable
<1>2. Cells(R, S, below) <= Considered \div 2 /\ Cells(R, S, above) <= Considered \div 2
  BY DEF IsMedian
<1>3. /\ Cells(R, S, below) \in Nat /\ Cells(R, S, above) \in Nat /\ Considered \div 2 \in Nat
      /\ Cardinality(M) \in Nat /\ unfilled \in Int
  <2>1. IsFiniteSet(M) /\ IsFiniteSet(S)
    BY FS_Subset DEF Considerable
  <2>2. Cardinality(M) \in Nat /\ Cardinality(S) \in Nat
    BY <2>1, FS_CardinalityType
  <2>3. Considered \div 2 \in Nat /\ unfilled \in Int
    BY <2>2, ConsideredAssumption
  <2>4. Cells(R, S, below) \in Nat /\ Cells(R, S, above) \in Nat
    <3> HIDE DEF below, above
    <3> QED
      BY CellsAdd
  <2> QED
    BY <2>2, <2>3, <2>4
<1>4. ASSUME NEW V \in {below, above}, \A v \in M : R[v].Offset \in V
      PROVE  /\ Cardinality(M) <= Considered \div 2
             /\ 0 \in V => Cardinality(M) + unfilled <= Considered \div 2
  <2>1. Cells(R, S, V) \in Nat /\ Cells(R, S, V) <= Considered \div 2
    BY <1>2, <1>3
  <2>2. /\ Cardinality(M) <= Cells(R, S, V)
        /\ 0 \in V => Cardinality(M) + unfilled <= Cells(R, S, V)
    <3> HIDE DEF above, below
    <3> QED
      BY <1>4, CellsBound
  <2> HIDE DEF above, below, unfilled
  <2> QED
    BY <1>3, <2>1, <2>2
<1>5. \A y \in values : (~(y <= x) => y \in above) /\ (~(y >= x) => y \in below)
  BY DEF Considerable
<1>6. measured \subseteq values
  OBVIOUS
<1> HIDE DEF above, below, values, unfilled
<1>7. ASSUME Cardinality(M) > Considered \div 2 PROVE Within(x, measured)
  <2>1. ASSUME ~(\E y \in measured : y <= x) PROVE FALSE
    BY <1>1, <1>3, <1>4, <1>5, <1>7, <2>1
  <2>2. ASSUME ~(\E y \in measured : y >= x) PROVE FALSE
    BY <1>1, <1>3, <1>4, <1>5, <1>7, <2>2
  <2> QED
    BY <2>1, <2>2 DEF Within
<1>8. ASSUME Cardinality(M) + unfilled > Considered \div 2
      PROVE  Within(x, measured \cup {0})
  <2>1. ASSUME ~(\E y \in measured \cup {0} : y <= x) PROVE FALSE
    <3>1. 0 \in above /\ \A v \in M : R[v].Offset \in above
      BY <1>1, <1>5, <2>1
    <3> QED
      BY <1>3, <1>4, <1>8, <3>1
  <2>2. ASSUME ~(\E y \in measured \cup {0} : y >= x) PROVE FALSE
    <3>1. 0 \in below /\ \A v \in M : R[v].Offset \in below
      BY <1>1, <1>5, <2>2
    <3> QED
      BY <1>3, <1>4, <1>8, <3>1
  <2> QED
    BY <2>1, <2>2 DEF Within
<1> QED
  BY <1>7, <1>8 DEF unfilled

(* A median other than 0 is the offset of a server that fewer than         *)
(* Considered others beat on round trip.                                   *)
LEMMA MedianIsFast ==
  ASSUME NEW R \in Collected, NEW S \in Best(Answer(R)), MedianOffset(Answer(R), S) # 0
  PROVE  \E v \in DOMAIN R :
           /\ Answer(R)[v].Offset = MedianOffset(Answer(R), S)
           /\ Cardinality({u \in DOMAIN R : Answer(R)[u].RTT < Answer(R)[v].RTT}) < Considered
<1> DEFINE A == Answer(R)
<1>1. /\ S \subseteq DOMAIN R /\ Considerable(A, S)
      /\ \A u \in S, v \in DOMAIN R \ S : A[u].RTT <= A[v].RTT
  BY BestFacts
<1>2. PICK v \in S : A[v].Offset = MedianOffset(A, S)
  BY <1>1, MedianFacts
<1>3. \A u \in DOMAIN R : A[u].RTT \in Nat
  BY AnswerFacts
<1> DEFINE faster == {u \in DOMAIN R : A[u].RTT < A[v].RTT}
<1> HIDE DEF A
<1>4. faster \in SUBSET (S \ {v})
  BY <1>1, <1>3
<1>5. IsFiniteSet(S \ {v}) /\ Cardinality(S \ {v}) = Cardinality(S) - 1
  BY <1>1, FS_RemoveElement DEF Considerable
<1>6. /\ Cardinality(faster) <= Cardinality(S \ {v}) /\ IsFiniteSet(faster)
  BY <1>4, <1>5, FS_Subset
<1>7. Cardinality(faster) \in Nat /\ Cardinality(S) \in Nat /\ Cardinality(S) <= Considered
  BY <1>1, <1>6, FS_CardinalityType DEF Considerable
<1>8. Cardinality(faster) < Considered
  <2> HIDE DEF faster
  <2> QED
    BY <1>5, <1>6, <1>7, ConsideredAssumption
<1> QED
  BY <1>1, <1>2, <1>8 DEF A

(* A minority of the cells cannot take the offset out of the range of the  *)
(* others.                                                                 *)
LEMMA SteerFacts == CInv => MinorityCannotSteer
<1> SUFFICES ASSUME CInv, NEW c \in Caller, Computed(c)
             PROVE  \E S \in Best(Answer(results)) : \A M \in SUBSET S :
                      /\ Cardinality(M) > Considered \div 2 =>
                           Within(value[c], {Answer(results)[v].Offset : v \in M})
                      /\ Cardinality(M) + (Considered - Cardinality(S)) > Considered \div 2 =>
                           Within(value[c], {Answer(results)[v].Offset : v \in M} \cup {0})
  BY DEF MinorityCannotSteer
<1>1. results \in Collected
  BY DEF CInv, ValueFromResults
<1>2. PICK S \in Best(Answer(results)) : value[c] = MedianOffset(Answer(results), S)
  BY DEF CInv, ValueFromResults, Computed
<1>3. Considerable(Answer(results), S)
  BY <1>1, <1>2, BestFacts
<1>4. IsMedian(Answer(results), S, value[c])
  BY <1>2, <1>3, MedianFacts
<1>5. value[c] \in Int
  BY OffsetsAreInt DEF CInv, TypeOK
<1> QED
  BY <1>2, <1>3, <1>4, <1>5, MajorityAround

(* Slow servers do not count.                                              *)
LEMMA FastFacts == CInv => OffsetFromFastServers
<1> SUFFICES ASSUME CInv, NEW c \in Caller, Computed(c), value[c] # 0
             PROVE  \E v \in DOMAIN results :
                      /\ Answer(results)[v].Offset = value[c]
                      /\ Cardinality({u \in DOMAIN results :
                                        Answer(results)[u].RTT < Answer(results)[v].RTT})
                           < Considered
  BY DEF OffsetFromFastServers
<1>1. results \in Collected
  BY DEF CInv, ValueFromResults
<1>2. PICK S \in Best(Answer(results)) : value[c] = MedianOffset(Answer(results), S)
  BY DEF CInv, ValueFromResults, Computed
<1> QED
  BY <1>1, <1>2, MedianIsFast

(* A server counts only if both its polls were answered, in one direction. *)
LEMMA AgreeFacts == CInv => UsedServersAgree
<1> SUFFICES ASSUME CInv, NEW v \in DOMAIN results
             PROVE  /\ results[v][1] # Failed /\ results[v][2] # Failed
                    /\ results[v][1].Offset * results[v][2].Offset > 0
  BY DEF UsedServersAgree
<1>1. results \in Collected
  BY DEF CInv, ValueFromResults
<1>2. /\ results[v][1] \in Poll /\ results[v][2] \in Poll
      /\ Usable(results[v][1], results[v][2])
  BY <1>1, AnswerFacts
<1> QED
  BY <1>2, PollFacts

(* Every value stays in its type: in particular the median always exists   *)
(* and is an offset that was measured, or 0.                               *)
THEOREM TypeCorrect == Spec => []TypeOK
<1>1. CInv => TypeOK
  BY DEF CInv
<1> QED
  BY <1>1, Invariant, PTL

(* However many servers answer, a minority of the cells that               *)
(* calibrateAgainstApple takes the median of cannot steer the clock: the   *)
(* offset lies between those of every majority, unfilled cells counting    *)
(* with their 0.                                                           *)
THEOREM MinoritySafe == Spec => []MinorityCannotSteer
BY SteerFacts, Invariant, PTL

(* An offset other than 0 comes from one of the fastest servers.           *)
THEOREM FastServers == Spec => []OffsetFromFastServers
BY FastFacts, Invariant, PTL

(* ntpTriplePoll's cell that is never polled discards every server whose   *)
(* two polls failed or disagree in direction.                              *)
THEOREM ServersAgree == Spec => []UsedServersAgree
BY AgreeFacts, Invariant, PTL

(* However many goroutines overwrite and test each other's offset, one     *)
(* over the limit is in force only while somebody is about to end the      *)
(* program for it.                                                         *)
THEOREM Caught == Spec => []OutOfSyncCaught
<1>1. CInv => OutOfSyncCaught
  BY DEF CInv
<1> QED
  BY <1>1, Invariant, PTL

(* lastSync is ahead of the offset in force only while somebody is about   *)
(* to store.                                                               *)
THEOREM Recent == Spec => []RecentMeansCalibrated
<1>1. CInv => RecentMeansCalibrated
  BY DEF CInv
<1> QED
  BY <1>1, Invariant, PTL

(* No timestamp is taken with the offset that was never calibrated.        *)
THEOREM Stamps == Spec => []StampsAreCalibrated
<1>1. CInv => StampsAreCalibrated
  BY MainAssumption DEF CInv, MainAlone, StampsAreCalibrated
<1> QED
  BY <1>1, Invariant, PTL
=============================================================================
