------------------------- MODULE PingExchangeProofs -------------------------
(***************************************************************************)
(* The statistics of a session, for ids of any width, rings of any length, *)
(* clocks any time apart, packets on their way for any time and any number *)
(* of faults.  What is said of a ring is said of its contents R, of the    *)
(* seconds H handled by its end, of the seconds st of the sender's clock   *)
(* that its pings were stamped with, of the last second o in which the end *)
(* was overtaken, of the present second n and of the number g of good      *)
(* seconds before.                                                         *)
(***************************************************************************)
EXTENDS PingExchange, FiniteSetTheorems, SequenceTheorems, NaturalsInduction, TLAPS

(* Every ack is of a ping that was handled, under the id its sender's      *)
(* clock gave it.                                                          *)
Acks(R, H, st, n) ==
  \A k \in 1 .. Len(R) :
    /\ R[k].ID = PingID(st[R[k].TX])
    /\ R[k].TX \in H
    /\ R[k].TX <= R[k].RX /\ R[k].RX <= n

(* Acks are in the order of arrival, and since the end was last overtaken  *)
(* in the order of sending: no two of them of one second.                  *)
Spaced(R, o) ==
  \A j, k \in 1 .. Len(R) : j < k =>
    /\ R[j].RX <= R[k].RX
    /\ o < R[k].RX => R[j].TX < R[k].TX
    /\ o < R[j].RX => R[k].TX - R[j].TX >= k - j

Acked(R, t) == \E k \in 1 .. Len(R) : R[k].TX = t

(* A second that was before all those acked, unless one was overtaken.     *)
Before(R, t, o) == \A k \in 1 .. Len(R) : o < R[k].RX => t < R[k].TX
After(R, t, o) == \A k \in 1 .. Len(R) : o < R[k].RX => t > R[k].TX

(* A ping that was handled is in the ring, or the ring is full of later    *)
(* ones.                                                                   *)
Kept(R, H, o) == \A t \in H : Acked(R, t) \/ (Len(R) = Slots /\ Before(R, t, o))

(* The first m acks are those from before second n, and the last g of      *)
(* these are one for each second.                                          *)
Runs(R, n, g) ==
  \E m \in 0 .. Len(R) :
    /\ \A k \in 1 .. Len(R) : R[k].RX < n <=> k <= m
    /\ \A k \in 1 .. m : m - k < g => R[k].RX >= n - 1 - (m - k)

(* After a good second the last ack is of it or newer, until a late one.   *)
Fresh(R, n, g, o) ==
  g >= 1 /\ o < n => Len(R) >= 1 /\ R[Len(R)].TX >= n - 1

(* A second with its ping handled has an ack; one in which a ping was      *)
(* overtaken has a second ack, or one of a late ping.                      *)
Marks(R, H, n, o) ==
  /\ n \in H => Len(R) >= 1 /\ R[Len(R)].RX = n
  /\ o = n => /\ Len(R) >= 1 /\ R[Len(R)].RX = n
              /\ R[Len(R)].TX < n \/ (Len(R) >= 2 /\ R[Len(R) - 1].RX = n)

(* The g seconds before n were good: their pings are handled, and none was *)
(* overtaken in them.                                                      *)
Good(H, o, n, g) == \A s \in n - g .. n - 1 : s \in H /\ o # s

RingOK(R, H, o, st, n, g) ==
  /\ R \in Seq(pingInfo) /\ Len(R) <= Slots
  /\ H \subseteq Second /\ o \in Nat /\ o <= n /\ \A t \in H : t <= n
  /\ Acks(R, H, st, n) /\ Spaced(R, o) /\ Kept(R, H, o)
  /\ Runs(R, n, g) /\ Fresh(R, n, g, o) /\ Marks(R, H, n, o)
  /\ Good(H, o, n, g)

(* What a copy of the ring, sent along in second T after g good seconds,   *)
(* says later: pings handled since are newer.                              *)
SnapOK(R, H, o, st, n, T, g) ==
  /\ R \in Seq(pingInfo) /\ Len(R) <= Slots
  /\ T \in Nat /\ T <= n
  /\ Acks(R, H, st, T) /\ Spaced(R, o)
  /\ \A t \in H : \/ Acked(R, t)
                  \/ Len(R) = Slots /\ Before(R, t, o)
                  \/ After(R, t, o)
  /\ Runs(R, T, g)
  /\ g >= 1 /\ (T = n => o < n) => Len(R) >= 1 /\ R[Len(R)].TX >= T - 1

-----------------------------------------------------------------------------
(* Numbers and rings.                                                      *)

(* The bounds are numbers, and so are the fields of an ack.                *)
LEMMA Numbers ==
  /\ Second \subseteq Nat /\ Cycle \in Nat /\ Slots \in Nat /\ 1 < Slots /\ Slots < Cycle
  /\ \A t \in Int : PingID(t) \in 1 .. Cycle
  /\ Start \in Second
<1>1. Cycle \in Nat /\ Slots \in Nat /\ 1 < Slots /\ Slots < Cycle
  BY WidthAssumption DEF Cycle
<1>2. Second \subseteq Nat /\ Start \in Second
  BY BoundAssumption DEF Second
<1>3. ASSUME NEW t \in Int PROVE PingID(t) \in 1 .. Cycle
  <2> HIDE DEF Cycle
  <2>1. t % Cycle \in 0 .. Cycle - 1
    BY <1>1
  <2> QED
    BY <1>1, <2>1 DEF PingID
<1> QED
  BY <1>1, <1>2, <1>3

(* The fields of the acks of a ring.                                       *)
LEMMA AckNumbers ==
  ASSUME NEW R \in Seq(pingInfo)
  PROVE  /\ Len(R) \in Nat
         /\ \A k \in 1 .. Len(R) : /\ R[k] \in pingInfo /\ R[k].TX \in Second
                                   /\ R[k].TX \in Nat /\ R[k].RX \in Nat /\ R[k].ID \in Nat
<1>1. ASSUME NEW k \in 1 .. Len(R) PROVE R[k] \in pingInfo
  OBVIOUS
<1>2. ASSUME NEW b \in pingInfo
      PROVE  b.TX \in Second /\ b.TX \in Nat /\ b.RX \in Nat /\ b.ID \in Nat
  <2>1. b.TX \in Second /\ b.RX \in Second /\ b.ID \in 1 .. Cycle
    BY DEF pingInfo
  <2>2. Second \subseteq Nat /\ 1 .. Cycle \subseteq Nat
    <3>1. Cycle \in Nat /\ Second \subseteq Nat
      BY Numbers
    <3> HIDE DEF Cycle
    <3> QED
      BY <3>1
  <2> QED
    BY <2>1, <2>2
<1>3. Len(R) \in Nat
  OBVIOUS
<1> QED
  BY <1>1, <1>2, <1>3

(* The larger of two numbers.                                              *)
LEMMA MaxOfTwo ==
  ASSUME NEW a \in Int, NEW b \in Int
  PROVE  Max({a, b}) = IF a >= b THEN a ELSE b
<1> DEFINE P(x) == x \in {a, b} /\ \A y \in {a, b} : x >= y
<1>1. \E x : P(x)
  <2>1. CASE a >= b
    BY <2>1
  <2>2. CASE ~(a >= b)
    BY <2>2
  <2> QED
    BY <2>1, <2>2
<1>2. P(CHOOSE x : P(x))
  BY <1>1
<1>3. Max({a, b}) = CHOOSE x : P(x)
  BY DEF Max
<1> QED
  BY <1>2, <1>3

(* A ring with an ack more.                                                *)
Push(R, a) == LET s == Append(R, a) IN SubSeq(s, Max({1, Len(s) - Slots + 1}), Len(s))

(* handlePacket's store: the new ack is last, the others stay or move up   *)
(* by one, and only a full ring loses its oldest.                          *)
LEMMA PushShape ==
  ASSUME NEW R \in Seq(pingInfo), Len(R) <= Slots, NEW a \in pingInfo
  PROVE  /\ Push(R, a) \in Seq(pingInfo)
         /\ Len(Push(R, a)) >= 1 /\ Len(Push(R, a)) <= Slots
         /\ Push(R, a)[Len(Push(R, a))] = a
         /\ \E d \in {0, 1} :
              /\ d = 1 <=> Len(R) = Slots
              /\ Len(Push(R, a)) = Len(R) + 1 - d
              /\ \A k \in 1 .. Len(R) - d : Push(R, a)[k] = R[k + d]
<1>1. Slots \in Nat /\ 1 < Slots /\ Len(R) \in Nat
  BY Numbers
<1> DEFINE s == Append(R, a)
           d == IF Len(R) = Slots THEN 1 ELSE 0
<1>2. /\ s \in Seq(pingInfo) /\ Len(s) = Len(R) + 1 /\ s[Len(R) + 1] = a
      /\ \A k \in 1 .. Len(R) : s[k] = R[k]
  OBVIOUS
<1>3. Max({1, Len(s) - Slots + 1}) = 1 + d
  BY <1>1, <1>2, MaxOfTwo
<1> HIDE DEF s
<1>4. Push(R, a) = SubSeq(s, 1 + d, Len(s))
  BY <1>3 DEF Push, s
<1>5. /\ SubSeq(s, 1 + d, Len(s)) \in Seq(pingInfo)
      /\ Len(SubSeq(s, 1 + d, Len(s))) = Len(R) + 1 - d
      /\ \A k \in 1 .. Len(R) + 1 - d : SubSeq(s, 1 + d, Len(s))[k] = s[k + d]
  <2>1. 1 + d \in 1 .. Len(s) + 1 /\ Len(s) \in 1 + d - 1 .. Len(s) /\ d \in {0, 1}
    BY <1>1, <1>2
  <2> HIDE DEF d
  <2>2. /\ SubSeq(s, 1 + d, Len(s)) \in Seq(pingInfo)
        /\ Len(SubSeq(s, 1 + d, Len(s))) = Len(s) - (1 + d) + 1
        /\ \A k \in 1 .. Len(s) - (1 + d) + 1 : SubSeq(s, 1 + d, Len(s))[k] = s[1 + d + k - 1]
    BY <1>1, <1>2, <2>1, SubSeqProperties
  <2>3. Len(s) - (1 + d) + 1 = Len(R) + 1 - d
    BY <1>1, <1>2, <2>1
  <2>4. ASSUME NEW k \in 1 .. Len(R) + 1 - d
        PROVE  SubSeq(s, 1 + d, Len(s))[k] = s[k + d]
    <3>1. k \in 1 .. Len(s) - (1 + d) + 1
      BY <2>3
    <3>2. 1 + d + k - 1 = k + d
      BY <2>1
    <3> QED
      BY <2>2, <3>1, <3>2
  <2> QED
    BY <2>2, <2>3, <2>4
<1> DEFINE S == Push(R, a)
<1>6. d \in {0, 1} /\ (d = 1 <=> Len(R) = Slots)
  OBVIOUS
<1>7. /\ S \in Seq(pingInfo) /\ Len(S) = Len(R) + 1 - d
      /\ \A k \in 1 .. Len(R) + 1 - d : S[k] = s[k + d]
  BY <1>4, <1>5
<1> HIDE DEF d, S
<1>8. Len(S) >= 1 /\ Len(S) <= Slots
  BY <1>1, <1>6, <1>7
<1>9. S[Len(S)] = a
  BY <1>1, <1>2, <1>6, <1>7
<1>10. \A k \in 1 .. Len(R) - d : S[k] = R[k + d]
  BY <1>1, <1>2, <1>6, <1>7
<1> QED
  BY <1>6, <1>7, <1>8, <1>9, <1>10 DEF S

-----------------------------------------------------------------------------
(* What a step does to a ring.                                             *)

(* The numbers of a ring.                                                  *)
LEMMA RingNumbers ==
  ASSUME NEW R, NEW H, NEW o, NEW st, NEW n \in Second, NEW g,
         RingOK(R, H, o, st, n, g)
  PROVE  /\ R \in Seq(pingInfo) /\ Len(R) \in Nat /\ DOMAIN R = 1 .. Len(R) /\ Len(R) <= Slots
         /\ Slots \in Nat /\ 1 < Slots /\ n \in Nat
         /\ H \subseteq Second /\ H \subseteq Nat /\ \A t \in H : t <= n
         /\ o \in Nat /\ o <= n
         /\ \A k \in 1 .. Len(R) : R[k].TX \in Nat /\ R[k].RX \in Nat
<1>1. /\ R \in Seq(pingInfo) /\ Len(R) <= Slots
      /\ H \subseteq Second /\ o \in Nat /\ o <= n /\ \A t \in H : t <= n
  BY DEF RingOK
<1>2. Slots \in Nat /\ 1 < Slots /\ Second \subseteq Nat
  BY Numbers
<1>3. Len(R) \in Nat /\ DOMAIN R = 1 .. Len(R)
  BY <1>1
<1>4. \A k \in 1 .. Len(R) : R[k].TX \in Nat /\ R[k].RX \in Nat
  BY <1>1, AckNumbers
<1> QED
  BY <1>1, <1>2, <1>3, <1>4

(* handlePacket keeps what is said of the ring: the ping is stored as the  *)
(* newest, and when it is not newer than all before, this second is the    *)
(* last in which the end was overtaken.                                    *)
LEMMA PushRing ==
  ASSUME NEW R, NEW H, NEW o, NEW st, NEW n \in Second, NEW g \in Nat,
         RingOK(R, H, o, st, n, g),
         NEW a \in pingInfo, a.RX = n, a.TX <= n, a.ID = PingID(st[a.TX]),
         NEW o2, o2 = IF \E t \in H : t >= a.TX THEN n ELSE o
  PROVE  RingOK(Push(R, a), H \cup {a.TX}, o2, st, n, g)
<1> DEFINE S == Push(R, a)
           I == H \cup {a.TX}
<1>1. /\ R \in Seq(pingInfo) /\ Len(R) \in Nat /\ Len(R) <= Slots
      /\ Slots \in Nat /\ 1 < Slots /\ Second \subseteq Nat /\ n \in Nat
      /\ a.TX \in Second /\ a.TX \in Nat
      /\ H \subseteq Second /\ o \in Nat /\ o <= n /\ \A t \in H : t <= n
  <2>1. a.TX \in Second
    BY DEF pingInfo
  <2>2. Second \subseteq Nat
    BY Numbers
  <2> QED
    BY <2>1, <2>2, RingNumbers
<1>2. \A k \in 1 .. Len(R) : R[k].TX \in Nat /\ R[k].RX \in Nat
  BY RingNumbers
<1>3. PICK d \in {0, 1} : /\ d = 1 <=> Len(R) = Slots
                          /\ Len(S) = Len(R) + 1 - d
                          /\ \A k \in 1 .. Len(R) - d : S[k] = R[k + d]
  BY <1>1, PushShape
<1>4. S \in Seq(pingInfo) /\ Len(S) \in Nat /\ 1 <= Len(S) /\ Len(S) <= Slots /\ S[Len(S)] = a
  BY <1>1, PushShape
<1> HIDE DEF S
<1>5. ASSUME NEW k \in 1 .. Len(S), k # Len(S)
      PROVE  k + d \in 1 .. Len(R) /\ S[k] = R[k + d]
  BY <1>1, <1>3, <1>4, <1>5
<1>6. o2 \in Nat /\ o <= o2 /\ o2 <= n /\ (o2 < n => o2 = o /\ \A t \in H : t < a.TX)
  <2>1. CASE \E t \in H : t >= a.TX
    BY <1>1, <2>1
  <2>2. CASE ~\E t \in H : t >= a.TX
    BY <1>1, <2>2
  <2> QED
    BY <2>1, <2>2
<1>7. /\ \A k \in 1 .. Len(R) : R[k].ID = PingID(st[R[k].TX])
      /\ \A k \in 1 .. Len(R) : R[k].TX \in H /\ R[k].TX <= R[k].RX /\ R[k].RX <= n
  BY DEF RingOK, Acks
<1>8. Acks(S, I, st, n)
  <2>1. ASSUME NEW k \in 1 .. Len(S)
        PROVE  /\ S[k].ID = PingID(st[S[k].TX])
               /\ S[k].TX \in I
               /\ S[k].TX <= S[k].RX /\ S[k].RX <= n
    <3>1. CASE k = Len(S)
      BY <1>1, <1>4, <3>1
    <3>2. CASE k # Len(S)
      BY <1>5, <1>7, <3>2
    <3> QED
      BY <3>1, <3>2
  <2> QED
    BY <2>1 DEF Acks
<1>9. Spaced(S, o2)
  <2>1. ASSUME NEW j \in 1 .. Len(S), NEW k \in 1 .. Len(S), j < k
        PROVE  /\ S[j].RX <= S[k].RX
               /\ o2 < S[k].RX => S[j].TX < S[k].TX
               /\ o2 < S[j].RX => S[k].TX - S[j].TX >= k - j
    <3>1. j + d \in 1 .. Len(R) /\ S[j] = R[j + d]
      BY <1>4, <1>5, <2>1
    <3>2. Spaced(R, o)
      BY DEF RingOK
    <3>3. CASE k # Len(S)
      <4>1. k + d \in 1 .. Len(R) /\ S[k] = R[k + d] /\ j + d < k + d
        BY <1>3, <1>5, <2>1, <3>3
      <4>2. /\ R[j + d].RX <= R[k + d].RX
            /\ o < R[k + d].RX => R[j + d].TX < R[k + d].TX
            /\ o < R[j + d].RX => R[k + d].TX - R[j + d].TX >= (k + d) - (j + d)
        BY <3>1, <3>2, <4>1 DEF Spaced
      <4>3. R[j + d].RX \in Nat /\ R[k + d].RX \in Nat
        BY <1>2, <3>1, <4>1
      <4>4. (k + d) - (j + d) = k - j
        BY <1>3
      <4>5. (o2 < R[j + d].RX => o < R[j + d].RX) /\ (o2 < R[k + d].RX => o < R[k + d].RX)
        <5>1. \A x \in Nat : o2 < x => o < x
          BY <1>1, <1>6
        <5> QED
          BY <4>3, <5>1
      <4> QED
        BY <3>1, <4>1, <4>2, <4>4, <4>5
    <3>4. CASE k = Len(S)
      <4>1. S[k] = a /\ S[k].RX = n
        BY <1>4, <3>4
      <4>2. R[j + d].RX <= n /\ R[j + d].TX \in H /\ R[j + d].RX \in Nat /\ R[j + d].TX \in Nat
        BY <1>2, <1>7, <3>1
      <4>3. ASSUME o2 < R[j + d].RX
            PROVE  a.TX - R[j + d].TX >= k - j
        <5>1. o < R[j + d].RX /\ \A t \in H : t < a.TX
          BY <1>1, <1>6, <4>2, <4>3
        <5>2. Len(R) \in 1 .. Len(R) /\ R[Len(R)].TX \in H /\ R[Len(R)].TX \in Nat
          BY <1>1, <1>2, <1>7, <3>1
        <5>3. R[Len(R)].TX - R[j + d].TX >= Len(R) - (j + d)
          <6>1. CASE j + d = Len(R)
            BY <4>2, <6>1, <1>1
          <6>2. CASE j + d # Len(R)
            <7>1. j + d < Len(R)
              BY <1>1, <3>1, <6>2
            <7> QED
              BY <3>1, <3>2, <5>1, <5>2, <7>1 DEF Spaced
          <6> QED
            BY <6>1, <6>2
        <5>4. R[Len(R)].TX < a.TX
          BY <5>1, <5>2
        <5>5. k - j = Len(R) - (j + d) + 1
          BY <1>1, <1>3, <3>4
        <5>6. Len(R) - (j + d) \in Int
          BY <1>1, <1>3
        <5> QED
          <6>1. \A x, y, z \in Nat, i \in Int : y - x >= i /\ y < z => z - x >= i + 1
            OBVIOUS
          <6> QED
            BY <1>1, <4>2, <5>2, <5>3, <5>4, <5>5, <5>6, <6>1
      <4>4. o2 < n => R[j + d].TX < a.TX
        BY <1>6, <4>2
      <4> QED
        BY <3>1, <4>1, <4>2, <4>3, <4>4
    <3> QED
      BY <3>3, <3>4
  <2> QED
    BY <2>1 DEF Spaced
<1>10. Kept(S, I, o2)
  <2>1. ASSUME NEW t \in H, NEW k \in 1 .. Len(R), R[k].TX = t, k > d
        PROVE  Acked(S, t)
    <3>1. k - d \in 1 .. Len(R) - d /\ k - d \in 1 .. Len(S) /\ (k - d) + d = k
      BY <1>1, <1>3, <2>1
    <3>2. S[k - d] = R[k]
      BY <1>3, <3>1
    <3> QED
      BY <2>1, <3>1, <3>2 DEF Acked
  <2>2. ASSUME NEW t \in H, Len(R) = Slots,
               \A k \in 2 .. Len(R) : o < R[k].RX => t < R[k].TX
        PROVE  Len(S) = Slots /\ Before(S, t, o2)
    <3>1. d = 1 /\ Len(S) = Slots
      BY <1>1, <1>3, <2>2
    <3>2. ASSUME NEW k \in 1 .. Len(S), o2 < S[k].RX PROVE t < S[k].TX
      <4>1. CASE k = Len(S)
        BY <1>4, <1>6, <3>2, <4>1
      <4>2. CASE k # Len(S)
        <5>1. k + 1 \in 2 .. Len(R) /\ S[k] = R[k + 1] /\ R[k + 1].RX \in Nat
          BY <1>1, <1>2, <1>5, <3>1, <4>2
        <5> QED
          BY <1>1, <1>6, <2>2, <3>2, <5>1
      <4> QED
        BY <4>1, <4>2
    <3> QED
      BY <3>1, <3>2 DEF Before
  <2>3. ASSUME NEW t \in H PROVE Acked(S, t) \/ (Len(S) = Slots /\ Before(S, t, o2))
    <3>1. Acked(R, t) \/ (Len(R) = Slots /\ Before(R, t, o))
      BY DEF RingOK, Kept
    <3>2. CASE Acked(R, t)
      <4>1. PICK k \in 1 .. Len(R) : R[k].TX = t
        BY <3>2 DEF Acked
      <4>2. CASE k > d
        BY <2>1, <4>1, <4>2
      <4>3. CASE ~(k > d)
        <5>1. k = 1 /\ Len(R) = Slots
          BY <1>1, <1>3, <4>3
        <5>2. ASSUME NEW i \in 2 .. Len(R), o < R[i].RX PROVE t < R[i].TX
          <6>1. i \in 1 .. Len(R) /\ 1 \in 1 .. Len(R) /\ 1 < i
            BY <1>1, <5>1
          <6> QED
            BY <4>1, <5>1, <5>2, <6>1 DEF RingOK, Spaced
        <5> QED
          BY <2>2, <5>1, <5>2
      <4> QED
        BY <4>2, <4>3
    <3>3. CASE Len(R) = Slots /\ Before(R, t, o)
      <4>1. \A k \in 2 .. Len(R) : k \in 1 .. Len(R)
        BY <1>1
      <4>2. \A k \in 2 .. Len(R) : o < R[k].RX => t < R[k].TX
        BY <3>3, <4>1 DEF Before
      <4> QED
        BY <2>2, <3>3, <4>2
    <3> QED
      BY <3>1, <3>2, <3>3
  <2>4. Acked(S, a.TX)
    <3>1. Len(S) \in 1 .. Len(S)
      BY <1>4
    <3> QED
      BY <1>4, <3>1 DEF Acked
  <2> QED
    BY <2>3, <2>4 DEF Kept
<1>11. Runs(S, n, g)
  <2>1. PICK m \in 0 .. Len(R) :
          /\ \A k \in 1 .. Len(R) : R[k].RX < n <=> k <= m
          /\ \A k \in 1 .. m : m - k < g => R[k].RX >= n - 1 - (m - k)
    BY DEF RingOK, Runs
  <2>2. PICK l \in 0 .. Len(S) : l = IF m <= d THEN 0 ELSE m - d
    BY <1>1, <1>3, <1>4
  <2>3. l < Len(S) /\ (l >= 1 => l = m - d) /\ m - d <= l
    BY <1>1, <1>3, <1>4, <2>2
  <2>4. ASSUME NEW k \in 1 .. Len(S) PROVE S[k].RX < n <=> k <= l
    <3>1. CASE k = Len(S)
      BY <1>1, <1>4, <2>3, <3>1
    <3>2. CASE k # Len(S)
      <4>1. k + d \in 1 .. Len(R) /\ S[k] = R[k + d] /\ (R[k + d].RX < n <=> k + d <= m)
        BY <1>5, <2>1, <3>2
      <4>2. k + d <= m <=> k <= l
        BY <1>1, <1>3, <2>2, <2>3
      <4> QED
        BY <4>1, <4>2
    <3> QED
      BY <3>1, <3>2
  <2>5. ASSUME NEW k \in 1 .. l, l - k < g PROVE S[k].RX >= n - 1 - (l - k)
    <3>1. l = m - d /\ k \in 1 .. Len(S) /\ k # Len(S)
      BY <1>4, <2>3
    <3>2. S[k] = R[k + d]
      BY <1>5, <3>1
    <3>3. k + d \in 1 .. m /\ m - (k + d) = l - k
      BY <1>3, <3>1, <1>1
    <3> QED
      BY <2>1, <2>5, <3>2, <3>3
  <2> QED
    BY <2>4, <2>5 DEF Runs
<1>12. Fresh(S, n, g, o2)
  <2>1. ASSUME g >= 1, o2 < n PROVE a.TX >= n - 1
    <3>1. n - 1 \in n - g .. n - 1
      BY <1>1, <2>1
    <3>2. n - 1 \in H
      BY <3>1 DEF RingOK, Good
    <3> QED
      BY <1>1, <1>6, <2>1, <3>2
  <2> QED
    BY <1>4, <2>1 DEF Fresh
<1>13. Marks(S, I, n, o2)
  <2>1. ASSUME o2 = n PROVE a.TX < n \/ (Len(S) >= 2 /\ S[Len(S) - 1].RX = n)
    <3>1. CASE a.TX < n
      BY <3>1
    <3>2. CASE a.TX = n
      <4>1. n \in H \/ o = n
        BY <1>1, <2>1, <3>2
      <4>2. Len(R) >= 1 /\ R[Len(R)].RX = n
        BY <4>1 DEF RingOK, Marks
      <4>3. Len(S) >= 2 /\ Len(S) - 1 \in 1 .. Len(S) /\ Len(S) - 1 # Len(S) /\ (Len(S) - 1) + d = Len(R)
        BY <1>1, <1>3, <1>4, <4>2
      <4> QED
        BY <1>5, <4>2, <4>3
    <3> QED
      BY <1>1, <3>1, <3>2
  <2> QED
    BY <1>4, <2>1 DEF Marks
<1>14. Good(I, o2, n, g)
  <2>1. ASSUME NEW s \in n - g .. n - 1 PROVE s \in I /\ o2 # s
    <3>1. s \in H /\ o # s /\ s # n
      BY <1>1 DEF RingOK, Good
    <3> QED
      BY <1>6, <3>1, <1>1
  <2> QED
    BY <2>1 DEF Good
<1>15. I \subseteq Second /\ \A t \in I : t <= n
  BY <1>1
<1> QED
  BY <1>4, <1>6, <1>8, <1>9, <1>10, <1>11, <1>12, <1>13, <1>14, <1>15 DEF RingOK, S

(* A way to show that the acks before this second are one a second.        *)
LEMMA RunsFrom ==
  ASSUME NEW R, NEW n, NEW g, NEW m \in 0 .. Len(R),
         \A k \in 1 .. Len(R) : R[k].RX < n <=> k <= m,
         \A k \in 1 .. m : m - k < g => R[k].RX >= n - 1 - (m - k)
  PROVE  Runs(R, n, g)
BY Zenon DEF Runs

(* The ping of this second is the only one handled in it.                  *)
Closes(R, n, k) == R[k].TX = n /\ \A j \in DOMAIN R \ {k} : R[j].RX < n

(* A second that was good has its own ping as the last ack, and none was   *)
(* overtaken in it.                                                        *)
LEMMA GoodEnd ==
  ASSUME NEW R, NEW H, NEW o, NEW st, NEW n \in Second, NEW g \in Nat,
         RingOK(R, H, o, st, n, g),
         NEW k \in DOMAIN R, Closes(R, n, k)
  PROVE  k = Len(R) /\ Len(R) >= 1 /\ R[k].RX = n /\ n \in H /\ o < n
<1>0. R[k].TX = n /\ \A j \in DOMAIN R \ {k} : R[j].RX < n
  BY DEF Closes
<1>1. /\ R \in Seq(pingInfo) /\ Len(R) \in Nat /\ DOMAIN R = 1 .. Len(R) /\ n \in Nat
      /\ \A i \in 1 .. Len(R) : R[i].TX \in Nat /\ R[i].RX \in Nat
      /\ o \in Nat /\ o <= n
  BY RingNumbers
<1>2. \A i \in 1 .. Len(R) : R[i].TX \in H /\ R[i].TX <= R[i].RX /\ R[i].RX <= n
  BY DEF RingOK, Acks
<1>3. R[k].RX = n /\ n \in H /\ k \in 1 .. Len(R) /\ Len(R) >= 1
  BY <1>0, <1>1, <1>2
<1>4. R[Len(R)].RX = n
  BY <1>3 DEF RingOK, Marks
<1>5. k = Len(R)
  <2> SUFFICES ASSUME k # Len(R) PROVE FALSE
    OBVIOUS
  <2>1. Len(R) \in DOMAIN R \ {k}
    BY <1>1, <1>3
  <2> QED
    BY <1>0, <1>1, <1>4, <2>1
<1>6. o # n
  <2> SUFFICES ASSUME o = n PROVE FALSE
    OBVIOUS
  <2>1. Len(R) >= 2 /\ R[Len(R) - 1].RX = n
    BY <1>0, <1>1, <1>5 DEF RingOK, Marks
  <2>2. Len(R) - 1 \in 1 .. Len(R) /\ Len(R) - 1 # k
    <3>1. \A l \in Nat : l >= 2 => l - 1 \in 1 .. l /\ l - 1 # l
      OBVIOUS
    <3> QED
      BY <1>1, <1>5, <2>1, <3>1, Zenon
  <2> QED
    BY <1>0, <1>1, <2>1, <2>2
<1> QED
  BY <1>1, <1>3, <1>5, <1>6

(* The second passes: a good one is one more good second, any other ends   *)
(* their run.                                                              *)
LEMMA TickRing ==
  ASSUME NEW R, NEW H, NEW o, NEW st, NEW n \in Second, NEW g \in Nat,
         RingOK(R, H, o, st, n, g)
  PROVE  /\ RingOK(R, H, o, st, n + 1, 0)
         /\ (\E k \in DOMAIN R : Closes(R, n, k)) => RingOK(R, H, o, st, n + 1, g + 1)
<1>1. /\ R \in Seq(pingInfo) /\ Len(R) \in Nat /\ n \in Nat /\ Len(R) <= Slots
      /\ \A k \in 1 .. Len(R) : R[k].TX \in Nat /\ R[k].RX \in Nat
      /\ H \subseteq Second /\ H \subseteq Nat /\ o \in Nat /\ o <= n /\ \A t \in H : t <= n
  BY RingNumbers
<1>2. Acks(R, H, st, n) /\ Spaced(R, o) /\ Kept(R, H, o)
  BY DEF RingOK
<1>3. Acks(R, H, st, n + 1)
  <2>1. ASSUME NEW k \in 1 .. Len(R)
        PROVE  /\ R[k].ID = PingID(st[R[k].TX])
               /\ R[k].TX \in H
               /\ R[k].TX <= R[k].RX /\ R[k].RX <= n
    BY <1>2 DEF Acks
  <2>2. ASSUME NEW k \in 1 .. Len(R) PROVE R[k].RX <= n + 1
    BY <1>1, <2>1
  <2> QED
    BY <2>1, <2>2 DEF Acks
<1>4. \A k \in 1 .. Len(R) : R[k].RX <= n
  BY <1>2 DEF Acks
<1>5. Marks(R, H, n + 1, o)
  BY <1>1 DEF Marks
<1>6. Len(R) \in 0 .. Len(R) /\ \A k \in 1 .. Len(R) : R[k].RX < n + 1 <=> k <= Len(R)
  BY <1>1, <1>4
<1>7. RingOK(R, H, o, st, n + 1, 0)
  <2>1. Runs(R, n + 1, 0)
    <3>1. \A k \in 1 .. Len(R) : Len(R) - k < 0 => R[k].RX >= n + 1 - 1 - (Len(R) - k)
      BY <1>1
    <3> QED
      BY <1>6, <3>1, RunsFrom
  <2>2. Fresh(R, n + 1, 0, o) /\ Good(H, o, n + 1, 0)
    BY <1>1 DEF Fresh, Good
  <2>3. o <= n + 1 /\ \A t \in H : t <= n + 1
    BY <1>1
  <2> QED
    BY <1>1, <1>2, <1>3, <1>5, <2>1, <2>2, <2>3 DEF RingOK
<1>8. ASSUME NEW e \in DOMAIN R, Closes(R, n, e)
      PROVE  RingOK(R, H, o, st, n + 1, g + 1)
  <2>1. e = Len(R) /\ Len(R) >= 1 /\ R[e].RX = n /\ n \in H /\ o < n
    BY <1>8, GoodEnd
  <2>2. PICK m \in 0 .. Len(R) :
          /\ \A k \in 1 .. Len(R) : R[k].RX < n <=> k <= m
          /\ \A k \in 1 .. m : m - k < g => R[k].RX >= n - 1 - (m - k)
    BY DEF RingOK, Runs
  <2>3. m = Len(R) - 1
    <3>1. Len(R) \in 1 .. Len(R) /\ ~(Len(R) <= m)
      BY <1>1, <2>1, <2>2
    <3>2. Len(R) >= 2 => Len(R) - 1 \in DOMAIN R \ {e}
      BY <1>1, <2>1
    <3>3. Len(R) >= 2 => Len(R) - 1 \in 1 .. Len(R) /\ R[Len(R) - 1].RX < n
      BY <1>1, <1>8, <3>2 DEF Closes
    <3>4. Len(R) >= 2 => Len(R) - 1 <= m
      BY <2>2, <3>3
    <3> QED
      BY <1>1, <2>1, <3>1, <3>4
  <2>4. Runs(R, n + 1, g + 1)
    <3>1. ASSUME NEW k \in 1 .. Len(R), Len(R) - k < g + 1
          PROVE  R[k].RX >= n + 1 - 1 - (Len(R) - k)
      <4>1. CASE k = Len(R)
        BY <1>1, <2>1, <4>1
      <4>2. CASE k # Len(R)
        <5>1. k \in 1 .. m /\ m - k < g /\ n - 1 - (m - k) = n + 1 - 1 - (Len(R) - k)
          BY <1>1, <2>3, <3>1, <4>2
        <5> QED
          BY <2>2, <5>1
      <4> QED
        BY <4>1, <4>2
    <3>2. PICK p \in Nat, h \in Nat : p = n + 1 /\ h = g + 1
      BY <1>1
    <3>3. \A k \in 1 .. Len(R) : Len(R) - k < h => R[k].RX >= p - 1 - (Len(R) - k)
      BY <1>1, <3>1, <3>2
    <3>4. Runs(R, p, h)
      BY <1>6, <3>2, <3>3, RunsFrom
    <3> QED
      BY <3>2, <3>4
  <2>5. Fresh(R, n + 1, g + 1, o)
    BY <1>1, <1>8, <2>1 DEF Fresh, Closes
  <2>6. Good(H, o, n + 1, g + 1)
    <3>1. ASSUME NEW s \in n + 1 - (g + 1) .. n + 1 - 1 PROVE s \in H /\ o # s
      <4>1. s = n \/ s \in n - g .. n - 1
        BY <1>1
      <4>2. Good(H, o, n, g)
        BY DEF RingOK
      <4> QED
        BY <1>1, <2>1, <4>1, <4>2 DEF Good
    <3> QED
      BY <1>1, <3>1 DEF Good
  <2>7. o <= n + 1 /\ \A t \in H : t <= n + 1
    BY <1>1
  <2> QED
    BY <1>1, <1>2, <1>3, <1>5, <2>4, <2>5, <2>6, <2>7 DEF RingOK
<1> QED
  BY <1>7, <1>8

-----------------------------------------------------------------------------
(* What a step does to the copies of a ring that are on their way, and to  *)
(* the one in LastRXPing.                                                  *)

(* sendPackets puts the ring in the ping as it is.                         *)
LEMMA SnapOfRing ==
  ASSUME NEW R, NEW H, NEW o, NEW st, NEW n \in Second, NEW g \in Nat,
         RingOK(R, H, o, st, n, g)
  PROVE  SnapOK(R, H, o, st, n, n, g)
<1>1. n \in Nat /\ n <= n
  BY Numbers
<1>2. \A t \in H : Acked(R, t) \/ (Len(R) = Slots /\ Before(R, t, o))
  BY DEF RingOK, Kept
<1>3. g >= 1 /\ (n = n => o < n) => Len(R) >= 1 /\ R[Len(R)].TX >= n - 1
  BY DEF RingOK, Fresh
<1> QED
  BY <1>1, <1>2, <1>3 DEF RingOK, SnapOK

(* The numbers of a copy.                                                  *)
LEMMA SnapNumbers ==
  ASSUME NEW R, NEW H, NEW o, NEW st, NEW n \in Second, NEW T, NEW g,
         SnapOK(R, H, o, st, n, T, g)
  PROVE  /\ R \in Seq(pingInfo) /\ Len(R) \in Nat /\ Len(R) <= Slots /\ Slots \in Nat /\ 1 < Slots
         /\ n \in Nat /\ T \in Nat /\ T <= n
         /\ \A k \in 1 .. Len(R) : /\ R[k].TX \in Nat /\ R[k].RX \in Nat
                                   /\ R[k].TX \in H /\ R[k].TX <= R[k].RX /\ R[k].RX <= T
<1>1. R \in Seq(pingInfo) /\ Len(R) <= Slots /\ T \in Nat /\ T <= n /\ Acks(R, H, st, T)
  BY DEF SnapOK
<1>2. Slots \in Nat /\ 1 < Slots /\ n \in Nat
  BY Numbers
<1>3. Len(R) \in Nat
  BY <1>1
<1>4. \A k \in 1 .. Len(R) : R[k].TX \in Nat /\ R[k].RX \in Nat
  BY <1>1, AckNumbers
<1>5. \A k \in 1 .. Len(R) : R[k].TX \in H /\ R[k].TX <= R[k].RX /\ R[k].RX <= T
  BY <1>1 DEF Acks
<1> QED
  BY <1>1, <1>2, <1>3, <1>4, <1>5

(* The peer handles another ping: it is newer than what the copy says, or  *)
(* the peer is overtaken in this second.                                   *)
LEMMA SnapPush ==
  ASSUME NEW R, NEW H, NEW o \in Nat, NEW st, NEW n \in Second, NEW T, NEW g \in Int,
         SnapOK(R, H, o, st, n, T, g), H \subseteq Nat, o <= n,
         NEW t \in Nat,
         NEW o2, o2 = IF \E s \in H : s >= t THEN n ELSE o
  PROVE  SnapOK(R, H \cup {t}, o2, st, n, T, g)
<1>1. /\ R \in Seq(pingInfo) /\ Len(R) \in Nat /\ Len(R) <= Slots
      /\ n \in Nat /\ T \in Nat /\ T <= n
      /\ \A k \in 1 .. Len(R) : /\ R[k].TX \in Nat /\ R[k].RX \in Nat
                                /\ R[k].TX \in H /\ R[k].RX <= T
  BY SnapNumbers
<1>2. o2 \in Nat /\ o <= o2 /\ o2 <= n /\ (o2 < n => o2 = o /\ \A s \in H : s < t)
  <2>1. CASE \E s \in H : s >= t
    BY <1>1, <2>1
  <2>2. CASE ~\E s \in H : s >= t
    BY <1>1, <2>2
  <2> QED
    BY <2>1, <2>2
<1>3. \A x \in Nat : o2 < x => o < x
  BY <1>2
<1>4. Acks(R, H \cup {t}, st, T)
  BY DEF SnapOK, Acks
<1>5. Spaced(R, o2)
  <2>1. ASSUME NEW j \in 1 .. Len(R), NEW k \in 1 .. Len(R), j < k
        PROVE  /\ R[j].RX <= R[k].RX
               /\ o2 < R[k].RX => R[j].TX < R[k].TX
               /\ o2 < R[j].RX => R[k].TX - R[j].TX >= k - j
    <3>1. /\ R[j].RX <= R[k].RX
          /\ o < R[k].RX => R[j].TX < R[k].TX
          /\ o < R[j].RX => R[k].TX - R[j].TX >= k - j
      BY <2>1 DEF SnapOK, Spaced
    <3>2. (o2 < R[k].RX => o < R[k].RX) /\ (o2 < R[j].RX => o < R[j].RX)
      BY <1>1, <1>3
    <3> QED
      BY <3>1, <3>2
  <2> QED
    BY <2>1 DEF Spaced
<1>6. ASSUME NEW s \in H \cup {t}
      PROVE  Acked(R, s) \/ (Len(R) = Slots /\ Before(R, s, o2)) \/ After(R, s, o2)
  <2>1. CASE s \in H
    <3>1. Acked(R, s) \/ (Len(R) = Slots /\ Before(R, s, o)) \/ After(R, s, o)
      BY <2>1 DEF SnapOK
    <3>2. Before(R, s, o) => Before(R, s, o2)
      BY <1>1, <1>3 DEF Before
    <3>3. After(R, s, o) => After(R, s, o2)
      BY <1>1, <1>3 DEF After
    <3> QED
      BY <3>1, <3>2, <3>3
  <2>2. CASE s = t
    <3>1. ASSUME NEW k \in 1 .. Len(R), o2 < R[k].RX PROVE s > R[k].TX
      <4>1. \A x \in Nat : o2 < x /\ x <= T => o2 < n
        BY <1>1, <1>2
      <4>2. o2 < n
        BY <1>1, <3>1, <4>1
      <4>3. R[k].TX < t
        BY <1>1, <1>2, <4>2
      <4> QED
        BY <1>1, <2>2, <4>3
    <3> QED
      BY <3>1 DEF After
  <2> QED
    BY <2>1, <2>2
<1>7. ASSUME g >= 1, T = n => o2 < n
      PROVE  Len(R) >= 1 /\ R[Len(R)].TX >= T - 1
  <2>1. T = n => o < n
    BY <1>2, <1>7
  <2> QED
    BY <1>7, <2>1 DEF SnapOK
<1>8. Runs(R, T, g)
  BY DEF SnapOK
<1> QED
  BY <1>1, <1>4, <1>5, <1>6, <1>7, <1>8 DEF SnapOK

(* The second passes: what a copy says of good seconds stays true, or its  *)
(* run of good seconds no longer counts.                                   *)
LEMMA SnapTick ==
  ASSUME NEW R, NEW H, NEW o \in Nat, NEW st, NEW n \in Second, NEW T, NEW g \in Int, NEW h \in Int,
         SnapOK(R, H, o, st, n, T, g), (h = g /\ o < n) \/ h <= 0
  PROVE  SnapOK(R, H, o, st, n + 1, T, h)
<1>1. /\ R \in Seq(pingInfo) /\ Len(R) \in Nat /\ Len(R) <= Slots
      /\ n \in Nat /\ T \in Nat /\ T <= n
  BY SnapNumbers
<1>2. Runs(R, T, h)
  <2>1. PICK m \in 0 .. Len(R) :
          /\ \A k \in 1 .. Len(R) : R[k].RX < T <=> k <= m
          /\ \A k \in 1 .. m : m - k < g => R[k].RX >= T - 1 - (m - k)
    BY DEF SnapOK, Runs
  <2>2. CASE h = g
    BY <2>2 DEF SnapOK
  <2>3. CASE h <= 0
    <3>1. \A k \in 1 .. m : m - k < h => R[k].RX >= T - 1 - (m - k)
      BY <2>3, <1>1
    <3> QED
      BY <2>1, <3>1, RunsFrom
  <2> QED
    BY <2>2, <2>3
<1>3. ASSUME h >= 1 PROVE Len(R) >= 1 /\ R[Len(R)].TX >= T - 1
  <2>1. h = g /\ o < n
    BY <1>3
  <2> QED
    BY <1>3, <2>1 DEF SnapOK
<1>4. T <= n + 1
  BY <1>1
<1> QED
  BY <1>1, <1>2, <1>3, <1>4 DEF SnapOK

(* Rings and copies are about the pings handled: what other pings are      *)
(* stamped with does not matter.                                           *)
LEMMA Restamped ==
  ASSUME NEW R, NEW H, NEW o, NEW st, NEW su, \A t \in H : su[t] = st[t], NEW n, NEW g
  PROVE  /\ RingOK(R, H, o, st, n, g) => RingOK(R, H, o, su, n, g)
         /\ \A T : SnapOK(R, H, o, st, n, T, g) => SnapOK(R, H, o, su, n, T, g)
<1>1. ASSUME NEW T PROVE Acks(R, H, st, T) => Acks(R, H, su, T)
  BY DEF Acks
<1>2. RingOK(R, H, o, st, n, g) => RingOK(R, H, o, su, n, g)
  BY <1>1 DEF RingOK
<1>3. ASSUME NEW T, SnapOK(R, H, o, st, n, T, g) PROVE SnapOK(R, H, o, su, n, T, g)
  BY <1>1, <1>3 DEF SnapOK
<1> QED
  BY <1>2, <1>3

-----------------------------------------------------------------------------
(* The inductive invariant.                                                *)

(* The seconds of its sender's clock that the pings an end gets are        *)
(* stamped with.                                                           *)
Stamps(e) == [t \in Second |-> Stamp(Other(e), t)]

(* An end that has not sent the ping of this second: nobody has it, and    *)
(* the end's clock did not turn before it.                                 *)
Unsent(e) ==
  /\ now \notin handled[Other(e)] /\ now \notin after[e]
  /\ \A p \in net : p.to = Other(e) => p.ping.TXTime # now

SentOK == \A e \in End : e \notin sent => Unsent(e)

(* Only a clock that turns within a second turns before a ping.            *)
AfterOK == \A e \in End : \A t \in after[e] : t <= now /\ clock[e].split

(* A ping that was sent to an end: its id is that of its second, and the   *)
(* ring in it is a copy of the peer's.                                     *)
PingOK(to, ping) ==
  /\ ping.TXTime <= now
  /\ ping.ID = PingID(Stamps(to)[ping.TXTime])
  /\ to = "us" => SnapOK(ping.LastAcks, handled["peer"], overtaken["peer"], Stamps("peer"), now,
                         ping.TXTime, quiet - (now - ping.TXTime))

RingsOK ==
  \A e \in End : RingOK(LastAcks[e], handled[e], overtaken[e], Stamps(e), now, quiet)

NetOK == \A p \in net : PingOK(p.to, p.ping)

(* LastRXPing is the ping of our last ack.                                 *)
PublishedOK ==
  \/ LastRXPing = NoPing /\ LastAcks["us"] = <<>>
  \/ /\ LastRXPing \in pingStruct /\ PingOK("us", LastRXPing)
     /\ Len(LastAcks["us"]) >= 1
     /\ LastAcks["us"][Len(LastAcks["us"])].TX = LastRXPing.TXTime

(* The inductive invariant of the exchange: the rings, and the copies of   *)
(* the peer's ring, are what handlePacket and sendPackets made of the      *)
(* pings handled.                                                          *)
XInv ==
  /\ TypeOK /\ IsFiniteSet(net) /\ LastRX <= now
  /\ SentOK /\ AfterOK /\ RingsOK /\ NetOK /\ PublishedOK

(* An empty ring, before the first ping.                                   *)
LEMMA EmptyRing ==
  ASSUME NEW st, NEW n \in Second
  PROVE  RingOK(<<>>, {}, 0, st, n, 0)
<1>1. n \in Nat /\ n > 0
  <2>1. Start \in Nat /\ MaxSecond \in Nat /\ Cycle <= Start /\ Cycle \in Nat /\ 1 < Cycle
    <3>1. Cycle \in Nat /\ Slots \in Nat /\ 1 < Slots /\ Slots < Cycle
      BY Numbers
    <3> HIDE DEF Cycle
    <3> QED
      BY <3>1, BoundAssumption
  <2> HIDE DEF Cycle
  <2> QED
    BY <2>1 DEF Second
<1> DEFINE E == <<>>
<1>2. E \in Seq(pingInfo) /\ Len(E) = 0 /\ Len(E) <= Slots
  BY Numbers
<1> HIDE DEF E
<1>3. Acks(E, {}, st, n) /\ Spaced(E, 0) /\ Kept(E, {}, 0)
  BY <1>2 DEF Acks, Spaced, Kept
<1>4. Runs(E, n, 0)
  <2>1. 0 \in 0 .. Len(E) /\ \A k \in 1 .. Len(E) : E[k].RX < n <=> k <= 0
    BY <1>2
  <2>2. \A k \in 1 .. 0 : 0 - k < 0 => E[k].RX >= n - 1 - (0 - k)
    OBVIOUS
  <2> QED
    BY <2>1, <2>2, RunsFrom
<1>5. Fresh(E, n, 0, 0) /\ Marks(E, {}, n, 0) /\ Good({}, 0, n, 0)
  BY <1>1, <1>2 DEF Fresh, Marks, Good
<1>6. RingOK(E, {}, 0, st, n, 0)
  BY <1>1, <1>2, <1>3, <1>4, <1>5 DEF RingOK
<1> QED
  BY <1>6 DEF E

(* A session before its first ping.                                        *)
LEMMA InitX == Init => XInv
<1> SUFFICES ASSUME Init PROVE XInv
  OBVIOUS
<1> USE DEF Init
<1>1. now \in Second /\ 0 \in 0 .. MaxFaults /\ Slots \in Nat
  BY Numbers, BoundAssumption
<1>2. <<>> \in Seq(pingInfo) /\ Len(<<>>) = 0
  OBVIOUS
<1>3. TypeOK
  <2>1. turned \in [End -> BOOLEAN] /\ \A e \in End : ~turned[e]
    BY Zenon
  <2> QED
    BY <1>1, <1>2, <2>1 DEF TypeOK, End
<1>4. IsFiniteSet(net)
  BY FS_EmptySet
<1>5. LastRX <= now
  BY <1>1, Numbers
<1>6. RingsOK
  <2>1. ASSUME NEW e \in End
        PROVE  RingOK(LastAcks[e], handled[e], overtaken[e], Stamps(e), now, quiet)
    <3>1. LastAcks[e] = <<>> /\ handled[e] = {} /\ overtaken[e] = 0
      OBVIOUS
    <3> QED
      BY <1>1, <3>1, EmptyRing
  <2> QED
    BY <2>1 DEF RingsOK
<1>7. NetOK /\ PublishedOK
  BY DEF NetOK, PublishedOK, End
<1>8. SentOK /\ AfterOK
  BY DEF SentOK, Unsent, AfterOK, End, Other
<1> QED
  BY <1>3, <1>4, <1>5, <1>6, <1>7, <1>8 DEF XInv

(* What the types say.                                                     *)
LEMMA Types ==
  ASSUME TypeOK
  PROVE  /\ now \in Second /\ now \in Nat /\ quiet \in Nat
         /\ \A e \in End : /\ clock[e].ahead \in Int /\ clock[e].split \in BOOLEAN
                           /\ turned[e] \in BOOLEAN /\ (turned[e] => clock[e].split)
                           /\ after[e] \subseteq Second
                           /\ LastAcks[e] \in Seq(pingInfo) /\ Len(LastAcks[e]) <= Slots
                           /\ handled[e] \subseteq Second /\ handled[e] \subseteq Nat
                           /\ overtaken[e] \in Second \cup {0} /\ overtaken[e] \in Nat
         /\ \A p \in net : /\ p.to \in End /\ p.ping \in pingStruct
                           /\ p.ping.ID \in 1 .. Cycle /\ p.ping.TXTime \in Second
                           /\ p.ping.TXTime \in Nat /\ p.ping.LastAcks \in Seq(pingInfo)
<1>1. Second \subseteq Nat
  BY Numbers
<1>2. now \in Second /\ quiet \in Nat
  BY DEF TypeOK
<1>3. ASSUME NEW e \in End
      PROVE  /\ LastAcks[e] \in Seq(pingInfo) /\ Len(LastAcks[e]) <= Slots
             /\ handled[e] \subseteq Second
             /\ overtaken[e] \in Second \cup {0}
  BY DEF TypeOK
<1>4. ASSUME NEW p \in net
      PROVE  /\ p.to \in End /\ p.ping \in pingStruct
             /\ p.ping.ID \in 1 .. Cycle /\ p.ping.TXTime \in Second
             /\ p.ping.LastAcks \in Seq(pingInfo)
  <2>1. p \in [to : End, ping : pingStruct]
    BY DEF TypeOK
  <2> QED
    BY <2>1 DEF pingStruct
<1>5. ASSUME NEW e \in End
      PROVE  /\ clock[e].ahead \in Int /\ clock[e].split \in BOOLEAN
             /\ turned[e] \in BOOLEAN /\ (turned[e] => clock[e].split)
             /\ after[e] \subseteq Second
  <2>1. clock[e] \in Clock
    BY ClockAssumption DEF TypeOK
  <2>2. clock[e].ahead \in Int /\ clock[e].split \in BOOLEAN
    BY <2>1 DEF Clock
  <2>3. turned[e] \in BOOLEAN /\ (turned[e] => clock[e].split) /\ after[e] \subseteq Second
    BY Zenon DEF TypeOK
  <2> QED
    BY <2>2, <2>3
<1>6. now \in Nat
  BY <1>1, <1>2
<1>7. ASSUME NEW e \in End PROVE handled[e] \subseteq Nat /\ overtaken[e] \in Nat
  <2>1. handled[e] \subseteq Second /\ overtaken[e] \in Second \cup {0} /\ 0 \in Nat
    BY <1>3
  <2> QED
    BY <1>1, <2>1, Zenon
<1>8. ASSUME NEW p \in net PROVE p.ping.TXTime \in Nat
  BY <1>1, <1>4
<1> QED
  BY <1>2, <1>3, <1>4, <1>5, <1>6, <1>7, <1>8, Zenon

-----------------------------------------------------------------------------
(* The steps.                                                              *)

(* A round of sendPackets stamps this second's ping and no other.          *)
LEMMA SendStamps ==
  ASSUME XInv, NEW e \in End, SendPing(e)
  PROVE  /\ \A to \in End : \A t \in Second : (to = Other(e) => t # now) => Stamps(to)'[t] = Stamps(to)[t]
         /\ Stamps(Other(e))'[now] = SystemSecond(e)
         /\ after'[e] \subseteq after[e] \cup {now} /\ (now \in after'[e] => turned[e])
         /\ \A d \in End : d # e => after'[d] = after[d]
         /\ after' \in [End -> SUBSET Second]
<1>1. Unsent(e) /\ clock' = clock /\ now' = now
  BY DEF XInv, SentOK, SendPing, clockVars
<1>2. /\ now \in Second /\ after \in [End -> SUBSET Second] /\ turned[e] \in BOOLEAN
      /\ Other(e) \in End /\ Other(Other(e)) = e
      /\ \A to \in End : Other(to) \in End /\ (Other(to) = e => to = Other(e))
  BY Types DEF XInv, TypeOK, Other, End
<1>3. after' = IF turned[e] THEN [after EXCEPT ![e] = after[e] \cup {now}] ELSE after
  BY DEF SendPing
<1>4. /\ after' \in [End -> SUBSET Second] /\ \A d \in End : d # e => after'[d] = after[d]
      /\ after'[e] \subseteq after[e] \cup {now} /\ after[e] \subseteq after'[e]
      /\ now \in after'[e] <=> turned[e]
  <2>1. now \notin after[e]
    BY <1>1 DEF Unsent
  <2>2. CASE turned[e]
    BY <1>2, <1>3, <2>2
  <2>3. CASE ~turned[e]
    BY <1>2, <1>3, <2>1, <2>3
  <2> QED
    BY <1>2, <2>2, <2>3
<1>5. ASSUME NEW to \in End, NEW t \in Second, to = Other(e) => t # now
      PROVE  Stamps(to)'[t] = Stamps(to)[t]
  <2>1. t \in after'[Other(to)] <=> t \in after[Other(to)]
    BY <1>2, <1>4, <1>5
  <2>2. Stamps(to)'[t] = t + clock[Other(to)].ahead + One(t \in after'[Other(to)])
    BY <1>1 DEF Stamps, Stamp, Second
  <2>3. Stamps(to)[t] = t + clock[Other(to)].ahead + One(t \in after[Other(to)])
    BY DEF Stamps, Stamp
  <2>4. One(t \in after'[Other(to)]) = One(t \in after[Other(to)])
    BY <2>1 DEF One
  <2> QED
    BY <2>2, <2>3, <2>4
<1>6. Stamps(Other(e))'[now] = SystemSecond(e)
  <2>1. Stamps(Other(e))'[now] = now + clock[e].ahead + One(now \in after'[e])
    BY <1>1, <1>2 DEF Stamps, Stamp, Second
  <2>2. One(now \in after'[e]) = One(turned[e])
    BY <1>4 DEF One
  <2> QED
    BY <2>1, <2>2 DEF SystemSecond
<1> QED
  BY <1>4, <1>5, <1>6

(* A round of sendPackets.                                                 *)
LEMMA SendStep ==
  ASSUME XInv, NEW e \in End, SendPing(e)
  PROVE  XInv'
<1> PICK q : q = [to |-> Other(e),
                  ping |-> [ID |-> PingID(SystemSecond(e)), TXTime |-> now,
                            LastAcks |-> IF e = "peer" THEN LastAcks[e] ELSE <<>>]]
  OBVIOUS
<1>1. /\ sent' = sent \cup {e} /\ net' = net \cup {q}
      /\ UNCHANGED <<now, clock, turned, faults, LastAcks, LastRX, LastRXPing, handled, overtaken, quiet>>
  BY DEF SendPing, sessionVars, clockVars
<1>2. /\ TypeOK /\ IsFiniteSet(net) /\ LastRX <= now /\ SentOK /\ AfterOK
      /\ RingsOK /\ NetOK /\ PublishedOK /\ Unsent(e)
  BY DEF XInv, SentOK, SendPing
<1>3. /\ now \in Second /\ now \in Nat /\ quiet \in Nat
      /\ clock[e].ahead \in Int /\ turned[e] \in BOOLEAN /\ (turned[e] => clock[e].split)
  BY <1>2, Types
<1>4. /\ q.to = Other(e) /\ q.ping.ID = PingID(SystemSecond(e)) /\ q.ping.TXTime = now
      /\ q.ping.LastAcks = IF e = "peer" THEN LastAcks[e] ELSE <<>>
  OBVIOUS
<1>5. q \in [to : End, ping : pingStruct]
  <2>1. PingID(SystemSecond(e)) \in 1 .. Cycle
    <3>1. SystemSecond(e) \in Int
      BY <1>3 DEF SystemSecond, One
    <3> QED
      BY <3>1, Numbers
  <2>2. (IF e = "peer" THEN LastAcks[e] ELSE <<>>) \in Seq(pingInfo)
    BY <1>2, Types
  <2>3. Other(e) \in End
    BY DEF Other, End
  <2> QED
    BY <1>3, <2>1, <2>2, <2>3 DEF pingStruct
<1>6. TypeOK'
  BY <1>1, <1>2, <1>5, SendStamps DEF TypeOK
<1>7. IsFiniteSet(net)' /\ (LastRX <= now)'
  BY <1>1, <1>2, FS_AddElement
<1>8. ASSUME NEW to \in End
      PROVE  \A t \in handled[to] : Stamps(to)'[t] = Stamps(to)[t]
  <2>1. handled[to] \subseteq Second /\ (to = Other(e) => now \notin handled[to])
    BY <1>2, Types DEF Unsent
  <2> QED
    BY <2>1, SendStamps
<1>9. RingsOK'
  <2>1. ASSUME NEW d \in End
        PROVE  RingOK(LastAcks[d], handled[d], overtaken[d], Stamps(d)', now, quiet)
    <3>1. RingOK(LastAcks[d], handled[d], overtaken[d], Stamps(d), now, quiet)
      BY <1>2 DEF RingsOK
    <3> QED
      BY <1>8, <3>1, Restamped
  <2> QED
    BY <1>1, <2>1 DEF RingsOK
<1>10. ASSUME NEW to \in End, NEW ping, ping.TXTime \in Second, PingOK(to, ping),
              to = Other(e) => ping.TXTime # now
       PROVE  PingOK(to, ping)'
  <2>1. ping.TXTime <= now /\ ping.ID = PingID(Stamps(to)[ping.TXTime])
    BY <1>10 DEF PingOK
  <2>2. Stamps(to)'[ping.TXTime] = Stamps(to)[ping.TXTime]
    BY <1>10, SendStamps
  <2>3. ASSUME to = "us"
        PROVE  SnapOK(ping.LastAcks, handled["peer"], overtaken["peer"], Stamps("peer")', now,
                      ping.TXTime, quiet - (now - ping.TXTime))
    <3>1. SnapOK(ping.LastAcks, handled["peer"], overtaken["peer"], Stamps("peer"), now,
                 ping.TXTime, quiet - (now - ping.TXTime))
      BY <1>10, <2>3 DEF PingOK
    <3>2. \A t \in handled["peer"] : Stamps("peer")'[t] = Stamps("peer")[t]
      BY <1>8 DEF End
    <3> QED
      BY <3>1, <3>2, Restamped
  <2> QED
    BY <1>1, <2>1, <2>2, <2>3 DEF PingOK
<1>11. PingOK(q.to, q.ping)'
  <2>1. q.ping.TXTime <= now
    BY <1>3, <1>4
  <2>2. q.ping.ID = PingID(Stamps(q.to)'[q.ping.TXTime])
    BY <1>4, SendStamps
  <2>3. ASSUME q.to = "us"
        PROVE  SnapOK(q.ping.LastAcks, handled["peer"], overtaken["peer"], Stamps("peer")', now,
                      q.ping.TXTime, quiet - (now - q.ping.TXTime))
    <3>1. e = "peer" /\ "peer" \in End
      BY <1>4, <2>3 DEF Other, End
    <3>2. RingOK(LastAcks["peer"], handled["peer"], overtaken["peer"], Stamps("peer"), now, quiet)
      BY <1>2, <3>1 DEF RingsOK
    <3>3. SnapOK(LastAcks["peer"], handled["peer"], overtaken["peer"], Stamps("peer"), now, now, quiet)
      BY <1>3, <3>2, SnapOfRing
    <3>4. SnapOK(LastAcks["peer"], handled["peer"], overtaken["peer"], Stamps("peer")', now, now, quiet)
      BY <1>8, <3>1, <3>3, Restamped
    <3>5. quiet - (now - now) = quiet
      BY <1>3
    <3> QED
      BY <1>4, <3>1, <3>4, <3>5
  <2> QED
    BY <1>1, <2>1, <2>2, <2>3 DEF PingOK
<1>12. NetOK'
  <2>1. ASSUME NEW p \in net PROVE PingOK(p.to, p.ping)'
    <3>1. p.to \in End /\ p.ping.TXTime \in Second /\ PingOK(p.to, p.ping)
      BY <1>2, Types DEF NetOK
    <3>2. p.to = Other(e) => p.ping.TXTime # now
      BY <1>2 DEF Unsent
    <3> QED
      BY <1>10, <3>1, <3>2
  <2> QED
    BY <1>1, <1>11, <2>1 DEF NetOK
<1>13. PublishedOK'
  <2>1. CASE LastRXPing = NoPing /\ LastAcks["us"] = <<>>
    BY <1>1, <2>1 DEF PublishedOK, NoPing
  <2>2. CASE ~(LastRXPing = NoPing /\ LastAcks["us"] = <<>>)
    <3>1. /\ LastRXPing \in pingStruct /\ PingOK("us", LastRXPing)
          /\ Len(LastAcks["us"]) >= 1
          /\ LastAcks["us"][Len(LastAcks["us"])].TX = LastRXPing.TXTime
      BY <1>2, <2>2 DEF PublishedOK
    <3>2. LastRXPing.TXTime \in Second /\ "us" \in End
      BY <3>1 DEF pingStruct, End
    <3>3. LastRXPing.TXTime \in handled["us"]
      <4>1. /\ LastAcks["us"] \in Seq(pingInfo)
            /\ Acks(LastAcks["us"], handled["us"], Stamps("us"), now)
        BY <1>2, <3>2 DEF RingsOK, RingOK
      <4>2. Len(LastAcks["us"]) \in 1 .. Len(LastAcks["us"])
        BY <3>1, <4>1
      <4> QED
        BY <3>1, <4>1, <4>2 DEF Acks
    <3>4. "us" = Other(e) => LastRXPing.TXTime # now
      BY <1>2, <3>3 DEF Unsent
    <3>5. ASSUME NEW c, c = LastRXPing PROVE PingOK("us", c)'
      BY <1>10, <3>1, <3>2, <3>4, <3>5
    <3> QED
      BY <1>1, <3>1, <3>5 DEF PublishedOK
  <2> QED
    BY <2>1, <2>2
<1>14. SentOK' /\ AfterOK'
  <2>1. ASSUME NEW d \in End, d \notin sent' PROVE Unsent(d)'
    <3>1. d # e /\ d \notin sent /\ Other(d) # Other(e)
      BY <1>1, <2>1 DEF End, Other
    <3>2. Unsent(d)
      BY <1>2, <3>1 DEF SentOK
    <3>3. \A p \in net' : p.to = Other(d) => p.ping.TXTime # now
      BY <1>1, <1>4, <3>1, <3>2 DEF Unsent
    <3>4. after'[d] = after[d]
      BY <3>1, SendStamps
    <3> QED
      BY <1>1, <3>2, <3>3, <3>4 DEF Unsent
  <2>2. ASSUME NEW d \in End, NEW t \in after'[d] PROVE t <= now /\ clock[d].split
    <3>1. CASE t \in after[d]
      BY <1>2, <3>1 DEF AfterOK
    <3>2. CASE t \notin after[d]
      <4>1. d = e /\ t = now /\ turned[e]
        BY <3>2, SendStamps
      <4> QED
        BY <1>3, <4>1
    <3> QED
      BY <3>1, <3>2
  <2> QED
    BY <1>1, <2>1, <2>2 DEF SentOK, AfterOK
<1> QED
  BY <1>6, <1>7, <1>9, <1>12, <1>13, <1>14 DEF XInv

(* handlePacket, at either end.                                            *)
LEMMA HandleStep ==
  ASSUME XInv, NEW p \in net, handlePacket(p)
  PROVE  XInv'
<1> DEFINE a == [ID |-> p.ping.ID, TX |-> p.ping.TXTime, RX |-> now]
<1>1. /\ TypeOK /\ IsFiniteSet(net) /\ LastRX <= now /\ SentOK /\ AfterOK
      /\ RingsOK /\ NetOK /\ PublishedOK
  BY DEF XInv
<1>2. /\ now \in Second /\ now \in Nat /\ quiet \in Nat
      /\ p.to \in End /\ p.ping \in pingStruct /\ p.ping.ID \in 1 .. Cycle
      /\ p.ping.TXTime \in Second /\ p.ping.TXTime \in Nat
  BY <1>1, Types
<1>3. /\ LastAcks' = [LastAcks EXCEPT ![p.to] = Push(LastAcks[p.to], a)]
      /\ handled' = [handled EXCEPT ![p.to] = handled[p.to] \cup {p.ping.TXTime}]
      /\ overtaken' = IF \E t \in handled[p.to] : t >= p.ping.TXTime
                       THEN [overtaken EXCEPT ![p.to] = now] ELSE overtaken
      /\ now' = now /\ clock' = clock /\ turned' = turned /\ after' = after
      /\ sent' = sent /\ quiet' = quiet
  BY DEF handlePacket, Stored, Push, clockVars
<1>4. net' \subseteq net /\ IsFiniteSet(net') /\ faults' \in 0 .. MaxFaults
  <2>1. CASE net' = net \ {p} /\ UNCHANGED faults
    BY <1>1, <2>1, FS_Subset DEF TypeOK
  <2>2. CASE faults < MaxFaults /\ faults' = faults + 1 /\ UNCHANGED net
    BY <1>1, <2>2, BoundAssumption DEF TypeOK
  <2> QED
    BY <2>1, <2>2 DEF handlePacket, Deliver
<1>5. /\ p.to = "us" => LastRX' = now /\ LastRXPing' = p.ping
      /\ p.to # "us" => LastRX' = LastRX /\ LastRXPing' = LastRXPing
  BY DEF handlePacket, Publish
<1>6. a \in pingInfo /\ a.ID = p.ping.ID /\ a.TX = p.ping.TXTime /\ a.RX = now
  BY <1>2 DEF pingInfo
<1> HIDE DEF a
<1>7. PingOK(p.to, p.ping)
  BY <1>1 DEF NetOK
<1>8. p.ping.TXTime <= now /\ a.ID = PingID(Stamps(p.to)[a.TX]) /\ a.TX <= now
  BY <1>6, <1>7 DEF PingOK
<1>9. /\ DOMAIN LastAcks = End /\ DOMAIN handled = End /\ DOMAIN overtaken = End
      /\ \A e \in End : Stamps(e)' = Stamps(e)
  BY <1>1, <1>3 DEF TypeOK, Stamps, Stamp
<1>10. /\ LastAcks'[p.to] = Push(LastAcks[p.to], a)
       /\ handled'[p.to] = handled[p.to] \cup {a.TX}
       /\ overtaken'[p.to] = IF \E t \in handled[p.to] : t >= a.TX THEN now ELSE overtaken[p.to]
  BY <1>2, <1>3, <1>6, <1>9
<1>11. \A e \in End : e # p.to => /\ LastAcks'[e] = LastAcks[e] /\ handled'[e] = handled[e]
                                  /\ overtaken'[e] = overtaken[e]
  BY <1>3, <1>9
<1>12. RingsOK'
  <2>1. ASSUME NEW e \in End
        PROVE  RingOK(LastAcks'[e], handled'[e], overtaken'[e], Stamps(e), now, quiet)
    <3>1. RingOK(LastAcks[e], handled[e], overtaken[e], Stamps(e), now, quiet)
      BY <1>1 DEF RingsOK
    <3>2. CASE e = p.to
      <4>1. RingOK(Push(LastAcks[p.to], a), handled[p.to] \cup {a.TX}, overtaken'[p.to], Stamps(p.to), now, quiet)
        BY <1>2, <1>6, <1>8, <1>9, <1>10, <3>1, <3>2, PushRing
      <4> QED
        BY <1>10, <3>2, <4>1
    <3>3. CASE e # p.to
      BY <1>11, <3>1, <3>3
    <3> QED
      BY <3>2, <3>3
  <2> QED
    BY <1>3, <1>9, <2>1 DEF RingsOK
<1>13. TypeOK'
  <2>1. LastAcks' \in [End -> Seq(pingInfo)] /\ \A e \in End : Len(LastAcks'[e]) <= Slots
    <3>1. Push(LastAcks[p.to], a) \in Seq(pingInfo) /\ Len(Push(LastAcks[p.to], a)) <= Slots
      BY <1>1, <1>2, <1>6, PushShape, Types
    <3> QED
      BY <1>1, <1>3, <1>10, <1>11, <3>1 DEF TypeOK
  <2>2. handled' \in [End -> SUBSET Second] /\ overtaken' \in [End -> Second \cup {0}]
    BY <1>1, <1>2, <1>3 DEF TypeOK
  <2>3. LastRX' \in Second \cup {0} /\ LastRXPing' \in pingStruct \cup {NoPing}
    BY <1>1, <1>2, <1>5 DEF TypeOK
  <2>4. net' \subseteq [to : End, ping : pingStruct]
    BY <1>1, <1>4 DEF TypeOK
  <2> QED
    BY <1>1, <1>3, <1>4, <2>1, <2>2, <2>3, <2>4 DEF TypeOK
<1>14. ASSUME NEW ping, ping.TXTime \in Nat, NEW to \in End, PingOK(to, ping)
       PROVE  PingOK(to, ping)'
  <2>1. /\ ping.TXTime <= now /\ ping.ID = PingID(Stamps(to)[ping.TXTime])
    BY <1>14 DEF PingOK
  <2>2. ASSUME to = "us"
        PROVE  SnapOK(ping.LastAcks, handled'["peer"], overtaken'["peer"], Stamps("peer"), now,
                      ping.TXTime, quiet - (now - ping.TXTime))
    <3>1. SnapOK(ping.LastAcks, handled["peer"], overtaken["peer"], Stamps("peer"), now,
                 ping.TXTime, quiet - (now - ping.TXTime))
      BY <1>14, <2>2 DEF PingOK
    <3>2. CASE p.to = "peer"
      <4>1. /\ handled["peer"] \subseteq Nat /\ overtaken["peer"] \in Nat
            /\ overtaken["peer"] <= now
        BY <1>1, Types DEF RingsOK, RingOK, End
      <4>2. quiet - (now - ping.TXTime) \in Int
        BY <1>2, <1>14
      <4>3. handled'["peer"] = handled["peer"] \cup {p.ping.TXTime}
        BY <1>6, <1>10, <3>2
      <4>4. overtaken'["peer"] = IF \E t \in handled["peer"] : t >= p.ping.TXTime
                                  THEN now ELSE overtaken["peer"]
        BY <1>6, <1>10, <3>2
      <4> QED
        BY <1>2, <3>1, <4>1, <4>2, <4>3, <4>4, SnapPush
    <3>3. CASE p.to # "peer"
      BY <1>11, <3>1, <3>3 DEF End
    <3> QED
      BY <3>2, <3>3
  <2>3. Stamps("peer")' = Stamps("peer") /\ Stamps(to)' = Stamps(to)
    BY <1>9 DEF End
  <2> QED
    BY <1>3, <2>1, <2>2, <2>3 DEF PingOK
<1>15. NetOK'
  <2>1. ASSUME NEW r \in net' PROVE PingOK(r.to, r.ping)'
    <3>1. r \in net /\ r.to \in End /\ r.ping.TXTime \in Nat /\ PingOK(r.to, r.ping)
      BY <1>1, <1>4, Types DEF NetOK
    <3> QED
      BY <1>14, <3>1
  <2> QED
    BY <2>1 DEF NetOK
<1>16. PublishedOK'
  <2>1. CASE p.to = "us"
    <3>1. PingOK("us", p.ping)'
      BY <1>2, <1>7, <1>14, <2>1
    <3>2. /\ Len(LastAcks'["us"]) >= 1
          /\ LastAcks'["us"][Len(LastAcks'["us"])] = a
      <4>1. LastAcks[p.to] \in Seq(pingInfo) /\ Len(LastAcks[p.to]) <= Slots
        BY <1>1, <1>2, Types
      <4>2. /\ Len(Push(LastAcks[p.to], a)) >= 1
            /\ Push(LastAcks[p.to], a)[Len(Push(LastAcks[p.to], a))] = a
        BY <1>6, <4>1, PushShape
      <4> QED
        BY <1>10, <2>1, <4>2
    <3> QED
      BY <1>2, <1>5, <1>6, <2>1, <3>1, <3>2 DEF PublishedOK
  <2>2. CASE p.to # "us"
    <3>1. LastRXPing' = LastRXPing /\ LastAcks'["us"] = LastAcks["us"]
      BY <1>5, <1>11, <2>2 DEF End
    <3>2. CASE LastRXPing = NoPing /\ LastAcks["us"] = <<>>
      BY <3>1, <3>2 DEF PublishedOK, NoPing
    <3>3. ASSUME NEW c \in pingStruct, c = LastRXPing, PingOK("us", c) PROVE PingOK("us", LastRXPing)'
      <4>1. c.TXTime \in Nat
        BY Numbers DEF pingStruct
      <4>2. PingOK("us", c)'
        BY <1>14, <3>3, <4>1 DEF End
      <4> QED
        BY <3>1, <3>3, <4>2
    <3>4. CASE ~(LastRXPing = NoPing /\ LastAcks["us"] = <<>>)
      <4>1. /\ LastRXPing \in pingStruct /\ PingOK("us", LastRXPing)
            /\ Len(LastAcks["us"]) >= 1
            /\ LastAcks["us"][Len(LastAcks["us"])].TX = LastRXPing.TXTime
        BY <1>1, <3>4 DEF PublishedOK
      <4>2. PingOK("us", LastRXPing)'
        BY <3>3, <4>1
      <4> QED
        BY <3>1, <4>1, <4>2 DEF PublishedOK
    <3> QED
      BY <3>2, <3>4
  <2> QED
    BY <2>1, <2>2
<1>17. (LastRX <= now)'
  BY <1>1, <1>2, <1>3, <1>5
<1>18. SentOK' /\ AfterOK'
  <2>1. ASSUME NEW e \in End, e \notin sent PROVE Unsent(e)'
    <3>1. Unsent(e)
      BY <1>1, <2>1 DEF SentOK
    <3>2. Other(e) = p.to => now # p.ping.TXTime
      BY <3>1 DEF Unsent
    <3>3. now \notin handled'[Other(e)]
      <4>1. Other(e) \in End
        BY DEF Other, End
      <4>2. CASE Other(e) = p.to
        BY <1>6, <1>10, <3>1, <3>2, <4>2 DEF Unsent
      <4>3. CASE Other(e) # p.to
        BY <1>11, <3>1, <4>1, <4>3 DEF Unsent
      <4> QED
        BY <4>2, <4>3
    <3> QED
      BY <1>3, <1>4, <3>1, <3>3 DEF Unsent
  <2> QED
    BY <1>1, <1>3, <2>1 DEF SentOK, AfterOK
<1> QED
  BY <1>4, <1>12, <1>13, <1>15, <1>16, <1>17, <1>18 DEF XInv

(* An end's own clock turns.                                               *)
LEMMA TurnStep ==
  ASSUME XInv, NEW e \in End, TurnClock(e)
  PROVE  XInv'
<1>1. /\ turned' = [turned EXCEPT ![e] = TRUE] /\ clock[e].split
      /\ UNCHANGED <<now, clock, sent, net, faults, LastAcks, LastRX, LastRXPing, handled, after, overtaken, quiet>>
  BY DEF TurnClock, sessionVars
<1>2. TypeOK'
  <2>1. turned' \in [End -> BOOLEAN] /\ \A d \in End : turned'[d] => clock[d].split
    BY <1>1, Zenon DEF XInv, TypeOK
  <2> QED
    BY <1>1, <2>1 DEF XInv, TypeOK
<1>3. IsFiniteSet(net)' /\ (LastRX <= now)' /\ SentOK' /\ AfterOK'
  BY <1>1 DEF XInv, SentOK, Unsent, AfterOK
<1>4. \A d \in End : Stamps(d)' = Stamps(d)
  BY <1>1 DEF Stamps, Stamp
<1>5. RingsOK'
  BY <1>1, <1>4 DEF XInv, RingsOK
<1>6. ASSUME NEW to \in End, NEW ping, PingOK(to, ping) PROVE PingOK(to, ping)'
  <2>1. Stamps("peer")' = Stamps("peer") /\ Stamps(to)' = Stamps(to)
    BY <1>4 DEF End
  <2> QED
    BY <1>1, <1>6, <2>1 DEF PingOK
<1>7. NetOK'
  <2>1. ASSUME NEW p \in net PROVE PingOK(p.to, p.ping)'
    <3>1. p.to \in End /\ PingOK(p.to, p.ping)
      BY Types DEF XInv, NetOK
    <3> QED
      BY <1>6, <3>1
  <2> QED
    BY <1>1, <2>1 DEF NetOK
<1>8. PublishedOK'
  <2>1. PublishedOK /\ "us" \in End
    BY DEF XInv, End
  <2> QED
    BY <1>1, <1>6, <2>1 DEF PublishedOK
<1> QED
  BY <1>2, <1>3, <1>5, <1>7, <1>8 DEF XInv

(* The next second.                                                        *)
LEMMA TickStep ==
  ASSUME XInv, Tick
  PROVE  XInv'
<1>1. /\ TypeOK /\ IsFiniteSet(net) /\ LastRX <= now /\ SentOK /\ AfterOK
      /\ RingsOK /\ NetOK /\ PublishedOK
  BY DEF XInv
<1>2. now \in Second /\ now \in Nat /\ quiet \in Nat
  BY <1>1, Types
<1>3. /\ now' = now + 1 /\ sent' = {} /\ net' \subseteq net
      /\ quiet' = IF GoodSecond THEN quiet + 1 ELSE 0
      /\ clock' = clock /\ after' = after /\ turned' = [e \in End |-> FALSE]
      /\ LastAcks' = LastAcks /\ LastRX' = LastRX /\ LastRXPing' = LastRXPing
      /\ handled' = handled /\ overtaken' = overtaken
  BY DEF Tick, sessionVars
<1>4. IsFiniteSet(net')
  BY <1>1, <1>3, FS_Subset
<1>5. now' \in Second
  BY <1>2, <1>3, BoundAssumption DEF Tick, Second
<1>6. faults' \in 0 .. MaxFaults
  <2> DEFINE late == {p \in net : p.ping.TXTime = now}
  <2>1. Cardinality(late) \in Nat
    <3>1. late \subseteq net
      OBVIOUS
    <3>2. IsFiniteSet(late)
      BY <1>1, <3>1, FS_Subset
    <3> QED
      BY <3>2, FS_CardinalityType
  <2>2. faults + Cardinality(late) <= MaxFaults /\ faults' = faults + Cardinality(late)
    BY DEF Tick
  <2>3. faults \in 0 .. MaxFaults /\ MaxFaults \in Nat
    BY <1>1, BoundAssumption DEF TypeOK
  <2> HIDE DEF late
  <2> QED
    BY <2>1, <2>2, <2>3
<1>7. quiet' \in Nat /\ (quiet' = 0 \/ (GoodSecond /\ quiet' = quiet + 1))
  BY <1>2, <1>3
<1>8. TypeOK'
  <2>1. turned' \in [End -> BOOLEAN] /\ \A e \in End : ~turned'[e]
    BY <1>3, Zenon
  <2> QED
    BY <1>1, <1>3, <1>5, <1>6, <1>7, <2>1 DEF TypeOK
<1>9. \A e \in End : Stamps(e)' = Stamps(e)
  BY <1>3 DEF Stamps, Stamp
<1>10. ASSUME NEW e \in End, GoodSecond PROVE \E k \in DOMAIN LastAcks[e] : Closes(LastAcks[e], now, k)
  BY <1>10 DEF GoodSecond, Closes
<1>11. RingsOK'
  <2>1. ASSUME NEW e \in End
        PROVE  RingOK(LastAcks[e], handled[e], overtaken[e], Stamps(e), now', quiet')
    <3>1. RingOK(LastAcks[e], handled[e], overtaken[e], Stamps(e), now, quiet)
      BY <1>1 DEF RingsOK
    <3>2. CASE quiet' = 0
      BY <1>2, <1>3, <1>9, <3>1, <3>2, TickRing
    <3>3. CASE GoodSecond /\ quiet' = quiet + 1
      <4>1. RingOK(LastAcks[e], handled[e], overtaken[e], Stamps(e), now + 1, quiet + 1)
        BY <1>2, <1>9, <1>10, <3>1, <3>3, TickRing
      <4> QED
        BY <1>3, <3>3, <4>1
    <3> QED
      BY <1>7, <3>2, <3>3
  <2> QED
    BY <1>3, <1>9, <2>1 DEF RingsOK
<1>12. GoodSecond => overtaken["peer"] < now
  <2>1. RingOK(LastAcks["peer"], handled["peer"], overtaken["peer"], Stamps("peer"), now, quiet)
    BY <1>1 DEF RingsOK, End
  <2> QED
    BY <1>2, <1>9, <1>10, <2>1, GoodEnd DEF End
<1>13. ASSUME NEW ping, ping.TXTime \in Nat, NEW to \in End, PingOK(to, ping)
       PROVE  PingOK(to, ping)'
  <2>1. ping.TXTime <= now /\ ping.ID = PingID(Stamps(to)[ping.TXTime])
    BY <1>13 DEF PingOK
  <2>2. ping.TXTime <= now'
    BY <1>2, <1>3, <1>13, <2>1
  <2>3. ASSUME to = "us"
        PROVE  SnapOK(ping.LastAcks, handled["peer"], overtaken["peer"], Stamps("peer"), now',
                      ping.TXTime, quiet' - (now' - ping.TXTime))
    <3>1. SnapOK(ping.LastAcks, handled["peer"], overtaken["peer"], Stamps("peer"), now,
                 ping.TXTime, quiet - (now - ping.TXTime))
      BY <1>13, <2>3 DEF PingOK
    <3>2. PICK g \in Int, h \in Int : /\ g = quiet - (now - ping.TXTime)
                                      /\ h = quiet' - (now' - ping.TXTime)
      BY <1>2, <1>3, <1>7, <1>13
    <3>3. (h = g /\ overtaken["peer"] < now) \/ h <= 0
      <4>1. CASE quiet' = 0
        BY <1>2, <1>3, <1>13, <2>1, <3>2, <4>1
      <4>2. CASE GoodSecond /\ quiet' = quiet + 1
        BY <1>2, <1>3, <1>12, <1>13, <3>2, <4>2
      <4> QED
        BY <1>7, <4>1, <4>2
    <3>4. overtaken["peer"] \in Nat
      BY <1>1, Types DEF End
    <3>5. SnapOK(ping.LastAcks, handled["peer"], overtaken["peer"], Stamps("peer"), now + 1, ping.TXTime, h)
      BY <1>2, <3>1, <3>2, <3>3, <3>4, SnapTick
    <3> QED
      BY <1>3, <3>2, <3>5
  <2>4. Stamps("peer")' = Stamps("peer") /\ Stamps(to)' = Stamps(to)
    BY <1>9 DEF End
  <2> QED
    BY <1>3, <2>1, <2>2, <2>3, <2>4 DEF PingOK
<1>14. NetOK'
  <2>1. ASSUME NEW r \in net' PROVE PingOK(r.to, r.ping)'
    <3>1. r \in net /\ r.to \in End /\ r.ping.TXTime \in Nat /\ PingOK(r.to, r.ping)
      BY <1>1, <1>3, Types DEF NetOK
    <3> QED
      BY <1>13, <3>1
  <2> QED
    BY <2>1 DEF NetOK
<1>15. PublishedOK'
  <2>1. CASE LastRXPing = NoPing /\ LastAcks["us"] = <<>>
    BY <1>3, <2>1 DEF PublishedOK, NoPing
  <2>2. ASSUME NEW c \in pingStruct, c = LastRXPing, PingOK("us", c) PROVE PingOK("us", LastRXPing)'
    <3>1. c.TXTime \in Nat
      BY Numbers DEF pingStruct
    <3>2. PingOK("us", c)'
      BY <1>13, <2>2, <3>1 DEF End
    <3> QED
      BY <1>3, <2>2, <3>2
  <2>3. CASE ~(LastRXPing = NoPing /\ LastAcks["us"] = <<>>)
    <3>1. /\ LastRXPing \in pingStruct /\ PingOK("us", LastRXPing)
          /\ Len(LastAcks["us"]) >= 1
          /\ LastAcks["us"][Len(LastAcks["us"])].TX = LastRXPing.TXTime
      BY <1>1, <2>3 DEF PublishedOK
    <3>2. PingOK("us", LastRXPing)'
      BY <2>2, <3>1
    <3> QED
      BY <1>3, <3>1, <3>2 DEF PublishedOK
  <2> QED
    BY <2>1, <2>3
<1>16. (LastRX <= now)'
  <2>1. LastRX \in Nat
    BY <1>1, Numbers DEF TypeOK
  <2> QED
    BY <1>1, <1>2, <1>3, <2>1
<1>17. SentOK' /\ AfterOK'
  <2>1. ASSUME NEW e \in End PROVE Unsent(e)'
    <3>1. Other(e) \in End
      BY DEF Other, End
    <3>2. \A u \in handled[Other(e)] : u <= now
      BY <1>1, <3>1 DEF RingsOK, RingOK
    <3>3. \A u \in after[e] : u <= now
      BY <1>1 DEF AfterOK
    <3>4. \A p \in net : p.ping.TXTime <= now
      BY <1>1 DEF NetOK, PingOK
    <3>5. ~(now + 1 <= now)
      BY <1>2
    <3> QED
      BY <1>3, <3>2, <3>3, <3>4, <3>5 DEF Unsent
  <2>2. ASSUME NEW e \in End, NEW u \in after[e] PROVE u <= now + 1 /\ clock[e].split
    <3>1. u \in Nat /\ u <= now /\ clock[e].split
      BY <1>1, Types, Numbers DEF AfterOK
    <3> QED
      BY <1>2, <3>1
  <2> QED
    BY <1>3, <2>1, <2>2 DEF SentOK, AfterOK
<1> QED
  BY <1>4, <1>8, <1>11, <1>14, <1>15, <1>16, <1>17 DEF XInv

(* The exchange keeps its invariant: whatever the network loses, repeats,  *)
(* delays or reorders.                                                     *)
THEOREM ExchangeInvariant == Spec => []XInv
<1>1. XInv /\ [Next]_vars => XInv'
  <2> SUFFICES ASSUME XInv, [Next]_vars PROVE XInv'
    OBVIOUS
  <2>1. CASE Tick
    BY <2>1, TickStep
  <2>2. ASSUME NEW e \in End, TurnClock(e) \/ SendPing(e) PROVE XInv'
    BY <2>2, SendStep, TurnStep
  <2>3. ASSUME NEW p \in net, handlePacket(p) PROVE XInv'
    BY <2>3, HandleStep
  <2>4. CASE UNCHANGED vars
    <3>1. UNCHANGED <<now, clock, turned, sent, net, faults, LastAcks, LastRX, LastRXPing,
                     handled, after, overtaken, quiet>>
      BY <2>4 DEF vars, clockVars, sessionVars
    <3>2. TypeOK' /\ IsFiniteSet(net)' /\ (LastRX <= now)'
      BY <3>1 DEF XInv, TypeOK
    <3>3. RingsOK'
      BY <3>1 DEF XInv, RingsOK, Stamps, Stamp
    <3>4. NetOK' /\ PublishedOK'
      BY <3>1 DEF XInv, NetOK, PublishedOK, PingOK, Stamps, Stamp
    <3>5. SentOK' /\ AfterOK'
      BY <3>1 DEF XInv, SentOK, Unsent, AfterOK
    <3> QED
      BY <3>2, <3>3, <3>4, <3>5 DEF XInv
  <2> QED
    BY <2>1, <2>2, <2>3, <2>4 DEF Next
<1> QED
  BY InitX, <1>1, PTL DEF Spec

(* Type correctness: the rings of handlePacket never outgrow their slots,  *)
(* and what is in them and in the pings are acks of seconds that were.     *)
THEOREM TypeCorrect == Spec => []TypeOK
<1>1. XInv => TypeOK
  BY DEF XInv
<1> QED
  BY ExchangeInvariant, <1>1, PTL

-----------------------------------------------------------------------------
(* Ids and what getLoss counts.                                            *)

(* Two seconds less than a cycle apart have different ids.                 *)
LEMMA SameID ==
  ASSUME NEW x \in Int, NEW t \in Int, PingID(x) = PingID(t),
         x - t < Cycle, t - x < Cycle
  PROVE  x = t
<1>1. Cycle \in Nat /\ Cycle > 0
  <2>1. Cycle \in Nat /\ Slots \in Nat /\ 1 < Slots /\ Slots < Cycle
    BY Numbers
  <2> HIDE DEF Cycle
  <2> QED
    BY <2>1
<1>2. PICK c \in Nat : c = Cycle /\ c > 0
  BY <1>1
<1>3. \A y \in Int : y % c \in 0 .. c - 1 /\ y \div c \in Int /\ y = c * (y \div c) + (y % c)
  BY <1>2
<1>4. x % c = t % c
  <2>1. x % c \in Int /\ t % c \in Int
    BY <1>2
  <2>2. (x % c) + 1 = (t % c) + 1
    BY <1>2 DEF PingID
  <2> QED
    BY <2>1, <2>2
<1>5. PICK q \in Int, r \in Int, i \in Int : x = c * q + i /\ t = c * r + i
  <2>1. x = c * (x \div c) + (x % c) /\ x \div c \in Int /\ x % c \in Int
    BY <1>2, <1>3
  <2>2. t = c * (t \div c) + (x % c) /\ t \div c \in Int
    BY <1>2, <1>3, <1>4
  <2> QED
    BY <2>1, <2>2, Zenon
<1>6. ~(q >= r + 1) /\ ~(r >= q + 1)
  <2>1. \A u, v \in Int : u >= v + 1 => c * u >= c * v + c
    BY <1>2
  <2> QED
    BY <1>2, <1>5, <2>1
<1>7. q = r
  BY <1>6
<1> QED
  BY <1>5, <1>7

(* The window of a search in seconds.                                      *)
LEMMA WindowShape ==
  ASSUME Tip \in Int
  PROVE  /\ Reach(Tip) \in Nat /\ Reach(Tip) <= Slots - 1
         /\ Window = Tip - Reach(Tip) .. Tip - 1
         /\ Searched(Tip) = {PingID(t) : t \in Window}
<1>1. Slots \in Nat /\ 1 < Slots
  BY Numbers
<1>2. Reach(Tip) \in Nat /\ Reach(Tip) <= Slots - 1
  BY <1>1 DEF Reach
<1>3. PICK r \in Nat : r = Reach(Tip)
  BY <1>2
<1>4. {Tip - k : k \in 1 .. r} = Tip - r .. Tip - 1
  <2>1. ASSUME NEW t \in Tip - r .. Tip - 1 PROVE \E k \in 1 .. r : t = Tip - k
    <3>1. Tip - t \in 1 .. r /\ t = Tip - (Tip - t)
      BY <1>3
    <3> QED
      BY <3>1
  <2>2. ASSUME NEW k \in 1 .. r PROVE Tip - k \in Tip - r .. Tip - 1
    BY <1>3
  <2> QED
    BY <2>1, <2>2
<1>5. Searched(Tip) = {PingID(t) : t \in Window}
  BY DEF Searched, Window
<1> QED
  BY <1>2, <1>3, <1>4, <1>5 DEF Window

(* The ids of a set of seconds, by a clock so many ahead, that holds every *)
(* second of the window without an ack: no more are missing.               *)
LEMMA MissingShifted ==
  ASSUME Tip \in Int, NEW acks, NEW U, IsFiniteSet(U), NEW a \in Int,
         \A t \in Window : t - a \in U \/ \E k \in DOMAIN acks : acks[k].ID = PingID(t)
  PROVE  /\ IsFiniteSet({id \in Searched(Tip) : \A k \in DOMAIN acks : acks[k].ID # id})
         /\ Missing(acks) \in Nat /\ Missing(acks) <= Cardinality(U)
<1> DEFINE M == {id \in Searched(Tip) : \A k \in DOMAIN acks : acks[k].ID # id}
           V == {t \in U : PingID(t + a) \in M}
           f == [t \in V |-> PingID(t + a)]
<1>1. IsFiniteSet(V) /\ Cardinality(V) <= Cardinality(U)
  BY FS_Subset
<1>2. f \in Surjection(V, M)
  <2>1. f \in [V -> M]
    OBVIOUS
  <2>2. ASSUME NEW id \in M PROVE \E t \in V : f[t] = id
    <3>1. PICK t \in Window : PingID(t) = id
      BY WindowShape
    <3>2. t - a \in U
      BY <3>1
    <3>3. (t - a) + a = t
      <4>1. Reach(Tip) \in Nat /\ t \in Tip - Reach(Tip) .. Tip - 1
        BY WindowShape
      <4> QED
        BY <4>1
    <3> QED
      BY <3>1, <3>2, <3>3
  <2> QED
    BY <2>1, <2>2 DEF Surjection
<1> HIDE DEF M, V, f
<1>3. IsFiniteSet(M) /\ Cardinality(M) <= Cardinality(V)
  BY <1>1, <1>2, FS_Surjection
<1>4. Cardinality(M) \in Nat /\ Cardinality(V) \in Nat /\ Cardinality(U) \in Nat
  BY <1>1, <1>3, FS_CardinalityType
<1>5. Cardinality(M) <= Cardinality(U)
  BY <1>1, <1>3, <1>4
<1> QED
  BY <1>3, <1>4, <1>5 DEF Missing, M

LEMMA MissingAtMost ==
  ASSUME Tip \in Int, NEW acks, NEW U, IsFiniteSet(U),
         \A t \in Window : t \in U \/ \E k \in DOMAIN acks : acks[k].ID = PingID(t)
  PROVE  /\ IsFiniteSet({id \in Searched(Tip) : \A k \in DOMAIN acks : acks[k].ID # id})
         /\ Missing(acks) \in Nat /\ Missing(acks) <= Cardinality(U)
<1>0. PICK z \in Int : z = 0
  OBVIOUS
<1>1. ASSUME NEW t \in Window PROVE t - z = t
  <2>1. Reach(Tip) \in Nat /\ t \in Tip - Reach(Tip) .. Tip - 1
    BY WindowShape
  <2> QED
    BY <1>0, <2>1
<1>2. \A t \in Window : t - z \in U \/ \E k \in DOMAIN acks : acks[k].ID = PingID(t)
  BY <1>1
<1> QED
  BY <1>2, MissingShifted

(* Seconds of the window of which no ack has the id: so many are missing.  *)
LEMMA MissingAtLeast ==
  ASSUME Tip \in Int, NEW acks, NEW L \in SUBSET Window,
         \A t \in L : \A k \in DOMAIN acks : acks[k].ID # PingID(t)
  PROVE  Missing(acks) >= Cardinality(L)
<1> DEFINE M == {id \in Searched(Tip) : \A k \in DOMAIN acks : acks[k].ID # id}
           f == [t \in L |-> PingID(t)]
<1>1. /\ Reach(Tip) \in Nat /\ Reach(Tip) <= Slots - 1
      /\ Window = Tip - Reach(Tip) .. Tip - 1
      /\ Searched(Tip) = {PingID(t) : t \in Window}
  BY WindowShape
<1>2. Slots \in Nat /\ Slots < Cycle /\ Cycle \in Nat
  BY Numbers
<1>3. IsFiniteSet(Window)
  BY <1>1, FS_Interval
<1>4. IsFiniteSet(M) /\ Missing(acks) \in Nat
  BY <1>3, MissingAtMost
<1>5. f \in Injection(L, M)
  <2>1. ASSUME NEW t \in L PROVE PingID(t) \in M
    BY <1>1
  <2>2. ASSUME NEW s \in L, NEW t \in L, PingID(s) = PingID(t) PROVE s = t
    <3>1. s \in Int /\ t \in Int /\ s - t < Cycle /\ t - s < Cycle
      <4>1. s \in Tip - Reach(Tip) .. Tip - 1 /\ t \in Tip - Reach(Tip) .. Tip - 1
        BY <1>1
      <4> HIDE DEF Cycle
      <4> QED
        BY <1>1, <1>2, <4>1
    <3> QED
      BY <2>2, <3>1, SameID
  <2>3. f \in [L -> M] /\ \A t \in L : f[t] = PingID(t)
    BY <2>1
  <2> HIDE DEF f, M
  <2> QED
    BY <2>2, <2>3 DEF Injection, IsInjective
<1> HIDE DEF M, f
<1>6. Cardinality(L) <= Cardinality(M) /\ IsFiniteSet(L)
  BY <1>4, <1>5, FS_Injection
<1>7. Cardinality(L) \in Nat /\ Cardinality(M) = Missing(acks)
  BY <1>6, FS_CardinalityType DEF Missing, M
<1> QED
  BY <1>4, <1>6, <1>7

(* A full ring in order reaches back as many seconds as it has slots.      *)
LEMMA OldestOfFull ==
  ASSUME NEW R \in Seq(pingInfo), Len(R) = Slots, NEW o, Spaced(R, o), NEW n \in Nat,
         o < R[1].RX, \A k \in 1 .. Len(R) : R[k].TX <= n
  PROVE  R[1].TX <= n - Slots + 1
<1>1. Slots \in Nat /\ 1 < Slots
  BY Numbers
<1>2. 1 \in 1 .. Len(R) /\ Len(R) \in 1 .. Len(R) /\ 1 < Len(R)
  BY <1>1
<1>3. R[Len(R)].TX - R[1].TX >= Len(R) - 1
  BY <1>2 DEF Spaced
<1>4. R[1].TX \in Nat /\ R[Len(R)].TX \in Nat /\ R[Len(R)].TX <= n
  BY <1>2, AckNumbers
<1>5. \A x, y, l \in Nat : x - y >= l - 1 /\ x <= n => y <= n - l + 1
  OBVIOUS
<1> QED
  BY <1>1, <1>3, <1>4, <1>5

-----------------------------------------------------------------------------
(* The properties of the statistics.                                       *)

(* The clocks: the second of the search, and what a ping handled is        *)
(* stamped with.                                                           *)
LEMMA Clocked ==
  ASSUME XInv
  PROVE  /\ now \in Nat /\ quiet \in Nat
         /\ clock["us"].ahead \in Int /\ clock["peer"].ahead \in Int
         /\ One(turned["us"]) \in 0 .. 1
         /\ Tip \in Int /\ Tip = now + clock["us"].ahead + One(turned["us"])
         /\ \A e \in End : One(clock[e].split) \in 0 .. 1 /\ Lead(e) \in Int
<1>1. /\ now \in Nat /\ quiet \in Nat
      /\ \A e \in End : clock[e].ahead \in Int /\ "us" \in End /\ "peer" \in End
  BY Types DEF XInv, End
<1>2. \A b : One(b) \in 0 .. 1
  BY DEF One
<1>3. Tip = now + clock["us"].ahead + One(turned["us"])
  BY DEF Tip, SystemSecond
<1>4. \A e \in End : Lead(e) \in Int
  BY <1>1, <1>2 DEF Lead
<1>5. Tip \in Int
  BY <1>1, <1>2, <1>3
<1> QED
  BY <1>1, <1>2, <1>3, <1>4, <1>5 DEF End

LEMMA Stamped ==
  ASSUME XInv, NEW e \in End, NEW s \in Second
  PROVE  /\ Stamps(e)[s] = Stamp(Other(e), s) /\ Stamp(Other(e), s) \in Int
         /\ Stamp(Other(e), s) <= s + clock[Other(e)].ahead + One(clock[Other(e)].split)
         /\ s \notin after[Other(e)] => Stamp(Other(e), s) = s + clock[Other(e)].ahead
<1>1. Other(e) \in End
  BY DEF Other, End
<1>2. clock[Other(e)].ahead \in Int /\ s \in Nat
  BY <1>1, Types, Numbers DEF XInv
<1>3. PICK a \in Int : a = clock[Other(e)].ahead
  BY <1>2
<1>4. s \in after[Other(e)] => clock[Other(e)].split
  BY <1>1 DEF XInv, AfterOK
<1>5. One(s \in after[Other(e)]) \in 0 .. 1 /\ One(s \in after[Other(e)]) <= One(clock[Other(e)].split)
  BY <1>4 DEF One
<1>6. s \notin after[Other(e)] => One(s \in after[Other(e)]) = 0
  BY DEF One
<1>7. One(clock[Other(e)].split) \in 0 .. 1
  BY DEF One
<1>8. Stamps(e)[s] = Stamp(Other(e), s) /\ Stamp(Other(e), s) = s + a + One(s \in after[Other(e)])
  BY <1>3 DEF Stamps, Stamp
<1>9. PICK i \in 0 .. 1 : i = One(s \in after[Other(e)])
  BY <1>5
<1>10. PICK j \in 0 .. 1 : j = One(clock[Other(e)].split)
  BY <1>7
<1> QED
  BY <1>2, <1>3, <1>5, <1>6, <1>8, <1>9, <1>10

(* A second no ping handled is stamped with has no ack with its id.        *)
LEMMA UnhandledIsMissing ==
  ASSUME XInv, NEW e \in End, NEW R \in Seq(pingInfo), NEW T,
         Acks(R, handled[e], Stamps(e), T), ~Aliased(R, Other(e)),
         NEW L \in SUBSET Window, \A t \in L : \A s \in handled[e] : Stamp(Other(e), s) # t
  PROVE  Missing(R) >= Cardinality(L)
<1>0. Tip \in Int
  BY Clocked
<1>1. ASSUME NEW t \in L, NEW k \in DOMAIN R, R[k].ID = PingID(t) PROVE FALSE
  <2>1. k \in 1 .. Len(R) /\ R[k].TX \in Second
    BY AckNumbers
  <2>2. R[k].ID = PingID(Stamps(e)[R[k].TX]) /\ R[k].TX \in handled[e]
    BY <2>1 DEF Acks
  <2>3. Stamp(Other(e), R[k].TX) \in Tip - Cycle .. Tip + Cycle - Slots
    BY DEF Aliased
  <2>4. /\ Reach(Tip) \in Nat /\ Reach(Tip) <= Slots - 1
        /\ t \in Tip - Reach(Tip) .. Tip - 1
    BY <1>0, WindowShape
  <2>5. PICK x \in Int : x = Stamp(Other(e), R[k].TX) /\ x = Stamps(e)[R[k].TX]
    BY <2>1, Stamped
  <2>6. t \in Int /\ x - t < Cycle /\ t - x < Cycle
    <3>1. Cycle \in Nat /\ Slots \in Nat
      BY Numbers
    <3> HIDE DEF Cycle
    <3> QED
      BY <1>0, <2>3, <2>4, <2>5, <3>1
  <2>7. x = t
    BY <1>1, <2>2, <2>5, <2>6, SameID
  <2> QED
    BY <2>2, <2>5, <2>7
<1> QED
  BY <1>0, <1>1, MissingAtLeast

(* Once our ring is full a ping has been published.                        *)
LEMMA PublishedWhenFull ==
  ASSUME XInv, Len(LastAcks["us"]) >= 1
  PROVE  /\ LastRXPing \in pingStruct /\ PingOK("us", LastRXPing)
         /\ LastRXPing.LastAcks \in Seq(pingInfo) /\ LastRXPing.TXTime \in Nat
         /\ LastRXPing.TXTime <= now
         /\ SnapOK(LastRXPing.LastAcks, handled["peer"], overtaken["peer"], Stamps("peer"), now,
                   LastRXPing.TXTime, quiet - (now - LastRXPing.TXTime))
         /\ LastAcks["us"][Len(LastAcks["us"])].TX = LastRXPing.TXTime
<1>1. LastAcks["us"] # <<>>
  OBVIOUS
<1>2. /\ LastRXPing \in pingStruct /\ PingOK("us", LastRXPing)
      /\ LastAcks["us"][Len(LastAcks["us"])].TX = LastRXPing.TXTime
  BY <1>1 DEF XInv, PublishedOK
<1>3. LastRXPing.LastAcks \in Seq(pingInfo) /\ LastRXPing.TXTime \in Nat
  BY <1>2, Numbers DEF pingStruct
<1> QED
  BY <1>2, <1>3 DEF PingOK

(* getLoss counts every second of the window of which no ping was handled. *)
LEMMA NotHidden ==
  ASSUME XInv
  PROVE  LossNotHidden
<1> SUFFICES ASSUME Reporting
             PROVE  /\ ~Aliased(LastAcks["us"], "peer") => RXLoss >= Cardinality(LostRX)
                    /\ ~Aliased(LastRXPing.LastAcks, "us") => TXLoss >= Cardinality(LostTX)
  BY DEF LossNotHidden
<1>1. /\ LastAcks["us"] \in Seq(pingInfo)
      /\ "us" \in End /\ "peer" \in End /\ Other("us") = "peer" /\ Other("peer") = "us"
  BY Types DEF XInv, End, Other
<1>2. RXLoss = Missing(LastAcks["us"]) /\ TXLoss = Missing(LastRXPing.LastAcks)
  BY DEF RXLoss, TXLoss
<1>3. ASSUME ~Aliased(LastAcks["us"], "peer") PROVE RXLoss >= Cardinality(LostRX)
  <2>1. Acks(LastAcks["us"], handled["us"], Stamps("us"), now)
    BY <1>1 DEF XInv, RingsOK, RingOK
  <2>2. LostRX \in SUBSET Window /\ \A t \in LostRX : \A s \in handled["us"] : Stamp("peer", s) # t
    BY DEF LostRX
  <2> QED
    BY <1>1, <1>2, <1>3, <2>1, <2>2, UnhandledIsMissing
<1>4. ASSUME ~Aliased(LastRXPing.LastAcks, "us") PROVE TXLoss >= Cardinality(LostTX)
  <2>1. Len(LastAcks["us"]) >= 1
    BY Numbers DEF Reporting
  <2>2. /\ LastRXPing.LastAcks \in Seq(pingInfo)
        /\ Acks(LastRXPing.LastAcks, handled["peer"], Stamps("peer"), LastRXPing.TXTime)
    BY <2>1, PublishedWhenFull DEF SnapOK
  <2>3. LostTX \in SUBSET Window /\ \A t \in LostTX : \A s \in handled["peer"] : Stamp("us", s) # t
    BY DEF LostTX
  <2> QED
    BY <1>1, <1>2, <1>4, <2>2, <2>3, UnhandledIsMissing
<1> QED
  BY <1>3, <1>4

(* No loss is hidden: at any moment getStats counts every second of the    *)
(* window of which no ping arrived, for rings and ids of any size, clocks  *)
(* any time apart and any number of lost, repeated and reordered packets,  *)
(* unless an ack is a cycle of ids away.                                   *)
THEOREM NothingHidden == Spec => []LossNotHidden
BY ExchangeInvariant, NotHidden, PTL

(* After a good second the latencies are of the last two seconds.          *)
LEMMA Recovers ==
  ASSUME XInv
  PROVE  LatencyRecovers
<1> SUFFICES ASSUME quiet >= 1, \A e \in End : overtaken[e] < now
             PROVE  /\ LastRXPing.TXTime >= now - 1
                    /\ RXLatency <= now - LastRXPing.TXTime
                    /\ quiet >= 2 => LatestAcks # {} /\ \A a \in LatestAcks : a.TX >= LastRXPing.TXTime - 1
  BY DEF LatencyRecovers
<1>1. now \in Nat /\ now \in Second /\ quiet \in Nat
  BY Types DEF XInv
<1>2. /\ Len(LastAcks["us"]) >= 1
      /\ LastAcks["us"][Len(LastAcks["us"])].TX >= now - 1
  BY DEF XInv, RingsOK, RingOK, Fresh, End
<1> DEFINE T == LastRXPing.TXTime
           S == LastRXPing.LastAcks
<1>3. /\ T \in Nat /\ T <= now /\ T >= now - 1 /\ S \in Seq(pingInfo)
      /\ SnapOK(S, handled["peer"], overtaken["peer"], Stamps("peer"), now, T, quiet - (now - T))
  BY <1>2, PublishedWhenFull
<1>4. RXLatency <= now - T
  <2>1. LastRX \in Nat /\ LastRX <= now
    BY Numbers DEF XInv, TypeOK
  <2> HIDE DEF T
  <2>2. LastRX - T <= now - T
    BY <1>1, <1>3, <2>1
  <2> QED
    BY <2>2 DEF RXLatency, T
<1>5. ASSUME quiet >= 2
      PROVE  LatestAcks # {} /\ \A a \in LatestAcks : a.TX >= T - 1
  <2> DEFINE acks == {S[k] : k \in DOMAIN S}
  <2> HIDE DEF T, S
  <2>1. Len(S) >= 1 /\ S[Len(S)].TX >= T - 1
    <3>1. quiet - (now - T) >= 1
      BY <1>1, <1>3, <1>5
    <3>2. T = now => overtaken["peer"] < now
      BY DEF End
    <3> QED
      BY <1>3, <3>1, <3>2 DEF SnapOK
  <2>2. Len(S) \in DOMAIN S /\ \A k \in DOMAIN S : S[k] \in pingInfo /\ S[k].TX \in Nat /\ S[k].TX <= MaxSecond
    <3>1. Len(S) \in Nat /\ DOMAIN S = 1 .. Len(S)
      BY <1>3
    <3>2. \A k \in 1 .. Len(S) : S[k] \in pingInfo /\ S[k].TX \in Second /\ S[k].TX \in Nat
      BY <1>3, AckNumbers
    <3>3. \A t \in Second : t <= MaxSecond
      BY BoundAssumption DEF Second
    <3> QED
      BY <2>1, <3>1, <3>2, <3>3
  <2>3. PICK n \in DOMAIN S : \A k \in DOMAIN S : S[k].TX <= S[n].TX
    <3> DEFINE D == {MaxSecond - S[k].TX : k \in DOMAIN S}
    <3>1. D \in SUBSET Nat /\ D # {}
      BY <2>2, BoundAssumption
    <3>2. PICK d \in D : \A y \in D : ~(<<y, d>> \in OpToRel(<, Nat))
      BY <3>1, NatLessThanWellFounded, WFMin
    <3>3. PICK i \in DOMAIN S : d = MaxSecond - S[i].TX
      BY <3>2
    <3>4. ASSUME NEW k \in DOMAIN S PROVE S[k].TX <= S[i].TX
      <4>1. ~(MaxSecond - S[k].TX < MaxSecond - S[i].TX)
        <5>1. MaxSecond - S[k].TX \in D /\ MaxSecond - S[k].TX \in Nat /\ d \in Nat
          BY <3>1
        <5> QED
          BY <3>2, <3>3, <5>1 DEF OpToRel
      <4>2. S[k].TX \in Nat /\ S[i].TX \in Nat /\ MaxSecond \in Nat
        BY <2>2, BoundAssumption
      <4>3. \A x, y, z \in Nat : ~(z - x < z - y) => x <= y
        OBVIOUS
      <4> QED
        BY <4>1, <4>2, <4>3
    <3> QED
      BY <3>4
  <2>4. LatestAcks = {a \in acks : \A b \in acks : b.TX <= a.TX}
    BY DEF LatestAcks, S
  <2>5. S[n] \in LatestAcks
    BY <2>3, <2>4
  <2>6. ASSUME NEW a \in LatestAcks PROVE a.TX >= T - 1
    <3>1. PICK k \in DOMAIN S : a = S[k]
      BY <2>4
    <3>2. S[Len(S)].TX <= a.TX
      BY <2>2, <2>4
    <3>3. a.TX \in Nat /\ S[Len(S)].TX \in Nat
      BY <2>2, <3>1
    <3> QED
      BY <1>3, <2>1, <3>2, <3>3
  <2> QED
    BY <2>5, <2>6
<1> QED
  BY <1>3, <1>4, <1>5

(* Latency recovers: one good second after any faults, and what getStats   *)
(* reports is measured on pings of the last two seconds.                   *)
THEOREM Recovery == Spec => []LatencyRecovers
BY ExchangeInvariant, Recovers, PTL

(* The window is finite, and so is each of its parts.                      *)
LEMMA PartOfWindow ==
  ASSUME Tip \in Int, NEW L \in SUBSET Window
  PROVE  IsFiniteSet(L) /\ Cardinality(L) \in Nat
<1>1. IsFiniteSet(Window)
  BY WindowShape, FS_Interval
<1>2. IsFiniteSet(L)
  BY <1>1, FS_Subset
<1> QED
  BY <1>2, FS_CardinalityType

(* Two finite sets together have no more elements than both.               *)
LEMMA UnionAtMost ==
  ASSUME NEW A, IsFiniteSet(A), NEW B, IsFiniteSet(B)
  PROVE  IsFiniteSet(A \cup B) /\ Cardinality(A \cup B) <= Cardinality(A) + Cardinality(B)
<1>1. IsFiniteSet(A \cup B) /\ IsFiniteSet(A \cap B)
      /\ Cardinality(A \cup B) = Cardinality(A) + Cardinality(B) - Cardinality(A \cap B)
  <2>1. IsFiniteSet(A \cap B)
    BY FS_Subset
  <2> QED
    BY <2>1, FS_Union
<1>2. Cardinality(A) \in Nat /\ Cardinality(B) \in Nat /\ Cardinality(A \cap B) \in Nat
  BY <1>1, FS_CardinalityType
<1> QED
  BY <1>1, <1>2

(* A ping acked has its id in the ring.                                    *)
LEMMA AckedIsFound ==
  ASSUME NEW R \in Seq(pingInfo), NEW H, NEW st, NEW T, Acks(R, H, st, T),
         NEW s, Acked(R, s)
  PROVE  \E k \in DOMAIN R : R[k].ID = PingID(st[s])
<1>1. PICK k \in 1 .. Len(R) : R[k].TX = s
  BY DEF Acked
<1>2. R[k].ID = PingID(st[R[k].TX])
  BY DEF Acks
<1> QED
  BY <1>1, <1>2

(* What our full ring has, while it is in order: the pings handled of the  *)
(* last seconds, as many as it has slots.                                  *)
LEMMA OursKept ==
  ASSUME XInv, Reporting, InOrder("us", LastAcks["us"]), NEW s \in handled["us"]
  PROVE  \/ s <= now - Slots
         \/ \E k \in DOMAIN LastAcks["us"] : LastAcks["us"][k].ID = PingID(Stamp("peer", s))
<1> DEFINE R == LastAcks["us"]
<1>1. /\ now \in Nat /\ R \in Seq(pingInfo) /\ s \in Second /\ s \in Nat
      /\ "us" \in End /\ Other("us") = "peer"
  BY Types DEF XInv, End, Other
<1>2. RingOK(R, handled["us"], overtaken["us"], Stamps("us"), now, quiet)
  BY <1>1 DEF XInv, RingsOK
<1>3. Slots \in Nat /\ 1 < Slots /\ Len(R) = Slots
  BY Numbers DEF Reporting
<1>4. Stamps("us")[s] = Stamp("peer", s)
  BY <1>1, Stamped
<1>5. DOMAIN R = 1 .. Len(R) /\ \A k \in 1 .. Len(R) : overtaken["us"] < R[k].RX
  BY <1>1 DEF InOrder
<1> HIDE DEF R
<1>6. ASSUME ~Acked(R, s)
      PROVE  s <= now - Slots
  <2>1. 1 \in 1 .. Len(R)
    BY <1>3
  <2>2. s < R[1].TX
    BY <1>2, <1>5, <1>6, <2>1 DEF RingOK, Kept, Before
  <2>3. R[1].TX <= now - Slots + 1
    <3>1. Acks(R, handled["us"], Stamps("us"), now) /\ Spaced(R, overtaken["us"])
      BY <1>2 DEF RingOK
    <3>2. \A k \in 1 .. Len(R) : R[k].TX \in handled["us"] /\ R[k].TX <= now
      BY <1>2 DEF RingOK, Acks
    <3> QED
      BY <1>1, <1>3, <1>5, <2>1, <3>1, <3>2, OldestOfFull
  <2>4. PICK x \in Nat : x = R[1].TX
    BY <1>1, <2>1, AckNumbers
  <2> QED
    BY <1>1, <1>3, <2>2, <2>3, <2>4
<1>7. ASSUME Acked(R, s) PROVE \E k \in DOMAIN R : R[k].ID = PingID(Stamp("peer", s))
  <2>1. Acks(R, handled["us"], Stamps("us"), now)
    BY <1>2 DEF RingOK
  <2> QED
    BY <1>1, <1>4, <1>7, <2>1, AckedIsFound
<1> QED
  BY <1>6, <1>7 DEF R

(* What the peer's ring has, while it is in order: the same, but for pings *)
(* newer than the ring.                                                    *)
LEMMA TheirsKept ==
  ASSUME XInv, Reporting, InOrder("peer", LastRXPing.LastAcks), NEW s \in handled["peer"]
  PROVE  \/ s <= now - Slots
         \/ \A k \in DOMAIN LastRXPing.LastAcks : s > LastRXPing.LastAcks[k].TX
         \/ \E k \in DOMAIN LastRXPing.LastAcks :
               LastRXPing.LastAcks[k].ID = PingID(Stamp("us", s))
<1> DEFINE R == LastRXPing.LastAcks
           T == LastRXPing.TXTime
<1>1. /\ now \in Nat /\ now \in Second /\ s \in Second /\ s \in Nat
      /\ "peer" \in End /\ Other("peer") = "us"
  BY Types DEF XInv, End, Other
<1>2. Slots \in Nat /\ 1 < Slots /\ Len(LastAcks["us"]) >= 1
  BY Numbers DEF Reporting
<1>3. /\ R \in Seq(pingInfo) /\ T \in Nat /\ T <= now
      /\ SnapOK(R, handled["peer"], overtaken["peer"], Stamps("peer"), now, T, quiet - (now - T))
  BY <1>2, PublishedWhenFull
<1>4. DOMAIN R = 1 .. Len(R) /\ \A k \in 1 .. Len(R) : overtaken["peer"] < R[k].RX
  BY <1>3 DEF InOrder
<1> HIDE DEF R, T
<1>5. Stamps("peer")[s] = Stamp("us", s)
  BY <1>1, Stamped
<1>6. CASE Acked(R, s)
  <2>1. Acks(R, handled["peer"], Stamps("peer"), T)
    BY <1>3 DEF SnapOK
  <2>2. \E k \in DOMAIN R : R[k].ID = PingID(Stamp("us", s))
    BY <1>3, <1>5, <1>6, <2>1, AckedIsFound
  <2> QED
    BY <2>2 DEF R
<1>7. CASE Len(R) = Slots /\ Before(R, s, overtaken["peer"])
  <2>1. 1 \in 1 .. Len(R)
    BY <1>2, <1>7
  <2>2. s < R[1].TX
    BY <1>4, <1>7, <2>1 DEF Before
  <2>3. ASSUME NEW k \in 1 .. Len(R) PROVE R[k].TX <= now
    <3>1. R[k].TX \in Nat /\ R[k].RX \in Nat
      BY <1>3, AckNumbers
    <3>2. R[k].TX <= R[k].RX /\ R[k].RX <= T
      BY <1>1, <1>3, SnapNumbers
    <3>3. \A x, y \in Nat : x <= y /\ y <= T => x <= now
      BY <1>1, <1>3
    <3> QED
      BY <3>1, <3>2, <3>3
  <2>4. Spaced(R, overtaken["peer"])
    BY <1>3 DEF SnapOK
  <2>5. R[1].TX <= now - Slots + 1
    BY <1>1, <1>3, <1>4, <1>7, <2>1, <2>3, <2>4, OldestOfFull
  <2>6. PICK x \in Nat : x = R[1].TX
    BY <1>3, <2>1, AckNumbers
  <2> QED
    BY <1>1, <1>2, <2>2, <2>5, <2>6
<1>8. CASE After(R, s, overtaken["peer"])
  <2>1. \A k \in DOMAIN R : s > R[k].TX
    BY <1>4, <1>8 DEF After
  <2> QED
    BY <2>1 DEF R
<1> QED
  BY <1>3, <1>6, <1>7, <1>8 DEF SnapOK

(* The seconds searched for whose slots went to newer pings: as many as    *)
(* the sender's clock may be ahead of the search.                          *)
Pushed(e) == Tip - Slots + 1 .. Tip - Slots + Lead(e)

LEMMA PushedCount ==
  ASSUME XInv, NEW e \in End
  PROVE  /\ IsFiniteSet(Pushed(e)) /\ Cardinality(Pushed(e)) = Max({0, Lead(e)})
         /\ Max({0, Lead(e)}) \in Nat
<1>1. Tip \in Int /\ Lead(e) \in Int /\ Slots \in Nat
  BY Clocked, Numbers
<1>2. Max({0, Lead(e)}) = IF 0 >= Lead(e) THEN 0 ELSE Lead(e)
  BY <1>1, MaxOfTwo
<1>3. PICK x \in Int, y \in Int : x = Tip - Slots + 1 /\ y = Tip - Slots + Lead(e)
  BY <1>1
<1>4. IsFiniteSet(x .. y) /\ Cardinality(x .. y) = IF x > y THEN 0 ELSE y - x + 1
  BY FS_Interval
<1>5. (IF x > y THEN 0 ELSE y - x + 1) = IF 0 >= Lead(e) THEN 0 ELSE Lead(e)
  BY <1>1, <1>3
<1>6. (IF 0 >= Lead(e) THEN 0 ELSE Lead(e)) \in Nat
  BY <1>1
<1> QED
  BY <1>2, <1>3, <1>4, <1>5, <1>6 DEF Pushed

(* A ping that is no longer in a full ring was stamped with one of them.   *)
LEMMA OldIsPushed ==
  ASSUME XInv, NEW e \in End, NEW s \in handled[Other(e)], s <= now - Slots,
         Stamp(e, s) \in Window
  PROVE  Stamp(e, s) \in Pushed(e)
<1>1. Other(e) \in End /\ Other(Other(e)) = e
  BY DEF Other, End
<1>2. s \in Second /\ s \in Nat /\ clock[e].ahead \in Int
  BY <1>1, Types DEF XInv
<1>3. PICK t \in Int : t = Stamp(e, s) /\ t <= s + clock[e].ahead + One(clock[e].split)
  BY <1>1, <1>2, Stamped
<1>4. /\ now \in Nat /\ Tip \in Int /\ Slots \in Nat /\ 1 < Slots
      /\ clock["us"].ahead \in Int /\ One(turned["us"]) \in 0 .. 1 /\ One(clock[e].split) \in 0 .. 1
      /\ Tip = now + clock["us"].ahead + One(turned["us"])
  BY Clocked, Numbers
<1>5. t >= Tip - Slots + 1
  <2>1. Reach(Tip) \in Nat /\ Reach(Tip) <= Slots - 1 /\ t \in Tip - Reach(Tip) .. Tip - 1
    BY <1>3, <1>4, WindowShape
  <2> QED
    BY <1>4, <2>1
<1>6. t <= Tip - Slots + Lead(e)
  BY <1>2, <1>3, <1>4 DEF Lead
<1>7. Lead(e) \in Int
  BY Clocked
<1> QED
  BY <1>3, <1>4, <1>5, <1>6, <1>7 DEF Pushed

(* While packets keep their order getLoss invents no loss.                 *)
LEMMA NotInvented ==
  ASSUME XInv
  PROVE  LossNotInvented
<1>1. Tip \in Int /\ Slots \in Nat
  BY Clocked, Numbers
<1>2. "us" \in End /\ "peer" \in End /\ Other("us") = "peer" /\ Other("peer") = "us"
  BY DEF End, Other
<1>3. ASSUME NEW acks, NEW e \in End, NEW L \in SUBSET Window,
             \A t \in Window : \/ t \in L \/ t \in Pushed(e)
                              \/ \E k \in DOMAIN acks : acks[k].ID = PingID(t)
      PROVE  Missing(acks) <= Cardinality(L) + Max({0, Lead(e)})
  <2>1. IsFiniteSet(L) /\ Cardinality(L) \in Nat
    BY <1>1, PartOfWindow
  <2>2. /\ IsFiniteSet(Pushed(e)) /\ Cardinality(Pushed(e)) = Max({0, Lead(e)})
        /\ Cardinality(Pushed(e)) \in Nat
    BY PushedCount
  <2>3. /\ IsFiniteSet(L \cup Pushed(e))
        /\ Cardinality(L \cup Pushed(e)) <= Cardinality(L) + Cardinality(Pushed(e))
    BY <2>1, <2>2, UnionAtMost
  <2>4. \A t \in Window : t \in L \cup Pushed(e) \/ \E k \in DOMAIN acks : acks[k].ID = PingID(t)
    BY <1>3
  <2>5. Missing(acks) \in Nat /\ Missing(acks) <= Cardinality(L \cup Pushed(e))
    BY <1>1, <2>3, <2>4, MissingAtMost
  <2>6. Cardinality(L \cup Pushed(e)) \in Nat
    BY <2>3, FS_CardinalityType
  <2> QED
    BY <2>1, <2>2, <2>3, <2>5, <2>6
<1>4. ASSUME NEW L \in SUBSET Window, NEW e \in End PROVE 0 <= Cardinality(L) + Max({0, Lead(e)})
  <2>1. Cardinality(L) \in Nat /\ Max({0, Lead(e)}) \in Nat
    BY <1>1, PartOfWindow, PushedCount
  <2> QED
    BY <2>1
<1>5. ASSUME InOrder("us", LastAcks["us"])
      PROVE  RXLoss <= Cardinality(LostRX) + Max({0, Lead("peer")})
  <2>1. LostRX \in SUBSET Window
    BY DEF LostRX
  <2>2. CASE ~Reporting
    BY <1>2, <1>4, <2>1, <2>2 DEF RXLoss
  <2>3. CASE Reporting
    <3>1. RXLoss = Missing(LastAcks["us"])
      BY <2>3 DEF RXLoss
    <3>2. ASSUME NEW t \in Window
          PROVE  \/ t \in LostRX \/ t \in Pushed("peer")
                 \/ \E k \in DOMAIN LastAcks["us"] : LastAcks["us"][k].ID = PingID(t)
      <4>1. CASE \A s \in handled["us"] : Stamp("peer", s) # t
        BY <4>1 DEF LostRX
      <4>2. CASE \E s \in handled["us"] : Stamp("peer", s) = t
        <5>1. PICK s \in handled["us"] : Stamp("peer", s) = t
          BY <4>2
        <5>2. \/ s <= now - Slots
              \/ \E k \in DOMAIN LastAcks["us"] : LastAcks["us"][k].ID = PingID(t)
          BY <1>5, <2>3, <5>1, OursKept
        <5>3. s <= now - Slots => t \in Pushed("peer")
          BY <1>2, <5>1, OldIsPushed
        <5> QED
          BY <5>2, <5>3
      <4> QED
        BY <4>1, <4>2
    <3> QED
      BY <1>2, <1>3, <2>1, <3>1, <3>2
  <2> QED
    BY <2>2, <2>3
<1>6. ASSUME InOrder("peer", LastRXPing.LastAcks)
      PROVE  TXLoss <= Cardinality(LostTX \cup TooNew) + Max({0, Lead("us")})
  <2> DEFINE S == LastRXPing.LastAcks
             L == LostTX \cup TooNew
  <2>1. L \in SUBSET Window
    BY DEF LostTX, TooNew
  <2>2. CASE ~Reporting
    <3>1. TXLoss = 0
      BY <2>2 DEF TXLoss
    <3> HIDE DEF L
    <3>2. 0 <= Cardinality(L) + Max({0, Lead("us")})
      BY <1>2, <1>4, <2>1
    <3> QED
      BY <3>1, <3>2 DEF L
  <2>3. CASE Reporting
    <3>1. TXLoss = Missing(S)
      BY <2>3 DEF TXLoss
    <3>2. ASSUME NEW t \in Window
          PROVE  \/ t \in L \/ t \in Pushed("us")
                 \/ \E k \in DOMAIN S : S[k].ID = PingID(t)
      <4>1. CASE \A s \in handled["peer"] : Stamp("us", s) # t
        BY <4>1 DEF LostTX
      <4>2. CASE \E s \in handled["peer"] : Stamp("us", s) = t
        <5>1. PICK s \in handled["peer"] : Stamp("us", s) = t
          BY <4>2
        <5>2. \/ s <= now - Slots
              \/ \A k \in DOMAIN S : s > S[k].TX
              \/ \E k \in DOMAIN S : S[k].ID = PingID(t)
          BY <1>6, <2>3, <5>1, TheirsKept
        <5>3. s <= now - Slots => t \in Pushed("us")
          BY <1>2, <5>1, OldIsPushed
        <5>4. ASSUME \A k \in DOMAIN S : s > S[k].TX PROVE t \in L
          <6>1. \A a \in LatestAcks : s > a.TX
            BY <5>4 DEF LatestAcks
          <6> QED
            BY <5>1, <6>1 DEF TooNew
        <5> QED
          BY <5>2, <5>3, <5>4
      <4> QED
        BY <4>1, <4>2
    <3> HIDE DEF L, S
    <3>3. Missing(S) <= Cardinality(L) + Max({0, Lead("us")})
      BY <1>2, <1>3, <2>1, <3>2
    <3> QED
      BY <3>1, <3>3 DEF L
  <2> QED
    BY <2>2, <2>3
<1> QED
  BY <1>5, <1>6 DEF LossNotInvented

(* No loss is invented: while packets keep their order getStats reports    *)
(* only seconds of which no ping arrived, pings newer than the peer's last *)
(* ring, and one for each second a sender's clock is ahead of the search,  *)
(* wherever within a second the clocks turn.                               *)
THEOREM NothingInvented == Spec => []LossNotInvented
BY ExchangeInvariant, NotInvented, PTL

(* As many good seconds as a ring has slots leave none in it from before   *)
(* them, so that it is in order.                                           *)
LEMMA RunsInOrder ==
  ASSUME NEW R \in Seq(pingInfo), Len(R) <= Slots, NEW n \in Int, NEW g \in Int,
         Runs(R, n, g), g >= Slots, NEW o \in Nat, o < n - Slots
  PROVE  \A k \in 1 .. Len(R) : o < R[k].RX
<1>1. Slots \in Nat /\ Len(R) \in Nat
  BY Numbers
<1>2. PICK m \in 0 .. Len(R) :
        /\ \A k \in 1 .. Len(R) : R[k].RX < n <=> k <= m
        /\ \A k \in 1 .. m : m - k < g => R[k].RX >= n - 1 - (m - k)
  BY DEF Runs
<1>3. ASSUME NEW k \in 1 .. Len(R) PROVE o < R[k].RX
  <2>1. PICK x \in Nat : x = R[k].RX
    BY AckNumbers
  <2>2. CASE k <= m
    <3>1. k \in 1 .. m /\ m - k < g /\ m - k <= Slots - 1
      BY <1>1, <1>2, <2>2
    <3>2. x >= n - 1 - (m - k)
      BY <1>2, <2>1, <3>1
    <3> QED
      BY <1>1, <2>1, <3>1, <3>2
  <2>3. CASE ~(k <= m)
    <3>1. ~(x < n)
      BY <1>2, <2>1, <2>3
    <3> QED
      BY <1>1, <2>1, <3>1
  <2> QED
    BY <2>2, <2>3
<1> QED
  BY <1>3

(* A link without faults for as long as the ring is shows only what the    *)
(* clocks make.                                                            *)
LEMMA QuietIsExact ==
  ASSUME XInv
  PROVE  QuietLinkShowsOnlySkew
<1> DEFINE ap == clock["peer"].ahead
           au == clock["us"].ahead
           tu == One(turned["us"])
           D == ap - au - tu
<1> SUFFICES ASSUME quiet >= Slots + 1, \A e \in End : overtaken[e] < now
             PROVE  /\ RXLoss <= Max({D, -D}) + Cardinality(SentAfter("peer"))
                    /\ TXLoss <= now - LastRXPing.TXTime + tu + Cardinality(SentAfter("us"))
  BY DEF QuietLinkShowsOnlySkew
<1>1. /\ now \in Nat /\ now \in Second /\ quiet \in Nat /\ ap \in Int /\ au \in Int /\ tu \in 0 .. 1
      /\ Tip \in Int /\ Tip = now + au + tu
  BY Clocked, Types DEF XInv
<1>2. /\ Slots \in Nat /\ 1 < Slots
      /\ "us" \in End /\ "peer" \in End /\ Other("us") = "peer" /\ Other("peer") = "us"
  BY Numbers DEF End, Other
<1>3. ASSUME NEW e \in End
      PROVE  /\ \A s \in now - quiet .. now - 1 : s \in handled[e]
             /\ overtaken[e] \in Nat /\ overtaken[e] < now - quiet
  <2>1. Good(handled[e], overtaken[e], now, quiet) /\ overtaken[e] \in Nat
    BY Types DEF XInv, RingsOK, RingOK
  <2>2. PICK o \in Nat : o = overtaken[e]
    BY <2>1
  <2>3. o < now /\ o \notin now - quiet .. now - 1
    BY <2>1, <2>2 DEF Good
  <2>4. o < now - quiet
    BY <1>1, <2>3
  <2> QED
    BY <2>1, <2>2, <2>4 DEF Good
<1> HIDE DEF ap, au, tu
<1>4. ASSUME NEW t \in Window PROVE t \in Int /\ t >= Tip - Slots + 1 /\ t <= Tip - 1
  <2>1. Reach(Tip) \in Nat /\ Reach(Tip) <= Slots - 1 /\ t \in Tip - Reach(Tip) .. Tip - 1
    BY <1>1, WindowShape
  <2> QED
    BY <1>1, <1>2, <2>1
<1>5. /\ LastAcks["us"] \in Seq(pingInfo) /\ Len(LastAcks["us"]) <= Slots
      /\ Runs(LastAcks["us"], now, quiet)
      /\ Len(LastAcks["us"]) >= 1
  <2>1. RingOK(LastAcks["us"], handled["us"], overtaken["us"], Stamps("us"), now, quiet)
    BY <1>2 DEF XInv, RingsOK
  <2>2. quiet >= 1 /\ overtaken["us"] < now
    BY <1>1, <1>2
  <2> QED
    BY <2>1, <2>2 DEF RingOK, Fresh
<1>6. ASSUME NEW e \in End
      PROVE  IsFiniteSet(SentAfter(e)) /\ Cardinality(SentAfter(e)) \in Nat
  <2>1. IsFiniteSet(now - Slots + 1 .. now - 1)
    <3>1. PICK x \in Int, y \in Int : x = now - Slots + 1 /\ y = now - 1
      BY <1>1, <1>2
    <3> QED
      BY <3>1, FS_Interval
  <2>2. SentAfter(e) \subseteq now - Slots + 1 .. now - 1
    BY DEF SentAfter
  <2>3. IsFiniteSet(SentAfter(e))
    BY <2>1, <2>2, FS_Subset
  <2> QED
    BY <2>3, FS_CardinalityType
<1>7. ASSUME NEW e \in End, NEW s \in now - Slots + 1 .. now - 1, s \notin SentAfter(Other(e))
      PROVE  /\ s \in handled[e] /\ s \in Nat /\ ~(s <= now - Slots)
             /\ Stamp(Other(e), s) = s + clock[Other(e)].ahead
  <2>1. s \in now - quiet .. now - 1 /\ s \in Int /\ ~(s <= now - Slots)
    BY <1>1, <1>2
  <2>2. s \in handled[e]
    BY <1>3, <2>1
  <2>3. s \in Second /\ s \in Nat
    BY <2>2, Types DEF XInv
  <2>4. s \notin after[Other(e)]
    BY <1>7 DEF SentAfter
  <2> QED
    BY <2>1, <2>2, <2>3, <2>4, Stamped
<1>8. RXLoss <= Max({D, -D}) + Cardinality(SentAfter("peer"))
  <2>1. D \in Int /\ Max({D, -D}) = IF D >= -D THEN D ELSE -D
    BY <1>1, MaxOfTwo
  <2>2. CASE ~Reporting
    BY <1>2, <1>6, <2>1, <2>2 DEF RXLoss
  <2>3. CASE Reporting
    <3>1. PICK x \in Int, y \in Int : /\ x = IF D >= 0 THEN now - D - Slots + 1 ELSE now
                                      /\ y = IF D >= 0 THEN now - Slots ELSE now - D - 1
      <4> HIDE DEF D
      <4>1. /\ (IF D >= 0 THEN now - D - Slots + 1 ELSE now) \in Int
            /\ (IF D >= 0 THEN now - Slots ELSE now - D - 1) \in Int
        BY <1>1, <1>2, <2>1
      <4> QED
        BY <4>1, Zenon
    <3> DEFINE R == LastAcks["us"]
               U == (x .. y) \cup SentAfter("peer")
    <3>2. InOrder("us", R)
      <4>1. overtaken["us"] \in Nat /\ overtaken["us"] < now - Slots /\ quiet >= Slots
        <5>1. overtaken["us"] \in Nat /\ overtaken["us"] < now - quiet
          BY <1>2, <1>3
        <5> QED
          BY <1>1, <1>2, <5>1
      <4>2. \A k \in 1 .. Len(R) : overtaken["us"] < R[k].RX
        BY <1>1, <1>5, <4>1, RunsInOrder
      <4> QED
        BY <1>5, <4>2 DEF InOrder
    <3>3. RXLoss = Missing(R)
      BY <2>3 DEF RXLoss
    <3>4. ASSUME NEW t \in Window
          PROVE  t - ap \in U \/ \E k \in DOMAIN R : R[k].ID = PingID(t)
      <4>1. t \in Int /\ t >= Tip - Slots + 1 /\ t <= Tip - 1
        BY <1>4
      <4>2. PICK s \in Int : s = t - ap
        BY <1>1, <4>1
      <4>3. s >= now - D - Slots + 1 /\ s <= now - D - 1 /\ s + ap = t
        BY <1>1, <1>2, <4>1, <4>2
      <4>4. CASE s \in SentAfter("peer")
        BY <4>2, <4>4
      <4>5. CASE s \notin now - Slots + 1 .. now - 1
        <5>1. s \in x .. y
          BY <1>1, <1>2, <2>1, <3>1, <4>3, <4>5
        <5> QED
          BY <4>2, <5>1
      <4>6. CASE s \in now - Slots + 1 .. now - 1 /\ s \notin SentAfter("peer")
        <5>1. s \in handled["us"] /\ ~(s <= now - Slots) /\ Stamp("peer", s) = t
          BY <1>2, <1>7, <4>3, <4>6 DEF ap
        <5> QED
          BY <2>3, <3>2, <5>1, OursKept
      <4> QED
        BY <4>4, <4>5, <4>6
    <3>5. /\ IsFiniteSet(x .. y)
          /\ Cardinality(x .. y) = Max({D, -D})
      <4>1. IsFiniteSet(x .. y) /\ Cardinality(x .. y) = IF x > y THEN 0 ELSE y - x + 1
        BY FS_Interval
      <4>2. (IF x > y THEN 0 ELSE y - x + 1) = IF D >= -D THEN D ELSE -D
        BY <1>1, <1>2, <2>1, <3>1
      <4> QED
        BY <2>1, <4>1, <4>2
    <3>6. IsFiniteSet(U) /\ Cardinality(U) <= Cardinality(x .. y) + Cardinality(SentAfter("peer"))
      BY <1>2, <1>6, <3>5, UnionAtMost
    <3> HIDE DEF R, U
    <3>7. Missing(R) \in Nat /\ Missing(R) <= Cardinality(U)
      BY <1>1, <3>4, <3>6, MissingShifted
    <3>8. Cardinality(U) \in Nat /\ Max({D, -D}) \in Int /\ Cardinality(SentAfter("peer")) \in Nat
      BY <1>2, <1>6, <2>1, <3>6, FS_CardinalityType
    <3> QED
      BY <3>3, <3>5, <3>6, <3>7, <3>8
  <2> QED
    BY <2>2, <2>3
<1>9. TXLoss <= now - LastRXPing.TXTime + tu + Cardinality(SentAfter("us"))
  <2> DEFINE T == LastRXPing.TXTime
             S == LastRXPing.LastAcks
             C == Cardinality(SentAfter("us"))
  <2>1. /\ T \in Nat /\ T <= now /\ S \in Seq(pingInfo)
        /\ SnapOK(S, handled["peer"], overtaken["peer"], Stamps("peer"), now, T, quiet - (now - T))
    BY <1>5, PublishedWhenFull
  <2>2. T >= now - 1
    <3>1. quiet >= 1
      BY <1>1, <1>2
    <3> QED
      BY <3>1, Recovers DEF LatencyRecovers
  <2> HIDE DEF T, S, C
  <2>3. C \in Nat
    BY <1>2, <1>6 DEF C
  <2>4. CASE ~Reporting
    <3>1. 0 <= now - T + tu + C
      BY <1>1, <2>1, <2>3
    <3> QED
      BY <2>4, <3>1 DEF TXLoss, T, C
  <2>5. CASE Reporting
    <3>1. PICK g \in Int : g = quiet - (now - T) /\ g >= Slots /\ g >= 1
      BY <1>1, <1>2, <2>1, <2>2
    <3>2. /\ Len(S) <= Slots /\ Runs(S, T, g)
          /\ Len(S) >= 1 /\ S[Len(S)].TX >= T - 1
      <4>1. T = now => overtaken["peer"] < now
        BY DEF End
      <4> QED
        BY <2>1, <3>1, <4>1 DEF SnapOK
    <3>3. overtaken["peer"] \in Nat /\ overtaken["peer"] < T - Slots
      <4>1. overtaken["peer"] \in Nat /\ overtaken["peer"] < now - quiet
        BY <1>2, <1>3
      <4> QED
        BY <1>1, <1>2, <2>1, <2>2, <4>1
    <3>4. \A k \in 1 .. Len(S) : overtaken["peer"] < S[k].RX
      BY <2>1, <3>1, <3>2, <3>3, RunsInOrder
    <3>5. InOrder("peer", S)
      BY <2>1, <3>4 DEF InOrder
    <3>6. PICK y \in Int : y = now + tu - 1
      BY <1>1
    <3> DEFINE U == (T .. y) \cup SentAfter("us")
    <3>7. ASSUME NEW t \in Window
          PROVE  t - au \in U \/ \E k \in DOMAIN S : S[k].ID = PingID(t)
      <4>1. t \in Int /\ t >= Tip - Slots + 1 /\ t <= Tip - 1
        BY <1>4
      <4>2. PICK s \in Int : s = t - au
        BY <1>1, <4>1
      <4>3. s >= now + tu - Slots + 1 /\ s <= y /\ s + au = t
        BY <1>1, <1>2, <3>6, <4>1, <4>2
      <4>4. CASE s \in SentAfter("us")
        BY <4>2, <4>4
      <4>5. CASE s >= T
        <5>1. s \in T .. y
          BY <2>1, <3>6, <4>3, <4>5
        <5> QED
          BY <4>2, <5>1
      <4>6. CASE ~(s >= T) /\ s \notin SentAfter("us")
        <5>1. s \in now - Slots + 1 .. now - 1
          BY <1>1, <1>2, <2>1, <4>3, <4>6
        <5>2. s \in handled["peer"] /\ ~(s <= now - Slots) /\ Stamp("us", s) = t
          BY <1>2, <1>7, <4>3, <4>6, <5>1 DEF au
        <5>3. (\A k \in DOMAIN S : s > S[k].TX) \/ \E k \in DOMAIN S : S[k].ID = PingID(t)
          BY <2>5, <3>5, <5>2, TheirsKept DEF S
        <5>4. CASE \A k \in DOMAIN S : s > S[k].TX
          <6>1. Len(S) \in 1 .. Len(S) /\ DOMAIN S = 1 .. Len(S)
            BY <2>1, <3>2
          <6>2. S[Len(S)].TX \in Nat /\ s > S[Len(S)].TX
            BY <2>1, <5>4, <6>1, AckNumbers
          <6>3. \A x \in Nat : s > x /\ x >= T - 1 => s >= T
            BY <2>1, <4>2
          <6> QED
            BY <3>2, <4>6, <6>2, <6>3
        <5> QED
          BY <5>3, <5>4
      <4> QED
        BY <4>4, <4>5, <4>6
    <3>8. IsFiniteSet(T .. y) /\ Cardinality(T .. y) = now - T + tu
      <4>1. IsFiniteSet(T .. y) /\ Cardinality(T .. y) = IF T > y THEN 0 ELSE y - T + 1
        BY <2>1, FS_Interval
      <4>2. (IF T > y THEN 0 ELSE y - T + 1) = now - T + tu
        BY <1>1, <2>1, <3>6
      <4> QED
        BY <4>1, <4>2
    <3>9. IsFiniteSet(U) /\ Cardinality(U) <= Cardinality(T .. y) + C
      BY <1>2, <1>6, <3>8, UnionAtMost DEF C
    <3> HIDE DEF U
    <3>10. Missing(S) \in Nat /\ Missing(S) <= Cardinality(U) /\ Cardinality(U) \in Nat
      BY <1>1, <3>7, <3>9, MissingShifted, FS_CardinalityType
    <3>11. Missing(S) <= now - T + tu + C
      BY <1>1, <2>1, <2>3, <3>8, <3>9, <3>10
    <3> QED
      BY <2>5, <3>11 DEF TXLoss, T, S, C
  <2> QED
    BY <2>4, <2>5
<1> QED
  BY <1>8, <1>9

(* A quiet link shows only what the clocks make: once the link has been    *)
(* without faults for as long as the ring is, getStats counts at most one  *)
(* RX loss for each second between the clocks, one TX loss for each second *)
(* until the peer's ping and our clock are in step, and one for each ping  *)
(* sent after a clock turned.                                              *)
THEOREM QuietLink == Spec => []QuietLinkShowsOnlySkew
BY ExchangeInvariant, QuietIsExact, PTL
=============================================================================
