------------------------ MODULE IcmpMultipartProofs ------------------------
(***************************************************************************)
(* ICMP messages, for any bodies, lists of extensions, objects of other    *)
(* implementations and losses on the way.                                  *)
(***************************************************************************)
EXTENDS IcmpMultipart, FiniteSetTheorems, TLAPS

-----------------------------------------------------------------------------
(* Numbers, and functions defined by recursion on them.                    *)

(* A set of natural numbers has a least element.                           *)
LEMMA LeastExists ==
  ASSUME NEW T \in SUBSET Nat, T # {}
  PROVE  \E x \in T : \A y \in T : x <= y
<1>1. PICK x \in T : \A y \in T : ~(<<y, x>> \in OpToRel(<, Nat))
  BY NatLessThanWellFounded, WFMin
<1>2. \A y \in T : ~(y < x)
  BY <1>1 DEF OpToRel
<1> QED
  BY <1>2

(* Induction up to n, for a set: the loops over extensions and objects     *)
(* are argued about with it.                                               *)
LEMMA UpTo ==
  ASSUME NEW n \in Nat, NEW T, 0 \in T, \A i \in 0 .. n - 1 : i \in T => i + 1 \in T
  PROVE  \A i \in 0 .. n : i \in T
<1> SUFFICES ASSUME NEW z \in 0 .. n, z \notin T
             PROVE  FALSE
  OBVIOUS
<1> DEFINE bad == {i \in 0 .. n : i \notin T}
<1>1. bad \in SUBSET Nat /\ bad # {}
  OBVIOUS
<1>2. PICK i \in bad : \A j \in bad : i <= j
  BY <1>1, LeastExists
<1>3. i \in 1 .. n /\ i - 1 \in 0 .. n - 1 /\ i - 1 \in 0 .. n
  OBVIOUS
<1>4. i - 1 \notin bad
  BY <1>2, <1>3
<1>5. (i - 1) + 1 \in T
  BY <1>3, <1>4
<1> QED
  BY <1>3, <1>5

(* A function of 0 .. n that starts with base and goes on by step.         *)
Recurs(g, n, base, step) == g[0] = base /\ \A i \in 1 .. n : g[i] = step[<<i, g[i - 1]>>]

(* A function defined by recursion up to n exists.                         *)
LEMMA Recursion ==
  ASSUME NEW n \in Nat, NEW V, NEW base \in V, NEW step \in [(1 .. n) \X V -> V]
  PROVE  \E g \in [0 .. n -> V] : Recurs(g, n, base, step)
<1> DEFINE Ok(g, m) == \A i \in 0 .. m : g[i] = IF i = 0 THEN base ELSE step[<<i, g[i - 1]>>]
           T == {m \in 0 .. n : \E g \in [0 .. m -> V] : Ok(g, m)}
<1>1. 0 \in T
  <2> DEFINE g == [i \in 0 .. 0 |-> base]
  <2>1. \A i \in 0 .. 0 : i = 0 /\ g[i] = base
    OBVIOUS
  <2>2. g \in [0 .. 0 -> V] /\ 0 \in 0 .. n
    OBVIOUS
  <2> HIDE DEF g
  <2>3. Ok(g, 0)
    BY <2>1
  <2> QED
    BY <2>2, <2>3
<1>2. ASSUME NEW m \in 0 .. n - 1, m \in T
      PROVE  m + 1 \in T
  <2>1. PICK g \in [0 .. m -> V] : Ok(g, m)
    BY <1>2
  <2>2. m \in 0 .. m /\ m + 1 \in 1 .. n /\ step[<<m + 1, g[m]>>] \in V
    OBVIOUS
  <2> DEFINE h == [i \in 0 .. m + 1 |-> IF i <= m THEN g[i] ELSE step[<<m + 1, g[m]>>]]
  <2>3. h \in [0 .. m + 1 -> V]
    BY <2>2
  <2>4. \A i \in 0 .. m : h[i] = g[i]
    OBVIOUS
  <2>5. h[m + 1] = step[<<m + 1, h[m]>>] /\ m + 1 # 0 /\ (m + 1) - 1 = m
    <3>1. m + 1 \in 0 .. m + 1 /\ ~(m + 1 <= m) /\ m \in 0 .. m
      OBVIOUS
    <3>2. h[m + 1] = step[<<m + 1, g[m]>>]
      BY <3>1
    <3>3. h[m] = g[m]
      BY <2>4, <3>1
    <3> QED
      BY <3>2, <3>3, SMTT(60)
  <2>6. \A i \in 0 .. m : i # 0 => i - 1 \in 0 .. m
    OBVIOUS
  <2> HIDE DEF h
  <2>7. \A i \in 0 .. m + 1 : i \in 0 .. m \/ i = m + 1
    OBVIOUS
  <2>8. Ok(h, m + 1)
    <3> SUFFICES ASSUME NEW i \in 0 .. m + 1
                 PROVE  h[i] = IF i = 0 THEN base ELSE step[<<i, h[i - 1]>>]
      OBVIOUS
    <3>1. CASE i \in 0 .. m
      BY <2>1, <2>4, <2>6, <3>1
    <3>2. CASE i = m + 1
      BY <2>5, <3>2
    <3> QED
      BY <2>7, <3>1, <3>2
  <2> QED
    BY <2>3, <2>8
<1> HIDE DEF T
<1>3. n \in T
  BY <1>1, <1>2, UpTo
<1>4. PICK g \in [0 .. n -> V] : Ok(g, n)
  BY <1>3 DEF T
<1>5. 0 \in 0 .. n /\ \A i \in 1 .. n : i \in 0 .. n /\ i # 0
  OBVIOUS
<1> QED
  BY <1>4, <1>5 DEF Recurs

-----------------------------------------------------------------------------
(* The octets of the first members of a list.                              *)

(* The sum LenTo computes: one member more adds its octets.                *)
LEMMA LenToStep ==
  ASSUME NEW lens \in Seq(Nat)
  PROVE  /\ LenTo(lens, 0) = 0
         /\ \A k \in 0 .. Len(lens) : LenTo(lens, k) \in Nat
         /\ \A k \in 1 .. Len(lens) : LenTo(lens, k) = LenTo(lens, k - 1) + lens[k]
<1> DEFINE n == Len(lens)
           step == [p \in (1 .. n) \X Nat |-> p[2] + lens[p[1]]]
           Sum == CHOOSE g : g = [j \in 0 .. n |-> IF j = 0 THEN 0 ELSE g[j - 1] + lens[j]]
<1>1. n \in Nat /\ lens \in [1 .. n -> Nat]
  OBVIOUS
<1>2. step \in [(1 .. n) \X Nat -> Nat] /\ 0 \in Nat
  BY <1>1
<1>3. \A i \in 1 .. n, s \in Nat : step[<<i, s>>] = s + lens[i]
  OBVIOUS
<1>4. \A k : LenTo(lens, k) = Sum[k]
  BY Zenon DEF LenTo
<1> HIDE DEF n, step
<1>5. PICK g \in [0 .. n -> Nat] : Recurs(g, n, 0, step)
  BY <1>1, <1>2, Recursion, Zenon
<1>6. \A i \in 0 .. n : i # 0 => i \in 1 .. n /\ i - 1 \in 0 .. n
  BY <1>1
<1>7. g = [i \in 0 .. n |-> IF i = 0 THEN 0 ELSE g[i - 1] + lens[i]]
  BY <1>3, <1>5, <1>6 DEF Recurs
<1>8. Sum = [i \in 0 .. n |-> IF i = 0 THEN 0 ELSE Sum[i - 1] + lens[i]]
  BY <1>7
<1> HIDE DEF Sum
<1>9. Sum[0] = 0 /\ 0 \in 0 .. n
  BY <1>1, <1>8
<1>10. \A i \in 1 .. n : Sum[i] = Sum[i - 1] + lens[i]
  BY <1>1, <1>8
<1> DEFINE T == {i \in 0 .. n : Sum[i] \in Nat}
<1>11. 0 \in T
  BY <1>9
<1>12. ASSUME NEW i \in 0 .. n - 1, i \in T
       PROVE  i + 1 \in T
  <2>1. i + 1 \in 1 .. n /\ i + 1 \in 0 .. n /\ (i + 1) - 1 = i
    BY <1>1
  <2>2. Sum[i + 1] = Sum[i] + lens[i + 1] /\ lens[i + 1] \in Nat
    BY <1>1, <1>10, <2>1
  <2> QED
    BY <1>12, <2>1, <2>2
<1> HIDE DEF T
<1>13. \A i \in 0 .. n : i \in T
  BY <1>1, <1>11, <1>12, UpTo
<1> QED
  BY <1>4, <1>9, <1>10, <1>13 DEF T, n

(* More members, more octets.                                              *)
LEMMA LenToGrows ==
  ASSUME NEW lens \in Seq(Nat), NEW j \in 0 .. Len(lens), NEW k \in j .. Len(lens)
  PROVE  LenTo(lens, j) <= LenTo(lens, k)
<1> DEFINE n == Len(lens)
           T == {i \in 0 .. n : j <= i => LenTo(lens, j) <= LenTo(lens, i)}
<1>1. n \in Nat /\ lens \in [1 .. n -> Nat]
  OBVIOUS
<1>2. /\ \A i \in 0 .. n : LenTo(lens, i) \in Nat
      /\ \A i \in 1 .. n : LenTo(lens, i) = LenTo(lens, i - 1) + lens[i]
  BY LenToStep
<1>3. 0 \in T
  BY <1>1, <1>2
<1>4. ASSUME NEW i \in 0 .. n - 1, i \in T
      PROVE  i + 1 \in T
  <2>1. i + 1 \in 1 .. n /\ i + 1 \in 0 .. n /\ (i + 1) - 1 = i /\ i \in 0 .. n
    BY <1>1
  <2>2. LenTo(lens, i + 1) = LenTo(lens, i) + lens[i + 1] /\ lens[i + 1] \in Nat
    BY <1>1, <1>2, <2>1
  <2>3. LenTo(lens, j) \in Nat /\ LenTo(lens, i) \in Nat
    BY <1>2, <2>1
  <2>4. CASE j <= i
    BY <1>4, <2>1, <2>2, <2>3, <2>4
  <2>5. CASE j = i + 1
    BY <2>1, <2>2, <2>3, <2>5
  <2>6. CASE i + 1 < j
    BY <2>1, <2>6
  <2> QED
    BY <2>1, <2>4, <2>5, <2>6
<1> HIDE DEF T
<1>5. \A i \in 0 .. n : i \in T
  BY <1>1, <1>3, <1>4, UpTo
<1>6. k \in T
  BY <1>1, <1>5
<1> QED
  BY <1>6 DEF T
-----------------------------------------------------------------------------
(* The types of what is marshalled.                                        *)

(* What Marshal writes at an octet of an object, or does not write.        *)
Filling == Octet \cup {Unwritten}

(* The four octets of a number are octets, and those of a number of 32     *)
(* bits are the number again (PutUint32, Uint32).                          *)
LEMMA Octets ==
  ASSUME NEW n \in Nat
  PROVE  /\ ToOctets(n) \in Seq(Octet) /\ Len(ToOctets(n)) = 4
         /\ Word(n) => Number(ToOctets(n), 0) = n
<1>1. PICK a \in Octet : a = (n \div 16777216) % 256
  BY SMT DEF Octet
<1>2. PICK b \in Octet : b = (n \div 65536) % 256
  BY SMT DEF Octet
<1>3. PICK c \in Octet : c = (n \div 256) % 256
  BY SMT DEF Octet
<1>4. PICK d \in Octet : d = n % 256
  BY SMT DEF Octet
<1>5. ToOctets(n) = <<a, b, c, d>>
  BY <1>1, <1>2, <1>3, <1>4, SMT DEF ToOctets
<1>6. <<a, b, c, d>> \in Seq(Octet) /\ Len(<<a, b, c, d>>) = 4
  OBVIOUS
<1>7. ASSUME n \div 65536 < 65536
      PROVE  ((a * 256 + b) * 256 + c) * 256 + d = n
  <2>1. a * 256 + b = n \div 65536
    BY <1>1, <1>2, <1>7, SMT
  <2>2. c * 256 + d = n % 65536
    BY <1>3, <1>4, SMT
  <2> QED
    BY <2>1, <2>2, SMT DEF Octet
<1> QED
  BY <1>5, <1>6, <1>7 DEF Word, Number

(* A multiple of four that is not below n.                                 *)
LEMMA RoundedUp ==
  ASSUME NEW n \in Nat
  PROVE  Up4(n) \in Nat /\ Up4(n) % 4 = 0 /\ n <= Up4(n) /\ Up4(n) < n + 4
  BY DEF Up4

(* A label fills four octets.                                              *)
LEMMA LabelTyped ==
  ASSUME NEW ll \in MPLSLabel
  PROVE  \A i \in 1 .. 4 : marshalLabel(ll)[i] \in Octet
<1>1. ll.Label \in Nat /\ ll.TC \in Nat /\ ll.S \in {0, 1} /\ ll.TTL \in Nat
  BY DEF MPLSLabel
<1>2. PICK l \in Nat, t \in Nat, s \in {0, 1}, h \in Nat :
        l = ll.Label /\ t = ll.TC /\ s = ll.S /\ h = ll.TTL
  BY <1>1
<1>3. /\ (l \div 4096) % 256 \in Octet /\ (l \div 16) % 256 \in Octet
      /\ (l % 16) * 16 + (t % 8) * 2 + s \in Octet /\ h % 256 \in Octet
  BY DEF Octet
<1>4. marshalLabel(ll) = <<(l \div 4096) % 256, (l \div 16) % 256,
                           (l % 16) * 16 + (t % 8) * 2 + s, h % 256>>
  BY <1>2 DEF marshalLabel
<1>5. \A a, b, c, d \in Octet : \A i \in 1 .. 4 : <<a, b, c, d>>[i] \in Octet
  OBVIOUS
<1> QED
  BY <1>3, <1>4, <1>5

(* A label stack is written in four octets per label.                      *)
LEMMA StackTyped ==
  ASSUME NEW e \in MPLSLabelStack
  PROVE  /\ marshalMPLSLabelStack(e) \in Seq(Octet)
         /\ Len(marshalMPLSLabelStack(e)) = 4 * Len(e.Labels)
<1> DEFINE n == Len(e.Labels)
           At(i) == marshalLabel(e.Labels[(i + 3) \div 4])[((i + 3) % 4) + 1]
           o == [i \in 1 .. 4 * n |-> At(i)]
<1>1. n \in Nat /\ \A k \in 1 .. n : e.Labels[k] \in MPLSLabel
  BY DEF MPLSLabelStack
<1>2. \A i \in 1 .. 4 * n : (i + 3) \div 4 \in 1 .. n /\ ((i + 3) % 4) + 1 \in 1 .. 4
  BY <1>1
<1>3. \A i \in 1 .. 4 * n : At(i) \in Octet
  BY <1>1, <1>2, LabelTyped
<1>4. 4 * n \in Nat
  BY <1>1
<1> HIDE DEF n, At
<1>5. o \in Seq(Octet) /\ Len(o) = 4 * n
  BY <1>3, <1>4
<1> QED
  BY <1>5 DEF marshalMPLSLabelStack, n, At

(* Text in l octets: what it does not fill is not written.                 *)
LEMMA FitTyped ==
  ASSUME NEW text \in Seq(Octet), NEW l \in Nat
  PROVE  Fit(text, l) \in Seq(Filling) /\ Len(Fit(text, l)) = l
<1> DEFINE At(i) == IF i <= Len(text) THEN text[i] ELSE Unwritten
<1>1. \A i \in 1 .. l : At(i) \in Filling
  BY DEF Filling
<1> HIDE DEF At
<1>2. [i \in 1 .. l |-> At(i)] \in Seq(Filling) /\ Len([i \in 1 .. l |-> At(i)]) = l
  BY <1>1
<1> QED
  BY <1>2 DEF Fit, At

(* A name attribute fits what its length octet says, a multiple of four of *)
(* at most 64.                                                             *)
LEMMA NameTyped ==
  ASSUME NEW e \in InterfaceInfo
  PROVE  /\ nameLen(e) \in 4 .. 64 /\ nameLen(e) % 4 = 0
         /\ Len(e.Name) <= 63 => Len(e.Name) < nameLen(e)
         /\ marshalName(e) \in Seq(Filling) /\ Len(marshalName(e)) = nameLen(e)
<1>1. e.Name \in Seq(Octet)
  BY DEF InterfaceInfo
<1>2. Len(e.Name) \in Nat
  BY <1>1
<1>3. \A n \in Nat : n <= 63 => Up4(1 + n) \in 4 .. 64 /\ Up4(1 + n) % 4 = 0 /\ n < Up4(1 + n)
  BY DEF Up4
<1>4. /\ nameLen(e) \in 4 .. 64 /\ nameLen(e) % 4 = 0
      /\ Len(e.Name) <= 63 => Len(e.Name) < nameLen(e)
  <2>1. PICK n \in Nat : n = Len(e.Name)
    BY <1>2
  <2>2. nameLen(e) = IF n > 63 THEN 64 ELSE Up4(1 + n)
    BY <2>1 DEF nameLen
  <2>3. CASE n > 63
    BY <2>1, <2>2, <2>3
  <2>4. CASE n <= 63
    <3>1. nameLen(e) = Up4(1 + n) /\ n = Len(e.Name)
      BY <2>1, <2>2, <2>4
    <3>2. Up4(1 + n) \in 4 .. 64 /\ Up4(1 + n) % 4 = 0 /\ n < Up4(1 + n)
      BY <1>3, <2>4
    <3> QED
      BY <3>1, <3>2, Zenon
  <2> QED
    BY <2>3, <2>4
<1>5. PICK l \in 4 .. 64 : l = nameLen(e)
  BY <1>4
<1>6. Fit(e.Name, l - 1) \in Seq(Filling) /\ Len(Fit(e.Name, l - 1)) = l - 1
  BY <1>1, FitTyped
<1>7. <<l>> \in Seq(Filling) /\ Len(<<l>>) = 1
  BY DEF Filling, Octet
<1>8. <<l>> \o Fit(e.Name, l - 1) \in Seq(Filling) /\ Len(<<l>> \o Fit(e.Name, l - 1)) = l
  BY <1>6, <1>7
<1> QED
  BY <1>4, <1>5, <1>8 DEF marshalName

(* The attributes are in the lower half of the octet, whatever role is in  *)
(* the upper.                                                              *)
LEMMA RoleBits ==
  \A t \in Octet : \A attr \in {attrIfIndex, attrIPAddr, attrName, attrMTU} :
    Has(t, attr) <=> Has(t % 16, attr)
BY DEF Octet, Has, attrIfIndex, attrIPAddr, attrName, attrMTU

(* The attributes that are written, one bit each.                          *)
AddrLen(proto) == IF proto = 1 THEN 4 ELSE 16
LEMMA AttrBits ==
  ASSUME NEW e \in InterfaceInfo, NEW proto \in {1, 58}
  PROVE  /\ attrsOf(e, proto) \in Octet
         /\ Has(attrsOf(e, proto), attrIfIndex) <=> e.Index > 0
         /\ Has(attrsOf(e, proto), attrIPAddr) <=> Len(e.Addr) = AddrLen(proto)
         /\ Has(attrsOf(e, proto), attrName) <=> e.Index > 0 /\ e.Name # <<>>
         /\ Has(attrsOf(e, proto), attrMTU) <=> e.Index > 0 /\ e.MTU > 0
<1>1. PICK i \in {0, 8} : i = (IF e.Index > 0 THEN 8 ELSE 0)
  BY Zenon
<1>2. PICK n \in {0, 2} : n = (IF e.Index > 0 /\ e.Name # <<>> THEN 2 ELSE 0)
  BY Zenon
<1>3. PICK m \in {0, 1} : m = (IF e.Index > 0 /\ e.MTU > 0 THEN 1 ELSE 0)
  BY Zenon
<1>4. PICK a \in {0, 4} : a = (IF Len(e.Addr) = AddrLen(proto) THEN 4 ELSE 0)
  BY Zenon
<1>5. attrsOf(e, proto) = i + n + m + a
  BY <1>1, <1>2, <1>3, <1>4, Zenon DEF attrsOf, attrIfIndex, attrName, attrMTU, attrIPAddr, AddrLen
<1>6. /\ i + n + m + a \in Octet
      /\ Has(i + n + m + a, attrIfIndex) <=> i = 8
      /\ Has(i + n + m + a, attrIPAddr) <=> a = 4
      /\ Has(i + n + m + a, attrName) <=> n = 2
      /\ Has(i + n + m + a, attrMTU) <=> m = 1
  BY DEF Has, attrIfIndex, attrName, attrMTU, attrIPAddr, Octet
<1>7. (i = 8 <=> e.Index > 0) /\ (n = 2 <=> e.Index > 0 /\ e.Name # <<>>)
  BY <1>1, <1>2
<1>8. (m = 1 <=> e.Index > 0 /\ e.MTU > 0) /\ (a = 4 <=> Len(e.Addr) = AddrLen(proto))
  BY <1>3, <1>4
<1> QED
  BY <1>5, <1>6, <1>7, <1>8, Zenon

(* The four attributes of an InterfaceInfo, each there or not.             *)
IndexPart(e) == IF e.Index > 0 THEN ToOctets(e.Index) ELSE <<>>
AddrPart(e, proto) == IF Len(e.Addr) = AddrLen(proto) THEN marshalIPAddr(e, proto) ELSE <<>>
NamePart(e) == IF e.Index > 0 /\ e.Name # <<>> THEN marshalName(e) ELSE <<>>
MTUPart(e) == IF e.Index > 0 /\ e.MTU > 0 THEN ToOctets(e.MTU) ELSE <<>>

(* An InterfaceInfo is its attributes, one behind the other.               *)
LEMMA InfoParts ==
  ASSUME NEW e \in InterfaceInfo, NEW proto \in {1, 58}
  PROVE  /\ BeforeName(e, proto) = IndexPart(e) \o AddrPart(e, proto)
         /\ marshalInterfaceInfo(e, proto)
              = ((IndexPart(e) \o AddrPart(e, proto)) \o NamePart(e)) \o MTUPart(e)
         /\ IndexPart(e) \in Seq(Filling) /\ Len(IndexPart(e)) = IF e.Index > 0 THEN 4 ELSE 0
         /\ AddrPart(e, proto) \in Seq(Filling)
         /\ Len(AddrPart(e, proto)) = IF Len(e.Addr) = AddrLen(proto) THEN 4 + AddrLen(proto) ELSE 0
         /\ NamePart(e) \in Seq(Filling)
         /\ Len(NamePart(e)) = IF e.Index > 0 /\ e.Name # <<>> THEN nameLen(e) ELSE 0
         /\ MTUPart(e) \in Seq(Filling)
         /\ Len(MTUPart(e)) = IF e.Index > 0 /\ e.MTU > 0 THEN 4 ELSE 0
<1>1. /\ e.Index \in Nat /\ e.MTU \in Nat /\ e.Name \in Seq(Octet) /\ e.Addr \in Seq(Octet)
  BY DEF InterfaceInfo
<1>2. \A s \in Seq(Octet) : s \in Seq(Filling)
  BY DEF Filling
<1>3. BeforeName(e, proto) = IndexPart(e) \o AddrPart(e, proto)
  <2>1. /\ Has(attrsOf(e, proto), attrIfIndex) <=> e.Index > 0
        /\ Has(attrsOf(e, proto), attrIPAddr) <=> Len(e.Addr) = AddrLen(proto)
    BY AttrBits
  <2> QED
    BY <2>1 DEF BeforeName, IndexPart, AddrPart
<1>4. marshalInterfaceInfo(e, proto) = (BeforeName(e, proto) \o NamePart(e)) \o MTUPart(e)
  BY AttrBits, Zenon DEF marshalInterfaceInfo, NamePart, MTUPart
<1>5. <<>> \in Seq(Filling) /\ Len(<<>>) = 0
  OBVIOUS
<1>6. IndexPart(e) \in Seq(Filling) /\ Len(IndexPart(e)) = IF e.Index > 0 THEN 4 ELSE 0
  <2>1. ToOctets(e.Index) \in Seq(Filling) /\ Len(ToOctets(e.Index)) = 4
    BY <1>1, <1>2, Octets
  <2> QED
    <3>1. CASE e.Index > 0
      <4>1. IndexPart(e) = ToOctets(e.Index)
        BY <3>1, Zenon DEF IndexPart
      <4> QED
        BY <2>1, <3>1, <4>1
    <3>2. CASE ~(e.Index > 0)
      <4>1. IndexPart(e) = <<>>
        BY <3>2, Zenon DEF IndexPart
      <4> QED
        BY <1>5, <3>2, <4>1
    <3> QED
      BY <3>1, <3>2
<1>7. MTUPart(e) \in Seq(Filling) /\ Len(MTUPart(e)) = IF e.Index > 0 /\ e.MTU > 0 THEN 4 ELSE 0
  <2>1. ToOctets(e.MTU) \in Seq(Filling) /\ Len(ToOctets(e.MTU)) = 4
    BY <1>1, <1>2, Octets
  <2> QED
    <3>1. CASE e.Index > 0 /\ e.MTU > 0
      <4>1. MTUPart(e) = ToOctets(e.MTU)
        BY <3>1, Zenon DEF MTUPart
      <4> QED
        BY <2>1, <3>1, <4>1
    <3>2. CASE ~(e.Index > 0 /\ e.MTU > 0)
      <4>1. MTUPart(e) = <<>>
        BY <3>2, Zenon DEF MTUPart
      <4> QED
        BY <1>5, <3>2, <4>1
    <3> QED
      BY <3>1, <3>2
<1>8. /\ NamePart(e) \in Seq(Filling)
      /\ Len(NamePart(e)) = IF e.Index > 0 /\ e.Name # <<>> THEN nameLen(e) ELSE 0
  BY <1>5, NameTyped DEF NamePart
<1>9. /\ AddrPart(e, proto) \in Seq(Filling)
      /\ Len(AddrPart(e, proto)) = IF Len(e.Addr) = AddrLen(proto) THEN 4 + AddrLen(proto) ELSE 0
  <2>1. PICK f \in {1, 2} : f = IF proto = 1 THEN 1 ELSE 2
    OBVIOUS
  <2>2. <<0, f, Unwritten, Unwritten>> \in Seq(Filling) /\ Len(<<0, f, Unwritten, Unwritten>>) = 4
    BY DEF Filling, Octet
  <2>3. marshalIPAddr(e, proto) = <<0, f, Unwritten, Unwritten>> \o e.Addr
    BY <2>1 DEF marshalIPAddr
  <2>4. \A s, t \in Seq(Filling) : s \o t \in Seq(Filling) /\ Len(s \o t) = Len(s) + Len(t)
    OBVIOUS
  <2>5. /\ marshalIPAddr(e, proto) \in Seq(Filling)
        /\ Len(marshalIPAddr(e, proto)) = 4 + Len(e.Addr)
    BY <1>1, <1>2, <2>2, <2>3, <2>4
  <2> QED
    BY <1>5, <2>5 DEF AddrPart
<1> QED
  BY <1>3, <1>4, <1>6, <1>7, <1>8, <1>9
(* The octets of an InterfaceInfo.                                         *)
LEMMA InfoTyped ==
  ASSUME NEW e \in InterfaceInfo, NEW proto \in {1, 58}
  PROVE  BeforeName(e, proto) \in Seq(Filling) /\ marshalInterfaceInfo(e, proto) \in Seq(Filling)
<1>1. \A s, t \in Seq(Filling) : s \o t \in Seq(Filling)
  OBVIOUS
<1>2. /\ BeforeName(e, proto) = IndexPart(e) \o AddrPart(e, proto)
      /\ marshalInterfaceInfo(e, proto)
           = ((IndexPart(e) \o AddrPart(e, proto)) \o NamePart(e)) \o MTUPart(e)
      /\ IndexPart(e) \in Seq(Filling) /\ AddrPart(e, proto) \in Seq(Filling)
      /\ NamePart(e) \in Seq(Filling) /\ MTUPart(e) \in Seq(Filling)
  BY InfoParts
<1> QED
  BY <1>1, <1>2, ZenonT(60)

(* The octets of an InterfaceIdent.                                        *)
LEMMA IdentTyped ==
  ASSUME NEW e \in InterfaceIdent
  PROVE  marshalInterfaceIdent(e) \in Seq(Filling)
<1>1. e.Name \in Seq(Octet) /\ e.Addr \in Seq(Octet) /\ e.Index \in Nat /\ e.AFI \in Nat
  BY DEF InterfaceIdent
<1>2. \A s \in Seq(Octet) : s \in Seq(Filling)
  BY DEF Filling
<1>2a. /\ typeInterfaceByName # typeInterfaceByIndex
      /\ typeInterfaceByName # typeInterfaceByAddress
      /\ typeInterfaceByIndex # typeInterfaceByAddress
  BY DEF typeInterfaceByName, typeInterfaceByIndex, typeInterfaceByAddress
<1>3. CASE e.Type = typeInterfaceByName
  <2>1. PICK n \in Nat : n = Min({Len(e.Name), 255})
    BY <1>1 DEF Min
  <2>2. Fit(e.Name, Up4(n)) \in Seq(Filling)
    BY <1>1, FitTyped, RoundedUp
  <2> QED
    <3>1. marshalInterfaceIdent(e) = Fit(e.Name, Up4(Min({Len(e.Name), 255})))
      BY <1>3, <1>2a, Zenon DEF marshalInterfaceIdent
    <3> QED
      BY <2>1, <2>2, <3>1
<1>4. CASE e.Type = typeInterfaceByIndex
  <2>1. ToOctets(e.Index) \in Seq(Filling)
    BY <1>1, <1>2, Octets
  <2> QED
    <3>1. marshalInterfaceIdent(e) = ToOctets(e.Index)
      BY <1>4, <1>2a, Zenon DEF marshalInterfaceIdent
    <3> QED
      BY <2>1, <3>1
<1>5. CASE e.Type = typeInterfaceByAddress
  <2>1. PICK l \in Nat : l = Len(e.Addr)
    BY <1>1
  <2>2. PICK a \in Octet, b \in Octet, c \in Octet :
          a = (e.AFI \div 256) % 256 /\ b = e.AFI % 256 /\ c = l % 256
    <3>1. \A n \in Nat : n % 256 \in Octet
      BY DEF Octet
    <3>2. e.AFI \div 256 \in Nat
      BY <1>1
    <3> QED
      BY <1>1, <3>1, <3>2
  <2>3. <<a, b, c, Unwritten>> \in Seq(Filling)
    BY DEF Filling
  <2>4. Fit(e.Addr, Up4(l)) \in Seq(Filling)
    BY <1>1, FitTyped, RoundedUp
  <2>5. \A s, t \in Seq(Filling) : s \o t \in Seq(Filling)
    OBVIOUS
  <2>6. <<a, b, c, Unwritten>> \o Fit(e.Addr, Up4(l)) \in Seq(Filling)
    BY <2>3, <2>4, <2>5
  <2>7. marshalInterfaceIdent(e) = <<a, b, c, Unwritten>> \o Fit(e.Addr, Up4(l))
    BY <1>5, <1>2a, <2>1, <2>2, ZenonT(60) DEF marshalInterfaceIdent
  <2> QED
    BY <2>6, <2>7
<1>6. CASE e.Type \notin {typeInterfaceByName, typeInterfaceByIndex, typeInterfaceByAddress}
  <2>1. marshalInterfaceIdent(e) = <<>>
    BY <1>6, Zenon DEF marshalInterfaceIdent
  <2> QED
    BY <2>1
<1> QED
  BY <1>3, <1>4, <1>5, <1>6, Zenon

(* Each kind of extension is of its own type.                              *)
LEMMA Kinds ==
  ASSUME NEW e \in Extension
  PROVE  /\ e.kind \in {"mpls", "info", "ident", "raw"}
         /\ e.kind = "mpls" => e \in MPLSLabelStack
         /\ e.kind = "info" => e \in InterfaceInfo
         /\ e.kind = "ident" => e \in InterfaceIdent
         /\ e.kind = "raw" => e \in RawExtension
<1>1. ASSUME e \in MPLSLabelStack PROVE e.kind = "mpls"
  BY <1>1 DEF MPLSLabelStack
<1>2. ASSUME e \in InterfaceInfo PROVE e.kind = "info"
  BY <1>2 DEF InterfaceInfo
<1>3. ASSUME e \in InterfaceIdent PROVE e.kind = "ident"
  BY <1>3 DEF InterfaceIdent
<1>4. ASSUME e \in RawExtension PROVE e.kind = "raw"
  BY <1>4 DEF RawExtension
<1>5. \/ e \in MPLSLabelStack \/ e \in InterfaceInfo
      \/ e \in InterfaceIdent \/ e \in RawExtension
  BY Zenon DEF Extension
<1> QED
  BY <1>1, <1>2, <1>3, <1>4, <1>5

(* What is written behind an object's header, and how long the object is.  *)
LEMMA PayloadTyped ==
  ASSUME NEW e \in Extension, NEW proto \in {1, 58}
  PROVE  /\ Payload(e, proto) \in Seq(Filling)
         /\ Len(Payload(e, proto)) \in Nat
         /\ ExtensionLen(e, proto) \in Nat
         /\ ExtensionLen(e, proto) # 0 => ExtensionLen(e, proto) = 4 + Len(Payload(e, proto))
         /\ e.kind # "raw" \/ e.Data # <<>> => ExtensionLen(e, proto) # 0
<1>1. \A s \in Seq(Octet) : s \in Seq(Filling)
  BY DEF Filling
<1>2. Payload(e, proto) \in Seq(Filling)
  <2>1. CASE e.kind = "mpls"
    BY <1>1, <2>1, Kinds, StackTyped DEF Payload
  <2>2. CASE e.kind = "info"
    BY <2>2, Kinds, InfoTyped DEF Payload
  <2>3. CASE e.kind = "ident"
    BY <2>3, Kinds, IdentTyped DEF Payload
  <2>4. CASE e.kind = "raw"
    <3>1. e.Data \in Seq(Object)
      BY <2>4, Kinds DEF RawExtension
    <3>2. e.Data # <<>> => e.Data[1] \in Object
      BY <3>1
    <3>3. e.Data # <<>> => e.Data[1].octets \in Seq(Filling)
      BY <1>1, <3>2 DEF Object
    <3>4. <<>> \in Seq(Filling)
      OBVIOUS
    <3> QED
      BY <2>4, <3>3, <3>4 DEF Payload
  <2> QED
    BY <2>1, <2>2, <2>3, <2>4, Kinds
<1>3. Len(Payload(e, proto)) \in Nat
  BY <1>2
<1> QED
  BY <1>2, <1>3 DEF ExtensionLen
(* What a name that is too long writes over: octets, somewhere.            *)
LEMMA SpillTyped ==
  ASSUME NEW e \in Extension, NEW proto \in {1, 58}
  PROVE  Spill(e, proto).at \in Nat /\ Spill(e, proto).text \in Seq(Octet)
<1> DEFINE spills == \/ e.kind = "info" /\ e.Index > 0
                     \/ e.kind = "ident" /\ e.Type = typeInterfaceByName
           fits == IF e.kind = "info" THEN 63 ELSE 256
           at == IF e.kind = "info" THEN 4 + Len(BeforeName(e, proto)) + 64 ELSE 4 + 256
<1>1. fits + 1 \in Nat /\ fits + 1 \geq 1
  OBVIOUS
<1>2. CASE spills
  <2>1. e.Name \in Seq(Octet)
    BY <1>2, Kinds DEF InterfaceInfo, InterfaceIdent
  <2>2. at \in Nat
    <3>1. e.kind = "info" => Len(BeforeName(e, proto)) \in Nat
      BY Kinds, InfoTyped
    <3> QED
      BY <3>1
  <2>3. Spill(e, proto) = [at |-> at, text |-> SubSeq(e.Name, fits + 1, Len(e.Name))]
    BY <1>2, Zenon DEF Spill
  <2> HIDE DEF spills, fits, at
  <2>4. SubSeq(e.Name, fits + 1, Len(e.Name)) \in Seq(Octet)
    BY <1>1, <2>1
  <2> QED
    BY <2>2, <2>3, <2>4
<1>3. CASE ~spills
  <2>1. Spill(e, proto) = [at |-> 0, text |-> <<>>]
    BY <1>3, Zenon DEF Spill
  <2> QED
    BY <2>1
<1> QED
  BY <1>2, <1>3

(* A set of numbers with a bound has a greatest element.                   *)
LEMMA MaxIn ==
  ASSUME NEW n \in Nat, NEW S \in SUBSET (0 .. n), S # {}
  PROVE  Max(S) \in S /\ \A y \in S : Max(S) >= y
<1> DEFINE T == {n - y : y \in S}
<1>1. T \in SUBSET Nat /\ T # {}
  OBVIOUS
<1>2. PICK t \in T : \A u \in T : t <= u
  BY <1>1, LeastExists
<1>3. PICK x \in S : t = n - x
  OBVIOUS
<1>4. \A y \in S : n - x <= n - y
  BY <1>2, <1>3
<1>5. \A y \in S : x >= y
  <2> SUFFICES ASSUME NEW y \in S
               PROVE  x >= y
    OBVIOUS
  <2>1. x \in Int /\ y \in Int
    OBVIOUS
  <2> QED
    BY <1>4, <2>1
<1> QED
  BY <1>5, Zenon DEF Max

(* The octets of the extensions, one number for each.                      *)
LEMMA LensTyped ==
  ASSUME NEW exts \in Seq(Extension), NEW proto \in {1, 58}
  PROVE  /\ Lens(exts, proto) \in Seq(Nat) /\ Len(Lens(exts, proto)) = Len(exts)
         /\ \A k \in 1 .. Len(exts) : Lens(exts, proto)[k] = ExtensionLen(exts[k], proto)
<1>1. DOMAIN exts = 1 .. Len(exts) /\ Len(exts) \in Nat
  OBVIOUS
<1>2. \A k \in 1 .. Len(exts) : ExtensionLen(exts[k], proto) \in Nat
  BY PayloadTyped
<1>3. Lens(exts, proto) = [k \in 1 .. Len(exts) |-> ExtensionLen(exts[k], proto)]
  BY <1>1 DEF Lens
<1> QED
  BY <1>1, <1>2, <1>3

(* What is at an octet that an extension does not write: zero, or an octet *)
(* of a name before it that was too long, and zero if there is none.       *)
LEMMA UnderTyped ==
  ASSUME NEW exts \in Seq(Extension), NEW proto \in {1, 58},
         NEW k \in 1 .. Len(exts), NEW x \in Nat
  PROVE  /\ Under(exts, proto, k, x) \in Octet
         /\ (\A j \in 1 .. k - 1 : Spill(exts[j], proto).text = <<>>) => Under(exts, proto, k, x) = 0
<1> DEFINE lens == Lens(exts, proto)
           Runs(j) == Spill(exts[j], proto)
           Into(j) == x - (LenTo(lens, j - 1) + Runs(j).at)
           over == {j \in 1 .. k - 1 : Into(j) \in DOMAIN Runs(j).text}
           value == Runs(Max(over)).text[Into(Max(over))]
<1>1. Under(exts, proto, k, x) = IF over = {} THEN 0 ELSE value
  BY Zenon DEF Under
<1>2. \A j \in 1 .. k - 1 : Runs(j).text \in Seq(Octet)
  BY SpillTyped
<1>3. ASSUME over # {}
      PROVE  value \in Octet
  <2>1. k - 1 \in Nat /\ over \in SUBSET (0 .. k - 1)
    OBVIOUS
  <2> HIDE DEF over
  <2>2. PICK m \in over : m = Max(over)
    BY <1>3, <2>1, MaxIn
  <2>3. m \in 1 .. k - 1 /\ Into(m) \in DOMAIN Runs(m).text
    BY <2>2 DEF over
  <2> HIDE DEF Runs, Into
  <2>4. Runs(m).text[Into(m)] \in Octet
    BY <1>2, <2>3
  <2> QED
    BY <2>2, <2>4
<1>4. ASSUME \A j \in 1 .. k - 1 : Runs(j).text = <<>>
      PROVE  over = {}
  <2>1. DOMAIN <<>> = {}
    OBVIOUS
  <2> QED
    BY <1>4, <2>1
<1>5. 0 \in Octet
  BY DEF Octet
<1> HIDE DEF over, value
<1> QED
  BY <1>1, <1>3, <1>4, <1>5
(* An object's octets if nothing was there before it was written.          *)
Filled(payload) == [i \in DOMAIN payload |-> IF payload[i] = Unwritten THEN 0 ELSE payload[i]]
ClassOf(e) == IF e.kind = "raw" THEN e.Data[1].class ELSE Class[e.kind]

(* The class and the Type of an object that is written are octets.         *)
LEMMA HeaderTyped ==
  ASSUME NEW e \in Extension, e.kind # "raw" \/ e.Data # <<>>
  PROVE  ClassOf(e) \in Octet /\ TypeOctet(e) \in Octet
<1>1. CASE e.kind = "mpls"
  BY <1>1 DEF ClassOf, TypeOctet, Class, Octet
<1>2. CASE e.kind = "info"
  <2>1. e.Type \in Octet
    BY <1>2, Kinds DEF InterfaceInfo
  <2> QED
    BY <1>2, <2>1 DEF ClassOf, TypeOctet, Class, Octet
<1>3. CASE e.kind = "ident"
  <2>1. e.Type \in Octet
    BY <1>3, Kinds DEF InterfaceIdent
  <2> QED
    BY <1>3, <2>1 DEF ClassOf, TypeOctet, Class, Octet
<1>4. CASE e.kind = "raw"
  <2>1. e.Data \in Seq(Object)
    BY <1>4, Kinds DEF RawExtension
  <2>2. e.Data[1] \in Object
    BY <1>4, <2>1
  <2>3. e.Data[1].class \in Octet /\ e.Data[1].Type \in Octet
    BY <2>2 DEF Object
  <2> QED
    BY <1>4, <2>3 DEF ClassOf, TypeOctet
<1> QED
  BY <1>1, <1>2, <1>3, <1>4, Kinds

(* The object an extension becomes: as long as its Len says, and what is   *)
(* not written is zero unless a name before it was too long.               *)
LEMMA ObjectAtTyped ==
  ASSUME NEW exts \in Seq(Extension), NEW proto \in {1, 58}, NEW k \in 1 .. Len(exts),
         ExtensionLen(exts[k], proto) # 0
  PROVE  LET o == ObjectAt(exts, proto, k)
             e == exts[k]
         IN /\ o \in Object /\ o.len = ExtensionLen(e, proto) /\ o.len >= 4
            /\ o.class = ClassOf(e) /\ o.Type = TypeOctet(e)
            /\ (\A j \in 1 .. k - 1 : Spill(exts[j], proto).text = <<>>)
                 => o.octets = Filled(Payload(e, proto))
<1> DEFINE o == ObjectAt(exts, proto, k)
           e == exts[k]
           payload == Payload(e, proto)
           start == LenTo(Lens(exts, proto), k - 1) + 4
           At(i) == IF payload[i] = Unwritten THEN Under(exts, proto, k, start + i) ELSE payload[i]
           octets == [i \in DOMAIN payload |-> At(i)]
<1>1. e \in Extension /\ k - 1 \in 0 .. Len(exts)
  OBVIOUS
<1>2. o = [class |-> ClassOf(e), Type |-> TypeOctet(e), len |-> 4 + Len(payload), octets |-> octets]
  BY Zenon DEF ObjectAt, ClassOf
<1>3. payload \in Seq(Filling) /\ Len(payload) \in Nat /\ ExtensionLen(e, proto) = 4 + Len(payload)
  BY <1>1, PayloadTyped
<1>4. ClassOf(e) \in Octet /\ TypeOctet(e) \in Octet
  <2>1. e.kind # "raw" \/ e.Data # <<>>
    BY DEF ExtensionLen
  <2> QED
    BY <1>1, <2>1, HeaderTyped
<1>5. start \in Nat
  <2>1. Lens(exts, proto) \in Seq(Nat) /\ Len(Lens(exts, proto)) = Len(exts)
    BY LensTyped
  <2>2. \A j \in 0 .. Len(exts) : LenTo(Lens(exts, proto), j) \in Nat
    BY <2>1, LenToStep
  <2> QED
    BY <1>1, <2>2
<1> HIDE DEF payload, start, o, e
<1>6. \A i \in DOMAIN payload : i \in Nat /\ start + i \in Nat
  BY <1>3, <1>5
<1>7. \A i \in DOMAIN payload : At(i) \in Octet
  BY <1>3, <1>6, UnderTyped DEF Filling
<1>8. DOMAIN payload = 1 .. Len(payload)
  BY <1>3
<1>9. octets \in Seq(Octet) /\ Len(octets) = Len(payload)
  <2> HIDE DEF At
  <2> QED
    BY <1>3, <1>7, <1>8
<1>10. ASSUME \A j \in 1 .. k - 1 : Spill(exts[j], proto).text = <<>>
       PROVE  octets = Filled(payload)
  BY <1>6, <1>10, UnderTyped DEF Filled
<1> HIDE DEF octets
<1>11. o \in Object
  BY <1>2, <1>3, <1>4, <1>9 DEF Object
<1> QED
  BY <1>2, <1>3, <1>10, <1>11 DEF o, e, payload

(* The objects of a message, in the order of its extensions.               *)
LEMMA ObjectsTyped ==
  ASSUME NEW exts \in Seq(Extension), NEW proto \in {1, 58}
  PROVE  /\ Objects(exts, proto) \in Seq(Object)
         /\ (\A k \in 1 .. Len(exts) : ExtensionLen(exts[k], proto) # 0) =>
              /\ Len(Objects(exts, proto)) = Len(exts)
              /\ \A k \in 1 .. Len(exts) : Objects(exts, proto)[k] = ObjectAt(exts, proto, k)
<1> DEFINE n == Len(exts)
           V == Seq(Object)
           Go(k, s) == IF ExtensionLen(exts[k], proto) = 0 THEN s
                       ELSE Append(s, ObjectAt(exts, proto, k))
           step == [p \in (1 .. n) \X V |-> Go(p[1], p[2])]
           Sent == CHOOSE g : g = [k \in 0 .. n |->
                     IF k = 0 THEN <<>>
                     ELSE IF ExtensionLen(exts[k], proto) = 0 THEN g[k - 1]
                     ELSE Append(g[k - 1], ObjectAt(exts, proto, k))]
<1>1. n \in Nat /\ <<>> \in V
  OBVIOUS
<1>2. \A k \in 1 .. n, s \in V : Go(k, s) \in V
  BY ObjectAtTyped
<1>3. Objects(exts, proto) = Sent[n]
  BY Zenon DEF Objects
<1> HIDE DEF n, V, Go
<1>4. step \in [(1 .. n) \X V -> V]
  BY <1>2
<1>5. \A k \in 1 .. n, s \in V : step[<<k, s>>] = Go(k, s)
  OBVIOUS
<1> HIDE DEF step
<1>6. PICK g \in [0 .. n -> V] : Recurs(g, n, <<>>, step)
  BY <1>1, <1>4, Recursion, Zenon
<1>7. \A i \in 0 .. n : i # 0 => i \in 1 .. n /\ i - 1 \in 0 .. n
  BY <1>1
<1>8. \A i \in 0 .. n : g[i] = IF i = 0 THEN <<>> ELSE Go(i, g[i - 1])
  <2> SUFFICES ASSUME NEW i \in 0 .. n
               PROVE  g[i] = IF i = 0 THEN <<>> ELSE Go(i, g[i - 1])
    OBVIOUS
  <2>1. CASE i = 0
    BY <1>6, <2>1, Zenon DEF Recurs
  <2>2. CASE i # 0
    <3>1. i \in 1 .. n /\ g[i - 1] \in V
      BY <1>7, <2>2
    <3>2. g[i] = step[<<i, g[i - 1]>>]
      BY <1>6, <3>1, Zenon DEF Recurs
    <3>3. g[i] = Go(i, g[i - 1])
      BY <1>5, <3>1, <3>2, Zenon
    <3> QED
      BY <2>2, <3>3, Zenon
  <2> QED
    BY <2>1, <2>2
<1>9. g = [k \in 0 .. n |-> IF k = 0 THEN <<>>
                             ELSE IF ExtensionLen(exts[k], proto) = 0 THEN g[k - 1]
                             ELSE Append(g[k - 1], ObjectAt(exts, proto, k))]
  BY <1>8 DEF Go
<1>10. Sent = [k \in 0 .. n |-> IF k = 0 THEN <<>>
                                ELSE IF ExtensionLen(exts[k], proto) = 0 THEN Sent[k - 1]
                                ELSE Append(Sent[k - 1], ObjectAt(exts, proto, k))]
  BY <1>9, ZenonT(60)
<1> HIDE DEF Sent
<1>11. Sent[0] = <<>> /\ \A i \in 1 .. n : Sent[i] = Go(i, Sent[i - 1])
  <2>1. 0 \in 0 .. n /\ \A i \in 1 .. n : i \in 0 .. n /\ i # 0
    BY <1>1
  <2> DEFINE Is(k) == IF k = 0 THEN <<>>
                      ELSE IF ExtensionLen(exts[k], proto) = 0 THEN Sent[k - 1]
                      ELSE Append(Sent[k - 1], ObjectAt(exts, proto, k))
             F == [k \in 0 .. n |-> Is(k)]
  <2>2. \A i \in 0 .. n : F[i] = Is(i)
    OBVIOUS
  <2>3. Sent = F
    BY <1>10, Zenon
  <2> HIDE DEF F
  <2>4. \A i \in 0 .. n : Sent[i] = Is(i)
    BY <2>2, <2>3, Zenon
  <2> QED
    BY <2>1, <2>4, Zenon DEF Go
<1>12. \A i \in 0 .. n : Sent[i] \in V
  <2> DEFINE T == {i \in 0 .. n : Sent[i] \in V}
  <2>1. 0 \in T
    BY <1>1, <1>11
  <2>2. ASSUME NEW i \in 0 .. n - 1, i \in T
        PROVE  i + 1 \in T
    <3>1. i + 1 \in 1 .. n /\ i + 1 \in 0 .. n /\ (i + 1) - 1 = i
      BY <1>1
    <3>2. Sent[i + 1] = Go(i + 1, Sent[i])
      BY <1>11, <3>1
    <3> QED
      BY <1>2, <2>2, <3>1, <3>2
  <2> HIDE DEF T
  <2>3. \A i \in 0 .. n : i \in T
    BY <1>1, <2>1, <2>2, UpTo
  <2> QED
    BY <2>3 DEF T
<1>13. ASSUME \A k \in 1 .. n : ExtensionLen(exts[k], proto) # 0
       PROVE  Len(Sent[n]) = n /\ \A k \in 1 .. n : Sent[n][k] = ObjectAt(exts, proto, k)
  <2> DEFINE Upto(i) == Len(Sent[i]) = i /\ \A k \in 1 .. i : Sent[i][k] = ObjectAt(exts, proto, k)
             T == {i \in 0 .. n : Upto(i)}
  <2>1. 0 \in T
    BY <1>1, <1>11
  <2>2. ASSUME NEW i \in 0 .. n - 1, i \in T
        PROVE  i + 1 \in T
    <3>1. i + 1 \in 1 .. n /\ i + 1 \in 0 .. n /\ (i + 1) - 1 = i /\ i \in 0 .. n
      BY <1>1
    <3>2. Sent[i + 1] = Append(Sent[i], ObjectAt(exts, proto, i + 1))
      BY <1>11, <1>13, <3>1 DEF Go
    <3>3. Sent[i] \in Seq(Object) /\ Upto(i)
      BY <1>12, <2>2, <3>1 DEF V
    <3>4. ObjectAt(exts, proto, i + 1) \in Object
      BY <1>13, <3>1, ObjectAtTyped DEF n
    <3>5. \A s \in Seq(Object), x \in Object :
            /\ Len(Append(s, x)) = Len(s) + 1 /\ Append(s, x)[Len(s) + 1] = x
            /\ \A k \in 1 .. Len(s) : Append(s, x)[k] = s[k]
      OBVIOUS
    <3>6. Len(Sent[i + 1]) = i + 1 /\ Sent[i + 1][i + 1] = ObjectAt(exts, proto, i + 1)
      BY <3>2, <3>3, <3>4, <3>5
    <3>7. \A k \in 1 .. i : Sent[i + 1][k] = Sent[i][k]
      BY <3>2, <3>3, <3>4, <3>5
    <3>8. \A k \in 1 .. i + 1 : k \in 1 .. i \/ k = i + 1
      BY <3>1
    <3> QED
      BY <3>1, <3>3, <3>6, <3>7, <3>8
  <2> HIDE DEF T
  <2>3. \A i \in 0 .. n : i \in T
    BY <1>1, <2>1, <2>2, UpTo
  <2>4. n \in T
    BY <1>1, <2>3
  <2> QED
    BY <2>4 DEF T
<1>14. n \in 0 .. n
  BY <1>1
<1> QED
  BY <1>3, <1>12, <1>13, <1>14 DEF V, n
-----------------------------------------------------------------------------
(* The types of what is parsed.                                            *)

(* A part of the octets.                                                   *)
LEMMA PartTyped ==
  ASSUME NEW b \in Seq(Octet), NEW i \in Nat, NEW j \in Nat, 1 <= i, i <= j + 1, j <= Len(b)
  PROVE  /\ SubSeq(b, i, j) \in Seq(Octet) /\ Len(SubSeq(b, i, j)) = j - i + 1
         /\ \A x \in 1 .. j - i + 1 : SubSeq(b, i, j)[x] = b[i + x - 1]
  OBVIOUS

(* Trim takes the zeros from both ends, and leaves a part of the text.     *)
LEMMA TrimTyped ==
  ASSUME NEW text \in Seq(Octet)
  PROVE  Trim(text) \in Seq(Octet)
<1> DEFINE nonzero == {i \in DOMAIN text : text[i] # 0}
<1>1. DOMAIN text = 1 .. Len(text) /\ Len(text) \in Nat
  OBVIOUS
<1>2. CASE nonzero = {}
  BY <1>2 DEF Trim
<1>3. CASE nonzero # {}
  <2>1. nonzero \in SUBSET (0 .. Len(text)) /\ nonzero \in SUBSET Nat
    BY <1>1
  <2> HIDE DEF nonzero
  <2>2. PICK hi \in nonzero : hi = Max(nonzero) /\ \A y \in nonzero : hi >= y
    BY <1>1, <1>3, <2>1, MaxIn
  <2>3. PICK lo \in nonzero : lo = Min(nonzero)
    BY <1>3, <2>1, LeastExists, Zenon DEF Min
  <2>4. lo \in 1 .. Len(text) /\ hi \in 1 .. Len(text) /\ lo <= hi
    BY <1>1, <2>2, <2>3 DEF nonzero
  <2>5. SubSeq(text, lo, hi) \in Seq(Octet)
    BY <2>4, PartTyped
  <2>6. Trim(text) = SubSeq(text, lo, hi)
    BY <1>3, <2>2, <2>3 DEF Trim, nonzero
  <2> QED
    BY <2>5, <2>6
<1> QED
  BY <1>2, <1>3

(* Four octets make a number.                                              *)
LEMMA NumberTyped ==
  ASSUME NEW b \in Seq(Octet), NEW at \in Nat, at + 4 <= Len(b)
  PROVE  Number(b, at) \in Nat
<1>1. b[at + 1] \in Octet /\ b[at + 2] \in Octet /\ b[at + 3] \in Octet /\ b[at + 4] \in Octet
  OBVIOUS
<1>2. \A w, x, y, z \in Octet : ((w * 256 + x) * 256 + y) * 256 + z \in Nat
  BY DEF Octet
<1>3. PICK w \in Octet, x \in Octet, y \in Octet, z \in Octet :
        w = b[at + 1] /\ x = b[at + 2] /\ y = b[at + 3] /\ z = b[at + 4]
  BY <1>1
<1>4. Number(b, at) = ((w * 256 + x) * 256 + y) * 256 + z
  BY <1>3 DEF Number
<1> QED
  BY <1>2, <1>4

(* parseMPLSLabelStack never fails.                                        *)
LEMMA ParsedStack ==
  ASSUME NEW o \in Object
  PROVE  \E e \in MPLSLabelStack : parseMPLSLabelStack(o) = <<e>>
<1>0. PICK b \in Seq(Octet) : b = o.octets
  BY DEF Object
<1>1. PICK l \in Nat : l = Len(b)
  OBVIOUS
<1>2. PICK n \in Nat : n = l \div 4 /\ 4 * n <= l
  OBVIOUS
<1> DEFINE labels == [k \in 1 .. n |-> parseLabel(b, 4 * (k - 1))]
<1>3. ASSUME NEW k \in 1 .. n
      PROVE  parseLabel(b, 4 * (k - 1)) \in MPLSLabel
  <2>1. PICK at \in Nat : at = 4 * (k - 1) /\ at + 4 <= l
    BY <1>2
  <2>2. PICK w \in Octet, x \in Octet, y \in Octet, z \in Octet :
          w = b[at + 1] /\ x = b[at + 2] /\ y = b[at + 3] /\ z = b[at + 4]
    <3>1. at + 1 \in 1 .. l /\ at + 2 \in 1 .. l /\ at + 3 \in 1 .. l /\ at + 4 \in 1 .. l
      BY <2>1
    <3>2. \A i \in 1 .. l : b[i] \in Octet
      BY <1>1
    <3> QED
      BY <3>1, <3>2
  <2>3. parseLabel(b, at) = [Label |-> w * 4096 + x * 16 + y \div 16,
                             TC |-> (y % 16) \div 2, S |-> y % 2, TTL |-> z]
    BY <2>2 DEF parseLabel
  <2>4. /\ w * 4096 + x * 16 + y \div 16 \in Nat /\ (y % 16) \div 2 \in Nat
        /\ y % 2 \in {0, 1} /\ z \in Nat
    BY DEF Octet
  <2> QED
    BY <2>1, <2>3, <2>4 DEF MPLSLabel
<1>4. labels \in Seq(MPLSLabel)
  BY <1>3
<1> HIDE DEF labels
<1>5. [kind |-> "mpls", Labels |-> labels] \in MPLSLabelStack
  BY <1>4 DEF MPLSLabelStack
<1> QED
  BY <1>0, <1>1, <1>2, <1>5 DEF parseMPLSLabelStack, labels

(* parseInterfaceIdent.                                                    *)
LEMMA ParsedIdent ==
  ASSUME NEW o \in Object, parseInterfaceIdent(o) # errInvalidExtension
  PROVE  \E e \in InterfaceIdent : parseInterfaceIdent(o) = <<e>>
<1> DEFINE b == o.octets
           ifi == [kind |-> "ident", Type |-> o.Type, Name |-> <<>>, Index |-> 0, AFI |-> 0,
                   Addr |-> <<>>]
<1>1. b \in Seq(Octet) /\ o.Type \in Octet /\ Len(b) \in Nat
  BY DEF Object
<1>2. ifi \in InterfaceIdent
  BY <1>1 DEF InterfaceIdent
<1>3. /\ typeInterfaceByName # typeInterfaceByIndex
      /\ typeInterfaceByName # typeInterfaceByAddress
      /\ typeInterfaceByIndex # typeInterfaceByAddress
  BY DEF typeInterfaceByName, typeInterfaceByIndex, typeInterfaceByAddress
<1>4. CASE o.Type = typeInterfaceByName
  <2>1. parseInterfaceIdent(o) = <<[ifi EXCEPT !.Name = Trim(b)]>>
    BY <1>3, <1>4, Zenon DEF parseInterfaceIdent
  <2>2. [ifi EXCEPT !.Name = Trim(b)] \in InterfaceIdent
    BY <1>1, <1>2, TrimTyped DEF InterfaceIdent
  <2> QED
    BY <2>1, <2>2
<1>5. CASE o.Type = typeInterfaceByIndex
  <2>1. Len(b) >= 4
    <3> SUFFICES ASSUME ~(Len(b) >= 4)
                 PROVE  FALSE
      OBVIOUS
    <3>1. Len(b) < 4
      BY <1>1
    <3>2. parseInterfaceIdent(o) = errInvalidExtension
      BY <1>3, <1>5, <3>1, Zenon DEF parseInterfaceIdent
    <3> QED
      BY <3>2
  <2>2. parseInterfaceIdent(o) = <<[ifi EXCEPT !.Index = Number(b, 0)]>>
    <3>1. ~(Len(b) < 4)
      BY <1>1, <2>1
    <3> QED
      BY <1>3, <1>5, <2>1, <3>1, Zenon DEF parseInterfaceIdent
  <2>3. Number(b, 0) \in Nat
    BY <1>1, <2>1, NumberTyped
  <2>4. [ifi EXCEPT !.Index = Number(b, 0)] \in InterfaceIdent
    BY <1>2, <2>3 DEF InterfaceIdent
  <2> QED
    BY <2>2, <2>4
<1>6. CASE o.Type = typeInterfaceByAddress
  <2>1. Len(b) >= 4
    <3> SUFFICES ASSUME ~(Len(b) >= 4)
                 PROVE  FALSE
      OBVIOUS
    <3>1. Len(b) < 4
      BY <1>1
    <3>2. parseInterfaceIdent(o) = errInvalidExtension
      BY <1>3, <1>6, <3>1, Zenon DEF parseInterfaceIdent
    <3> QED
      BY <3>2
  <2>2. parseInterfaceIdent(o) =
          IF Len(b) - 4 < b[3] THEN errInvalidExtension
          ELSE <<[ifi EXCEPT !.AFI = b[1] * 256 + b[2], !.Addr = SubSeq(b, 5, 4 + b[3])]>>
    <3>1. ~(Len(b) < 4)
      BY <1>1, <2>1
    <3> QED
      BY <1>3, <1>6, <2>1, <3>1, Zenon DEF parseInterfaceIdent
  <2>3. b[1] \in Octet /\ b[2] \in Octet /\ b[3] \in Octet
    BY <1>1, <2>1
  <2>4. ~(Len(b) - 4 < b[3])
    BY <2>2
  <2>5. b[1] * 256 + b[2] \in Nat
    <3>1. \A x, y \in Octet : x * 256 + y \in Nat
      BY DEF Octet
    <3> QED
      BY <2>3, <3>1, Zenon
  <2>6. SubSeq(b, 5, 4 + b[3]) \in Seq(Octet)
    <3>1. PICK j \in Nat : j = 4 + b[3]
      BY <2>3 DEF Octet
    <3>2. 5 <= j + 1 /\ j <= Len(b)
      <4>1. \A x \in Octet, m \in Nat : ~(m - 4 < x) => 5 <= (4 + x) + 1 /\ 4 + x <= m
        BY DEF Octet
      <4> QED
        BY <1>1, <2>3, <2>4, <3>1, <4>1, Zenon
    <3> QED
      BY <1>1, <3>1, <3>2, PartTyped
  <2>7. [ifi EXCEPT !.AFI = b[1] * 256 + b[2], !.Addr = SubSeq(b, 5, 4 + b[3])] \in InterfaceIdent
    BY <1>2, <2>5, <2>6 DEF InterfaceIdent
  <2> QED
    BY <2>2, <2>4, <2>7
<1>7. CASE o.Type \notin {typeInterfaceByName, typeInterfaceByIndex, typeInterfaceByAddress}
  <2>1. parseInterfaceIdent(o) = <<ifi>>
    BY <1>7, Zenon DEF parseInterfaceIdent
  <2> QED
    BY <1>2, <2>1
<1> QED
  BY <1>4, <1>5, <1>6, <1>7
(* parseInterfaceInfo.                                                     *)
LEMMA ParsedInfo ==
  ASSUME NEW o \in Object, parseInterfaceInfo(o) # errInvalidExtension
  PROVE  \E e \in InterfaceInfo : parseInterfaceInfo(o) = <<e>>
<1> DEFINE b == o.octets
           Left(at) == Len(b) - at
           Reads(attr, at) == Has(o.Type, attr) /\ Left(at) > 0
           addrAt == IF Reads(attrIfIndex, 0) THEN 4 ELSE 0
           afi == IF Left(addrAt) >= 4 THEN b[addrAt + 1] * 256 + b[addrAt + 2] ELSE 0
           addrLen == 4 + (IF afi = 1 THEN 4 ELSE IF afi = 2 THEN 16 ELSE 0)
           nameAt == IF Reads(attrIPAddr, addrAt) THEN addrAt + addrLen ELSE addrAt
           l == IF Left(nameAt) > 0 THEN b[nameAt + 1] ELSE 0
           mtuAt == IF Reads(attrName, nameAt) THEN nameAt + l ELSE nameAt
           end == IF Reads(attrMTU, mtuAt) THEN mtuAt + 4 ELSE mtuAt
           Addr == IF Reads(attrIPAddr, addrAt) THEN SubSeq(b, addrAt + 5, nameAt) ELSE <<>>
           Name == IF Reads(attrName, nameAt) THEN Trim(SubSeq(b, nameAt + 2, mtuAt)) ELSE <<>>
           ext == [kind |-> "info", Type |-> o.Type, Addr |-> Addr, Name |-> Name,
                   Index |-> IF Reads(attrIfIndex, 0) THEN Number(b, 0) ELSE 0,
                   MTU |-> IF Reads(attrMTU, mtuAt) THEN Number(b, mtuAt) ELSE 0,
                   Zone |-> IF Len(Addr) = 16 THEN Name ELSE <<>>]
<1>1. parseInterfaceInfo(o) =
        IF end > Len(b) \/ (Reads(attrName, nameAt) /\ ~parseName(l, Left(nameAt)))
        THEN errInvalidExtension ELSE <<ext>>
  BY DEF parseInterfaceInfo
<1>2. b \in Seq(Octet) /\ o.Type \in Octet /\ Len(b) \in Nat
  BY DEF Object
<1>3. addrAt \in Nat /\ addrLen \in Nat /\ addrLen >= 4 /\ (Reads(attrIfIndex, 0) => addrAt = 4)
  <2> HIDE DEF Reads, afi
  <2> QED
    OBVIOUS
<1> HIDE DEF b
<1>4. \A at \in Nat : Left(at) > 0 => b[at + 1] \in Octet
  <2> SUFFICES ASSUME NEW at \in Nat, Left(at) > 0
               PROVE  b[at + 1] \in Octet
    OBVIOUS
  <2>1. at + 1 \in 1 .. Len(b)
    BY <1>2
  <2> QED
    BY <1>2, <2>1
<1> HIDE DEF Left, Reads, addrAt, addrLen
<1>5. nameAt \in Nat /\ nameAt >= addrAt /\ (Reads(attrIPAddr, addrAt) => nameAt >= addrAt + 4)
  BY <1>3
<1> HIDE DEF nameAt
<1>6. l \in Nat
  BY <1>4, <1>5 DEF Octet
<1> HIDE DEF l
<1>7. mtuAt \in Nat /\ mtuAt >= nameAt /\ (Reads(attrName, nameAt) => mtuAt = nameAt + l)
  BY <1>5, <1>6
<1> HIDE DEF mtuAt
<1>8. end \in Nat /\ end >= mtuAt /\ (Reads(attrMTU, mtuAt) => end = mtuAt + 4)
  BY <1>7
<1>9. end <= Len(b) /\ (Reads(attrName, nameAt) => l >= 4)
  <2>1. ~(end > Len(b)) /\ (Reads(attrName, nameAt) => parseName(l, Left(nameAt)))
    BY <1>1
  <2> QED
    BY <1>2, <1>6, <1>8, <2>1 DEF parseName
<1>10. parseInterfaceInfo(o) = <<ext>>
  BY <1>1
<1> HIDE DEF end
<1>11. Addr \in Seq(Octet)
  <2>1. CASE Reads(attrIPAddr, addrAt)
    <3>1. /\ addrAt + 5 \in Nat /\ nameAt \in Nat /\ 1 <= addrAt + 5
          /\ addrAt + 5 <= nameAt + 1 /\ nameAt <= Len(b)
      BY <1>2, <1>3, <1>5, <1>7, <1>8, <1>9, <2>1
    <3>2. SubSeq(b, addrAt + 5, nameAt) \in Seq(Octet)
      BY <1>2, <3>1, PartTyped
    <3> QED
      BY <2>1, <3>2
  <2>2. CASE ~Reads(attrIPAddr, addrAt)
    BY <2>2
  <2> QED
    BY <2>1, <2>2
<1>12. Name \in Seq(Octet)
  <2>1. CASE Reads(attrName, nameAt)
    <3>1. /\ nameAt + 2 \in Nat /\ mtuAt \in Nat /\ 1 <= nameAt + 2
          /\ nameAt + 2 <= mtuAt + 1 /\ mtuAt <= Len(b)
      BY <1>2, <1>5, <1>6, <1>7, <1>8, <1>9, <2>1
    <3>2. SubSeq(b, nameAt + 2, mtuAt) \in Seq(Octet)
      BY <1>2, <3>1, PartTyped
    <3>3. Trim(SubSeq(b, nameAt + 2, mtuAt)) \in Seq(Octet)
      BY <3>2, TrimTyped
    <3> QED
      BY <2>1, <3>3
  <2>2. CASE ~Reads(attrName, nameAt)
    BY <2>2
  <2> QED
    BY <2>1, <2>2
<1>13. Reads(attrIfIndex, 0) => Number(b, 0) \in Nat
  <2>1. Reads(attrIfIndex, 0) => 0 + 4 <= Len(b)
    BY <1>2, <1>3, <1>5, <1>7, <1>8, <1>9
  <2> QED
    BY <1>2, <2>1, NumberTyped
<1>14. Reads(attrMTU, mtuAt) => Number(b, mtuAt) \in Nat
  <2>1. Reads(attrMTU, mtuAt) => mtuAt + 4 <= Len(b)
    BY <1>2, <1>7, <1>8, <1>9
  <2> QED
    BY <1>2, <1>7, <2>1, NumberTyped
<1> HIDE DEF Addr, Name
<1>15. ext \in InterfaceInfo
  BY <1>2, <1>11, <1>12, <1>13, <1>14 DEF InterfaceInfo
<1> QED
  BY <1>10, <1>15

(* One object, one extension of its class, or an error: the loop of        *)
(* parseExtensions takes one object after the other.                       *)
LEMMA ParsedObject ==
  ASSUME NEW o \in Object, o.len >= 4, ParseObject(o) # errInvalidExtension
  PROVE  ParseObject(o)[1] \in Extension /\ ParseObject(o) = <<ParseObject(o)[1]>>
<1>1. PICK e \in Extension : ParseObject(o) = <<e>>
  <2>1. CASE o.class = 1
    BY <2>1, ParsedStack DEF ParseObject, Extension
  <2>2. CASE o.class = 2
    BY <2>2, ParsedInfo DEF ParseObject, Extension
  <2>3. CASE o.class = 3
    BY <2>3, ParsedIdent DEF ParseObject, Extension
  <2>4. CASE o.class \notin {1, 2, 3}
    <3>1. ParseObject(o) = <<[kind |-> "raw", Data |-> <<o>>]>>
      BY <2>4 DEF ParseObject
    <3>2. [kind |-> "raw", Data |-> <<o>>] \in RawExtension
      BY DEF RawExtension
    <3> QED
      BY <3>1, <3>2 DEF Extension
  <2> QED
    BY <2>1, <2>2, <2>3, <2>4
<1> QED
  BY <1>1

-----------------------------------------------------------------------------
(* Lengths and leading octets.                                             *)

(* The fields of a body that is marshalled.                                *)
LEMMA BodyTyped ==
  ASSUME NEW m \in Bodies
  PROVE  /\ m \in Body /\ m.exts \in Lists
         /\ m.type \in MessageType /\ m.proto \in {1, 58} /\ m.exts \in Seq(Extension)
         /\ m.head[1] \in Nat /\ m.head[2] \in Nat /\ m.head[3] \in Nat
         /\ m.head = <<m.head[1], m.head[2], m.head[3]>>
         /\ m.data.len \in Nat /\ m.data.look \in SUBSET Look /\ m.sum \in Nat
         /\ m.type \in Plain => m.exts = <<>>
         /\ m.type = "PacketTooBig" => m.proto = 58
         /\ m.type \in {"DstUnreach", "TimeExceeded", "Raw"} => m.head = NoHead
         /\ m.type \in {"ExtendedEchoRequest", "ExtendedEchoReply"} => m.data.len = 0
         /\ m.type = "ExtendedEchoRequest" => m.head[3] \in {0, 1}
         /\ m.exts = <<>> => m.sum = 0
         /\ m.exts # <<>> => m.sum \in PacketSum
<1>1. /\ m.type \in MessageType /\ m.proto \in {1, 58} /\ m.head \in Heads
      /\ m.data \in [len : DataLens, look : Looks] /\ m.exts \in Lists /\ m.sum \in Sums \cup {0}
      /\ m = [type |-> m.type, proto |-> m.proto, head |-> m.head, data |-> m.data,
              exts |-> m.exts, sum |-> m.sum]
  BY DEF Bodies
<1>2. m.head \in Nat \X Nat \X Nat /\ m.exts \in Seq(Extension)
  BY <1>1, ListsAssumption
<1>3. m.data \in Datagram /\ m.data.len \in Nat /\ m.data.look \in SUBSET Look
  BY <1>1, LensAssumption, LooksAssumption DEF Datagram
<1>4. m.sum \in Nat /\ (m.sum # 0 => m.sum \in PacketSum)
  <2>1. m.sum \in PacketSum \cup {0}
    BY <1>1, SumsAssumption
  <2>2. PacketSum \subseteq Nat
    BY SMT DEF PacketSum
  <2>3. 0 \in Nat
    OBVIOUS
  <2> QED
    BY <2>1, <2>2, <2>3, Zenon
<1>5. m \in Body
  BY <1>1, <1>2, <1>3, <1>4 DEF Body
<1>6. /\ m.type \in Plain => m.exts = <<>>
      /\ m.type = "PacketTooBig" => m.proto = 58
      /\ m.type \in {"DstUnreach", "TimeExceeded", "Raw"} => m.head = NoHead
      /\ m.type \in {"ExtendedEchoRequest", "ExtendedEchoReply"} => m.data.len = 0
      /\ m.type = "ExtendedEchoRequest" => m.head[3] \in {0, 1}
      /\ (m.sum = 0) = (m.exts = <<>>)
  BY DEF Bodies
<1>7. /\ m.head[1] \in Nat /\ m.head[2] \in Nat /\ m.head[3] \in Nat
      /\ m.head = <<m.head[1], m.head[2], m.head[3]>>
  BY <1>2
<1>8. (m.exts = <<>> => m.sum = 0) /\ (m.exts # <<>> => m.sum \in PacketSum)
  BY <1>4, <1>6
<1> QED
  BY <1>1, <1>2, <1>3, <1>4, <1>5, <1>6, <1>7, <1>8, Zenon

(* The upper and the lower half of a number.                               *)
Upper(n) == n \div 65536
Lower(n) == n % 65536
LEMMA Halves ==
  /\ \A n \in Nat : Upper(n) \in Nat /\ Lower(n) \in Nat /\ Lower(n) <= 65535
                      /\ n = 65536 * Upper(n) + Lower(n)
  /\ \A n \in Nat : n <= 65535 => n \in Half
  /\ \A n \in Half : n \in Nat /\ n <= 65535
<1>1. ASSUME NEW n \in Nat
      PROVE  /\ Upper(n) \in Nat /\ Lower(n) \in Nat /\ Lower(n) <= 65535
             /\ n = 65536 * Upper(n) + Lower(n)
  <2>1. Upper(n) \in Nat /\ Lower(n) \in Nat /\ Lower(n) <= 65535
    BY SMT DEF Upper, Lower
  <2>2. PICK c \in Nat : c = 65536
    BY SMT
  <2>3. n = c * (n \div c) + (n % c)
    BY <2>2, SMT
  <2> QED
    BY <2>1, <2>2, <2>3, SMT DEF Upper, Lower
<1>2. ASSUME NEW n \in Nat, n <= 65535
      PROVE  n \in Half
  <2>1. PICK c \in Nat : c = 65535
    BY SMT
  <2>2. n <= c
    BY <1>2, <2>1, SMT
  <2>3. n \in 0 .. c
    BY <2>2, SMT
  <2>4. Half = 0 .. c
    BY <2>1, SMT DEF Half
  <2> QED
    BY <2>3, <2>4, Zenon
<1>3. ASSUME NEW n \in Half
      PROVE  n \in Nat /\ n <= 65535
  BY SMTT(60) DEF Half
<1> QED
  BY <1>1, <1>2, <1>3, SMT

(* The folded sum, which checksum complements.                             *)
Folded(s) == Lower((Upper(s) + Lower(s)) + Upper(Upper(s) + Lower(s)))
LEMMA ChecksumTyped ==
  ASSUME NEW s \in Nat
  PROVE  /\ Folded(s) \in Nat /\ Folded(s) <= 65535 /\ checksum(s) = 65535 - Folded(s)
         /\ checksum(s) \in Half
<1>1. checksum(s) = 65535 - Folded(s)
  BY SMT DEF checksum, Folded, Upper, Lower
<1>2. PICK t \in Nat : t = Upper(s) + Lower(s)
  BY Halves, SMT
<1>3. PICK u \in Nat : u = t + Upper(t)
  BY Halves, SMT
<1>4. Folded(s) \in Nat /\ Folded(s) <= 65535
  BY <1>2, <1>3, Halves, SMT DEF Folded
<1>5. PICK c \in Nat : c = 65535 - Folded(s) /\ c <= 65535
  BY <1>4, SMT
<1> QED
  BY <1>1, <1>4, <1>5, Halves, SMT

(* The lengths of a body: of its extensions, of its datagram, padded, and  *)
(* of all of it.                                                           *)
LEMMA LengthsTyped ==
  ASSUME NEW m \in Bodies
  PROVE  /\ ExtLen(m.exts, m.proto) \in Nat /\ DataLen(m) \in Nat /\ BodyLen(m) \in Nat
         /\ Align(m.proto) \in {4, 8}
         /\ m.exts = <<>> => /\ ExtLen(m.exts, m.proto) = 0 /\ DataLen(m) = m.data.len
                             /\ BodyLen(m) = m.data.len
<1>1. /\ m.type \in MessageType /\ m.proto \in {1, 58} /\ m.exts \in Seq(Extension)
      /\ m.data.len \in Nat
  BY BodyTyped
<1>2. PICK lens \in Seq(Nat) : lens = Lens(m.exts, m.proto) /\ Len(lens) = Len(m.exts)
  BY <1>1, LensTyped
<1>3. ExtLen(m.exts, m.proto) = LenTo(lens, Len(lens))
  BY <1>2 DEF ExtLen
<1>4. Len(lens) \in Nat /\ Len(lens) \in 0 .. Len(lens)
  OBVIOUS
<1>5. LenTo(lens, 0) = 0 /\ LenTo(lens, Len(lens)) \in Nat
  BY <1>4, LenToStep
<1>6. m.exts = <<>> => Len(lens) = 0
  BY <1>2
<1>7. PICK x \in Nat : x = ExtLen(m.exts, m.proto) /\ (m.exts = <<>> => x = 0)
  BY <1>3, <1>5, <1>6
<1>8. PICK d \in Nat : d = m.data.len
  BY <1>1
<1>9. PICK a \in {4, 8} : a = Align(m.proto)
  BY <1>1 DEF Align
<1>10. multipartMessageOrigDatagramLen(m.proto, d) \in Nat
  <2>1. ((d + a - 1) \div a) * a \in Nat
    BY SMT
  <2> QED
    BY <1>9, <2>1 DEF multipartMessageOrigDatagramLen
<1>11. /\ DataLen(m) \in Nat /\ (x = 0 => DataLen(m) = d)
  BY <1>7, <1>8, <1>10 DEF DataLen
<1>12. PICK h \in {0, 4} : h = (IF HasHeader(m) THEN 4 ELSE 0)
  BY Zenon
<1>13. m.exts = <<>> => h = 0
  <2>1. ASSUME m.exts = <<>>
        PROVE  ~HasHeader(m)
    <3>1. DOMAIN m.exts = {} /\ ~(x > 0)
      BY <1>7, <2>1
    <3> QED
      BY <1>7, <3>1 DEF HasHeader
  <2> QED
    BY <1>12, <2>1
<1>14. BodyLen(m) = DataLen(m) + x + h
  BY <1>7, <1>12 DEF BodyLen
<1> QED
  BY <1>7, <1>8, <1>9, <1>11, <1>13, <1>14

(* The four leading octets, by the type.                                   *)
LEMMA LeadCases ==
  ASSUME NEW m, m.type \in MessageType, m.proto \in {1, 58}
  PROVE  LET a == m.head[1]
             b == m.head[2]
             c == m.head[3]
             attr == IF m.proto = 1 THEN Attr(m) ELSE Attr(m) * 256
         IN /\ TwoHalves(m) => Lead(m) = <<Low(a), Low(b)>>
            /\ m.type = "ExtendedEchoRequest" => Lead(m) = <<Low(a), (b % 256) * 256 + c>>
            /\ m.type = "ExtendedEchoReply" =>
                 Lead(m) = <<Low(a), (b % 256) * 256 + ((c \div 8) % 8) * 32 + (c % 8)>>
            /\ m.type = "ParamProb" /\ m.proto = 1 => Lead(m) = <<(a % 256) * 256 + attr, 0>>
            /\ m.type \in {"DstUnreach", "TimeExceeded"} => Lead(m) = <<attr, 0>>
            /\ m.type = "Raw" => Lead(m) = <<0, 0>>
<1>0. 1 # 58
  OBVIOUS
<1>1. CASE m.type \in {"Echo", "PacketTooBig"}
  BY <1>1, Zenon DEF Lead, TwoHalves
<1>2. CASE m.type = "ParamProb"
  BY <1>0, <1>2, Zenon DEF Lead, TwoHalves
<1>3. CASE m.type = "ExtendedEchoRequest"
  BY <1>3, Zenon DEF Lead, TwoHalves
<1>4. CASE m.type = "ExtendedEchoReply"
  BY <1>4, Zenon DEF Lead, TwoHalves
<1>5. CASE m.type = "DstUnreach"
  BY <1>5, Zenon DEF Lead, TwoHalves
<1>6. CASE m.type = "TimeExceeded"
  BY <1>6, Zenon DEF Lead, TwoHalves
<1>7. CASE m.type = "Raw"
  BY <1>7, Zenon DEF Lead, TwoHalves
<1> QED
  BY <1>1, <1>2, <1>3, <1>4, <1>5, <1>6, <1>7, Zenon DEF MessageType, Multipart, Plain

(* The fixed fields that are read, by the type.                            *)
LEMMA HeadCases ==
  ASSUME NEW w, w.type \in MessageType, w.proto \in {1, 58}
  PROVE  LET a == w.lead[1]
             b == w.lead[2]
         IN /\ TwoHalves(w) => HeadOf(w) = <<a, b, 0>>
            /\ w.type = "ExtendedEchoRequest" => HeadOf(w) = <<a, b \div 256, b % 2>>
            /\ w.type = "ExtendedEchoReply" =>
                 HeadOf(w) = <<a, b \div 256, ((b % 256) \div 32) * 8 + (b % 8)>>
            /\ w.type = "ParamProb" /\ w.proto = 1 => HeadOf(w) = <<a \div 256, 0, 0>>
            /\ w.type \in {"DstUnreach", "TimeExceeded", "Raw"} => HeadOf(w) = NoHead
<1>0. 1 # 58
  OBVIOUS
<1>1. CASE w.type \in {"Echo", "PacketTooBig"}
  BY <1>1, Zenon DEF HeadOf, TwoHalves
<1>2. CASE w.type = "ParamProb"
  BY <1>0, <1>2, Zenon DEF HeadOf, TwoHalves
<1>3. CASE w.type = "ExtendedEchoRequest"
  BY <1>3, Zenon DEF HeadOf, TwoHalves
<1>4. CASE w.type = "ExtendedEchoReply"
  BY <1>4, Zenon DEF HeadOf, TwoHalves
<1>5. CASE w.type = "DstUnreach"
  BY <1>5, Zenon DEF HeadOf, TwoHalves
<1>6. CASE w.type = "TimeExceeded"
  BY <1>6, Zenon DEF HeadOf, TwoHalves
<1>7. CASE w.type = "Raw"
  BY <1>7, Zenon DEF HeadOf, TwoHalves
<1> QED
  BY <1>1, <1>2, <1>3, <1>4, <1>5, <1>6, <1>7, Zenon DEF MessageType, Multipart, Plain

(* Fields of 16 bits: a number, two octets, one octet.                     *)
LEMMA LowTyped ==
  ASSUME NEW n \in Nat
  PROVE  Low(n) \in Half /\ (n < 65536 => Low(n) = n)
<1>1. Low(n) = Lower(n)
  BY DEF Low, Lower
<1>2. n < 65536 => Low(n) = n
  BY SMT DEF Low
<1> QED
  BY <1>1, <1>2, Halves, SMT

Two(a, b) == a * 256 + b
LEMMA TwoTyped ==
  ASSUME NEW a \in Octet, NEW b \in Octet
  PROVE  /\ Two(a, b) \in Half /\ Two(a, b) \div 256 = a /\ Two(a, b) % 256 = b
<1>1. Two(a, b) \in Nat /\ Two(a, b) <= 65535
  BY SMT DEF Two, Octet
<1>2. Two(a, b) \div 256 = a /\ Two(a, b) % 256 = b
  BY SMT DEF Two, Octet
<1> QED
  BY <1>1, <1>2, Halves, SMT

(* The length attribute is an octet.                                       *)
LEMMA AttrTyped ==
  ASSUME NEW m \in Bodies
  PROVE  /\ Attr(m) \in 0 .. 255
         /\ m.exts # <<>> /\ DataLen(m) <= 255 * Align(m.proto)
              => Attr(m) = DataLen(m) \div Align(m.proto)
<1>1. PICK d \in Nat : d = DataLen(m)
  BY LengthsTyped
<1>2. PICK a \in {4, 8} : a = Align(m.proto)
  BY LengthsTyped
<1>3. PICK x \in Nat : x = d \div a /\ (d <= 255 * a => x <= 255)
  BY SMT
<1>4. Attr(m) = IF m.exts = <<>> THEN 0 ELSE x % 256
  BY <1>1, <1>2, <1>3 DEF Attr
<1>5. x % 256 \in 0 .. 255 /\ (x <= 255 => x % 256 = x)
  OBVIOUS
<1> QED
  BY <1>1, <1>2, <1>3, <1>4, <1>5, SMTT(60)

(* An octet of a number; the state and the flags of an extended echo       *)
(* reply; the octets where the length attribute is, the second or the      *)
(* first.                                                                  *)
Byte(n) == n % 256
Flags(c) == ((c \div 8) % 8) * 32 + (c % 8)
AttrHalf(x, proto) == IF proto = 1 THEN Two(0, x) ELSE Two(x, 0)

(* The four leading octets, as fields.                                     *)
LEMMA LeadFields ==
  ASSUME NEW m \in Bodies
  PROVE  /\ TwoHalves(m) => Lead(m) = <<Low(m.head[1]), Low(m.head[2])>>
         /\ m.type = "ExtendedEchoRequest" =>
              Lead(m) = <<Low(m.head[1]), Two(Byte(m.head[2]), m.head[3])>>
         /\ m.type = "ExtendedEchoReply" =>
              Lead(m) = <<Low(m.head[1]), Two(Byte(m.head[2]), Flags(m.head[3]))>>
         /\ m.type = "ParamProb" /\ m.proto = 1 =>
              Lead(m) = <<Two(Byte(m.head[1]), Attr(m)), 0>>
         /\ m.type \in {"DstUnreach", "TimeExceeded"} => Lead(m) = <<AttrHalf(Attr(m), m.proto), 0>>
         /\ m.type = "Raw" => Lead(m) = <<0, 0>>
<1>1. m.type \in MessageType /\ m.proto \in {1, 58}
  BY BodyTyped
<1>2. PICK x \in Nat : x = Attr(m)
  BY AttrTyped
<1>3. TwoHalves(m) => Lead(m) = <<Low(m.head[1]), Low(m.head[2])>>
  BY <1>1, LeadCases, Zenon
<1>4. m.type = "Raw" => Lead(m) = <<0, 0>>
  BY <1>1, LeadCases, Zenon
<1>5. m.type = "ExtendedEchoRequest" =>
        Lead(m) = <<Low(m.head[1]), Two(Byte(m.head[2]), m.head[3])>>
  BY <1>1, LeadCases, ZenonT(60) DEF Two, Byte
<1>6. m.type = "ExtendedEchoReply" =>
        Lead(m) = <<Low(m.head[1]), Two(Byte(m.head[2]), Flags(m.head[3]))>>
  <2>1. PICK b \in Nat, c \in Nat : b = m.head[2] /\ c = m.head[3]
    BY BodyTyped
  <2>2. Two(Byte(b), Flags(c)) = (b % 256) * 256 + ((c \div 8) % 8) * 32 + (c % 8)
    <3>1. PICK y \in Nat : y = (b % 256) * 256
      BY SMT
    <3>2. PICK p \in Nat, q \in Nat : p = ((c \div 8) % 8) * 32 /\ q = c % 8
      BY SMT
    <3> QED
      BY <3>1, <3>2, SMT DEF Two, Byte, Flags
  <2>3. m.type = "ExtendedEchoReply" =>
          Lead(m) = <<Low(m.head[1]), (m.head[2] % 256) * 256 + ((m.head[3] \div 8) % 8) * 32
                                      + (m.head[3] % 8)>>
    BY <1>1, LeadCases, ZenonT(60)
  <2> QED
    BY <2>1, <2>2, <2>3, Zenon
<1>7. m.type = "ParamProb" /\ m.proto = 1 => Lead(m) = <<Two(Byte(m.head[1]), Attr(m)), 0>>
  <2>1. m.type = "ParamProb" /\ m.proto = 1 =>
          Lead(m) = <<(m.head[1] % 256) * 256 + (IF m.proto = 1 THEN Attr(m) ELSE Attr(m) * 256), 0>>
    BY <1>1, LeadCases, ZenonT(60)
  <2> QED
    BY <2>1, Zenon DEF Two, Byte
<1>8. m.type \in {"DstUnreach", "TimeExceeded"} => Lead(m) = <<AttrHalf(Attr(m), m.proto), 0>>
  <2>1. m.type \in {"DstUnreach", "TimeExceeded"} =>
          Lead(m) = <<IF m.proto = 1 THEN Attr(m) ELSE Attr(m) * 256, 0>>
    BY <1>1, LeadCases, Zenon
  <2>2. (IF m.proto = 1 THEN Attr(m) ELSE Attr(m) * 256) = AttrHalf(Attr(m), m.proto)
    BY <1>2, SMT DEF AttrHalf, Two
  <2> QED
    BY <2>1, <2>2, Zenon
<1> QED
  BY <1>3, <1>4, <1>5, <1>6, <1>7, <1>8, Zenon

(* The octets of the fields.                                               *)
LEMMA FieldOctets ==
  /\ \A n \in Nat : Byte(n) \in Octet /\ (n < 256 => Byte(n) = n)
  /\ \A c \in Nat : Flags(c) \in Octet
  /\ 0 \in Octet /\ 1 \in Octet /\ 0 \in Half
  /\ Octet = 0 .. 255
<1>1. ASSUME NEW n \in Nat
      PROVE  Byte(n) \in Octet /\ (n < 256 => Byte(n) = n)
  BY SMT DEF Byte, Octet
<1>2. ASSUME NEW c \in Nat
      PROVE  Flags(c) \in Octet
  <2>1. PICK p \in 0 .. 7, q \in 0 .. 7 : p = (c \div 8) % 8 /\ q = c % 8
    BY SMT
  <2> QED
    BY <2>1, SMT DEF Flags, Octet
<1>3. 0 \in Octet /\ 1 \in Octet /\ Octet = 0 .. 255
  BY SMT DEF Octet
<1>4. 0 \in Half
  BY Halves, SMT
<1> QED
  BY <1>1, <1>2, <1>3, <1>4, SMT

(* The four leading octets are two halves, and the length attribute is     *)
(* read where it was written.                                              *)
LEMMA LeadTyped ==
  ASSUME NEW m \in Bodies
  PROVE  /\ Lead(m) \in Half \X Half
         /\ \A w : /\ w.lead = Lead(m) /\ w.proto = m.proto
                   /\ m.type \in {"DstUnreach", "TimeExceeded"} \/ (m.type = "ParamProb" /\ m.proto = 1)
                   => AttrOf(w) = Attr(m)
<1>1. PICK a \in Nat, b \in Nat, c \in Nat : a = m.head[1] /\ b = m.head[2] /\ c = m.head[3]
  BY BodyTyped
<1>2. /\ m.type \in MessageType /\ m.proto \in {1, 58}
      /\ m.type = "ExtendedEchoRequest" => c \in Octet
  BY <1>1, BodyTyped, FieldOctets
<1>3. PICK x \in Octet : x = Attr(m)
  BY AttrTyped, FieldOctets
<1>4. Low(a) \in Half /\ Low(b) \in Half
  BY LowTyped
<1>5. Two(Byte(b), Flags(c)) \in Half /\ Two(Byte(a), x) \in Half /\ AttrHalf(x, m.proto) \in Half
  <2>1. Byte(a) \in Octet /\ Byte(b) \in Octet /\ Flags(c) \in Octet /\ 0 \in Octet
    BY FieldOctets
  <2>2. \A u, v \in Octet : Two(u, v) \in Half
    BY TwoTyped
  <2> QED
    BY <2>1, <2>2, Zenon DEF AttrHalf
<1>6. m.type = "ExtendedEchoRequest" => Two(Byte(b), c) \in Half
  BY <1>2, TwoTyped, FieldOctets, ZenonT(60)
<1>7. \/ TwoHalves(m) \/ m.type = "ExtendedEchoRequest" \/ m.type = "ExtendedEchoReply"
      \/ (m.type = "ParamProb" /\ m.proto = 1) \/ m.type \in {"DstUnreach", "TimeExceeded"}
      \/ m.type = "Raw"
  BY <1>2, Zenon DEF MessageType, Multipart, Plain, TwoHalves
<1>8. PICK y \in Half, z \in Half : Lead(m) = <<y, z>>
  <2>1. 0 \in Half
    BY FieldOctets
  <2> QED
    BY <1>1, <1>3, <1>4, <1>5, <1>6, <1>7, <2>1, LeadFields, Zenon
<1>9. ASSUME NEW w, w.lead = Lead(m), w.proto = m.proto,
             m.type \in {"DstUnreach", "TimeExceeded"} \/ (m.type = "ParamProb" /\ m.proto = 1)
      PROVE  AttrOf(w) = x
  <2>1. CASE m.type = "ParamProb" /\ m.proto = 1
    <3>1. w.lead = <<Two(Byte(a), x), 0>>
      BY <1>1, <1>3, <1>9, <2>1, LeadFields, Zenon
    <3>2. Two(Byte(a), x) % 256 = x
      <4>1. Byte(a) \in Octet
        BY FieldOctets
      <4> HIDE DEF Byte
      <4> QED
        BY <4>1, TwoTyped
    <3> QED
      BY <1>9, <2>1, <3>1, <3>2 DEF AttrOf
  <2>2. CASE m.type \in {"DstUnreach", "TimeExceeded"} /\ m.proto = 1
    <3>1. w.lead = <<Two(0, x), 0>>
      BY <1>3, <1>9, <2>2, LeadFields, Zenon DEF AttrHalf
    <3>2. Two(0, x) % 256 = x
      BY SMT DEF Two, Octet
    <3> QED
      BY <1>9, <2>2, <3>1, <3>2 DEF AttrOf
  <2>3. CASE m.type \in {"DstUnreach", "TimeExceeded"} /\ m.proto = 58
    <3>0. m.proto # 1
      BY <2>3
    <3>1. w.lead = <<Two(x, 0), 0>>
      BY <1>3, <1>9, <2>3, <3>0, LeadFields, Zenon DEF AttrHalf
    <3>2. Two(x, 0) \div 256 = x
      BY TwoTyped, FieldOctets
    <3> QED
      BY <1>9, <3>0, <3>1, <3>2 DEF AttrOf
  <2> QED
    BY <1>2, <1>9, <2>1, <2>2, <2>3
<1>10. Lead(m) \in Half \X Half
  BY <1>8
<1> QED
  BY <1>3, <1>9, <1>10

(* Fields that fit in their room are read as they were written.            *)
LEMMA HeadBack ==
  ASSUME NEW m \in Bodies, NEW w, w.lead = Lead(m), w.type = m.type, w.proto = m.proto,
         \A i \in 1 .. 3 : m.head[i] < Room(m)[i]
  PROVE  HeadOf(w) = m.head
<1>1. PICK a \in Nat, b \in Nat, c \in Nat :
        a = m.head[1] /\ b = m.head[2] /\ c = m.head[3] /\ m.head = <<a, b, c>>
  BY BodyTyped
<1>2. m.type \in MessageType /\ m.proto \in {1, 58} /\ w.type \in MessageType /\ w.proto \in {1, 58}
  BY BodyTyped
<1>3. a < Room(m)[1] /\ b < Room(m)[2] /\ c < Room(m)[3]
  BY <1>1
<1>4. CASE TwoHalves(m)
  <2>1. Room(m) = <<65536, 65536, 1>>
    BY <1>2, <1>4 DEF Room, TwoHalves
  <2>2. a < 65536 /\ b < 65536 /\ c = 0
    BY <1>3, <2>1, SMT
  <2>3. Low(a) = a /\ Low(b) = b
    BY <2>2, LowTyped, SMT
  <2>4. Lead(m) = <<a, b>>
    BY <1>1, <1>4, <2>3, LeadFields, Zenon
  <2>5. TwoHalves(w)
    BY <1>4 DEF TwoHalves
  <2>6. HeadOf(w) = <<w.lead[1], w.lead[2], 0>>
    BY <1>2, <2>5, HeadCases, Zenon
  <2> QED
    BY <1>1, <2>2, <2>4, <2>6, SMT
<1>5. CASE m.type = "ExtendedEchoRequest"
  <2>1. Room(m) = <<65536, 256, 2>>
    BY <1>5 DEF Room
  <2>2. a < 65536 /\ b < 256 /\ c < 2
    BY <1>3, <2>1, SMT
  <2>3. Low(a) = a /\ Byte(b) = b /\ b \in Octet /\ c \in Octet
    BY <2>2, LowTyped, FieldOctets, SMT
  <2>4. Lead(m) = <<a, Two(b, c)>>
    BY <1>1, <1>5, <2>3, LeadFields, Zenon
  <2>5. Two(b, c) \div 256 = b /\ Two(b, c) % 2 = c
    <3>1. Two(b, c) \div 256 = b
      BY <2>3, TwoTyped
    <3>2. Two(b, c) % 2 = c
      BY <2>2, SMT DEF Two
    <3> QED
      BY <3>1, <3>2
  <2>6. HeadOf(w) = <<w.lead[1], w.lead[2] \div 256, w.lead[2] % 2>>
    BY <1>2, <1>5, HeadCases, Zenon
  <2> QED
    BY <1>1, <2>4, <2>5, <2>6, SMT
<1>6. CASE m.type = "ExtendedEchoReply"
  <2>1. Room(m) = <<65536, 256, 64>>
    BY <1>6 DEF Room
  <2>2. a < 65536 /\ b < 256 /\ c < 64
    BY <1>3, <2>1, SMT
  <2>3. Low(a) = a /\ Byte(b) = b /\ b \in Octet /\ Flags(c) \in Octet
    BY <2>2, LowTyped, FieldOctets, SMT
  <2>4. Lead(m) = <<a, Two(b, Flags(c))>>
    BY <1>1, <1>6, <2>3, LeadFields, Zenon
  <2>5. PICK y \in Nat : y = Two(b, Flags(c))
    <3>1. Two(b, Flags(c)) \in Half
      BY <2>3, TwoTyped, Zenon
    <3> QED
      BY <3>1, Halves, SMT
  <2>6. PICK p \in 0 .. 7, q \in 0 .. 7 : p = c \div 8 /\ q = c % 8 /\ c = 8 * p + q
    BY <2>2, SMT
  <2>7. y \div 256 = b /\ y % 256 = p * 32 + q /\ y % 8 = q
    <3>1. Flags(c) = p * 32 + q
      <4>1. p % 8 = p
        BY SMT
      <4> QED
        BY <2>6, <4>1, SMT DEF Flags
    <3>2. y \div 256 = b /\ y % 256 = p * 32 + q
      BY <2>3, <2>5, <3>1, TwoTyped, SMT
    <3>3. y = b * 256 + (p * 32 + q)
      BY <2>5, <3>1, SMT DEF Two
    <3>4. y % 8 = q
      BY <3>3, SMT
    <3> QED
      BY <3>2, <3>4
  <2>8. (p * 32 + q) \div 32 = p
    BY SMT
  <2>9. HeadOf(w) = <<w.lead[1], w.lead[2] \div 256, ((w.lead[2] % 256) \div 32) * 8 + (w.lead[2] % 8)>>
    BY <1>2, <1>6, HeadCases, ZenonT(60)
  <2>10. w.lead = <<a, y>>
    BY <2>4, <2>5
  <2>11. HeadOf(w) = <<a, b, p * 8 + q>>
    <3>1. w.lead[1] = a /\ w.lead[2] = y
      BY <2>10
    <3>2. HeadOf(w) = <<a, y \div 256, ((y % 256) \div 32) * 8 + (y % 8)>>
      BY <2>9, <3>1, Zenon
    <3> QED
      BY <2>7, <2>8, <3>2, Zenon
  <2>12. p * 8 + q = c
    BY <2>6, SMT
  <2> QED
    BY <1>1, <2>11, <2>12, Zenon
<1>7. CASE m.type = "ParamProb" /\ m.proto = 1
  <2>1. Room(m) = <<256, 1, 1>>
    BY <1>7 DEF Room
  <2>2. a < 256 /\ b = 0 /\ c = 0
    BY <1>3, <2>1, SMT
  <2>3. PICK x \in Octet : x = Attr(m)
    BY AttrTyped, FieldOctets
  <2>4. Byte(a) = a /\ a \in Octet
    BY <2>2, FieldOctets, SMT
  <2>5. Lead(m) = <<Two(a, x), 0>>
    BY <1>1, <1>7, <2>3, <2>4, LeadFields, Zenon
  <2>6. Two(a, x) \div 256 = a
    BY <2>4, TwoTyped
  <2>7. HeadOf(w) = <<w.lead[1] \div 256, 0, 0>>
    BY <1>2, <1>7, HeadCases, ZenonT(60)
  <2> QED
    BY <1>1, <2>2, <2>5, <2>6, <2>7, SMT
<1>8. CASE m.type \in {"DstUnreach", "TimeExceeded", "Raw"}
  BY <1>2, <1>8, BodyTyped, HeadCases, Zenon
<1> QED
  BY <1>2, <1>4, <1>5, <1>6, <1>7, <1>8, Zenon DEF TwoHalves, MessageType, Multipart, Plain

-----------------------------------------------------------------------------
(* What the parsers make of any message.                                   *)

(* The fields of a message in wire format.                                 *)
LEMMA WireFields ==
  ASSUME NEW w \in Wire
  PROVE  /\ w.type \in MessageType /\ w.proto \in {1, 58} /\ w.lead \in Half \X Half
         /\ w.lead[1] \in Nat /\ w.lead[2] \in Nat
         /\ w.dlen \in Nat /\ w.look \in SUBSET Look /\ w.header \in BOOLEAN /\ w.sum \in Nat
         /\ w.check \in Half /\ w.objs \in Seq(Object) /\ w.end \in Int
<1>1. /\ w.type \in MessageType /\ w.proto \in {1, 58} /\ w.lead \in Half \X Half
      /\ w.dlen \in Nat /\ w.look \in SUBSET Look /\ w.header \in BOOLEAN /\ w.sum \in Nat
      /\ w.check \in Half /\ w.objs \in Seq(Object) /\ w.end \in Int
  BY DEF Wire
<1>2. w.lead[1] \in Half /\ w.lead[2] \in Half
  BY <1>1
<1>3. w.lead[1] \in Nat /\ w.lead[2] \in Nat
  <2>1. \A n \in Half : n \in Nat
    BY Halves, SMT
  <2> QED
    BY <1>2, <2>1, Zenon
<1> QED
  BY <1>1, <1>3

(* The octets the first k objects say to have.                             *)
LEMMA SaidTyped ==
  ASSUME NEW objs \in Seq(Object)
  PROVE  /\ Said(objs, 0) = 0
         /\ \A k \in 0 .. Len(objs) : Said(objs, k) \in Nat
         /\ \A k \in 1 .. Len(objs) : Said(objs, k) = Said(objs, k - 1) + objs[k].len
         /\ \A j, k \in 0 .. Len(objs) : j <= k => Said(objs, j) <= Said(objs, k)
<1> DEFINE lens == [j \in DOMAIN objs |-> objs[j].len]
<1>2. \A k \in DOMAIN objs : objs[k].len \in Nat
  BY DEF Object
<1>3. /\ lens \in Seq(Nat) /\ Len(lens) = Len(objs)
      /\ \A k \in 1 .. Len(objs) : lens[k] = objs[k].len
  BY <1>2
<1>4. \A k : Said(objs, k) = LenTo(lens, k)
  BY DEF Said
<1> HIDE DEF lens
<1>5. Len(objs) \in Nat
  OBVIOUS
<1>6. /\ LenTo(lens, 0) = 0
      /\ \A k \in 0 .. Len(objs) : LenTo(lens, k) \in Nat
      /\ \A k \in 1 .. Len(objs) : LenTo(lens, k) = LenTo(lens, k - 1) + objs[k].len
  BY <1>3, LenToStep
<1>7. ASSUME NEW j \in 0 .. Len(objs), NEW k \in 0 .. Len(objs), j <= k
      PROVE  LenTo(lens, j) <= LenTo(lens, k)
  <2>1. j \in 0 .. Len(lens) /\ k \in j .. Len(lens)
    BY <1>3, <1>5, <1>7
  <2> QED
    BY <1>3, <2>1, LenToGrows
<1> QED
  BY <1>4, <1>6, <1>7

(* The length attribute is never taken below 128 octets, nor a header to   *)
(* be where the message does not reach.                                    *)
LEMMA HeaderPlace ==
  ASSUME NEW w \in Wire
  PROVE  /\ Adjusted(w) \in Nat /\ Adjusted(w) >= 128
         /\ HeaderAt(w) \in Nat \cup {-1}
         /\ HeaderAt(w) # -1 => HeaderAt(w) + 8 <= w.end /\ validExtensionHeader(w, HeaderAt(w))
<1>1. PICK n \in Int : n = w.end
  BY WireFields
<1>2. PICK l \in Nat : l = Align(w.proto) * AttrOf(w)
  <2>1. PICK y \in Nat : y = w.lead[1]
    BY WireFields
  <2>2. y % 256 \in Nat /\ y \div 256 \in Nat
    BY SMT
  <2>3. PICK x \in Nat : x = AttrOf(w)
    BY <2>1, <2>2 DEF AttrOf
  <2>4. 4 * x \in Nat /\ 8 * x \in Nat
    OBVIOUS
  <2> QED
    BY <2>3, <2>4 DEF Align
<1>3. PICK a \in Nat : a = Adjusted(w) /\ a >= 128
  BY <1>1, <1>2 DEF Adjusted
<1>4. CASE w.type = "ExtendedEchoRequest"
  <2>1. HeaderAt(w) = IF n >= 8 /\ validExtensionHeader(w, 0) THEN 0 ELSE -1
    BY <1>1, <1>4 DEF HeaderAt
  <2> QED
    BY <1>1, <1>3, <2>1
<1>5. CASE w.type # "ExtendedEchoRequest"
  <2>1. HeaderAt(w) = IF a + 8 > n THEN -1
                      ELSE IF validExtensionHeader(w, a) THEN a
                      ELSE IF validExtensionHeader(w, 128) THEN 128 ELSE -1
    BY <1>1, <1>3, <1>5 DEF HeaderAt
  <2> QED
    BY <1>1, <1>3, <2>1
<1> QED
  BY <1>4, <1>5

(* The objects behind the header that is found: those that were sent, or   *)
(* those the datagram shows behind a look-alike.                           *)
LEMMA FoundTyped ==
  ASSUME NEW w \in Wire, HeaderAt(w) # -1
  PROVE  /\ Found(w) \in Seq(Object)
         /\ \/ HeaderAt(w) = w.dlen /\ Found(w) = w.objs
            \/ \E x \in w.look : HeaderAt(w) = x.at /\ Found(w) = x.objs
<1>1. w.objs \in Seq(Object) /\ w.look \in SUBSET Look
  BY WireFields
<1>2. validExtensionHeader(w, HeaderAt(w))
  BY HeaderPlace
<1>3. CASE HeaderAt(w) = w.dlen
  BY <1>1, <1>3, Zenon DEF Found
<1>4. CASE HeaderAt(w) # w.dlen
  <2>1. \E x \in w.look : x.at = HeaderAt(w)
    BY <1>2, <1>4, Zenon DEF validExtensionHeader
  <2>2. PICK x \in w.look : x.at = HeaderAt(w) /\ x = CHOOSE y \in w.look : y.at = HeaderAt(w)
    BY <2>1
  <2>3. Found(w) = x.objs
    BY <1>4, <2>2, Zenon DEF Found
  <2>4. x.objs \in Seq(Object)
    BY <1>1, <2>2 DEF Look
  <2> QED
    BY <2>2, <2>3, <2>4, Zenon
<1> QED
  BY <1>3, <1>4

(* The loop over the objects goes through the first n of them, for some n, *)
(* each with a header, and all within the message.                         *)
LEMMA WalkedFirst ==
  ASSUME NEW w \in Wire, HeaderAt(w) # -1
  PROVE  \E n \in 0 .. Len(Found(w)) :
           /\ Walked(w) = 1 .. n /\ Cardinality(Walked(w)) = n
           /\ n > 0 => HeaderAt(w) + 4 + Said(Found(w), n) <= w.end
           /\ \A k \in 1 .. n : Found(w)[k].len >= 4
           /\ \A k \in 1 .. Len(Found(w)) : Leads(w, k) => k <= n
<1>0. Found(w) \in Seq(Object)
  BY FoundTyped
<1>1. PICK N \in Nat : N = Len(Found(w)) /\ DOMAIN Found(w) = 1 .. N
  BY <1>0
<1>2. HeaderAt(w) \in Nat /\ w.end \in Int
  BY WireFields, HeaderPlace
<1>3. /\ \A k \in 0 .. N : Said(Found(w), k) \in Nat
      /\ \A j, k \in 0 .. N : j <= k => Said(Found(w), j) <= Said(Found(w), k)
  BY <1>0, <1>1, SaidTyped
<1>4. \A n \in Nat : Cardinality(1 .. n) = n
  BY FS_Interval
<1>5. CASE Walked(w) = {}
  <2>1. 0 \in 0 .. N /\ 1 .. 0 = {}
    OBVIOUS
  <2>2. Walked(w) = 1 .. 0 /\ Cardinality(Walked(w)) = 0
    BY <1>4, <1>5, <2>1
  <2>3. \A k \in 1 .. N : ~Leads(w, k)
    BY <1>1, <1>5 DEF Walked
  <2> QED
    BY <1>1, <2>1, <2>2, <2>3
<1>6. CASE Walked(w) # {}
  <2>1. Walked(w) = {k \in 1 .. N : Leads(w, k)}
    BY <1>1, <1>6 DEF Walked
  <2> DEFINE S == Walked(w)
  <2>2. S \in SUBSET (0 .. N) /\ S # {}
    BY <1>6, <2>1
  <2> HIDE DEF S
  <2>3. PICK n \in S : n = Max(S) /\ \A y \in S : n >= y
    BY <2>2, MaxIn
  <2>4. n \in 1 .. N /\ Leads(w, n)
    BY <2>1, <2>3 DEF S
  <2>5. ASSUME NEW j \in 1 .. n
        PROVE  Leads(w, j)
    <3>1. j \in 0 .. N /\ n \in 0 .. N /\ j <= n /\ 1 .. j \subseteq 1 .. n
      BY <2>4
    <3>2. Said(Found(w), j) <= Said(Found(w), n) /\ Said(Found(w), j) \in Nat /\ Said(Found(w), n) \in Nat
      BY <1>3, <3>1
    <3>3. HeaderAt(w) + 4 + Said(Found(w), j) <= w.end
      BY <1>2, <2>4, <3>2 DEF Leads
    <3> QED
      BY <2>4, <3>1, <3>3 DEF Leads
  <2>6. S = 1 .. n
    <3>1. \A k \in 1 .. n : k \in 1 .. N
      BY <2>4
    <3>2. 1 .. n \subseteq S
      BY <2>1, <2>5, <3>1 DEF S
    <3>3. \A k \in S : k \in 1 .. n
      BY <2>1, <2>3, <2>4 DEF S
    <3> QED
      BY <3>2, <3>3
  <2>7. Cardinality(S) = n
    BY <1>4, <2>4, <2>6
  <2>8. \A k \in 1 .. n : Found(w)[k].len >= 4
    BY <2>4 DEF Leads
  <2>9. HeaderAt(w) + 4 + Said(Found(w), n) <= w.end
    BY <2>4 DEF Leads
  <2>10. \A k \in 1 .. N : Leads(w, k) => k <= n
    <3> SUFFICES ASSUME NEW k \in 1 .. N, Leads(w, k)
                 PROVE  k <= n
      OBVIOUS
    <3>1. k \in S
      BY <2>1 DEF S
    <3>2. n >= k /\ n \in Int /\ k \in Int
      BY <2>3, <2>4, <3>1
    <3> QED
      BY <3>2
  <2>11. n \in 0 .. N
    BY <2>4
  <2> QED
    BY <1>1, <2>1, <2>6, <2>7, <2>8, <2>9, <2>10, <2>11 DEF S
<1> QED
  BY <1>5, <1>6

(* No index of a parser is behind the end of what it was given.            *)
LEMMA NeverBehind ==
  ASSUME NEW w \in Wire
  PROVE  ~Overread(w)
<1>1. PICK e \in Int : e = w.end
  BY WireFields
<1>2. ~(Adjusted(w) + 8 <= e /\ 128 + 4 > e)
  BY <1>1, HeaderPlace
<1>3. ~(HeaderAt(w) # -1 /\ HeaderAt(w) + 4 > e)
  <2>1. PICK h \in Nat \cup {-1} : h = HeaderAt(w) /\ (h # -1 => h + 8 <= e)
    BY <1>1, HeaderPlace
  <2> QED
    BY <2>1
<1>4. ASSUME NEW k \in Walked(w)
      PROVE  ~(HeaderAt(w) + 4 + Said(Found(w), k) > e)
  <2>0. HeaderAt(w) # -1
    BY <1>4 DEF Walked
  <2>1. k \in 1 .. Len(Found(w)) /\ Leads(w, k) /\ Found(w) \in Seq(Object)
    BY <1>4, <2>0, FoundTyped DEF Walked
  <2>2. HeaderAt(w) \in Nat /\ Said(Found(w), k) \in Nat
    <3>1. k \in 0 .. Len(Found(w))
      BY <2>1
    <3> QED
      BY <2>0, <2>1, <3>1, HeaderPlace, SaidTyped
  <2>3. HeaderAt(w) + 4 + Said(Found(w), k) <= e
    BY <1>1, <2>1 DEF Leads
  <2> QED
    BY <2>2, <2>3
<1> QED
  BY <1>1, <1>2, <1>3, <1>4, Zenon DEF Overread

(* The fixed fields that are read are numbers.                             *)
LEMMA HeadTyped ==
  ASSUME NEW w \in Wire
  PROVE  HeadOf(w) \in Nat \X Nat \X Nat
<1>1. PICK a \in Nat, b \in Nat : a = w.lead[1] /\ b = w.lead[2]
  BY WireFields
<1>2. w.type \in MessageType /\ w.proto \in {1, 58}
  BY WireFields
<1>3. PICK p \in Nat, q \in Nat, r \in Nat, t \in Nat :
        /\ p = a \div 256 /\ q = b \div 256 /\ r = b % 2
        /\ t = ((b % 256) \div 32) * 8 + (b % 8)
  <2>1. /\ a \div 256 \in Nat /\ b \div 256 \in Nat /\ b % 2 \in Nat
        /\ ((b % 256) \div 32) * 8 + (b % 8) \in Nat
    BY SMT
  <2> QED
    BY <2>1, Zenon
<1>4. \/ TwoHalves(w) \/ w.type = "ExtendedEchoRequest" \/ w.type = "ExtendedEchoReply"
      \/ w.type = "ParamProb" /\ w.proto = 1
      \/ w.type \in {"DstUnreach", "TimeExceeded", "Raw"}
  BY <1>2, Zenon DEF MessageType, Multipart, Plain, TwoHalves
<1>5. /\ <<a, b, 0>> \in Nat \X Nat \X Nat /\ <<a, q, r>> \in Nat \X Nat \X Nat
      /\ <<a, q, t>> \in Nat \X Nat \X Nat /\ <<p, 0, 0>> \in Nat \X Nat \X Nat
      /\ NoHead \in Nat \X Nat \X Nat
  BY DEF NoHead
<1>6. TwoHalves(w) => HeadOf(w) = <<a, b, 0>>
  BY <1>1, <1>2, HeadCases, Zenon
<1>7. w.type = "ExtendedEchoRequest" => HeadOf(w) = <<a, q, r>>
  BY <1>1, <1>2, <1>3, HeadCases, Zenon
<1>8. w.type = "ExtendedEchoReply" => HeadOf(w) = <<a, q, t>>
  BY <1>1, <1>2, <1>3, HeadCases, ZenonT(60)
<1>9. w.type = "ParamProb" /\ w.proto = 1 => HeadOf(w) = <<p, 0, 0>>
  BY <1>1, <1>2, <1>3, HeadCases, Zenon
<1>10. w.type \in {"DstUnreach", "TimeExceeded", "Raw"} => HeadOf(w) = NoHead
  BY <1>2, HeadCases, Zenon
<1> QED
  BY <1>4, <1>5, <1>6, <1>7, <1>8, <1>9, <1>10, Zenon

(* What parseFns makes of a message: the parser of its type.               *)
Parted(w) == \/ w.type \in {"DstUnreach", "TimeExceeded"}
             \/ w.type = "ParamProb" /\ w.proto = 1
ParseOf(w) ==
  IF ~Known(w) THEN [NoResult EXCEPT !.data = w.end + 4]
  ELSE IF Parted(w) THEN parseMultipartMessageBody(w)
  ELSE IF w.type = "ExtendedEchoRequest" THEN [parseMultipartMessageBody(w) EXCEPT !.data = 0]
  ELSE IF w.type = "ExtendedEchoReply" THEN parsePlain(w, 0)
  ELSE parsePlain(w, w.end)

(* The extensions that are read: one for each object the loop goes         *)
(* through, in their order.                                                *)
LEMMA ExtensionsTyped ==
  ASSUME NEW w \in Wire, HeaderAt(w) # -1, ~Refused(w)
  PROVE  \E n \in 0 .. Len(Found(w)) :
           /\ Walked(w) = 1 .. n
           /\ Extensions(w) \in Seq(Extension) /\ Len(Extensions(w)) = n
           /\ \A k \in 1 .. n : <<Extensions(w)[k]>> = ParseObject(Found(w)[k])
<1>1. PICK n \in 0 .. Len(Found(w)) :
        /\ Walked(w) = 1 .. n /\ Cardinality(Walked(w)) = n
        /\ \A k \in 1 .. n : Found(w)[k].len >= 4
  BY WalkedFirst
<1>2. Found(w) \in Seq(Object) /\ n \in Nat /\ \A k \in 1 .. n : k \in 1 .. Len(Found(w))
  BY FoundTyped
<1>3. ASSUME NEW k \in 1 .. n
      PROVE  /\ ParseObject(Found(w)[k])[1] \in Extension
             /\ ParseObject(Found(w)[k]) = <<ParseObject(Found(w)[k])[1]>>
  <2>1. Found(w)[k] \in Object /\ Found(w)[k].len >= 4
    BY <1>1, <1>2
  <2>2. ParseObject(Found(w)[k]) # errInvalidExtension
    BY <1>1, <1>3, Zenon DEF Refused
  <2> QED
    BY <2>1, <2>2, ParsedObject
<1>4. Extensions(w) = [k \in 1 .. n |-> ParseObject(Found(w)[k])[1]]
  BY <1>1 DEF Extensions
<1>5. /\ Extensions(w) \in Seq(Extension) /\ Len(Extensions(w)) = n
      /\ \A k \in 1 .. n : Extensions(w)[k] = ParseObject(Found(w)[k])[1]
  BY <1>2, <1>3, <1>4
<1> QED
  BY <1>1, <1>3, <1>5, Zenon

(* A body is read from any message that has one, and no parser panics.     *)
LEMMA ParsedTyped ==
  ASSUME NEW w \in Wire, ~TooShort(w)
  PROVE  ParseOf(w) \in Parsed /\ ~ParseOf(w).over
<1> DEFINE Fine(r) == r \in Parsed /\ ~r.over
<1>1. w.end \in Int /\ w.type \in MessageType /\ w.proto \in {1, 58}
  BY WireFields
<1>2. (Known(w) => w.end \in Nat) /\ (~Known(w) => w.end + 4 \in Nat)
  BY <1>1 DEF TooShort
<1>3. HeadOf(w) \in Nat \X Nat \X Nat
  BY HeadTyped
<1>4. \A h \in Nat \X Nat \X Nat, d \in Nat, x \in Seq(Extension) :
        Fine([head |-> h, data |-> d, exts |-> x, over |-> FALSE])
  BY DEF Parsed
<1>5. \A r : Fine(r) => Fine([r EXCEPT !.data = 0])
  BY DEF Parsed
<1>6. <<>> \in Seq(Extension) /\ 0 \in Nat /\ NoHead \in Nat \X Nat \X Nat
  BY DEF NoHead
<1>7. \A d \in Nat : Fine(parsePlain(w, d))
  BY <1>3, <1>4, <1>6, Zenon DEF parsePlain
<1>8. (Overread(w) <=> FALSE) /\ Overread(w) = FALSE
  BY NeverBehind
<1>9. ASSUME ~Known(w)
      PROVE  Fine([NoResult EXCEPT !.data = w.end + 4])
  BY <1>2, <1>6, <1>9 DEF NoResult, Parsed
<1>10. ASSUME w.end \in Nat
       PROVE  Fine(parseMultipartMessageBody(w))
  <2>1. CASE w.end = 0
    <3>1. parseMultipartMessageBody(w) = [NoResult EXCEPT !.head = HeadOf(w)]
      BY <2>1, Zenon DEF parseMultipartMessageBody
    <3>2. Fine([NoResult EXCEPT !.head = HeadOf(w)])
      BY <1>3, <1>6 DEF NoResult, Parsed
    <3> QED
      BY <3>1, <3>2, Zenon
  <2>2. CASE w.end # 0 /\ (HeaderAt(w) = -1 \/ Refused(w))
    <3>1. parseMultipartMessageBody(w)
            = [head |-> HeadOf(w), data |-> w.end, exts |-> <<>>, over |-> FALSE]
      BY <1>8, <2>2, Zenon DEF parseMultipartMessageBody
    <3> QED
      BY <1>3, <1>4, <1>6, <1>10, <3>1, Zenon
  <2>3. CASE w.end # 0 /\ HeaderAt(w) # -1 /\ ~Refused(w)
    <3>1. parseMultipartMessageBody(w)
            = [head |-> HeadOf(w), data |-> HeaderAt(w), exts |-> Extensions(w), over |-> FALSE]
      BY <1>8, <2>3, Zenon DEF parseMultipartMessageBody
    <3>2. HeaderAt(w) \in Nat
      BY <2>3, HeaderPlace
    <3>3. Extensions(w) \in Seq(Extension)
      BY <2>3, ExtensionsTyped
    <3> QED
      BY <1>3, <1>4, <3>1, <3>2, <3>3, Zenon
  <2> QED
    BY <2>1, <2>2, <2>3, Zenon
<1> HIDE DEF Fine
<1>11. Fine(ParseOf(w))
  BY <1>2, <1>5, <1>6, <1>7, <1>9, <1>10, Zenon DEF ParseOf
<1> QED
  BY <1>11 DEF Fine

-----------------------------------------------------------------------------
(* What is there to parse.                                                 *)

(* What Marshal makes of a body, when it makes something of it.            *)
Written(m) == Parted(m) \/ m.type = "ExtendedEchoRequest"
WireOf(m) ==
  IF Written(m) THEN marshalMultipartMessageBody(m)
  ELSE IF m.type = "ParamProb" THEN [marshalPlain(m, BodyLen(m)) EXCEPT !.dlen = BodyLen(m)]
  ELSE IF m.type = "ExtendedEchoReply" THEN marshalPlain(m, 0)
  ELSE IF m.type = "Raw" THEN marshalPlain(m, m.data.len - 4)
  ELSE marshalPlain(m, m.data.len)

(* A body in wire format.                                                  *)
LEMMA WireOfTyped ==
  ASSUME NEW m \in Bodies
  PROVE  /\ WireOf(m) \in Wire /\ WireOf(m).type = m.type /\ WireOf(m).proto = m.proto
         /\ WireOf(m).lead = Lead(m) /\ (WireOf(m).header => WireOf(m).sum > 0)
<1> DEFINE Fine(w) == /\ w \in Wire /\ w.type = m.type /\ w.proto = m.proto
                      /\ w.lead = Lead(m) /\ (w.header => w.sum > 0)
<1>1. /\ m.type \in MessageType /\ m.proto \in {1, 58} /\ m.exts \in Seq(Extension)
      /\ m.data.len \in Nat /\ m.data.look \in SUBSET Look /\ m.sum \in Nat
      /\ m.exts # <<>> => m.sum \in PacketSum
  BY BodyTyped
<1>2. DataLen(m) \in Nat /\ BodyLen(m) \in Nat
  BY LengthsTyped
<1>3. Lead(m) \in Half \X Half /\ 0 \in Half
  BY LeadTyped, FieldOctets
<1>4. Objects(m.exts, m.proto) \in Seq(Object) /\ <<>> \in Seq(Object)
  BY <1>1, ObjectsTyped
<1>5. (IF m.exts = <<>> THEN 0 ELSE checksum(m.sum)) \in Half
  <2>1. PICK s \in Nat : s = m.sum
    BY <1>1, Zenon
  <2>2. checksum(s) \in Half
    BY <2>1, ChecksumTyped
  <2> QED
    BY <1>3, <2>1, <2>2, Zenon
<1>6. m.exts # <<>> => m.sum > 0
  BY <1>1, SMT DEF PacketSum
<1>7. Fine(marshalMultipartMessageBody(m))
  <2>1. PICK check \in Half : check = IF m.exts = <<>> THEN 0 ELSE checksum(m.sum)
    BY <1>5
  <2>2. PICK header \in BOOLEAN : header = (m.exts # <<>>)
    OBVIOUS
  <2>3. BodyLen(m) \in Int
    BY <1>2
  <2>4. [type |-> m.type, proto |-> m.proto, lead |-> Lead(m), dlen |-> DataLen(m),
         look |-> m.data.look, header |-> header, sum |-> m.sum, check |-> check,
         objs |-> Objects(m.exts, m.proto), end |-> BodyLen(m)] \in Wire
    BY <1>1, <1>2, <1>3, <1>4, <2>1, <2>2, <2>3 DEF Wire
  <2>5. marshalMultipartMessageBody(m)
          = [type |-> m.type, proto |-> m.proto, lead |-> Lead(m), dlen |-> DataLen(m),
             look |-> m.data.look, header |-> header, sum |-> m.sum, check |-> check,
             objs |-> Objects(m.exts, m.proto), end |-> BodyLen(m)]
    BY <2>1, <2>2, Zenon DEF marshalMultipartMessageBody
  <2>6. /\ marshalMultipartMessageBody(m).type = m.type
        /\ marshalMultipartMessageBody(m).proto = m.proto
        /\ marshalMultipartMessageBody(m).lead = Lead(m)
        /\ marshalMultipartMessageBody(m).sum = m.sum
        /\ marshalMultipartMessageBody(m).header = header
    BY <2>5
  <2> QED
    BY <1>6, <2>2, <2>4, <2>5, <2>6, Zenon
<1>8. ASSUME NEW end \in Int
      PROVE  Fine(marshalPlain(m, end))
  BY <1>1, <1>3, <1>4 DEF Wire, marshalPlain
<1>9. Fine([marshalPlain(m, BodyLen(m)) EXCEPT !.dlen = BodyLen(m)])
  <2>1. \A w : Fine(w) => Fine([w EXCEPT !.dlen = BodyLen(m)])
    BY <1>2 DEF Wire
  <2>2. BodyLen(m) \in Int
    BY <1>2
  <2> HIDE DEF Fine
  <2> QED
    BY <1>8, <2>1, <2>2, Zenon
<1>10. BodyLen(m) \in Int /\ 0 \in Int /\ m.data.len - 4 \in Int /\ m.data.len \in Int
  BY <1>1, <1>2
<1> HIDE DEF Fine
<1>11. Fine(WireOf(m))
  BY <1>7, <1>8, <1>9, <1>10, Zenon DEF WireOf
<1> QED
  BY <1>11 DEF Fine

(* The fields of a multipart message in wire format.                       *)
LEMMA WrittenFields ==
  ASSUME NEW m \in Bodies, Written(m)
  PROVE  /\ WireOf(m).dlen = DataLen(m) /\ WireOf(m).look = m.data.look
         /\ WireOf(m).header = (m.exts # <<>>) /\ WireOf(m).sum = m.sum
         /\ WireOf(m).check = (IF m.exts = <<>> THEN 0 ELSE checksum(m.sum))
         /\ WireOf(m).objs = Objects(m.exts, m.proto) /\ WireOf(m).end = BodyLen(m)
<1>1. PICK check : check = IF m.exts = <<>> THEN 0 ELSE checksum(m.sum)
  OBVIOUS
<1>2. PICK header : header = (m.exts # <<>>)
  OBVIOUS
<1>3. WireOf(m) = [type |-> m.type, proto |-> m.proto, lead |-> Lead(m), dlen |-> DataLen(m),
                   look |-> m.data.look, header |-> header, sum |-> m.sum, check |-> check,
                   objs |-> Objects(m.exts, m.proto), end |-> BodyLen(m)]
  BY <1>1, <1>2, Zenon DEF WireOf, marshalMultipartMessageBody
<1>4. /\ WireOf(m).dlen = DataLen(m) /\ WireOf(m).look = m.data.look
      /\ WireOf(m).header = header /\ WireOf(m).sum = m.sum /\ WireOf(m).check = check
      /\ WireOf(m).objs = Objects(m.exts, m.proto) /\ WireOf(m).end = BodyLen(m)
  BY <1>3
<1> QED
  BY <1>1, <1>2, <1>4, Zenon

(* The larger of four and a number.                                        *)
LEMMA MaxFour ==
  ASSUME NEW n \in Nat
  PROVE  Max({4, n}) \in Nat /\ Max({4, n}) >= 4 /\ Max({4, n}) >= n /\ (n >= 4 => Max({4, n}) = n)
<1>1. {4, n} \in SUBSET (0 .. n + 4) /\ {4, n} # {} /\ n + 4 \in Nat
  OBVIOUS
<1>2. Max({4, n}) \in {4, n} /\ \A y \in {4, n} : Max({4, n}) >= y
  BY <1>1, MaxIn
<1>3. PICK x \in {4, n} : x = Max({4, n}) /\ x >= 4 /\ x >= n
  BY <1>2
<1> QED
  BY <1>3

(* What another implementation sends.                                      *)
LEMMA ForeignTyped ==
  ASSUME NEW w \in ForeignWires
  PROVE  /\ w \in Wire /\ w.sum = ForeignSum /\ w.look = {}
         /\ Room4(w.objs) \in Seq(Nat) /\ Len(Room4(w.objs)) = Len(w.objs)
         /\ w.header => w.end = w.dlen + (4 + LenTo(Room4(w.objs), Len(w.objs)))
<1>1. PICK t \in MessageType, p \in {1, 58}, a \in {0, 17, 33, 255}, d \in DataLens,
           h \in {"none", "summed", "unsummed", "bad"}, o \in ObjectLists :
        w = ForeignWire(t, p, a, d, h, o)
  BY DEF ForeignWires
<1>2. d \in Nat /\ o \in Seq(Object)
  BY LensAssumption, ListsAssumption
<1>3. Room4(o) \in Seq(Nat) /\ Len(Room4(o)) = Len(o)
  <2>1. DOMAIN o = 1 .. Len(o) /\ Len(o) \in Nat
    BY <1>2
  <2>2. \A k \in 1 .. Len(o) : o[k].len \in Nat
    BY <1>2 DEF Object
  <2>3. \A k \in 1 .. Len(o) : Max({4, o[k].len}) \in Nat
    BY <2>2, MaxFour
  <2>4. Room4(o) = [k \in 1 .. Len(o) |-> Max({4, o[k].len})]
    BY <2>1 DEF Room4
  <2> QED
    BY <2>1, <2>3, <2>4
<1>4. PICK l \in Nat : l = LenTo(Room4(o), Len(o))
  <2>1. Len(o) \in 0 .. Len(Room4(o))
    BY <1>2, <1>3
  <2> QED
    BY <1>3, <2>1, LenToStep
<1>5. PICK y \in Half : y = 257 * a
  <2>1. 257 * a \in Nat /\ 257 * a <= 65535
    BY SMT
  <2> QED
    BY <2>1, Halves, SMT
<1>6. PICK s \in Nat : s = ForeignSum
  BY SMT DEF ForeignSum
<1>7. PICK c \in Half :
        c = IF h = "summed" THEN checksum(ForeignSum) ELSE IF h = "bad" THEN 1 ELSE 0
  <2>1. checksum(ForeignSum) \in Half
    BY <1>6, ChecksumTyped
  <2>2. 0 \in Half /\ 1 \in Half
    BY Halves, SMT
  <2>3. (IF h = "summed" THEN checksum(ForeignSum) ELSE IF h = "bad" THEN 1 ELSE 0) \in Half
    BY <2>1, <2>2
  <2> QED
    BY <2>3, ZenonT(60)
<1>8. PICK e \in Int : e = d + (IF h = "none" THEN 0 ELSE 4 + l) /\ (h # "none" => e = d + (4 + l))
  BY <1>2
<1>9. PICK b \in BOOLEAN : b = (h # "none")
  OBVIOUS
<1>10. w = [type |-> t, proto |-> p, lead |-> <<y, 0>>, dlen |-> d, look |-> {},
            header |-> b, sum |-> s, check |-> c, objs |-> o, end |-> e]
  <2>1. w = [type |-> t, proto |-> p, lead |-> <<257 * a, 0>>, dlen |-> d, look |-> {},
             header |-> h # "none", sum |-> ForeignSum,
             check |-> IF h = "summed" THEN checksum(ForeignSum) ELSE IF h = "bad" THEN 1 ELSE 0,
             objs |-> o, end |-> d + (IF h = "none" THEN 0 ELSE 4 + LenTo(Room4(o), Len(o)))]
    BY <1>1 DEF ForeignWire
  <2> QED
    BY <1>4, <1>5, <1>6, <1>7, <1>8, <1>9, <2>1, Zenon
<1>11. w \in Wire
  <2>1. <<y, 0>> \in Half \X Half
    BY FieldOctets
  <2> QED
    BY <1>2, <1>10, <2>1 DEF Wire
<1>12. w.sum = s /\ w.look = {} /\ w.objs = o /\ w.header = b /\ w.dlen = d /\ w.end = e
  BY <1>10
<1> QED
  BY <1>3, <1>4, <1>6, <1>8, <1>9, <1>11, <1>12, Zenon

-----------------------------------------------------------------------------
(* The inductive invariant: what is on the wire is what Marshal made of    *)
(* msg, the same with its end lost, or what another implementation sends,  *)
(* and what was parsed is what the parser of its type makes of it.         *)
IInv ==
  /\ TypeOK
  /\ stage = "new" => origin = "ours"
  /\ stage # "parsed" => result = NoResult
  /\ stage = "parsed" => ~TooShort(wire) /\ result = ParseOf(wire)
  /\ stage \in {"wire", "parsed"} =>
       /\ origin = "foreign" => wire \in ForeignWires
       /\ origin # "foreign" => msg \in Bodies
       /\ origin = "ours" => wire = WireOf(msg)
       /\ origin = "cut" => wire = [WireOf(msg) EXCEPT !.end = wire.end, !.sum = wire.sum]

(* Init starts with nothing sent and nothing parsed.                       *)
LEMMA StartsWell == Init => IInv
<1> SUFFICES ASSUME Init
             PROVE  IInv
  OBVIOUS
<1>1. 0 \in Half
  BY FieldOctets
<1>2. NoBody \in Body /\ NoResult \in Parsed
  BY DEF NoBody, Body, Datagram, NoHead, MessageType, Multipart, Plain, NoResult, Parsed
<1>3. NoWire \in Wire
  <2>1. <<0, 0>> \in Half \X Half /\ -4 \in Int /\ <<>> \in Seq(Object) /\ "Raw" \in MessageType
    BY <1>1 DEF MessageType, Plain
  <2> QED
    BY <1>1, <2>1 DEF NoWire, Wire
<1>4. TypeOK
  BY <1>2, <1>3 DEF Init, TypeOK
<1> QED
  BY <1>4 DEF Init, IInv

(* Every Marshal method writes the wire format of its body, or refuses.    *)
LEMMA MarshalWrites ==
  ASSUME IInv, Marshal
  PROVE  /\ stage = "new" /\ UNCHANGED <<origin, result>>
         /\ msg' \in Bodies
         /\ \/ stage' = "wire" /\ wire' = WireOf(msg')
            \/ stage' = "refused" /\ wire' = wire
<1>1. PICK m \in Bodies :
        \/ MarshalDstUnreach(m) \/ MarshalTimeExceeded(m) \/ MarshalParamProb(m)
        \/ MarshalExtendedEchoRequest(m) \/ MarshalEcho(m) \/ MarshalExtendedEchoReply(m)
        \/ MarshalPacketTooBig(m) \/ MarshalRawBody(m)
  BY DEF Marshal
<1>2. Refuse(m) \/ Send(m, WireOf(m))
  <2>0. 1 # 58
    OBVIOUS
  <2>1. CASE MarshalDstUnreach(m)
    BY <2>1, Zenon DEF MarshalDstUnreach, WireOf, Written, Parted
  <2>2. CASE MarshalTimeExceeded(m)
    BY <2>2, Zenon DEF MarshalTimeExceeded, WireOf, Written, Parted
  <2>3. CASE MarshalParamProb(m)
    BY <2>0, <2>3, Zenon DEF MarshalParamProb, WireOf, Written, Parted
  <2>4. CASE MarshalExtendedEchoRequest(m)
    BY <2>4, Zenon DEF MarshalExtendedEchoRequest, WireOf, Written
  <2>5. CASE MarshalEcho(m)
    BY <2>5, Zenon DEF MarshalEcho, WireOf, Written, Parted
  <2>6. CASE MarshalExtendedEchoReply(m)
    BY <2>6, Zenon DEF MarshalExtendedEchoReply, WireOf, Written, Parted
  <2>7. CASE MarshalPacketTooBig(m)
    BY <2>7, Zenon DEF MarshalPacketTooBig, WireOf, Written, Parted
  <2>8. CASE MarshalRawBody(m)
    BY <2>8, Zenon DEF MarshalRawBody, WireOf, Written, Parted
  <2> QED
    BY <1>1, <2>1, <2>2, <2>3, <2>4, <2>5, <2>6, <2>7, <2>8, Zenon
<1> QED
  BY <1>1, <1>2, Zenon DEF Refuse, Send

(* Every parser reads what ParseOf says of the message.                    *)
ParseStep == \/ parseDstUnreach \/ parseTimeExceeded \/ parseParamProb
             \/ parseExtendedEchoRequest \/ parseEcho \/ parseExtendedEchoReply
             \/ parsePacketTooBig \/ parseRawBody
LEMMA ParserReads ==
  ASSUME IInv, ParseStep
  PROVE  Parse(ParseOf(wire))
<1>0. 1 # 58 /\ wire.proto \in {1, 58}
  BY WireFields DEF IInv, TypeOK
<1>1. CASE parseDstUnreach
  BY <1>1, Zenon DEF parseDstUnreach, ParseOf, Parted, Known
<1>2. CASE parseTimeExceeded
  BY <1>2, Zenon DEF parseTimeExceeded, ParseOf, Parted, Known
<1>3. CASE parseParamProb
  <2>1. CASE wire.proto = 1
    BY <1>0, <1>3, <2>1, Zenon DEF parseParamProb, ParseOf, Parted, Known
  <2>2. CASE wire.proto = 58
    <3>1. ParseOf(wire) = parsePlain(wire, wire.end)
      BY <1>0, <1>3, <2>2, Zenon DEF parseParamProb, ParseOf, Parted, Known
    <3> QED
      BY <1>3, <2>2, <3>1, Zenon DEF parseParamProb
  <2> QED
    BY <1>0, <2>1, <2>2
<1>4. CASE parseExtendedEchoRequest
  BY <1>4, Zenon DEF parseExtendedEchoRequest, ParseOf, Parted, Known
<1>5. CASE parseEcho
  BY <1>5, Zenon DEF parseEcho, ParseOf, Parted, Known
<1>6. CASE parseExtendedEchoReply
  BY <1>6, Zenon DEF parseExtendedEchoReply, ParseOf, Parted, Known
<1>7. CASE parsePacketTooBig
  BY <1>7, Zenon DEF parsePacketTooBig, ParseOf, Parted
<1>8. CASE parseRawBody
  BY <1>8, Zenon DEF parseRawBody, ParseOf
<1> QED
  BY <1>1, <1>2, <1>3, <1>4, <1>5, <1>6, <1>7, <1>8 DEF ParseStep

(* Every step keeps the invariant.                                         *)
LEMMA StaysWell == IInv /\ [Next]_vars => IInv'
<1> SUFFICES ASSUME IInv, [Next]_vars
             PROVE  IInv'
  OBVIOUS
<1>1. CASE Marshal
  <2>1. /\ stage = "new" /\ UNCHANGED <<origin, result>> /\ msg' \in Bodies
        /\ \/ stage' = "wire" /\ wire' = WireOf(msg')
           \/ stage' = "refused" /\ wire' = wire
    BY <1>1, MarshalWrites
  <2>2. msg' \in Body /\ WireOf(msg') \in Wire
    BY <2>1, BodyTyped, WireOfTyped
  <2>3. TypeOK'
    BY <2>1, <2>2 DEF IInv, TypeOK
  <2> QED
    BY <2>1, <2>3 DEF IInv
<1>2. ASSUME NEW n \in Cuts, Cut(n)
      PROVE  IInv'
  <2>1. /\ stage = "wire" /\ origin = "ours" /\ origin' = "cut" /\ UNCHANGED <<stage, msg, result>>
        /\ msg \in Bodies /\ wire = WireOf(msg)
    BY <1>2 DEF Cut, IInv
  <2>2. PICK s \in IF wire.header THEN {wire.sum, wire.sum - 1} ELSE {wire.sum} :
          wire' = [wire EXCEPT !.end = @ - n, !.sum = s]
    BY <1>2 DEF Cut
  <2>3. /\ wire \in Wire /\ wire.sum \in Nat /\ wire.end \in Int /\ n \in Nat
        /\ wire.header \in BOOLEAN
    BY WireFields, LensAssumption DEF IInv, TypeOK
  <2>4. s \in Nat
    <3>1. wire.header => wire.sum > 0
      BY <2>1, WireOfTyped
    <3>2. s = wire.sum \/ (s = wire.sum - 1 /\ wire.sum > 0)
      BY <2>2, <3>1
    <3> QED
      BY <2>3, <3>2
  <2>5. PICK e \in Int : e = wire.end - n
    BY <2>3
  <2>6. wire' = [wire EXCEPT !.end = e, !.sum = s]
    BY <2>2, <2>5
  <2>7. wire' \in Wire /\ wire'.end = e /\ wire'.sum = s
    BY <2>3, <2>4, <2>6 DEF Wire
  <2>8. wire' = [WireOf(msg') EXCEPT !.end = wire'.end, !.sum = wire'.sum]
    BY <2>1, <2>6, <2>7, Zenon
  <2> QED
    BY <2>1, <2>7, <2>8 DEF IInv, TypeOK
<1>3. ASSUME NEW w \in ForeignWires, Foreign(w)
      PROVE  IInv'
  BY <1>3, ForeignTyped DEF Foreign, IInv, TypeOK
<1>4. CASE ParseStep
  <2>1. Parse(ParseOf(wire))
    BY <1>4, ParserReads
  <2>2. ParseOf(wire) \in Parsed
    BY <2>1, ParsedTyped DEF Parse, IInv, TypeOK
  <2> QED
    BY <2>1, <2>2 DEF Parse, IInv, TypeOK
<1>5. CASE errMessageTooShort
  BY <1>5 DEF errMessageTooShort, IInv, TypeOK
<1>6. CASE UNCHANGED vars
  BY <1>6 DEF vars, IInv, TypeOK
<1> QED
  BY <1>1, <1>2, <1>3, <1>4, <1>5, <1>6 DEF Next, ParseStep

(* At every moment the wire holds what was marshalled, cut or sent by      *)
(* another implementation, and the result is what its parser makes of it.  *)
LEMMA AlwaysWell == Spec => []IInv
  BY StartsWell, StaysWell, PTL DEF Spec

(* The marshalled body, the message and the parsed body have their types:  *)
(* every parser returns a body, and every Marshal a message.               *)
THEOREM TypeCorrect == Spec => []TypeOK
<1>1. IInv => TypeOK
  BY DEF IInv
<1> QED
  BY <1>1, AlwaysWell, PTL

(* No message, cut short or from another implementation, makes             *)
(* parseExtensions index behind the end of what it was given.              *)
THEOREM NoOverreads == Spec => []NoOverread
<1>1. IInv => NoOverread
  BY ParsedTyped DEF IInv, TypeOK, NoOverread, NoResult
<1> QED
  BY <1>1, AlwaysWell, PTL

-----------------------------------------------------------------------------
(* Messages that are cut short, and messages of other implementations.     *)

(* What a parser returns: no extensions and all of the message as data, or *)
(* those of the first objects behind the header found, read one by one.    *)
LEMMA FirstOnes ==
  ASSUME NEW w \in Wire, NEW r, r = ParseOf(w)
  PROVE  \/ /\ r.exts = <<>>
            /\ w.type \in Multipart \ {"ExtendedEchoRequest"} => r.data = w.end
         \/ /\ Parted(w) \/ w.type = "ExtendedEchoRequest"
            /\ HeaderAt(w) # -1 /\ Len(r.exts) \in 0 .. Len(Found(w))
            /\ \A k \in 1 .. Len(r.exts) : <<r.exts[k]>> = ParseObject(Found(w)[k])
            /\ HeaderAt(w) + 4 + Said(Found(w), Len(r.exts)) <= w.end
            /\ w.type # "ExtendedEchoRequest" => r.data = HeaderAt(w)
<1> DEFINE p == parseMultipartMessageBody(w)
           q == [head |-> HeadOf(w), data |-> HeaderAt(w), exts |-> Extensions(w),
                 over |-> Overread(w)]
           N == [NoResult EXCEPT !.head = HeadOf(w)]
           P == [head |-> HeadOf(w), data |-> w.end, exts |-> <<>>, over |-> Overread(w)]
<1>0. w.type \in MessageType /\ w.proto \in {1, 58}
  BY WireFields
<1>1. \/ w.end = 0 /\ p = N
      \/ p = P
      \/ ~Refused(w) /\ HeaderAt(w) # -1 /\ p = q
  BY Zenon DEF parseMultipartMessageBody
<1>2. CASE ~(Parted(w) \/ w.type = "ExtendedEchoRequest")
  <2>1. \/ ~Known(w) /\ r = [NoResult EXCEPT !.data = w.end + 4]
        \/ w.type = "ExtendedEchoReply" /\ r = parsePlain(w, 0)
        \/ r = parsePlain(w, w.end)
    BY <1>2, Zenon DEF ParseOf
  <2>2. /\ [NoResult EXCEPT !.data = w.end + 4].exts = <<>>
        /\ \A d : parsePlain(w, d).exts = <<>> /\ parsePlain(w, d).data = d
    BY DEF NoResult, parsePlain
  <2>3. /\ ~Known(w) => w.type \notin Multipart
        /\ w.type = "ExtendedEchoReply" => w.type \notin Multipart
    BY DEF Known, Multipart
  <2> QED
    BY <2>1, <2>2, <2>3, Zenon
<1>3. CASE Parted(w) \/ w.type = "ExtendedEchoRequest"
  <2>1. Known(w) /\ (Parted(w) => w.type # "ExtendedEchoRequest")
    BY <1>3 DEF Known, Parted
  <2>2. \/ Parted(w) /\ r = p
        \/ w.type = "ExtendedEchoRequest" /\ r = [p EXCEPT !.data = 0]
    BY <1>3, <2>1, Zenon DEF ParseOf
  <2>3. CASE w.end = 0 /\ p = N
    <3>1. N.exts = <<>> /\ N.data = 0 /\ [N EXCEPT !.data = 0].exts = <<>>
      BY DEF NoResult
    <3> QED
      BY <2>1, <2>2, <2>3, <3>1, Zenon
  <2>4. CASE p = P
    <3>1. P.exts = <<>> /\ P.data = w.end /\ [P EXCEPT !.data = 0].exts = <<>>
      OBVIOUS
    <3> QED
      BY <2>1, <2>2, <2>4, <3>1, Zenon
  <2>5. CASE ~Refused(w) /\ HeaderAt(w) # -1 /\ p = q
    <3>1. q.exts = Extensions(w) /\ q.data = HeaderAt(w) /\ [q EXCEPT !.data = 0].exts = Extensions(w)
      OBVIOUS
    <3>2. /\ r.exts = Extensions(w)
          /\ w.type # "ExtendedEchoRequest" => r.data = HeaderAt(w)
      BY <2>1, <2>2, <2>5, <3>1, Zenon
    <3>3. PICK n \in 0 .. Len(Found(w)) :
            /\ Walked(w) = 1 .. n /\ Len(Extensions(w)) = n
            /\ \A k \in 1 .. n : <<Extensions(w)[k]>> = ParseObject(Found(w)[k])
      BY <2>5, ExtensionsTyped
    <3>4. HeaderAt(w) + 4 + Said(Found(w), n) <= w.end
      <4>1. CASE n > 0
        <5>1. n \in Walked(w)
          BY <3>3, <4>1
        <5> QED
          BY <2>5, <5>1 DEF Walked, Leads
      <4>2. CASE n = 0
        <5>1. Said(Found(w), 0) = 0
          BY <2>5, FoundTyped, SaidTyped
        <5>2. PICK h \in Nat : h = HeaderAt(w) /\ h + 8 <= w.end
          BY <2>5, HeaderPlace
        <5>3. w.end \in Int
          BY WireFields
        <5> QED
          BY <4>2, <5>1, <5>2, <5>3
      <4> QED
        BY <4>1, <4>2
    <3> QED
      BY <1>3, <2>5, <3>2, <3>3, <3>4, Zenon
  <2> QED
    BY <1>1, <2>3, <2>4, <2>5, Zenon
<1> QED
  BY <1>2, <1>3

(* A message that lost its end gives no extension that was not in it       *)
(* whole: what is read are the first objects of the list that was sent, up *)
(* to the one that was cut, with the datagram as it was, or the first that *)
(* the datagram itself shows behind a look-alike of a header, for any      *)
(* datagram (parseMultipartMessageBody, parseExtensions).                  *)
THEOREM CutSafe == Spec => []CutInventsNothing
<1>1. ASSUME IInv, stage = "parsed", origin = "cut"
      PROVE  CutInventsNothing
  <2> DEFINE n == Len(result.exts)
             Shows(at, objs) ==
               /\ n <= Len(objs) /\ \A k \in 1 .. n : <<result.exts[k]>> = ParseObject(objs[k])
               /\ at + 4 + Said(objs, n) <= wire.end
               /\ msg.type # "ExtendedEchoRequest" => result.data = at
  <2>1. /\ wire \in Wire /\ result = ParseOf(wire) /\ msg \in Bodies
        /\ wire = [WireOf(msg) EXCEPT !.end = wire.end, !.sum = wire.sum]
    BY <1>1 DEF IInv, TypeOK
  <2>2. WireOf(msg) \in Wire /\ WireOf(msg).type = msg.type /\ WireOf(msg).proto = msg.proto
    BY <2>1, WireOfTyped
  <2>3. /\ wire.type = msg.type /\ wire.proto = msg.proto
        /\ wire.objs = WireOf(msg).objs /\ wire.dlen = WireOf(msg).dlen
        /\ wire.look = WireOf(msg).look
    <3>1. PICK u \in Wire : u = WireOf(msg)
      BY <2>2
    <3>2. PICK e, s : e = wire.end /\ s = wire.sum
      OBVIOUS
    <3>3. wire = [u EXCEPT !.end = e, !.sum = s]
      BY <2>1, <3>1, <3>2, Zenon
    <3>4. /\ wire.type = u.type /\ wire.proto = u.proto
          /\ wire.objs = u.objs /\ wire.dlen = u.dlen /\ wire.look = u.look
      BY <3>3 DEF Wire
    <3> QED
      BY <2>2, <3>1, <3>4, Zenon
  <2>4. CASE /\ result.exts = <<>>
             /\ wire.type \in Multipart \ {"ExtendedEchoRequest"} => result.data = wire.end
    <3>1. n = 0 /\ (msg.type \in Multipart \ {"ExtendedEchoRequest"} => result.data = wire.end)
      BY <2>3, <2>4
    <3> QED
      BY <3>1, Zenon DEF CutInventsNothing
  <2>5. CASE /\ Parted(wire) \/ wire.type = "ExtendedEchoRequest"
             /\ HeaderAt(wire) # -1 /\ Len(result.exts) \in 0 .. Len(Found(wire))
             /\ \A k \in 1 .. Len(result.exts) : <<result.exts[k]>> = ParseObject(Found(wire)[k])
             /\ HeaderAt(wire) + 4 + Said(Found(wire), Len(result.exts)) <= wire.end
             /\ wire.type # "ExtendedEchoRequest" => result.data = HeaderAt(wire)
    <3>1. Shows(HeaderAt(wire), Found(wire))
      <4>1. n <= Len(Found(wire))
        BY <2>5
      <4> QED
        BY <2>3, <2>5, <4>1, Zenon
    <3>2. Written(msg)
      BY <2>3, <2>5 DEF Written, Parted
    <3>3. /\ wire.objs = Objects(msg.exts, msg.proto) /\ wire.dlen = DataLen(msg)
          /\ wire.look = msg.data.look
      BY <2>1, <2>3, <3>2, WrittenFields, Zenon
    <3>4. \/ HeaderAt(wire) = wire.dlen /\ Found(wire) = wire.objs
          \/ \E x \in wire.look : HeaderAt(wire) = x.at /\ Found(wire) = x.objs
      BY <2>1, <2>5, FoundTyped, Zenon
    <3> HIDE DEF n, Shows
    <3>5. \/ Shows(DataLen(msg), Objects(msg.exts, msg.proto))
          \/ \E x \in msg.data.look : Shows(x.at, x.objs)
      BY <3>1, <3>3, <3>4, Zenon
    <3> QED
      BY <3>5, Zenon DEF CutInventsNothing, n, Shows
  <2> QED
    BY <2>1, <2>4, <2>5, FirstOnes
<1>2. IInv => CutInventsNothing
  BY <1>1, Zenon DEF CutInventsNothing
<1> QED
  BY <1>2, AlwaysWell, PTL

(* A number is made of its halves in one way only.                         *)
Split(n, a, b) == n = 65536 * a + b /\ b <= 65535
LEMMA HalvesOnly ==
  ASSUME NEW n \in Nat, NEW a \in Nat, NEW b \in Nat, Split(n, a, b)
  PROVE  Upper(n) = a /\ Lower(n) = b
<1>1. Upper(n) \in Nat /\ Lower(n) \in Nat /\ Lower(n) <= 65535 /\ n = 65536 * Upper(n) + Lower(n)
  BY Halves, SMT
<1>2. PICK u \in Nat : u = Upper(n)
  BY <1>1
<1>3. PICK l \in Nat : l = Lower(n)
  BY <1>1
<1>4. u = a /\ l = b
  BY <1>1, <1>2, <1>3, SMT DEF Split
<1> QED
  BY <1>2, <1>3, <1>4, Zenon

(* With its checksum in it, a structure sums up to nothing.                *)
LEMMA ChecksumFits ==
  ASSUME NEW s \in PacketSum
  PROVE  s \in Nat /\ checksum(s) \in Nat /\ checksum(s + checksum(s)) = 0
<1>0. 0 < s /\ s <= 2147450880
  BY SMT DEF PacketSum
<1>1. s \in Nat
  BY SMT DEF PacketSum
<1>2. Upper(s) \in Nat /\ Lower(s) \in Nat /\ Lower(s) <= 65535 /\ s = 65536 * Upper(s) + Lower(s)
  BY <1>1, Halves, SMT
<1>3. PICK u \in Nat : u = Upper(s)
  BY <1>2
<1>4. PICK v \in Nat : v = Lower(s)
  BY <1>2
<1>5. v <= 65535 /\ s = 65536 * u + v
  BY <1>2, <1>3, <1>4, SMT
<1>6. u <= 32767
  BY <1>0, <1>1, <1>5, SMT
<1>7. PICK t \in Nat : t = u + v
  BY SMT
<1>8. 0 < t /\ t <= 98302 /\ s = 65535 * u + t
  BY <1>0, <1>1, <1>5, <1>6, <1>7, SMT
<1>9. Folded(s) = Lower(t + Upper(t))
  BY <1>3, <1>4, <1>7, Zenon DEF Folded
<1>10. PICK f \in Nat : f = Folded(s)
  BY <1>1, ChecksumTyped
<1> DEFINE Is(q) == q <= 32768 /\ s = 65535 * q + f
<1> HIDE DEF Is
<1>11. \E q \in Nat : Is(q)
  <2>1. CASE t <= 65535
    <3>1. Split(t, 0, t)
      BY <2>1, SMT DEF Split
    <3>2. Upper(t) = 0 /\ Lower(t) = t
      BY <3>1, HalvesOnly, SMT
    <3>3. f = t
      BY <1>9, <1>10, <3>2, SMT
    <3>4. Is(u)
      BY <1>6, <1>8, <3>3, SMT DEF Is
    <3> QED
      BY <3>4, Zenon
  <2>2. CASE t > 65535
    <3>1. t - 65536 \in Nat /\ t - 65535 \in Nat /\ t - 65535 <= 65535
      BY <1>8, <2>2, SMT
    <3>2. PICK x \in Nat : x = t - 65536
      BY <3>1, SMT
    <3>3. PICK y \in Nat : y = t - 65535
      BY <3>1, SMT
    <3>4. Split(t, 1, x)
      BY <1>8, <3>2, SMT DEF Split
    <3>5. Upper(t) = 1
      BY <3>4, HalvesOnly, SMT
    <3>6. PICK z \in Nat : z = t + 1
      BY SMT
    <3>7. Split(z, 1, y)
      BY <1>8, <3>3, <3>6, SMT DEF Split
    <3>8. Lower(z) = y
      BY <3>7, HalvesOnly, SMT
    <3>9. f = y
      BY <1>9, <1>10, <3>5, <3>6, <3>8, SMT
    <3>10. PICK q \in Nat : q = u + 1
      BY SMT
    <3>11. Is(q)
      BY <1>6, <1>8, <3>3, <3>9, <3>10, SMT DEF Is
    <3> QED
      BY <3>11, Zenon
  <2> QED
    BY <2>1, <2>2, SMT
<1>12. PICK q \in Nat : q <= 32768 /\ s = 65535 * q + f
  BY <1>11, SMT DEF Is
<1>13. checksum(s) = 65535 - f /\ f <= 65535
  BY <1>1, <1>10, ChecksumTyped, SMT
<1>14. checksum(s) \in Nat
  BY <1>13, SMT
<1>15. PICK n \in Nat : n = s + checksum(s)
  BY <1>1, <1>14
<1>16. n = 65535 * q + 65535
  BY <1>1, <1>12, <1>13, <1>15, SMT
<1>17. 65535 - q \in Nat
  BY <1>12, SMT
<1>18. PICK r \in Nat : r = 65535 - q
  BY <1>17, SMT
<1>19. Split(n, q, r)
  BY <1>12, <1>16, <1>18, SMT DEF Split
<1>20. Upper(n) = q /\ Lower(n) = r
  BY <1>19, HalvesOnly, Zenon
<1>21. PICK z \in Nat : z = 65535
  BY SMT
<1>22. q + r = z
  BY <1>12, <1>18, <1>21, SMT
<1>23. Split(z, 0, z) /\ z + 0 = z
  BY <1>21, SMT DEF Split
<1>24. Upper(z) = 0 /\ Lower(z) = z
  BY <1>23, HalvesOnly, SMT
<1>25. Folded(n) = z
  BY <1>20, <1>22, <1>23, <1>24, Zenon DEF Folded
<1>26. checksum(n) = 65535 - Folded(n)
  BY <1>15, ChecksumTyped, SMT
<1>27. checksum(n) = 0
  BY <1>21, <1>25, <1>26, SMT
<1> QED
  BY <1>1, <1>14, <1>15, <1>27, Zenon

(* A message with a header whose checksum is right or left out, all of     *)
(* whose objects have headers, end within it and can be read: its header   *)
(* is found and all of its extensions are read.                            *)
LEMMA AllRead ==
  ASSUME NEW w \in Wire, Parted(w) \/ w.type = "ExtendedEchoRequest",
         HeaderAt(w) = w.dlen, w.dlen + 4 + Said(w.objs, Len(w.objs)) <= w.end,
         \A k \in 1 .. Len(w.objs) : /\ w.objs[k].len >= 4
                                     /\ ParseObject(w.objs[k]) # errInvalidExtension
  PROVE  /\ Len(ParseOf(w).exts) = Len(w.objs)
         /\ \A k \in 1 .. Len(w.objs) : <<ParseOf(w).exts[k]>> = ParseObject(w.objs[k])
         /\ ParseOf(w).exts \in Seq(Extension)
         /\ w.type # "ExtendedEchoRequest" => ParseOf(w).data = w.dlen
         /\ w.type = "ExtendedEchoRequest" => ParseOf(w).data = 0
         /\ ParseOf(w).head = HeadOf(w)
<1>1. /\ w.dlen \in Nat /\ w.end \in Int /\ w.objs \in Seq(Object)
      /\ w.type \in MessageType
  BY WireFields
<1>2. PICK N \in Nat : N = Len(w.objs) /\ DOMAIN w.objs = 1 .. N
  BY <1>1
<1>3. Said(w.objs, N) \in Nat
  <2>1. N \in 0 .. Len(w.objs)
    BY <1>2
  <2> QED
    BY <1>1, <2>1, SaidTyped
<1>4. w.end # 0 /\ HeaderAt(w) # -1
  BY <1>1, <1>2, <1>3
<1>0. Found(w) = w.objs
  BY Zenon DEF Found
<1>5. Known(w)
  BY DEF Known, Parted
<1>6. PICK n \in 0 .. Len(w.objs) :
        /\ Walked(w) = 1 .. n
        /\ \A k \in 1 .. Len(w.objs) : Leads(w, k) => k <= n
  BY <1>0, <1>4, WalkedFirst
<1>7. n = N
  <2>1. N > 0 => Leads(w, N)
    BY <1>0, <1>2 DEF Leads
  <2>2. N > 0 => N <= n
    BY <1>2, <1>6, <2>1
  <2>3. n \in 0 .. N
    BY <1>2
  <2> QED
    BY <2>2, <2>3
<1>8. ~Refused(w)
  BY <1>0, <1>2, <1>6, <1>7 DEF Refused
<1>9. PICK i \in 0 .. Len(w.objs) :
        /\ Walked(w) = 1 .. i
        /\ Extensions(w) \in Seq(Extension) /\ Len(Extensions(w)) = i
        /\ \A k \in 1 .. i : <<Extensions(w)[k]>> = ParseObject(w.objs[k])
  BY <1>0, <1>4, <1>8, ExtensionsTyped
<1>10. i = N
  <2>1. i \in Nat /\ i <= N
    BY <1>2
  <2>2. N > 0 => N \in 1 .. i
    BY <1>6, <1>7, <1>9
  <2> QED
    BY <2>1, <2>2
<1> DEFINE q == [head |-> HeadOf(w), data |-> HeaderAt(w), exts |-> Extensions(w),
                 over |-> Overread(w)]
<1>11. parseMultipartMessageBody(w) = q
  BY <1>4, <1>8, Zenon DEF parseMultipartMessageBody
<1>12. /\ q.exts = Extensions(w) /\ q.data = HeaderAt(w) /\ q.head = HeadOf(w)
       /\ [q EXCEPT !.data = 0].exts = Extensions(w) /\ [q EXCEPT !.data = 0].data = 0
       /\ [q EXCEPT !.data = 0].head = HeadOf(w)
  OBVIOUS
<1>13. Parted(w) => w.type # "ExtendedEchoRequest"
  BY DEF Parted
<1>14. /\ Parted(w) => ParseOf(w) = q
       /\ ~Parted(w) => ParseOf(w) = [q EXCEPT !.data = 0]
  BY <1>5, <1>11, Zenon DEF ParseOf
<1> HIDE DEF q
<1>15. /\ ParseOf(w).exts = Extensions(w) /\ ParseOf(w).head = HeadOf(w)
       /\ w.type # "ExtendedEchoRequest" => ParseOf(w).data = w.dlen
       /\ w.type = "ExtendedEchoRequest" => ParseOf(w).data = 0
  BY <1>12, <1>13, <1>14, Zenon
<1> QED
  BY <1>2, <1>9, <1>10, <1>15, Zenon

(* An implementation that pads to 128 octets but leaves the length         *)
(* attribute or the checksum zero is understood all the same               *)
(* (parseMultipartMessageBody, validExtensionHeader).                      *)
THEOREM Legacy == Spec => []LegacyUnderstood
<1>1. ASSUME IInv, stage = "parsed", origin = "foreign",
             wire.type \in Multipart \ {"ExtendedEchoRequest"},
             ~(wire.type = "ParamProb" /\ wire.proto = 58),
             wire.dlen = 128, wire.header, wire.check = 0 \/ wire.check = checksum(wire.sum),
             wire.objs # <<>>,
             \A k \in DOMAIN wire.objs : wire.objs[k].len >= 4 /\ ParseObject(wire.objs[k]) # <<>>
      PROVE  result.data = 128 /\ Len(result.exts) = Len(wire.objs)
  <2>1. PICK w \in Wire : w = wire
    BY <1>1 DEF IInv, TypeOK
  <2>2. w \in ForeignWires /\ result = ParseOf(w)
    BY <1>1, <2>1 DEF IInv
  <2>3. /\ w.sum = ForeignSum /\ w.look = {} /\ w.header
        /\ Room4(w.objs) \in Seq(Nat) /\ Len(Room4(w.objs)) = Len(w.objs)
        /\ w.end = w.dlen + (4 + LenTo(Room4(w.objs), Len(w.objs)))
    BY <1>1, <2>1, <2>2, ForeignTyped, ZenonT(60)
  <2>4. /\ w.objs \in Seq(Object) /\ w.proto \in {1, 58} /\ w.end \in Int
    BY WireFields
  <2>5. PICK N \in Nat : N = Len(w.objs) /\ N > 0 /\ DOMAIN w.objs = 1 .. N
    <3>1. w.objs # <<>>
      BY <1>1, <2>1
    <3> QED
      BY <2>4, <3>1
  <2>6. \A k \in 1 .. N : w.objs[k].len >= 4 /\ ParseObject(w.objs[k]) # errInvalidExtension
    BY <1>1, <2>1, <2>5 DEF errInvalidExtension
  <2>7. LenTo(Room4(w.objs), N) = Said(w.objs, N)
    <3>1. \A k \in DOMAIN w.objs : Max({4, w.objs[k].len}) = w.objs[k].len
      <4>1. \A k \in DOMAIN w.objs : w.objs[k].len \in Nat
        BY <2>4 DEF Object
      <4> QED
        BY <2>5, <2>6, <4>1, MaxFour
    <3>2. Room4(w.objs) = [j \in DOMAIN w.objs |-> w.objs[j].len]
      BY <3>1 DEF Room4
    <3> QED
      BY <3>2 DEF Said
  <2>8. PICK x \in Nat : x = Said(w.objs, N) /\ x >= 4
    <3>1. N \in 1 .. N /\ N \in 0 .. N /\ N - 1 \in 0 .. N
      BY <2>5
    <3>2. Said(w.objs, N) = Said(w.objs, N - 1) + w.objs[N].len /\ Said(w.objs, N - 1) \in Nat
      BY <2>4, <2>5, <3>1, SaidTyped
    <3>3. w.objs[N].len \in Nat /\ w.objs[N].len >= 4
      BY <2>4, <2>5, <2>6, <3>1 DEF Object
    <3>4. Said(w.objs, N) \in Nat /\ Said(w.objs, N) >= 4
      BY <3>2, <3>3
    <3> QED
      BY <3>4
  <2>9. w.dlen = 128 /\ w.end = 132 + x
    BY <1>1, <2>1, <2>3, <2>5, <2>7, <2>8
  <2>10. w.check = 0 \/ checksum(w.sum + w.check) = 0
    <3>1. ForeignSum \in PacketSum
      BY SMT DEF ForeignSum, PacketSum
    <3>2. checksum(ForeignSum + checksum(ForeignSum)) = 0
      BY <3>1, ChecksumFits
    <3>3. w.check = 0 \/ w.check = checksum(w.sum)
      BY <1>1, <2>1
    <3> QED
      BY <2>3, <3>2, <3>3, Zenon
  <2>11. HeaderAt(w) = 128
    <3>1. PICK a \in Nat : a = Adjusted(w) /\ a >= 128
      BY HeaderPlace
    <3>2. ~(a + 8 > w.end)
      <4>1. PICK l : l = Align(w.proto) * AttrOf(w)
        OBVIOUS
      <4>2. a = IF 128 > l \/ l + 8 > w.end THEN 128 ELSE l
        BY <3>1, <4>1 DEF Adjusted
      <4>3. CASE 128 > l \/ l + 8 > w.end
        BY <2>8, <2>9, <4>2, <4>3
      <4>4. CASE ~(128 > l \/ l + 8 > w.end)
        BY <4>2, <4>4
      <4> QED
        BY <4>3, <4>4
    <3>3. validExtensionHeader(w, a) => a = 128
      BY <2>3, <2>9 DEF validExtensionHeader
    <3>4. validExtensionHeader(w, 128)
      BY <2>3, <2>9, <2>10, Zenon DEF validExtensionHeader
    <3>5. w.type # "ExtendedEchoRequest"
      BY <1>1, <2>1
    <3>6. HeaderAt(w) = IF validExtensionHeader(w, a) THEN a
                        ELSE IF validExtensionHeader(w, 128) THEN 128 ELSE -1
      BY <3>1, <3>2, <3>5, Zenon DEF HeaderAt
    <3> QED
      BY <3>3, <3>4, <3>6
  <2>12. Parted(w) /\ w.type # "ExtendedEchoRequest"
    BY <1>1, <2>1, <2>4 DEF Parted, Multipart
  <2>13. w.dlen + 4 + Said(w.objs, Len(w.objs)) <= w.end
    BY <2>5, <2>8, <2>9
  <2>14. HeaderAt(w) = w.dlen
    BY <2>9, <2>11
  <2>15. Len(ParseOf(w).exts) = Len(w.objs) /\ ParseOf(w).data = w.dlen
    BY <2>5, <2>6, <2>12, <2>13, <2>14, AllRead
  <2> QED
    BY <2>1, <2>2, <2>9, <2>15
<1>2. IInv => LegacyUnderstood
  BY <1>1, Zenon DEF LegacyUnderstood
<1> QED
  BY <1>2, AlwaysWell, PTL

-----------------------------------------------------------------------------
(* What is marshalled is parsed again.                                     *)

(* Sayable, kind by kind.                                                  *)
LEMMA SayableKinds ==
  ASSUME NEW e \in Extension, NEW proto \in {1, 58}, Sayable(e, proto)
  PROVE  /\ e.kind = "mpls" => \A k \in DOMAIN e.Labels : Slim(e.Labels[k])
         /\ e.kind = "info" =>
              /\ e.Type % 16 = attrsOf(e, proto) /\ Word(e.Index) /\ Word(e.MTU)
              /\ Len(e.Name) <= 63 /\ e.Name = Trim(e.Name)
              /\ e.Index = 0 => e.Name = <<>> /\ e.MTU = 0
              /\ Len(e.Addr) \in {0, IF proto = 1 THEN 4 ELSE 16}
              /\ e.Zone = IF Len(e.Addr) = 16 THEN e.Name ELSE <<>>
         /\ e.kind = "ident" =>
              /\ Len(e.Name) <= 256 /\ e.Name = Trim(e.Name)
              /\ Word(e.Index) /\ Len(e.Addr) <= 255 /\ e.AFI \in Half
              /\ e.Type # typeInterfaceByName => e.Name = <<>>
              /\ e.Type # typeInterfaceByIndex => e.Index = 0
              /\ e.Type # typeInterfaceByAddress => e.AFI = 0 /\ e.Addr = <<>>
         /\ e.kind = "raw" => e.Data # <<>> /\ e.Data[1].class \notin 1 .. 3
<1>1. CASE e.kind = "mpls"
  BY <1>1, Zenon DEF Sayable
<1>2. CASE e.kind = "info"
  BY <1>2, Zenon DEF Sayable
<1>3. CASE e.kind = "ident"
  BY <1>3, Zenon DEF Sayable
<1>4. CASE e.kind = "raw"
  BY <1>4, Zenon DEF Sayable
<1>5. e.kind \in {"mpls", "info", "ident", "raw"}
  BY Kinds
<1> QED
  BY <1>1, <1>2, <1>3, <1>4, <1>5, Zenon

(* A name that fits runs into nothing.                                     *)
LEMMA SpillNone ==
  ASSUME NEW e \in Extension, NEW proto \in {1, 58}, Sayable(e, proto)
  PROVE  Spill(e, proto).text = <<>> /\ ExtensionLen(e, proto) # 0
<1>1. CASE e.kind = "info"
  <2>1. e.Name \in Seq(Octet) /\ Len(e.Name) <= 63
    BY <1>1, Kinds, SayableKinds DEF InterfaceInfo
  <2>2. SubSeq(e.Name, 63 + 1, Len(e.Name)) = <<>>
    BY <2>1
  <2>3. \/ Spill(e, proto).text = SubSeq(e.Name, 63 + 1, Len(e.Name))
        \/ Spill(e, proto).text = <<>>
    BY <1>1 DEF Spill
  <2> QED
    BY <1>1, <2>2, <2>3, PayloadTyped
<1>2. CASE e.kind = "ident"
  <2>1. e.Name \in Seq(Octet) /\ Len(e.Name) <= 256
    BY <1>2, Kinds, SayableKinds DEF InterfaceIdent
  <2>2. SubSeq(e.Name, 256 + 1, Len(e.Name)) = <<>>
    BY <2>1
  <2>3. \/ Spill(e, proto).text = SubSeq(e.Name, 256 + 1, Len(e.Name))
        \/ Spill(e, proto).text = <<>>
    BY <1>2 DEF Spill
  <2> QED
    BY <1>2, <2>2, <2>3, PayloadTyped
<1>3. CASE e.kind \in {"mpls", "raw"}
  <2>1. Spill(e, proto).text = <<>>
    BY <1>3 DEF Spill
  <2>2. e.kind = "raw" => e.Data # <<>>
    BY SayableKinds
  <2> QED
    BY <1>3, <2>1, <2>2, PayloadTyped
<1> QED
  BY <1>1, <1>2, <1>3, Kinds

(* Octets that are all written are left as they are, the others are zero.  *)
LEMMA FilledTyped ==
  ASSUME NEW p \in Seq(Filling)
  PROVE  /\ Filled(p) \in Seq(Octet) /\ Len(Filled(p)) = Len(p)
         /\ \A i \in 1 .. Len(p) : /\ p[i] \in Octet => Filled(p)[i] = p[i]
                                   /\ p[i] = Unwritten => Filled(p)[i] = 0
         /\ p \in Seq(Octet) => Filled(p) = p
<1> DEFINE At(i) == IF p[i] = Unwritten THEN 0 ELSE p[i]
<1>1. DOMAIN p = 1 .. Len(p) /\ Len(p) \in Nat /\ \A i \in 1 .. Len(p) : p[i] \in Filling
  OBVIOUS
<1>2. \A i \in 1 .. Len(p) : /\ At(i) \in Octet
                             /\ (p[i] \in Octet => At(i) = p[i])
                             /\ (p[i] = Unwritten => At(i) = 0)
  <2>1. Unwritten \notin Octet /\ 0 \in Octet
    BY DEF Unwritten, Octet
  <2>2. \A x \in Filling : x \in Octet \/ x = Unwritten
    BY Zenon DEF Filling
  <2> QED
    BY <1>1, <2>1, <2>2, Zenon
<1>3. Filled(p) = [i \in 1 .. Len(p) |-> At(i)]
  BY <1>1 DEF Filled
<1> HIDE DEF At
<1>4. Filled(p) \in Seq(Octet) /\ Len(Filled(p)) = Len(p) /\ \A i \in 1 .. Len(p) : Filled(p)[i] = At(i)
  BY <1>1, <1>2, <1>3
<1>5. ASSUME p \in Seq(Octet)
      PROVE  Filled(p) = p
  BY <1>2, <1>4, <1>5
<1> QED
  BY <1>2, <1>4, <1>5

(* Text that zeros follow is trimmed to what the text is trimmed to.       *)
LEMMA TrimBack ==
  ASSUME NEW text \in Seq(Octet), NEW b \in Seq(Octet), Len(text) <= Len(b),
         \A i \in 1 .. Len(b) : b[i] = IF i <= Len(text) THEN text[i] ELSE 0
  PROVE  Trim(b) = Trim(text)
<1> DEFINE S == {i \in DOMAIN text : text[i] # 0}
<1>1. /\ DOMAIN text = 1 .. Len(text) /\ Len(text) \in Nat
      /\ DOMAIN b = 1 .. Len(b) /\ Len(b) \in Nat
  OBVIOUS
<1>2. {i \in DOMAIN b : b[i] # 0} = S
  BY <1>1
<1>3. S \in SUBSET (0 .. Len(text)) /\ S \in SUBSET Nat /\ \A i \in S : i \in 1 .. Len(text)
  BY <1>1
<1>4. /\ Trim(b) = IF S = {} THEN <<>> ELSE SubSeq(b, Min(S), Max(S))
      /\ Trim(text) = IF S = {} THEN <<>> ELSE SubSeq(text, Min(S), Max(S))
  BY <1>2, Zenon DEF Trim
<1> HIDE DEF S
<1>5. CASE S = {}
  BY <1>4, <1>5
<1>6. CASE S # {}
  <2>1. PICK hi \in S : hi = Max(S) /\ \A y \in S : hi >= y
    BY <1>1, <1>3, <1>6, MaxIn
  <2>2. PICK lo \in S : lo = Min(S)
    BY <1>3, <1>6, LeastExists, Zenon DEF Min
  <2>3. lo \in 1 .. Len(text) /\ hi \in 1 .. Len(text) /\ lo <= hi
    BY <1>1, <1>3, <2>1, <2>2
  <2>4. lo \in Nat /\ hi \in Nat /\ 1 <= lo /\ lo <= hi + 1 /\ hi <= Len(b) /\ hi <= Len(text)
    BY <1>1, <2>3
  <2>5. /\ SubSeq(b, lo, hi) \in Seq(Octet) /\ Len(SubSeq(b, lo, hi)) = hi - lo + 1
        /\ \A x \in 1 .. hi - lo + 1 : SubSeq(b, lo, hi)[x] = b[lo + x - 1]
    BY <2>4, PartTyped
  <2>6. /\ SubSeq(text, lo, hi) \in Seq(Octet) /\ Len(SubSeq(text, lo, hi)) = hi - lo + 1
        /\ \A x \in 1 .. hi - lo + 1 : SubSeq(text, lo, hi)[x] = text[lo + x - 1]
    BY <2>4, PartTyped
  <2>7. \A x \in 1 .. hi - lo + 1 : b[lo + x - 1] = text[lo + x - 1]
    BY <1>1, <2>4
  <2>8. SubSeq(b, lo, hi) = SubSeq(text, lo, hi)
    BY <2>5, <2>6, <2>7
  <2> QED
    BY <1>4, <1>6, <2>1, <2>2, <2>8, Zenon
<1> QED
  BY <1>5, <1>6

(* The object an extension is sent as.                                     *)
Carries(o, e, proto) ==
  /\ o \in Object /\ o.len = ExtensionLen(e, proto) /\ o.len >= 4
  /\ o.class = ClassOf(e) /\ o.Type = TypeOctet(e) /\ o.octets = Filled(Payload(e, proto))

(* A raw extension comes back as it is.                                    *)
LEMMA RawBack ==
  ASSUME NEW e \in Extension, NEW proto \in {1, 58}, Sayable(e, proto), e.kind = "raw",
         NEW o, Carries(o, e, proto)
  PROVE  ParseObject(o) = <<e>>
<1>1. e \in RawExtension /\ e.Data # <<>> /\ e.Data[1].class \notin 1 .. 3
  BY Kinds, SayableKinds
<1>2. e.Data \in Seq(Object) /\ Len(e.Data) = 1 /\ e = [kind |-> "raw", Data |-> e.Data]
  BY <1>1 DEF RawExtension
<1>3. PICK d \in Object : e.Data = <<d>> /\ d = e.Data[1]
  BY <1>2
<1>4. d.len >= 4 /\ d.len = 4 + Len(d.octets) /\ d.octets \in Seq(Octet)
      /\ d = [class |-> d.class, Type |-> d.Type, len |-> d.len, octets |-> d.octets]
  BY <1>1, <1>3 DEF RawExtension, Object
<1>5. Payload(e, proto) = d.octets
  BY <1>1, <1>3 DEF Payload
<1>6. Filled(d.octets) = d.octets
  <2>1. d.octets \in Seq(Filling)
    BY <1>4 DEF Filling
  <2> QED
    BY <1>4, <2>1, FilledTyped
<1>7. o.class = d.class /\ o.Type = d.Type /\ o.octets = d.octets /\ o \in Object /\ o.len >= 4
  BY <1>1, <1>3, <1>5, <1>6 DEF Carries, ClassOf, TypeOctet
<1>8. o.len = 4 + Len(o.octets) /\ o = [class |-> o.class, Type |-> o.Type, len |-> o.len, octets |-> o.octets]
  BY <1>7 DEF Object
<1>9. o = d
  BY <1>4, <1>7, <1>8, Zenon
<1>10. o.class # 1 /\ o.class # 2 /\ o.class # 3
  BY <1>1, <1>3, <1>7
<1>11. ParseObject(o) = <<[kind |-> "raw", Data |-> <<o>>]>>
  BY <1>10, Zenon DEF ParseObject
<1> QED
  BY <1>2, <1>3, <1>9, <1>11, Zenon

(* A label within its bits is read as it was written.                      *)
HasLabel(b, at, ll) == \A j \in 1 .. 4 : b[at + j] = marshalLabel(ll)[j]
LEMMA LabelBack ==
  ASSUME NEW ll \in MPLSLabel, Slim(ll), NEW b, NEW at \in Nat, HasLabel(b, at, ll)
  PROVE  parseLabel(b, at) = ll
<1>1. /\ ll.Label \in Nat /\ ll.TC \in Nat /\ ll.S \in {0, 1} /\ ll.TTL \in Nat
      /\ ll = [Label |-> ll.Label, TC |-> ll.TC, S |-> ll.S, TTL |-> ll.TTL]
  BY DEF MPLSLabel
<1>2. PICK l \in Nat, t \in Nat, s \in {0, 1}, h \in Nat :
        l = ll.Label /\ t = ll.TC /\ s = ll.S /\ h = ll.TTL
  BY <1>1
<1>3. l < 1048576 /\ t < 8 /\ h < 256
  BY <1>2, SMT DEF Slim
<1>4. marshalLabel(ll) = <<(l \div 4096) % 256, (l \div 16) % 256,
                           (l % 16) * 16 + (t % 8) * 2 + s, h % 256>>
  BY <1>2 DEF marshalLabel
<1>5. PICK c1 \in Octet, c2 \in Octet, c3 \in Octet, c4 \in Octet :
        /\ c1 = (l \div 4096) % 256 /\ c2 = (l \div 16) % 256
        /\ c3 = (l % 16) * 16 + (t % 8) * 2 + s /\ c4 = h % 256
        /\ c1 = b[at + 1] /\ c2 = b[at + 2] /\ c3 = b[at + 3] /\ c4 = b[at + 4]
  <2>1. \A j \in 1 .. 4 : marshalLabel(ll)[j] \in Octet
    BY LabelTyped
  <2>2. 1 \in 1 .. 4 /\ 2 \in 1 .. 4 /\ 3 \in 1 .. 4 /\ 4 \in 1 .. 4
    OBVIOUS
  <2>3. /\ marshalLabel(ll)[1] = (l \div 4096) % 256 /\ marshalLabel(ll)[2] = (l \div 16) % 256
        /\ marshalLabel(ll)[3] = (l % 16) * 16 + (t % 8) * 2 + s
        /\ marshalLabel(ll)[4] = h % 256
    BY <1>4, SMT
  <2>4. /\ b[at + 1] = marshalLabel(ll)[1] /\ b[at + 2] = marshalLabel(ll)[2]
        /\ b[at + 3] = marshalLabel(ll)[3] /\ b[at + 4] = marshalLabel(ll)[4]
    BY <2>2, Zenon DEF HasLabel
  <2>5. /\ marshalLabel(ll)[1] \in Octet /\ marshalLabel(ll)[2] \in Octet
        /\ marshalLabel(ll)[3] \in Octet /\ marshalLabel(ll)[4] \in Octet
    BY <2>1, <2>2, Zenon
  <2> QED
    BY <2>3, <2>4, <2>5, SMT
<1>6. parseLabel(b, at) = [Label |-> c1 * 4096 + c2 * 16 + c3 \div 16,
                           TC |-> (c3 % 16) \div 2, S |-> c3 % 2, TTL |-> c4]
  <2>1. c1 = b[at + 1] /\ c2 = b[at + 2] /\ c3 = b[at + 3] /\ c4 = b[at + 4]
    BY <1>5, SMT
  <2> QED
    BY <2>1 DEF parseLabel
<1>7. PICK x \in 0 .. 15 : x = l % 16
  BY SMT
<1>8. c3 = x * 16 + t * 2 + s
  BY <1>3, <1>5, <1>7, SMT
<1>9. c3 \div 16 = x /\ c3 % 16 = t * 2 + s /\ c3 % 2 = s
  BY <1>3, <1>8, SMT
<1>10. (t * 2 + s) \div 2 = t
  BY <1>3, SMT
<1>11. PICK y \in Nat : y = l \div 16 /\ l = 16 * y + x
  BY <1>7, SMT
<1>12. PICK z \in Nat : z = y \div 256 /\ c2 = y % 256 /\ y = 256 * z + c2
  BY <1>5, <1>11, SMT DEF Octet
<1>13. l \div 4096 = z
  BY <1>11, <1>12, SMT DEF Octet
<1>14. c1 = z
  BY <1>3, <1>5, <1>11, <1>12, <1>13, SMT DEF Octet
<1>15. c1 * 4096 + c2 * 16 + x = l
  BY <1>11, <1>12, <1>14, SMT DEF Octet
<1>16. c4 = h
  BY <1>3, <1>5, SMT
<1>17. parseLabel(b, at) = [Label |-> l, TC |-> t, S |-> s, TTL |-> h]
  <2>1. PICK p \in Nat : p = c1 * 4096 + c2 * 16 + c3 \div 16 /\ p = l
    BY <1>9, <1>15, SMT DEF Octet
  <2>2. PICK q \in Nat : q = (c3 % 16) \div 2 /\ q = t
    BY <1>9, <1>10, SMT
  <2>3. parseLabel(b, at) = [Label |-> p, TC |-> q, S |-> c3 % 2, TTL |-> c4]
    BY <1>6, <2>1, <2>2, SMT
  <2> QED
    BY <1>9, <1>16, <2>1, <2>2, <2>3, SMT
<1> QED
  BY <1>1, <1>2, <1>17, Zenon

(* A label stack comes back.                                               *)
LEMMA StackBack ==
  ASSUME NEW e \in Extension, NEW proto \in {1, 58}, Sayable(e, proto), e.kind = "mpls",
         NEW o, Carries(o, e, proto)
  PROVE  ParseObject(o) = <<e>>
<1>1. e \in MPLSLabelStack /\ \A k \in DOMAIN e.Labels : Slim(e.Labels[k])
  BY Kinds, SayableKinds
<1>2. e.Labels \in Seq(MPLSLabel) /\ e = [kind |-> "mpls", Labels |-> e.Labels]
  BY <1>1 DEF MPLSLabelStack
<1>3. PICK n \in Nat : n = Len(e.Labels) /\ DOMAIN e.Labels = 1 .. n
  BY <1>2
<1>4. Payload(e, proto) = marshalMPLSLabelStack(e)
  BY DEF Payload
<1>5. marshalMPLSLabelStack(e) \in Seq(Octet) /\ Len(marshalMPLSLabelStack(e)) = 4 * n
  BY <1>1, <1>3, StackTyped
<1>6. PICK b \in Seq(Octet) : b = o.octets /\ b = marshalMPLSLabelStack(e) /\ Len(b) = 4 * n
  <2>1. marshalMPLSLabelStack(e) \in Seq(Filling)
    BY <1>5 DEF Filling
  <2> QED
    BY <1>4, <1>5, <2>1, FilledTyped DEF Carries
<1>7. \A i \in 1 .. 4 * n : b[i] = marshalLabel(e.Labels[(i + 3) \div 4])[((i + 3) % 4) + 1]
  BY <1>3, <1>6 DEF marshalMPLSLabelStack
<1>8. ASSUME NEW k \in 1 .. n
      PROVE  parseLabel(b, 4 * (k - 1)) = e.Labels[k]
  <2>1. PICK at \in Nat : at = 4 * (k - 1)
    BY <1>3
  <2>2. ASSUME NEW j \in 1 .. 4
        PROVE  b[at + j] = marshalLabel(e.Labels[k])[j]
    <3>1. at + j \in 1 .. 4 * n /\ (at + j + 3) \div 4 = k /\ ((at + j + 3) % 4) + 1 = j
      BY <1>3, <2>1, SMT
    <3>2. b[at + j] = marshalLabel(e.Labels[(at + j + 3) \div 4])[((at + j + 3) % 4) + 1]
      BY <1>7, <3>1, Zenon
    <3> QED
      BY <3>1, <3>2, Zenon
  <2>3. e.Labels[k] \in MPLSLabel /\ Slim(e.Labels[k])
    BY <1>1, <1>2, <1>3
  <2> QED
    <3>1. HasLabel(b, at, e.Labels[k])
      BY <2>2 DEF HasLabel
    <3> QED
      BY <2>1, <2>3, <3>1, LabelBack, ZenonT(60)
<1>9. Len(b) \div 4 = n
  BY <1>6, SMT
<1>10. [k \in 1 .. n |-> parseLabel(b, 4 * (k - 1))] = e.Labels
  BY <1>2, <1>3, <1>8
<1>11. parseMPLSLabelStack(o) = <<[kind |-> "mpls", Labels |-> e.Labels]>>
  BY <1>6, <1>9, <1>10, Zenon DEF parseMPLSLabelStack
<1>12. o.class = 1
  BY DEF Carries, ClassOf, Class
<1>13. ParseObject(o) = parseMPLSLabelStack(o)
  BY <1>12 DEF ParseObject
<1> QED
  BY <1>2, <1>11, <1>13, Zenon

(* Text as it is found behind an object header: zeros fill what it leaves. *)
LEMMA FitFilled ==
  ASSUME NEW text \in Seq(Octet), NEW l \in Nat
  PROVE  /\ Filled(Fit(text, l)) \in Seq(Octet) /\ Len(Filled(Fit(text, l))) = l
         /\ \A i \in 1 .. l : Filled(Fit(text, l))[i] = IF i <= Len(text) THEN text[i] ELSE 0
<1>1. Fit(text, l) \in Seq(Filling) /\ Len(Fit(text, l)) = l
  BY FitTyped
<1>2. /\ Filled(Fit(text, l)) \in Seq(Octet) /\ Len(Filled(Fit(text, l))) = l
      /\ \A i \in 1 .. l : /\ Fit(text, l)[i] \in Octet => Filled(Fit(text, l))[i] = Fit(text, l)[i]
                           /\ Fit(text, l)[i] = Unwritten => Filled(Fit(text, l))[i] = 0
  BY <1>1, FilledTyped
<1>3. \A i \in 1 .. l : Fit(text, l)[i] = IF i <= Len(text) THEN text[i] ELSE Unwritten
  BY DEF Fit
<1>4. \A i \in 1 .. l : i <= Len(text) => text[i] \in Octet
  OBVIOUS
<1> QED
  BY <1>2, <1>3, <1>4

(* An octet string behind another one.                                     *)
LEMMA Joined ==
  ASSUME NEW s \in Seq(Filling), NEW t \in Seq(Filling)
  PROVE  /\ Filled(s \o t) \in Seq(Octet) /\ Len(Filled(s \o t)) = Len(s) + Len(t)
         /\ \A i \in 1 .. Len(s) : Filled(s \o t)[i] = Filled(s)[i]
         /\ \A i \in 1 .. Len(t) : Filled(s \o t)[Len(s) + i] = Filled(t)[i]
<1>1. /\ s \o t \in Seq(Filling) /\ Len(s \o t) = Len(s) + Len(t) /\ Len(s) \in Nat /\ Len(t) \in Nat
      /\ \A i \in 1 .. Len(s) : (s \o t)[i] = s[i]
      /\ \A i \in 1 .. Len(t) : (s \o t)[Len(s) + i] = t[i]
  OBVIOUS
<1>2. Filled(s \o t) \in Seq(Octet) /\ Len(Filled(s \o t)) = Len(s) + Len(t)
  BY <1>1, FilledTyped
<1> DEFINE At(x) == IF x = Unwritten THEN 0 ELSE x
<1>3. \A p \in Seq(Filling) : \A i \in 1 .. Len(p) : Filled(p)[i] = At(p[i])
  BY DEF Filled
<1> HIDE DEF At
<1>4. \A i \in 1 .. Len(s) : Filled(s \o t)[i] = Filled(s)[i]
  <2> SUFFICES ASSUME NEW i \in 1 .. Len(s)
               PROVE  Filled(s \o t)[i] = Filled(s)[i]
    OBVIOUS
  <2>1. i \in 1 .. Len(s \o t)
    BY <1>1
  <2> QED
    BY <1>1, <1>3, <2>1, Zenon
<1>5. \A i \in 1 .. Len(t) : Filled(s \o t)[Len(s) + i] = Filled(t)[i]
  <2> SUFFICES ASSUME NEW i \in 1 .. Len(t)
               PROVE  Filled(s \o t)[Len(s) + i] = Filled(t)[i]
    OBVIOUS
  <2>1. Len(s) + i \in 1 .. Len(s \o t)
    BY <1>1
  <2> QED
    BY <1>1, <1>3, <2>1, Zenon
<1> QED
  BY <1>2, <1>4, <1>5

(* A part that is found where it was put.                                  *)
LEMMA PartBack ==
  ASSUME NEW b \in Seq(Octet), NEW t \in Seq(Octet), NEW at \in Nat, at + Len(t) <= Len(b),
         \A i \in 1 .. Len(t) : b[at + i] = t[i]
  PROVE  SubSeq(b, at + 1, at + Len(t)) = t
<1>1. PICK n \in Nat : n = Len(t)
  OBVIOUS
<1>2. PICK j \in Nat : j = at + n
  BY SMT
<1>3. PICK i \in Nat : i = at + 1
  BY SMT
<1>4. 1 <= i /\ i <= j + 1 /\ j <= Len(b) /\ j - i + 1 = n
  BY <1>1, <1>2, <1>3
<1>5. /\ SubSeq(b, i, j) \in Seq(Octet) /\ Len(SubSeq(b, i, j)) = n
      /\ \A x \in 1 .. n : SubSeq(b, i, j)[x] = b[i + x - 1]
  BY <1>4, PartTyped
<1>6. \A x \in 1 .. n : SubSeq(b, i, j)[x] = t[x]
  <2> SUFFICES ASSUME NEW x \in 1 .. n
               PROVE  SubSeq(b, i, j)[x] = t[x]
    OBVIOUS
  <2>1. i + x - 1 = at + x
    BY <1>3
  <2> QED
    BY <1>1, <1>5, <2>1
<1>7. SubSeq(b, i, j) = t
  <2>1. PICK c \in Seq(Octet) : c = SubSeq(b, i, j)
    BY <1>5
  <2>2. Len(c) = Len(t) /\ \A x \in 1 .. Len(t) : c[x] = t[x]
    BY <1>1, <1>5, <1>6, <2>1, Zenon
  <2>3. c = t
    BY <2>2
  <2> QED
    BY <2>1, <2>3
<1> QED
  BY <1>1, <1>2, <1>3, <1>7

(* Two idents with the same fields are the same.                           *)
LEMMA IdentSame ==
  ASSUME NEW e \in InterfaceIdent, NEW f \in InterfaceIdent, e.Type = f.Type, e.Name = f.Name,
         e.Index = f.Index, e.AFI = f.AFI, e.Addr = f.Addr
  PROVE  e = f
<1>1. \A x \in InterfaceIdent : x = [kind |-> "ident", Type |-> x.Type, Name |-> x.Name,
                                     Index |-> x.Index, AFI |-> x.AFI, Addr |-> x.Addr]
  BY DEF InterfaceIdent
<1> QED
  BY <1>1, Zenon

(* An InterfaceIdent comes back.                                           *)
LEMMA IdentBack ==
  ASSUME NEW e \in Extension, NEW proto \in {1, 58}, Sayable(e, proto), e.kind = "ident",
         NEW o, Carries(o, e, proto)
  PROVE  ParseObject(o) = <<e>>
<1> DEFINE ifi == [kind |-> "ident", Type |-> o.Type, Name |-> <<>>, Index |-> 0, AFI |-> 0,
                   Addr |-> <<>>]
<1>1. e \in InterfaceIdent
  BY Kinds
<1>2. /\ e.Name \in Seq(Octet) /\ e.Addr \in Seq(Octet) /\ e.Index \in Nat /\ e.AFI \in Nat
      /\ e.Type \in Octet
  BY <1>1 DEF InterfaceIdent
<1>3. /\ Len(e.Name) <= 256 /\ e.Name = Trim(e.Name)
      /\ Word(e.Index) /\ Len(e.Addr) <= 255 /\ e.AFI \in Half
      /\ e.Type # typeInterfaceByName => e.Name = <<>>
      /\ e.Type # typeInterfaceByIndex => e.Index = 0
      /\ e.Type # typeInterfaceByAddress => e.AFI = 0 /\ e.Addr = <<>>
  BY SayableKinds
<1>4. /\ typeInterfaceByName # typeInterfaceByIndex
      /\ typeInterfaceByName # typeInterfaceByAddress
      /\ typeInterfaceByIndex # typeInterfaceByAddress
  BY DEF typeInterfaceByName, typeInterfaceByIndex, typeInterfaceByAddress
<1>5. o.class = 3 /\ o.Type = e.Type
  BY DEF Carries, ClassOf, Class, TypeOctet
<1>6. ParseObject(o) = parseInterfaceIdent(o)
  BY <1>5 DEF ParseObject
<1>7. PICK b : b = o.octets /\ b = Filled(marshalInterfaceIdent(e))
  BY DEF Carries, Payload
<1>8. ifi \in InterfaceIdent
  BY <1>2, <1>5 DEF InterfaceIdent
<1>9. CASE e.Type = typeInterfaceByName
  <2>1. PICK m \in Nat : m = Len(e.Name) /\ m <= 256
    BY <1>2, <1>3
  <2>2. PICK n \in Nat : n = Min({m, 255}) /\ Up4(n) \in Nat /\ m <= Up4(n)
    <3>1. PICK y \in {m, 255} : y = Min({m, 255}) /\ y <= m /\ y <= 255
      BY DEF Min
    <3>2. m <= Up4(y) /\ Up4(y) \in Nat
      BY <2>1, <3>1 DEF Up4
    <3> QED
      BY <3>1, <3>2
  <2>3. marshalInterfaceIdent(e) = Fit(e.Name, Up4(n))
    BY <1>4, <1>9, <2>1, <2>2, Zenon DEF marshalInterfaceIdent
  <2>4. /\ b \in Seq(Octet) /\ Len(b) = Up4(n)
        /\ \A i \in 1 .. Len(b) : b[i] = IF i <= Len(e.Name) THEN e.Name[i] ELSE 0
    <3>1. PICK l \in Nat : l = Up4(n)
      BY <2>2
    <3>2. /\ Filled(Fit(e.Name, l)) \in Seq(Octet) /\ Len(Filled(Fit(e.Name, l))) = l
          /\ \A i \in 1 .. l : Filled(Fit(e.Name, l))[i] = IF i <= Len(e.Name) THEN e.Name[i] ELSE 0
      BY <1>2, FitFilled, ZenonT(60)
    <3> QED
      BY <1>7, <2>3, <3>1, <3>2, ZenonT(60)
  <2>5. Trim(b) = e.Name
    <3>1. Len(e.Name) <= Len(b)
      BY <2>1, <2>2, <2>4
    <3> QED
      BY <1>2, <1>3, <2>4, <3>1, TrimBack
  <2>6. parseInterfaceIdent(o) = <<[ifi EXCEPT !.Name = e.Name]>>
    BY <1>4, <1>5, <1>7, <1>9, <2>5, Zenon DEF parseInterfaceIdent
  <2>7. PICK f : f = [ifi EXCEPT !.Name = e.Name]
    OBVIOUS
  <2>8. /\ f \in InterfaceIdent /\ f.Type = e.Type /\ f.Name = e.Name /\ f.Index = 0
        /\ f.AFI = 0 /\ f.Addr = <<>>
    <3>1. [ifi EXCEPT !.Name = e.Name] \in InterfaceIdent
      BY <1>2, <1>8 DEF InterfaceIdent
    <3>2. /\ [ifi EXCEPT !.Name = e.Name].Type = o.Type
          /\ [ifi EXCEPT !.Name = e.Name].Name = e.Name
          /\ [ifi EXCEPT !.Name = e.Name].Index = 0
          /\ [ifi EXCEPT !.Name = e.Name].AFI = 0
          /\ [ifi EXCEPT !.Name = e.Name].Addr = <<>>
      OBVIOUS
    <3> QED
      BY <1>5, <2>7, <3>1, <3>2, Zenon
  <2>9. f = e
    BY <1>1, <1>3, <1>4, <1>9, <2>8, IdentSame
  <2> QED
    BY <1>6, <2>6, <2>7, <2>9, Zenon
<1>10. CASE e.Type = typeInterfaceByIndex
  <2>1. marshalInterfaceIdent(e) = ToOctets(e.Index)
    BY <1>4, <1>10, Zenon DEF marshalInterfaceIdent
  <2>2. /\ ToOctets(e.Index) \in Seq(Octet) /\ Len(ToOctets(e.Index)) = 4
        /\ Number(ToOctets(e.Index), 0) = e.Index
    BY <1>2, <1>3, Octets
  <2>3. b = ToOctets(e.Index)
    <3>1. ToOctets(e.Index) \in Seq(Filling)
      BY <2>2 DEF Filling
    <3> QED
      BY <1>7, <2>1, <2>2, <3>1, FilledTyped
  <2>4. Len(b) >= 4 /\ ~(Len(b) < 4)
    <3>1. Len(b) = 4
      BY <2>2, <2>3, Zenon
    <3> QED
      BY <3>1
  <2>5. parseInterfaceIdent(o) = <<[ifi EXCEPT !.Index = Number(b, 0)]>>
    BY <1>4, <1>5, <1>7, <1>10, <2>4, Zenon DEF parseInterfaceIdent
  <2>6. PICK f : f = [ifi EXCEPT !.Index = e.Index]
    OBVIOUS
  <2>7. /\ f \in InterfaceIdent /\ f.Type = e.Type /\ f.Name = <<>> /\ f.Index = e.Index
        /\ f.AFI = 0 /\ f.Addr = <<>>
    <3>1. [ifi EXCEPT !.Index = e.Index] \in InterfaceIdent
      BY <1>2, <1>8 DEF InterfaceIdent
    <3>2. /\ [ifi EXCEPT !.Index = e.Index].Type = o.Type
          /\ [ifi EXCEPT !.Index = e.Index].Name = <<>>
          /\ [ifi EXCEPT !.Index = e.Index].Index = e.Index
          /\ [ifi EXCEPT !.Index = e.Index].AFI = 0
          /\ [ifi EXCEPT !.Index = e.Index].Addr = <<>>
      OBVIOUS
    <3> QED
      BY <1>5, <2>6, <3>1, <3>2, Zenon
  <2>8. f = e
    BY <1>1, <1>3, <1>4, <1>10, <2>7, IdentSame
  <2> QED
    BY <1>6, <2>2, <2>3, <2>5, <2>6, <2>8, Zenon
<1>11. CASE e.Type = typeInterfaceByAddress
  <2>1. PICK l \in Nat : l = Len(e.Addr) /\ l <= 255
    BY <1>2, <1>3
  <2>2. PICK f \in Nat : f = e.AFI /\ f \in Half
    BY <1>2, <1>3
  <2>3. PICK x \in Octet : x = (f \div 256) % 256
    BY SMT DEF Octet
  <2>4. PICK y \in Octet : y = f % 256
    BY SMT DEF Octet
  <2>5. PICK z \in Octet : z = l % 256 /\ z = l
    <3>1. l <= 255
      BY <2>1, Zenon
    <3>2. l \in Octet
      BY <3>1, SMT DEF Octet
    <3>3. l % 256 = l
      BY <3>1, SMT
    <3> QED
      BY <3>2, <3>3, Zenon
  <2>6. x * 256 + y = f
    <3>1. f <= 65535
      BY <2>2, Halves, SMT
    <3> QED
      BY <2>3, <2>4, <3>1, SMT
  <2>7. marshalInterfaceIdent(e) = <<x, y, z, Unwritten>> \o Fit(e.Addr, Up4(l))
    BY <1>4, <1>11, <2>1, <2>2, <2>3, <2>4, <2>5, ZenonT(60) DEF marshalInterfaceIdent
  <2> DEFINE s == <<x, y, z, Unwritten>>
             t == Fit(e.Addr, Up4(l))
  <2>8. s \in Seq(Filling) /\ Len(s) = 4 /\ s[1] = x /\ s[2] = y /\ s[3] = z
    BY DEF Filling
  <2>9. Up4(l) \in Nat /\ l <= Up4(l)
    BY RoundedUp
  <2>10. t \in Seq(Filling) /\ Len(t) = Up4(l)
    BY <1>2, <2>9, FitTyped
  <2> HIDE DEF s, t
  <2>11. /\ b \in Seq(Octet) /\ Len(b) = 4 + Up4(l)
         /\ \A i \in 1 .. 4 : b[i] = Filled(s)[i]
         /\ \A i \in 1 .. Up4(l) : b[4 + i] = Filled(t)[i]
    <3>1. b = Filled(s \o t)
      BY <1>7, <2>7 DEF s, t
    <3>2. /\ Filled(s \o t) \in Seq(Octet) /\ Len(Filled(s \o t)) = Len(s) + Len(t)
          /\ \A i \in 1 .. Len(s) : Filled(s \o t)[i] = Filled(s)[i]
          /\ \A i \in 1 .. Len(t) : Filled(s \o t)[Len(s) + i] = Filled(t)[i]
      BY <2>8, <2>10, Joined, Zenon
    <3> QED
      BY <2>8, <2>10, <3>1, <3>2, Zenon
  <2>12. b[1] = x /\ b[2] = y /\ b[3] = z
    <3>1. Filled(s)[1] = s[1] /\ Filled(s)[2] = s[2] /\ Filled(s)[3] = s[3]
      BY <2>8, FilledTyped
    <3> QED
      BY <2>8, <2>11, <3>1
  <2>13. SubSeq(b, 5, 4 + z) = e.Addr
    <3>1. \A i \in 1 .. Len(e.Addr) : b[4 + i] = e.Addr[i]
      <4>1. \A i \in 1 .. Up4(l) : Filled(t)[i] = IF i <= Len(e.Addr) THEN e.Addr[i] ELSE 0
        BY <1>2, <2>9, FitFilled, ZenonT(60) DEF t
      <4>2. \A i \in 1 .. Len(e.Addr) : i \in 1 .. Up4(l) /\ i <= Len(e.Addr)
        BY <2>1, <2>9
      <4> QED
        BY <2>11, <4>1, <4>2
    <3>2. 4 + Len(e.Addr) <= Len(b)
      BY <2>1, <2>9, <2>11
    <3>3. SubSeq(b, 4 + 1, 4 + Len(e.Addr)) = e.Addr
      BY <1>2, <2>11, <3>1, <3>2, PartBack
    <3>4. 4 + 1 = 5
      OBVIOUS
    <3>5. Len(e.Addr) = z
      BY <2>1, <2>5, Zenon
    <3> QED
      BY <3>3, <3>4, <3>5, Zenon
  <2>14. Len(b) >= 4 /\ ~(Len(b) < 4) /\ ~(Len(b) - 4 < b[3])
    BY <2>1, <2>5, <2>9, <2>11, <2>12
  <2>15. parseInterfaceIdent(o) =
           <<[ifi EXCEPT !.AFI = b[1] * 256 + b[2], !.Addr = SubSeq(b, 5, 4 + b[3])]>>
    BY <1>4, <1>5, <1>7, <1>11, <2>14, Zenon DEF parseInterfaceIdent
  <2>16. b[1] * 256 + b[2] = e.AFI /\ SubSeq(b, 5, 4 + b[3]) = e.Addr
    BY <2>2, <2>6, <2>12, <2>13
  <2>17. PICK g : g = [ifi EXCEPT !.AFI = e.AFI, !.Addr = e.Addr]
    OBVIOUS
  <2>18. /\ g \in InterfaceIdent /\ g.Type = e.Type /\ g.Name = <<>> /\ g.Index = 0
         /\ g.AFI = e.AFI /\ g.Addr = e.Addr
    <3>1. [ifi EXCEPT !.AFI = e.AFI, !.Addr = e.Addr] \in InterfaceIdent
      BY <1>2, <1>8 DEF InterfaceIdent
    <3>2. /\ [ifi EXCEPT !.AFI = e.AFI, !.Addr = e.Addr].Type = o.Type
          /\ [ifi EXCEPT !.AFI = e.AFI, !.Addr = e.Addr].Name = <<>>
          /\ [ifi EXCEPT !.AFI = e.AFI, !.Addr = e.Addr].Index = 0
          /\ [ifi EXCEPT !.AFI = e.AFI, !.Addr = e.Addr].AFI = e.AFI
          /\ [ifi EXCEPT !.AFI = e.AFI, !.Addr = e.Addr].Addr = e.Addr
      OBVIOUS
    <3> QED
      BY <1>5, <2>17, <3>1, <3>2, Zenon
  <2>19. g = e
    BY <1>1, <1>3, <1>4, <1>11, <2>18, IdentSame
  <2> QED
    BY <1>6, <2>15, <2>16, <2>17, <2>19, Zenon
<1>12. CASE e.Type \notin {typeInterfaceByName, typeInterfaceByIndex, typeInterfaceByAddress}
  <2>1. parseInterfaceIdent(o) = <<ifi>>
    BY <1>5, <1>12, Zenon DEF parseInterfaceIdent
  <2>2. PICK g : g = ifi
    OBVIOUS
  <2>3. /\ g \in InterfaceIdent /\ g.Type = e.Type /\ g.Name = <<>> /\ g.Index = 0
        /\ g.AFI = 0 /\ g.Addr = <<>>
    BY <1>5, <1>8, <2>2
  <2>4. g = e
    BY <1>1, <1>3, <1>12, <2>3, IdentSame
  <2> QED
    BY <1>6, <2>1, <2>2, <2>4, Zenon
<1> QED
  BY <1>9, <1>10, <1>11, <1>12

(* The octets of s, with zeros where nothing is written, from at on.       *)
Holds(b, at, s) == \A i \in 1 .. Len(s) : b[at + i] = Filled(s)[i]

(* Octets that hold one thing behind another hold each in its place.       *)
LEMMA HoldsBoth ==
  ASSUME NEW s \in Seq(Filling), NEW t \in Seq(Filling), NEW at \in Nat, NEW b,
         Holds(b, at, s \o t)
  PROVE  Holds(b, at, s) /\ Holds(b, at + Len(s), t)
<1>1. PICK n \in Nat : n = Len(s)
  OBVIOUS
<1>2. PICK m \in Nat : m = Len(t)
  OBVIOUS
<1>3. Len(s \o t) = n + m
  BY <1>1, <1>2
<1>4. /\ \A i \in 1 .. Len(s) : Filled(s \o t)[i] = Filled(s)[i]
      /\ \A i \in 1 .. Len(t) : Filled(s \o t)[Len(s) + i] = Filled(t)[i]
  BY Joined, Zenon
<1>5. \A i \in 1 .. n + m : b[at + i] = Filled(s \o t)[i]
  BY <1>3, Zenon DEF Holds
<1>6. ASSUME NEW i \in 1 .. n
      PROVE  b[at + i] = Filled(s)[i]
  <2>1. i \in 1 .. n + m
    OBVIOUS
  <2> QED
    BY <1>1, <1>4, <1>5, <2>1, Zenon
<1>7. ASSUME NEW i \in 1 .. m
      PROVE  b[(at + n) + i] = Filled(t)[i]
  <2>1. n + i \in 1 .. n + m /\ at + (n + i) = (at + n) + i
    OBVIOUS
  <2>2. b[at + (n + i)] = Filled(s \o t)[n + i]
    BY <1>5, <2>1, Zenon
  <2>3. Filled(s \o t)[n + i] = Filled(t)[i]
    BY <1>1, <1>2, <1>4, Zenon
  <2> QED
    BY <2>1, <2>2, <2>3, Zenon
<1> QED
  BY <1>1, <1>2, <1>6, <1>7, Zenon DEF Holds

(* The four octets of a number of 32 bits are read as the number.          *)
LEMMA NumberRead ==
  ASSUME NEW n \in Nat, Word(n), NEW b, NEW at \in Nat, Holds(b, at, ToOctets(n))
  PROVE  Number(b, at) = n
<1>1. ToOctets(n) \in Seq(Octet) /\ Len(ToOctets(n)) = 4 /\ Number(ToOctets(n), 0) = n
  BY Octets
<1>2. Filled(ToOctets(n)) = ToOctets(n)
  <2>1. ToOctets(n) \in Seq(Filling)
    BY <1>1 DEF Filling
  <2> QED
    BY <1>1, <2>1, FilledTyped
<1>3. \A i \in 1 .. 4 : b[at + i] = ToOctets(n)[i]
  BY <1>1, <1>2, Zenon DEF Holds
<1>4. 1 \in 1 .. 4 /\ 2 \in 1 .. 4 /\ 3 \in 1 .. 4 /\ 4 \in 1 .. 4
  OBVIOUS
<1>5. Number(b, at) = Number(ToOctets(n), 0)
  <2>1. /\ b[at + 1] = ToOctets(n)[0 + 1] /\ b[at + 2] = ToOctets(n)[0 + 2]
        /\ b[at + 3] = ToOctets(n)[0 + 3] /\ b[at + 4] = ToOctets(n)[0 + 4]
    <3>1. /\ b[at + 1] = ToOctets(n)[1] /\ b[at + 2] = ToOctets(n)[2]
          /\ b[at + 3] = ToOctets(n)[3] /\ b[at + 4] = ToOctets(n)[4]
      BY <1>3, <1>4, Zenon
    <3> QED
      BY <3>1, SMT
  <2>2. \A w, x, y, z :
          w = b[at + 1] /\ x = b[at + 2] /\ y = b[at + 3] /\ z = b[at + 4]
            => Number(b, at) = ((w * 256 + x) * 256 + y) * 256 + z
    BY SMT DEF Number
  <2>3. \A w, x, y, z :
          w = ToOctets(n)[0 + 1] /\ x = ToOctets(n)[0 + 2] /\ y = ToOctets(n)[0 + 3]
            /\ z = ToOctets(n)[0 + 4]
            => Number(ToOctets(n), 0) = ((w * 256 + x) * 256 + y) * 256 + z
    BY SMT DEF Number
  <2> QED
    BY <2>1, <2>2, <2>3, SMT
<1> QED
  BY <1>1, <1>5, Zenon

(* The address behind its address family.                                  *)
LEMMA AddrRead ==
  ASSUME NEW e \in InterfaceInfo, NEW proto \in {1, 58}, NEW b \in Seq(Octet), NEW at \in Nat,
         Holds(b, at, marshalIPAddr(e, proto)), at + 4 + Len(e.Addr) <= Len(b)
  PROVE  /\ b[at + 1] = 0 /\ b[at + 2] = (IF proto = 1 THEN 1 ELSE 2)
         /\ SubSeq(b, at + 5, at + 4 + Len(e.Addr)) = e.Addr
<1>1. e.Addr \in Seq(Octet)
  BY DEF InterfaceInfo
<1>2. PICK f \in {1, 2} : f = IF proto = 1 THEN 1 ELSE 2
  OBVIOUS
<1> DEFINE s == <<0, f, Unwritten, Unwritten>>
<1>3. s \in Seq(Filling) /\ Len(s) = 4 /\ s[1] = 0 /\ s[2] = f /\ 0 \in Octet /\ f \in Octet
  BY DEF Filling, Octet
<1>4. marshalIPAddr(e, proto) = s \o e.Addr
  BY <1>2 DEF marshalIPAddr
<1> HIDE DEF s
<1>5. e.Addr \in Seq(Filling) /\ Filled(e.Addr) = e.Addr
  <2>1. e.Addr \in Seq(Filling)
    BY <1>1 DEF Filling
  <2> QED
    BY <1>1, <2>1, FilledTyped
<1>6. Holds(b, at, s) /\ Holds(b, at + Len(s), e.Addr)
  BY <1>3, <1>4, <1>5, HoldsBoth, ZenonT(60)
<1>7. b[at + 1] = 0 /\ b[at + 2] = f
  <2>1. 1 \in 1 .. Len(s) /\ 2 \in 1 .. Len(s)
    BY <1>3
  <2>2. Filled(s)[1] = s[1] /\ Filled(s)[2] = s[2]
    BY <1>3, <2>1, FilledTyped
  <2> QED
    BY <1>3, <1>6, <2>1, <2>2, Zenon DEF Holds
<1>8. PICK j \in Nat : j = at + 4
  OBVIOUS
<1>9. PICK c \in Nat : c = Len(e.Addr)
  BY <1>1
<1>10. SubSeq(b, j + 1, j + Len(e.Addr)) = e.Addr
  <2>1. j + Len(e.Addr) <= Len(b)
    BY <1>8, <1>9
  <2>2. \A i \in 1 .. Len(e.Addr) : b[j + i] = e.Addr[i]
    BY <1>3, <1>5, <1>6, <1>8, Zenon DEF Holds
  <2> QED
    BY <1>1, <2>1, <2>2, PartBack, ZenonT(60)
<1>11. j + 1 = at + 5
  BY <1>8
<1> QED
  BY <1>2, <1>7, <1>8, <1>10, <1>11, Zenon

(* The name behind its length.                                             *)
LEMMA NameRead ==
  ASSUME NEW e \in InterfaceInfo, Len(e.Name) <= 63, e.Name = Trim(e.Name),
         NEW b \in Seq(Octet), NEW at \in Nat,
         Holds(b, at, marshalName(e)), at + nameLen(e) <= Len(b)
  PROVE  b[at + 1] = nameLen(e) /\ Trim(SubSeq(b, at + 2, at + nameLen(e))) = e.Name
<1>1. e.Name \in Seq(Octet)
  BY DEF InterfaceInfo
<1>2. PICK l \in 4 .. 64 : l = nameLen(e)
  BY NameTyped
<1>3. PICK n \in Nat : n = Len(e.Name)
  BY <1>1
<1>4. n < l
  BY <1>2, <1>3, NameTyped
<1>5. PICK k \in Nat : k = l - 1
  BY SMT
<1> DEFINE s == <<l>>
<1>6. s \in Seq(Filling) /\ Len(s) = 1 /\ s[1] = l /\ l \in Octet
  BY DEF Filling, Octet
<1>7. marshalName(e) = s \o Fit(e.Name, k)
  BY <1>2, <1>5 DEF marshalName
<1> HIDE DEF s
<1>8. Fit(e.Name, k) \in Seq(Filling) /\ Len(Fit(e.Name, k)) = k
  BY <1>1, FitTyped
<1>9. Holds(b, at, s) /\ Holds(b, at + Len(s), Fit(e.Name, k))
  BY <1>6, <1>7, <1>8, HoldsBoth, Zenon
<1>10. b[at + 1] = l
  <2>1. 1 \in 1 .. Len(s)
    BY <1>6
  <2>2. Filled(s)[1] = s[1]
    BY <1>6, <2>1, FilledTyped
  <2> QED
    BY <1>6, <1>9, <2>1, <2>2, Zenon DEF Holds
<1>11. \A i \in 1 .. k : Filled(Fit(e.Name, k))[i] = IF i <= Len(e.Name) THEN e.Name[i] ELSE 0
  BY <1>1, FitFilled
<1>12. PICK j \in Nat : j = at + 1
  OBVIOUS
<1>13. PICK i1 \in Nat : i1 = at + 2
  OBVIOUS
<1>14. PICK j1 \in Nat : j1 = at + l
  OBVIOUS
<1>15. 1 <= i1 /\ i1 <= j1 + 1 /\ j1 <= Len(b) /\ j1 - i1 + 1 = k
  BY <1>2, <1>5, <1>13, <1>14
<1>16. /\ SubSeq(b, i1, j1) \in Seq(Octet) /\ Len(SubSeq(b, i1, j1)) = j1 - i1 + 1
       /\ \A x \in 1 .. j1 - i1 + 1 : SubSeq(b, i1, j1)[x] = b[i1 + x - 1]
  BY <1>15, PartTyped
<1>17. PICK c \in Seq(Octet) : c = SubSeq(b, i1, j1)
  BY <1>16
<1>18. Len(c) = k /\ \A x \in 1 .. k : c[x] = b[i1 + x - 1]
  BY <1>15, <1>16, <1>17, Zenon
<1>19. \A x \in 1 .. k : i1 + x - 1 = j + x
  BY <1>12, <1>13
<1>20. \A x \in 1 .. k : b[j + x] = Filled(Fit(e.Name, k))[x]
  BY <1>6, <1>8, <1>9, <1>12, Zenon DEF Holds
<1>21. \A x \in 1 .. Len(c) : c[x] = IF x <= Len(e.Name) THEN e.Name[x] ELSE 0
  BY <1>11, <1>18, <1>19, <1>20, Zenon
<1>22. Len(e.Name) <= Len(c)
  BY <1>3, <1>4, <1>5, <1>18
<1>23. Trim(c) = e.Name
  BY <1>1, <1>21, <1>22, TrimBack, Zenon
<1> QED
  BY <1>2, <1>10, <1>13, <1>14, <1>17, <1>23, Zenon

(* The octets of an InterfaceInfo, and of each of its attributes how many. *)
Laid(b, e, proto, i, a, n, m) ==
  /\ b = Filled(marshalInterfaceInfo(e, proto))
  /\ i = Len(IndexPart(e)) /\ a = Len(AddrPart(e, proto)) /\ n = Len(NamePart(e))
  /\ m = Len(MTUPart(e))

(* Where the attributes of an InterfaceInfo are in its octets.             *)
LEMMA InfoPlaces ==
  ASSUME NEW e \in InterfaceInfo, NEW proto \in {1, 58}, NEW b,
         NEW i \in Nat, NEW a \in Nat, NEW n \in Nat, NEW m \in Nat,
         Laid(b, e, proto, i, a, n, m)
  PROVE  /\ b \in Seq(Octet) /\ Len(b) = i + a + n + m
         /\ Holds(b, 0, IndexPart(e)) /\ Holds(b, i, AddrPart(e, proto))
         /\ Holds(b, i + a, NamePart(e)) /\ Holds(b, i + a + n, MTUPart(e))
<1>1. PICK s \in Seq(Filling) : s = IndexPart(e)
  BY InfoParts
<1>2. PICK t \in Seq(Filling) : t = AddrPart(e, proto)
  BY InfoParts
<1>3. PICK u \in Seq(Filling) : u = NamePart(e)
  BY InfoParts
<1>4. PICK v \in Seq(Filling) : v = MTUPart(e)
  BY InfoParts
<1>5. marshalInterfaceInfo(e, proto) = ((s \o t) \o u) \o v
  BY <1>1, <1>2, <1>3, <1>4, InfoParts, Zenon
<1>6. Len(s) = i /\ Len(t) = a /\ Len(u) = n /\ Len(v) = m
  BY <1>1, <1>2, <1>3, <1>4, Zenon DEF Laid
<1>7. \A x, y \in Seq(Filling) : x \o y \in Seq(Filling) /\ Len(x \o y) = Len(x) + Len(y)
  OBVIOUS
<1>8. s \o t \in Seq(Filling) /\ Len(s \o t) = i + a
  BY <1>6, <1>7, Zenon
<1>9. (s \o t) \o u \in Seq(Filling) /\ Len((s \o t) \o u) = i + a + n
  BY <1>6, <1>7, <1>8, Zenon
<1>10. ((s \o t) \o u) \o v \in Seq(Filling) /\ Len(((s \o t) \o u) \o v) = i + a + n + m
  BY <1>6, <1>7, <1>9, Zenon
<1>11. PICK p \in Seq(Filling) : p = ((s \o t) \o u) \o v
  BY <1>10
<1>12. Filled(p) \in Seq(Octet) /\ Len(Filled(p)) = Len(p)
  BY FilledTyped
<1>13. b \in Seq(Octet) /\ Len(b) = i + a + n + m
  BY <1>5, <1>10, <1>11, <1>12, Zenon DEF Laid
<1>14. Holds(b, 0, ((s \o t) \o u) \o v)
  <2>1. \A x \in 1 .. Len(p) : 0 + x = x
    OBVIOUS
  <2> QED
    BY <1>5, <1>11, <2>1, Zenon DEF Holds, Laid
<1>15. Holds(b, 0, (s \o t) \o u) /\ Holds(b, 0 + (i + a + n), v)
  BY <1>9, <1>14, HoldsBoth, Zenon
<1>16. Holds(b, 0, s \o t) /\ Holds(b, 0 + (i + a), u)
  BY <1>8, <1>15, HoldsBoth, Zenon
<1>17. Holds(b, 0, s) /\ Holds(b, 0 + i, t)
  BY <1>6, <1>16, HoldsBoth, Zenon
<1>18. 0 + i = i /\ 0 + (i + a) = i + a /\ 0 + (i + a + n) = i + a + n
  OBVIOUS
<1> QED
  BY <1>1, <1>2, <1>3, <1>4, <1>13, <1>15, <1>16, <1>17, <1>18, Zenon

(* An InterfaceInfo comes back: every attribute begins where the one       *)
(* before it ended.                                                        *)
LEMMA InfoBack ==
  ASSUME NEW e \in Extension, NEW proto \in {1, 58}, Sayable(e, proto), e.kind = "info",
         NEW o, Carries(o, e, proto)
  PROVE  ParseObject(o) = <<e>>
<1>1. e \in InterfaceInfo
  BY Kinds
<1>2. /\ e.Name \in Seq(Octet) /\ e.Addr \in Seq(Octet) /\ e.Index \in Nat /\ e.MTU \in Nat
      /\ e.Type \in Octet
  BY <1>1 DEF InterfaceInfo
<1>3. /\ e.Type % 16 = attrsOf(e, proto) /\ Word(e.Index) /\ Word(e.MTU)
      /\ Len(e.Name) <= 63 /\ e.Name = Trim(e.Name)
      /\ e.Index = 0 => e.Name = <<>> /\ e.MTU = 0
      /\ Len(e.Addr) \in {0, AddrLen(proto)}
      /\ e.Zone = IF Len(e.Addr) = 16 THEN e.Name ELSE <<>>
  BY SayableKinds, Zenon DEF AddrLen
<1>4. o.class = 2 /\ o.Type = e.Type
  BY DEF Carries, ClassOf, Class, TypeOctet
<1>5. ParseObject(o) = parseInterfaceInfo(o)
  BY <1>4 DEF ParseObject
<1> DEFINE b == o.octets
<1>6. b = Filled(marshalInterfaceInfo(e, proto))
  BY DEF Carries, Payload
<1> HIDE DEF b
<1> DEFINE hasI == e.Index > 0
           hasA == Len(e.Addr) = AddrLen(proto)
           hasN == e.Index > 0 /\ e.Name # <<>>
           hasM == e.Index > 0 /\ e.MTU > 0
<1>7. /\ (Has(o.Type, attrIfIndex) <=> hasI) /\ (Has(o.Type, attrIPAddr) <=> hasA)
      /\ (Has(o.Type, attrName) <=> hasN) /\ (Has(o.Type, attrMTU) <=> hasM)
  <2>1. /\ Has(attrsOf(e, proto), attrIfIndex) <=> hasI
        /\ Has(attrsOf(e, proto), attrIPAddr) <=> hasA
        /\ Has(attrsOf(e, proto), attrName) <=> hasN
        /\ Has(attrsOf(e, proto), attrMTU) <=> hasM
    BY <1>1, AttrBits, ZenonT(60)
  <2>2. \A attr \in {attrIfIndex, attrIPAddr, attrName, attrMTU} :
          Has(e.Type, attr) <=> Has(e.Type % 16, attr)
    BY <1>2, RoleBits, Zenon
  <2> QED
    BY <1>3, <1>4, <2>1, <2>2, Zenon
<1>8. /\ hasI => IndexPart(e) = ToOctets(e.Index)
      /\ hasA => AddrPart(e, proto) = marshalIPAddr(e, proto)
      /\ hasN => NamePart(e) = marshalName(e)
      /\ hasM => MTUPart(e) = ToOctets(e.MTU)
  BY Zenon DEF IndexPart, AddrPart, NamePart, MTUPart
<1>9. /\ ~hasI => e.Index = 0
      /\ ~hasA => e.Addr = <<>>
      /\ ~hasN => e.Name = <<>>
      /\ ~hasM => e.MTU = 0
  BY <1>2, <1>3
<1>10. PICK al \in {4, 16} : al = AddrLen(proto) /\ al = IF proto = 1 THEN 4 ELSE 16
  BY DEF AddrLen
<1>11. PICK nl \in 4 .. 64 : nl = nameLen(e) /\ nl % 4 = 0
  BY <1>1, NameTyped
<1>12. /\ Len(IndexPart(e)) = IF hasI THEN 4 ELSE 0
       /\ Len(AddrPart(e, proto)) = IF hasA THEN 4 + al ELSE 0
       /\ Len(NamePart(e)) = IF hasN THEN nl ELSE 0
       /\ Len(MTUPart(e)) = IF hasM THEN 4 ELSE 0
  BY <1>1, <1>10, <1>11, InfoParts, Zenon
<1>13. hasA => al = Len(e.Addr)
  BY <1>10, Zenon
<1> HIDE DEF hasI, hasA, hasN, hasM
<1>14. PICK i \in Nat : i = Len(IndexPart(e)) /\ i = IF hasI THEN 4 ELSE 0
  BY <1>12
<1>15. PICK a \in Nat : a = Len(AddrPart(e, proto)) /\ a = IF hasA THEN 4 + al ELSE 0
  BY <1>12
<1>16. PICK n \in Nat : n = Len(NamePart(e)) /\ n = IF hasN THEN nl ELSE 0
  BY <1>12
<1>17. PICK m \in Nat : m = Len(MTUPart(e)) /\ m = IF hasM THEN 4 ELSE 0
  BY <1>12
<1>18. /\ b \in Seq(Octet) /\ Len(b) = i + a + n + m
       /\ Holds(b, 0, IndexPart(e)) /\ Holds(b, i, AddrPart(e, proto))
       /\ Holds(b, i + a, NamePart(e)) /\ Holds(b, i + a + n, MTUPart(e))
  <2>1. Laid(b, e, proto, i, a, n, m)
    BY <1>6, <1>14, <1>15, <1>16, <1>17, Zenon DEF Laid
  <2> QED
    BY <1>1, <2>1, InfoPlaces, Zenon
<1>19. PICK L \in Nat : L = Len(b) /\ L = i + a + n + m
  BY <1>18
<1>20. hasI => Number(b, 0) = e.Index
  BY <1>2, <1>3, <1>8, <1>18, NumberRead
<1>21. hasM => Number(b, i + a + n) = e.MTU
  <2>1. PICK at \in Nat : at = i + a + n
    BY SMT
  <2>2. hasM => Holds(b, at, ToOctets(e.MTU))
    BY <1>8, <1>18, <2>1, Zenon
  <2>3. hasM => Number(b, at) = e.MTU
    BY <1>2, <1>3, <2>2, NumberRead
  <2> QED
    BY <2>1, <2>3, Zenon
<1>22. ASSUME hasA
       PROVE  /\ b[i + 1] = 0 /\ b[i + 2] = (IF proto = 1 THEN 1 ELSE 2)
              /\ SubSeq(b, i + 5, i + a) = e.Addr
  <2>1. Holds(b, i, marshalIPAddr(e, proto))
    BY <1>8, <1>18, <1>22, Zenon
  <2>2. i + 4 + al <= L /\ i + 4 + al = i + a
    BY <1>15, <1>19, <1>22, SMT
  <2>3. i + 4 + Len(e.Addr) <= Len(b) /\ i + 4 + Len(e.Addr) = i + a
    BY <1>13, <1>19, <1>22, <2>2, Zenon
  <2>4. /\ b[i + 1] = 0 /\ b[i + 2] = (IF proto = 1 THEN 1 ELSE 2)
        /\ SubSeq(b, i + 5, i + 4 + Len(e.Addr)) = e.Addr
    <3>1. PICK c \in Seq(Octet) : c = b
      BY <1>18, Zenon
    <3>2. i + 4 + Len(e.Addr) <= Len(c) /\ Holds(c, i, marshalIPAddr(e, proto))
      BY <2>1, <2>3, <3>1, Zenon
    <3>3. /\ c[i + 1] = 0 /\ c[i + 2] = (IF proto = 1 THEN 1 ELSE 2)
          /\ SubSeq(c, i + 5, i + 4 + Len(e.Addr)) = e.Addr
      BY <1>1, <3>2, AddrRead, ZenonT(60)
    <3> QED
      BY <3>1, <3>3, Zenon
  <2> QED
    BY <2>3, <2>4, Zenon
<1>23. ASSUME hasN
       PROVE  b[i + a + 1] = nl /\ Trim(SubSeq(b, i + a + 2, i + a + n)) = e.Name
  <2>1. PICK at \in Nat : at = i + a
    BY SMT
  <2>2. Holds(b, at, marshalName(e))
    BY <1>8, <1>18, <1>23, <2>1, Zenon
  <2>3. n = nl
    BY <1>16, <1>23, Zenon
  <2>4. at + n <= L
    BY <1>19, <2>1, SMT
  <2>5. at + nameLen(e) <= Len(b)
    BY <1>11, <1>19, <2>3, <2>4, Zenon
  <2>6. b[at + 1] = nameLen(e) /\ Trim(SubSeq(b, at + 2, at + nameLen(e))) = e.Name
    BY <1>1, <1>3, <1>18, <2>2, <2>5, NameRead, Zenon
  <2> QED
    BY <1>11, <2>1, <2>3, <2>6, Zenon
<1> DEFINE Left(at) == Len(b) - at
           Reads(attr, at) == Has(o.Type, attr) /\ Left(at) > 0
           addrAt == IF Reads(attrIfIndex, 0) THEN 4 ELSE 0
           afi == IF Left(addrAt) >= 4 THEN b[addrAt + 1] * 256 + b[addrAt + 2] ELSE 0
           addrLen == 4 + (IF afi = 1 THEN 4 ELSE IF afi = 2 THEN 16 ELSE 0)
           nameAt == IF Reads(attrIPAddr, addrAt) THEN addrAt + addrLen ELSE addrAt
           l == IF Left(nameAt) > 0 THEN b[nameAt + 1] ELSE 0
           mtuAt == IF Reads(attrName, nameAt) THEN nameAt + l ELSE nameAt
           end == IF Reads(attrMTU, mtuAt) THEN mtuAt + 4 ELSE mtuAt
           Addr == IF Reads(attrIPAddr, addrAt) THEN SubSeq(b, addrAt + 5, nameAt) ELSE <<>>
           Name == IF Reads(attrName, nameAt) THEN Trim(SubSeq(b, nameAt + 2, mtuAt)) ELSE <<>>
           Index == IF Reads(attrIfIndex, 0) THEN Number(b, 0) ELSE 0
           MTU == IF Reads(attrMTU, mtuAt) THEN Number(b, mtuAt) ELSE 0
           Zone == IF Len(Addr) = 16 THEN Name ELSE <<>>
           ext == [kind |-> "info", Type |-> o.Type, Addr |-> Addr, Name |-> Name,
                   Index |-> Index, MTU |-> MTU, Zone |-> Zone]
<1>24. parseInterfaceInfo(o) =
         IF end > Len(b) \/ (Reads(attrName, nameAt) /\ ~parseName(l, Left(nameAt)))
         THEN errInvalidExtension ELSE <<ext>>
  BY DEF parseInterfaceInfo, b
<1>25. /\ Reads(attrIfIndex, 0) <=> hasI
       /\ Reads(attrIPAddr, i) <=> hasA
       /\ Reads(attrName, i + a) <=> hasN
       /\ Reads(attrMTU, i + a + n) <=> hasM
  <2>1. /\ Left(0) = L - 0 /\ Left(i) = L - i /\ Left(i + a) = L - (i + a)
        /\ Left(i + a + n) = L - (i + a + n)
    BY <1>19, Zenon
  <2>2. hasI => L - 0 > 0
    BY <1>14, <1>19, SMT
  <2>3. hasA => L - i > 0
    BY <1>15, <1>19, SMT
  <2>4. hasN => L - (i + a) > 0
    BY <1>16, <1>19, SMT
  <2>5. hasM => L - (i + a + n) > 0
    BY <1>17, <1>19, SMT
  <2> QED
    BY <1>7, <2>1, <2>2, <2>3, <2>4, <2>5, Zenon
<1>26. /\ Left(i) = L - i /\ Left(i + a) = L - (i + a)
  BY <1>19, Zenon
<1> HIDE DEF Reads, Left
<1>27. addrAt = i
  BY <1>14, <1>25, Zenon
<1>28. hasA => i + addrLen = i + a
  <2>1. SUFFICES ASSUME hasA
                 PROVE  i + addrLen = i + a
    OBVIOUS
  <2>2. L - i >= 4
    BY <1>15, <1>19, <2>1, SMT
  <2>3. afi = b[i + 1] * 256 + b[i + 2]
    BY <1>26, <1>27, <2>2, ZenonT(60)
  <2>4. b[i + 1] * 256 + b[i + 2] = IF proto = 1 THEN 1 ELSE 2
    BY <1>22, <2>1
  <2>5. afi = IF proto = 1 THEN 1 ELSE 2
    BY <2>3, <2>4, ZenonT(60)
  <2> HIDE DEF afi
  <2>6. addrLen = 4 + al
    BY <1>10, <2>5
  <2> QED
    BY <1>15, <2>1, <2>6, Zenon
<1> HIDE DEF addrLen
<1>29. nameAt = i + a
  <2>1. nameAt = IF hasA THEN i + addrLen ELSE i
    BY <1>25, <1>27, Zenon
  <2>2. ~hasA => i = i + a
    BY <1>15
  <2> QED
    BY <1>28, <2>1, <2>2, Zenon
<1> HIDE DEF addrAt, nameAt
<1>30. hasN => l = nl
  <2>1. hasN => Left(nameAt) > 0
    BY <1>25, <1>29, Zenon DEF Reads
  <2> QED
    BY <1>23, <1>29, <2>1, Zenon
<1> HIDE DEF l
<1>31. mtuAt = i + a + n
  <2>1. mtuAt = IF hasN THEN (i + a) + l ELSE i + a
    BY <1>25, <1>29, Zenon
  <2>2. ~hasN => i + a = i + a + n
    BY <1>16
  <2>3. hasN => n = nl
    BY <1>16, Zenon
  <2> QED
    BY <1>30, <2>1, <2>2, <2>3, Zenon
<1> HIDE DEF mtuAt
<1>32. ~(end > Len(b))
  <2>1. end = IF hasM THEN (i + a + n) + 4 ELSE i + a + n
    BY <1>25, <1>31, Zenon
  <2>2. end <= L
    BY <1>17, <1>19, <2>1
  <2>3. end \in Nat
    BY <2>1
  <2> HIDE DEF end
  <2>4. ~(end > L)
    BY <2>2, <2>3
  <2> QED
    BY <1>19, <2>4, Zenon
<1>33. Reads(attrName, nameAt) => parseName(l, Left(nameAt))
  <2>1. hasN => L - (i + a) >= 4
    BY <1>16, <1>19, SMT
  <2>2. hasN => parseName(nl, L - (i + a))
    BY <1>11, <2>1 DEF parseName
  <2> QED
    BY <1>25, <1>26, <1>29, <1>30, <2>2, Zenon
<1>34. parseInterfaceInfo(o) = <<ext>>
  BY <1>24, <1>32, <1>33, Zenon
<1> HIDE DEF end
<1>35. Addr = e.Addr
  BY <1>9, <1>22, <1>25, <1>27, <1>29, Zenon
<1>36. Name = e.Name
  BY <1>9, <1>23, <1>25, <1>29, <1>31, Zenon
<1>37. Index = e.Index
  BY <1>9, <1>20, <1>25, Zenon
<1>38. MTU = e.MTU
  BY <1>9, <1>21, <1>25, <1>31, Zenon
<1> HIDE DEF Addr, Name, Index, MTU
<1>39. Zone = e.Zone
  BY <1>3, <1>35, <1>36, Zenon
<1> HIDE DEF Zone
<1>40. ext = [kind |-> "info", Type |-> e.Type, Addr |-> e.Addr, Name |-> e.Name,
              Index |-> e.Index, MTU |-> e.MTU, Zone |-> e.Zone]
  BY <1>4, <1>35, <1>36, <1>37, <1>38, <1>39, Zenon
<1>41. e = [kind |-> "info", Type |-> e.Type, Addr |-> e.Addr, Name |-> e.Name,
            Index |-> e.Index, MTU |-> e.MTU, Zone |-> e.Zone]
  BY <1>1 DEF InterfaceInfo
<1> QED
  BY <1>5, <1>34, <1>40, <1>41, Zenon

(* Whatever is within what its object can say comes back.                  *)
LEMMA ObjectBack ==
  ASSUME NEW e \in Extension, NEW proto \in {1, 58}, Sayable(e, proto), NEW o,
         Carries(o, e, proto)
  PROVE  ParseObject(o) = <<e>>
  BY Kinds, RawBack, StackBack, IdentBack, InfoBack, ZenonT(60)

(* The larger of 128 and a number.                                         *)
LEMMA Max128 ==
  ASSUME NEW n \in Nat
  PROVE  Max({128, n}) = IF n < 128 THEN 128 ELSE n
<1>1. PICK x : x = IF n < 128 THEN 128 ELSE n
  OBVIOUS
<1>2. x \in {128, n} /\ \A y \in {128, n} : x >= y
  BY <1>1
<1>3. \A z \in {128, n} : (\A y \in {128, n} : z >= y) => z = x
  BY <1>1
<1>4. Max({128, n}) = x
  BY <1>2, <1>3 DEF Max
<1> QED
  BY <1>1, <1>4

(* The padded datagram: the next multiple of the alignment that is at      *)
(* least 128 (multipartMessageOrigDatagramLen).                            *)
LEMMA PaddedTo ==
  ASSUME NEW n \in Nat, NEW proto \in {1, 58}
  PROVE  /\ multipartMessageOrigDatagramLen(proto, n) \in Nat
         /\ multipartMessageOrigDatagramLen(proto, n) >= n
         /\ multipartMessageOrigDatagramLen(proto, n) >= 128
         /\ multipartMessageOrigDatagramLen(proto, n) % Align(proto) = 0
         /\ multipartMessageOrigDatagramLen(proto, n) < Max({128, n}) + Align(proto)
<1>1. PICK a \in {4, 8} : a = Align(proto)
  BY DEF Align
<1>2. PICK p : p = IF n < 128 THEN 128 ELSE ((n + a - 1) \div a) * a
  OBVIOUS
<1>3. multipartMessageOrigDatagramLen(proto, n) = p
  BY <1>1, <1>2 DEF multipartMessageOrigDatagramLen
<1>4. CASE n < 128
  <2>1. p = 128 /\ Max({128, n}) = 128
    BY <1>2, <1>4, Max128
  <2>2. 128 % a = 0 /\ 128 < 128 + a
    OBVIOUS
  <2>3. p \in Nat /\ p >= n /\ p >= 128 /\ p % a = 0 /\ p < Max({128, n}) + a
    BY <1>4, <2>1, <2>2
  <2> QED
    BY <1>1, <1>3, <2>3, Zenon
<1>5. CASE ~(n < 128)
  <2>1. p = ((n + a - 1) \div a) * a /\ Max({128, n}) = n
    BY <1>2, <1>5, Max128
  <2>2. p \in Nat /\ p >= n /\ p % a = 0 /\ p < n + a
    <3>1. CASE a = 4
      BY <2>1, <3>1
    <3>2. CASE a = 8
      BY <2>1, <3>2
    <3> QED
      BY <3>1, <3>2
  <2>3. p \in Nat /\ p >= n /\ p >= 128 /\ p % a = 0 /\ p < Max({128, n}) + a
    BY <1>5, <2>1, <2>2
  <2> QED
    BY <1>1, <1>3, <2>3, Zenon
<1> QED
  BY <1>4, <1>5

(* What a body comes back as.                                              *)
Back(m, r) ==
  /\ r.exts = m.exts
  /\ r.head = m.head
  /\ m.type = "ExtendedEchoRequest" \/ m.exts = <<>> => r.data = m.data.len
  /\ m.type # "ExtendedEchoRequest" /\ m.exts # <<>> =>
       /\ r.data >= m.data.len /\ r.data >= 128
       /\ r.data % Align(m.proto) = 0
       /\ r.data < Max({128, m.data.len}) + Align(m.proto)

(* The fixed fields come back, whatever else is in the message.            *)
LEMMA HeadsBack ==
  ASSUME NEW m \in Bodies, Expressible(m)
  PROVE  HeadOf(WireOf(m)) = m.head
<1>1. PICK w \in Wire : w = WireOf(m)
  BY WireOfTyped
<1>2. w.type = m.type /\ w.proto = m.proto /\ w.lead = Lead(m)
  BY <1>1, WireOfTyped
<1>3. \A i \in 1 .. 3 : m.head[i] < Room(m)[i]
  BY Zenon DEF Expressible
<1> QED
  BY <1>1, <1>2, <1>3, HeadBack, Zenon

(* A plain body, or a parameter problem of ICMPv6, comes back.             *)
LEMMA PlainBack ==
  ASSUME NEW m \in Bodies, Expressible(m), ~Written(m)
  PROVE  Back(m, ParseOf(WireOf(m)))
<1>1. PICK w \in Wire : w = WireOf(m)
  BY WireOfTyped
<1>2. w.type = m.type /\ w.proto = m.proto /\ HeadOf(w) = m.head
  BY <1>1, WireOfTyped, HeadsBack
<1>3. /\ m.type \in MessageType /\ m.proto \in {1, 58} /\ m.data.len \in Nat
      /\ m.type \in Plain => m.exts = <<>>
      /\ m.type = "PacketTooBig" => m.proto = 58
      /\ m.type = "Raw" => m.head = NoHead
      /\ m.type = "ExtendedEchoReply" => m.data.len = 0
  BY BodyTyped
<1>4. ~Parted(m) /\ m.type # "ExtendedEchoRequest"
  BY DEF Written
<1>5. ~Parted(w)
  BY <1>2, <1>4 DEF Parted
<1>6. m.type = "ParamProb" => m.proto = 58
  BY <1>3, <1>4 DEF Parted
<1>7. m.type \in Plain \/ m.type = "ParamProb"
  BY <1>3, <1>4 DEF MessageType, Multipart, Parted
<1>8. m.exts = <<>>
  BY <1>3, <1>6, <1>7, Zenon DEF Expressible
<1>9. BodyLen(m) = m.data.len
  BY <1>8, LengthsTyped
<1>10. PICK d \in Nat : d = m.data.len
  BY <1>3
<1>11. CASE m.type = "Raw"
  <2>1. w = marshalPlain(m, d - 4)
    BY <1>1, <1>4, <1>10, <1>11, Zenon DEF WireOf, Written
  <2>2. w.end = d - 4
    BY <2>1 DEF marshalPlain
  <2>3. w.end + 4 = d
    BY <2>2
  <2>4. ~Known(w)
    BY <1>2, <1>11 DEF Known
  <2>5. ParseOf(w) = [NoResult EXCEPT !.data = d]
    BY <2>3, <2>4, Zenon DEF ParseOf
  <2>6. /\ [NoResult EXCEPT !.data = d].exts = <<>> /\ [NoResult EXCEPT !.data = d].head = NoHead
        /\ [NoResult EXCEPT !.data = d].data = d
    BY DEF NoResult
  <2> QED
    BY <1>1, <1>3, <1>8, <1>10, <1>11, <2>5, <2>6, Zenon DEF Back
<1>12. CASE m.type # "Raw"
  <2>1. Known(w)
    BY <1>2, <1>3, <1>12 DEF Known
  <2>2. /\ m.type = "ExtendedEchoReply" => d = 0
        /\ w = marshalPlain(m, d) \/ w = [marshalPlain(m, d) EXCEPT !.dlen = d]
    <3>1. m.type = "ExtendedEchoReply" => d = 0
      BY <1>3, <1>10
    <3>2. m.type = "ParamProb" => w = [marshalPlain(m, d) EXCEPT !.dlen = d]
      BY <1>1, <1>4, <1>9, <1>10, Zenon DEF WireOf, Written
    <3>3. m.type = "ExtendedEchoReply" => w = marshalPlain(m, 0)
      BY <1>1, <1>4, Zenon DEF WireOf, Written
    <3>4. m.type \notin {"ParamProb", "ExtendedEchoReply"} => w = marshalPlain(m, d)
      BY <1>1, <1>4, <1>10, <1>12, Zenon DEF WireOf, Written
    <3> QED
      BY <3>1, <3>2, <3>3, <3>4, Zenon
  <2>3. w.end = d
    <3>1. marshalPlain(m, d).end = d /\ [marshalPlain(m, d) EXCEPT !.dlen = d].end = d
      BY DEF marshalPlain
    <3> QED
      BY <2>2, <3>1, Zenon
  <2>4. ParseOf(w) = parsePlain(w, d)
    <3>1. m.type = "ExtendedEchoReply" => ParseOf(w) = parsePlain(w, 0)
      BY <1>2, <1>4, <1>5, <2>1, Zenon DEF ParseOf
    <3>2. m.type # "ExtendedEchoReply" => ParseOf(w) = parsePlain(w, d)
      BY <1>2, <1>4, <1>5, <2>1, <2>3, Zenon DEF ParseOf
    <3> QED
      BY <2>2, <3>1, <3>2, Zenon
  <2>5. /\ parsePlain(w, d).exts = <<>> /\ parsePlain(w, d).head = HeadOf(w)
        /\ parsePlain(w, d).data = d
    BY DEF parsePlain
  <2> QED
    BY <1>1, <1>2, <1>8, <1>10, <2>4, <2>5, Zenon DEF Back
<1> QED
  BY <1>11, <1>12

(* A multipart message without extensions comes back as it is: nothing in  *)
(* it is taken for an extension header.                                    *)
LEMMA BareBack ==
  ASSUME NEW m \in Bodies, Expressible(m), Written(m), m.exts = <<>>
  PROVE  Back(m, ParseOf(WireOf(m)))
<1>1. PICK w \in Wire : w = WireOf(m)
  BY WireOfTyped
<1>2. w.type = m.type /\ w.proto = m.proto /\ HeadOf(w) = m.head
  BY <1>1, WireOfTyped, HeadsBack
<1>3. PICK d \in Nat : d = m.data.len /\ (m.type = "ExtendedEchoRequest" => d = 0)
  BY BodyTyped
<1>4. w.end = d
  <2>1. BodyLen(m) = d
    BY <1>3, LengthsTyped
  <2> QED
    BY <1>1, <2>1, WrittenFields
<1>5. w.header = FALSE /\ w.look = {}
  <2>1. m.data.look \in SUBSET Look
    BY BodyTyped
  <2>2. m.data.look = {}
    BY Zenon DEF Expressible
  <2>3. w.look = m.data.look /\ w.header = (m.exts # <<>>)
    BY <1>1, WrittenFields, Zenon
  <2>4. (m.exts # <<>>) = FALSE
    OBVIOUS
  <2> QED
    BY <2>1, <2>2, <2>3, <2>4, Zenon
<1>6. \A l : ~validExtensionHeader(w, l)
  BY <1>5, Zenon DEF validExtensionHeader
<1>7. HeaderAt(w) = -1
  BY <1>6, Zenon DEF HeaderAt
<1> DEFINE p == parseMultipartMessageBody(w)
<1>8. p.exts = <<>> /\ p.head = HeadOf(w) /\ p.data = d
  <2>1. CASE d = 0
    <3>1. p = [NoResult EXCEPT !.head = HeadOf(w)]
      BY <1>4, <2>1, Zenon DEF parseMultipartMessageBody
    <3>2. /\ [NoResult EXCEPT !.head = HeadOf(w)].exts = <<>>
          /\ [NoResult EXCEPT !.head = HeadOf(w)].head = HeadOf(w)
          /\ [NoResult EXCEPT !.head = HeadOf(w)].data = 0
      BY DEF NoResult
    <3> QED
      BY <2>1, <3>1, <3>2, Zenon
  <2>2. CASE d # 0
    <3>1. p = [head |-> HeadOf(w), data |-> d, exts |-> <<>>, over |-> Overread(w)]
      BY <1>4, <1>7, <2>2, Zenon DEF parseMultipartMessageBody
    <3> HIDE DEF p
    <3> QED
      BY <3>1
  <2> QED
    BY <2>1, <2>2, Zenon
<1>9. p = [head |-> p.head, data |-> p.data, exts |-> p.exts, over |-> p.over]
  <2>1. CASE d = 0
    <3>1. p = [NoResult EXCEPT !.head = HeadOf(w)]
      BY <1>4, <2>1, Zenon DEF parseMultipartMessageBody
    <3> HIDE DEF p
    <3> QED
      BY <3>1 DEF NoResult
  <2>2. CASE d # 0
    <3>1. p = [head |-> HeadOf(w), data |-> d, exts |-> <<>>, over |-> Overread(w)]
      BY <1>4, <1>7, <2>2, Zenon DEF parseMultipartMessageBody
    <3> HIDE DEF p
    <3> QED
      BY <3>1
  <2> QED
    BY <2>1, <2>2, Zenon
<1>10. Known(w) /\ (Parted(w) \/ w.type = "ExtendedEchoRequest")
  BY <1>2 DEF Known, Written, Parted
<1>11. Parted(w) => w.type # "ExtendedEchoRequest"
  BY DEF Parted
<1>12. ParseOf(w) = p \/ (ParseOf(w) = [p EXCEPT !.data = 0] /\ d = 0)
  BY <1>2, <1>3, <1>10, <1>11, Zenon DEF ParseOf
<1> HIDE DEF p
<1>13. /\ [p EXCEPT !.data = 0].exts = p.exts /\ [p EXCEPT !.data = 0].head = p.head
       /\ [p EXCEPT !.data = 0].data = 0
  BY <1>9
<1> QED
  BY <1>1, <1>2, <1>3, <1>8, <1>12, <1>13, Zenon DEF Back

(* The objects of a message within the format: one for each extension,     *)
(* read as that extension, and as many octets as the header is told of.    *)
LEMMA ObjectsBack ==
  ASSUME NEW m \in Bodies, Expressible(m), Written(m), m.exts # <<>>
  PROVE  /\ Len(WireOf(m).objs) = Len(m.exts)
         /\ \A k \in 1 .. Len(m.exts) : /\ WireOf(m).objs[k].len >= 4
                                        /\ ParseObject(WireOf(m).objs[k]) = <<m.exts[k]>>
         /\ Said(WireOf(m).objs, Len(m.exts)) = ExtLen(m.exts, m.proto)
         /\ ExtLen(m.exts, m.proto) >= 4
<1>1. PICK w \in Wire : w = WireOf(m)
  BY WireOfTyped
<1>2. PICK exts \in Seq(Extension) : exts = m.exts
  BY BodyTyped
<1>3. PICK proto \in {1, 58} : proto = m.proto
  BY BodyTyped
<1>4. PICK N \in Nat : N = Len(exts) /\ N > 0 /\ DOMAIN exts = 1 .. N
  BY <1>2
<1>5. \A k \in 1 .. N : Sayable(exts[k], proto) /\ exts[k] \in Extension
  <2>1. \A k \in DOMAIN m.exts : Sayable(m.exts[k], m.proto)
    BY Zenon DEF Expressible
  <2>2. \A k \in 1 .. N : exts[k] \in Extension
    BY <1>4
  <2> QED
    BY <1>2, <1>3, <1>4, <2>1, <2>2, Zenon
<1>6. \A k \in 1 .. N : Spill(exts[k], proto).text = <<>> /\ ExtensionLen(exts[k], proto) # 0
  BY <1>5, SpillNone, Zenon
<1>7. /\ w.objs \in Seq(Object) /\ Len(w.objs) = N
      /\ \A k \in 1 .. N : w.objs[k] = ObjectAt(exts, proto, k)
  <2>1. w.objs = Objects(exts, proto)
    BY <1>1, <1>2, <1>3, WrittenFields, Zenon
  <2>2. \A k \in 1 .. Len(exts) : ExtensionLen(exts[k], proto) # 0
    BY <1>4, <1>6, Zenon
  <2>3. /\ Objects(exts, proto) \in Seq(Object) /\ Len(Objects(exts, proto)) = Len(exts)
        /\ \A k \in 1 .. Len(exts) : Objects(exts, proto)[k] = ObjectAt(exts, proto, k)
    BY <2>2, ObjectsTyped
  <2> QED
    BY <1>4, <2>1, <2>3, Zenon
<1>8. ASSUME NEW k \in 1 .. N
      PROVE  /\ Carries(w.objs[k], exts[k], proto) /\ w.objs[k].len >= 4
             /\ w.objs[k].len = ExtensionLen(exts[k], proto)
             /\ ParseObject(w.objs[k]) = <<exts[k]>>
  <2>1. \A j \in 1 .. k - 1 : j \in 1 .. N
    BY <1>4
  <2>2. \A j \in 1 .. k - 1 : Spill(exts[j], proto).text = <<>>
    BY <1>6, <2>1, Zenon
  <2>3. k \in 1 .. Len(exts) /\ ExtensionLen(exts[k], proto) # 0
    BY <1>4, <1>6, Zenon
  <2>4. LET o == ObjectAt(exts, proto, k)
            e == exts[k]
        IN /\ o \in Object /\ o.len = ExtensionLen(e, proto) /\ o.len >= 4
           /\ o.class = ClassOf(e) /\ o.Type = TypeOctet(e)
           /\ o.octets = Filled(Payload(e, proto))
    BY <2>2, <2>3, ObjectAtTyped, ZenonT(60)
  <2>5. w.objs[k] = ObjectAt(exts, proto, k)
    BY <1>7, Zenon
  <2>6. Carries(w.objs[k], exts[k], proto)
    BY <2>4, <2>5, Zenon DEF Carries
  <2>7. ParseObject(w.objs[k]) = <<exts[k]>>
    <3>1. PICK e \in Extension : e = exts[k]
      BY <1>5, Zenon
    <3>2. PICK o : o = w.objs[k]
      OBVIOUS
    <3>3. Sayable(e, proto) /\ Carries(o, e, proto)
      BY <1>5, <2>6, <3>1, <3>2, Zenon
    <3>4. ParseObject(o) = <<e>>
      BY <3>3, ObjectBack, ZenonT(60)
    <3> QED
      BY <3>1, <3>2, <3>4, Zenon
  <2> QED
    BY <2>6, <2>7, Zenon DEF Carries
<1>9. \A k \in 0 .. N : Said(w.objs, k) = LenTo(Lens(exts, proto), k)
  <2>1. DOMAIN w.objs = 1 .. N
    BY <1>4, <1>7
  <2>2. [j \in DOMAIN w.objs |-> w.objs[j].len] = [j \in DOMAIN exts |-> ExtensionLen(exts[j], proto)]
    BY <1>4, <1>8, <2>1
  <2> QED
    BY <2>2, Zenon DEF Said, Lens
<1>10. Said(w.objs, N) = ExtLen(exts, proto)
  <2>1. N \in 0 .. N
    BY <1>4
  <2> QED
    BY <1>4, <1>9, <2>1, Zenon DEF ExtLen
<1>11. Said(w.objs, N) >= 4
  <2>1. N \in 1 .. Len(w.objs) /\ N - 1 \in 0 .. Len(w.objs)
    BY <1>4, <1>7
  <2>2. Said(w.objs, N) = Said(w.objs, N - 1) + w.objs[N].len /\ Said(w.objs, N - 1) \in Nat
    <3>1. PICK objs \in Seq(Object) : objs = w.objs
      BY <1>7, Zenon
    <3>2. Said(objs, N) = Said(objs, N - 1) + objs[N].len /\ Said(objs, N - 1) \in Nat
      BY <2>1, <3>1, SaidTyped, Zenon
    <3> QED
      BY <3>1, <3>2, Zenon
  <2>3. w.objs[N] \in Object
    BY <1>7, <2>1
  <2>4. w.objs[N].len \in Nat
    BY <2>3 DEF Object
  <2>5. w.objs[N].len >= 4
    BY <1>4, <1>8
  <2> QED
    BY <2>2, <2>4, <2>5
<1> QED
  BY <1>1, <1>2, <1>3, <1>4, <1>7, <1>8, <1>10, <1>11, Zenon

(* The header of a message within the format is found: the length          *)
(* attribute says where it is, and its checksum fits.                      *)
LEMMA HeaderBack ==
  ASSUME NEW m \in Bodies, Expressible(m), Written(m), m.exts # <<>>
  PROVE  /\ HeaderAt(WireOf(m)) = DataLen(m)
         /\ WireOf(m).end = DataLen(m) + 4 + ExtLen(m.exts, m.proto)
         /\ m.type = "ExtendedEchoRequest" => DataLen(m) = 0
         /\ m.type # "ExtendedEchoRequest" =>
              DataLen(m) = multipartMessageOrigDatagramLen(m.proto, m.data.len)
<1>1. PICK w \in Wire : w = WireOf(m)
  BY WireOfTyped
<1>2. w.type = m.type /\ w.proto = m.proto /\ w.lead = Lead(m)
  BY <1>1, WireOfTyped
<1>3. /\ m.proto \in {1, 58} /\ m.data.len \in Nat /\ m.sum \in PacketSum
      /\ m.type = "ExtendedEchoRequest" => m.data.len = 0
  BY BodyTyped
<1>4. PICK x \in Nat : x = ExtLen(m.exts, m.proto) /\ x >= 4
  BY LengthsTyped, ObjectsBack
<1>5. PICK d \in Nat : d = DataLen(m)
  BY LengthsTyped
<1>6. d = IF m.type # "ExtendedEchoRequest"
          THEN multipartMessageOrigDatagramLen(m.proto, m.data.len) ELSE m.data.len
  <2>1. x > 0
    BY <1>4
  <2> QED
    BY <1>4, <1>5, <2>1, Zenon DEF DataLen
<1>7. w.dlen = d /\ w.end = d + 4 + x /\ w.header /\ w.sum = m.sum /\ w.check = checksum(m.sum)
  <2>1. HasHeader(m)
    <3>1. x > 0
      BY <1>4
    <3> QED
      BY <1>4, <3>1, Zenon DEF HasHeader
  <2>2. BodyLen(m) = d + x + 4
    BY <1>4, <1>5, <2>1, Zenon DEF BodyLen
  <2>3. d + x + 4 = d + 4 + x
    OBVIOUS
  <2>4. (m.exts # <<>>) = TRUE
    OBVIOUS
  <2> QED
    BY <1>1, <1>5, <2>2, <2>3, <2>4, WrittenFields, Zenon
<1>8. \A l : l = d => validExtensionHeader(w, l)
  <2>1. checksum(m.sum + checksum(m.sum)) = 0
    BY <1>3, ChecksumFits
  <2> QED
    BY <1>7, <2>1, Zenon DEF validExtensionHeader
<1>9. CASE m.type = "ExtendedEchoRequest"
  <2>1. d = 0
    BY <1>3, <1>6, <1>9
  <2>2. w.end >= 8
    BY <1>4, <1>7, <2>1
  <2>3. HeaderAt(w) = 0
    BY <1>2, <1>8, <1>9, <2>1, <2>2, Zenon DEF HeaderAt
  <2> QED
    BY <1>1, <1>4, <1>5, <1>7, <1>9, <2>1, <2>3, Zenon
<1>10. CASE m.type # "ExtendedEchoRequest"
  <2>1. PICK a \in {4, 8} : a = Align(m.proto)
    BY LengthsTyped
  <2>2. d >= 128 /\ d % a = 0
    BY <1>3, <1>6, <1>10, <2>1, PaddedTo
  <2>3. PICK q \in Nat : q = d \div a /\ a * q = d
    BY <2>2, SMT
  <2>4. AttrOf(w) = q
    <3>1. DataLen(m) <= 255 * Align(m.proto)
      BY Zenon DEF Expressible
    <3>2. Attr(m) = q
      BY <1>5, <2>1, <2>3, <3>1, AttrTyped, Zenon
    <3>3. m.type \in {"DstUnreach", "TimeExceeded"} \/ (m.type = "ParamProb" /\ m.proto = 1)
      BY <1>10 DEF Written, Parted
    <3> QED
      BY <1>2, <3>2, <3>3, LeadTyped, Zenon
  <2>5. Adjusted(w) = d
    <3>1. Align(w.proto) * AttrOf(w) = d
      BY <1>2, <2>1, <2>3, <2>4, Zenon
    <3>2. ~(128 > d) /\ ~(d + 8 > w.end)
      BY <1>4, <1>7, <2>2
    <3> QED
      BY <3>1, <3>2, Zenon DEF Adjusted
  <2>6. ~(d + 8 > w.end)
    BY <1>4, <1>7, <2>2
  <2>7. HeaderAt(w) = d
    BY <1>2, <1>8, <1>10, <2>5, <2>6, Zenon DEF HeaderAt
  <2> QED
    BY <1>1, <1>4, <1>5, <1>6, <1>7, <1>10, <2>7, Zenon
<1> QED
  BY <1>9, <1>10, Zenon

(* A multipart message with extensions comes back.                         *)
LEMMA ExtendedBack ==
  ASSUME NEW m \in Bodies, Expressible(m), Written(m), m.exts # <<>>
  PROVE  Back(m, ParseOf(WireOf(m)))
<1>1. PICK w \in Wire : w = WireOf(m)
  BY WireOfTyped
<1>2. w.type = m.type /\ w.proto = m.proto /\ HeadOf(w) = m.head
  BY <1>1, WireOfTyped, HeadsBack
<1>3. /\ m.proto \in {1, 58} /\ m.data.len \in Nat /\ m.exts \in Seq(Extension)
      /\ m.type = "ExtendedEchoRequest" => m.data.len = 0
  BY BodyTyped
<1>4. PICK N \in Nat : N = Len(m.exts) /\ N = Len(w.objs)
  <2>1. Len(w.objs) = Len(m.exts)
    BY <1>1, ObjectsBack, Zenon
  <2> QED
    BY <1>3, <2>1
<1>5. \A k \in 1 .. N : w.objs[k].len >= 4 /\ ParseObject(w.objs[k]) = <<m.exts[k]>>
  BY <1>1, <1>4, ObjectsBack, Zenon
<1>6. PICK x \in Nat : x = ExtLen(m.exts, m.proto) /\ Said(w.objs, N) = x
  BY <1>1, <1>4, ObjectsBack, LengthsTyped, Zenon
<1>7. PICK d \in Nat : d = DataLen(m)
  BY LengthsTyped
<1>8. /\ HeaderAt(w) = d /\ w.end = d + 4 + x
      /\ m.type # "ExtendedEchoRequest" =>
           d = multipartMessageOrigDatagramLen(m.proto, m.data.len)
  BY <1>1, <1>6, <1>7, HeaderBack, Zenon
<1>9. w.dlen = d
  BY <1>1, <1>7, WrittenFields, Zenon
<1>10. w.dlen + 4 + Said(w.objs, Len(w.objs)) <= w.end
  <2>1. d + 4 + x <= d + 4 + x
    OBVIOUS
  <2> QED
    BY <1>4, <1>6, <1>8, <1>9, <2>1, Zenon
<1>11. \A k \in 1 .. Len(w.objs) : /\ w.objs[k].len >= 4
                                   /\ ParseObject(w.objs[k]) # errInvalidExtension
  <2>1. \A z : <<z>> # <<>>
    OBVIOUS
  <2> QED
    BY <1>4, <1>5, <2>1, Zenon DEF errInvalidExtension
<1>12. Parted(w) \/ w.type = "ExtendedEchoRequest"
  BY <1>2 DEF Written, Parted
<1>13. /\ Len(ParseOf(w).exts) = Len(w.objs)
       /\ \A k \in 1 .. Len(w.objs) : <<ParseOf(w).exts[k]>> = ParseObject(w.objs[k])
       /\ ParseOf(w).exts \in Seq(Extension)
       /\ w.type # "ExtendedEchoRequest" => ParseOf(w).data = w.dlen
       /\ w.type = "ExtendedEchoRequest" => ParseOf(w).data = 0
       /\ ParseOf(w).head = HeadOf(w)
  <2>1. HeaderAt(w) = w.dlen
    BY <1>8, <1>9, Zenon
  <2> QED
    BY <1>10, <1>11, <1>12, <2>1, AllRead, Zenon
<1>14. ParseOf(w).exts = m.exts
  <2>1. PICK s \in Seq(Extension) : s = ParseOf(w).exts
    BY <1>13
  <2>2. PICK t \in Seq(Extension) : t = m.exts
    BY <1>3
  <2>3. \A k \in 1 .. N : <<s[k]>> = <<t[k]>>
    BY <1>4, <1>5, <1>13, <2>1, <2>2, Zenon
  <2>4. \A y, z : <<y>> = <<z>> => y = z
    OBVIOUS
  <2>5. Len(s) = N /\ Len(t) = N /\ \A k \in 1 .. N : s[k] = t[k]
    BY <1>4, <1>13, <2>1, <2>2, <2>3, <2>4, Zenon
  <2>6. s = t
    BY <2>5
  <2> QED
    BY <2>1, <2>2, <2>6, Zenon
<1>15. m.type = "ExtendedEchoRequest" => ParseOf(w).data = m.data.len
  BY <1>2, <1>3, <1>13, Zenon
<1>16. m.type # "ExtendedEchoRequest" =>
         /\ ParseOf(w).data = d /\ d >= m.data.len /\ d >= 128 /\ d % Align(m.proto) = 0
         /\ d < Max({128, m.data.len}) + Align(m.proto)
  <2>1. PICK n \in Nat : n = m.data.len
    BY <1>3
  <2>2. PICK proto \in {1, 58} : proto = m.proto
    BY <1>3
  <2>3. m.type # "ExtendedEchoRequest" =>
          /\ d >= n /\ d >= 128 /\ d % Align(proto) = 0 /\ d < Max({128, n}) + Align(proto)
    <3>1. PICK z : z = multipartMessageOrigDatagramLen(proto, n)
      OBVIOUS
    <3>2. /\ z >= n /\ z >= 128 /\ z % Align(proto) = 0
          /\ z < Max({128, n}) + Align(proto)
      BY <3>1, PaddedTo
    <3>3. m.type # "ExtendedEchoRequest" => d = z
      BY <1>8, <2>1, <2>2, <3>1, Zenon
    <3> QED
      BY <3>2, <3>3, Zenon
  <2> QED
    BY <1>2, <1>9, <1>13, <2>1, <2>2, <2>3, Zenon
<1> QED
  BY <1>1, <1>2, <1>13, <1>14, <1>15, <1>16, Zenon DEF Back

(* What Marshal of a body writes, the parser of its type reads back: the   *)
(* same fixed fields, the same extensions in the same order, and the       *)
(* datagram, padded when there are extensions                              *)
(* (marshalMultipartMessageBody, parseMultipartMessageBody).               *)
THEOREM RoundTrips == Spec => []RoundTrip
<1>1. ASSUME IInv, stage = "parsed", origin = "ours", Expressible(msg)
      PROVE  Back(msg, result)
  <2>1. msg \in Bodies /\ wire = WireOf(msg) /\ result = ParseOf(wire)
    BY <1>1 DEF IInv
  <2>2. PICK m \in Bodies : m = msg
    BY <2>1
  <2>3. result = ParseOf(WireOf(m)) /\ Expressible(m)
    BY <1>1, <2>1, <2>2, Zenon
  <2>4. Back(m, ParseOf(WireOf(m)))
    BY <2>3, PlainBack, BareBack, ExtendedBack, Zenon
  <2> QED
    BY <2>2, <2>3, <2>4, Zenon
<1>2. IInv => RoundTrip
  BY <1>1, Zenon DEF RoundTrip, Back
<1> QED
  BY <1>2, AlwaysWell, PTL
=============================================================================
