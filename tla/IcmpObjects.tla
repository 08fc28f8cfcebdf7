---------------------------- MODULE IcmpObjects ----------------------------
(***************************************************************************)
(* The objects an ICMP extension structure is made of: how a label stack,  *)
(* an InterfaceInfo, an InterfaceIdent and a raw extension become the      *)
(* octets behind an object's header, in the buffer they share, and what    *)
(* the parser of the object's class makes of such octets.  Names and       *)
(* addresses are sequences of octets; lengths stay below 2^16.             *)
(***************************************************************************)
EXTENDS Integers, Sequences, FiniteSetsExt

Octet == 0 .. 255

(* An octet Marshal leaves as it finds it in the buffer.                   *)
Unwritten == -1

Up4(n) == ((n + 3) \div 4) * 4
Number(b, at) == ((b[at + 1] * 256 + b[at + 2]) * 256 + b[at + 3]) * 256 + b[at + 4]
ToOctets(n) == <<(n \div 16777216) % 256, (n \div 65536) % 256, (n \div 256) % 256, n % 256>>

(* Text in l octets: what does not fit is not here (Spill), what is not    *)
(* filled is not written.                                                  *)
Fit(text, l) == [i \in 1 .. l |-> IF i <= Len(text) THEN text[i] ELSE Unwritten]

(* strings.Trim of zeros.                                                  *)
Trim(text) ==
  LET nonzero == {i \in DOMAIN text : text[i] # 0}
  IN IF nonzero = {} THEN <<>> ELSE SubSeq(text, Min(nonzero), Max(nonzero))

(* What a parser returns: one extension, or none when it fails.            *)
errInvalidExtension == <<>>

-----------------------------------------------------------------------------
MPLSLabel == [Label : Nat, TC : Nat, S : {0, 1}, TTL : Nat]
MPLSLabelStack == [kind : {"mpls"}, Labels : Seq(MPLSLabel)]

(* 20 bits of label, three of class, one, eight of time to live.           *)
marshalLabel(ll) ==
  <<(ll.Label \div 4096) % 256, (ll.Label \div 16) % 256,
    (ll.Label % 16) * 16 + (ll.TC % 8) * 2 + ll.S, ll.TTL % 256>>

marshalMPLSLabelStack(ls) ==
  [i \in 1 .. 4 * Len(ls.Labels) |-> marshalLabel(ls.Labels[(i + 3) \div 4])[((i + 3) % 4) + 1]]

parseLabel(b, at) ==
  [Label |-> b[at + 1] * 4096 + b[at + 2] * 16 + b[at + 3] \div 16,
   TC |-> (b[at + 3] % 16) \div 2, S |-> b[at + 3] % 2, TTL |-> b[at + 4]]

(* Octets that fill no entry are passed over.                              *)
parseMPLSLabelStack(o) ==
  <<[kind |-> "mpls",
     Labels |-> [k \in 1 .. Len(o.octets) \div 4 |-> parseLabel(o.octets, 4 * (k - 1))]]>>

-----------------------------------------------------------------------------
attrMTU == 1
attrName == 2
attrIPAddr == 4
attrIfIndex == 8

Has(attrs, attr) == (attrs \div attr) % 2 = 1

(* Interface is nil when Index is 0, Addr when it has no octets.           *)
InterfaceInfo == [kind : {"info"}, Type : Octet, Index : Nat, Name : Seq(Octet), MTU : Nat,
                  Addr : Seq(Octet), Zone : Seq(Octet)]

nameLen(e) == IF Len(e.Name) > 63 THEN 64 ELSE Up4(1 + Len(e.Name))

(* What is written, whatever Type says; an address only if it is of the    *)
(* protocol.                                                               *)
attrsOf(e, proto) ==
  (IF e.Index > 0 THEN attrIfIndex ELSE 0)
  + (IF e.Index > 0 /\ e.Name # <<>> THEN attrName ELSE 0)
  + (IF e.Index > 0 /\ e.MTU > 0 THEN attrMTU ELSE 0)
  + (IF Len(e.Addr) = (IF proto = 1 THEN 4 ELSE 16) THEN attrIPAddr ELSE 0)

marshalIPAddr(e, proto) == <<0, IF proto = 1 THEN 1 ELSE 2, Unwritten, Unwritten>> \o e.Addr
marshalName(e) == <<nameLen(e)>> \o Fit(e.Name, nameLen(e) - 1)

(* The attributes up to the name, and from the name on.                    *)
BeforeName(e, proto) ==
  LET attrs == attrsOf(e, proto)
  IN (IF Has(attrs, attrIfIndex) THEN ToOctets(e.Index) ELSE <<>>)
     \o (IF Has(attrs, attrIPAddr) THEN marshalIPAddr(e, proto) ELSE <<>>)

marshalInterfaceInfo(e, proto) ==
  LET attrs == attrsOf(e, proto)
  IN BeforeName(e, proto)
     \o (IF Has(attrs, attrName) THEN marshalName(e) ELSE <<>>)
     \o (IF Has(attrs, attrMTU) THEN ToOctets(e.MTU) ELSE <<>>)

(* parseName, but for a length that goes beyond the object.                *)
parseName(l, left) == left >= 4 /\ l % 4 = 0 /\ 4 <= l /\ l <= 64

(* The attributes Type names, in order, each from where the one before     *)
(* ended; those for which nothing at all is left stay zero.                *)
parseInterfaceInfo(o) ==
  LET b == o.octets
      Left(at) == Len(b) - at
      Reads(attr, at) == Has(o.Type, attr) /\ Left(at) > 0
      addrAt == IF Reads(attrIfIndex, 0) THEN 4 ELSE 0
      afi == IF Left(addrAt) >= 4 THEN b[addrAt + 1] * 256 + b[addrAt + 2] ELSE 0
      addrLen == 4 + (IF afi = 1 THEN 4 ELSE IF afi = 2 THEN 16 ELSE 0)
      nameAt == IF Reads(attrIPAddr, addrAt) THEN addrAt + addrLen ELSE addrAt
      l == IF Left(nameAt) > 0 THEN b[nameAt + 1] ELSE 0
      mtuAt == IF Reads(attrName, nameAt) THEN nameAt + l ELSE nameAt
      end == IF Reads(attrMTU, mtuAt) THEN mtuAt + 4 ELSE mtuAt
      Addr == IF Reads(attrIPAddr, addrAt) THEN SubSeq(b, addrAt + 5, nameAt) ELSE <<>>
      Name == IF Reads(attrName, nameAt) THEN Trim(SubSeq(b, nameAt + 2, mtuAt)) ELSE <<>>
  IN IF end > Len(b) \/ (Reads(attrName, nameAt) /\ ~parseName(l, Left(nameAt)))
     THEN errInvalidExtension
     ELSE <<[kind |-> "info", Type |-> o.Type, Addr |-> Addr, Name |-> Name,
             Index |-> IF Reads(attrIfIndex, 0) THEN Number(b, 0) ELSE 0,
             MTU |-> IF Reads(attrMTU, mtuAt) THEN Number(b, mtuAt) ELSE 0,
             Zone |-> IF Len(Addr) = 16 THEN Name ELSE <<>>]>>

-----------------------------------------------------------------------------
typeInterfaceByName == 1
typeInterfaceByIndex == 2
typeInterfaceByAddress == 3

InterfaceIdent == [kind : {"ident"}, Type : Octet, Name : Seq(Octet), Index : Nat,
                   AFI : Nat, Addr : Seq(Octet)]

marshalInterfaceIdent(e) ==
  CASE e.Type = typeInterfaceByName -> Fit(e.Name, Up4(Min({Len(e.Name), 255})))
    [] e.Type = typeInterfaceByIndex -> ToOctets(e.Index)
    [] e.Type = typeInterfaceByAddress ->
         <<(e.AFI \div 256) % 256, e.AFI % 256, Len(e.Addr) % 256, Unwritten>>
         \o Fit(e.Addr, Up4(Len(e.Addr)))
    [] OTHER -> <<>>

parseInterfaceIdent(o) ==
  LET b == o.octets
      ifi == [kind |-> "ident", Type |-> o.Type, Name |-> <<>>, Index |-> 0, AFI |-> 0, Addr |-> <<>>]
  IN CASE o.Type = typeInterfaceByName -> <<[ifi EXCEPT !.Name = Trim(b)]>>
       [] o.Type = typeInterfaceByIndex /\ Len(b) >= 4 -> <<[ifi EXCEPT !.Index = Number(b, 0)]>>
       [] o.Type = typeInterfaceByAddress /\ Len(b) >= 4 ->
            IF Len(b) - 4 < b[3] THEN errInvalidExtension
            ELSE <<[ifi EXCEPT !.AFI = b[1] * 256 + b[2], !.Addr = SubSeq(b, 5, 4 + b[3])]>>
       [] o.Type \in {typeInterfaceByIndex, typeInterfaceByAddress} /\ Len(b) < 4 -> errInvalidExtension
       [] OTHER -> <<ifi>>

-----------------------------------------------------------------------------
(* An object as it is found: what it says of its length, and its octets,   *)
(* those behind its header if it says to have one.  A raw extension holds  *)
(* a whole object, or nothing.                                             *)
Object == {o \in [class : Octet, Type : Octet, len : Nat, octets : Seq(Octet)] :
             o.len >= 4 => o.len = 4 + Len(o.octets)}
RawExtension == {e \in [kind : {"raw"}, Data : Seq(Object)] :
                   e.Data # <<>> => Len(e.Data) = 1 /\ e.Data[1].len >= 4}
Extension == MPLSLabelStack \cup InterfaceInfo \cup InterfaceIdent \cup RawExtension

Class == [mpls |-> 1, info |-> 2, ident |-> 3]

(* The octets of an extension behind its object header.                    *)
Payload(e, proto) ==
  CASE e.kind = "mpls" -> marshalMPLSLabelStack(e)
    [] e.kind = "info" -> marshalInterfaceInfo(e, proto)
    [] e.kind = "ident" -> marshalInterfaceIdent(e)
    [] e.kind = "raw" -> IF e.Data = <<>> THEN <<>> ELSE e.Data[1].octets

(* Len of an extension.                                                    *)
ExtensionLen(e, proto) ==
  IF e.kind = "raw" /\ e.Data = <<>> THEN 0 ELSE 4 + Len(Payload(e, proto))

TypeOctet(e) == CASE e.kind = "mpls" -> 1 [] e.kind = "raw" -> e.Data[1].Type [] OTHER -> e.Type

(* copy writes a name to its last octet, or to the end of the message:     *)
(* where, counted from the object's first octet, and what runs over.       *)
Spill(e, proto) ==
  LET fits == IF e.kind = "info" THEN 63 ELSE 256
  IN IF \/ e.kind = "info" /\ e.Index > 0
        \/ e.kind = "ident" /\ e.Type = typeInterfaceByName
     THEN [at |-> IF e.kind = "info" THEN 4 + Len(BeforeName(e, proto)) + 64 ELSE 4 + 256,
           text |-> SubSeq(e.Name, fits + 1, Len(e.Name))]
     ELSE [at |-> 0, text |-> <<>>]

ParseObject(o) ==
  CASE o.class = 1 -> parseMPLSLabelStack(o)
    [] o.class = 2 -> parseInterfaceInfo(o)
    [] o.class = 3 -> parseInterfaceIdent(o)
    [] OTHER -> <<[kind |-> "raw", Data |-> <<o>>]>>
=============================================================================
