--------------------------- MODULE IcmpMultipart ---------------------------
(***************************************************************************)
(* ICMP messages, those with extensions above all: marshalling a body,     *)
(* cutting the message short on the way, parsing what is left.  A message  *)
(* in wire format is described by where things are in it, as counts of     *)
(* octets after the four leading ones of its body: the octets before the   *)
(* extension header, the header, the objects, the end.  An end of -4 is a  *)
(* message without a body, -8 is no octet at all.                          *)
(***************************************************************************)
EXTENDS IcmpObjects

CONSTANTS
  DataLens,    \* lengths of original datagrams to try
  Looks,       \* look-alikes of extension headers in them to try
  Heads,       \* values of the fixed fields to try
  Lists,       \* lists of extensions to try
  ObjectLists, \* lists of objects another implementation may send
  Sums,        \* what the halves of an extension structure may add up to
  Cuts         \* numbers of octets to lose at the end

(* Sums of the at most 32768 halves of a packet, not all of them zero.     *)
PacketSum == {s \in Nat : 0 < s /\ s <= 32768 * 65535}

(* Octets within a datagram that read as an extension header: where they   *)
(* are, the objects that the octets behind them read as, and the ends of   *)
(* the message with which their checksum does not fit (none if they have   *)
(* no checksum).                                                           *)
Look == [at : {n \in Nat : n >= 128}, objs : Seq(Object), bad : SUBSET Int]

ASSUME LooksAssumption ==
  \A look \in Looks : look \subseteq Look /\ \A x, y \in look : x.at = y.at => x = y
ASSUME LensAssumption == DataLens \subseteq Nat /\ Cuts \subseteq Nat \ {0}
ASSUME SumsAssumption == Sums \subseteq PacketSum
ASSUME ListsAssumption ==
  /\ Heads \subseteq Nat \X Nat \X Nat
  /\ Lists \subseteq Seq(Extension) /\ ObjectLists \subseteq Seq(Object)

VARIABLES
  stage,   \* "new", "wire", "parsed" or "refused"
  origin,  \* history: "ours", "cut" or "foreign"
  msg,     \* the body marshalled
  wire,    \* the octets to parse
  result   \* the body parsed

vars == <<stage, origin, msg, wire, result>>

Multipart == {"DstUnreach", "TimeExceeded", "ParamProb", "ExtendedEchoRequest"}
Plain == {"Echo", "ExtendedEchoReply", "PacketTooBig", "Raw"}
MessageType == Multipart \cup Plain

Half == 0 .. 65535

(* head: the fixed fields.  sum: what the halves of the extension          *)
(* structure add up to.                                                    *)
Datagram == [len : Nat, look : SUBSET Look]
Body == [type : MessageType, proto : {1, 58}, head : Nat \X Nat \X Nat, data : Datagram,
         exts : Seq(Extension), sum : Nat]

(* lead: the four leading octets, as two halves.                           *)
Wire == [type : MessageType, proto : {1, 58}, lead : Half \X Half, dlen : Nat,
         look : SUBSET Look, header : BOOLEAN, sum : Nat, check : Half, objs : Seq(Object), end : Int]
Parsed == [head : Nat \X Nat \X Nat, data : Nat, exts : Seq(Extension), over : BOOLEAN]

NoHead == <<0, 0, 0>>
NoBody == [type |-> "Raw", proto |-> 1, head |-> NoHead, data |-> [len |-> 0, look |-> {}],
           exts |-> <<>>, sum |-> 0]
NoWire == [type |-> "Raw", proto |-> 1, lead |-> <<0, 0>>, dlen |-> 0, look |-> {},
           header |-> FALSE, sum |-> 0, check |-> 0, objs |-> <<>>, end |-> -4]
NoResult == [head |-> NoHead, data |-> 0, exts |-> <<>>, over |-> FALSE]

TypeOK ==
  /\ stage \in {"new", "wire", "parsed", "refused"}
  /\ origin \in {"ours", "cut", "foreign"}
  /\ msg \in Body
  /\ wire \in Wire
  /\ result \in Parsed

Init ==
  /\ stage = "new" /\ origin = "ours"
  /\ msg = NoBody /\ wire = NoWire /\ result = NoResult

-----------------------------------------------------------------------------
(* Marshalling.                                                            *)

Align(proto) == IF proto = 1 THEN 4 ELSE 8

(* The octets of the first k members of a list.                            *)
LenTo(lens, k) ==
  LET sum[j \in 0 .. Len(lens)] == IF j = 0 THEN 0 ELSE sum[j - 1] + lens[j]
  IN sum[k]
Lens(exts, proto) == [k \in DOMAIN exts |-> ExtensionLen(exts[k], proto)]
ExtLen(exts, proto) == LenTo(Lens(exts, proto), Len(exts))

ASSUME PacketAssumption == \A l \in Lists, p \in {1, 58} : ExtLen(l, p) < 65536

multipartMessageOrigDatagramLen(proto, n) ==
  IF n < 128 THEN 128 ELSE ((n + Align(proto) - 1) \div Align(proto)) * Align(proto)

DataLen(m) ==
  IF ExtLen(m.exts, m.proto) > 0 /\ m.type # "ExtendedEchoRequest"
  THEN multipartMessageOrigDatagramLen(m.proto, m.data.len) ELSE m.data.len

HasHeader(m) == ExtLen(m.exts, m.proto) > 0 \/ \E k \in DOMAIN m.exts : m.exts[k].kind = "raw"

BodyLen(m) == DataLen(m) + ExtLen(m.exts, m.proto) + (IF HasHeader(m) THEN 4 ELSE 0)

validExtensions(type, exts) ==
  LET kinds == {exts[k].kind : k \in DOMAIN exts}
      idents == {k \in DOMAIN exts : exts[k].kind = "ident"}
  IN IF type = "ExtendedEchoRequest"
     THEN kinds \subseteq {"ident", "raw"} /\ ~(Cardinality(idents) = 1 /\ Len(exts) > 1)
     ELSE kinds \subseteq {"mpls", "info", "raw"}

(* What the extensions before the k-th have left at octet x of the buffer  *)
(* of the objects.                                                         *)
Under(exts, proto, k, x) ==
  LET lens == Lens(exts, proto)
      Runs(j) == Spill(exts[j], proto)
      Into(j) == x - (LenTo(lens, j - 1) + Runs(j).at)
      over == {j \in 1 .. k - 1 : Into(j) \in DOMAIN Runs(j).text}
  IN IF over = {} THEN 0 ELSE Runs(Max(over)).text[Into(Max(over))]

ObjectAt(exts, proto, k) ==
  LET e == exts[k]
      payload == Payload(e, proto)
      start == LenTo(Lens(exts, proto), k - 1) + 4
  IN [class |-> IF e.kind = "raw" THEN e.Data[1].class ELSE Class[e.kind],
      Type |-> TypeOctet(e), len |-> 4 + Len(payload),
      octets |-> [i \in DOMAIN payload |-> IF payload[i] = Unwritten
                                          THEN Under(exts, proto, k, start + i) ELSE payload[i]]]

(* The loop over the extensions.  One without data is no object.           *)
Objects(exts, proto) ==
  LET sent[k \in 0 .. Len(exts)] ==
        IF k = 0 THEN <<>>
        ELSE IF ExtensionLen(exts[k], proto) = 0 THEN sent[k - 1]
        ELSE Append(sent[k - 1], ObjectAt(exts, proto, k))
  IN sent[Len(exts)]

(* Mutant: the carry is added once.                                        *)
checksumOnce(s) == 65535 - ((s \div 65536 + (s % 65536)) % 65536)

(* Of halves that add up to s.  The octets of each half are swapped        *)
(* throughout, which is the same sum with its octets swapped.              *)
checksum(s) == LET t == s \div 65536 + (s % 65536)
               IN 65535 - ((t + t \div 65536) % 65536)

(* Mutant: the length attribute is kept wider than its octet.              *)
AttrWide(m) == IF m.exts = <<>> THEN 0 ELSE DataLen(m) \div Align(m.proto)

(* The length attribute: an octet of the padded length.                    *)
Attr(m) == IF m.exts = <<>> THEN 0 ELSE (DataLen(m) \div Align(m.proto)) % 256

(* The lower 16 bits of a number (PutUint16).                              *)
Low(n) == n % 65536

(* An identifier and a sequence number, or a number of 32 bits.            *)
TwoHalves(m) == m.type \in {"Echo", "PacketTooBig"} \/ (m.type = "ParamProb" /\ m.proto = 58)

(* The four leading octets: the fixed fields, each in its width, and the   *)
(* length attribute.                                                       *)
Lead(m) ==
  LET a == m.head[1]
      b == m.head[2]
      c == m.head[3]
      attr == IF m.proto = 1 THEN Attr(m) ELSE Attr(m) * 256
  IN CASE TwoHalves(m) -> <<Low(a), Low(b)>>
       [] m.type = "ExtendedEchoRequest" -> <<Low(a), (b % 256) * 256 + c>>
       [] m.type = "ExtendedEchoReply" ->
            <<Low(a), (b % 256) * 256 + ((c \div 8) % 8) * 32 + (c % 8)>>
       [] m.type = "ParamProb" /\ m.proto = 1 -> <<(a % 256) * 256 + attr, 0>>
       [] m.type \in {"DstUnreach", "TimeExceeded"} -> <<attr, 0>>
       [] m.type = "Raw" -> <<0, 0>>

marshalMultipartMessageBody(m) ==
  [type |-> m.type, proto |-> m.proto, lead |-> Lead(m), dlen |-> DataLen(m), look |-> m.data.look,
   header |-> m.exts # <<>>, sum |-> m.sum, check |-> IF m.exts = <<>> THEN 0 ELSE checksum(m.sum),
   objs |-> Objects(m.exts, m.proto), end |-> BodyLen(m)]

marshalPlain(m, end) ==
  [type |-> m.type, proto |-> m.proto, lead |-> Lead(m), dlen |-> m.data.len, look |-> m.data.look,
   header |-> FALSE, sum |-> 0, check |-> 0, objs |-> <<>>, end |-> end]

(* Message.Marshal.  Its checksum, which ParseMessage reads and does not   *)
(* check, is left out.                                                     *)
Send(m, w) ==
  /\ stage = "new"
  /\ msg' = m
  /\ wire' = w
  /\ stage' = "wire"
  /\ UNCHANGED <<origin, result>>

Refuse(m) ==
  /\ stage = "new"
  /\ msg' = m
  /\ stage' = "refused"
  /\ UNCHANGED <<origin, wire, result>>

MarshalDstUnreach(m) ==
  /\ m.type = "DstUnreach"
  /\ \/ validExtensions(m.type, m.exts) /\ Send(m, marshalMultipartMessageBody(m))
     \/ ~validExtensions(m.type, m.exts) /\ Refuse(m)

MarshalTimeExceeded(m) ==
  /\ m.type = "TimeExceeded"
  /\ \/ validExtensions(m.type, m.exts) /\ Send(m, marshalMultipartMessageBody(m))
     \/ ~validExtensions(m.type, m.exts) /\ Refuse(m)

(* For ICMPv6 the extensions are neither checked nor written: only their   *)
(* length is left, as zeros behind the datagram.                           *)
MarshalParamProb(m) ==
  /\ m.type = "ParamProb"
  /\ \/ m.proto = 1 /\ validExtensions(m.type, m.exts) /\ Send(m, marshalMultipartMessageBody(m))
     \/ m.proto = 1 /\ ~validExtensions(m.type, m.exts) /\ Refuse(m)
     \/ m.proto = 58 /\ Send(m, [marshalPlain(m, BodyLen(m)) EXCEPT !.dlen = BodyLen(m)])

MarshalExtendedEchoRequest(m) ==
  /\ m.type = "ExtendedEchoRequest"
  /\ \/ validExtensions(m.type, m.exts) /\ Send(m, marshalMultipartMessageBody(m))
     \/ ~validExtensions(m.type, m.exts) /\ Refuse(m)

MarshalEcho(m) == m.type = "Echo" /\ Send(m, marshalPlain(m, m.data.len))
MarshalExtendedEchoReply(m) == m.type = "ExtendedEchoReply" /\ Send(m, marshalPlain(m, 0))
MarshalPacketTooBig(m) == m.type = "PacketTooBig" /\ Send(m, marshalPlain(m, m.data.len))

(* The data is the whole body; without any, Message.Marshal adds none.     *)
MarshalRawBody(m) == m.type = "Raw" /\ Send(m, marshalPlain(m, m.data.len - 4))

-----------------------------------------------------------------------------
(* On the way.                                                             *)

(* The end is lost.  The checksum of what is left of the extensions no     *)
(* longer fits, unless what went adds nothing to the sum.                  *)
Cut(n) ==
  /\ stage = "wire" /\ origin = "ours"
  /\ n <= wire.end + 8
  /\ \E s \in IF wire.header THEN {wire.sum, wire.sum - 1} ELSE {wire.sum} :
       wire' = [wire EXCEPT !.end = @ - n, !.sum = s]
  /\ origin' = "cut"
  /\ UNCHANGED <<stage, msg, result>>

(* Another implementation sends any length attribute, with or without a    *)
(* checksum, and objects of its own.                                       *)
Foreign(w) ==
  /\ stage = "new"
  /\ wire' = w
  /\ origin' = "foreign"
  /\ stage' = "wire"
  /\ UNCHANGED <<msg, result>>

-----------------------------------------------------------------------------
(* Parsing.                                                                *)

(* Mutant: a checksum must be there.                                       *)
StrictHeader(w, l) ==
  w.header /\ w.dlen = l /\ w.check # 0 /\ checksum(w.sum + w.check) = 0

(* What validExtensionHeader says of the octets from l on.                 *)
validExtensionHeader(w, l) ==
  \/ w.header /\ w.dlen = l /\ (w.check = 0 \/ checksum(w.sum + w.check) = 0)
  \/ \E x \in w.look : x.at = l /\ w.end \notin x.bad

(* The octet where the length attribute is.                                *)
AttrOf(w) == IF w.proto = 1 THEN w.lead[1] % 256 ELSE w.lead[1] \div 256

(* Mutant: a length attribute is taken as it is.                           *)
AttrTrusted(w) == Align(w.proto) * AttrOf(w)

(* The length attribute, or 128 when it looks inappropriate.               *)
Adjusted(w) ==
  LET l == Align(w.proto) * AttrOf(w)
  IN IF 128 > l \/ l + 8 > w.end THEN 128 ELSE l

(* Where the extension header is; -1: no extension.                        *)
HeaderAt(w) ==
  IF w.type = "ExtendedEchoRequest"
  THEN IF w.end >= 8 /\ validExtensionHeader(w, 0) THEN 0 ELSE -1
  ELSE IF Adjusted(w) + 8 > w.end THEN -1
  ELSE IF validExtensionHeader(w, Adjusted(w)) THEN Adjusted(w)
  ELSE IF validExtensionHeader(w, 128) THEN 128 ELSE -1

(* The objects behind the header that was found.                           *)
Found(w) == IF HeaderAt(w) = w.dlen THEN w.objs
            ELSE (CHOOSE x \in w.look : x.at = HeaderAt(w)).objs

(* Said lengths of the first k objects.                                    *)
Said(objs, k) == LenTo([j \in DOMAIN objs |-> objs[j].len], k)

(* Mutant: the last object may end behind the message.                     *)
LeadsUnchecked(w, k) == /\ \A j \in 1 .. k : Found(w)[j].len >= 4
                        /\ HeaderAt(w) + 8 + Said(Found(w), k - 1) <= w.end

(* The loop over the objects reaches the end of the k-th.                  *)
Leads(w, k) ==
  /\ \A j \in 1 .. k : Found(w)[j].len >= 4
  /\ HeaderAt(w) + 4 + Said(Found(w), k) <= w.end

(* The objects the loop goes through.                                      *)
Walked(w) == IF HeaderAt(w) = -1 THEN {} ELSE {k \in DOMAIN Found(w) : Leads(w, k)}

(* One object its parser refuses and there are no extensions at all.       *)
Refused(w) == \E k \in Walked(w) : ParseObject(Found(w)[k]) = errInvalidExtension
Extensions(w) == [k \in 1 .. Cardinality(Walked(w)) |-> ParseObject(Found(w)[k])[1]]

(* parseExtensions has an index behind the end of the slice, which is a    *)
(* panic.  The parsers of the objects have their own (parseName).          *)
Overread(w) ==
  \/ w.type # "ExtendedEchoRequest" /\ Adjusted(w) + 8 <= w.end
       /\ ~validExtensionHeader(w, Adjusted(w)) /\ 128 + 4 > w.end
  \/ HeaderAt(w) # -1 /\ HeaderAt(w) + 4 > w.end
  \/ \E k \in Walked(w) : HeaderAt(w) + 4 + Said(Found(w), k) > w.end

(* The fixed fields.                                                       *)
HeadOf(w) ==
  LET a == w.lead[1]
      b == w.lead[2]
  IN CASE TwoHalves(w) -> <<a, b, 0>>
       [] w.type = "ExtendedEchoRequest" -> <<a, b \div 256, b % 2>>
       [] w.type = "ExtendedEchoReply" -> <<a, b \div 256, ((b % 256) \div 32) * 8 + (b % 8)>>
       [] w.type = "ParamProb" /\ w.proto = 1 -> <<a \div 256, 0, 0>>
       [] w.type \in {"DstUnreach", "TimeExceeded", "Raw"} -> NoHead

parseMultipartMessageBody(w) ==
  IF w.end = 0 THEN [NoResult EXCEPT !.head = HeadOf(w)]
  ELSE IF HeaderAt(w) = -1 \/ Refused(w)
  THEN [head |-> HeadOf(w), data |-> w.end, exts |-> <<>>, over |-> Overread(w)]
  ELSE [head |-> HeadOf(w), data |-> HeaderAt(w), exts |-> Extensions(w), over |-> Overread(w)]

parsePlain(w, data) == [head |-> HeadOf(w), data |-> data, exts |-> <<>>, over |-> FALSE]

(* ParseMessage, with parseFns: a type it has no parser for, such as a     *)
(* PacketTooBig in ICMPv4, has a raw body; the parsers want four octets.   *)
Known(w) == w.type # "Raw" /\ ~(w.type = "PacketTooBig" /\ w.proto = 1)
TooShort(w) == w.end < (IF Known(w) THEN 0 ELSE -4)

Parse(r) ==
  /\ stage = "wire"
  /\ ~TooShort(wire)
  /\ result' = r
  /\ stage' = "parsed"
  /\ UNCHANGED <<origin, msg, wire>>

errMessageTooShort ==
  /\ stage = "wire"
  /\ TooShort(wire)
  /\ stage' = "refused"
  /\ UNCHANGED <<origin, msg, wire, result>>

parseDstUnreach == wire.type = "DstUnreach" /\ Parse(parseMultipartMessageBody(wire))

parseTimeExceeded == wire.type = "TimeExceeded" /\ Parse(parseMultipartMessageBody(wire))

parseParamProb ==
  /\ wire.type = "ParamProb"
  /\ Parse(IF wire.proto = 58 THEN parsePlain(wire, wire.end)
           ELSE parseMultipartMessageBody(wire))

(* The data of an extended echo request is dropped.                        *)
parseExtendedEchoRequest ==
  /\ wire.type = "ExtendedEchoRequest"
  /\ Parse([parseMultipartMessageBody(wire) EXCEPT !.data = 0])

parseEcho == wire.type = "Echo" /\ Parse(parsePlain(wire, wire.end))
parseExtendedEchoReply == wire.type = "ExtendedEchoReply" /\ Parse(parsePlain(wire, 0))
parsePacketTooBig == wire.type = "PacketTooBig" /\ Known(wire) /\ Parse(parsePlain(wire, wire.end))
parseRawBody == ~Known(wire) /\ Parse([NoResult EXCEPT !.data = wire.end + 4])

-----------------------------------------------------------------------------
(* The bodies there are: extensions, a datagram and fixed fields only      *)
(* where the type has them.                                                *)
Bodies == {b \in [type : MessageType, proto : {1, 58}, head : Heads,
                  data : [len : DataLens, look : Looks], exts : Lists, sum : Sums \cup {0}] :
             /\ \A x \in b.data.look : x.at < b.data.len /\ b.type \in Multipart
             /\ b.type \in Plain => b.exts = <<>>
             /\ b.type = "PacketTooBig" => b.proto = 58
             /\ b.type \in {"DstUnreach", "TimeExceeded", "Raw"} => b.head = NoHead
             /\ b.type \in {"ExtendedEchoRequest", "ExtendedEchoReply"} => b.data.len = 0
             /\ b.type = "ExtendedEchoRequest" => b.head[3] \in {0, 1}
             /\ (b.sum = 0) = (b.exts = <<>>)}

Marshal ==
  /\ stage = "new"
  /\ \E m \in Bodies :
       \/ MarshalDstUnreach(m) \/ MarshalTimeExceeded(m) \/ MarshalParamProb(m)
       \/ MarshalExtendedEchoRequest(m) \/ MarshalEcho(m) \/ MarshalExtendedEchoReply(m)
       \/ MarshalPacketTooBig(m) \/ MarshalRawBody(m)

(* What the halves of another implementation's extension structure add up  *)
(* to, and the octets an object takes whatever it says.                    *)
ForeignSum == 8192
Room4(o) == [k \in DOMAIN o |-> Max({4, o[k].len})]

ForeignWire(t, p, a, d, h, o) ==
  [type |-> t, proto |-> p, lead |-> <<257 * a, 0>>, dlen |-> d, look |-> {},
   header |-> h # "none", sum |-> ForeignSum,
   check |-> IF h = "summed" THEN checksum(ForeignSum) ELSE IF h = "bad" THEN 1 ELSE 0,
   objs |-> o, end |-> d + (IF h = "none" THEN 0 ELSE 4 + LenTo(Room4(o), Len(o)))]

ForeignWires ==
  {ForeignWire(t, p, a, d, h, o) :
      t \in MessageType, p \in {1, 58}, a \in {0, 17, 33, 255}, d \in DataLens,
      h \in {"none", "summed", "unsummed", "bad"}, o \in ObjectLists}

Next ==
  \/ Marshal
  \/ \E n \in Cuts : Cut(n)
  \/ stage = "new" /\ \E w \in ForeignWires : Foreign(w)
  \/ parseDstUnreach
  \/ parseTimeExceeded
  \/ parseParamProb
  \/ parseExtendedEchoRequest
  \/ parseEcho
  \/ parseExtendedEchoReply
  \/ parsePacketTooBig
  \/ parseRawBody
  \/ errMessageTooShort

Spec == Init /\ [][Next]_vars

-----------------------------------------------------------------------------
(* The values each fixed field of a type has room for.                     *)
Room(m) ==
  CASE m.type = "ExtendedEchoRequest" -> <<65536, 256, 2>>
    [] m.type = "ExtendedEchoReply" -> <<65536, 256, 64>>
    [] m.type = "ParamProb" /\ m.proto = 1 -> <<256, 1, 1>>
    [] OTHER -> <<65536, 65536, 1>>

(* A number of 32 bits, and a label of 20 bits with its 3 and 8.           *)
Word(n) == n \div 65536 < 65536
Slim(ll) == ll.Label < 1048576 /\ ll.TC < 8 /\ ll.TTL < 256

(* An extension within what its object can say: an InterfaceInfo has the   *)
(* Type of what is in it, with any role in its upper bits, an              *)
(* InterfaceIdent what is of its Type, names and addresses fit, and no     *)
(* name begins or ends with a zero octet.                                  *)
Sayable(e, proto) ==
  CASE e.kind = "mpls" -> \A k \in DOMAIN e.Labels : Slim(e.Labels[k])
    [] e.kind = "info" ->
         /\ e.Type % 16 = attrsOf(e, proto) /\ Word(e.Index) /\ Word(e.MTU)
         /\ Len(e.Name) <= 63 /\ e.Name = Trim(e.Name)
         /\ e.Index = 0 => e.Name = <<>> /\ e.MTU = 0
         /\ Len(e.Addr) \in {0, IF proto = 1 THEN 4 ELSE 16}
         /\ e.Zone = IF Len(e.Addr) = 16 THEN e.Name ELSE <<>>
    [] e.kind = "ident" ->
         /\ Len(e.Name) <= 256 /\ e.Name = Trim(e.Name)
         /\ Word(e.Index) /\ Len(e.Addr) <= 255 /\ e.AFI \in Half
         /\ e.Type # typeInterfaceByName => e.Name = <<>>
         /\ e.Type # typeInterfaceByIndex => e.Index = 0
         /\ e.Type # typeInterfaceByAddress => e.AFI = 0 /\ e.Addr = <<>>
    [] e.kind = "raw" -> e.Data # <<>> /\ e.Data[1].class \notin 1 .. 3

(* Messages within what the format can say: extensions only where they are *)
(* written, and a datagram whose padded length fits the length attribute.  *)
Expressible(m) ==
  /\ \A k \in DOMAIN m.exts : Sayable(m.exts[k], m.proto)
  /\ \A i \in 1 .. 3 : m.head[i] < Room(m)[i]
  /\ m.type = "ParamProb" /\ m.proto = 58 => m.exts = <<>>
  /\ m.exts # <<>> => DataLen(m) <= 255 * Align(m.proto)
  /\ m.exts = <<>> => m.data.look = {}

(* What Marshal of a body writes, the parser of its type reads back: the   *)
(* same fixed fields, the same extensions with the same contents in the    *)
(* same order, and the datagram, untouched when there are no extensions    *)
(* and otherwise padded to the next multiple of the alignment that is at   *)
(* least 128, up to the largest length the attribute can hold.             *)
RoundTrip ==
  stage = "parsed" /\ origin = "ours" /\ Expressible(msg) =>
    /\ result.exts = msg.exts
    /\ result.head = msg.head
    /\ msg.type = "ExtendedEchoRequest" \/ msg.exts = <<>> => result.data = msg.data.len
    /\ msg.type # "ExtendedEchoRequest" /\ msg.exts # <<>> =>
         /\ result.data >= msg.data.len /\ result.data >= 128
         /\ result.data % Align(msg.proto) = 0
         /\ result.data < Max({128, msg.data.len}) + Align(msg.proto)

(* No message, cut short or from another implementation, and no length     *)
(* attribute makes parseExtensions index behind the end of what it was     *)
(* given.                                                                  *)
NoOverread == ~result.over

(* A message that lost its end gives no extension that was not in it       *)
(* whole: they are the first objects of the list that was sent, up to the  *)
(* one that was cut, read as they would have been, with the datagram as it *)
(* was; or, when the real header is gone or the length attribute too small *)
(* for it, the first of the objects the datagram itself shows behind a     *)
(* look-alike, with the datagram up to that.  Without extensions the       *)
(* datagram ends there or is the rest of the message.                      *)
CutInventsNothing ==
  stage = "parsed" /\ origin = "cut" =>
    LET n == Len(result.exts)
        Shows(at, objs) ==
          /\ n <= Len(objs) /\ \A k \in 1 .. n : <<result.exts[k]>> = ParseObject(objs[k])
          /\ at + 4 + Said(objs, n) <= wire.end
          /\ msg.type # "ExtendedEchoRequest" => result.data = at
    IN \/ n = 0 /\ (msg.type \in Multipart \ {"ExtendedEchoRequest"} => result.data = wire.end)
       \/ Shows(DataLen(msg), Objects(msg.exts, msg.proto))
       \/ \E x \in msg.data.look : Shows(x.at, x.objs)

(* An implementation that pads to 128 octets but leaves the length         *)
(* attribute or the checksum zero is understood all the same: its first    *)
(* object is read (extension.go:49).                                       *)
LegacyUnderstood ==
  (stage = "parsed" /\ origin = "foreign"
     /\ wire.type \in Multipart \ {"ExtendedEchoRequest"}
     /\ ~(wire.type = "ParamProb" /\ wire.proto = 58)
     /\ wire.dlen = 128 /\ wire.header /\ (wire.check = 0 \/ wire.check = checksum(wire.sum))
     /\ wire.objs # <<>>
     /\ \A k \in DOMAIN wire.objs : wire.objs[k].len >= 4 /\ ParseObject(wire.objs[k]) # <<>>)
  => result.data = 128 /\ Len(result.exts) = Len(wire.objs)
=============================================================================
