-------------------------- MODULE MCIcmpMultipart --------------------------
(* Instances of IcmpMultipart for TLC.                                     *)
EXTENDS IcmpMultipart

(* Around each boundary: the minimum of 128, a header that would fit       *)
(* behind it, both alignments, the largest length an attribute can say     *)
(* (1020 for ICMPv4, 2040 for ICMPv6), and one of which it says 132.       *)
MCDataLens == {0, 3, 21, 124, 127, 128, 129, 133, 136, 137, 150, 1016, 1017, 1020, 1021, 1024, 1156,
               2033, 2040, 2041, 2048}

(* Nothing, every field in use, fields that are too wide for their place.  *)
MCHeads == {NoHead, <<40, 7, 1>>, <<7, 0, 0>>, <<300, 255, 61>>, <<65535, 300, 0>>, <<65536, 1, 0>>}

Text(n) == [i \in 1 .. n |-> 97]
Addr(n) == [i \in 1 .. n |-> IF i = n THEN 1 ELSE 0]

Stack(labels) == [kind |-> "mpls", Labels |-> labels]
Entry(l, tc, s, ttl) == [Label |-> l, TC |-> tc, S |-> s, TTL |-> ttl]
Info(type, index, name, mtu, addr) ==
  [kind |-> "info", Type |-> type, Index |-> index, Name |-> Text(name), MTU |-> mtu,
   Addr |-> Addr(addr), Zone |-> IF addr = 16 THEN Text(name) ELSE <<>>]
Ident(type, name, index, afi, addr) ==
  [kind |-> "ident", Type |-> type, Name |-> Text(name), Index |-> index, AFI |-> afi,
   Addr |-> Addr(addr)]
Obj(class, type, octets) ==
  [class |-> class, Type |-> type, len |-> 4 + Len(octets), octets |-> octets]
RawOf(class, octets) == [kind |-> "raw", Data |-> <<Obj(class, 0, octets)>>]

(* No extensions; each kind with little and with all it can hold, and with *)
(* more; several, one whose name runs into the next, one that is a label   *)
(* stack under another name, an empty one, names with zeros in them.       *)
MCLists ==
  {<<>>, <<Stack(<<>>)>>, <<Stack(<<Entry(1048575, 7, 0, 255), Entry(16014, 4, 1, 1)>>)>>,
   <<Info(15, 15, 5, 8192, 4)>>, <<Info(47, 15, 63, 8192, 16)>>, <<Info(2, 15, 3, 0, 0)>>,
   <<[Info(10, 15, 0, 0, 0) EXCEPT !.Name = <<97, 0, 97>>]>>,
   <<[Info(10, 15, 0, 0, 0) EXCEPT !.Name = <<97, 0>>]>>,
   <<Info(10, 15, 76, 0, 0), Info(10, 1, 1, 0, 0)>>, <<Info(0, 0, 0, 0, 0)>>,
   <<Ident(1, 256, 0, 0, 0)>>, <<Ident(1, 5, 0, 0, 0), Ident(2, 0, 911, 0, 0)>>,
   <<Ident(3, 0, 0, 16389, 6)>>, <<Ident(3, 0, 0, 1, 256)>>, <<Ident(1, 5, 0, 0, 0), RawOf(9, <<>>)>>,
   <<RawOf(9, <<>>), RawOf(9, Text(8))>>, <<RawOf(1, Text(5))>>,
   <<Info(9, 3, 0, 1500, 0), Stack(<<Entry(2^20, 8, 0, 256)>>), RawOf(9, <<>>)>>,
   <<[kind |-> "raw", Data |-> <<>>]>>}

(* No objects; good ones, some with octets to spare; a name that says it   *)
(* is longer than it is, one of no octets, an address that is cut short,   *)
(* one of a family that is not known; an object shorter than its header.   *)
MCObjectLists ==
  {<<>>, <<Obj(1, 1, <<>>)>>, <<Obj(2, 10, <<0, 0, 0, 1, 4, 97, 97, 97>>), Obj(9, 0, Text(8))>>,
   <<Obj(1, 1, <<1, 2, 3, 4, 5>>), Obj(2, 2, <<8, 97, 97, 97>>)>>, <<Obj(2, 2, <<0, 97, 97, 97>>)>>,
   <<Obj(2, 4, <<0, 1, 0, 0, 10, 0>>)>>, <<Obj(2, 5, <<0, 3, 0, 0, 0, 0, 5, 220>>)>>,
   <<Obj(3, 3, <<0, 1, 9, 0, 10>>)>>, <<Obj(3, 2, <<0, 0>>)>>, <<Obj(2, 15, <<0, 0, 0, 1>>)>>,
   <<[class |-> 9, Type |-> 0, len |-> 3, octets |-> <<>>], Obj(1, 1, <<>>)>>}

(* Look-alikes of a header: none; at 128 with zeros behind it; with        *)
(* objects; with a checksum that does not fit the message of 150 octets,   *)
(* but one that lost some; at 132, with an object no parser takes.         *)
MCLooks ==
  LET LookAt(at, objs, bad) == [at |-> at, objs |-> objs, bad |-> bad]
  IN {{}, {LookAt(128, <<>>, {})}, {LookAt(128, <<Obj(1, 1, <<0, 0, 1, 1>>), Obj(9, 0, <<97>>)>>, {})},
      {LookAt(128, <<Obj(1, 1, <<>>)>>, {150})},
      {LookAt(128, <<Obj(9, 0, <<>>)>>, {}), LookAt(132, <<Obj(2, 2, <<0, 97, 97, 97>>)>>, {})}}

(* A small sum, and one whose carry carries again.                         *)
MCSums == {8449, 131071}

(* Losses within the last object, of whole objects, of the header.         *)
MCCuts == {1, 4, 8, 9, 16, 20, 60, 130}
=============================================================================
