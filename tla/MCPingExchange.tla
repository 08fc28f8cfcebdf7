-------------------------- MODULE MCPingExchange --------------------------
(* Instances of PingExchange for TLC.                                      *)
EXTENDS PingExchange

Exact == [ahead |-> 0, split |-> FALSE]
Ahead1 == [ahead |-> 1, split |-> FALSE]
(* A fraction of a second behind.                                          *)
Behind == [ahead |-> -1, split |-> TRUE]

(* Clocks that agree, that are a second apart either way, and that are a   *)
(* fraction of a second behind, at either end or both.                     *)
NearClocks ==
  {[us |-> u, peer |-> p] : u, p \in {Exact, Behind}} \cup
  {[us |-> Exact, peer |-> Ahead1], [us |-> Ahead1, peer |-> Exact]}

(* Bound on faults and pings sent after the turn of a clock together, less *)
(* where there are more interleavings.                                     *)
FewOddities ==
  LET ofEnd(e) == Cardinality(after[e]) + One(clock[e].split)
  IN faults + ofEnd("us") + ofEnd("peer") <= 3
=============================================================================
