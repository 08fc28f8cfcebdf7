----------------------------- MODULE MCSession -----------------------------
(* Instances of Session for TLC.                                           *)
EXTENDS Session, TLC

CONSTANTS c, s

(* The client has the server in -peers.                                    *)
OneWay == {<<c, s>>}

(* Bounds: how many handlers, at all processes, and how many session       *)
(* objects with goroutines of their own the search goes on from.           *)
AtMostTwoHandlers ==
  Cardinality({x \in Node \X Worker : handler[x[1]][x[2]].pc # "idle"}) <= 2

AtMostThreeRunning ==
  Cardinality({x \in Node \X SessionID :
                 \/ handshaker[x[1]][x[2]] \notin {"none", "done"}
                 \/ senders[x[1]][x[2]] > 0}) <= 3

Symmetry == Permutations(SessionID) \cup Permutations(Worker)
=============================================================================
