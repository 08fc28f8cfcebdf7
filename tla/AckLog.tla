------------------------------- MODULE AckLog -------------------------------
(***************************************************************************)
(* What struct session's ring of acknowledgements promises: the last Slots *)
(* pings received, oldest first, each recorded by one step.  Each ping     *)
(* that is sent carries it.  While goroutines race for the ring it may be  *)
(* anything; what is recorded after the race is exact again.               *)
(***************************************************************************)
EXTENDS Naturals, Sequences

CONSTANTS Slots, Info, NoInfo, Torn

VARIABLES log, racing

Init == log = << >> /\ racing = FALSE

Latest(s) == IF Len(s) <= Slots THEN s ELSE Tail(s)

Record(p) == ~racing /\ ~racing' /\ log' = Latest(Append(log, p))

Race == racing /\ log' \in Seq(Info \cup {NoInfo, Torn}) /\ Len(log') <= Slots

(* A race begins or ends, which by itself changes nothing.                 *)
Toggle == racing' # racing /\ log' = log

Next == Toggle \/ Race \/ \E p \in Info : Record(p)

Spec == Init /\ [][Next]_<<log, racing>>
=============================================================================
