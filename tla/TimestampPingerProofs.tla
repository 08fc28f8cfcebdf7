----------------------- MODULE TimestampPingerProofs -----------------------
(***************************************************************************)
(* The timestamp pinger, for any number of hosts, any deadline, any delays *)
(* and any number of messages of other programs.                           *)
(***************************************************************************)
EXTENDS TimestampPinger, TLAPS

(* The socket is open only while a host is at work.                        *)
WaitsForHost == waiting => Running

Timed(m) == m.kind \in {"request", "reply"}

(* A message of the host at work has been on its way, there and back, for  *)
(* as long as the pinger has waited; the others are of hosts before.       *)
OnItsWay ==
  \A m \in net : Timed(m) =>
    /\ m.host <= host
    /\ m.host = host /\ ~crashed => waiting /\ dur = m.there + m.back

(* Within the day of the request the clock shows how long it has been on   *)
(* its way, and the reply has the time of its arrival.                     *)
ClockShows ==
  \A m \in net : Timed(m) =>
    /\ m.kind = "request" => m.back = 0
    /\ m.Originate + m.there < Day =>
         (IF m.kind = "request" THEN now ELSE m.Transmit) = m.Originate + m.there

PInv == TypeOK /\ WaitsForHost /\ OnItsWay /\ ClockShows /\ ExactWithinADay

(* Requests and replies are the messages with times.                       *)
LEMMA TimedMessages ==
  ASSUME TypeOK, NEW m \in net
  PROVE  /\ Timed(m) <=> m \in Message
         /\ ~Timed(m) <=> m \in Stray
BY DEF TypeOK, Message, Stray, Timed

(* At the start nothing is on its way.                                     *)
LEMMA InitPInv == Init => PInv
<1> SUFFICES ASSUME Init PROVE PInv
  OBVIOUS
<1>0. Nothing \in Report
  BY DEF Report
<1>1. TypeOK
  <2>1. waiting \in BOOLEAN /\ crashed \in BOOLEAN
    BY Zenon DEF Init
  <2> QED
    BY <1>0, <2>1, PingerAssumption DEF Init, TypeOK
<1>2. ExactWithinADay
  BY DEF Init, ExactWithinADay, Own, Nothing
<1> QED
  BY <1>1, <1>2 DEF Init, PInv, WaitsForHost, OnItsWay, ClockShows

(* A time of day fits its field.                                           *)
LEMMA FieldKeeps == \A t \in Clock : Field(t) = t
BY PingerAssumption DEF Field, Clock

(* The request carries the time of day and is the first of its host.       *)
LEMMA PingStep == ASSUME PInv, Ping PROVE PInv'
<1>0. now \in Clock /\ Field(now) = now
  BY FieldKeeps DEF PInv, TypeOK
<1>1. Request \in Message /\ host \in Host
  BY <1>0, PingerAssumption DEF PInv, TypeOK, Ping, Running, Request, Message, Host, Clock, Delay
<1>2. TypeOK'
  BY <1>1, PingerAssumption DEF PInv, TypeOK, Ping
<1>3. WaitsForHost'
  BY DEF Ping, Running, WaitsForHost
<1>4. ASSUME NEW m \in net', Timed(m)
      PROVE  /\ m.host <= host
             /\ m.host = host => 0 = m.there + m.back
  <2>1. CASE m \in net
    BY <1>4, <2>1 DEF PInv, OnItsWay, Ping, Running
  <2>2. CASE m = Request
    BY <1>1, <2>2, PingerAssumption DEF Request, Host
  <2> QED
    BY <2>1, <2>2 DEF Ping
<1>5. OnItsWay'
  BY <1>4 DEF OnItsWay, Ping
<1>6. ClockShows'
  <2>1. ASSUME NEW m \in net', Timed(m)
        PROVE  /\ m.kind = "request" => m.back = 0
               /\ m.Originate + m.there < Day =>
                    (IF m.kind = "request" THEN now ELSE m.Transmit) = m.Originate + m.there
    <3>1. CASE m \in net
      BY <2>1, <3>1 DEF PInv, ClockShows
    <3>2. CASE m = Request
      BY <1>0, <3>2, PingerAssumption DEF Request, Clock
    <3> QED
      BY <3>1, <3>2 DEF Ping
  <2> QED
    BY <2>1 DEF ClockShows, Ping
<1>7. ExactWithinADay'
  BY DEF PInv, ExactWithinADay, Own, Ping
<1> QED
  BY <1>2, <1>3, <1>5, <1>6, <1>7 DEF PInv

(* Once the pinger goes on to the next host, all that is on its way is of  *)
(* hosts before.                                                           *)
LEMMA BehindStays ==
  ASSUME PInv, host \in Host, host' = host + 1, net' \subseteq net
  PROVE  OnItsWay'
<1>1. ASSUME NEW m \in net', Timed(m) PROVE m.host <= host + 1 /\ m.host # host + 1
  <2>1. m.host \in Host /\ m.host <= host
    BY <1>1, TimedMessages DEF PInv, OnItsWay, Message
  <2> QED
    BY <2>1, PingerAssumption DEF Host
<1> QED
  BY <1>1 DEF OnItsWay

(* The pinger gives a host up, with an error: the socket cannot be used,   *)
(* the deadline has passed, a message of another type has come.            *)
LEMMA FailStep ==
  ASSUME PInv, PingFails \/ ReadTimeout \/ \E m \in net : ReadOther(m)
  PROVE  PInv'
<1>1. /\ Running /\ host \in Host /\ host' = host + 1
      /\ report' = [report EXCEPT ![host] = Failed] /\ net' \subseteq net
      /\ UNCHANGED <<now, dur, strays, crashed>> /\ waiting' = FALSE
  BY PingerAssumption DEF PInv, TypeOK, PingFails, ReadTimeout, ReadOther, Running, Host
<1>2. TypeOK'
  <2>1. report' \in [Host -> Report]
    BY <1>1 DEF PInv, TypeOK, Report
  <2>2. waiting' \in BOOLEAN /\ crashed' \in BOOLEAN
    BY <1>1, Zenon DEF PInv, TypeOK
  <2>3. host' \in 1 .. Hosts + 1
    BY <1>1, PingerAssumption DEF Host
  <2> QED
    BY <1>1, <2>1, <2>2, <2>3 DEF PInv, TypeOK
<1>3. WaitsForHost'
  BY <1>1 DEF WaitsForHost
<1>4. OnItsWay'
  BY <1>1, BehindStays
<1>5. ClockShows'
  BY <1>1 DEF PInv, ClockShows
<1>6. ExactWithinADay'
  BY <1>1 DEF PInv, TypeOK, ExactWithinADay, Own, Failed
<1> QED
  BY <1>2, <1>3, <1>4, <1>5, <1>6 DEF PInv

(* A reply is printed for the host at work.  If it is that host's own, the *)
(* wait was as long as the request and the reply took.                     *)
LEMMA ReadReplyStep == ASSUME PInv, NEW m \in net, ReadReply(m) PROVE PInv'
<1>1. /\ Running /\ host \in Host /\ host' = host + 1
      /\ net' \subseteq net
      /\ UNCHANGED <<now, dur, strays, crashed>> /\ waiting' = FALSE
  BY PingerAssumption DEF PInv, TypeOK, ReadReply, Running, Host
<1>2. m \in Message /\ Timed(m)
  BY TimedMessages DEF PInv, ReadReply, Timed
<1>3. /\ Forward(m) \in Int /\ dur \in Int
      /\ m.there \in Int /\ m.back \in Int /\ m.Originate \in Int
  BY <1>2, PingerAssumption DEF PInv, TypeOK, Message, Forward, Clock, Delay
<1> DEFINE r == [what |-> "times", of |-> m, forward |-> Forward(m), back |-> dur - Forward(m)]
<1>4. r \in Report
  BY <1>2, <1>3 DEF Report
<1>5. report' = [report EXCEPT ![host] = r]
  BY DEF ReadReply
<1>6. m.host = host /\ m.Originate + m.there < Day => r.forward = m.there /\ r.back = m.back
  <2> SUFFICES ASSUME m.host = host, m.Originate + m.there < Day
               PROVE  Forward(m) = m.there /\ dur - Forward(m) = m.back
    OBVIOUS
  <2>1. dur = m.there + m.back
    BY <1>1, <1>2 DEF PInv, OnItsWay, Running
  <2>2. m.Transmit = m.Originate + m.there
    BY <1>2 DEF PInv, ClockShows, ReadReply
  <2> QED
    BY <1>3, <2>1, <2>2 DEF Forward
<1>7. r.what = "times" /\ r.of = m
  OBVIOUS
<1> HIDE DEF r
<1>8. TypeOK'
  <2>1. report' \in [Host -> Report]
    BY <1>1, <1>4, <1>5 DEF PInv, TypeOK
  <2>2. waiting' \in BOOLEAN /\ crashed' \in BOOLEAN
    BY <1>1, Zenon DEF PInv, TypeOK
  <2>3. host' \in 1 .. Hosts + 1
    BY <1>1, PingerAssumption DEF Host
  <2> QED
    BY <1>1, <2>1, <2>2, <2>3 DEF PInv, TypeOK
<1>9. WaitsForHost'
  BY <1>1 DEF WaitsForHost
<1>10. OnItsWay'
  BY <1>1, BehindStays
<1>11. ClockShows'
  BY <1>1 DEF PInv, ClockShows
<1>12. ExactWithinADay'
  <2> SUFFICES ASSUME NEW h \in Host, Own(h)',
                      report'[h].of.Originate + report'[h].of.there < Day
               PROVE  /\ report'[h].forward = report'[h].of.there
                      /\ report'[h].back = report'[h].of.back
    BY DEF ExactWithinADay
  <2>1. CASE h = host
    <3>1. report'[h] = r
      BY <1>5, <2>1 DEF PInv, TypeOK
    <3> QED
      BY <1>6, <1>7, <2>1, <3>1 DEF Own
  <2>2. CASE h # host
    <3>1. report'[h] = report[h]
      BY <1>5, <2>2 DEF PInv, TypeOK
    <3> QED
      BY <3>1 DEF PInv, ExactWithinADay, Own
  <2> QED
    BY <2>1, <2>2
<1> QED
  BY <1>8, <1>9, <1>10, <1>11, <1>12 DEF PInv

(* An echo reply ends the program.                                         *)
LEMMA ReadEchoStep == ASSUME PInv, NEW m \in net, ReadEcho(m) PROVE PInv'
<1>1. TypeOK'
  BY DEF PInv, TypeOK, ReadEcho
<1>2. ExactWithinADay'
  BY DEF PInv, ExactWithinADay, Own, ReadEcho
<1> QED
  BY <1>1, <1>2 DEF PInv, WaitsForHost, OnItsWay, ClockShows, ReadEcho

(* A message is lost, or one of another program comes.                     *)
LEMMA StrayStep ==
  ASSUME PInv, (\E m \in net : Lose(m)) \/ (\E m \in Stray : StrayArrives(m))
  PROVE  PInv'
<1>1. /\ net' \subseteq net \cup Stray /\ strays' \in 0 .. MaxStray
      /\ UNCHANGED <<now, host, waiting, dur, report, crashed>>
  BY PingerAssumption DEF PInv, TypeOK, Lose, StrayArrives
<1>2. \A m \in net' : Timed(m) => m \in net
  BY <1>1 DEF Stray, Timed
<1>3. TypeOK'
  BY <1>1 DEF PInv, TypeOK
<1>4. ExactWithinADay'
  BY <1>1 DEF PInv, ExactWithinADay, Own
<1> QED
  BY <1>1, <1>2, <1>3, <1>4 DEF PInv, WaitsForHost, Running, OnItsWay, ClockShows

(* The reply is on its way as the request was, and has the time of day.    *)
LEMMA AnswerStep == ASSUME PInv, NEW m \in net, Answer(m) PROVE PInv'
<1> DEFINE a == [m EXCEPT !.kind = "reply", !.Transmit = now]
<1>1. m \in Message /\ Timed(m)
  BY TimedMessages DEF PInv, Answer, Timed
<1>2. a \in Message
  BY <1>1 DEF PInv, TypeOK, Message
<1>3. /\ a.kind = "reply" /\ a.host = m.host /\ a.there = m.there /\ a.back = m.back
      /\ a.Originate = m.Originate /\ a.Transmit = now
  BY <1>1 DEF Message
<1>4. /\ net' \subseteq net \cup {a}
      /\ UNCHANGED <<now, host, waiting, dur, strays, report, crashed>>
  BY DEF Answer
<1> HIDE DEF a
<1>5. TypeOK'
  BY <1>2, <1>4 DEF PInv, TypeOK
<1>6. OnItsWay'
  BY <1>1, <1>3, <1>4 DEF PInv, OnItsWay
<1>7. ClockShows'
  <2>1. m.kind = "request"
    BY DEF Answer
  <2> QED
    BY <1>1, <1>3, <1>4, <2>1 DEF PInv, ClockShows
<1>8. ExactWithinADay'
  BY <1>4 DEF PInv, ExactWithinADay, Own
<1> QED
  BY <1>4, <1>5, <1>6, <1>7, <1>8 DEF PInv, WaitsForHost, Running

(* A millisecond on the way is one of the wait and one on the clock.       *)
LEMMA TickStep == ASSUME PInv, Tick PROVE PInv'
<1>1. /\ now \in Clock /\ dur \in 0 .. Timeout /\ Day \in Nat /\ Day > 0
      /\ waiting => dur < Timeout
  BY PingerAssumption DEF PInv, TypeOK, WaitsForHost, Tick, Expired
<1>2. /\ now' \in Clock
      /\ now + 1 < Day => now' = now + 1
  BY <1>1 DEF Tick, Clock
<1>3. /\ dur' \in 0 .. Timeout
      /\ waiting => dur' = dur + 1
  BY <1>1, PingerAssumption DEF Tick
<1>4. \A k \in net' : \E m \in net : Lasts(m) /\ k = Aged(m)
  BY DEF Tick
<1>5. ASSUME NEW m \in net, Lasts(m), Timed(m)
      PROVE  /\ m \in Message /\ Aged(m) \in Message
             /\ Aged(m).kind = m.kind /\ Aged(m).host = m.host
             /\ Aged(m).Originate = m.Originate /\ Aged(m).Transmit = m.Transmit
             /\ m.kind = "request" => Aged(m).there = m.there + 1 /\ Aged(m).back = m.back
             /\ m.kind = "reply" => Aged(m).there = m.there /\ Aged(m).back = m.back + 1
  <2>1. m \in Message
    BY <1>5, TimedMessages DEF PInv
  <2>2. CASE m.kind = "request"
    BY <1>5, <2>1, <2>2, PingerAssumption DEF Lasts, Aged, Message, Delay
  <2>3. CASE m.kind = "reply"
    BY <1>5, <2>1, <2>3, PingerAssumption DEF Lasts, Aged, Message, Delay
  <2> QED
    BY <1>5, <2>1, <2>2, <2>3 DEF Timed
<1>6. ASSUME NEW m \in net, ~Timed(m) PROVE Aged(m) = m
  BY <1>6 DEF Timed, Aged
<1>7. ASSUME NEW k \in net', Timed(k)
      PROVE  \E m \in net : Lasts(m) /\ Timed(m) /\ k = Aged(m)
  <2>1. PICK m \in net : Lasts(m) /\ k = Aged(m)
    BY <1>4
  <2> QED
    BY <1>6, <1>7, <2>1
<1>8. TypeOK'
  <2>1. net' \subseteq Message \cup Stray
    <3> SUFFICES ASSUME NEW m \in net, Lasts(m) PROVE Aged(m) \in Message \cup Stray
      BY <1>4
    <3> QED
      BY <1>5, <1>6 DEF PInv, TypeOK
  <2> QED
    BY <1>2, <1>3, <2>1 DEF PInv, TypeOK, Tick
<1>9. OnItsWay'
  <2> SUFFICES ASSUME NEW k \in net', Timed(k)
               PROVE  /\ k.host <= host
                      /\ k.host = host /\ ~crashed => waiting /\ dur' = k.there + k.back
    BY DEF OnItsWay, Tick
  <2>1. PICK m \in net : Lasts(m) /\ Timed(m) /\ k = Aged(m)
    BY <1>7
  <2>2. /\ m.host <= host /\ m.there \in Int /\ m.back \in Int
        /\ m.host = host /\ ~crashed => waiting /\ dur = m.there + m.back
    BY <1>5, <2>1, PingerAssumption DEF PInv, OnItsWay, Message, Delay
  <2>3. k.host = m.host /\ k.there + k.back = m.there + m.back + 1
    BY <1>5, <2>1, <2>2 DEF Timed
  <2> QED
    BY <1>1, <1>3, <2>2, <2>3
<1>10. ClockShows'
  <2> SUFFICES ASSUME NEW k \in net', Timed(k)
               PROVE  /\ k.kind = "request" => k.back = 0
                      /\ k.Originate + k.there < Day =>
                           (IF k.kind = "request" THEN now' ELSE k.Transmit) = k.Originate + k.there
    BY DEF ClockShows
  <2>1. PICK m \in net : Lasts(m) /\ Timed(m) /\ k = Aged(m)
    BY <1>7
  <2>2. /\ m.kind = "request" => m.back = 0
        /\ m.Originate + m.there < Day =>
             (IF m.kind = "request" THEN now ELSE m.Transmit) = m.Originate + m.there
    BY <2>1 DEF PInv, ClockShows
  <2>3. m.there \in Int /\ m.Originate \in Int /\ now \in Int
    BY <1>1, <1>5, <2>1, PingerAssumption DEF Message, Delay, Clock
  <2>4. CASE m.kind = "request"
    BY <1>1, <1>2, <1>5, <2>1, <2>2, <2>3, <2>4
  <2>5. CASE m.kind = "reply"
    BY <1>5, <2>1, <2>2, <2>5
  <2> QED
    BY <2>1, <2>4, <2>5 DEF Timed
<1>11. ExactWithinADay'
  BY DEF PInv, ExactWithinADay, Own, Tick
<1> QED
  BY <1>8, <1>9, <1>10, <1>11 DEF PInv, WaitsForHost, Running, Tick

(* Every step keeps the times right.                                       *)
LEMMA NextPInv == PInv /\ [Next]_vars => PInv'
<1> SUFFICES ASSUME PInv, [Next]_vars PROVE PInv'
  OBVIOUS
<1>1. CASE Pinger
  BY <1>1, PingStep, FailStep, ReadReplyStep, ReadEchoStep DEF Pinger
<1>2. CASE Network
  BY <1>2, AnswerStep, StrayStep DEF Network
<1>3. CASE UNCHANGED vars
  <2>1. TypeOK'
    BY <1>3 DEF PInv, TypeOK, vars
  <2>2. ExactWithinADay'
    BY <1>3 DEF PInv, ExactWithinADay, Own, vars
  <2> QED
    BY <1>3, <2>1, <2>2 DEF PInv, WaitsForHost, Running, OnItsWay, ClockShows, vars
<1> QED
  BY <1>1, <1>2, <1>3, TickStep DEF Next, Ended

(* In every reachable state the messages on their way tell the wait and    *)
(* the clock, for every number of hosts, deadline and delay.               *)
THEOREM PingerInvariant == Spec => []PInv
<1> QED
  BY InitPInv, NextPInv, PTL DEF Spec

(* Every variable keeps its type: no message outlives its delay and no     *)
(* wait its deadline.                                                      *)
THEOREM TypeCorrect == Spec => []TypeOK
<1>1. PInv => TypeOK
  BY DEF PInv
<1> QED
  BY <1>1, PingerInvariant, PTL

(* What main prints from a host's own reply are the times the request and  *)
(* the reply took, unless midnight passed on the way there.                *)
THEOREM Exact == Spec => []ExactWithinADay
<1>1. PInv => ExactWithinADay
  BY DEF PInv
<1> QED
  BY <1>1, PingerInvariant, PTL
=============================================================================
