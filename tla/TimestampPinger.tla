-------------------------- MODULE TimestampPinger --------------------------
(***************************************************************************)
(* icmp-timestap-pinger: for each host in turn, open a raw socket, send an *)
(* ICMP timestamp request, take the first ICMP message that comes in       *)
(* within ten seconds and print what it says about the way there and back. *)
(* All clocks agree.                                                       *)
(***************************************************************************)
EXTENDS Integers, FiniteSets

CONSTANTS
  Hosts,     \* the number of hosts on the command line
  Day,       \* 86400000: the milliseconds of a day
  Word,      \* 2^32: the values of a timestamp in a message
  Timeout,   \* ten seconds: the read deadline
  MaxDelay,  \* how long a message may be on its way
  MaxStray   \* bound: ICMP messages of other programs

ASSUME PingerAssumption ==
  /\ Hosts \in Nat \ {0} /\ Day \in Nat \ {0} /\ Timeout \in Nat \ {0}
  /\ MaxDelay \in Nat /\ MaxStray \in Nat
  /\ Word \in Nat /\ Day <= Word

VARIABLES
  now,      \* the time of day
  host,     \* the host at work, or Hosts + 1
  waiting,  \* is a socket open, in ReadFrom
  dur,      \* the time since the request was sent
  net,      \* ICMP messages on their way
  strays,   \* messages of other programs so far
  report,   \* what was printed for each host
  crashed   \* the process has panicked

vars == <<now, host, waiting, dur, net, strays, report, crashed>>

Host == 1 .. Hosts
Clock == 0 .. Day - 1
Delay == 0 .. MaxDelay

(* A request, a reply, or another ICMP message: an echo reply to a ping    *)
(* run on the same machine, a message of another type, a timestamp reply   *)
(* cut short.  there and back are history: how long the request and the    *)
(* reply took.                                                             *)
Message == [kind : {"request", "reply"}, host : Host, Originate : Clock, Transmit : Clock,
            there : Delay, back : Delay]
Stray == [kind : {"echo", "other", "short"}]

Nothing == [what |-> "nothing"]
Failed == [what |-> "error"]
Report == {Nothing, Failed} \cup
          [what : {"times"}, of : Message, forward : Int, back : Int]

TypeOK ==
  /\ now \in Clock
  /\ host \in 1 .. Hosts + 1
  /\ waiting \in BOOLEAN
  /\ dur \in 0 .. Timeout
  /\ net \subseteq Message \cup Stray
  /\ strays \in 0 .. MaxStray
  /\ report \in [Host -> Report]
  /\ crashed \in BOOLEAN

Init ==
  /\ now \in Clock
  /\ host = 1
  /\ waiting = FALSE
  /\ dur = 0
  /\ net = {}
  /\ strays = 0
  /\ report = [h \in Host |-> Nothing]
  /\ crashed = FALSE

Running == ~crashed /\ host <= Hosts

(* A time in its field: what Marshal keeps of it.                          *)
Field(t) == t % Word

(* Mutant: the time since the epoch is sent.                               *)
RequestSinceEpoch ==
  [kind |-> "request", host |-> host, Originate |-> Field(now + Day), Transmit |-> 0,
   there |-> 0, back |-> 0]

(* The request: Originate is the time since midnight, the other two        *)
(* timestamps are zero.                                                    *)
Request ==
  [kind |-> "request", host |-> host, Originate |-> Field(now), Transmit |-> 0,
   there |-> 0, back |-> 0]

(* Ping, up to WriteTo.                                                    *)
Ping ==
  /\ Running /\ ~waiting
  /\ dur' = 0
  /\ net' = net \cup {Request}
  /\ waiting' = TRUE
  /\ UNCHANGED <<now, host, strays, report, crashed>>

(* The socket cannot be opened, the name not resolved, the request not     *)
(* sent.                                                                   *)
PingFails ==
  /\ Running /\ ~waiting
  /\ report' = [report EXCEPT ![host] = Failed]
  /\ host' = host + 1
  /\ UNCHANGED <<now, waiting, dur, net, strays, crashed>>

(* A host answers with the time of day it has.                             *)
Answer(m) ==
  /\ m \in net /\ m.kind = "request"
  /\ net' = (net \ {m}) \cup {[m EXCEPT !.kind = "reply", !.Transmit = now]}
  /\ UNCHANGED <<now, host, waiting, dur, strays, report, crashed>>

(* Mutant: the time there is taken to be up to now.                        *)
ForwardToNow(m) == now - m.Originate

(* ts.Transmit - ts.Originate.                                             *)
Forward(m) == m.Transmit - m.Originate

(* The reply is taken whoever sent it, and its times are printed.          *)
ReadReply(m) ==
  /\ Running /\ waiting
  /\ m \in net /\ m.kind = "reply"
  /\ net' = net \ {m}
  /\ report' = [report EXCEPT ![host] =
       [what |-> "times", of |-> m, forward |-> Forward(m), back |-> dur - Forward(m)]]
  /\ host' = host + 1
  /\ waiting' = FALSE
  /\ UNCHANGED <<now, dur, strays, crashed>>

(* parseTimestamp refuses a body that ends before its fields do.           *)
TooShort(m) == m.kind = "short"

(* Neither of the replies expected, or one that is no message: an error.   *)
ReadOther(m) ==
  /\ Running /\ waiting
  /\ m \in net /\ (m.kind = "other" \/ TooShort(m))
  /\ net' = net \ {m}
  /\ report' = [report EXCEPT ![host] = Failed]
  /\ host' = host + 1
  /\ waiting' = FALSE
  /\ UNCHANGED <<now, dur, strays, crashed>>

(* An echo reply comes back without timestamps and without an error, and   *)
(* main takes the fields of a nil *icmp.Timestamp.                         *)
ReadEcho(m) ==
  /\ Running /\ waiting
  /\ m \in net /\ m.kind = "echo"
  /\ net' = net \ {m}
  /\ crashed' = TRUE
  /\ waiting' = FALSE
  /\ UNCHANGED <<now, host, dur, strays, report>>

(* Mutant: the deadline has passed without ReadFrom giving up.             *)
ExpiredNever == FALSE

Expired == dur >= Timeout

(* ReadFrom fails at its deadline.                                         *)
ReadTimeout ==
  /\ Running /\ waiting
  /\ Expired
  /\ report' = [report EXCEPT ![host] = Failed]
  /\ host' = host + 1
  /\ waiting' = FALSE
  /\ UNCHANGED <<now, dur, net, strays, crashed>>

(* A message is lost, or reaches a machine on which no socket is open.     *)
Lose(m) ==
  /\ m \in net
  /\ net' = net \ {m}
  /\ UNCHANGED <<now, host, waiting, dur, strays, report, crashed>>

StrayArrives(m) ==
  /\ strays < MaxStray
  /\ m \notin net
  /\ net' = net \cup {m}
  /\ strays' = strays + 1
  /\ UNCHANGED <<now, host, waiting, dur, report, crashed>>

(* One millisecond more on the way, for one that can still be.             *)
Aged(m) == CASE m.kind = "request" -> [m EXCEPT !.there = @ + 1]
             [] m.kind = "reply" -> [m EXCEPT !.back = @ + 1]
             [] OTHER -> m
Lasts(m) == CASE m.kind = "request" -> m.there < MaxDelay
              [] m.kind = "reply" -> m.back < MaxDelay
              [] OTHER -> TRUE

(* Time passes, though not while a read is overdue.                        *)
Tick ==
  /\ ~(Running /\ waiting /\ Expired)
  /\ now' = (now + 1) % Day
  /\ dur' = IF waiting /\ dur < Timeout THEN dur + 1 ELSE dur
  /\ net' = {Aged(m) : m \in {k \in net : Lasts(k)}}
  /\ UNCHANGED <<host, waiting, strays, report, crashed>>

(* The program has ended.                                                  *)
Ended ==
  /\ ~Running
  /\ UNCHANGED vars

Pinger ==
  \/ Ping \/ PingFails \/ ReadTimeout
  \/ \E m \in net : ReadReply(m) \/ ReadOther(m) \/ ReadEcho(m)

Network ==
  \/ \E m \in net : Answer(m) \/ Lose(m)
  \/ \E m \in Stray : StrayArrives(m)

Next == Pinger \/ Network \/ Tick \/ Ended

(* The program runs, and so does the clock.                                *)
Spec == Init /\ [][Next]_vars /\ WF_vars(Pinger) /\ WF_vars(Tick)

-----------------------------------------------------------------------------
(* Every host on the command line gets its line, times or an error,        *)
(* whatever is lost: the deadline ends the wait (unless the program has    *)
(* panicked).                                                              *)
EveryHostReported == <>(crashed \/ \A h \in Host : report[h] # Nothing)

Own(h) == report[h].what = "times" /\ report[h].of.host = h

(* The times printed from a host's own reply are the times the request and *)
(* the reply took, if midnight did not pass in between.                    *)
ExactWithinADay ==
  \A h \in Host : Own(h) /\ report[h].of.Originate + report[h].of.there < Day =>
    report[h].forward = report[h].of.there /\ report[h].back = report[h].of.back
=============================================================================
