--------------------------- MODULE PingExchange ---------------------------
(***************************************************************************)
(* The exchange of pings of one session and the statistics drawn from it:  *)
(* each end sends a ping every second, with the ring of the pings it got;  *)
(* the network loses, repeats, delays and reorders them.  The statistics   *)
(* are those of one end, "us"; the peer's are the same with the ends       *)
(* exchanged, and what only they depend on (the ring in our pings, the     *)
(* peer's LastRX) is left out.  getStats may be asked at any moment: its   *)
(* results are state functions.                                            *)
(*                                                                         *)
(* Time is in seconds, by the corrected clocks of both ends, which agree.  *)
(* Pings leave by them; ids and the search for them go by each end's own   *)
(* uncorrected clock.  Where the offset of that is not in full seconds it  *)
(* turns to its next second in the midst of a corrected one, before or     *)
(* after the ping.  Offsets stay as they are: a behaviour is shorter than  *)
(* the half hour between calibrations.  A ring is the log AckLog says it   *)
(* is, and the stores of a handler are one step.                           *)
(***************************************************************************)
EXTENDS PingIds, Sequences, FiniteSetsExt

CONSTANTS
  Clocks,     \* the uncorrected clocks of both ends to try
  Start,      \* the first second
  MaxSecond,  \* bound on time
  MaxTransit, \* bound on the seconds a packet is on its way
  MaxFaults   \* bound on the packets lost, late or repeated

End == {"us", "peer"}

(* An uncorrected clock: how many seconds it is ahead when a corrected     *)
(* second begins, and whether it turns before that ends.                   *)
Clock == [ahead : Int, split : BOOLEAN]

ASSUME ClockAssumption == Clocks \subseteq [End -> Clock]
ASSUME BoundAssumption ==
  /\ {Start, MaxSecond, MaxTransit, MaxFaults} \subseteq Nat
  /\ Cycle <= Start /\ Start <= MaxSecond

VARIABLES
  now, clock,
  turned,      \* per end: its uncorrected clock turned in this second
  sent,        \* the ends that have sent the ping of this second
  net,         \* packets in flight
  faults,      \* packets lost, late or repeated so far
  LastAcks,    \* the ring of each end
  LastRX, LastRXPing,  \* fields of our session
  handled,     \* history: per end, the seconds whose pings it stored
  after,       \* history: per end, the seconds whose pings it sent after its clock turned
  overtaken,   \* history: per end, when it last got a ping not newer than all before
  quiet        \* history: full seconds since anything went wrong

sessionVars == <<LastAcks, LastRX, LastRXPing>>
clockVars == <<now, clock, turned>>
vars == <<clockVars, sent, net, faults, sessionVars, handled, after, overtaken, quiet>>

Other(e) == IF e = "us" THEN "peer" ELSE "us"
Second == Start .. MaxSecond
pingInfo == [ID : 1 .. Cycle, TX : Second, RX : Second]
pingStruct == [ID : 1 .. Cycle, TXTime : Second, LastAcks : Seq(pingInfo)]
NoPing == [ID |-> 0, TXTime |-> 0, LastAcks |-> <<>>]

TypeOK ==
  /\ now \in Second /\ clock \in Clocks
  /\ turned \in [End -> BOOLEAN] /\ \A e \in End : turned[e] => clock[e].split
  /\ sent \subseteq End
  /\ net \subseteq [to : End, ping : pingStruct]
  /\ faults \in 0 .. MaxFaults
  /\ LastAcks \in [End -> Seq(pingInfo)] /\ \A e \in End : Len(LastAcks[e]) <= Slots
  /\ LastRX \in Second \cup {0}
  /\ LastRXPing \in pingStruct \cup {NoPing}
  /\ handled \in [End -> SUBSET Second] /\ after \in [End -> SUBSET Second]
  /\ overtaken \in [End -> Second \cup {0}]
  /\ quiet \in Nat

Init ==
  /\ now = Start
  /\ clock \in Clocks
  /\ turned = [e \in End |-> FALSE]
  /\ sent = {} /\ net = {} /\ faults = 0
  /\ LastAcks = [e \in End |-> <<>>]
  /\ LastRX = 0 /\ LastRXPing = NoPing
  /\ handled = [e \in End |-> {}] /\ after = [e \in End |-> {}]
  /\ overtaken = [e \in End |-> 0]
  /\ quiet = 0

-----------------------------------------------------------------------------
One(b) == IF b THEN 1 ELSE 0

(* The second on an end's own clock, which its ids and searches go by.     *)
SystemSecond(e) == now + clock[e].ahead + One(turned[e])

(* It turns within a corrected second.                                     *)
TurnClock(e) ==
  /\ clock[e].split
  /\ ~turned[e]
  /\ turned' = [turned EXCEPT ![e] = TRUE]
  /\ UNCHANGED <<now, clock, sent, net, faults, sessionVars, handled, after, overtaken, quiet>>

(* One round of sendPackets: the ring goes along as it is now.             *)
SendPing(e) ==
  /\ e \notin sent
  /\ sent' = sent \cup {e}
  /\ net' = net \cup
       {[to |-> Other(e),
         ping |-> [ID |-> PingID(SystemSecond(e)), TXTime |-> now,
                   LastAcks |-> IF e = "peer" THEN LastAcks[e] ELSE <<>>]]}
  /\ after' = IF turned[e] THEN [after EXCEPT ![e] = @ \cup {now}] ELSE after
  /\ UNCHANGED <<clockVars, faults, sessionVars, handled, overtaken, quiet>>

(* The packet is delivered, and may be delivered again.                    *)
Deliver(p) ==
  \/ net' = net \ {p} /\ UNCHANGED faults
  \/ faults < MaxFaults /\ faults' = faults + 1 /\ UNCHANGED net

(* Mutant: one slot too many.                                              *)
StoredLong(acks, ping) ==
  LET s == Append(acks, [ID |-> ping.ID, TX |-> ping.TXTime, RX |-> now])
  IN SubSeq(s, Max({1, Len(s) - Slots}), Len(s))

(* The ring with a ping stored, in place of its oldest when it is full.    *)
Stored(acks, ping) ==
  LET s == Append(acks, [ID |-> ping.ID, TX |-> ping.TXTime, RX |-> now])
  IN SubSeq(s, Max({1, Len(s) - Slots + 1}), Len(s))

Publish(ping) ==
  /\ LastRX' = now
  /\ LastRXPing' = ping

(* handlePacket, at either end.                                            *)
handlePacket(p) ==
  /\ Deliver(p)
  /\ LastAcks' = [LastAcks EXCEPT ![p.to] = Stored(@, p.ping)]
  /\ IF p.to = "us" THEN Publish(p.ping) ELSE UNCHANGED <<LastRX, LastRXPing>>
  /\ handled' = [handled EXCEPT ![p.to] = @ \cup {p.ping.TXTime}]
  /\ overtaken' = IF \E t \in handled[p.to] : t >= p.ping.TXTime
                   THEN [overtaken EXCEPT ![p.to] = now] ELSE overtaken
  /\ UNCHANGED <<clockVars, sent, after, quiet>>

(* Each end handled one ping in this second, that of this second.          *)
GoodSecond ==
  \A e \in End :
    \E k \in DOMAIN LastAcks[e] :
      /\ LastAcks[e][k].TX = now
      /\ \A j \in DOMAIN LastAcks[e] \ {k} : LastAcks[e][j].RX < now

(* The next second.  Packets still in flight are late or lost.             *)
Tick ==
  /\ now < MaxSecond
  /\ sent = End /\ \A e \in End : clock[e].split => turned[e]
  /\ LET late == {p \in net : p.ping.TXTime = now}
     IN /\ faults + Cardinality(late) <= MaxFaults
        /\ faults' = faults + Cardinality(late)
  /\ now' = now + 1
  /\ turned' = [e \in End |-> FALSE]
  /\ sent' = {}
  /\ net' = {p \in net : now + 1 - p.ping.TXTime <= MaxTransit}
  /\ quiet' = IF GoodSecond THEN quiet + 1 ELSE 0
  /\ UNCHANGED <<clock, sessionVars, handled, after, overtaken>>

Next ==
  \/ Tick
  \/ \E e \in End : TurnClock(e) \/ SendPing(e)
  \/ \E p \in net : handlePacket(p)

Spec == Init /\ [][Next]_vars

-----------------------------------------------------------------------------
(* getLoss and getStats, at this moment.                                   *)

(* The second of the search.                                               *)
Tip == SystemSecond("us")

(* Mutants: a search that stops at the first id it misses; one that starts *)
(* with the ping of this second.                                           *)
MissingFirst(acks) ==
  Min({1, Cardinality({id \in Searched(Tip) : \A k \in DOMAIN acks : acks[k].ID # id})})
MissingTip(acks) ==
  Cardinality({id \in Searched(Tip) \cup {PingID(Tip)} : \A k \in DOMAIN acks : acks[k].ID # id})

(* The ids searched for that a ring does not have.                         *)
Missing(acks) ==
  Cardinality({id \in Searched(Tip) : \A k \in DOMAIN acks : acks[k].ID # id})

(* No losses are reported until our ring is full.                          *)
Reporting == Len(LastAcks["us"]) = Slots
RXLoss == IF Reporting THEN Missing(LastAcks["us"]) ELSE 0
TXLoss == IF Reporting THEN Missing(LastRXPing.LastAcks) ELSE 0

(* Mutant: the oldest ack.                                                 *)
OldestAcks == LET acks == {LastRXPing.LastAcks[k] : k \in DOMAIN LastRXPing.LastAcks}
              IN {a \in acks : \A b \in acks : b.TX >= a.TX}

(* The acks of the newest ping of ours in the peer's ring: the latency TX  *)
(* is RX - TX of one of them (a ping acked twice has two, and their slots  *)
(* decide).  The limit of 24 hours is beyond the bound on time.            *)
LatestAcks == LET acks == {LastRXPing.LastAcks[k] : k \in DOMAIN LastRXPing.LastAcks}
              IN {a \in acks : \A b \in acks : b.TX <= a.TX}

RXLatency == LastRX - LastRXPing.TXTime

-----------------------------------------------------------------------------
(* The second on its own clock in which an end sent the ping of second t.  *)
Stamp(e, t) == t + clock[e].ahead + One(t \in after[e])

(* The seconds, on our system clock, the losses are about, and those of    *)
(* them of which an end handled no ping: it was lost, or none was sent.    *)
Window == {Tip - k : k \in 1 .. Reach(Tip)}
LostRX == {t \in Window : \A s \in handled["us"] : Stamp("peer", s) # t}
LostTX == {t \in Window : \A s \in handled["peer"] : Stamp("us", s) # t}

(* Those of them whose pings are too new for the peer's last ring.         *)
TooNew ==
  {t \in Window : \E s \in handled["peer"] :
                    Stamp("us", s) = t /\ \A a \in LatestAcks : s > a.TX}

(* An ack is so old, or so far ahead, that its id is that of another       *)
(* second searched for.                                                    *)
Aliased(acks, sender) ==
  \E k \in DOMAIN acks : Stamp(sender, acks[k].TX) \notin Tip - Cycle .. Tip + Cycle - Slots

(* Since the oldest ping of a ring an end got none late and none twice.    *)
InOrder(e, acks) == \A k \in DOMAIN acks : overtaken[e] < acks[k].RX

(* How many seconds the clock of an end may be ahead of the search when it *)
(* sends.                                                                  *)
Lead(e) == clock[e].ahead + One(clock[e].split) - clock["us"].ahead - One(turned["us"])

(* Every second of the window of which no ping arrived is counted,         *)
(* whatever was reordered or repeated, however far apart the clocks are    *)
(* and however stale the peer's ring is, unless an ack is a cycle of ids   *)
(* away.                                                                   *)
LossNotHidden ==
  Reporting =>
    /\ ~Aliased(LastAcks["us"], "peer") => RXLoss >= Cardinality(LostRX)
    /\ ~Aliased(LastRXPing.LastAcks, "us") => TXLoss >= Cardinality(LostTX)

(* While packets keep their order a loss is reported only for seconds of   *)
(* which no ping arrived, for pings too new for the peer's last ring, and  *)
(* for one more for each second a clock is ahead of the search: newer ids  *)
(* take the slots of those searched for.  Our own clock is, by one, while  *)
(* it has not turned.                                                      *)
LossNotInvented ==
  /\ InOrder("us", LastAcks["us"]) =>
       RXLoss <= Cardinality(LostRX) + Max({0, Lead("peer")})
  /\ InOrder("peer", LastRXPing.LastAcks) =>
       TXLoss <= Cardinality(LostTX \cup TooNew) + Max({0, Lead("us")})

(* The latest pings an end sent after its clock had turned: each may leave *)
(* a second without ping.                                                  *)
SentAfter(e) == after[e] \cap (now - Slots + 1 .. now - 1)

(* A link without faults for as long as the ring is shows no losses but    *)
(* those the uncorrected clocks make: RX as many as the seconds between    *)
(* them at this moment; TX one while our clock has turned and one until    *)
(* the peer's ping of this second is in, since the ping searched for may   *)
(* be too new for the peer's last ring; and one for each ping sent after   *)
(* the turn of its end's clock.  Where the clocks are exact there is none  *)
(* but that of the peer's ping to come.                                    *)
QuietLinkShowsOnlySkew ==
  LET apart == clock["peer"].ahead - clock["us"].ahead - One(turned["us"])
  IN quiet >= Slots + 1 /\ (\A e \in End : overtaken[e] < now) =>
       /\ RXLoss <= Max({apart, -apart}) + Cardinality(SentAfter("peer"))
       /\ TXLoss <= now - LastRXPing.TXTime + One(turned["us"]) + Cardinality(SentAfter("us"))

(* One second without faults, after any number of lost, late and repeated  *)
(* packets, and the latencies are those of pings of the last two seconds,  *)
(* until a packet comes late again.                                        *)
LatencyRecovers ==
  quiet >= 1 /\ (\A e \in End : overtaken[e] < now) =>
    /\ LastRXPing.TXTime >= now - 1
    /\ RXLatency <= now - LastRXPing.TXTime
    /\ quiet >= 2 => LatestAcks # {} /\ \A a \in LatestAcks : a.TX >= LastRXPing.TXTime - 1
=============================================================================
