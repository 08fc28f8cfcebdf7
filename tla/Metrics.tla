------------------------------ MODULE Metrics ------------------------------
(***************************************************************************)
(* The Prometheus collector over the session table of one process.         *)
(* measure holds sessionLock while it walks the table, and so does all     *)
(* that changes the table; the handlers of packets take no lock and change *)
(* the sessions under it.  A ping is the number it came in with: a         *)
(* latency is described by the pings whose arrival, time of sending and    *)
(* ring it was computed from, and 0 stands for the zero value.             *)
(***************************************************************************)
EXTENDS Naturals, FiniteSets

CONSTANTS
  Session,   \* session ids
  Host,      \* addresses of peers
  Nil,       \* no address; as a label, "<nil>"
  Unset,     \* a gauge never set, and a cell not in use
  MaxPings,  \* bound on the pings that come in
  MaxHandlers \* bound on the pings of a session in hand at a time

ASSUME BoundAssumption == MaxPings \in Nat /\ MaxHandlers \in Nat
ASSUME NilAssumption == Nil \notin Host

VARIABLES
  lock,         \* sessionLock: "free", or who has it
  listed,       \* the ids in sessionMap
  PeerAddress, UDPActivated, LastRX, LastRXPing,  \* per session
  ringFull,     \* per session: no cell of LastAcks has the id 0
  peerSends,    \* per session: the other end may have started its sender
  handlers,     \* per session: its handlePacket goroutines
  pings,        \* the pings that came in, all sessions
  scrape,       \* "idle", "waiting", "measuring"
  todo, current,  \* the walk: sessions to come, and the one in hand
  promLatency, promLoss,  \* gauges by host, both directions in one
  met,          \* history: a handler ran under this scrape
  clean         \* history: the last ping was handled while no other was

peerVars == <<PeerAddress, UDPActivated, peerSends>>
pingVars == <<LastRX, LastRXPing, ringFull, handlers, pings, clean>>
scrapeVars == <<scrape, todo, current, promLatency, promLoss>>
vars == <<lock, listed, peerVars, pingVars, scrapeVars, met>>

Label == Host \cup {Nil}
Ping == 0 .. MaxPings

(* What of LastRXPing is told apart: the time of sending and the ring.     *)
PingStruct == [of : Ping, ring : Ping]

(* A handlePacket goroutine: its ping, its place, whether it was the only  *)
(* one of its session all along, and whether another one stored its ping   *)
(* while this one was about to.                                            *)
Handler == [ping : Ping, pc : {"acked", "between"}, alone : BOOLEAN, crossed : BOOLEAN]

(* at: the ping LastRX is of; of: the one the time of sending is of; ring: *)
(* the one whose ring gave the latency TX.                                 *)
Latency == [ses : Session, at : Ping, of : Ping, ring : Ping]

ASSUME UnsetAssumption == Unset \notin Session \cup Latency \cup [ses : Session, at : Ping]

TypeOK ==
  /\ lock \in {"free", "measure", "ticker"}
  /\ listed \subseteq Session
  /\ PeerAddress \in [Session -> Label]
  /\ UDPActivated \in [Session -> BOOLEAN] /\ peerSends \in [Session -> BOOLEAN]
  /\ LastRX \in [Session -> Ping] /\ LastRXPing \in [Session -> PingStruct]
  /\ ringFull \in [Session -> BOOLEAN]
  /\ handlers \in [Session -> SUBSET Handler]
  /\ pings \in Ping
  /\ scrape \in {"idle", "waiting", "measuring"}
  /\ todo \subseteq listed
  /\ current \in [ses : Session, at : Ping] \cup {Unset}
  /\ promLatency \in [Label -> Latency \cup {Unset}]
  /\ promLoss \in [Label -> Session \cup {Unset}]
  /\ met \in BOOLEAN /\ clean \in [Session -> BOOLEAN]

Init ==
  /\ lock = "free"
  /\ listed = {}
  /\ PeerAddress = [s \in Session |-> Nil]
  /\ UDPActivated = [s \in Session |-> FALSE]
  /\ peerSends = [s \in Session |-> FALSE]
  /\ LastRX = [s \in Session |-> 0]
  /\ LastRXPing = [s \in Session |-> [of |-> 0, ring |-> 0]]
  /\ ringFull = [s \in Session |-> FALSE]
  /\ handlers = [s \in Session |-> {}]
  /\ pings = 0
  /\ scrape = "idle"
  /\ todo = {} /\ current = Unset
  /\ promLatency = [h \in Label |-> Unset] /\ promLoss = [h \in Label |-> Unset]
  /\ met = FALSE /\ clean = [s \in Session |-> TRUE]

-----------------------------------------------------------------------------
(* Users of the lock that have it for one step.                            *)

(* Mutant: a session is stored without the lock.                           *)
StoreSessionUnlocked(s, address) ==
  /\ s \notin listed
  /\ listed' = listed \cup {s}
  /\ PeerAddress' = [PeerAddress EXCEPT ![s] = address]
  /\ peerSends' = [peerSends EXCEPT ![s] = address # Nil]
  /\ UNCHANGED <<lock, UDPActivated, pingVars, scrapeVars, met>>

(* startSession stores a session with the peer's address, and its peer has *)
(* the session already; handleTCPconnection stores one without.            *)
StoreSession(s, address) ==
  /\ lock = "free"
  /\ s \notin listed
  /\ listed' = listed \cup {s}
  /\ PeerAddress' = [PeerAddress EXCEPT ![s] = address]
  /\ peerSends' = [peerSends EXCEPT ![s] = address # Nil]
  /\ UNCHANGED <<lock, UDPActivated, pingVars, scrapeVars, met>>

(* An object that left the table is read by no scrape: what handlers still *)
(* do to it is left out, and its id may be drawn again.                    *)
Forget(s) ==
  /\ listed' = listed \ {s}
  /\ PeerAddress' = [PeerAddress EXCEPT ![s] = Nil]
  /\ UDPActivated' = [UDPActivated EXCEPT ![s] = FALSE]
  /\ peerSends' = [peerSends EXCEPT ![s] = FALSE]
  /\ LastRX' = [LastRX EXCEPT ![s] = 0]
  /\ LastRXPing' = [LastRXPing EXCEPT ![s] = [of |-> 0, ring |-> 0]]
  /\ ringFull' = [ringFull EXCEPT ![s] = FALSE]
  /\ handlers' = [handlers EXCEPT ![s] = {}]
  /\ clean' = [clean EXCEPT ![s] = TRUE]

(* Mutant: the collector takes no lock.                                    *)
sessionGCUnlocked(s) ==
  /\ s \in listed
  /\ Forget(s)
  /\ UNCHANGED <<lock, pings, scrapeVars, met>>

(* Whichever has been silent for a minute.                                 *)
sessionGC(s) ==
  /\ lock = "free"
  /\ s \in listed
  /\ Forget(s)
  /\ UNCHANGED <<lock, pings, scrapeVars, met>>

(* sysClockTicker and ppsClockTicker copy the table under the lock.  The   *)
(* copy is of no consequence: nobody makes the pulse channels, so that     *)
(* each send to a session of the list takes its default.                   *)
ClockTicker ==
  /\ lock = "free"
  /\ lock' = "ticker"
  /\ UNCHANGED <<listed, peerVars, pingVars, scrapeVars, met>>

TickerUnlock ==
  /\ lock = "ticker"
  /\ lock' = "free"
  /\ UNCHANGED <<listed, peerVars, pingVars, scrapeVars, met>>

-----------------------------------------------------------------------------
(* Handlers of packets, without the lock.                                  *)

Meets == met' = (scrape = "measuring")

(* handleInboundHandshake, store by store: the flag first.  All handlers   *)
(* of a session's handshakes store the same, whichever comes first.        *)
Activate(s) ==
  /\ s \in listed
  /\ ~UDPActivated[s]
  /\ UDPActivated' = [UDPActivated EXCEPT ![s] = TRUE]
  /\ Meets
  /\ UNCHANGED <<lock, listed, PeerAddress, peerSends, pingVars, scrapeVars>>

Adopt(s, address) ==
  /\ UDPActivated[s]
  /\ PeerAddress[s] = Nil
  /\ PeerAddress' = [PeerAddress EXCEPT ![s] = address]
  /\ Meets
  /\ UNCHANGED <<lock, listed, UDPActivated, peerSends, pingVars, scrapeVars>>

(* Mutant: the handshake is echoed before the address is stored.           *)
EchoFirst(s) ==
  /\ UDPActivated[s]
  /\ ~peerSends[s]
  /\ peerSends' = [peerSends EXCEPT ![s] = TRUE]
  /\ Meets
  /\ UNCHANGED <<lock, listed, PeerAddress, UDPActivated, pingVars, scrapeVars>>

(* The echo, which a session stored without address owes its peer: until   *)
(* it gets it, the peer has no confirmed session and sends no ping.        *)
Echo(s) ==
  /\ UDPActivated[s]
  /\ PeerAddress[s] # Nil
  /\ ~peerSends[s]
  /\ peerSends' = [peerSends EXCEPT ![s] = TRUE]
  /\ Meets
  /\ UNCHANGED <<lock, listed, PeerAddress, UDPActivated, pingVars, scrapeVars>>

Welcome(s) == s \in listed /\ UDPActivated[s]

(* A ping comes in: handlePacket, in a goroutine of its own, finds the     *)
(* session, keeps it, whatever becomes of the table, and writes the ring.  *)
(* The ring gets full with the last of its cells, which may take more      *)
(* pings than it has cells (see AckRing): here it does at any ping.        *)
Route(s) ==
  /\ peerSends[s]
  /\ Welcome(s)
  /\ pings < MaxPings
  /\ Cardinality(handlers[s]) < MaxHandlers
  /\ pings' = pings + 1
  /\ handlers' = [handlers EXCEPT ![s] =
                    {[h EXCEPT !.alone = FALSE] : h \in @} \cup
                    {[ping |-> pings + 1, pc |-> "acked", alone |-> @ = {},
                      crossed |-> FALSE]}]
  /\ ringFull' \in {ringFull, [ringFull EXCEPT ![s] = TRUE]}
  /\ Meets
  /\ UNCHANGED <<lock, listed, peerVars, LastRX, LastRXPing, clean, scrapeVars>>

StoreRX(s, h) ==
  /\ h \in handlers[s]
  /\ h.pc = "acked"
  /\ handlers' = [handlers EXCEPT ![s] = (@ \ {h}) \cup {[h EXCEPT !.pc = "between"]}]
  /\ LastRX' = [LastRX EXCEPT ![s] = h.ping]
  /\ Meets
  /\ UNCHANGED <<lock, listed, peerVars, LastRXPing, ringFull, pings, clean, scrapeVars>>

(* LastRXPing, many words.  Of two handlers that store it at a time the    *)
(* later one may leave some words of the earlier one's.                    *)
StorePing(s, h, of, ring) ==
  /\ h \in handlers[s]
  /\ h.pc = "between"
  /\ of \in {h.ping} \cup (IF h.crossed THEN {LastRXPing[s].of} ELSE {})
  /\ ring \in {h.ping} \cup (IF h.crossed THEN {LastRXPing[s].ring} ELSE {})
  /\ LastRXPing' = [LastRXPing EXCEPT ![s] = [of |-> of, ring |-> ring]]
  /\ handlers' = [handlers EXCEPT ![s] =
                    {[g EXCEPT !.crossed = @ \/ g.pc = "between"] : g \in @ \ {h}}]
  /\ clean' = [clean EXCEPT ![s] = h.alone]
  /\ Meets
  /\ UNCHANGED <<lock, listed, peerVars, LastRX, ringFull, pings, scrapeVars>>

-----------------------------------------------------------------------------
(* Collect and measure.                                                    *)

Request ==
  /\ scrape = "idle"
  /\ scrape' = "waiting"
  /\ UNCHANGED <<lock, listed, peerVars, pingVars, todo, current, promLatency, promLoss, met>>

(* The pings whose handlers have stored LastRX and not yet LastRXPing.     *)
Between(s) == {h.ping : h \in {g \in handlers[s] : g.pc = "between"}}

Lock ==
  /\ scrape = "waiting"
  /\ lock = "free"
  /\ lock' = "measure"
  /\ scrape' = "measuring"
  /\ todo' = listed
  /\ met' = (\E s \in listed : Between(s) # {})
  /\ UNCHANGED <<listed, peerVars, pingVars, current, promLatency, promLoss>>

(* The next session of the walk, in the order of a map: getStats is called *)
(* with its LastRX.                                                        *)
ReadRX(s) ==
  /\ scrape = "measuring"
  /\ current = Unset
  /\ s \in todo
  /\ todo' = todo \ {s}
  /\ current' = [ses |-> s, at |-> LastRX[s]]
  /\ UNCHANGED <<lock, listed, peerVars, pingVars, scrape, promLatency, promLoss, met>>

(* Mutant: measure waits for the handlers.                                 *)
VisibleWaits(s, stored) == IF Between(s) # {} THEN {} ELSE {stored}

(* What a copy of LastRXPing may have in a field, stored as it is, while   *)
(* handlers write it.                                                      *)
Visible(s, stored) == {stored} \cup Between(s)

(* LastRXPing, the losses, and the label: v.PeerAddress is read last.      *)
SetGauges(of, ring) ==
  /\ current # Unset
  /\ LET s == current.ses
         h == PeerAddress[s]
     IN /\ of \in Visible(s, LastRXPing[s].of)
        /\ ring \in Visible(s, LastRXPing[s].ring)
        /\ promLatency' = [promLatency EXCEPT ![h] =
                             [ses |-> s, at |-> current.at, of |-> of, ring |-> ring]]
        /\ promLoss' = IF ringFull[s] THEN [promLoss EXCEPT ![h] = s] ELSE promLoss
  /\ current' = Unset
  /\ UNCHANGED <<lock, listed, peerVars, pingVars, scrape, todo, met>>

Unlock ==
  /\ scrape = "measuring"
  /\ todo = {} /\ current = Unset
  /\ lock' = "free"
  /\ scrape' = "idle"
  /\ UNCHANGED <<listed, peerVars, pingVars, todo, current, promLatency, promLoss, met>>

(* Whoever holds the lock goes on.                                         *)
Holding ==
  \/ TickerUnlock \/ Unlock
  \/ \E s \in Session : ReadRX(s)
  \/ \E of, ring \in Ping : SetGauges(of, ring)

Next ==
  \/ \E s \in Session :
       \/ \E h \in Label : StoreSession(s, h)
       \/ \E h \in Host : Adopt(s, h)
       \/ \E h \in handlers[s] :
            \/ StoreRX(s, h)
            \/ \E of, ring \in Ping : StorePing(s, h, of, ring)
       \/ Activate(s) \/ Echo(s) \/ sessionGC(s) \/ Route(s)
  \/ ClockTicker \/ Request \/ Lock \/ Holding

(* sync.Mutex lets every waiting goroutine in in the end, however often    *)
(* others are faster, and whoever has it runs.                             *)
Spec == Init /\ [][Next]_vars /\ SF_vars(Lock) /\ WF_vars(Holding)

-----------------------------------------------------------------------------
SessionsOf(h) == {s \in listed : PeerAddress[s] = h}

(* The latencies that the fields of session s give.                        *)
StoredLatency(s) ==
  [ses |-> s, at |-> LastRX[s], of |-> LastRXPing[s].of, ring |-> LastRXPing[s].ring]

(* A scrape that met no handler leaves every host that has a session with  *)
(* the latencies of one of its sessions as they are stored, and with the   *)
(* losses of one whose ring is full if there is one: whatever a scrape     *)
(* before it got from half-stored pings is gone.  Two goroutines that met  *)
(* in handlePacket may have stored LastRX of one ping and LastRXPing of    *)
(* another, or of both; the next ping that is handled alone makes the      *)
(* latencies RX and TX those of one ping again.                            *)
CalmScrapeIsExact ==
  scrape = "measuring" /\ todo = {} /\ current = Unset /\ ~met =>
    \A h \in Label :
      /\ SessionsOf(h) # {} =>
           \E s \in SessionsOf(h) :
             /\ promLatency[h] = StoredLatency(s)
             /\ clean[s] => LastRXPing[s] = [of |-> LastRX[s], ring |-> LastRX[s]]
      /\ (\E s \in SessionsOf(h) : ringFull[s]) =>
           \E s \in SessionsOf(h) : ringFull[s] /\ promLoss[h] = s

(* Sessions that wait for their handshake have no address and share the    *)
(* label of none: its gauges never show anything but zero, even when the   *)
(* handshake and the first pings come in the middle of a scrape, and       *)
(* although the flag that lets pings in is stored before the address.      *)
NilHostIsZero ==
  /\ promLatency[Nil] # Unset =>
       promLatency[Nil].at = 0 /\ promLatency[Nil].of = 0 /\ promLatency[Nil].ring = 0
  /\ promLoss[Nil] = Unset

(* Every scrape is answered, whether or not the handlers under it go on.   *)
ScrapeAnswered == scrape = "waiting" ~> scrape = "idle"
=============================================================================
