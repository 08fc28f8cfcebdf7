------------------------------ MODULE Session ------------------------------
(***************************************************************************)
(* The life of sping sessions between processes: the TCP invitation        *)
(* (startSession, handleTCPconnection), the UDP handshake                  *)
(* (sendUDPHandshake, waitForHandshake, handleInboundHandshake), the ping  *)
(* senders (sendPackets), the reception of pings (handlePacket), the       *)
(* collector of dead sessions (sessionGC) and the monitor that dials again.*)
(*                                                                         *)
(* A session object is named by the process that holds it and its session  *)
(* id.  It outlives its entry in sessionMap: the goroutines keep pointers. *)
(*                                                                         *)
(* Time.  A time.Time field t is kept as its age, time.Since(t), counted   *)
(* in Ticks up to Old.  Old stands for every age above all the limits the  *)
(* code compares with, the zero time.Time included.  Goroutines that sleep *)
(* between rounds may run a round at any moment.                           *)
(***************************************************************************)
EXTENDS Naturals, FiniteSets

CONSTANTS
  Node,            \* the sping processes (one address each)
  Peering,         \* <<n, m>>: process n was started with -peers m
  SessionID,       \* the ids newSessionID may draw
  Worker,          \* concurrent handlePacket goroutines that run a handshake
  NoSession,       \* "no session id"
  NoAddr,          \* the nil address
  IdleLimit,       \* 60 s: silence after which a session is dead
  HandshakeLimit,  \* 60 s: after which the handshakers give up
  HandshakeGrace,  \* 20 s: the grace sessionGC means to give a handshake
  SenderGrace,     \* 10 s: a sender lives at least this long
  Old,             \* cap of all ages
  MaxRestarts,     \* bound on process restarts
  MaxInFlight      \* bound on packets in flight: one more is lost

ASSUME PeeringAssumption ==
  /\ Peering \subseteq Node \X Node
  /\ \A p \in Peering : p[1] # p[2]
ASSUME NullAssumption ==
  /\ NoSession \notin SessionID
  /\ NoAddr \notin Node
ASSUME LimitAssumption ==
  /\ {IdleLimit, HandshakeLimit, HandshakeGrace, SenderGrace, Old} \subseteq Nat
  /\ {MaxRestarts, MaxInFlight} \subseteq Nat
  /\ \A l \in {IdleLimit, HandshakeLimit, HandshakeGrace, SenderGrace} : l < Old

VARIABLES
  \* per process
  status,          \* "up", or the nil dereference that killed it
  globalReplyWith, \* TRUE once listenAndRoute has stored the UDP socket
  sessionMap,      \* the ids with an entry in the session table
  restarts,        \* restarts so far, all processes
  \* per session object: the fields of struct session
  UDPActivated, MadeByMe, PeerAddress, ReplyTo,
  SinceMade,       \* age of SessionMade
  SinceRX,         \* age of LastRX
  \* per session object: its goroutines
  handshaker,      \* sendUDPHandshake or waitForHandshake
  senders,         \* number of live sendPackets goroutines
  SinceStarted,    \* age of timeStarted of the newest sender
  \* goroutines of a process
  dialer,          \* startSession: its place, per peering
  invite,          \* startSession: the session id it holds
  handler,         \* handleInboundHandshake calls past their first check
  \* the network
  net              \* UDP packets in flight

procVars == <<status, globalReplyWith, restarts>>
fieldVars == <<UDPActivated, MadeByMe, PeerAddress, ReplyTo, SinceMade, SinceRX>>
routineVars == <<handshaker, senders, SinceStarted>>
dialVars == <<dialer, invite>>
vars == <<procVars, sessionMap, fieldVars, routineVars, dialVars, handler, net>>

Message == [type : {"h", "t"}, sid : SessionID, src : Node, dst : Node]
Handshake(i, n, m) == [type |-> "h", sid |-> i, src |-> n, dst |-> m]
Ping(i, n, m) == [type |-> "t", sid |-> i, src |-> n, dst |-> m]

(* The packets in flight after packet m is written to the socket.          *)
WriteTo(m) == IF Cardinality(net) < MaxInFlight THEN net \cup {m} ELSE net

IdleHandler == [pc |-> "idle", sid |-> NoSession, src |-> NoAddr, was |-> FALSE]
HandlerPC ==
  {"idle", "checked", "latched", "answering", "flagged", "adopted"}
Handler ==
  [pc : HandlerPC, sid : SessionID \cup {NoSession},
   src : Node \cup {NoAddr}, was : BOOLEAN]

HandshakerPC == {"none", "spawning", "start", "select", "tick", "booped", "done"}
DialerPC == {"dial", "asked", "offered", "spawn", "monitor"}

TypeOK ==
  /\ status \in [Node -> {"up", "nilSession", "nilSocket"}]
  /\ globalReplyWith \in [Node -> BOOLEAN]
  /\ restarts \in 0..MaxRestarts
  /\ sessionMap \in [Node -> SUBSET SessionID]
  /\ UDPActivated \in [Node -> [SessionID -> BOOLEAN]]
  /\ MadeByMe \in [Node -> [SessionID -> BOOLEAN]]
  /\ PeerAddress \in [Node -> [SessionID -> Node \cup {NoAddr}]]
  /\ ReplyTo \in [Node -> [SessionID -> Node \cup {NoAddr}]]
  /\ SinceMade \in [Node -> [SessionID -> 0..Old]]
  /\ SinceRX \in [Node -> [SessionID -> 0..Old]]
  /\ handshaker \in [Node -> [SessionID -> HandshakerPC]]
  /\ senders \in [Node -> [SessionID -> Nat]]
  /\ SinceStarted \in [Node -> [SessionID -> 0..Old]]
  /\ dialer \in [Peering -> DialerPC]
  /\ invite \in [Peering -> SessionID \cup {NoSession}]
  /\ handler \in [Node -> [Worker -> Handler]]
  /\ net \subseteq Message

(* main: the goroutines are started, the UDP socket is not yet bound.      *)
Init ==
  /\ status = [n \in Node |-> "up"]
  /\ globalReplyWith = [n \in Node |-> FALSE]
  /\ restarts = 0
  /\ sessionMap = [n \in Node |-> {}]
  /\ UDPActivated = [n \in Node |-> [i \in SessionID |-> FALSE]]
  /\ MadeByMe = [n \in Node |-> [i \in SessionID |-> FALSE]]
  /\ PeerAddress = [n \in Node |-> [i \in SessionID |-> NoAddr]]
  /\ ReplyTo = [n \in Node |-> [i \in SessionID |-> NoAddr]]
  /\ SinceMade = [n \in Node |-> [i \in SessionID |-> Old]]
  /\ SinceRX = [n \in Node |-> [i \in SessionID |-> Old]]
  /\ handshaker = [n \in Node |-> [i \in SessionID |-> "none"]]
  /\ senders = [n \in Node |-> [i \in SessionID |-> 0]]
  /\ SinceStarted = [n \in Node |-> [i \in SessionID |-> Old]]
  /\ dialer = [p \in Peering |-> "dial"]
  /\ invite = [p \in Peering |-> NoSession]
  /\ handler = [n \in Node |-> [w \in Worker |-> IdleHandler]]
  /\ net = {}

Up(n) == status[n] = "up"

(***************************************************************************)
(* Process events.                                                         *)
(***************************************************************************)

(* listenAndRoute binds the UDP socket and publishes it.                   *)
ListenUDP(n) ==
  /\ Up(n)
  /\ ~globalReplyWith[n]
  /\ globalReplyWith' = [globalReplyWith EXCEPT ![n] = TRUE]
  /\ UNCHANGED <<status, restarts, sessionMap, fieldVars, routineVars,
                 dialVars, handler, net>>

(* What the end of process n takes with it.  The fields of its session     *)
(* objects keep their last values: no goroutine is left to read them, and  *)
(* they tell what the process did before it ended.                         *)
Stop(n) ==
  /\ globalReplyWith' = [globalReplyWith EXCEPT ![n] = FALSE]
  /\ sessionMap' = [sessionMap EXCEPT ![n] = {}]
  /\ handshaker' = [handshaker EXCEPT ![n] = [i \in SessionID |-> "none"]]
  /\ senders' = [senders EXCEPT ![n] = [i \in SessionID |-> 0]]
  /\ dialer' = [p \in Peering |-> IF p[1] = n THEN "dial" ELSE dialer[p]]
  /\ invite' = [p \in Peering |-> IF p[1] = n THEN NoSession ELSE invite[p]]
  /\ handler' = [handler EXCEPT ![n] = [w \in Worker |-> IdleHandler]]
  /\ UNCHANGED <<fieldVars, SinceStarted>>

(* A nil dereference in any goroutine ends the process.                    *)
Panic(n, cause) ==
  /\ Stop(n)
  /\ status' = [status EXCEPT ![n] = cause]
  /\ UNCHANGED <<restarts, net>>

(* The process is killed, if it still runs, and main starts afresh.        *)
Restart(n) ==
  /\ restarts < MaxRestarts
  /\ restarts' = restarts + 1
  /\ Stop(n)
  /\ status' = [status EXCEPT ![n] = "up"]
  /\ UNCHANGED net

(***************************************************************************)
(* The TCP invitation.                                                     *)
(***************************************************************************)

(* Some process, goroutine or packet still refers to id i.  newSessionID   *)
(* draws 32 random bits, so it is taken to avoid these.                    *)
InUse(i) ==
  \/ \E n \in Node : \/ i \in sessionMap[n]
                     \/ handshaker[n][i] \notin {"none", "done"}
                     \/ senders[n][i] > 0
                     \/ \E w \in Worker : handler[n][w].sid = i
  \/ \E m \in net : m.sid = i
  \/ \E p \in Peering : invite[p] = i

(* &session{...}: the fields a new session object starts with.             *)
NewSession(n, i, mine, peer) ==
  /\ sessionMap' = [sessionMap EXCEPT ![n] = @ \cup {i}]
  /\ UDPActivated' = [UDPActivated EXCEPT ![n][i] = FALSE]
  /\ MadeByMe' = [MadeByMe EXCEPT ![n][i] = mine]
  /\ PeerAddress' = [PeerAddress EXCEPT ![n][i] = peer]
  /\ ReplyTo' = [ReplyTo EXCEPT ![n][i] = NoAddr]
  /\ SinceMade' = [SinceMade EXCEPT ![n][i] = 0]
  /\ SinceRX' = [SinceRX EXCEPT ![n][i] = Old]
  /\ handshaker' = [handshaker EXCEPT ![n][i] = "spawning"]
  /\ SinceStarted' = [SinceStarted EXCEPT ![n][i] = Old]
  /\ UNCHANGED senders

(* startSession dials and asks; handleTCPconnection at the other end draws *)
(* an id and stores a new session.  A failed dial or a wrong banner leaves *)
(* the dialer where it is.                                                 *)
Invite(p, i) ==
  /\ Up(p[1]) /\ Up(p[2])
  /\ dialer[p] = "dial"
  /\ ~InUse(i)
  /\ NewSession(p[2], i, FALSE, NoAddr)
  /\ dialer' = [dialer EXCEPT ![p] = "asked"]
  /\ invite' = [invite EXCEPT ![p] = i]
  /\ UNCHANGED <<procVars, handler, net>>

(* The unlocked "go sessionMap[nSes].waitForHandshake()" and the reply.    *)
SpawnWaiter(n, i) ==
  /\ Up(n)
  /\ handshaker[n][i] = "spawning" /\ ~MadeByMe[n][i]
  /\ i \in sessionMap[n]
  /\ handshaker' = [handshaker EXCEPT ![n][i] = "start"]
  /\ dialer' = [p \in Peering |->
                  IF p[2] = n /\ invite[p] = i /\ dialer[p] = "asked"
                  THEN "offered" ELSE dialer[p]]
  /\ UNCHANGED <<procVars, sessionMap, fieldVars, senders, SinceStarted,
                 invite, handler, net>>

(* startSession gives up on the connection: no reply, or one that is not   *)
(* a number.                                                               *)
InviteFails(p) ==
  /\ Up(p[1])
  /\ dialer[p] \in {"asked", "offered"}
  /\ dialer' = [dialer EXCEPT ![p] = "dial"]
  /\ invite' = [invite EXCEPT ![p] = NoSession]
  /\ UNCHANGED <<procVars, sessionMap, fieldVars, routineVars, handler, net>>

(* startSession reads the id and stores its own session.  One Read need    *)
(* not return all the digits: a shorter number is an id of its own.        *)
AcceptInvite(p, i) ==
  /\ Up(p[1])
  /\ dialer[p] = "offered"
  /\ i = invite[p] \/ ~InUse(i)
  /\ NewSession(p[1], i, TRUE, p[2])
  /\ dialer' = [dialer EXCEPT ![p] = "spawn"]
  /\ invite' = [invite EXCEPT ![p] = i]
  /\ UNCHANGED <<procVars, handler, net>>

(* The unlocked "go sessionMap[invite].sendUDPHandshake()".                *)
SpawnHandshaker(p) ==
  LET n == p[1]
      i == invite[p]
  IN /\ Up(n)
     /\ dialer[p] = "spawn"
     /\ i \in sessionMap[n]
     /\ handshaker' = [handshaker EXCEPT ![n][i] = "start"]
     /\ dialer' = [dialer EXCEPT ![p] = "monitor"]
     /\ UNCHANGED <<procVars, sessionMap, fieldVars, senders, SinceStarted,
                    invite, handler, net>>

(* Either "go" statement finds that sessionGC has removed the entry since  *)
(* the lock was released: the goroutine runs on a nil *session.            *)
SpawnOnNil(n, i) ==
  /\ Up(n)
  /\ handshaker[n][i] = "spawning"
  /\ i \notin sessionMap[n]
  /\ Panic(n, "nilSession")

(* startSession finds its session gone from the table and dials again.     *)
Redial(p) ==
  /\ Up(p[1])
  /\ dialer[p] = "monitor"
  /\ invite[p] \notin sessionMap[p[1]]
  /\ dialer' = [dialer EXCEPT ![p] = "dial"]
  /\ invite' = [invite EXCEPT ![p] = NoSession]
  /\ UNCHANGED <<procVars, sessionMap, fieldVars, routineVars, handler, net>>

(***************************************************************************)
(* The handshakers.                                                        *)
(***************************************************************************)

GoHandshaker(n, i, from, to) ==
  /\ handshaker[n][i] = from
  /\ handshaker' = [handshaker EXCEPT ![n][i] = to]

(* The prologue: the client copies *globalReplyWith, which is nil until    *)
(* listenAndRoute has bound its socket.                                    *)
HandshakerStart(n, i) ==
  /\ Up(n)
  /\ MadeByMe[n][i] => globalReplyWith[n]
  /\ GoHandshaker(n, i, "start", "select")
  /\ UNCHANGED <<procVars, sessionMap, fieldVars, senders, SinceStarted,
                 dialVars, handler, net>>

StartWithoutSocket(n, i) ==
  /\ Up(n)
  /\ handshaker[n][i] = "start"
  /\ MadeByMe[n][i] /\ ~globalReplyWith[n]
  /\ Panic(n, "nilSocket")

(* The ticker fires: the goroutine leaves its select for one round.        *)
TickWake(n, i) ==
  /\ Up(n)
  /\ GoHandshaker(n, i, "select", "tick")
  /\ UNCHANGED <<procVars, sessionMap, fieldVars, senders, SinceStarted,
                 dialVars, handler, net>>

TimedOut(n, i) == SinceMade[n][i] > HandshakeLimit /\ ~UDPActivated[n][i]

HandshakerTimeout(n, i) ==
  /\ Up(n)
  /\ TimedOut(n, i)
  /\ GoHandshaker(n, i, "tick", "done")
  /\ UNCHANGED <<procVars, sessionMap, fieldVars, senders, SinceStarted,
                 dialVars, handler, net>>

(* Mutant: the server's round sends too, as the client's does.             *)
RoundSendsAlways(n, i) == WriteTo(Handshake(i, n, PeerAddress[n][i]))

(* A round without timeout: the client sends a handshake, the server only  *)
(* goes back to its select.                                                *)
RoundSends(n, i) ==
  IF MadeByMe[n][i] THEN WriteTo(Handshake(i, n, PeerAddress[n][i])) ELSE net

HandshakerRound(n, i) ==
  /\ Up(n)
  /\ ~TimedOut(n, i)
  /\ GoHandshaker(n, i, "tick", "select")
  /\ net' = RoundSends(n, i)
  /\ UNCHANGED <<procVars, sessionMap, fieldVars, senders, SinceStarted,
                 dialVars, handler>>

(* The boop has been received: the sender is started.                      *)
StartSending(n, i) ==
  /\ Up(n)
  /\ GoHandshaker(n, i, "booped", "done")
  /\ UDPActivated' = [UDPActivated EXCEPT ![n][i] = TRUE]
  /\ senders' = [senders EXCEPT ![n][i] = @ + 1]
  /\ SinceStarted' = [SinceStarted EXCEPT ![n][i] = 0]
  /\ UNCHANGED <<procVars, sessionMap, MadeByMe, PeerAddress, ReplyTo,
                 SinceMade, SinceRX, dialVars, handler, net>>

(***************************************************************************)
(* handleInboundHandshake, run by one goroutine per packet.  The session   *)
(* it has looked up it keeps, whatever becomes of the table.               *)
(***************************************************************************)

(* The network may deliver a packet again.                                 *)
Delivered(n, m) ==
  /\ Up(n) /\ globalReplyWith[n]
  /\ m \in net /\ m.dst = n
  /\ net' \in {net, net \ {m}}

(* Look the session up and refuse one that is doubly activated.            *)
RecvHandshake(n, w, m) ==
  /\ Delivered(n, m)
  /\ m.type = "h"
  /\ handler[n][w].pc = "idle"
  /\ m.sid \in sessionMap[n]
  /\ ~UDPActivated[n][m.sid]
  /\ handler' = [handler EXCEPT ![n][w] =
                   [pc |-> "checked", sid |-> m.sid, src |-> m.src, was |-> FALSE]]
  /\ UNCHANGED <<procVars, sessionMap, fieldVars, routineVars, dialVars>>

(* wasAlreadyActivated reads the flag a second time.                       *)
Latch(n, w) ==
  /\ Up(n)
  /\ handler[n][w].pc = "checked"
  /\ handler' = [handler EXCEPT
                   ![n][w].pc = "latched",
                   ![n][w].was = UDPActivated[n][handler[n][w].sid]]
  /\ UNCHANGED <<procVars, sessionMap, fieldVars, routineVars, dialVars, net>>

(* Handler w goes on, with the session and the source it holds.            *)
GoHandler(n, w, from, to) ==
  /\ Up(n)
  /\ handler[n][w].pc = from
  /\ handler' = [handler EXCEPT ![n][w].pc = to]
  /\ UNCHANGED <<procVars, sessionMap, MadeByMe, SinceMade, SinceRX, senders,
                 SinceStarted, dialVars>>

(* Mutants: the sender's address, or the peer of an invited session, is    *)
(* not stored; the boop also reaches a handshaker that has returned.       *)
AnswerNoReplyTo(n, w) ==
  /\ GoHandler(n, w, "latched", "answering")
  /\ UNCHANGED <<UDPActivated, PeerAddress, ReplyTo, handshaker, net>>
AdoptNoPeer(n, w) ==
  /\ GoHandler(n, w, "flagged", "adopted")
  /\ UNCHANGED <<UDPActivated, PeerAddress, ReplyTo, handshaker, net>>
BoopAnyway(n, i) == handshaker' = [handshaker EXCEPT ![n][i] = "booped"]

(* The source of the handshake becomes the address to answer to.           *)
Answer(n, w) ==
  /\ GoHandler(n, w, "latched", "answering")
  /\ ReplyTo' = [ReplyTo EXCEPT ![n][handler[n][w].sid] = handler[n][w].src]
  /\ UNCHANGED <<UDPActivated, PeerAddress, handshaker, net>>

(* The session is activated: from here on its pings are accepted, and its  *)
(* handshakes refused, although it may not know its peer yet.              *)
Activate(n, w) ==
  /\ GoHandler(n, w, "answering", "flagged")
  /\ UDPActivated' = [UDPActivated EXCEPT ![n][handler[n][w].sid] = TRUE]
  /\ UNCHANGED <<PeerAddress, ReplyTo, handshaker, net>>

(* A session that has no peer adopts the source.                           *)
Adopt(n, w) ==
  /\ GoHandler(n, w, "flagged", "adopted")
  /\ PeerAddress' = [PeerAddress EXCEPT ![n][handler[n][w].sid] =
                       IF @ = NoAddr THEN handler[n][w].src ELSE @]
  /\ UNCHANGED <<UDPActivated, ReplyTo, handshaker, net>>

(* The boop is a send on a channel without buffer, given up by "default":  *)
(* it arrives only if the handshaker waits in its select.                  *)
Boop(n, i) ==
  handshaker' = [handshaker EXCEPT ![n][i] = IF @ = "select" THEN "booped" ELSE @]

(* Boop the handshaker and, first to activate the session, echo the        *)
(* handshake.  The echo is a packet in flight, delivered at any time after *)
(* or never, so that sending it with the boop takes no order away.         *)
Notify(n, w) ==
  LET h == handler[n][w]
  IN /\ Up(n)
     /\ h.pc = "adopted"
     /\ Boop(n, h.sid)
     /\ net' = IF h.was THEN net ELSE WriteTo(Handshake(h.sid, n, ReplyTo[n][h.sid]))
     /\ handler' = [handler EXCEPT ![n][w] = IdleHandler]
     /\ UNCHANGED <<procVars, sessionMap, fieldVars, senders, SinceStarted, dialVars>>

(***************************************************************************)
(* Pings.                                                                  *)
(***************************************************************************)

(* Mutant: only a session still in the table is tested.                    *)
ListedSenderExpired(n, i) ==
  i \in sessionMap[n] /\ SinceRX[n][i] > IdleLimit /\ SinceStarted[n][i] > SenderGrace

SenderExpired(n, i) == SinceRX[n][i] > IdleLimit /\ SinceStarted[n][i] > SenderGrace

(* One second of sendPackets.                                              *)
SendPing(n, i) ==
  /\ Up(n)
  /\ senders[n][i] > 0
  /\ ~SenderExpired(n, i)
  /\ ReplyTo[n][i] # NoAddr
  /\ net' = WriteTo(Ping(i, n, ReplyTo[n][i]))
  /\ UNCHANGED <<procVars, sessionMap, fieldVars, routineVars, dialVars, handler>>

StopSending(n, i) ==
  /\ Up(n)
  /\ senders[n][i] > 0
  /\ SenderExpired(n, i)
  /\ senders' = [senders EXCEPT ![n][i] = @ - 1]
  /\ UNCHANGED <<procVars, sessionMap, fieldVars, handshaker, SinceStarted,
                 dialVars, handler, net>>

(* Mutant: the "not double activated" test is missing.                     *)
PingWelcomeEarly(n, m) == m.sid \in sessionMap[n]

(* handlePacket accepts the pings of an activated session only.            *)
PingWelcome(n, m) == m.sid \in sessionMap[n] /\ UDPActivated[n][m.sid]

RecvPing(n, m) ==
  /\ Delivered(n, m)
  /\ m.type = "t"
  /\ PingWelcome(n, m)
  /\ ReplyTo' = [ReplyTo EXCEPT ![n][m.sid] = m.src]
  /\ SinceRX' = [SinceRX EXCEPT ![n][m.sid] = 0]
  /\ UNCHANGED <<procVars, sessionMap, UDPActivated, MadeByMe, PeerAddress,
                 SinceMade, routineVars, dialVars, handler>>

(* A packet is lost on the way, dropped by packetLimiter, or refused:      *)
(* no such session, a ping of an unconfirmed one, a handshake of a         *)
(* confirmed one.  None of these changes anything else.                    *)
Drop(m) ==
  /\ m \in net
  /\ net' = net \ {m}
  /\ UNCHANGED <<procVars, sessionMap, fieldVars, routineVars, dialVars, handler>>

(***************************************************************************)
(* The collector and the clock.                                            *)
(***************************************************************************)

(* Mutant: only sessions that wait for their handshake are collected.      *)
DeadUnconfirmed(n, i) == ~UDPActivated[n][i] /\ SinceMade[n][i] > HandshakeGrace

(* sessionGC's two tests.  A session that never received a ping has the    *)
(* zero LastRX, whose age is Old.                                          *)
Dead(n, i) ==
  \/ SinceRX[n][i] > IdleLimit
  \/ ~UDPActivated[n][i] /\ SinceMade[n][i] > HandshakeGrace

(* One round over the table, under the lock.                               *)
sessionGC(n) ==
  /\ Up(n)
  /\ sessionMap' = [sessionMap EXCEPT ![n] = {i \in @ : ~Dead(n, i)}]
  /\ UNCHANGED <<procVars, fieldVars, routineVars, dialVars, handler, net>>

Older(age) == IF age < Old THEN age + 1 ELSE Old
AllOlder(f) == [n \in Node |-> [i \in SessionID |-> Older(f[n][i])]]

(* Time passes for everybody.                                              *)
Tick ==
  /\ SinceMade' = AllOlder(SinceMade)
  /\ SinceRX' = AllOlder(SinceRX)
  /\ SinceStarted' = AllOlder(SinceStarted)
  /\ UNCHANGED <<procVars, sessionMap, UDPActivated, MadeByMe, PeerAddress,
                 ReplyTo, handshaker, senders, dialVars, handler, net>>

-----------------------------------------------------------------------------
Process(n) == ListenUDP(n) \/ sessionGC(n)

HandshakerStep(n, i) ==
  \/ HandshakerStart(n, i) \/ StartWithoutSocket(n, i)
  \/ TickWake(n, i) \/ HandshakerTimeout(n, i) \/ HandshakerRound(n, i)
  \/ StartSending(n, i)

SessionStep(n, i) ==
  \/ SpawnWaiter(n, i) \/ SpawnOnNil(n, i)
  \/ SendPing(n, i) \/ StopSending(n, i)

DialerStep(p) ==
  \/ \E i \in SessionID : Invite(p, i) \/ AcceptInvite(p, i)
  \/ InviteFails(p) \/ SpawnHandshaker(p) \/ Redial(p)

HandlerStep(n, w) ==
  \/ Latch(n, w) \/ Answer(n, w) \/ Activate(n, w) \/ Adopt(n, w)
  \/ Notify(n, w)

Receive(n, m) == RecvPing(n, m) \/ \E w \in Worker : RecvHandshake(n, w, m)

Next ==
  \/ \E n \in Node : Process(n) \/ Restart(n)
  \/ \E n \in Node, i \in SessionID : HandshakerStep(n, i) \/ SessionStep(n, i)
  \/ \E p \in Peering : DialerStep(p)
  \/ \E n \in Node, w \in Worker : HandlerStep(n, w)
  \/ \E n \in Node, m \in net : Receive(n, m)
  \/ \E m \in net : Drop(m)
  \/ Tick

Spec == Init /\ [][Next]_vars

(* Every goroutine that can run runs.  Nothing is promised of the network, *)
(* of the dial, or of restarts.                                            *)
Fairness ==
  /\ WF_vars(Tick)
  /\ \A n \in Node : WF_vars(ListenUDP(n)) /\ WF_vars(sessionGC(n))
  /\ \A n \in Node, i \in SessionID :
        /\ WF_vars(HandshakerStep(n, i))
        /\ WF_vars(SpawnWaiter(n, i) \/ SpawnOnNil(n, i))
        /\ WF_vars(SendPing(n, i) \/ StopSending(n, i))
  /\ \A p \in Peering : WF_vars(SpawnHandshaker(p) \/ Redial(p))
  /\ \A n \in Node, w \in Worker : WF_vars(HandlerStep(n, w))

FairSpec == Spec /\ Fairness

-----------------------------------------------------------------------------
(***************************************************************************)
(* Properties.                                                             *)
(***************************************************************************)

(* A running sender has an address to send to and belongs to an activated  *)
(* session: the branch of sendPackets that logs "s.ReplyTo is nil" is      *)
(* never taken, although nothing in sendPackets waits for a reply.         *)
SenderHasPeer ==
  \A n \in Node, i \in SessionID :
    senders[n][i] > 0 => UDPActivated[n][i] /\ ReplyTo[n][i] # NoAddr

(* However many handshake packets race through handleInboundHandshake, a   *)
(* session gets one sender: its pings are not doubled.                     *)
OneSenderPerSession ==
  \A n \in Node, i \in SessionID : senders[n][i] <= 1

(* A session whose handshake is not done has never taken a ping, so its    *)
(* LastRX is still the zero time and sessionGC's second test, the one for  *)
(* a lack of handshake, is never reached.                                  *)
UnconfirmedNeverMeasured ==
  \A n \in Node, i \in SessionID :
    i \in sessionMap[n] /\ ~UDPActivated[n][i] => SinceRX[n][i] = Old

(* A session that is being measured was activated at both ends, by its     *)
(* peer perhaps before a restart: no ping is accepted from a peer that has *)
(* not confirmed the session itself.  And its PeerAddress is known, though *)
(* it is stored after the flag that lets pings in: the peer sends none     *)
(* before the handshake that follows that store.                           *)
MeasuredBothWays ==
  \A n \in Node, i \in SessionID :
    i \in sessionMap[n] /\ SinceRX[n][i] < Old =>
      /\ UDPActivated[n][i]
      /\ PeerAddress[n][i] # NoAddr
      /\ ReplyTo[n][i] # NoAddr
      /\ UDPActivated[ReplyTo[n][i]][i]

(* Two tables that hold the same id hold the two ends of one session: one  *)
(* was made by invitation, and each, once activated, answers the other,    *)
(* and knows it as its peer by the time it sends or has received a ping.   *)
EndsArePaired ==
  \A n, m \in Node : \A i \in sessionMap[n] \cap sessionMap[m] :
    n # m =>
      /\ MadeByMe[n][i] # MadeByMe[m][i]
      /\ PeerAddress[n][i] \in {NoAddr, m}
      /\ UDPActivated[n][i] => ReplyTo[n][i] = m
      /\ senders[n][i] > 0 \/ SinceRX[n][i] < Old => PeerAddress[n][i] = m

(* The monitor of startSession does its work: a dialer does not stay       *)
(* forever with a session that receives nothing.                           *)
DialerRecovers ==
  \A p \in Peering :
    []<>(\/ ~Up(p[1])
         \/ dialer[p] # "monitor"
         \/ SinceRX[p[1]][invite[p]] <= IdleLimit)

(* The sender of a collected session ends: no ping can refresh it.         *)
OrphanSenderStops ==
  \A n \in Node, i \in SessionID :
    senders[n][i] > 0 /\ i \notin sessionMap[n] ~> senders[n][i] = 0

-----------------------------------------------------------------------------
(***************************************************************************)
(* What comments say of the code, and the code does not do.                *)
(***************************************************************************)

(* sessionhandle.go:82: the table is monitored for the session             *)
(* disappearing, and the session is restarted if it is gone.  Its going    *)
(* must then not end the process.                                          *)
SurvivesCollection == \A n \in Node : status[n] # "nilSession"

(* sessionhandle.go:99: the handshaker is notified of a successful         *)
(* handshake and starts the send loop.                                     *)
ActivationStartsSender ==
  \A n \in Node, i \in SessionID :
    UDPActivated[n][i] /\ handshaker[n][i] \in {"select", "tick"}
      ~> handshaker[n][i] \notin {"select", "tick"}
=============================================================================
