--------------------------- MODULE SessionProofs ---------------------------
(***************************************************************************)
(* Sessions, for any number of processes, peerings, session ids, packet    *)
(* handlers and restarts, and any limits.                                  *)
(***************************************************************************)
EXTENDS Session, TLAPS

(* The inductive invariant, part by part.                                  *)

(* The side that made a session knows its peer.                            *)
MakerKnowsPeer ==
  \A n \in Node, i \in SessionID : MadeByMe[n][i] => PeerAddress[n][i] # NoAddr

(* A handler at work holds a session and the address of a process.         *)
HandlerHolds ==
  \A n \in Node, w \in Worker :
    handler[n][w].pc # "idle" =>
      handler[n][w].sid \in SessionID /\ handler[n][w].src \in Node

(* What a handler has stored stays stored while it is at work.             *)
HandlerStored ==
  \A n \in Node, w \in Worker :
    LET h == handler[n][w] IN
      /\ h.pc \in {"answering", "flagged", "adopted"} => ReplyTo[n][h.sid] # NoAddr
      /\ h.pc \in {"flagged", "adopted"} => UDPActivated[n][h.sid]
      /\ h.pc = "adopted" => PeerAddress[n][h.sid] # NoAddr

(* A dialer past its dial holds an id, and no two hold the same.           *)
DialerHolds ==
  /\ \A p \in Peering : dialer[p] # "dial" => invite[p] \in SessionID
  /\ \A p, q \in Peering : invite[p] = invite[q] /\ invite[p] # NoSession => p = q

(* The dialing process has no session yet for the id it is waiting for.    *)
InviteIsNew ==
  \A p \in Peering : dialer[p] \in {"asked", "offered"} =>
    /\ senders[p[1]][invite[p]] = 0
    /\ handshaker[p[1]][invite[p]] \in {"none", "done"}
    /\ invite[p] \notin sessionMap[p[1]]
    /\ \A w \in Worker : handler[p[1]][w].sid # invite[p]

(* Between storing its session and starting the handshaker a dialer's      *)
(* session has no handshaker.                                              *)
SpawnHeld ==
  \A p \in Peering : dialer[p] = "spawn" =>
    handshaker[p[1]][invite[p]] = "spawning" /\ MadeByMe[p[1]][invite[p]]

(* A session with a sender, or whose handshaker has received the boop, is  *)
(* activated, has an address and knows its peer; the sender is one and     *)
(* started last.                                                           *)
SenderIsLast ==
  \A n \in Node, i \in SessionID :
    /\ handshaker[n][i] = "booped" =>
         /\ senders[n][i] = 0
         /\ UDPActivated[n][i] /\ ReplyTo[n][i] # NoAddr /\ PeerAddress[n][i] # NoAddr
    /\ senders[n][i] > 0 =>
         /\ senders[n][i] = 1 /\ handshaker[n][i] = "done"
         /\ UDPActivated[n][i] /\ ReplyTo[n][i] # NoAddr /\ PeerAddress[n][i] # NoAddr

(* A session that is not activated has never received a ping.              *)
UnconfirmedSilent ==
  \A n \in Node, i \in SessionID : ~UDPActivated[n][i] => SinceRX[n][i] = Old

IInv ==
  /\ TypeOK
  /\ MakerKnowsPeer
  /\ HandlerHolds
  /\ HandlerStored
  /\ DialerHolds
  /\ InviteIsNew
  /\ SpawnHeld
  /\ SenderIsLast
  /\ UnconfirmedSilent

(* Binding the UDP socket disturbs nothing.                                *)
LEMMA ListenUDPStep ==
  ASSUME IInv, NEW n \in Node, ListenUDP(n)
  PROVE  IInv'
<1>1. TypeOK'
  BY DEF IInv, TypeOK, ListenUDP, fieldVars, routineVars, dialVars
<1>2. (MakerKnowsPeer /\ HandlerHolds /\ HandlerStored /\ DialerHolds /\ InviteIsNew /\
   SpawnHeld /\ SenderIsLast /\ UnconfirmedSilent)'
  BY DEF IInv, MakerKnowsPeer, HandlerHolds, HandlerStored, DialerHolds, InviteIsNew,
     SpawnHeld, SenderIsLast, UnconfirmedSilent, ListenUDP, fieldVars,
     routineVars, dialVars
<1> QED
  BY <1>1, <1>2 DEF IInv

(* The collector only takes sessions out of the table.                     *)
LEMMA sessionGCStep ==
  ASSUME IInv, NEW n \in Node, sessionGC(n)
  PROVE  IInv'
<1>1. TypeOK'
  BY DEF IInv, TypeOK, sessionGC, procVars, fieldVars, routineVars, dialVars
<1>2. InviteIsNew'
  BY DEF IInv, InviteIsNew, sessionGC, routineVars, dialVars
<1>3. (MakerKnowsPeer /\ HandlerHolds /\ HandlerStored /\ DialerHolds /\ SpawnHeld /\
   SenderIsLast /\ UnconfirmedSilent)'
  BY DEF IInv, MakerKnowsPeer, HandlerHolds, HandlerStored, DialerHolds, SpawnHeld,
     SenderIsLast, UnconfirmedSilent, sessionGC, fieldVars, routineVars,
     dialVars
<1> QED
  BY <1>1, <1>2, <1>3 DEF IInv

(* The end of a process, by a panic or for a restart, takes its goroutines *)
(* and its table with it.                                                  *)
LEMMA StopStep ==
  ASSUME IInv, NEW n \in Node, Stop(n), net' = net, restarts' \in 0 .. MaxRestarts,
         status' \in [Node -> {"up", "nilSession", "nilSocket"}]
  PROVE  IInv'
<1>1. TypeOK'
  <2>1. handler' \in [Node -> [Worker -> Handler]]
    BY DEF Stop, IdleHandler, Handler, HandlerPC, IInv, TypeOK
  <2>2. handshaker' \in [Node -> [SessionID -> HandshakerPC]]
    BY DEF Stop, HandshakerPC, IInv, TypeOK
  <2>3. dialer' \in [Peering -> DialerPC] /\ invite' \in [Peering -> SessionID \cup {NoSession}]
    BY DEF Stop, DialerPC, IInv, TypeOK
  <2> QED
    BY <2>1, <2>2, <2>3 DEF Stop, IInv, TypeOK, fieldVars
<1>2. HandlerHolds' /\ HandlerStored'
  BY DEF IInv, HandlerHolds, HandlerStored, Stop, IdleHandler, fieldVars
<1>3. DialerHolds'
  BY DEF IInv, DialerHolds, Stop
<1>4. InviteIsNew'
  BY DEF IInv, InviteIsNew, Stop
<1>5. SpawnHeld'
  BY DEF IInv, SpawnHeld, Stop, fieldVars
<1>6. SenderIsLast'
  BY DEF IInv, TypeOK, SenderIsLast, Stop, fieldVars
<1>7. (MakerKnowsPeer /\ UnconfirmedSilent)'
  BY DEF IInv, MakerKnowsPeer, UnconfirmedSilent, Stop, fieldVars
<1> QED
  BY <1>1, <1>2, <1>3, <1>4, <1>5, <1>6, <1>7 DEF IInv

(* An id that is drawn is in no use, so the new session disturbs none.     *)
LEMMA InviteStep ==
  ASSUME IInv, NEW p \in Peering, NEW i \in SessionID, Invite(p, i)
  PROVE  IInv'
<1>1. TypeOK'
  BY PeeringAssumption, NullAssumption, LimitAssumption DEF IInv, TypeOK,
     HandshakerPC, DialerPC, Invite, NewSession, InUse, procVars
<1>2. MakerKnowsPeer'
  BY DEF IInv, TypeOK, MakerKnowsPeer, Invite, NewSession
<1>3. DialerHolds'
  BY DEF IInv, TypeOK, DialerHolds, Invite, InUse
<1>4. InviteIsNew'
  BY PeeringAssumption DEF IInv, TypeOK, InviteIsNew, Invite, NewSession,
     InUse
<1>5. SpawnHeld'
  BY DEF IInv, SpawnHeld, Invite, NewSession, InUse
<1>6. SenderIsLast'
  BY DEF IInv, SenderIsLast, Invite, NewSession, InUse
<1>7. UnconfirmedSilent'
  BY DEF IInv, TypeOK, UnconfirmedSilent, Invite, NewSession
<1>8. HandlerHolds' /\ HandlerStored'
  <2>1. \A r \in Node, w \in Worker : handler[r][w].sid # i
    BY DEF Invite, InUse
  <2> QED
    BY <2>1 DEF IInv, TypeOK, HandlerHolds, HandlerStored, Invite, NewSession
<1> QED
  BY <1>1, <1>2, <1>3, <1>4, <1>5, <1>6, <1>7, <1>8 DEF IInv

(* The invited side starts its waiter and answers.                         *)
LEMMA SpawnWaiterStep ==
  ASSUME IInv, NEW n \in Node, NEW i \in SessionID, SpawnWaiter(n, i)
  PROVE  IInv'
<1>1. TypeOK'
  BY DEF IInv, TypeOK, HandshakerPC, DialerPC, SpawnWaiter, procVars,
     fieldVars
<1>2. DialerHolds'
  BY DEF IInv, DialerHolds, SpawnWaiter
<1>3. InviteIsNew'
  BY DEF IInv, InviteIsNew, SpawnWaiter
<1>4. SpawnHeld'
  BY DEF IInv, SpawnHeld, SpawnWaiter, fieldVars
<1>5. SenderIsLast'
  BY DEF IInv, SenderIsLast, SpawnWaiter, fieldVars
<1>6. (MakerKnowsPeer /\ HandlerHolds /\ HandlerStored /\ UnconfirmedSilent)'
  BY DEF IInv, MakerKnowsPeer, HandlerHolds, HandlerStored, UnconfirmedSilent, SpawnWaiter,
     fieldVars
<1> QED
  BY <1>1, <1>2, <1>3, <1>4, <1>5, <1>6 DEF IInv

(* A failed invitation forgets its id.                                     *)
LEMMA InviteFailsStep ==
  ASSUME IInv, NEW p \in Peering, InviteFails(p)
  PROVE  IInv'
<1>1. TypeOK'
  BY DEF IInv, TypeOK, DialerPC, InviteFails, procVars, fieldVars,
     routineVars
<1>2. DialerHolds'
  BY DEF IInv, TypeOK, DialerHolds, InviteFails
<1>3. InviteIsNew'
  BY DEF IInv, TypeOK, InviteIsNew, InviteFails, routineVars
<1>4. SpawnHeld'
  BY DEF IInv, SpawnHeld, InviteFails, fieldVars, routineVars
<1>5. (MakerKnowsPeer /\ HandlerHolds /\ HandlerStored /\ SenderIsLast /\ UnconfirmedSilent)'
  BY DEF IInv, MakerKnowsPeer, HandlerHolds, HandlerStored, SenderIsLast,
     UnconfirmedSilent, InviteFails, fieldVars, routineVars
<1> QED
  BY <1>1, <1>2, <1>3, <1>4, <1>5 DEF IInv

(* The session the dialer stores is new: InviteIsNew for the id offered,   *)
(* and ~InUse for a truncated one.                                         *)
LEMMA AcceptInviteStep ==
  ASSUME IInv, NEW p \in Peering, NEW i \in SessionID, AcceptInvite(p, i)
  PROVE  IInv'
<1>1. TypeOK'
  BY PeeringAssumption, LimitAssumption DEF IInv, TypeOK, HandshakerPC,
     DialerPC, AcceptInvite, NewSession, procVars
<1>2. MakerKnowsPeer'
  BY PeeringAssumption, NullAssumption DEF IInv, TypeOK, MakerKnowsPeer,
     AcceptInvite, NewSession
<1>3. DialerHolds'
  BY DEF IInv, DialerHolds, AcceptInvite, InUse
<1>4. InviteIsNew'
  <2>1. \A q \in Peering : q # p => invite[q] # i
    BY NullAssumption DEF AcceptInvite, InUse, IInv, DialerHolds
  <2>2. \A q \in Peering : dialer'[q] \in {"asked", "offered"} =>
         q # p /\ dialer[q] = dialer'[q] /\ invite'[q] = invite[q]
    BY DEF AcceptInvite, IInv, TypeOK
  <2> QED
    BY <2>1, <2>2 DEF AcceptInvite, NewSession, IInv, InviteIsNew
<1>5. SpawnHeld'
  BY PeeringAssumption DEF IInv, TypeOK, SpawnHeld, AcceptInvite, NewSession
<1>6. SenderIsLast'
  <2>1. senders[p[1]][i] = 0
    BY PeeringAssumption DEF AcceptInvite, InUse, IInv, InviteIsNew, TypeOK
  <2> QED
    BY <2>1 DEF AcceptInvite, NewSession, IInv, SenderIsLast, TypeOK
<1>7. UnconfirmedSilent'
  BY DEF IInv, TypeOK, UnconfirmedSilent, AcceptInvite, NewSession
<1>8. HandlerHolds' /\ HandlerStored'
  <2>1. \A w \in Worker : handler[p[1]][w].sid # i
    BY PeeringAssumption DEF AcceptInvite, InUse, IInv, InviteIsNew
  <2> QED
    BY <2>1 DEF IInv, TypeOK, HandlerHolds, HandlerStored, AcceptInvite, NewSession
<1> QED
  BY <1>1, <1>2, <1>3, <1>4, <1>5, <1>6, <1>7, <1>8 DEF IInv

(* The dialer starts the handshaker of the session it has stored.          *)
LEMMA SpawnHandshakerStep ==
  ASSUME IInv, NEW p \in Peering, SpawnHandshaker(p)
  PROVE  IInv'
<1>1. TypeOK'
  BY PeeringAssumption DEF IInv, TypeOK, HandshakerPC, DialerPC,
     SpawnHandshaker, procVars, fieldVars
<1>2. DialerHolds'
  BY DEF IInv, DialerHolds, SpawnHandshaker
<1>3. InviteIsNew'
  BY DEF IInv, InviteIsNew, SpawnHandshaker
<1>4. SpawnHeld'
  <2>1. invite[p] \in SessionID /\ p[1] \in Node
    BY PeeringAssumption DEF SpawnHandshaker, IInv, DialerHolds
  <2>2. \A q \in Peering : dialer'[q] = "spawn" =>
         q # p /\ dialer[q] = "spawn" /\ invite[q] # invite[p]
    BY NullAssumption DEF SpawnHandshaker, IInv, DialerHolds, TypeOK
  <2> QED
    BY <2>2 DEF SpawnHandshaker, IInv, SpawnHeld, fieldVars
<1>5. SenderIsLast'
  <2>1. invite[p] \in SessionID /\ p[1] \in Node
    BY PeeringAssumption DEF SpawnHandshaker, IInv, DialerHolds
  <2>2. handshaker[p[1]][invite[p]] = "spawning"
    BY DEF SpawnHandshaker, IInv, SpawnHeld
  <2> QED
    BY <2>2 DEF SpawnHandshaker, IInv, SenderIsLast, fieldVars
<1>6. (MakerKnowsPeer /\ HandlerHolds /\ HandlerStored /\ UnconfirmedSilent)'
  BY DEF IInv, MakerKnowsPeer, HandlerHolds, HandlerStored, UnconfirmedSilent,
     SpawnHandshaker, fieldVars
<1> QED
  BY <1>1, <1>2, <1>3, <1>4, <1>5, <1>6 DEF IInv

(* The monitor forgets the id of a session that is gone.                   *)
LEMMA RedialStep ==
  ASSUME IInv, NEW p \in Peering, Redial(p)
  PROVE  IInv'
<1>1. TypeOK'
  BY DEF IInv, TypeOK, DialerPC, Redial, procVars, fieldVars, routineVars
<1>2. DialerHolds'
  BY DEF IInv, TypeOK, DialerHolds, Redial
<1>3. InviteIsNew'
  BY DEF IInv, InviteIsNew, Redial, routineVars
<1>4. SpawnHeld'
  BY DEF IInv, SpawnHeld, Redial, fieldVars, routineVars
<1>5. (MakerKnowsPeer /\ HandlerHolds /\ HandlerStored /\ SenderIsLast /\ UnconfirmedSilent)'
  BY DEF IInv, MakerKnowsPeer, HandlerHolds, HandlerStored, SenderIsLast,
     UnconfirmedSilent, Redial, fieldVars, routineVars
<1> QED
  BY <1>1, <1>2, <1>3, <1>4, <1>5 DEF IInv

(* The handshaker enters its loop.                                         *)
LEMMA HandshakerStartStep ==
  ASSUME IInv, NEW n \in Node, NEW i \in SessionID, HandshakerStart(n, i)
  PROVE  IInv'
<1>1. TypeOK'
  BY DEF IInv, TypeOK, HandshakerPC, HandshakerStart, GoHandshaker,
     procVars, fieldVars, dialVars
<1>2. InviteIsNew'
  BY DEF IInv, InviteIsNew, HandshakerStart, GoHandshaker, dialVars
<1>3. SpawnHeld'
  BY DEF IInv, SpawnHeld, HandshakerStart, GoHandshaker, fieldVars, dialVars
<1>4. SenderIsLast'
  BY DEF IInv, SenderIsLast, HandshakerStart, GoHandshaker, fieldVars
<1>5. (MakerKnowsPeer /\ HandlerHolds /\ HandlerStored /\ DialerHolds /\ UnconfirmedSilent)'
  BY DEF IInv, MakerKnowsPeer, HandlerHolds, HandlerStored, DialerHolds, UnconfirmedSilent,
     HandshakerStart, fieldVars, dialVars
<1> QED
  BY <1>1, <1>2, <1>3, <1>4, <1>5 DEF IInv

(* The handshaker leaves its select.                                       *)
LEMMA TickWakeStep ==
  ASSUME IInv, NEW n \in Node, NEW i \in SessionID, TickWake(n, i)
  PROVE  IInv'
<1>1. TypeOK'
  BY DEF IInv, TypeOK, HandshakerPC, TickWake, GoHandshaker, procVars,
     fieldVars, dialVars
<1>2. InviteIsNew'
  BY DEF IInv, InviteIsNew, TickWake, GoHandshaker, dialVars
<1>3. SpawnHeld'
  BY DEF IInv, SpawnHeld, TickWake, GoHandshaker, fieldVars, dialVars
<1>4. SenderIsLast'
  BY DEF IInv, SenderIsLast, TickWake, GoHandshaker, fieldVars
<1>5. (MakerKnowsPeer /\ HandlerHolds /\ HandlerStored /\ DialerHolds /\ UnconfirmedSilent)'
  BY DEF IInv, MakerKnowsPeer, HandlerHolds, HandlerStored, DialerHolds, UnconfirmedSilent,
     TickWake, fieldVars, dialVars
<1> QED
  BY <1>1, <1>2, <1>3, <1>4, <1>5 DEF IInv

(* The handshaker gives up.                                                *)
LEMMA HandshakerTimeoutStep ==
  ASSUME IInv, NEW n \in Node, NEW i \in SessionID, HandshakerTimeout(n, i)
  PROVE  IInv'
<1>1. TypeOK'
  BY DEF IInv, TypeOK, HandshakerPC, HandshakerTimeout, GoHandshaker,
     procVars, fieldVars, dialVars
<1>2. InviteIsNew'
  BY DEF IInv, InviteIsNew, HandshakerTimeout, GoHandshaker, dialVars
<1>3. SpawnHeld'
  BY DEF IInv, SpawnHeld, HandshakerTimeout, GoHandshaker, fieldVars,
     dialVars
<1>4. SenderIsLast'
  BY DEF IInv, SenderIsLast, HandshakerTimeout, GoHandshaker, fieldVars
<1>5. (MakerKnowsPeer /\ HandlerHolds /\ HandlerStored /\ DialerHolds /\ UnconfirmedSilent)'
  BY DEF IInv, MakerKnowsPeer, HandlerHolds, HandlerStored, DialerHolds, UnconfirmedSilent,
     HandshakerTimeout, fieldVars, dialVars
<1> QED
  BY <1>1, <1>2, <1>3, <1>4, <1>5 DEF IInv

(* The maker of the session sends a handshake to the peer it knows.        *)
LEMMA HandshakerRoundStep ==
  ASSUME IInv, NEW n \in Node, NEW i \in SessionID, HandshakerRound(n, i)
  PROVE  IInv'
<1>1. TypeOK'
  <2>1. net' \subseteq Message
    BY DEF HandshakerRound, RoundSends, WriteTo, Handshake, Message, IInv,
       MakerKnowsPeer, TypeOK
  <2> QED
    BY <2>1 DEF HandshakerRound, GoHandshaker, HandshakerPC, IInv, TypeOK,
       procVars, fieldVars, dialVars
<1>2. InviteIsNew'
  BY DEF IInv, InviteIsNew, HandshakerRound, GoHandshaker, dialVars
<1>3. SpawnHeld'
  BY DEF IInv, SpawnHeld, HandshakerRound, GoHandshaker, fieldVars, dialVars
<1>4. SenderIsLast'
  BY DEF IInv, SenderIsLast, HandshakerRound, GoHandshaker, fieldVars
<1>5. (MakerKnowsPeer /\ HandlerHolds /\ HandlerStored /\ DialerHolds /\ UnconfirmedSilent)'
  BY DEF IInv, MakerKnowsPeer, HandlerHolds, HandlerStored, DialerHolds, UnconfirmedSilent,
     HandshakerRound, fieldVars, dialVars
<1> QED
  BY <1>1, <1>2, <1>3, <1>4, <1>5 DEF IInv

(* The handshaker ends as it starts the one sender.                        *)
LEMMA StartSendingStep ==
  ASSUME IInv, NEW n \in Node, NEW i \in SessionID, StartSending(n, i)
  PROVE  IInv'
<1>1. TypeOK'
  BY LimitAssumption DEF IInv, TypeOK, HandshakerPC, StartSending,
     GoHandshaker, procVars, dialVars
<1>2. InviteIsNew'
  BY DEF IInv, InviteIsNew, StartSending, GoHandshaker, dialVars
<1>3. SpawnHeld'
  BY DEF IInv, SpawnHeld, StartSending, GoHandshaker, dialVars
<1>4. SenderIsLast'
  BY DEF IInv, TypeOK, SenderIsLast, StartSending, GoHandshaker
<1>5. UnconfirmedSilent'
  BY DEF IInv, UnconfirmedSilent, StartSending
<1>6. (MakerKnowsPeer /\ HandlerHolds /\ DialerHolds)'
  BY DEF IInv, MakerKnowsPeer, HandlerHolds, DialerHolds, StartSending,
     dialVars
<1>7. HandlerStored'
  <2>1. \A r \in Node, j \in SessionID : UDPActivated[r][j] => UDPActivated'[r][j]
    BY DEF IInv, TypeOK, StartSending
  <2> QED
    BY <2>1 DEF IInv, HandlerHolds, HandlerStored, StartSending
<1> QED
  BY <1>1, <1>2, <1>3, <1>4, <1>5, <1>6, <1>7 DEF IInv

(* A handler takes up a handshake.                                         *)
LEMMA RecvHandshakeStep ==
  ASSUME IInv, NEW n \in Node, NEW w \in Worker, NEW m \in net,
     RecvHandshake(n, w, m)
  PROVE  IInv'
<1>1. TypeOK'
  BY DEF IInv, TypeOK, Message, Handler, HandlerPC, RecvHandshake, Delivered, procVars,
     fieldVars, routineVars, dialVars
<1>2. HandlerHolds' /\ HandlerStored'
  BY DEF IInv, TypeOK, HandlerHolds, HandlerStored, Message, RecvHandshake, fieldVars
<1>3. InviteIsNew'
  BY DEF IInv, InviteIsNew, RecvHandshake, routineVars, dialVars
<1>4. (MakerKnowsPeer /\ DialerHolds /\ SpawnHeld /\ SenderIsLast /\
   UnconfirmedSilent)'
  BY DEF IInv, MakerKnowsPeer, DialerHolds, SpawnHeld, SenderIsLast,
     UnconfirmedSilent, RecvHandshake, fieldVars, routineVars, dialVars
<1> QED
  BY <1>1, <1>2, <1>3, <1>4 DEF IInv

(* A handler reads the flag again.                                         *)
LEMMA LatchStep ==
  ASSUME IInv, NEW n \in Node, NEW w \in Worker, Latch(n, w)
  PROVE  IInv'
<1>1. TypeOK'
  <2>1. handler[n][w] \in Handler /\ handler[n][w].sid \in SessionID
    BY DEF Latch, IInv, HandlerHolds, TypeOK
  <2>2. UDPActivated[n][handler[n][w].sid] \in BOOLEAN
    BY <2>1 DEF IInv, TypeOK
  <2>3. [handler[n][w] EXCEPT !.pc = "latched",
                             !.was = UDPActivated[n][handler[n][w].sid]] \in Handler
    BY <2>1, <2>2 DEF Handler, HandlerPC
  <2>4. handler' \in [Node -> [Worker -> Handler]]
    BY <2>3, ZenonT(60) DEF Latch, IInv, TypeOK
  <2> QED
    BY <2>4 DEF Latch, IInv, TypeOK, procVars, fieldVars, routineVars,
       dialVars
<1>2. HandlerHolds' /\ HandlerStored'
  <2>1. \A r \in Node, v \in Worker :
          /\ handler'[r][v].sid = handler[r][v].sid /\ handler'[r][v].src = handler[r][v].src
          /\ r # n \/ v # w => handler'[r][v].pc = handler[r][v].pc
    BY DEF IInv, TypeOK, Handler, Latch
  <2>2. handler'[n][w].pc = "latched" /\ handler[n][w].pc = "checked"
    BY DEF IInv, TypeOK, Handler, Latch
  <2>3. HandlerHolds'
    BY <2>1, <2>2 DEF IInv, HandlerHolds
  <2>4. HandlerStored'
    <3> SUFFICES ASSUME NEW r \in Node, NEW v \in Worker
                 PROVE  LET h == handler'[r][v] IN
                        /\ h.pc \in {"answering", "flagged", "adopted"} => ReplyTo'[r][h.sid] # NoAddr
                        /\ h.pc \in {"flagged", "adopted"} => UDPActivated'[r][h.sid]
                        /\ h.pc = "adopted" => PeerAddress'[r][h.sid] # NoAddr
      BY DEF HandlerStored
    <3>1. UNCHANGED <<ReplyTo, UDPActivated, PeerAddress>>
      BY DEF Latch, fieldVars
    <3>2. CASE r = n /\ v = w
      BY <2>2, <3>2
    <3>3. CASE r # n \/ v # w
      <4>1. handler'[r][v].pc = handler[r][v].pc /\ handler'[r][v].sid = handler[r][v].sid
        BY <2>1, <3>3
      <4> QED
        BY <3>1, <4>1 DEF IInv, HandlerStored
    <3> QED
      BY <3>2, <3>3
  <2> QED
    BY <2>3, <2>4
<1>3. InviteIsNew'
  BY PeeringAssumption DEF IInv, TypeOK, InviteIsNew, Latch, routineVars,
     dialVars
<1>4. (MakerKnowsPeer /\ DialerHolds /\ SpawnHeld /\ SenderIsLast /\
   UnconfirmedSilent)'
  BY DEF IInv, MakerKnowsPeer, DialerHolds, SpawnHeld, SenderIsLast,
     UnconfirmedSilent, Latch, fieldVars, routineVars, dialVars
<1> QED
  BY <1>1, <1>2, <1>3, <1>4 DEF IInv

(* A handler that goes on holds what it held.                              *)
LEMMA GoHandlerStep ==
  ASSUME IInv, NEW n \in Node, NEW w \in Worker,
         NEW from \in HandlerPC \ {"idle"}, NEW to \in HandlerPC,
         GoHandler(n, w, from, to)
  PROVE  /\ handler' \in [Node -> [Worker -> Handler]]
         /\ \A r \in Node, v \in Worker :
              /\ handler'[r][v].sid = handler[r][v].sid
              /\ handler'[r][v].src = handler[r][v].src
              /\ r # n \/ v # w => handler'[r][v].pc = handler[r][v].pc
         /\ handler'[n][w].pc = to
         /\ handler[n][w].sid \in SessionID /\ handler[n][w].src \in Node
<1>1. handler[n][w] \in Handler /\ handler \in [Node -> [Worker -> Handler]]
  BY DEF IInv, TypeOK
<1>2. [handler[n][w] EXCEPT !.pc = to] \in Handler
  BY <1>1 DEF Handler
<1>3. handler' = [handler EXCEPT ![n][w] = [handler[n][w] EXCEPT !.pc = to]]
  BY DEF GoHandler
<1>4. handler' \in [Node -> [Worker -> Handler]]
  <2> DEFINE x == [handler[n][w] EXCEPT !.pc = to]
  <2>1. x \in Handler /\ handler' = [handler EXCEPT ![n][w] = x]
    BY <1>2, <1>3
  <2> HIDE DEF x
  <2> QED
    BY <1>1, <2>1
<1>5. \A r \in Node, v \in Worker :
        /\ handler'[r][v].sid = handler[r][v].sid
        /\ handler'[r][v].src = handler[r][v].src
        /\ r # n \/ v # w => handler'[r][v].pc = handler[r][v].pc
  BY <1>1, <1>3 DEF Handler
<1>6. handler'[n][w].pc = to
  BY <1>1, <1>3 DEF Handler
<1>7. handler[n][w].sid \in SessionID /\ handler[n][w].src \in Node
  BY DEF GoHandler, IInv, HandlerHolds
<1> QED
  BY <1>4, <1>5, <1>6, <1>7

(* What the steps of a handler leave alone: they store into the session it *)
(* holds, and nothing that was there is taken back.                        *)
LEMMA GoHandlerKeeps ==
  ASSUME IInv, NEW n \in Node, NEW w \in Worker,
         NEW from \in HandlerPC \ {"idle"}, NEW to \in HandlerPC \ {"idle"},
         GoHandler(n, w, from, to), UNCHANGED <<handshaker, net>>,
         UDPActivated' \in [Node -> [SessionID -> BOOLEAN]],
         PeerAddress' \in [Node -> [SessionID -> Node \cup {NoAddr}]],
         ReplyTo' \in [Node -> [SessionID -> Node \cup {NoAddr}]],
         \A r \in Node, j \in SessionID :
            /\ UDPActivated[r][j] => UDPActivated'[r][j]
            /\ PeerAddress[r][j] # NoAddr => PeerAddress'[r][j] # NoAddr
            /\ ReplyTo[r][j] # NoAddr => ReplyTo'[r][j] # NoAddr
  PROVE  /\ TypeOK' /\ MakerKnowsPeer' /\ HandlerHolds' /\ DialerHolds' /\ InviteIsNew'
         /\ SpawnHeld' /\ SenderIsLast' /\ UnconfirmedSilent'
<1>1. /\ handler' \in [Node -> [Worker -> Handler]]
      /\ \A r \in Node, v \in Worker :
           /\ handler'[r][v].sid = handler[r][v].sid
           /\ handler'[r][v].src = handler[r][v].src
           /\ r # n \/ v # w => handler'[r][v].pc = handler[r][v].pc
      /\ handler[n][w].sid \in SessionID /\ handler[n][w].src \in Node
  BY GoHandlerStep
<1>2. TypeOK'
  BY <1>1 DEF IInv, TypeOK, GoHandler, procVars, dialVars
<1>3. MakerKnowsPeer'
  BY DEF IInv, MakerKnowsPeer, GoHandler
<1>4. HandlerHolds'
  <2> SUFFICES ASSUME NEW r \in Node, NEW v \in Worker, handler'[r][v].pc # "idle"
               PROVE  handler'[r][v].sid \in SessionID /\ handler'[r][v].src \in Node
    BY DEF HandlerHolds
  <2>1. CASE r = n /\ v = w
    BY <1>1, <2>1
  <2>2. CASE r # n \/ v # w
    <3>1. /\ handler'[r][v].pc = handler[r][v].pc /\ handler'[r][v].sid = handler[r][v].sid
          /\ handler'[r][v].src = handler[r][v].src
      BY <1>1, <2>2
    <3> QED
      BY <3>1 DEF IInv, HandlerHolds
  <2> QED
    BY <2>1, <2>2
<1>5. InviteIsNew'
  <2>1. \A q \in Peering : q[1] \in Node
    BY PeeringAssumption
  <2> QED
    BY <1>1, <2>1 DEF IInv, InviteIsNew, GoHandler, dialVars
<1>6. DialerHolds' /\ SpawnHeld'
  BY DEF IInv, DialerHolds, SpawnHeld, GoHandler, dialVars
<1>7. SenderIsLast'
  BY DEF IInv, SenderIsLast, GoHandler
<1>8. UnconfirmedSilent'
  BY DEF IInv, UnconfirmedSilent, GoHandler
<1> QED
  BY <1>2, <1>3, <1>4, <1>5, <1>6, <1>7, <1>8

(* A handler stores the source of its handshake.                           *)
LEMMA AnswerStep ==
  ASSUME IInv, NEW n \in Node, NEW w \in Worker, Answer(n, w)
  PROVE  IInv'
<1>0. GoHandler(n, w, "latched", "answering") /\ "latched" \in HandlerPC \ {"idle"}
      /\ "answering" \in HandlerPC \ {"idle"}
  BY DEF Answer, HandlerPC
<1>1. /\ \A r \in Node, v \in Worker :
           /\ handler'[r][v].sid = handler[r][v].sid
           /\ r # n \/ v # w => handler'[r][v].pc = handler[r][v].pc
      /\ handler'[n][w].pc = "answering"
      /\ handler[n][w].sid \in SessionID /\ handler[n][w].src \in Node
  BY <1>0, GoHandlerStep
<1>2. handler[n][w].src # NoAddr
  BY <1>1, NullAssumption
<1>3. ReplyTo' \in [Node -> [SessionID -> Node \cup {NoAddr}]]
  BY <1>1 DEF Answer, IInv, TypeOK
<1>4. /\ ReplyTo'[n][handler[n][w].sid] # NoAddr
      /\ \A r \in Node, j \in SessionID : ReplyTo[r][j] # NoAddr => ReplyTo'[r][j] # NoAddr
  BY <1>1, <1>2 DEF Answer, IInv, TypeOK
<1>5. /\ TypeOK' /\ MakerKnowsPeer' /\ HandlerHolds' /\ DialerHolds' /\ InviteIsNew'
      /\ SpawnHeld' /\ SenderIsLast' /\ UnconfirmedSilent'
  BY <1>0, <1>3, <1>4, GoHandlerKeeps DEF Answer, IInv, TypeOK
<1>6. HandlerStored'
  <2> SUFFICES ASSUME NEW r \in Node, NEW v \in Worker
               PROVE  LET h == handler'[r][v] IN
                      /\ h.pc \in {"answering", "flagged", "adopted"} => ReplyTo'[r][h.sid] # NoAddr
                      /\ h.pc \in {"flagged", "adopted"} => UDPActivated'[r][h.sid]
                      /\ h.pc = "adopted" => PeerAddress'[r][h.sid] # NoAddr
    BY DEF HandlerStored
  <2>1. CASE r = n /\ v = w
    BY <1>1, <1>4, <2>1
  <2>2. CASE r # n \/ v # w
    BY <1>1, <1>4, <2>2 DEF Answer, IInv, HandlerStored, HandlerHolds
  <2> QED
    BY <2>1, <2>2
<1> QED
  BY <1>5, <1>6 DEF IInv

(* A handler activates its session.                                        *)
LEMMA ActivateStep ==
  ASSUME IInv, NEW n \in Node, NEW w \in Worker, Activate(n, w)
  PROVE  IInv'
<1>0. GoHandler(n, w, "answering", "flagged") /\ "answering" \in HandlerPC \ {"idle"}
      /\ "flagged" \in HandlerPC \ {"idle"}
  BY DEF Activate, HandlerPC
<1>1. /\ \A r \in Node, v \in Worker :
           /\ handler'[r][v].sid = handler[r][v].sid
           /\ r # n \/ v # w => handler'[r][v].pc = handler[r][v].pc
      /\ handler'[n][w].pc = "flagged" /\ handler[n][w].pc = "answering"
      /\ handler[n][w].sid \in SessionID
  <2>1. handler[n][w].pc = "answering"
    BY <1>0 DEF GoHandler
  <2> QED
    BY <1>0, <2>1, GoHandlerStep
<1>2. UDPActivated \in [Node -> [SessionID -> BOOLEAN]]
  BY DEF IInv, TypeOK
<1>3. /\ UDPActivated' \in [Node -> [SessionID -> BOOLEAN]]
      /\ UDPActivated'[n][handler[n][w].sid]
      /\ \A r \in Node, j \in SessionID : UDPActivated[r][j] => UDPActivated'[r][j]
  BY <1>1, <1>2 DEF Activate
<1>4. /\ TypeOK' /\ MakerKnowsPeer' /\ HandlerHolds' /\ DialerHolds' /\ InviteIsNew'
      /\ SpawnHeld' /\ SenderIsLast' /\ UnconfirmedSilent'
  BY <1>0, <1>3, GoHandlerKeeps DEF Activate, IInv, TypeOK
<1>5. HandlerStored'
  <2> SUFFICES ASSUME NEW r \in Node, NEW v \in Worker
               PROVE  LET h == handler'[r][v] IN
                      /\ h.pc \in {"answering", "flagged", "adopted"} => ReplyTo'[r][h.sid] # NoAddr
                      /\ h.pc \in {"flagged", "adopted"} => UDPActivated'[r][h.sid]
                      /\ h.pc = "adopted" => PeerAddress'[r][h.sid] # NoAddr
    BY DEF HandlerStored
  <2>1. CASE r = n /\ v = w
    BY <1>1, <1>3, <2>1 DEF Activate, IInv, HandlerStored
  <2>2. CASE r # n \/ v # w
    BY <1>1, <1>3, <2>2 DEF Activate, IInv, HandlerStored, HandlerHolds
  <2> QED
    BY <2>1, <2>2
<1> QED
  BY <1>4, <1>5 DEF IInv

(* A handler gives its session a peer, if it has none.                     *)
LEMMA AdoptStep ==
  ASSUME IInv, NEW n \in Node, NEW w \in Worker, Adopt(n, w)
  PROVE  IInv'
<1>0. GoHandler(n, w, "flagged", "adopted") /\ "flagged" \in HandlerPC \ {"idle"}
      /\ "adopted" \in HandlerPC \ {"idle"}
  BY DEF Adopt, HandlerPC
<1>1. /\ \A r \in Node, v \in Worker :
           /\ handler'[r][v].sid = handler[r][v].sid
           /\ r # n \/ v # w => handler'[r][v].pc = handler[r][v].pc
      /\ handler'[n][w].pc = "adopted" /\ handler[n][w].pc = "flagged"
      /\ handler[n][w].sid \in SessionID /\ handler[n][w].src \in Node
  <2>1. handler[n][w].pc = "flagged"
    BY <1>0 DEF GoHandler
  <2> QED
    BY <1>0, <2>1, GoHandlerStep
<1>2. handler[n][w].src # NoAddr
  BY <1>1, NullAssumption
<1>3. PeerAddress' \in [Node -> [SessionID -> Node \cup {NoAddr}]]
  BY <1>1 DEF Adopt, IInv, TypeOK
<1>4. /\ PeerAddress'[n][handler[n][w].sid] # NoAddr
      /\ \A r \in Node, j \in SessionID :
           PeerAddress[r][j] # NoAddr => PeerAddress'[r][j] # NoAddr
  BY <1>1, <1>2 DEF Adopt, IInv, TypeOK
<1>5. /\ TypeOK' /\ MakerKnowsPeer' /\ HandlerHolds' /\ DialerHolds' /\ InviteIsNew'
      /\ SpawnHeld' /\ SenderIsLast' /\ UnconfirmedSilent'
  BY <1>0, <1>3, <1>4, GoHandlerKeeps DEF Adopt, IInv, TypeOK
<1>6. HandlerStored'
  <2> SUFFICES ASSUME NEW r \in Node, NEW v \in Worker
               PROVE  LET h == handler'[r][v] IN
                      /\ h.pc \in {"answering", "flagged", "adopted"} => ReplyTo'[r][h.sid] # NoAddr
                      /\ h.pc \in {"flagged", "adopted"} => UDPActivated'[r][h.sid]
                      /\ h.pc = "adopted" => PeerAddress'[r][h.sid] # NoAddr
    BY DEF HandlerStored
  <2>1. CASE r = n /\ v = w
    BY <1>1, <1>4, <2>1 DEF Adopt, IInv, HandlerStored
  <2>2. CASE r # n \/ v # w
    BY <1>1, <1>4, <2>2 DEF Adopt, IInv, HandlerStored, HandlerHolds
  <2> QED
    BY <2>1, <2>2
<1> QED
  BY <1>5, <1>6 DEF IInv

(* Only a handshaker in its select gets the boop, and such a session has   *)
(* no sender; by then it has all its addresses.                            *)
LEMMA NotifyStep ==
  ASSUME IInv, NEW n \in Node, NEW w \in Worker, Notify(n, w)
  PROVE  IInv'
<1>0. PICK i \in SessionID : i = handler[n][w].sid
  BY DEF Notify, IInv, HandlerHolds
<1>1. /\ UDPActivated[n][i] /\ ReplyTo[n][i] # NoAddr /\ PeerAddress[n][i] # NoAddr
  BY <1>0 DEF Notify, IInv, HandlerStored
<1>2. TypeOK'
  <2>1. net' \subseteq Message
    BY <1>0, <1>1 DEF Notify, WriteTo, Handshake, Message, IInv, TypeOK
  <2>2. handshaker' \in [Node -> [SessionID -> HandshakerPC]]
    BY <1>0 DEF Notify, Boop, HandshakerPC, IInv, TypeOK
  <2>3. handler' \in [Node -> [Worker -> Handler]]
    BY DEF Notify, Handler, HandlerPC, IdleHandler, IInv, TypeOK
  <2> QED
    BY <2>1, <2>2, <2>3 DEF Notify, IInv, TypeOK, procVars, dialVars, fieldVars
<1>3. HandlerHolds' /\ HandlerStored'
  BY DEF IInv, TypeOK, HandlerHolds, HandlerStored, Notify, IdleHandler, fieldVars
<1>4. InviteIsNew'
  <2>1. \A q \in Peering : dialer[q] \in {"asked", "offered"} =>
         handshaker'[q[1]][invite[q]] = handshaker[q[1]][invite[q]]
    BY DEF Notify, Boop, IInv, InviteIsNew
  <2>2. \A q \in Peering : dialer[q] \in {"asked", "offered"} =>
         \A v \in Worker : handler'[q[1]][v].sid # invite[q]
    BY NullAssumption DEF Notify, IdleHandler, IInv, InviteIsNew,
       DialerHolds
  <2> QED
    BY <2>1, <2>2 DEF Notify, IInv, InviteIsNew, dialVars
<1>5. SpawnHeld'
  BY DEF IInv, SpawnHeld, Notify, Boop, dialVars, fieldVars
<1>6. SenderIsLast'
  BY <1>0, <1>1 DEF Notify, Boop, IInv, SenderIsLast, TypeOK, fieldVars
<1>7. (MakerKnowsPeer /\ UnconfirmedSilent /\ DialerHolds)'
  BY DEF IInv, MakerKnowsPeer, UnconfirmedSilent, DialerHolds, Notify, dialVars, fieldVars
<1> QED
  BY <1>2, <1>3, <1>4, <1>5, <1>6, <1>7 DEF IInv

(* A sender sends to the address it has.                                   *)
LEMMA SendPingStep ==
  ASSUME IInv, NEW n \in Node, NEW i \in SessionID, SendPing(n, i)
  PROVE  IInv'
<1>1. TypeOK'
  BY DEF IInv, TypeOK, Message, Ping, WriteTo, SendPing, procVars,
     fieldVars, routineVars, dialVars
<1>2. (MakerKnowsPeer /\ HandlerHolds /\ HandlerStored /\ DialerHolds /\ InviteIsNew /\
   SpawnHeld /\ SenderIsLast /\ UnconfirmedSilent)'
  BY DEF IInv, MakerKnowsPeer, HandlerHolds, HandlerStored, DialerHolds, InviteIsNew,
     SpawnHeld, SenderIsLast, UnconfirmedSilent, SendPing, fieldVars,
     routineVars, dialVars
<1> QED
  BY <1>1, <1>2 DEF IInv

(* A sender ends.                                                          *)
LEMMA StopSendingStep ==
  ASSUME IInv, NEW n \in Node, NEW i \in SessionID, StopSending(n, i)
  PROVE  IInv'
<1>1. TypeOK'
  BY DEF IInv, TypeOK, StopSending, procVars, fieldVars, dialVars
<1>2. InviteIsNew'
  BY DEF IInv, InviteIsNew, StopSending, dialVars
<1>3. SenderIsLast'
  BY DEF IInv, SenderIsLast, StopSending, fieldVars
<1>4. (MakerKnowsPeer /\ HandlerHolds /\ HandlerStored /\ DialerHolds /\ SpawnHeld /\
   UnconfirmedSilent)'
  BY DEF IInv, MakerKnowsPeer, HandlerHolds, HandlerStored, DialerHolds, SpawnHeld,
     UnconfirmedSilent, StopSending, fieldVars, dialVars
<1> QED
  BY <1>1, <1>2, <1>3, <1>4 DEF IInv

(* Only an activated session takes a ping.                                 *)
LEMMA RecvPingStep ==
  ASSUME IInv, NEW n \in Node, NEW m \in net, RecvPing(n, m)
  PROVE  IInv'
<1>1. TypeOK'
  <2>1. m \in Message /\ net' \subseteq Message
    BY DEF RecvPing, Delivered, IInv, TypeOK
  <2>2. ReplyTo' \in [Node -> [SessionID -> Node \cup {NoAddr}]]
    BY <2>1 DEF RecvPing, Message, IInv, TypeOK
  <2>3. SinceRX' \in [Node -> [SessionID -> 0 .. Old]]
    BY <2>1, LimitAssumption DEF RecvPing, Message, IInv, TypeOK
  <2> QED
    BY <2>1, <2>2, <2>3 DEF RecvPing, IInv, TypeOK, procVars, routineVars, dialVars
<1>2. SenderIsLast'
  BY NullAssumption DEF IInv, TypeOK, SenderIsLast, Message, RecvPing,
     routineVars
<1>3. UnconfirmedSilent'
  BY DEF IInv, UnconfirmedSilent, RecvPing, PingWelcome
<1>4. (MakerKnowsPeer /\ HandlerHolds /\ DialerHolds /\ InviteIsNew /\
   SpawnHeld)'
  BY DEF IInv, MakerKnowsPeer, HandlerHolds, DialerHolds, InviteIsNew,
     SpawnHeld, RecvPing, routineVars, dialVars
<1>5. HandlerStored'
  <2>1. m.src # NoAddr
    BY NullAssumption DEF IInv, TypeOK, Message
  <2>2. \A r \in Node, j \in SessionID : ReplyTo[r][j] # NoAddr => ReplyTo'[r][j] # NoAddr
    BY <2>1 DEF IInv, TypeOK, RecvPing
  <2> QED
    BY <2>2 DEF IInv, HandlerHolds, HandlerStored, RecvPing
<1> QED
  BY <1>1, <1>2, <1>3, <1>4, <1>5 DEF IInv

(* A packet is lost or refused.                                            *)
LEMMA DropStep ==
  ASSUME IInv, NEW m \in net, Drop(m)
  PROVE  IInv'
<1>1. TypeOK'
  BY DEF IInv, TypeOK, Drop, procVars, fieldVars, routineVars, dialVars
<1>2. (MakerKnowsPeer /\ HandlerHolds /\ HandlerStored /\ DialerHolds /\ InviteIsNew /\
   SpawnHeld /\ SenderIsLast /\ UnconfirmedSilent)'
  BY DEF IInv, MakerKnowsPeer, HandlerHolds, HandlerStored, DialerHolds, InviteIsNew,
     SpawnHeld, SenderIsLast, UnconfirmedSilent, Drop, fieldVars,
     routineVars, dialVars
<1> QED
  BY <1>1, <1>2 DEF IInv

(* An age of Old stays Old.                                                *)
LEMMA TickStep ==
  ASSUME IInv, Tick
  PROVE  IInv'
<1>1. TypeOK'
  BY LimitAssumption DEF IInv, TypeOK, Tick, AllOlder, Older, procVars,
     dialVars
<1>2. UnconfirmedSilent'
  BY LimitAssumption DEF IInv, UnconfirmedSilent, Tick, AllOlder, Older
<1>3. (MakerKnowsPeer /\ HandlerHolds /\ HandlerStored /\ DialerHolds /\ InviteIsNew /\
   SpawnHeld /\ SenderIsLast)'
  BY DEF IInv, MakerKnowsPeer, HandlerHolds, HandlerStored, DialerHolds, InviteIsNew,
     SpawnHeld, SenderIsLast, Tick, dialVars
<1> QED
  BY <1>1, <1>2, <1>3 DEF IInv

-----------------------------------------------------------------------------
(* The initial state: no session, no goroutine, nothing in flight.         *)
LEMMA InitIInv == Init => IInv
<1> SUFFICES ASSUME Init PROVE IInv
  OBVIOUS
<1>1. TypeOK
  BY LimitAssumption DEF Init, TypeOK, Handler, HandlerPC, IdleHandler, HandshakerPC, DialerPC
<1>2. MakerKnowsPeer /\ HandlerHolds /\ HandlerStored /\ SenderIsLast /\ UnconfirmedSilent
  BY DEF Init, MakerKnowsPeer, HandlerHolds, HandlerStored, SenderIsLast,
         UnconfirmedSilent, IdleHandler
<1>3. DialerHolds /\ InviteIsNew /\ SpawnHeld
  BY DEF Init, DialerHolds, InviteIsNew, SpawnHeld
<1> QED
  BY <1>1, <1>2, <1>3 DEF IInv

(* A panic is the end of a process.                           *)
LEMMA PanicStep ==
  ASSUME IInv, NEW n \in Node, NEW cause \in {"nilSession", "nilSocket"}, Panic(n, cause)
  PROVE  IInv'
<1>1. status' \in [Node -> {"up", "nilSession", "nilSocket"}]
  BY DEF Panic, IInv, TypeOK
<1>2. restarts' \in 0 .. MaxRestarts /\ net' = net /\ Stop(n)
  BY DEF Panic, IInv, TypeOK
<1> QED
  BY <1>1, <1>2, StopStep

(* A restart is the end of a process too.                                  *)
LEMMA RestartStep ==
  ASSUME IInv, NEW n \in Node, Restart(n)
  PROVE  IInv'
<1>1. status' \in [Node -> {"up", "nilSession", "nilSocket"}]
  BY DEF Restart, IInv, TypeOK
<1>2. restarts' \in 0 .. MaxRestarts
  BY LimitAssumption DEF Restart, IInv, TypeOK
<1>3. net' = net /\ Stop(n)
  BY DEF Restart
<1> QED
  BY <1>1, <1>2, <1>3, StopStep

(* Every step preserves the inductive invariant.                           *)
LEMMA NextIInv == IInv /\ [Next]_vars => IInv'
<1> SUFFICES ASSUME IInv, [Next]_vars PROVE IInv'
  OBVIOUS
<1>1. ASSUME NEW n \in Node, Process(n) \/ Restart(n) PROVE IInv'
  BY <1>1, ListenUDPStep, sessionGCStep, RestartStep DEF Process
<1>2. ASSUME NEW n \in Node, NEW i \in SessionID, HandshakerStep(n, i) PROVE IInv'
  <2>1. StartWithoutSocket(n, i) => IInv'
    BY PanicStep DEF StartWithoutSocket
  <2> QED
    BY <1>2, <2>1, HandshakerStartStep, TickWakeStep, HandshakerTimeoutStep,
       HandshakerRoundStep, StartSendingStep DEF HandshakerStep
<1>3. ASSUME NEW n \in Node, NEW i \in SessionID, SessionStep(n, i) PROVE IInv'
  <2>1. SpawnOnNil(n, i) => IInv'
    BY PanicStep DEF SpawnOnNil
  <2> QED
    BY <1>3, <2>1, SpawnWaiterStep, SendPingStep, StopSendingStep DEF SessionStep
<1>4. ASSUME NEW p \in Peering, DialerStep(p) PROVE IInv'
  BY <1>4, InviteStep, AcceptInviteStep, InviteFailsStep, SpawnHandshakerStep, RedialStep
     DEF DialerStep
<1>5. ASSUME NEW n \in Node, NEW w \in Worker, HandlerStep(n, w) PROVE IInv'
  BY <1>5, LatchStep, AnswerStep, ActivateStep, AdoptStep, NotifyStep DEF HandlerStep
<1>6. ASSUME NEW n \in Node, NEW m \in net, Receive(n, m) PROVE IInv'
  BY <1>6, RecvPingStep, RecvHandshakeStep DEF Receive
<1>7. ASSUME NEW m \in net, Drop(m) PROVE IInv'
  BY <1>7, DropStep
<1>8. CASE Tick
  BY <1>8, TickStep
<1>9. CASE UNCHANGED vars
  <2>1. TypeOK'
    BY <1>9 DEF IInv, TypeOK, vars, procVars, fieldVars, routineVars, dialVars
  <2>2. (MakerKnowsPeer /\ HandlerHolds /\ HandlerStored /\ DialerHolds /\ InviteIsNew)'
    BY <1>9 DEF IInv, MakerKnowsPeer, HandlerHolds, HandlerStored, DialerHolds, InviteIsNew,
       vars, fieldVars, routineVars, dialVars
  <2>3. (SpawnHeld /\ SenderIsLast /\ UnconfirmedSilent)'
    BY <1>9 DEF IInv, SpawnHeld, SenderIsLast, UnconfirmedSilent,
       vars, fieldVars, routineVars, dialVars
  <2> QED
    BY <2>1, <2>2, <2>3 DEF IInv
<1> QED
  BY <1>1, <1>2, <1>3, <1>4, <1>5, <1>6, <1>7, <1>8, <1>9 DEF Next

(* The inductive invariant holds in every reachable state, for any number  *)
(* of processes, peerings, ids, handlers and restarts.                     *)
THEOREM Invariant == Spec => []IInv
<1> QED
  BY InitIInv, NextIInv, PTL DEF Spec

(* Every variable keeps its type; in particular a handshake or a ping is   *)
(* never written to the nil address.                                       *)
THEOREM TypeCorrect == Spec => []TypeOK
<1>1. IInv => TypeOK
  BY DEF IInv
<1> QED
  BY <1>1, Invariant, PTL

(* sendPackets runs only for an activated session with an address.         *)
THEOREM SendersHavePeers == Spec => []SenderHasPeer
<1>1. IInv => SenderHasPeer
  BY DEF IInv, SenderIsLast, SenderHasPeer
<1> QED
  BY <1>1, Invariant, PTL

(* However handshakes race, a session never has two senders.               *)
THEOREM OneSender == Spec => []OneSenderPerSession
<1>1. ASSUME IInv, NEW n \in Node, NEW i \in SessionID PROVE senders[n][i] <= 1
  <2>1. senders[n][i] \in Nat
    BY <1>1 DEF IInv, TypeOK
  <2>2. senders[n][i] > 0 => senders[n][i] = 1
    BY <1>1 DEF IInv, SenderIsLast
  <2> QED
    BY <2>1, <2>2
<1>2. IInv => OneSenderPerSession
  BY <1>1 DEF OneSenderPerSession
<1> QED
  BY <1>2, Invariant, PTL

(* handlePacket never stamps LastRX of a session without handshake.        *)
THEOREM Unmeasured == Spec => []UnconfirmedNeverMeasured
<1>1. IInv => UnconfirmedNeverMeasured
  BY DEF IInv, UnconfirmedSilent, UnconfirmedNeverMeasured
<1> QED
  BY <1>1, Invariant, PTL

-----------------------------------------------------------------------------
(***************************************************************************)
(* The two ends of a session: whatever is left of an id in tables,         *)
(* goroutines and packets belongs to one dialer and one process it dialed. *)
(***************************************************************************)
(* Process n still has something of session i.                             *)
Live(n, i) ==
  \/ i \in sessionMap[n]
  \/ handshaker[n][i] \notin {"none", "done"}
  \/ senders[n][i] > 0
  \/ \E w \in Worker : handler[n][w].sid = i

(* What process n has of session i, if o is the other end and mine says    *)
(* whether n is the one that dialed.                                       *)
End(i, n, o, mine) ==
  /\ MadeByMe[n][i] = mine
  /\ PeerAddress[n][i] \in {NoAddr, o} /\ ReplyTo[n][i] \in {NoAddr, o}
  /\ mine => PeerAddress[n][i] = o
  /\ UDPActivated[n][i] => ReplyTo[n][i] = o
  /\ \A w \in Worker : handler[n][w].sid = i => handler[n][w].src = o

(* The ends of session i are a, who dialed, and b.                         *)
Paired(i, a, b) ==
  /\ \A n \in Node : Live(n, i) => n \in {a, b}
  /\ Live(a, i) => End(i, a, b, TRUE)
  /\ Live(b, i) => End(i, b, a, FALSE)
  /\ \A m \in net : m.sid = i => <<m.src, m.dst>> \in {<<a, b>>, <<b, a>>}
  /\ \A p \in Peering : invite[p] = i => p[1] = a /\ p[2] = b

AllPaired ==
  \A i \in SessionID :
    InUse(i) => \E a, b \in Node : a # b /\ Paired(i, a, b)

(* Until the dialer has stored its session nothing is sent for the id, and *)
(* the invited side is not activated.                                      *)
Quiet(i) ==
  /\ \A m \in net : m.sid # i
  /\ \A n \in Node :
       /\ senders[n][i] = 0 /\ handshaker[n][i] # "booped"
       /\ \A w \in Worker : handler[n][w].sid # i
       /\ Live(n, i) => ~UDPActivated[n][i] /\ ~MadeByMe[n][i]

AskedIsQuiet ==
  \A p \in Peering : dialer[p] \in {"asked", "offered"} => Quiet(invite[p])

(* A ping in flight comes from an activated session.                       *)
PingsConfirmed == \A m \in net : m.type = "t" => UDPActivated[m.src][m.sid]

(* Process n knows the peer of its session i.                              *)
KnowsPeer(n, i) == PeerAddress[n][i] # NoAddr

(* A packet leaves a process only when that process knows its peer, and    *)
(* only such a process is answered: a ping is on its way between two ends  *)
(* that know each other.                                                   *)
PeersKnown ==
  /\ \A m \in net :
       KnowsPeer(m.src, m.sid) /\ (m.type = "t" => KnowsPeer(m.dst, m.sid))
  /\ \A n \in Node, w \in Worker, i \in SessionID :
       handler[n][w].sid = i => KnowsPeer(handler[n][w].src, i)
  /\ \A n \in Node, i \in SessionID :
       Live(n, i) /\ ReplyTo[n][i] # NoAddr => KnowsPeer(ReplyTo[n][i], i)

PairInv ==
  /\ IInv
  /\ AllPaired
  /\ AskedIsQuiet
  /\ PingsConfirmed
  /\ PeersKnown
  /\ MeasuredBothWays

-----------------------------------------------------------------------------
(* Steps that take from an id and add nothing.                             *)

(* Nothing of id i is new, and what stays has its fields as before.        *)
Keeps(i) ==
  /\ \A n \in Node :
       Live(n, i)' =>
         /\ Live(n, i)
         /\ MadeByMe'[n][i] = MadeByMe[n][i] /\ PeerAddress'[n][i] = PeerAddress[n][i]
         /\ ReplyTo'[n][i] = ReplyTo[n][i] /\ UDPActivated'[n][i] = UDPActivated[n][i]
  /\ \A n \in Node, w \in Worker :
       handler'[n][w].sid = i =>
         handler[n][w].sid = i /\ handler'[n][w].src = handler[n][w].src
  /\ \A m \in net' : m.sid = i => m \in net
  /\ \A p \in Peering : invite'[p] = i => invite[p] = i

(* Nor is there a new sender, or a handshaker that was booped.             *)
NoNewSender(i) ==
  \A n \in Node :
    /\ senders'[n][i] > 0 => senders[n][i] > 0
    /\ handshaker'[n][i] = "booped" => handshaker[n][i] = "booped"

(* Then the ends are as before,                                            *)
LEMMA KeepsPaired ==
  ASSUME NEW i \in SessionID, NEW a \in Node, NEW b \in Node, Paired(i, a, b), Keeps(i)
  PROVE  Paired(i, a, b)'
<1>1. \A n \in Node : Live(n, i)' => Live(n, i) /\ n \in {a, b}
  BY DEF Keeps, Paired
<1>2. Live(a, i)' => End(i, a, b, TRUE)'
  BY DEF Keeps, Paired, End
<1>3. Live(b, i)' => End(i, b, a, FALSE)'
  BY DEF Keeps, Paired, End
<1>4. \A m \in net' : m.sid = i => <<m.src, m.dst>> \in {<<a, b>>, <<b, a>>}
  BY DEF Keeps, Paired
<1>5. \A p \in Peering : invite'[p] = i => p[1] = a /\ p[2] = b
  BY DEF Keeps, Paired
<1> QED
  BY <1>1, <1>2, <1>3, <1>4, <1>5 DEF Paired

(* the id is in use only if it was, by a process, a packet or a dialer,    *)
LEMMA UseIsLive ==
  ASSUME NEW i \in SessionID
  PROVE  InUse(i) <=> \/ \E n \in Node : Live(n, i)
                      \/ \E m \in net : m.sid = i
                      \/ \E p \in Peering : invite[p] = i
BY DEF InUse, Live

(* so that a step that adds nothing takes no new id into use,              *)
LEMMA KeepsUse ==
  ASSUME NEW i \in SessionID, Keeps(i), InUse(i)'
  PROVE  InUse(i)
<1>1. \/ \E n \in Node : Live(n, i)'
      \/ \E m \in net' : m.sid = i
      \/ \E p \in Peering : invite'[p] = i
  BY DEF InUse, Live
<1> QED
  BY <1>1, UseIsLive DEF Keeps

(* and an id that was quiet still is.                                      *)
LEMMA KeepsQuiet ==
  ASSUME IInv, IInv', NEW i \in SessionID, Keeps(i), NoNewSender(i), Quiet(i)
  PROVE  Quiet(i)'
<1>1. \A m \in net' : m.sid # i
  BY DEF Keeps, Quiet
<1>2. ASSUME NEW n \in Node
      PROVE  /\ senders'[n][i] = 0 /\ handshaker'[n][i] # "booped"
             /\ \A w \in Worker : handler'[n][w].sid # i
             /\ Live(n, i)' => ~UDPActivated'[n][i] /\ ~MadeByMe'[n][i]
  <2>1. senders'[n][i] \in Nat /\ senders[n][i] = 0
    BY DEF IInv, TypeOK, Quiet
  <2> QED
    BY <2>1 DEF Keeps, NoNewSender, Quiet
<1> QED
  BY <1>1, <1>2 DEF Quiet

(* All the ids are paired if each is left alone or paired anew.            *)
LEMMA PairedStep ==
  ASSUME AllPaired,
         \A i \in SessionID : Keeps(i) \/ (\E a, b \in Node : a # b /\ Paired(i, a, b)')
  PROVE  AllPaired'
<1> SUFFICES ASSUME NEW i \in SessionID, InUse(i)'
             PROVE  \E a, b \in Node : a # b /\ Paired(i, a, b)'
  BY DEF AllPaired
<1>1. CASE Keeps(i)
  <2>1. PICK a \in Node, b \in Node : a # b /\ Paired(i, a, b)
    BY <1>1, KeepsUse DEF AllPaired
  <2> QED
    BY <1>1, <2>1, KeepsPaired
<1> QED
  BY <1>1

(* A process that has something of a session is one of its two ends.       *)
LEMMA TwoEnds ==
  ASSUME AllPaired, NEW i \in SessionID, NEW n \in Node, Live(n, i)
  PROVE  \E a, b \in Node : a # b /\ Paired(i, a, b) /\ n \in {a, b}
<1>1. InUse(i)
  BY UseIsLive
<1> QED
  BY <1>1 DEF AllPaired, Paired

(* Nobody forgets a peer, and what is new comes from, and is answered to,  *)
(* processes that know theirs.                                             *)
LEMMA PeersKnownStep ==
  ASSUME PairInv, IInv',
         \A r \in Node, j \in SessionID : KnowsPeer(r, j) => KnowsPeer(r, j)',
         \A m \in net' : m \in net \/
           (KnowsPeer(m.src, m.sid)' /\ (m.type = "t" => KnowsPeer(m.dst, m.sid)')),
         \A r \in Node, v \in Worker, j \in SessionID : handler'[r][v].sid = j =>
           \/ handler[r][v].sid = j /\ handler'[r][v].src = handler[r][v].src
           \/ PeerAddress'[handler'[r][v].src][j] # NoAddr,
         \A r \in Node, j \in SessionID : Live(r, j)' /\ ReplyTo'[r][j] # NoAddr =>
           \/ Live(r, j) /\ ReplyTo'[r][j] = ReplyTo[r][j]
           \/ PeerAddress'[ReplyTo'[r][j]][j] # NoAddr
  PROVE  PeersKnown'
<1>1. ASSUME NEW m \in net'
      PROVE  KnowsPeer(m.src, m.sid)' /\ (m.type = "t" => KnowsPeer(m.dst, m.sid)')
  <2>1. m.src \in Node /\ m.dst \in Node /\ m.sid \in SessionID
    BY DEF IInv, TypeOK, Message
  <2> QED
    BY <2>1 DEF PairInv, PeersKnown
<1>2. ASSUME NEW r \in Node, NEW v \in Worker, NEW j \in SessionID, handler'[r][v].sid = j
      PROVE  PeerAddress'[handler'[r][v].src][j] # NoAddr
  <2>1. CASE handler[r][v].sid = j /\ handler'[r][v].src = handler[r][v].src
    <3>1. PICK a \in Node, b \in Node : a # b /\ Paired(j, a, b) /\ r \in {a, b}
      BY <2>1, TwoEnds DEF PairInv, Live
    <3>2. handler[r][v].src \in Node
      BY <2>1, <3>1 DEF Paired, End, Live
    <3>3. PeerAddress[handler[r][v].src][j] # NoAddr
      BY <2>1 DEF PairInv, PeersKnown, KnowsPeer
    <3> QED
      BY <2>1, <3>2, <3>3 DEF KnowsPeer
  <2> QED
    BY <1>2, <2>1
<1>3. ASSUME NEW r \in Node, NEW j \in SessionID, Live(r, j)', ReplyTo'[r][j] # NoAddr
      PROVE  PeerAddress'[ReplyTo'[r][j]][j] # NoAddr
  <2>1. CASE Live(r, j) /\ ReplyTo'[r][j] = ReplyTo[r][j]
    <3>1. ReplyTo[r][j] \in Node
      BY <1>3, <2>1 DEF PairInv, IInv, TypeOK
    <3> QED
      BY <1>3, <2>1, <3>1 DEF PairInv, PeersKnown, KnowsPeer
  <2> QED
    BY <1>3, <2>1
<1> QED
  BY <1>1, <1>2, <1>3 DEF PeersKnown, KnowsPeer

(* Steps that add nothing to any id.                                       *)
Plain ==
  /\ \A i \in SessionID : Keeps(i) /\ NoNewSender(i)
  /\ UNCHANGED <<UDPActivated, ReplyTo, PeerAddress>>
  /\ net' \subseteq net
  /\ \A n \in Node : sessionMap'[n] \subseteq sessionMap[n]
  /\ \A n \in Node, i \in SessionID : SinceRX'[n][i] < Old => SinceRX[n][i] < Old
  /\ \A p \in Peering : dialer'[p] \in {"asked", "offered"} =>
       dialer[p] \in {"asked", "offered"} /\ invite'[p] = invite[p]

(* They keep the two ends of every session.                                *)
LEMMA PlainStep == ASSUME PairInv, IInv', Plain PROVE PairInv'
<1>1. AllPaired'
  BY PairedStep DEF PairInv, Plain
<1>2. AskedIsQuiet'
  <2> SUFFICES ASSUME NEW p \in Peering, dialer'[p] \in {"asked", "offered"}
               PROVE  Quiet(invite[p])' 
    BY DEF AskedIsQuiet
  <2>1. Quiet(invite[p]) /\ invite'[p] = invite[p]
    BY DEF Plain, PairInv, AskedIsQuiet
  <2>2. ASSUME NEW i \in SessionID, i = invite[p] PROVE Quiet(i)'
    BY <2>1, <2>2, KeepsQuiet DEF PairInv, Plain
  <2>3. invite[p] \in SessionID
    BY DEF PairInv, IInv, DialerHolds, Plain
  <2> QED
    BY <2>1, <2>2, <2>3 DEF Quiet, Live
<1>3. PingsConfirmed'
  BY DEF PairInv, PingsConfirmed, Plain
<1>4. MeasuredBothWays'
  BY DEF PairInv, MeasuredBothWays, Plain
<1>5. PeersKnown'
  BY PeersKnownStep DEF Plain, Keeps, KnowsPeer
<1> QED
  BY <1>1, <1>2, <1>3, <1>4, <1>5 DEF PairInv

(* The steps of a process and of its handshakers that send nothing.        *)
LEMMA PlainProcess ==
  ASSUME IInv, NEW n \in Node,
         \/ ListenUDP(n) \/ sessionGC(n)
         \/ Stop(n) /\ net' = net
  PROVE  Plain
<1>1. CASE ListenUDP(n)
  BY <1>1 DEF ListenUDP, Plain, Keeps, NoNewSender, Live, fieldVars, routineVars, dialVars
<1>2. CASE sessionGC(n)
  BY <1>2 DEF IInv, TypeOK, sessionGC, Plain, Keeps, NoNewSender, Live, fieldVars,
              routineVars, dialVars
<1>3. CASE Stop(n) /\ net' = net
  <2>1. ASSUME NEW i \in SessionID PROVE Keeps(i)
    <3>1. ASSUME NEW r \in Node, Live(r, i)' PROVE r # n /\ Live(r, i)
      BY <1>3, <3>1, NullAssumption DEF IInv, TypeOK, Stop, Live, IdleHandler
    <3>2. \A r \in Node, w \in Worker :
            handler'[r][w].sid = i => r # n /\ handler'[r][w] = handler[r][w]
      BY <1>3, NullAssumption DEF IInv, TypeOK, Stop, IdleHandler
    <3>3. \A p \in Peering : invite'[p] = i => invite[p] = i
      BY <1>3, NullAssumption DEF Stop
    <3> QED
      BY <1>3, <3>1, <3>2, <3>3 DEF Stop, Keeps, fieldVars
  <2>2. \A i \in SessionID : NoNewSender(i)
    BY <1>3 DEF IInv, TypeOK, Stop, NoNewSender
  <2>3. \A r \in Node : sessionMap'[r] \subseteq sessionMap[r]
    BY <1>3 DEF IInv, TypeOK, Stop
  <2>4. \A p \in Peering : dialer'[p] \in {"asked", "offered"} =>
          dialer[p] \in {"asked", "offered"} /\ invite'[p] = invite[p]
    BY <1>3 DEF Stop
  <2> QED
    BY <1>3, <2>1, <2>2, <2>3, <2>4 DEF Plain, Stop, fieldVars
<1> QED
  BY <1>1, <1>2, <1>3

(* The steps of a session that send nothing.                               *)
LEMMA PlainSession ==
  ASSUME IInv, NEW n \in Node, NEW i \in SessionID,
         \/ SpawnWaiter(n, i) \/ HandshakerStart(n, i) \/ TickWake(n, i)
         \/ HandshakerTimeout(n, i) \/ StopSending(n, i)
  PROVE  Plain
<1>1. CASE SpawnWaiter(n, i)
  BY <1>1 DEF IInv, TypeOK, SpawnWaiter, Plain, Keeps, NoNewSender, Live, fieldVars
<1>2. CASE HandshakerStart(n, i)
  BY <1>2 DEF IInv, TypeOK, HandshakerStart, GoHandshaker, Plain, Keeps, NoNewSender,
              Live, fieldVars, dialVars
<1>3. CASE TickWake(n, i)
  BY <1>3 DEF IInv, TypeOK, TickWake, GoHandshaker, Plain, Keeps, NoNewSender, Live,
              fieldVars, dialVars
<1>4. CASE HandshakerTimeout(n, i)
  BY <1>4 DEF IInv, TypeOK, HandshakerTimeout, GoHandshaker, Plain, Keeps, NoNewSender,
              Live, fieldVars, dialVars
<1>5. CASE StopSending(n, i)
  <2>1. \A r \in Node, j \in SessionID : senders'[r][j] > 0 => senders[r][j] > 0
    BY <1>5 DEF IInv, TypeOK, StopSending
  <2> QED
    BY <1>5, <2>1 DEF StopSending, Plain, Keeps, NoNewSender, Live, fieldVars, dialVars
<1> QED
  BY <1>1, <1>2, <1>3, <1>4, <1>5

(* The steps of a dialer that make no session.                             *)
LEMMA PlainDialer ==
  ASSUME IInv, NEW p \in Peering, InviteFails(p) \/ SpawnHandshaker(p) \/ Redial(p)
  PROVE  Plain
<1>1. CASE InviteFails(p)
  BY <1>1, NullAssumption DEF IInv, TypeOK, InviteFails, Plain, Keeps, NoNewSender,
     Live, fieldVars, routineVars
<1>2. CASE SpawnHandshaker(p)
  <2>1. p[1] \in Node /\ invite[p] \in SessionID
    BY <1>2, PeeringAssumption DEF IInv, DialerHolds, SpawnHandshaker
  <2>2. handshaker[p[1]][invite[p]] = "spawning"
    BY <1>2 DEF SpawnHandshaker, IInv, SpawnHeld
  <2> QED
    BY <1>2, <2>1, <2>2 DEF IInv, TypeOK, SpawnHandshaker, Plain, Keeps, NoNewSender,
       Live, fieldVars
<1>3. CASE Redial(p)
  BY <1>3, NullAssumption DEF IInv, TypeOK, Redial, Plain, Keeps, NoNewSender, Live,
     fieldVars, routineVars
<1> QED
  BY <1>1, <1>2, <1>3

(* A handler that reads the flag, a lost packet, and time.                 *)
LEMMA PlainOther ==
  ASSUME IInv,
         \/ \E n \in Node, w \in Worker : Latch(n, w)
         \/ \E m \in net : Drop(m)
         \/ Tick
  PROVE  Plain
<1>1. ASSUME NEW n \in Node, NEW w \in Worker, Latch(n, w) PROVE Plain
  <2>1. \A r \in Node, v \in Worker :
          handler'[r][v].sid = handler[r][v].sid /\ handler'[r][v].src = handler[r][v].src
    BY <1>1 DEF IInv, TypeOK, Handler, Latch
  <2> QED
    BY <1>1, <2>1 DEF Latch, Plain, Keeps, NoNewSender, Live, fieldVars, routineVars,
       dialVars
<1>2. ASSUME NEW m \in net, Drop(m) PROVE Plain
  BY <1>2 DEF Drop, Plain, Keeps, NoNewSender, Live, fieldVars, routineVars, dialVars
<1>3. CASE Tick
  <2>1. \A n \in Node, i \in SessionID : SinceRX'[n][i] < Old => SinceRX[n][i] < Old
    BY <1>3, LimitAssumption DEF IInv, TypeOK, Tick, AllOlder, Older
  <2> QED
    BY <1>3, <2>1 DEF Tick, Plain, Keeps, NoNewSender, Live, dialVars
<1> QED
  BY <1>1, <1>2, <1>3

-----------------------------------------------------------------------------
(* Steps that concern one id.                                              *)

(* The other ids are left alone.                                           *)
OnlyTouches(i) == \A j \in SessionID \ {i} : Keeps(j) /\ NoNewSender(j)

(* No id is asked for while something is sent for it, so a step of a       *)
(* session that is running needs to keep its own two ends only.            *)
LEMMA OneIdStep ==
  ASSUME PairInv, IInv', NEW i \in SessionID, ~Quiet(i), OnlyTouches(i),
         UNCHANGED dialVars, \E a, b \in Node : a # b /\ Paired(i, a, b)'
  PROVE  AllPaired' /\ AskedIsQuiet'
<1>1. AllPaired'
  BY PairedStep DEF PairInv, OnlyTouches
<1>2. AskedIsQuiet'
  <2> SUFFICES ASSUME NEW p \in Peering, dialer'[p] \in {"asked", "offered"}
               PROVE  Quiet(invite[p])'
    BY DEF AskedIsQuiet
  <2>1. Quiet(invite[p]) /\ invite'[p] = invite[p] /\ invite[p] \in SessionID
    BY DEF PairInv, AskedIsQuiet, IInv, DialerHolds, dialVars
  <2>2. invite[p] # i
    BY <2>1
  <2>3. ASSUME NEW j \in SessionID, j = invite[p] PROVE Quiet(j)'
    BY <2>1, <2>2, <2>3, KeepsQuiet DEF PairInv, OnlyTouches
  <2> QED
    BY <2>1, <2>3 DEF Quiet, Live
<1> QED
  BY <1>1, <1>2

(* The client's round sends from the dialer to the process it dialed.      *)
LEMMA HandshakerRoundPairs ==
  ASSUME PairInv, IInv', NEW n \in Node, NEW i \in SessionID, HandshakerRound(n, i)
  PROVE  PairInv'
<1>1. Live(n, i) /\ \A r \in Node, j \in SessionID : Live(r, j)' <=> Live(r, j)
  BY DEF PairInv, IInv, TypeOK, HandshakerRound, GoHandshaker, Live
<1>2. CASE ~MadeByMe[n][i]
  <2>1. net' = net
    BY <1>2 DEF HandshakerRound, RoundSends
  <2>2. Plain
    BY <1>1, <2>1 DEF PairInv, IInv, TypeOK, HandshakerRound, GoHandshaker, Plain, Keeps,
       NoNewSender, fieldVars, dialVars
  <2> QED
    BY <2>2, PlainStep
<1>3. CASE MadeByMe[n][i]
  <2>1. PICK a \in Node, b \in Node : a # b /\ Paired(i, a, b) /\ n \in {a, b}
    BY <1>1, TwoEnds DEF PairInv
  <2>2. n = a /\ PeerAddress[n][i] = b
    BY <1>1, <1>3, <2>1 DEF Paired, End
  <2>3. net' \subseteq net \cup {Handshake(i, a, b)} /\ net \subseteq net'
    BY <1>3, <2>2 DEF HandshakerRound, RoundSends, WriteTo
  <2>4. Paired(i, a, b)'
    BY <1>1, <2>1, <2>3 DEF HandshakerRound, Handshake, Paired, End, fieldVars, dialVars
  <2>5. OnlyTouches(i)
    BY <1>1, <2>3 DEF PairInv, IInv, TypeOK, HandshakerRound, GoHandshaker, Handshake,
       OnlyTouches, Keeps, NoNewSender, fieldVars, dialVars
  <2>6. ~Quiet(i)
    BY <1>1, <1>3 DEF Quiet
  <2>7. AllPaired' /\ AskedIsQuiet'
    BY <2>1, <2>4, <2>5, <2>6, OneIdStep DEF HandshakerRound
  <2>8. PingsConfirmed'
    BY <2>3 DEF PairInv, PingsConfirmed, HandshakerRound, Handshake, fieldVars
  <2>9. MeasuredBothWays'
    BY DEF PairInv, MeasuredBothWays, HandshakerRound, fieldVars
  <2>10. PeersKnown'
    <3>1. PeerAddress' = PeerAddress /\ ReplyTo' = ReplyTo /\ handler' = handler
      BY DEF HandshakerRound, fieldVars
    <3>2. PeerAddress'[a][i] # NoAddr
      BY <2>2, <3>1, NullAssumption
    <3>3. \A m \in net' : m \in net \/
            (KnowsPeer(m.src, m.sid)' /\ (m.type = "t" => KnowsPeer(m.dst, m.sid)'))
      BY <2>3, <3>2 DEF Handshake, KnowsPeer
    <3> QED
      BY <1>1, <3>1, <3>3, PeersKnownStep DEF KnowsPeer
  <2> QED
    BY <2>7, <2>8, <2>9, <2>10 DEF PairInv
<1> QED
  BY <1>2, <1>3

(* The sender that a booped handshaker starts belongs to an activated      *)
(* session: nothing of it changes for its peer.                            *)
LEMMA StartSendingPairs ==
  ASSUME PairInv, IInv', NEW n \in Node, NEW i \in SessionID, StartSending(n, i)
  PROVE  PairInv'
<1>1. handshaker[n][i] = "booped" /\ UDPActivated[n][i]
  BY DEF PairInv, IInv, SenderIsLast, StartSending, GoHandshaker
<1>2. UDPActivated' = UDPActivated
  <2>1. UDPActivated[n][i] = TRUE /\ UDPActivated \in [Node -> [SessionID -> BOOLEAN]]
    BY <1>1, Zenon DEF PairInv, IInv, TypeOK
  <2> QED
    BY <2>1 DEF StartSending
<1>3. \A r \in Node, j \in SessionID : Live(r, j)' => Live(r, j)
  BY <1>1 DEF PairInv, IInv, TypeOK, StartSending, GoHandshaker, Live
<1>4. \A j \in SessionID : Keeps(j)
  BY <1>2, <1>3 DEF StartSending, Keeps, dialVars
<1>5. PICK a \in Node, b \in Node : a # b /\ Paired(i, a, b)
  BY <1>1, TwoEnds DEF PairInv, Live
<1>6. Paired(i, a, b)'
  BY <1>4, <1>5, KeepsPaired
<1>7. OnlyTouches(i)
  BY <1>4 DEF PairInv, IInv, TypeOK, StartSending, GoHandshaker, OnlyTouches, NoNewSender
<1>8. ~Quiet(i)
  BY <1>1 DEF Quiet
<1>9. AllPaired' /\ AskedIsQuiet'
  BY <1>5, <1>6, <1>7, <1>8, OneIdStep DEF StartSending
<1>10. PingsConfirmed' /\ MeasuredBothWays'
  BY <1>2 DEF PairInv, PingsConfirmed, MeasuredBothWays, StartSending
<1>11. PeersKnown'
  BY <1>3, PeersKnownStep DEF StartSending, KnowsPeer
<1> QED
  BY <1>9, <1>10, <1>11 DEF PairInv

(* A handler takes up a handshake that came from the other end.            *)
LEMMA RecvHandshakePairs ==
  ASSUME PairInv, IInv', NEW n \in Node, NEW w \in Worker, NEW m \in net,
         RecvHandshake(n, w, m)
  PROVE  PairInv'
<1>0. PICK i \in SessionID : i = m.sid
  BY DEF PairInv, IInv, TypeOK, Message
<1>1. Live(n, i)
  BY <1>0 DEF RecvHandshake, Live
<1>2. net' \subseteq net
  BY DEF RecvHandshake, Delivered
<1>3. /\ \A r \in Node, v \in Worker :
           r # n \/ v # w => handler'[r][v] = handler[r][v]
      /\ handler'[n][w].sid = i /\ handler'[n][w].src = m.src
  BY <1>0 DEF PairInv, IInv, TypeOK, RecvHandshake
<1>4. PICK a \in Node, b \in Node : a # b /\ Paired(i, a, b) /\ n \in {a, b}
  BY <1>1, TwoEnds DEF PairInv
<1>5. m.dst = n /\ <<m.src, m.dst>> \in {<<a, b>>, <<b, a>>}
  BY <1>0, <1>4 DEF RecvHandshake, Delivered, Paired
<1>6. \A r \in Node, j \in SessionID : Live(r, j)' => Live(r, j)
  BY <1>1, <1>3 DEF RecvHandshake, Live, routineVars
<1>7. Paired(i, a, b)'
  <2>1. \A r \in Node : Live(r, i)' => r \in {a, b}
    BY <1>1, <1>4, <1>6 DEF Paired
  <2>2. Live(a, i)' => End(i, a, b, TRUE)'
    BY <1>3, <1>4, <1>5, <1>6 DEF RecvHandshake, Paired, End, fieldVars
  <2>3. Live(b, i)' => End(i, b, a, FALSE)'
    BY <1>3, <1>4, <1>5, <1>6 DEF RecvHandshake, Paired, End, fieldVars
  <2> QED
    BY <1>2, <1>4, <2>1, <2>2, <2>3 DEF RecvHandshake, Paired, dialVars
<1>8. OnlyTouches(i)
  BY <1>2, <1>3, <1>6 DEF RecvHandshake, OnlyTouches, Keeps, NoNewSender, fieldVars,
     routineVars, dialVars
<1>9. ~Quiet(i)
  BY <1>0 DEF Quiet
<1>10. AllPaired' /\ AskedIsQuiet'
  BY <1>1, <1>4, <1>7, <1>8, <1>9, OneIdStep DEF RecvHandshake
<1>11. PingsConfirmed' /\ MeasuredBothWays'
  BY <1>2 DEF PairInv, PingsConfirmed, MeasuredBothWays, RecvHandshake, fieldVars
<1>12. PeersKnown'
  <2>1. PeerAddress' = PeerAddress /\ ReplyTo' = ReplyTo
    BY DEF RecvHandshake, fieldVars
  <2>2. PeerAddress'[m.src][i] # NoAddr
    BY <1>0, <2>1 DEF PairInv, PeersKnown, KnowsPeer
  <2>3. \A r \in Node, v \in Worker, j \in SessionID : handler'[r][v].sid = j =>
          \/ handler[r][v].sid = j /\ handler'[r][v].src = handler[r][v].src
          \/ PeerAddress'[handler'[r][v].src][j] # NoAddr
    BY <1>3, <2>2
  <2> QED
    BY <1>2, <1>6, <2>1, <2>3, PeersKnownStep DEF KnowsPeer
<1> QED
  BY <1>10, <1>11, <1>12 DEF PairInv

(* A handler stores the other end into its session, activates the session  *)
(* or echoes to the other end.  For a session that was activated it stores *)
(* what was there.                                                         *)
LEMMA HandlerPairs ==
  ASSUME PairInv, IInv', NEW n \in Node, NEW w \in Worker,
         NEW i \in SessionID, NEW o \in Node,
         i = handler[n][w].sid, o = handler[n][w].src,
         \A r \in Node, v \in Worker : handler'[r][v].sid \in SessionID =>
           handler'[r][v].sid = handler[r][v].sid /\ handler'[r][v].src = handler[r][v].src,
         \A r \in Node, j \in SessionID : r # n \/ j # i =>
           UDPActivated'[r][j] = UDPActivated[r][j],
         \A r \in Node, j \in SessionID : r # n \/ j # i =>
           /\ ReplyTo'[r][j] = ReplyTo[r][j] /\ PeerAddress'[r][j] = PeerAddress[r][j]
           /\ handshaker'[r][j] = handshaker[r][j],
         handshaker'[n][i] \notin {"none", "done"} => handshaker[n][i] \notin {"none", "done"},
         ReplyTo'[n][i] \in {ReplyTo[n][i], o}, PeerAddress'[n][i] \in {PeerAddress[n][i], o},
         UDPActivated[n][i] => UDPActivated'[n][i],
         UDPActivated'[n][i] => ReplyTo'[n][i] # NoAddr,
         net' \subseteq net \cup {Handshake(i, n, o)},
         net' \subseteq net \/ PeerAddress[n][i] # NoAddr,
         UNCHANGED <<sessionMap, MadeByMe, SinceRX, senders, dialVars>>
  PROVE  PairInv'
<1>1. Live(n, i)
  BY DEF Live
<1>2. PICK a \in Node, b \in Node : a # b /\ Paired(i, a, b) /\ n \in {a, b}
  BY <1>1, TwoEnds DEF PairInv
<1>3. /\ {n, o} = {a, b} /\ o # NoAddr
      /\ PeerAddress[n][i] \in {NoAddr, o} /\ ReplyTo[n][i] \in {NoAddr, o}
      /\ UDPActivated[n][i] => ReplyTo[n][i] = o
  BY <1>1, <1>2, NullAssumption DEF Paired, End
<1>4. \A r \in Node, j \in SessionID : Live(r, j)' => Live(r, j)
  <2>1. \A r \in Node, j \in SessionID :
          handshaker'[r][j] \notin {"none", "done"} => handshaker[r][j] \notin {"none", "done"}
    OBVIOUS
  <2> QED
    BY <2>1 DEF Live
<1>5. /\ PeerAddress'[n][i] \in {NoAddr, o} /\ ReplyTo'[n][i] \in {NoAddr, o}
      /\ PeerAddress[n][i] = o => PeerAddress'[n][i] = o
      /\ UDPActivated'[n][i] => ReplyTo'[n][i] = o
  BY <1>3
<1>6. \A v \in Worker : handler'[n][v].sid = i => handler'[n][v].src = o
  BY <1>1, <1>2, <1>3 DEF Paired, End
<1>7. ASSUME NEW r \in {a, b}, NEW q \in {a, b}, q # r, NEW mine \in BOOLEAN,
             End(i, r, q, mine)
      PROVE  End(i, r, q, mine)'
  <2>1. MadeByMe'[r][i] = mine
    BY <1>7, Zenon DEF End
  <2>2. CASE r = n
    <3>1. q = o
      BY <1>2, <1>3, <1>7, <2>2
    <3>2. mine => PeerAddress'[n][i] = o
      BY <1>5, <1>7, <2>2, <3>1 DEF End
    <3> QED
      BY <1>5, <1>6, <2>1, <2>2, <3>1, <3>2 DEF End
  <2>3. CASE r # n
    <3>1. r \in Node
      OBVIOUS
    <3>2. UDPActivated'[r][i] = UDPActivated[r][i]
      BY <2>3, <3>1
    <3>3. ReplyTo'[r][i] = ReplyTo[r][i] /\ PeerAddress'[r][i] = PeerAddress[r][i]
      BY <2>3, <3>1
    <3>4. \A v \in Worker : handler'[r][v].sid = i => handler'[r][v].src = q
      BY <1>7, <3>1 DEF End
    <3> QED
      BY <1>7, <2>1, <3>2, <3>3, <3>4 DEF End
  <2> QED
    BY <2>2, <2>3
<1>8. Paired(i, a, b)'
  <2>1. \A r \in Node : Live(r, i)' => r \in {a, b}
    BY <1>2, <1>4 DEF Paired
  <2>2. Live(a, i)' => End(i, a, b, TRUE)'
    <3>1. Live(a, i) => End(i, a, b, TRUE)
      BY <1>2 DEF Paired
    <3> QED
      BY <1>2, <1>4, <1>7, <3>1
  <2>3. Live(b, i)' => End(i, b, a, FALSE)'
    <3>1. Live(b, i) => End(i, b, a, FALSE)
      BY <1>2 DEF Paired
    <3> QED
      BY <1>2, <1>4, <1>7, <3>1
  <2>4. \A m \in net' : m.sid = i => <<m.src, m.dst>> \in {<<a, b>>, <<b, a>>}
    <3>1. (n = a /\ o = b) \/ (n = b /\ o = a)
      BY <1>2, <1>3
    <3>2. Handshake(i, n, o).src = n /\ Handshake(i, n, o).dst = o
      BY DEF Handshake
    <3>3. \A m \in net : m.sid = i => <<m.src, m.dst>> \in {<<a, b>>, <<b, a>>}
      BY <1>2 DEF Paired
    <3>4. ASSUME NEW m \in net', m.sid = i
          PROVE  <<m.src, m.dst>> \in {<<a, b>>, <<b, a>>}
      <4>1. CASE m \in net
        BY <3>3, <3>4, <4>1
      <4>2. CASE m = Handshake(i, n, o)
        <5>1. m.src = n /\ m.dst = o
          BY <3>2, <4>2
        <5> QED
          BY <3>1, <5>1
      <4> QED
        BY <4>1, <4>2
    <3> QED
      BY <3>4
  <2>5. \A p \in Peering : invite'[p] = i => p[1] = a /\ p[2] = b
    BY <1>2 DEF Paired, dialVars
  <2> QED
    BY <2>1, <2>2, <2>3, <2>4, <2>5 DEF Paired
<1>9. OnlyTouches(i)
  <2> SUFFICES ASSUME NEW j \in SessionID, j # i PROVE Keeps(j) /\ NoNewSender(j)
    BY DEF OnlyTouches
  <2>1. \A m \in net' : m.sid = j => m \in net
    BY DEF Handshake
  <2>2. NoNewSender(j)
    BY DEF NoNewSender
  <2>3. \A r \in Node, v \in Worker : handler'[r][v].sid = j =>
          handler[r][v].sid = j /\ handler'[r][v].src = handler[r][v].src
    OBVIOUS
  <2>4. \A r \in Node : MadeByMe'[r][j] = MadeByMe[r][j]
    BY Zenon
  <2>5. \A p \in Peering : invite'[p] = j => invite[p] = j
    BY DEF dialVars
  <2>6. \A r \in Node : UDPActivated'[r][j] = UDPActivated[r][j]
    OBVIOUS
  <2>7. \A r \in Node : ReplyTo'[r][j] = ReplyTo[r][j] /\ PeerAddress'[r][j] = PeerAddress[r][j]
    OBVIOUS
  <2>8. \A r \in Node : Live(r, j)' => Live(r, j)
    BY <1>4
  <2> QED
    BY <2>1, <2>2, <2>3, <2>4, <2>5, <2>6, <2>7, <2>8 DEF Keeps
<1>10. AllPaired' /\ AskedIsQuiet'
  <2>1. ~Quiet(i)
    BY DEF Quiet
  <2> QED
    BY <1>2, <1>8, <1>9, <2>1, OneIdStep
<1>11. \A r \in Node, j \in SessionID : UDPActivated[r][j] => UDPActivated'[r][j]
  OBVIOUS
<1>12. \A r \in Node, j \in SessionID : PeerAddress[r][j] # NoAddr => PeerAddress'[r][j] # NoAddr
  BY <1>3
<1>13. PingsConfirmed'
  <2> SUFFICES ASSUME NEW m \in net', m.type = "t" PROVE UDPActivated'[m.src][m.sid]
    BY DEF PingsConfirmed
  <2>1. m \in net
    BY DEF Handshake
  <2>2. m.src \in Node /\ m.sid \in SessionID
    BY <2>1 DEF PairInv, IInv, TypeOK, Message
  <2>3. UDPActivated[m.src][m.sid]
    BY <2>1 DEF PairInv, PingsConfirmed
  <2> QED
    BY <1>11, <2>2, <2>3
<1>14. MeasuredBothWays'
  <2> SUFFICES ASSUME NEW r \in Node, NEW j \in SessionID,
                      j \in sessionMap[r], SinceRX[r][j] < Old
               PROVE  /\ UDPActivated'[r][j] /\ PeerAddress'[r][j] # NoAddr
                      /\ ReplyTo'[r][j] # NoAddr /\ UDPActivated'[ReplyTo'[r][j]][j]
    BY DEF MeasuredBothWays
  <2>1. /\ UDPActivated[r][j] /\ PeerAddress[r][j] # NoAddr
        /\ ReplyTo[r][j] # NoAddr /\ UDPActivated[ReplyTo[r][j]][j]
    BY DEF PairInv, MeasuredBothWays
  <2>2. ReplyTo[r][j] \in Node
    BY <2>1 DEF PairInv, IInv, TypeOK
  <2>3. ReplyTo'[r][j] = ReplyTo[r][j]
    <3>1. CASE r = n /\ j = i
      BY <1>3, <2>1, <3>1
    <3> QED
      BY <3>1
  <2>4. UDPActivated'[r][j] /\ UDPActivated'[ReplyTo[r][j]][j]
    BY <1>11, <2>1, <2>2
  <2> QED
    BY <1>12, <2>1, <2>3, <2>4
<1>15. PeersKnown'
  <2>1. PeerAddress[o][i] # NoAddr
    BY DEF PairInv, PeersKnown, KnowsPeer
  <2>2. \A m \in net' : m \in net \/
          (KnowsPeer(m.src, m.sid)' /\ (m.type = "t" => KnowsPeer(m.dst, m.sid)'))
    BY <1>12 DEF Handshake, KnowsPeer
  <2>3. ASSUME NEW r \in Node, NEW j \in SessionID, Live(r, j)', ReplyTo'[r][j] # NoAddr
        PROVE  \/ Live(r, j) /\ ReplyTo'[r][j] = ReplyTo[r][j]
               \/ PeerAddress'[ReplyTo'[r][j]][j] # NoAddr
    <3>1. CASE r = n /\ j = i
      BY <1>1, <1>5, <1>12, <2>1, <2>3, <3>1
    <3>2. CASE r # n \/ j # i
      BY <1>4, <2>3, <3>2
    <3> QED
      BY <3>1, <3>2
  <2> QED
    BY <1>12, <2>2, <2>3, PeersKnownStep DEF KnowsPeer
<1> QED
  BY <1>10, <1>13, <1>14, <1>15 DEF PairInv

(* The handler's steps up to its boop are of this kind,                    *)
LEMMA AnswerPairs ==
  ASSUME PairInv, IInv', NEW n \in Node, NEW w \in Worker, Answer(n, w)
  PROVE  PairInv'
<1>0. PICK i \in SessionID, o \in Node : i = handler[n][w].sid /\ o = handler[n][w].src
  BY DEF PairInv, IInv, HandlerHolds, Answer, GoHandler
<1>1. \A r \in Node, v \in Worker :
        handler'[r][v].sid = handler[r][v].sid /\ handler'[r][v].src = handler[r][v].src
  BY DEF PairInv, IInv, TypeOK, Handler, Answer, GoHandler
<1>2. /\ \A r \in Node, j \in SessionID : r # n \/ j # i => ReplyTo'[r][j] = ReplyTo[r][j]
      /\ ReplyTo'[n][i] = o
  BY <1>0 DEF PairInv, IInv, TypeOK, Answer
<1>3. o # NoAddr
  BY NullAssumption
<1>4. UNCHANGED <<UDPActivated, PeerAddress, handshaker, net>>
  BY DEF Answer
<1>5. UNCHANGED <<sessionMap, MadeByMe, SinceRX, senders, dialVars>>
  BY DEF Answer, GoHandler
<1> QED
  BY <1>0, <1>1, <1>2, <1>3, <1>4, <1>5, HandlerPairs

LEMMA ActivatePairs ==
  ASSUME PairInv, IInv', NEW n \in Node, NEW w \in Worker, Activate(n, w)
  PROVE  PairInv'
<1>0. PICK i \in SessionID, o \in Node : i = handler[n][w].sid /\ o = handler[n][w].src
  BY DEF PairInv, IInv, HandlerHolds, Activate, GoHandler
<1>1. \A r \in Node, v \in Worker :
        handler'[r][v].sid = handler[r][v].sid /\ handler'[r][v].src = handler[r][v].src
  BY DEF PairInv, IInv, TypeOK, Handler, Activate, GoHandler
<1>2. /\ \A r \in Node, j \in SessionID : r # n \/ j # i =>
           UDPActivated'[r][j] = UDPActivated[r][j]
      /\ UDPActivated'[n][i]
  <2>1. UDPActivated' = [UDPActivated EXCEPT ![n][i] = TRUE]
    BY <1>0 DEF Activate
  <2>2. UDPActivated \in [Node -> [SessionID -> BOOLEAN]]
    BY DEF PairInv, IInv, TypeOK
  <2> QED
    BY <2>1, <2>2
<1>3. ReplyTo[n][i] # NoAddr
  BY <1>0 DEF PairInv, IInv, HandlerStored, Activate, GoHandler
<1>4. UNCHANGED <<PeerAddress, ReplyTo, handshaker, net>>
  BY DEF Activate
<1>5. UNCHANGED <<sessionMap, MadeByMe, SinceRX, senders, dialVars>>
  BY DEF Activate, GoHandler
<1> QED
  BY <1>0, <1>1, <1>2, <1>3, <1>4, <1>5, HandlerPairs

LEMMA AdoptPairs ==
  ASSUME PairInv, IInv', NEW n \in Node, NEW w \in Worker, Adopt(n, w)
  PROVE  PairInv'
<1>0. PICK i \in SessionID, o \in Node : i = handler[n][w].sid /\ o = handler[n][w].src
  BY DEF PairInv, IInv, HandlerHolds, Adopt, GoHandler
<1>1. \A r \in Node, v \in Worker :
        handler'[r][v].sid = handler[r][v].sid /\ handler'[r][v].src = handler[r][v].src
  BY DEF PairInv, IInv, TypeOK, Handler, Adopt, GoHandler
<1>2. /\ \A r \in Node, j \in SessionID : r # n \/ j # i =>
           PeerAddress'[r][j] = PeerAddress[r][j]
      /\ PeerAddress'[n][i] \in {PeerAddress[n][i], o}
  BY <1>0 DEF PairInv, IInv, TypeOK, Adopt
<1>3. ReplyTo[n][i] # NoAddr
  BY <1>0 DEF PairInv, IInv, HandlerStored, Adopt, GoHandler
<1>4. UNCHANGED <<UDPActivated, ReplyTo, handshaker, net>>
  BY DEF Adopt
<1>5. UNCHANGED <<sessionMap, MadeByMe, SinceRX, senders, dialVars>>
  BY DEF Adopt, GoHandler
<1> QED
  BY <1>0, <1>1, <1>2, <1>3, <1>4, <1>5, HandlerPairs

(* and so is the last, which echoes to the process that the session        *)
(* answers to.                                                             *)
LEMMA NotifyPairs ==
  ASSUME PairInv, IInv', NEW n \in Node, NEW w \in Worker, Notify(n, w)
  PROVE  PairInv'
<1>0. PICK i \in SessionID, o \in Node : i = handler[n][w].sid /\ o = handler[n][w].src
  BY DEF PairInv, IInv, HandlerHolds, Notify
<1>1. \A r \in Node, v \in Worker : handler'[r][v].sid \in SessionID =>
        handler'[r][v].sid = handler[r][v].sid /\ handler'[r][v].src = handler[r][v].src
  BY NullAssumption DEF PairInv, IInv, TypeOK, Notify, IdleHandler
<1>2. ReplyTo[n][i] # NoAddr /\ PeerAddress[n][i] # NoAddr
  BY <1>0 DEF PairInv, IInv, HandlerStored, Notify
<1>3. ReplyTo[n][i] = o
  <2>1. Live(n, i)
    BY <1>0 DEF Live
  <2>2. PICK a \in Node, b \in Node : a # b /\ Paired(i, a, b) /\ n \in {a, b}
    BY <2>1, TwoEnds DEF PairInv
  <2> QED
    BY <1>0, <1>2, <2>1, <2>2 DEF Paired, End
<1>4. net' \subseteq net \cup {Handshake(i, n, o)}
  BY <1>0, <1>3 DEF Notify, WriteTo
<1>5. /\ \A r \in Node, j \in SessionID : r # n \/ j # i => handshaker'[r][j] = handshaker[r][j]
      /\ handshaker'[n][i] \notin {"none", "done"} => handshaker[n][i] \notin {"none", "done"}
  BY <1>0 DEF PairInv, IInv, TypeOK, Notify, Boop
<1>6. UNCHANGED <<UDPActivated, PeerAddress, ReplyTo>>
  BY DEF Notify, fieldVars
<1>7. UNCHANGED <<sessionMap, MadeByMe, SinceRX, senders, dialVars>>
  BY DEF Notify, fieldVars
<1> QED
  BY <1>0, <1>1, <1>2, <1>4, <1>5, <1>6, <1>7, HandlerPairs

(* sendPackets sends to the other end, for an activated session.           *)
LEMMA SendPingPairs ==
  ASSUME PairInv, IInv', NEW n \in Node, NEW i \in SessionID, SendPing(n, i)
  PROVE  PairInv'
<1>1. Live(n, i) /\ UDPActivated[n][i] /\ senders[n][i] # 0
  BY DEF PairInv, IInv, TypeOK, SenderIsLast, SendPing, Live
<1>2. PICK a \in Node, b \in Node : a # b /\ Paired(i, a, b) /\ n \in {a, b}
  BY <1>1, TwoEnds DEF PairInv
<1>3. <<n, ReplyTo[n][i]>> \in {<<a, b>>, <<b, a>>}
  BY <1>1, <1>2 DEF Paired, End
<1>4. net' \subseteq net \cup {Ping(i, n, ReplyTo[n][i])}
  BY DEF SendPing, WriteTo
<1>5. \A r \in Node, j \in SessionID : Live(r, j)' <=> Live(r, j)
  BY DEF SendPing, Live, routineVars
<1>6. Paired(i, a, b)'
  <2>1. \A m \in net' : m.sid = i => <<m.src, m.dst>> \in {<<a, b>>, <<b, a>>}
    BY <1>2, <1>3, <1>4 DEF Paired, Ping
  <2> QED
    BY <1>2, <1>5, <2>1 DEF SendPing, Paired, End, fieldVars, dialVars
<1>7. OnlyTouches(i)
  BY <1>4, <1>5 DEF SendPing, OnlyTouches, Keeps, NoNewSender, Ping, fieldVars,
     routineVars, dialVars
<1>8. AllPaired' /\ AskedIsQuiet'
  BY <1>1, <1>2, <1>6, <1>7, OneIdStep DEF SendPing, Quiet
<1>9. PingsConfirmed'
  BY <1>1, <1>4 DEF PairInv, PingsConfirmed, SendPing, Ping, fieldVars
<1>10. MeasuredBothWays'
  BY DEF PairInv, MeasuredBothWays, SendPing, fieldVars
<1>11. PeersKnown'
  <2>1. PeerAddress' = PeerAddress /\ ReplyTo' = ReplyTo /\ handler' = handler
    BY DEF SendPing, fieldVars
  <2>2. ReplyTo[n][i] # NoAddr /\ PeerAddress[n][i] # NoAddr
    BY <1>1 DEF PairInv, IInv, TypeOK, SenderIsLast, SendPing
  <2>3. PeerAddress[ReplyTo[n][i]][i] # NoAddr
    BY <1>1, <2>2 DEF PairInv, PeersKnown, KnowsPeer
  <2>4. \A m \in net' : m \in net \/
          (KnowsPeer(m.src, m.sid)' /\ (m.type = "t" => KnowsPeer(m.dst, m.sid)'))
    BY <1>4, <2>1, <2>2, <2>3 DEF Ping, KnowsPeer
  <2> QED
    BY <1>5, <2>1, <2>4, PeersKnownStep DEF KnowsPeer
<1> QED
  BY <1>8, <1>9, <1>10, <1>11 DEF PairInv

(* handlePacket measures a ping of the other end, which is activated.      *)
LEMMA RecvPingPairs ==
  ASSUME PairInv, IInv', NEW n \in Node, NEW m \in net, RecvPing(n, m)
  PROVE  PairInv'
<1>0. PICK i \in SessionID, o \in Node : i = m.sid /\ o = m.src
  BY DEF PairInv, IInv, TypeOK, Message
<1>1. Live(n, i) /\ UDPActivated[n][i] /\ UDPActivated[o][i]
  BY <1>0 DEF PairInv, PingsConfirmed, RecvPing, PingWelcome, Live
<1>2. PICK a \in Node, b \in Node : a # b /\ Paired(i, a, b) /\ n \in {a, b}
  BY <1>1, TwoEnds DEF PairInv
<1>3. ReplyTo[n][i] = o
  BY <1>0, <1>1, <1>2 DEF RecvPing, Delivered, Paired, End
<1>4. ReplyTo' = ReplyTo
  BY <1>0, <1>3 DEF PairInv, IInv, TypeOK, RecvPing
<1>5. net' \subseteq net
  BY DEF RecvPing, Delivered
<1>6. \A j \in SessionID : Keeps(j) /\ NoNewSender(j)
  BY <1>4, <1>5 DEF RecvPing, Keeps, NoNewSender, Live, routineVars, dialVars
<1>7. AllPaired' /\ AskedIsQuiet'
  <2>1. Paired(i, a, b)'
    BY <1>2, <1>6, KeepsPaired
  <2> QED
    BY <1>0, <1>2, <1>6, <2>1, OneIdStep DEF RecvPing, OnlyTouches, Quiet
<1>8. PingsConfirmed'
  BY <1>5 DEF PairInv, PingsConfirmed, RecvPing
<1>9. MeasuredBothWays'
  <2>1. \A r \in Node, j \in SessionID :
          r # n \/ j # i => SinceRX'[r][j] = SinceRX[r][j]
    BY <1>0 DEF PairInv, IInv, TypeOK, RecvPing
  <2>2. o # NoAddr
    BY NullAssumption
  <2>3. PeerAddress[n][i] # NoAddr
    BY <1>0 DEF PairInv, PeersKnown, KnowsPeer, RecvPing, Delivered
  <2> QED
    BY <1>1, <1>3, <1>4, <2>1, <2>2, <2>3 DEF PairInv, MeasuredBothWays, RecvPing
<1>10. PeersKnown'
  <2>1. \A r \in Node, j \in SessionID : Live(r, j)' => Live(r, j)
    BY DEF RecvPing, Live, routineVars
  <2> QED
    BY <1>4, <1>5, <2>1, PeersKnownStep DEF RecvPing, KnowsPeer
<1> QED
  BY <1>7, <1>8, <1>9, <1>10 DEF PairInv

-----------------------------------------------------------------------------
(* New sessions.                                                           *)

(* An id that is in no use can be the id of any two processes.             *)
LEMMA UnusedIsQuiet ==
  ASSUME IInv, NEW i \in SessionID, ~InUse(i), NEW a \in Node, NEW b \in Node
  PROVE  Paired(i, a, b) /\ Quiet(i) /\ \A n \in Node : ~Live(n, i)
<1>1. /\ \A n \in Node : ~Live(n, i)
      /\ \A m \in net : m.sid # i
      /\ \A p \in Peering : invite[p] # i
  BY UseIsLive
<1>2. ASSUME NEW n \in Node
      PROVE  /\ senders[n][i] = 0 /\ handshaker[n][i] # "booped"
             /\ \A w \in Worker : handler[n][w].sid # i
  <2>1. senders[n][i] \in Nat /\ ~(senders[n][i] > 0)
    BY <1>1 DEF IInv, TypeOK, Live
  <2> QED
    BY <1>1, <2>1 DEF Live
<1> QED
  BY <1>1, <1>2 DEF Paired, Quiet

(* Storing one end of a session whose id is quiet.                         *)
LEMMA NewEnd ==
  ASSUME PairInv, NEW p \in Peering, NEW i \in SessionID,
         NEW n \in Node, NEW mine \in BOOLEAN, NEW peer \in Node \cup {NoAddr},
         Paired(i, p[1], p[2]), Quiet(i), ~Live(n, i),
         \/ n = p[1] /\ mine = TRUE /\ peer = p[2]
         \/ n = p[2] /\ mine = FALSE /\ peer = NoAddr,
         NewSession(n, i, mine, peer),
         invite' = [invite EXCEPT ![p] = i], UNCHANGED <<handler, net>>
  PROVE  /\ Paired(i, p[1], p[2])' /\ OnlyTouches(i)
         /\ PingsConfirmed' /\ PeersKnown' /\ MeasuredBothWays'
<1>1. p[1] \in Node /\ p[2] \in Node /\ p[1] # p[2]
  BY PeeringAssumption
<1>2. /\ \A r \in Node, j \in SessionID : r # n \/ j # i =>
           /\ PeerAddress'[r][j] = PeerAddress[r][j] /\ ReplyTo'[r][j] = ReplyTo[r][j]
           /\ SinceRX'[r][j] = SinceRX[r][j] /\ handshaker'[r][j] = handshaker[r][j]
           /\ j \in sessionMap'[r] <=> j \in sessionMap[r]
      /\ PeerAddress'[n][i] = peer /\ ReplyTo'[n][i] = NoAddr /\ SinceRX'[n][i] = Old
  <2>1. /\ \A r \in Node, j \in SessionID : r # n \/ j # i =>
             PeerAddress'[r][j] = PeerAddress[r][j] /\ ReplyTo'[r][j] = ReplyTo[r][j]
        /\ PeerAddress'[n][i] = peer /\ ReplyTo'[n][i] = NoAddr
    BY DEF PairInv, IInv, TypeOK, NewSession
  <2>2. /\ \A r \in Node, j \in SessionID : r # n \/ j # i =>
             SinceRX'[r][j] = SinceRX[r][j] /\ handshaker'[r][j] = handshaker[r][j]
        /\ SinceRX'[n][i] = Old
    BY DEF PairInv, IInv, TypeOK, NewSession
  <2>3. \A r \in Node, j \in SessionID : r # n \/ j # i =>
          (j \in sessionMap'[r] <=> j \in sessionMap[r])
    BY DEF PairInv, IInv, TypeOK, NewSession
  <2> QED
    BY <2>1, <2>2, <2>3
<1>3. /\ \A r \in Node, j \in SessionID : r # n \/ j # i =>
           UDPActivated'[r][j] = UDPActivated[r][j]
      /\ UDPActivated'[n][i] = FALSE
  <2>1. /\ UDPActivated \in [Node -> [SessionID -> BOOLEAN]]
        /\ UDPActivated' = [UDPActivated EXCEPT ![n][i] = FALSE]
    BY DEF PairInv, IInv, TypeOK, NewSession
  <2> QED
    BY <2>1
<1>4. /\ \A r \in Node, j \in SessionID : r # n \/ j # i =>
           MadeByMe'[r][j] = MadeByMe[r][j]
      /\ MadeByMe'[n][i] = mine
  <2>1. /\ MadeByMe \in [Node -> [SessionID -> BOOLEAN]]
        /\ MadeByMe' = [MadeByMe EXCEPT ![n][i] = mine]
    BY DEF PairInv, IInv, TypeOK, NewSession
  <2> QED
    BY <2>1
<1>5. \A r \in Node, j \in SessionID : r # n \/ j # i => (Live(r, j)' <=> Live(r, j))
  BY <1>2 DEF NewSession, Live
<1>6. \A q \in Peering : invite'[q] = invite[q] \/ (q = p /\ invite'[q] = i)
  BY DEF PairInv, IInv, TypeOK
<1>7. \A r \in Node, w \in Worker : handler'[r][w].sid # i
  BY DEF Quiet
<1>8. Paired(i, p[1], p[2])'
  <2>1. \A r \in Node : Live(r, i)' => r \in {p[1], p[2]}
    BY <1>5 DEF Paired
  <2>2. Live(p[1], i)' => End(i, p[1], p[2], TRUE)'
    <3>1. CASE n = p[1]
      BY <1>1, <1>2, <1>3, <1>4, <1>7, <3>1 DEF End
    <3>2. CASE n # p[1]
      BY <1>1, <1>2, <1>3, <1>4, <1>5, <1>7, <3>2 DEF Paired, End
    <3> QED
      BY <3>1, <3>2
  <2>3. Live(p[2], i)' => End(i, p[2], p[1], FALSE)'
    <3>1. CASE n = p[2]
      BY <1>1, <1>2, <1>3, <1>4, <1>7, <3>1 DEF End
    <3>2. CASE n # p[2]
      BY <1>1, <1>2, <1>3, <1>4, <1>5, <1>7, <3>2 DEF Paired, End
    <3> QED
      BY <3>1, <3>2
  <2> QED
    BY <1>6, <2>1, <2>2, <2>3 DEF Paired
<1>9. OnlyTouches(i)
  <2> SUFFICES ASSUME NEW j \in SessionID, j # i PROVE Keeps(j) /\ NoNewSender(j)
    BY DEF OnlyTouches
  <2>1. \A r \in Node :
          /\ MadeByMe'[r][j] = MadeByMe[r][j] /\ UDPActivated'[r][j] = UDPActivated[r][j]
          /\ PeerAddress'[r][j] = PeerAddress[r][j] /\ ReplyTo'[r][j] = ReplyTo[r][j]
          /\ Live(r, j)' => Live(r, j)
    BY <1>2, <1>3, <1>4, <1>5
  <2>2. NoNewSender(j)
    BY <1>2 DEF NewSession, NoNewSender
  <2> QED
    BY <1>6, <2>1, <2>2 DEF Keeps
<1>10. PingsConfirmed'
  <2> SUFFICES ASSUME NEW m \in net, m.type = "t" PROVE UDPActivated'[m.src][m.sid]
    BY DEF PingsConfirmed
  <2>1. m.sid # i /\ m.src \in Node /\ m.sid \in SessionID
    BY DEF PairInv, IInv, TypeOK, Message, Quiet
  <2> QED
    BY <1>3, <2>1 DEF PairInv, PingsConfirmed
<1>11. MeasuredBothWays'
  <2> SUFFICES ASSUME NEW r \in Node, NEW j \in SessionID,
                      j \in sessionMap'[r], SinceRX'[r][j] < Old
               PROVE  /\ UDPActivated'[r][j] /\ PeerAddress'[r][j] # NoAddr
                      /\ ReplyTo'[r][j] # NoAddr /\ UDPActivated'[ReplyTo'[r][j]][j]
    BY DEF MeasuredBothWays
  <2>1. r # n \/ j # i
    BY <1>2, LimitAssumption
  <2>2. /\ UDPActivated[r][j] /\ PeerAddress[r][j] # NoAddr
        /\ ReplyTo[r][j] # NoAddr /\ UDPActivated[ReplyTo[r][j]][j]
    BY <1>2, <2>1 DEF PairInv, MeasuredBothWays
  <2>3. j # i
    BY <1>2, <2>1, <2>2 DEF Quiet, Live
  <2>4. ReplyTo[r][j] \in Node
    BY <2>2 DEF PairInv, IInv, TypeOK
  <2> QED
    BY <1>2, <1>3, <2>1, <2>2, <2>3, <2>4
<1>12. PeersKnown'
  <2>1. \A r \in Node, j \in SessionID : j # i => PeerAddress'[r][j] = PeerAddress[r][j]
    BY <1>2
  <2>2. ASSUME NEW m \in net
        PROVE  KnowsPeer(m.src, m.sid)' /\ (m.type = "t" => KnowsPeer(m.dst, m.sid)')
    <3>1. m.sid # i /\ m.src \in Node /\ m.dst \in Node /\ m.sid \in SessionID
      BY DEF PairInv, IInv, TypeOK, Message, Quiet
    <3> QED
      BY <2>1, <3>1 DEF PairInv, PeersKnown, KnowsPeer
  <2>3. ASSUME NEW r \in Node, NEW w \in Worker, NEW j \in SessionID, handler[r][w].sid = j
        PROVE  PeerAddress'[handler[r][w].src][j] # NoAddr
    <3>1. j # i
      BY <2>3 DEF Quiet
    <3>2. PICK a \in Node, b \in Node : a # b /\ Paired(j, a, b) /\ r \in {a, b}
      BY <2>3, TwoEnds DEF PairInv, Live
    <3>3. handler[r][w].src \in Node
      BY <2>3, <3>2 DEF Paired, End, Live
    <3> QED
      BY <2>1, <2>3, <3>1, <3>3 DEF PairInv, PeersKnown, KnowsPeer
  <2>4. ASSUME NEW r \in Node, NEW j \in SessionID, Live(r, j)', ReplyTo'[r][j] # NoAddr
        PROVE  PeerAddress'[ReplyTo'[r][j]][j] # NoAddr
    <3>1. (r # n \/ j # i) /\ Live(r, j) /\ ReplyTo'[r][j] = ReplyTo[r][j]
      BY <1>2, <1>5, <2>4
    <3>2. ReplyTo[r][j] \in Node /\ PeerAddress[ReplyTo[r][j]][j] # NoAddr
      BY <2>4, <3>1 DEF PairInv, IInv, TypeOK, PeersKnown, KnowsPeer
    <3>3. CASE j # i
      BY <2>1, <3>1, <3>2, <3>3
    <3>4. CASE j = i
      <4>1. Live(r, i) /\ r # n /\ r \in {p[1], p[2]}
        BY <3>1, <3>4 DEF Paired
      <4>2. r # p[1]
        BY <1>1, <4>1 DEF Paired, End, Quiet
      <4>3. peer # NoAddr
        BY <1>1, <4>1, <4>2, NullAssumption
      <4> QED
        BY <1>2, <3>1, <3>2, <3>4, <4>3
    <3> QED
      BY <3>3, <3>4
  <2> QED
    BY <2>2, <2>3, <2>4 DEF PeersKnown, KnowsPeer
<1> QED
  BY <1>8, <1>9, <1>10, <1>11, <1>12

(* The dialers that still wait do so for other ids.                        *)
LEMMA OtherDialers ==
  ASSUME PairInv, IInv', NEW i \in SessionID, OnlyTouches(i), NEW q \in Peering,
         dialer[q] \in {"asked", "offered"}, invite[q] # i, invite'[q] = invite[q]
  PROVE  Quiet(invite[q])'
<1>1. Quiet(invite[q]) /\ invite[q] \in SessionID
  BY DEF PairInv, AskedIsQuiet, IInv, DialerHolds
<1>2. ASSUME NEW j \in SessionID, j = invite[q] PROVE Quiet(j)'
  BY <1>1, <1>2, KeepsQuiet DEF PairInv, OnlyTouches
<1> QED
  BY <1>1, <1>2 DEF Quiet, Live

(* handleTCPconnection draws an id that is in no use.                      *)
LEMMA InvitePairs ==
  ASSUME PairInv, IInv', NEW p \in Peering, NEW i \in SessionID, Invite(p, i)
  PROVE  PairInv'
<1>1. p[1] \in Node /\ p[2] \in Node /\ p[1] # p[2]
  BY PeeringAssumption
<1>2. Paired(i, p[1], p[2]) /\ Quiet(i) /\ \A n \in Node : ~Live(n, i)
  BY <1>1, UnusedIsQuiet DEF PairInv, Invite
<1>3. /\ Paired(i, p[1], p[2])' /\ OnlyTouches(i)
      /\ PingsConfirmed' /\ PeersKnown' /\ MeasuredBothWays'
  BY <1>1, <1>2, NewEnd DEF Invite
<1>4. AllPaired'
  BY <1>1, <1>3, PairedStep DEF PairInv, OnlyTouches
<1>5. Quiet(i)'
  <2>1. \A r \in Node : Live(r, i)' => r = p[2]
    BY <1>2 DEF PairInv, IInv, TypeOK, Invite, NewSession, Live
  <2>2. ~UDPActivated'[p[2]][i] /\ ~MadeByMe'[p[2]][i]
    BY <1>1 DEF PairInv, IInv, TypeOK, Invite, NewSession
  <2>3. \A r \in Node : handshaker'[r][i] # "booped"
    BY <1>2 DEF PairInv, IInv, TypeOK, Invite, NewSession, Quiet
  <2> QED
    BY <1>2, <2>1, <2>2, <2>3 DEF Invite, NewSession, Quiet
<1>6. AskedIsQuiet'
  <2> SUFFICES ASSUME NEW q \in Peering, dialer'[q] \in {"asked", "offered"}
               PROVE  Quiet(invite[q])'
    BY DEF AskedIsQuiet
  <2>1. CASE q = p
    <3>1. invite'[q] = i
      BY <2>1 DEF PairInv, IInv, TypeOK, Invite
    <3> QED
      BY <1>5, <3>1 DEF Quiet, Live
  <2>2. CASE q # p
    <3>1. dialer'[q] = dialer[q] /\ invite'[q] = invite[q] /\ invite[q] # i
      BY <2>2 DEF PairInv, IInv, TypeOK, Invite, InUse
    <3> QED
      BY <1>3, <3>1, OtherDialers
  <2> QED
    BY <2>1, <2>2
<1> QED
  BY <1>3, <1>4, <1>6 DEF PairInv

(* startSession stores the end that was waited for, or one of its own.     *)
LEMMA AcceptInvitePairs ==
  ASSUME PairInv, IInv', NEW p \in Peering, NEW i \in SessionID, AcceptInvite(p, i)
  PROVE  PairInv'
<1>1. p[1] \in Node /\ p[2] \in Node /\ p[1] # p[2]
  BY PeeringAssumption
<1>2. /\ Paired(i, p[1], p[2]) /\ Quiet(i) /\ ~Live(p[1], i)
      /\ \A q \in Peering : q # p => invite[q] # i
  <2>1. CASE i = invite[p]
    <3>1. InUse(i)
      BY <2>1 DEF InUse
    <3>2. PICK a \in Node, b \in Node : a # b /\ Paired(i, a, b)
      BY <3>1 DEF PairInv, AllPaired
    <3>3. a = p[1] /\ b = p[2]
      BY <2>1, <3>2 DEF Paired
    <3>4. Quiet(i)
      BY <2>1 DEF PairInv, AskedIsQuiet, AcceptInvite
    <3>5. ~Live(p[1], i)
      BY <1>1, <2>1 DEF PairInv, IInv, TypeOK, InviteIsNew, AcceptInvite, Live
    <3>6. \A q \in Peering : q # p => invite[q] # i
      BY <2>1, NullAssumption DEF PairInv, IInv, DialerHolds
    <3> QED
      BY <3>2, <3>3, <3>4, <3>5, <3>6
  <2>2. CASE ~InUse(i)
    BY <1>1, <2>2, UnusedIsQuiet DEF PairInv, InUse
  <2> QED
    BY <2>1, <2>2 DEF AcceptInvite
<1>3. /\ Paired(i, p[1], p[2])' /\ OnlyTouches(i)
      /\ PingsConfirmed' /\ PeersKnown' /\ MeasuredBothWays'
  BY <1>1, <1>2, NewEnd DEF AcceptInvite
<1>4. AllPaired'
  BY <1>1, <1>3, PairedStep DEF PairInv, OnlyTouches
<1>5. AskedIsQuiet'
  <2> SUFFICES ASSUME NEW q \in Peering, dialer'[q] \in {"asked", "offered"}
               PROVE  Quiet(invite[q])'
    BY DEF AskedIsQuiet
  <2>1. q # p /\ dialer'[q] = dialer[q] /\ invite'[q] = invite[q] /\ invite[q] # i
    BY <1>2 DEF PairInv, IInv, TypeOK, AcceptInvite
  <2> QED
    BY <1>3, <2>1, OtherDialers
<1> QED
  BY <1>3, <1>4, <1>5 DEF PairInv

-----------------------------------------------------------------------------
(* At the start no id is in use.                                           *)
LEMMA InitPairInv == Init => PairInv
<1> SUFFICES ASSUME Init PROVE PairInv
  OBVIOUS
<1>1. IInv
  BY InitIInv
<1>2. AllPaired
  BY NullAssumption DEF Init, AllPaired, InUse, IdleHandler
<1>3. AskedIsQuiet /\ PingsConfirmed
  BY DEF Init, AskedIsQuiet, PingsConfirmed
<1>4. MeasuredBothWays
  BY DEF Init, MeasuredBothWays
<1>5. PeersKnown
  BY NullAssumption DEF Init, PeersKnown, IdleHandler
<1> QED
  BY <1>1, <1>2, <1>3, <1>4, <1>5 DEF PairInv

(* Every step keeps the two ends of every session.                         *)
LEMMA NextPairInv == PairInv /\ [Next]_vars => PairInv'
<1> SUFFICES ASSUME PairInv, [Next]_vars PROVE PairInv'
  OBVIOUS
<1>0. IInv /\ IInv'
  BY NextIInv DEF PairInv
<1>1. ASSUME NEW n \in Node, Process(n) \/ Restart(n) PROVE PairInv'
  BY <1>0, <1>1, PlainProcess, PlainStep DEF Process, Restart
<1>2. ASSUME NEW n \in Node, NEW i \in SessionID, HandshakerStep(n, i) PROVE PairInv'
  <2>1. StartWithoutSocket(n, i) => PairInv'
    BY <1>0, PlainProcess, PlainStep DEF StartWithoutSocket, Panic
  <2> QED
    BY <1>0, <1>2, <2>1, PlainSession, PlainStep, HandshakerRoundPairs, StartSendingPairs
       DEF HandshakerStep
<1>3. ASSUME NEW n \in Node, NEW i \in SessionID, SessionStep(n, i) PROVE PairInv'
  <2>1. SpawnOnNil(n, i) => PairInv'
    BY <1>0, PlainProcess, PlainStep DEF SpawnOnNil, Panic
  <2> QED
    BY <1>0, <1>3, <2>1, PlainSession, PlainStep, SendPingPairs DEF SessionStep
<1>4. ASSUME NEW p \in Peering, DialerStep(p) PROVE PairInv'
  BY <1>0, <1>4, PlainDialer, PlainStep, InvitePairs, AcceptInvitePairs DEF DialerStep
<1>5. ASSUME NEW n \in Node, NEW w \in Worker, HandlerStep(n, w) PROVE PairInv'
  BY <1>0, <1>5, PlainOther, PlainStep, AnswerPairs, ActivatePairs, AdoptPairs, NotifyPairs
     DEF HandlerStep
<1>6. ASSUME NEW n \in Node, NEW m \in net, Receive(n, m) PROVE PairInv'
  BY <1>0, <1>6, RecvPingPairs, RecvHandshakePairs DEF Receive
<1>7. ASSUME NEW m \in net, Drop(m) PROVE PairInv'
  BY <1>0, <1>7, PlainOther, PlainStep
<1>8. CASE Tick
  BY <1>0, <1>8, PlainOther, PlainStep
<1>9. CASE UNCHANGED vars
  <2>1. Plain
    BY <1>9 DEF Plain, Keeps, NoNewSender, Live, vars, fieldVars, routineVars, dialVars
  <2> QED
    BY <1>0, <2>1, PlainStep
<1> QED
  BY <1>1, <1>2, <1>3, <1>4, <1>5, <1>6, <1>7, <1>8, <1>9 DEF Next

(* In every reachable state each session id in use belongs to one dialer   *)
(* and one process it dialed, whatever packets are lost, duplicated or     *)
(* late, whatever handlers race, and whoever restarts.                     *)
THEOREM PairInvariant == Spec => []PairInv
<1> QED
  BY InitPairInv, NextPairInv, PTL DEF Spec

(* handlePacket takes a ping only of a session that its sender has         *)
(* activated too and whose PeerAddress is known: what is measured is       *)
(* confirmed at both ends, and its host is never nil.                      *)
THEOREM BothWays == Spec => []MeasuredBothWays
<1>1. PairInv => MeasuredBothWays
  BY DEF PairInv
<1> QED
  BY <1>1, PairInvariant, PTL

(* Two session tables that hold the same id hold the two ends of one       *)
(* session; each end, once activated, answers the other, and knows it as   *)
(* its peer by the time it sends pings or has received one.                *)
THEOREM Ends == Spec => []EndsArePaired
<1>1. PairInv => EndsArePaired
  <2> SUFFICES ASSUME PairInv, NEW n \in Node, NEW m \in Node,
                      NEW i \in sessionMap[n] \cap sessionMap[m], n # m
               PROVE  /\ MadeByMe[n][i] # MadeByMe[m][i]
                      /\ PeerAddress[n][i] \in {NoAddr, m}
                      /\ UDPActivated[n][i] => ReplyTo[n][i] = m
                      /\ senders[n][i] > 0 \/ SinceRX[n][i] < Old => PeerAddress[n][i] = m
    BY DEF EndsArePaired
  <2>1. i \in SessionID /\ Live(n, i) /\ Live(m, i)
    BY DEF PairInv, IInv, TypeOK, Live
  <2>2. PICK a \in Node, b \in Node : a # b /\ Paired(i, a, b)
    BY <2>1, TwoEnds DEF PairInv
  <2>3. {n, m} = {a, b}
    BY <2>1, <2>2 DEF Paired
  <2>4. MadeByMe[a][i] = TRUE /\ MadeByMe[b][i] = FALSE
    BY <2>1, <2>2, <2>3 DEF Paired, End
  <2>5. PeerAddress[n][i] \in {NoAddr, m} /\ (UDPActivated[n][i] => ReplyTo[n][i] = m)
    BY <2>1, <2>2, <2>3 DEF Paired, End
  <2>6. senders[n][i] > 0 \/ SinceRX[n][i] < Old => PeerAddress[n][i] # NoAddr
    BY <2>1 DEF PairInv, MeasuredBothWays, IInv, SenderIsLast
  <2> QED
    BY <2>3, <2>4, <2>5, <2>6
<1> QED
  BY <1>1, PairInvariant, PTL
=============================================================================
