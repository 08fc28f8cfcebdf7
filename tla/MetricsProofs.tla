--------------------------- MODULE MetricsProofs ---------------------------
(***************************************************************************)
(* The Prometheus collector, for any number of sessions, hosts and pings.  *)
(***************************************************************************)
EXTENDS Metrics, TLAPS

(* The inductive invariant.  The lock is held by the walk and the walk     *)
(* only goes on under the lock.                                            *)
WalkUnderLock ==
  /\ lock = "measure" <=> scrape = "measuring"
  /\ scrape # "measuring" => todo = {} /\ current = Unset

(* The session in hand is in the table and not to come again.  Its LastRX  *)
(* was read before its address will be: if it was not zero, the address is *)
(* known by now.                                                           *)
InHand ==
  current # Unset => /\ current.ses \in listed \ todo
                     /\ current.at # 0 => PeerAddress[current.ses] # Nil

(* A session whose peer does not send has had no ping.  The peer sends     *)
(* only once the address is known, to a session in the table.              *)
Unmeasured(s) ==
  LastRX[s] = 0 /\ LastRXPing[s] = [of |-> 0, ring |-> 0] /\ ~ringFull[s] /\ handlers[s] = {}
Unwelcome ==
  \A s \in Session :
    /\ ~peerSends[s] => Unmeasured(s)
    /\ PeerAddress[s] = Nil \/ s \notin listed => ~peerSends[s]
    /\ s \notin listed => ~UDPActivated[s]

(* A handler that is alone is the only one of its session, and LastRX is   *)
(* its own once it has stored it.  LastRXPing is of the same ping as       *)
(* LastRX after a ping that was handled alone, but for the time between    *)
(* the two stores.                                                         *)
Alone(s) ==
  \A h \in handlers[s] : h.alone =>
    handlers[s] = {h} /\ ~h.crossed /\ (h.pc = "between" => LastRX[s] = h.ping)
Follows(s) ==
  clean[s] /\ Between(s) = {} => LastRXPing[s] = [of |-> LastRX[s], ring |-> LastRX[s]]
PingFollows == \A s \in Session : Alone(s) /\ Follows(s)

(* The sessions the walk has not yet set the gauges of.                    *)
Pending == todo \cup {s \in Session : current # Unset /\ current.ses = s}
Walked(h) == SessionsOf(h) \ Pending

(* A walk that met no handler finds no ping half stored, and has set the   *)
(* gauges of each host from a session already walked.                      *)
WalkedExact(h) ==
  /\ Walked(h) # {} =>
       \E s \in Walked(h) : promLatency[h] = StoredLatency(s)
  /\ (\E s \in Walked(h) : ringFull[s]) =>
       \E s \in Walked(h) : ringFull[s] /\ promLoss[h] = s

CalmWalk ==
  scrape = "measuring" /\ ~met =>
    /\ \A s \in listed : Between(s) = {}
    /\ current # Unset => current.at = LastRX[current.ses]
    /\ \A h \in Label : WalkedExact(h)

MInv ==
  /\ TypeOK
  /\ WalkUnderLock
  /\ InHand
  /\ Unwelcome
  /\ PingFollows
  /\ NilHostIsZero
  /\ CalmWalk

(* Fields that a step leaves alone keep what is said of them.              *)
LEMMA SamePings ==
  ASSUME PingFollows, UNCHANGED pingVars
  PROVE  PingFollows'
BY DEF PingFollows, Alone, Follows, Between, pingVars

LEMMA SameUnwelcome ==
  ASSUME Unwelcome, UNCHANGED <<pingVars, peerVars, listed>>
  PROVE  Unwelcome'
BY DEF Unwelcome, Unmeasured, pingVars, peerVars

(* In the initial state there are no sessions.                             *)
LEMMA InitMInv == ASSUME Init PROVE MInv
<1>1. /\ met \in BOOLEAN /\ UDPActivated \in [Session -> BOOLEAN] /\ peerSends \in [Session -> BOOLEAN]
      /\ ringFull \in [Session -> BOOLEAN] /\ clean \in [Session -> BOOLEAN]
      /\ \A s \in Session : ~UDPActivated[s] /\ ~peerSends[s] /\ ~ringFull[s]
  BY Zenon DEF Init
<1>2. Nil \in Label
  BY DEF Label
<1>3. TypeOK
  <2>1. 0 \in Ping /\ [of |-> 0, ring |-> 0] \in PingStruct
    BY BoundAssumption DEF Ping, PingStruct
  <2> QED
    BY <1>1, <1>2, <2>1 DEF Init, TypeOK
<1>4. WalkUnderLock /\ InHand /\ CalmWalk
  BY DEF Init, WalkUnderLock, InHand, CalmWalk
<1>5. Unwelcome
  BY <1>1 DEF Init, Unwelcome, Unmeasured
<1>6. PingFollows
  BY DEF Init, PingFollows, Alone, Follows
<1>7. NilHostIsZero
  BY <1>2 DEF Init, NilHostIsZero
<1> QED
  BY <1>3, <1>4, <1>5, <1>6, <1>7 DEF MInv

(* startSession and handleTCPconnection store a session.                   *)
LEMMA StoreSessionStep ==
  ASSUME MInv, NEW s \in Session, NEW h \in Label, StoreSession(s, h)
  PROVE  MInv'
<1>1. scrape # "measuring" /\ todo = {} /\ current = Unset
  BY DEF MInv, WalkUnderLock, StoreSession
<1>2. /\ peerSends' \in [Session -> BOOLEAN]
      /\ \A r \in Session : r # s => peerSends'[r] = peerSends[r]
      /\ peerSends'[s] <=> h # Nil
  <2>1. (h # Nil) \in BOOLEAN /\ peerSends \in [Session -> BOOLEAN]
    BY Zenon DEF MInv, TypeOK
  <2>2. peerSends' = [peerSends EXCEPT ![s] = h # Nil]
    BY DEF StoreSession
  <2> QED
    BY <2>1, <2>2, Zenon
<1>3. /\ PeerAddress' \in [Session -> Label] /\ PeerAddress'[s] = h
      /\ \A r \in Session : r # s => PeerAddress'[r] = PeerAddress[r]
  BY DEF MInv, TypeOK, StoreSession
<1>4. TypeOK'
  BY <1>1, <1>2, <1>3 DEF MInv, TypeOK, StoreSession, scrapeVars, pingVars
<1>5. WalkUnderLock' /\ InHand' /\ CalmWalk'
  BY <1>1 DEF MInv, WalkUnderLock, InHand, CalmWalk, StoreSession, scrapeVars
<1>6. Unwelcome'
  <2> SUFFICES ASSUME NEW r \in Session
               PROVE  /\ ~peerSends'[r] => Unmeasured(r)'
                      /\ PeerAddress'[r] = Nil \/ r \notin listed' => ~peerSends'[r]
                      /\ r \notin listed' => ~UDPActivated'[r]
    BY DEF Unwelcome
  <2>1. UNCHANGED <<pingVars, UDPActivated>> /\ listed' = listed \cup {s} /\ s \notin listed
    BY DEF StoreSession
  <2>2. Unmeasured(r) => Unmeasured(r)'
    BY <2>1 DEF Unmeasured, pingVars
  <2>3. CASE r = s
    BY <1>2, <1>3, <2>1, <2>2, <2>3 DEF MInv, Unwelcome
  <2>4. CASE r # s
    <3>1. peerSends'[r] <=> peerSends[r]
      BY <1>2, <2>4
    <3> QED
      BY <1>3, <2>1, <2>2, <2>4, <3>1 DEF MInv, Unwelcome
  <2> QED
    BY <2>3, <2>4
<1>7. PingFollows'
  BY SamePings DEF MInv, StoreSession
<1>8. NilHostIsZero'
  BY DEF MInv, NilHostIsZero, StoreSession, scrapeVars
<1> QED
  BY <1>4, <1>5, <1>6, <1>7, <1>8 DEF MInv

(* sessionGC drops one.                                                    *)
LEMMA sessionGCStep ==
  ASSUME MInv, NEW s \in Session, sessionGC(s)
  PROVE  MInv'
<1>1. scrape # "measuring" /\ todo = {} /\ current = Unset
  BY DEF MInv, WalkUnderLock, sessionGC
<1>2. /\ UDPActivated' \in [Session -> BOOLEAN] /\ ~UDPActivated'[s]
      /\ peerSends' \in [Session -> BOOLEAN] /\ ~peerSends'[s]
      /\ ringFull' \in [Session -> BOOLEAN] /\ ~ringFull'[s]
      /\ clean' \in [Session -> BOOLEAN]
  BY Zenon DEF MInv, TypeOK, sessionGC, Forget
<1>3. /\ LastRX' \in [Session -> Ping] /\ LastRX'[s] = 0
      /\ LastRXPing' \in [Session -> PingStruct] /\ LastRXPing'[s] = [of |-> 0, ring |-> 0]
      /\ handlers' \in [Session -> SUBSET Handler] /\ handlers'[s] = {}
      /\ PeerAddress' \in [Session -> Label]
  <2>1. 0 \in Ping /\ [of |-> 0, ring |-> 0] \in PingStruct /\ Nil \in Label
    BY BoundAssumption DEF Ping, PingStruct, Label
  <2> DEFINE zero == [of |-> 0, ring |-> 0]
  <2>2. LastRXPing' = [LastRXPing EXCEPT ![s] = zero]
    BY DEF sessionGC, Forget
  <2>3. zero \in PingStruct
    BY <2>1
  <2> HIDE DEF zero
  <2>4. LastRXPing' \in [Session -> PingStruct] /\ LastRXPing'[s] = zero
    BY <2>2, <2>3 DEF MInv, TypeOK
  <2>5. /\ LastRX' \in [Session -> Ping] /\ LastRX'[s] = 0
        /\ handlers' \in [Session -> SUBSET Handler] /\ handlers'[s] = {}
        /\ PeerAddress' \in [Session -> Label]
    BY <2>1 DEF MInv, TypeOK, sessionGC, Forget
  <2> QED
    BY <2>4, <2>5 DEF zero
<1>4. /\ \A r \in Session : r # s => /\ LastRX'[r] = LastRX[r] /\ LastRXPing'[r] = LastRXPing[r]
                                     /\ handlers'[r] = handlers[r] /\ PeerAddress'[r] = PeerAddress[r]
      /\ listed' = listed \ {s}
  BY DEF MInv, TypeOK, sessionGC, Forget
<1>5. \A r \in Session : r # s => /\ UDPActivated'[r] = UDPActivated[r] /\ peerSends'[r] = peerSends[r]
                                  /\ ringFull'[r] = ringFull[r] /\ clean'[r] = clean[r]
  BY Zenon DEF MInv, TypeOK, sessionGC, Forget
<1>6. TypeOK'
  BY <1>1, <1>2, <1>3, <1>4 DEF MInv, TypeOK, sessionGC, scrapeVars
<1>7. WalkUnderLock' /\ InHand' /\ CalmWalk'
  BY <1>1 DEF MInv, WalkUnderLock, InHand, CalmWalk, sessionGC, scrapeVars
<1>8. Unwelcome'
  <2> SUFFICES ASSUME NEW r \in Session
               PROVE  /\ ~peerSends'[r] => Unmeasured(r)'
                      /\ PeerAddress'[r] = Nil \/ r \notin listed' => ~peerSends'[r]
                      /\ r \notin listed' => ~UDPActivated'[r]
    BY DEF Unwelcome
  <2>1. CASE r = s
    BY <1>2, <1>3, <2>1 DEF Unmeasured
  <2>2. CASE r # s
    <3>1. Unmeasured(r) => Unmeasured(r)'
      BY <1>4, <1>5, <2>2 DEF Unmeasured
    <3>2. (peerSends'[r] <=> peerSends[r]) /\ (UDPActivated'[r] <=> UDPActivated[r])
      BY <1>5, <2>2
    <3> QED
      BY <1>4, <2>2, <3>1, <3>2 DEF MInv, Unwelcome
  <2> QED
    BY <2>1, <2>2
<1>9. PingFollows'
  <2> SUFFICES ASSUME NEW r \in Session PROVE Alone(r)' /\ Follows(r)'
    BY DEF PingFollows
  <2>1. CASE r = s
    BY <1>3, <2>1 DEF Alone, Follows
  <2>2. CASE r # s
    <3>1. (clean'[r] <=> clean[r]) /\ Alone(r) /\ Follows(r)
      BY <1>5, <2>2 DEF MInv, PingFollows
    <3> QED
      BY <1>4, <2>2, <3>1 DEF Alone, Follows, Between
  <2> QED
    BY <2>1, <2>2
<1>10. NilHostIsZero'
  BY DEF MInv, NilHostIsZero, sessionGC, scrapeVars
<1> QED
  BY <1>6, <1>7, <1>8, <1>9, <1>10 DEF MInv

(* The second tickers copy the table.                                      *)
LEMMA TickerStep == ASSUME MInv, ClockTicker \/ TickerUnlock PROVE MInv'
<1> USE DEF ClockTicker, TickerUnlock
<1>1. scrape # "measuring" /\ todo = {} /\ current = Unset
  BY DEF MInv, WalkUnderLock
<1>2. TypeOK'
  BY DEF MInv, TypeOK, peerVars, pingVars, scrapeVars
<1>3. WalkUnderLock' /\ InHand' /\ CalmWalk'
  BY <1>1 DEF MInv, WalkUnderLock, InHand, CalmWalk, scrapeVars
<1>4. Unwelcome' /\ PingFollows'
  BY SameUnwelcome, SamePings DEF MInv
<1>5. NilHostIsZero'
  BY DEF MInv, NilHostIsZero, scrapeVars
<1> QED
  BY <1>2, <1>3, <1>4, <1>5 DEF MInv

(* A handler that runs under a scrape is remembered.                       *)
LEMMA MetWhileMeasuring ==
  ASSUME Meets, UNCHANGED scrapeVars
  PROVE  met' \in BOOLEAN /\ CalmWalk'
<1>1. met' \in BOOLEAN
  BY Zenon DEF Meets
<1>2. scrape' = "measuring" => met'
  BY Zenon DEF Meets, scrapeVars
<1> QED
  BY <1>1, <1>2 DEF CalmWalk

(* handleInboundHandshake stores the flag,                                 *)
LEMMA ActivateStep ==
  ASSUME MInv, NEW s \in Session, Activate(s)
  PROVE  MInv'
<1>1. met' \in BOOLEAN /\ CalmWalk'
  BY MetWhileMeasuring DEF Activate
<1>2. UDPActivated' \in [Session -> BOOLEAN] /\ \A r \in Session : r # s => UDPActivated'[r] = UDPActivated[r]
  BY Zenon DEF MInv, TypeOK, Activate
<1>3. TypeOK'
  BY <1>1, <1>2 DEF MInv, TypeOK, Activate, pingVars, scrapeVars
<1>4. WalkUnderLock' /\ InHand' /\ NilHostIsZero'
  BY DEF MInv, WalkUnderLock, InHand, NilHostIsZero, Activate, scrapeVars
<1>5. PingFollows'
  BY SamePings DEF MInv, Activate
<1>6. Unwelcome'
  <2>1. \A r \in Session : r \notin listed' => ~UDPActivated'[r]
    <3>1. \A r \in Session : r \notin listed' => r # s /\ ~UDPActivated[r]
      BY DEF MInv, Unwelcome, Activate
    <3> QED
      BY <1>2, <3>1
  <2> QED
    BY <2>1 DEF MInv, Unwelcome, Unmeasured, Activate, pingVars
<1> QED
  BY <1>1, <1>3, <1>4, <1>5, <1>6 DEF MInv

(* the address,                                                            *)
LEMMA AdoptStep ==
  ASSUME MInv, NEW s \in Session, NEW h \in Host, Adopt(s, h)
  PROVE  MInv'
<1>1. met' \in BOOLEAN /\ CalmWalk'
  BY MetWhileMeasuring DEF Adopt
<1>2. /\ PeerAddress' \in [Session -> Label]
      /\ \A r \in Session : PeerAddress'[r] = Nil => PeerAddress[r] = Nil
  BY NilAssumption DEF Adopt, MInv, TypeOK, Label
<1>3. TypeOK'
  BY <1>1, <1>2 DEF MInv, TypeOK, Adopt, pingVars, scrapeVars
<1>4. WalkUnderLock' /\ NilHostIsZero'
  BY DEF MInv, WalkUnderLock, NilHostIsZero, Adopt, scrapeVars
<1>5. InHand'
  <2>1. current # Unset => current.ses \in Session
    BY DEF MInv, TypeOK, InHand
  <2> QED
    BY <1>2, <2>1 DEF MInv, InHand, Adopt, scrapeVars
<1>6. PingFollows'
  BY SamePings DEF MInv, Adopt
<1>7. Unwelcome'
  BY <1>2 DEF MInv, Unwelcome, Unmeasured, Adopt, pingVars
<1> QED
  BY <1>1, <1>3, <1>4, <1>5, <1>6, <1>7 DEF MInv

(* and only then lets the peer know.                                       *)
LEMMA EchoStep ==
  ASSUME MInv, NEW s \in Session, Echo(s)
  PROVE  MInv'
<1>1. met' \in BOOLEAN /\ CalmWalk'
  BY MetWhileMeasuring DEF Echo
<1>2. /\ peerSends' \in [Session -> BOOLEAN] /\ peerSends'[s]
      /\ \A r \in Session : r # s => peerSends'[r] = peerSends[r]
  BY Zenon DEF MInv, TypeOK, Echo
<1>3. TypeOK'
  BY <1>1, <1>2 DEF MInv, TypeOK, Echo, pingVars, scrapeVars
<1>4. WalkUnderLock' /\ InHand' /\ NilHostIsZero'
  BY DEF MInv, WalkUnderLock, InHand, NilHostIsZero, Echo, scrapeVars
<1>5. PingFollows'
  BY SamePings DEF MInv, Echo
<1>6. Unwelcome'
  <2> SUFFICES ASSUME NEW r \in Session
               PROVE  /\ ~peerSends'[r] => Unmeasured(r)'
                      /\ PeerAddress'[r] = Nil \/ r \notin listed' => ~peerSends'[r]
                      /\ r \notin listed' => ~UDPActivated'[r]
    BY DEF Unwelcome
  <2>1. PeerAddress[s] # Nil /\ UDPActivated[s] /\ UNCHANGED <<listed, PeerAddress, UDPActivated, pingVars>>
    BY DEF Echo
  <2>2. s \in listed
    BY <2>1 DEF MInv, Unwelcome
  <2>3. Unmeasured(r) => Unmeasured(r)'
    BY <2>1 DEF Unmeasured, pingVars
  <2>4. CASE r = s
    BY <1>2, <2>1, <2>2, <2>4
  <2>5. CASE r # s
    <3>1. peerSends'[r] <=> peerSends[r]
      BY <1>2, <2>5
    <3> QED
      BY <2>1, <2>3, <3>1 DEF MInv, Unwelcome
  <2> QED
    BY <2>4, <2>5
<1> QED
  BY <1>1, <1>3, <1>4, <1>5, <1>6 DEF MInv

(* Handlers work only where the peer sends.                                *)
LEMMA HandlerWelcome ==
  ASSUME MInv, NEW s \in Session, handlers[s] # {}
  PROVE  peerSends[s] /\ PeerAddress[s] # Nil /\ s \in listed
BY DEF MInv, Unwelcome, Unmeasured

(* handlePacket finds the session and writes the ring.                     *)
LEMMA RouteStep ==
  ASSUME MInv, NEW s \in Session, Route(s)
  PROVE  MInv'
<1> DEFINE new == [ping |-> pings + 1, pc |-> "acked", alone |-> handlers[s] = {}, crossed |-> FALSE]
           others == {[h EXCEPT !.alone = FALSE] : h \in handlers[s]}
<1>1. met' \in BOOLEAN /\ CalmWalk'
  BY MetWhileMeasuring DEF Route
<1>2. pings' \in Ping /\ pings + 1 \in Ping
  BY BoundAssumption DEF Route, MInv, TypeOK, Ping
<1>3. ringFull' \in [Session -> BOOLEAN] /\ \A r \in Session : r # s => ringFull'[r] = ringFull[r]
  <2>1. ringFull \in [Session -> BOOLEAN] /\ ringFull' \in {ringFull, [ringFull EXCEPT ![s] = TRUE]}
    BY DEF Route, MInv, TypeOK
  <2>2. CASE ringFull' = ringFull
    BY <2>1, <2>2, Zenon
  <2>3. CASE ringFull' = [ringFull EXCEPT ![s] = TRUE]
    BY <2>1, <2>3, Zenon
  <2> QED
    BY <2>1, <2>2, <2>3
<1>4. new \in Handler /\ others \subseteq Handler
  <2>1. (handlers[s] = {}) \in BOOLEAN
    BY Zenon
  <2>2. new \in Handler
    BY <1>2, <2>1 DEF Handler
  <2>3. \A h \in handlers[s] : [h EXCEPT !.alone = FALSE] \in Handler
    <3>1. \A h \in Handler : [h EXCEPT !.alone = FALSE] \in Handler
      BY DEF Handler
    <3> QED
      BY <3>1 DEF MInv, TypeOK
  <2> QED
    BY <2>2, <2>3, Zenon
<1>5. handlers' = [handlers EXCEPT ![s] = others \cup {new}]
  BY DEF Route
<1>6. \A h \in others : ~h.alone
  <2>1. \A h \in Handler : ~[h EXCEPT !.alone = FALSE].alone
    BY DEF Handler
  <2>2. \A h \in handlers[s] : ~[h EXCEPT !.alone = FALSE].alone
    BY <2>1 DEF MInv, TypeOK
  <2> QED
    BY <2>2, Zenon
<1>7. {h.ping : h \in {g \in others : g.pc = "between"}} = Between(s)
  <2>1. \A h \in handlers[s] : LET g == [h EXCEPT !.alone = FALSE] IN
          g.ping = h.ping /\ g.pc = h.pc
    BY DEF MInv, TypeOK, Handler
  <2> DEFINE after == {h.ping : h \in {g \in others : g.pc = "between"}}
             alike(h) == [h EXCEPT !.alone = FALSE]
  <2>2. ASSUME NEW x \in after
        PROVE  x \in Between(s)
    <3>1. PICK g \in others : g.pc = "between" /\ x = g.ping
      OBVIOUS
    <3>2. PICK h \in handlers[s] : g = alike(h)
      BY Zenon
    <3>3. h.pc = "between" /\ x = h.ping
      BY <2>1, <3>1, <3>2, Zenon
    <3> QED
      BY <3>3 DEF Between
  <2>3. ASSUME NEW x \in Between(s)
        PROVE  x \in after
    <3>1. PICK h \in handlers[s] : h.pc = "between" /\ x = h.ping
      BY DEF Between
    <3>2. alike(h) \in others
      BY Zenon
    <3>3. alike(h).pc = "between" /\ x = alike(h).ping
      BY <2>1, <3>1, Zenon
    <3> HIDE DEF alike, others
    <3> QED
      BY <3>2, <3>3
  <2> QED
    BY <2>2, <2>3, Zenon
<1>8. new.pc = "acked" /\ new.crossed = FALSE /\ (new.alone <=> handlers[s] = {})
  OBVIOUS
<1>9. others = {} <=> handlers[s] = {}
  OBVIOUS
<1> HIDE DEF new, others
<1>10. /\ handlers' \in [Session -> SUBSET Handler] /\ handlers'[s] = others \cup {new}
       /\ \A r \in Session : r # s => handlers'[r] = handlers[r]
  BY <1>4, <1>5 DEF MInv, TypeOK
<1>11. TypeOK'
  BY <1>1, <1>2, <1>3, <1>10 DEF MInv, TypeOK, Route, peerVars, scrapeVars
<1>12. WalkUnderLock' /\ InHand' /\ NilHostIsZero'
  BY DEF MInv, WalkUnderLock, InHand, NilHostIsZero, Route, peerVars, scrapeVars
<1>13. Unwelcome'
  <2> SUFFICES ASSUME NEW r \in Session
               PROVE  /\ ~peerSends'[r] => Unmeasured(r)'
                      /\ PeerAddress'[r] = Nil \/ r \notin listed' => ~peerSends'[r]
                      /\ r \notin listed' => ~UDPActivated'[r]
    BY DEF Unwelcome
  <2>1. peerSends[s] /\ UNCHANGED <<listed, peerVars, LastRX, LastRXPing>>
    BY DEF Route
  <2>2. CASE r = s
    BY <2>1, <2>2 DEF MInv, Unwelcome, peerVars
  <2>3. CASE r # s
    <3>1. Unmeasured(r) => Unmeasured(r)'
      BY <1>3, <1>10, <2>1, <2>3 DEF Unmeasured
    <3> QED
      BY <2>1, <3>1 DEF MInv, Unwelcome, peerVars
  <2> QED
    BY <2>2, <2>3
<1>14. PingFollows'
  <2> SUFFICES ASSUME NEW r \in Session PROVE Alone(r)' /\ Follows(r)'
    BY DEF PingFollows
  <2>1. UNCHANGED <<LastRX, LastRXPing, clean>> /\ Alone(r) /\ Follows(r)
    BY DEF Route, MInv, PingFollows
  <2>2. CASE r = s
    <3>1. Between(s)' = Between(s)
      BY <1>7, <1>8, <1>10 DEF Between
    <3>2. Alone(s)'
      BY <1>6, <1>8, <1>9, <1>10 DEF Alone
    <3> QED
      BY <2>1, <2>2, <3>1, <3>2 DEF Follows
  <2>3. CASE r # s
    BY <1>10, <2>1, <2>3 DEF Alone, Follows, Between
  <2> QED
    BY <2>2, <2>3
<1> QED
  BY <1>1, <1>11, <1>12, <1>13, <1>14 DEF MInv

(* handlePacket stores LastRX.                                             *)
LEMMA StoreRXStep ==
  ASSUME MInv, NEW s \in Session, NEW h \in handlers[s], StoreRX(s, h)
  PROVE  MInv'
<1> DEFINE new == [h EXCEPT !.pc = "between"]
<1>1. met' \in BOOLEAN /\ CalmWalk'
  BY MetWhileMeasuring DEF StoreRX
<1>2. h \in Handler /\ h.ping \in Ping
  BY DEF MInv, TypeOK, Handler
<1>3. /\ new \in Handler /\ new.pc = "between" /\ new.ping = h.ping
      /\ (new.alone <=> h.alone) /\ (new.crossed <=> h.crossed)
  BY <1>2 DEF Handler
<1>4. handlers' = [handlers EXCEPT ![s] = (handlers[s] \ {h}) \cup {new}]
  BY DEF StoreRX
<1> HIDE DEF new
<1>5. /\ handlers' \in [Session -> SUBSET Handler] /\ handlers'[s] = (handlers[s] \ {h}) \cup {new}
      /\ \A r \in Session : r # s => handlers'[r] = handlers[r]
  BY <1>3, <1>4 DEF MInv, TypeOK
<1>6. /\ LastRX' \in [Session -> Ping] /\ LastRX'[s] = h.ping
      /\ \A r \in Session : r # s => LastRX'[r] = LastRX[r]
  BY <1>2 DEF MInv, TypeOK, StoreRX
<1>7. TypeOK'
  BY <1>1, <1>5, <1>6 DEF MInv, TypeOK, StoreRX, peerVars, scrapeVars
<1>8. WalkUnderLock' /\ NilHostIsZero' /\ InHand'
  BY DEF MInv, WalkUnderLock, NilHostIsZero, InHand, StoreRX, peerVars, scrapeVars
<1>9. Unwelcome'
  <2> SUFFICES ASSUME NEW r \in Session
               PROVE  /\ ~peerSends'[r] => Unmeasured(r)'
                      /\ PeerAddress'[r] = Nil \/ r \notin listed' => ~peerSends'[r]
                      /\ r \notin listed' => ~UDPActivated'[r]
    BY DEF Unwelcome
  <2>1. peerSends[s] /\ UNCHANGED <<listed, peerVars, LastRXPing, ringFull>>
    BY HandlerWelcome DEF StoreRX
  <2>2. CASE r = s
    BY <2>1, <2>2 DEF MInv, Unwelcome, peerVars
  <2>3. CASE r # s
    <3>1. Unmeasured(r) => Unmeasured(r)'
      BY <1>5, <1>6, <2>1, <2>3 DEF Unmeasured
    <3> QED
      BY <2>1, <3>1 DEF MInv, Unwelcome, peerVars
  <2> QED
    BY <2>2, <2>3
<1>10. PingFollows'
  <2> SUFFICES ASSUME NEW r \in Session PROVE Alone(r)' /\ Follows(r)'
    BY DEF PingFollows
  <2>1. UNCHANGED <<LastRXPing, clean>> /\ Alone(r) /\ Follows(r) /\ Alone(s)
    BY DEF StoreRX, MInv, PingFollows
  <2>2. CASE r = s
    <3>1. Between(s)' # {}
      BY <1>3, <1>5 DEF Between
    <3>2. ASSUME NEW g \in handlers'[s], g.alone
          PROVE  handlers'[s] = {g} /\ ~g.crossed /\ (g.pc = "between" => LastRX'[s] = g.ping)
      <4>1. CASE g = new
        <5>1. handlers[s] = {h} /\ ~h.crossed
          BY <1>3, <2>1, <3>2, <4>1 DEF Alone
        <5> QED
          BY <1>3, <1>5, <1>6, <4>1, <5>1
      <4>2. CASE g \in handlers[s] \ {h}
        BY <2>1, <3>2, <4>2 DEF Alone
      <4> QED
        BY <1>5, <4>1, <4>2
    <3>3. Alone(s)'
      BY <3>2 DEF Alone
    <3> QED
      BY <2>2, <3>1, <3>3 DEF Follows
  <2>3. CASE r # s
    BY <1>5, <1>6, <2>1, <2>3 DEF Alone, Follows, Between
  <2> QED
    BY <2>2, <2>3
<1> QED
  BY <1>1, <1>7, <1>8, <1>9, <1>10 DEF MInv

(* handlePacket stores the ping.                                           *)
LEMMA StorePingStep ==
  ASSUME MInv, NEW s \in Session, NEW h \in handlers[s], NEW of \in Ping, NEW ring \in Ping,
         StorePing(s, h, of, ring)
  PROVE  MInv'
<1> DEFINE others == {[g EXCEPT !.crossed = @ \/ g.pc = "between"] : g \in handlers[s] \ {h}}
           stored == [of |-> of, ring |-> ring]
<1>1. met' \in BOOLEAN /\ CalmWalk'
  BY MetWhileMeasuring DEF StorePing
<1>2. h \in Handler /\ h.ping \in Ping /\ h.pc = "between" /\ h.alone \in BOOLEAN
  BY DEF MInv, TypeOK, Handler, StorePing
<1>3. others \subseteq Handler
  <2>1. ASSUME NEW g \in handlers[s] PROVE [g EXCEPT !.crossed = @ \/ g.pc = "between"] \in Handler
    <3>1. g \in Handler /\ g.crossed \in BOOLEAN
      BY DEF MInv, TypeOK, Handler
    <3>2. (g.crossed \/ g.pc = "between") \in BOOLEAN
      BY Zenon
    <3> QED
      BY <3>1, <3>2 DEF Handler
  <2> QED
    BY <2>1
<1>4. handlers' = [handlers EXCEPT ![s] = others] /\ LastRXPing' = [LastRXPing EXCEPT ![s] = stored]
  BY DEF StorePing
<1>5. stored \in PingStruct
  BY DEF PingStruct
<1>6. h.alone => others = {}
  BY DEF MInv, PingFollows, Alone
<1>7. \A g \in others : \E f \in handlers[s] \ {h} : g.alone <=> f.alone
  BY DEF MInv, TypeOK, Handler
<1>8. ~h.alone => \A g \in others : ~g.alone
  <2>1. ASSUME NEW f \in handlers[s] \ {h} PROVE ~f.alone
    BY DEF MInv, PingFollows, Alone
  <2> QED
    BY <1>7, <2>1
<1>9. h.alone => stored = [of |-> LastRX[s], ring |-> LastRX[s]]
  <2> SUFFICES ASSUME h.alone PROVE of = LastRX[s] /\ ring = LastRX[s]
    OBVIOUS
  <2>1. ~h.crossed /\ LastRX[s] = h.ping
    BY <1>2 DEF MInv, PingFollows, Alone
  <2> QED
    BY <2>1 DEF StorePing
<1> HIDE DEF others, stored
<1>10. /\ handlers' \in [Session -> SUBSET Handler] /\ handlers'[s] = others
       /\ \A r \in Session : r # s => handlers'[r] = handlers[r]
  BY <1>3, <1>4 DEF MInv, TypeOK
<1>11. /\ LastRXPing' \in [Session -> PingStruct] /\ LastRXPing'[s] = stored
       /\ \A r \in Session : r # s => LastRXPing'[r] = LastRXPing[r]
  BY <1>4, <1>5 DEF MInv, TypeOK
<1>12. /\ clean' \in [Session -> BOOLEAN] /\ (clean'[s] <=> h.alone)
       /\ \A r \in Session : r # s => clean'[r] = clean[r]
  <2>1. clean \in [Session -> BOOLEAN] /\ clean' = [clean EXCEPT ![s] = h.alone]
    BY DEF MInv, TypeOK, StorePing
  <2> QED
    BY <1>2, <2>1, Zenon
<1>13. TypeOK'
  BY <1>1, <1>10, <1>11, <1>12 DEF MInv, TypeOK, StorePing, peerVars, scrapeVars
<1>14. WalkUnderLock' /\ InHand' /\ NilHostIsZero'
  BY DEF MInv, WalkUnderLock, InHand, NilHostIsZero, StorePing, peerVars, scrapeVars
<1>15. Unwelcome'
  <2> SUFFICES ASSUME NEW r \in Session
               PROVE  /\ ~peerSends'[r] => Unmeasured(r)'
                      /\ PeerAddress'[r] = Nil \/ r \notin listed' => ~peerSends'[r]
                      /\ r \notin listed' => ~UDPActivated'[r]
    BY DEF Unwelcome
  <2>1. peerSends[s] /\ UNCHANGED <<listed, peerVars, LastRX, ringFull>>
    BY HandlerWelcome DEF StorePing
  <2>2. CASE r = s
    BY <2>1, <2>2 DEF MInv, Unwelcome, peerVars
  <2>3. CASE r # s
    <3>1. Unmeasured(r) => Unmeasured(r)'
      BY <1>10, <1>11, <2>1, <2>3 DEF Unmeasured
    <3> QED
      BY <2>1, <3>1 DEF MInv, Unwelcome, peerVars
  <2> QED
    BY <2>2, <2>3
<1>16. PingFollows'
  <2> SUFFICES ASSUME NEW r \in Session PROVE Alone(r)' /\ Follows(r)'
    BY DEF PingFollows
  <2>1. LastRX' = LastRX /\ Alone(r) /\ Follows(r)
    BY DEF StorePing, MInv, PingFollows
  <2>2. CASE r = s
    <3>1. Alone(s)'
      BY <1>6, <1>8, <1>10 DEF Alone
    <3>2. Follows(s)'
      BY <1>9, <1>11, <1>12, <2>1 DEF Follows
    <3> QED
      BY <2>2, <3>1, <3>2
  <2>3. CASE r # s
    <3>1. clean'[r] <=> clean[r]
      BY <1>12, <2>3
    <3> QED
      BY <1>10, <1>11, <2>1, <2>3, <3>1 DEF Alone, Follows, Between
  <2> QED
    BY <2>2, <2>3
<1> QED
  BY <1>1, <1>13, <1>14, <1>15, <1>16 DEF MInv

(* Prometheus asks; the lock is given back.                                *)
LEMMA RequestUnlockStep ==
  ASSUME MInv, Request \/ Unlock
  PROVE  MInv'
<1> USE DEF Request, Unlock
<1>1. TypeOK'
  BY DEF MInv, TypeOK, peerVars, pingVars
<1>2. WalkUnderLock' /\ InHand' /\ NilHostIsZero'
  BY DEF MInv, WalkUnderLock, InHand, NilHostIsZero, peerVars
<1>3. Unwelcome' /\ PingFollows'
  BY SameUnwelcome, SamePings DEF MInv
<1>4. CalmWalk'
  BY DEF CalmWalk
<1> QED
  BY <1>1, <1>2, <1>3, <1>4 DEF MInv

(* The walk begins: nothing is walked yet.                                 *)
LEMMA LockStep == ASSUME MInv, Lock PROVE MInv'
<1> USE DEF Lock
<1>1. met' \in BOOLEAN
  BY Zenon DEF Lock
<1>2. TypeOK'
  BY <1>1 DEF MInv, TypeOK, peerVars, pingVars
<1>3. current = Unset
  BY DEF MInv, WalkUnderLock
<1>4. WalkUnderLock' /\ InHand' /\ NilHostIsZero'
  BY <1>3 DEF MInv, WalkUnderLock, InHand, NilHostIsZero
<1>5. Unwelcome' /\ PingFollows'
  BY SameUnwelcome, SamePings DEF MInv
<1>6. CalmWalk'
  <2>1. ~met' => \A s \in listed' : Between(s)' = {}
    <3>1. met' = (\E s \in listed : Between(s) # {})
      BY DEF Lock
    <3>2. listed' = listed /\ \A s \in listed : Between(s)' = Between(s)
      BY DEF Between, pingVars
    <3> QED
      BY <3>1, <3>2, Zenon
  <2>2. ASSUME NEW h \in Label PROVE WalkedExact(h)'
    <3>1. todo' = listed'
      OBVIOUS
    <3>2. Walked(h)' = {}
      BY <3>1 DEF Walked, Pending, SessionsOf
    <3> QED
      BY <3>2 DEF WalkedExact
  <2>3. current' = Unset
    BY <1>3
  <2> QED
    BY <2>1, <2>2, <2>3 DEF CalmWalk
<1> QED
  BY <1>2, <1>4, <1>5, <1>6 DEF MInv

(* The walk takes up a session: it was pending and it still is.            *)
LEMMA ReadRXStep ==
  ASSUME MInv, NEW s \in Session, ReadRX(s)
  PROVE  MInv'
<1> USE DEF ReadRX
<1>1. LastRX[s] \in Ping /\ [ses |-> s, at |-> LastRX[s]] \in [ses : Session, at : Ping]
  BY DEF MInv, TypeOK
<1>2. current' # Unset /\ current'.ses = s /\ current'.at = LastRX[s]
  BY <1>1, UnsetAssumption
<1>3. TypeOK'
  BY <1>1 DEF MInv, TypeOK, peerVars, pingVars
<1>4. WalkUnderLock' /\ NilHostIsZero'
  BY DEF MInv, WalkUnderLock, NilHostIsZero
<1>5. InHand'
  <2>1. s \in listed' \ todo' /\ PeerAddress' = PeerAddress
    BY DEF MInv, TypeOK, peerVars
  <2>2. LastRX[s] # 0 => PeerAddress[s] # Nil
    BY DEF MInv, Unwelcome, Unmeasured
  <2> QED
    BY <1>2, <2>1, <2>2 DEF InHand
<1>6. Unwelcome' /\ PingFollows'
  BY SameUnwelcome, SamePings DEF MInv
<1>7. CalmWalk'
  <2> SUFFICES ASSUME scrape' = "measuring", ~met' PROVE CalmWalk'
    BY DEF CalmWalk
  <2>1. \A r \in listed' : Between(r)' = {}
    BY DEF MInv, CalmWalk, Between, pingVars
  <2>2. current'.at = LastRX'[current'.ses]
    BY <1>2 DEF pingVars
  <2>3. Pending' = Pending
    BY <1>2 DEF Pending, MInv, TypeOK
  <2>4. ASSUME NEW h \in Label PROVE WalkedExact(h)'
    <3>1. WalkedExact(h)
      BY DEF MInv, CalmWalk
    <3>2. Walked(h)' = Walked(h)
      BY <2>3 DEF Walked, SessionsOf, peerVars
    <3> QED
      BY <3>1, <3>2 DEF WalkedExact, StoredLatency, pingVars
  <2> QED
    BY <2>1, <2>2, <2>4 DEF CalmWalk
<1> QED
  BY <1>3, <1>4, <1>5, <1>6, <1>7 DEF MInv

(* What is visible of LastRXPing is what is stored, unless a handler is    *)
(* between its two stores.                                                 *)
LEMMA VisibleFacts ==
  ASSUME NEW s \in Session, NEW stored, NEW p \in Visible(s, stored), Between(s) = {}
  PROVE  p = stored
BY DEF Visible

(* The gauges are set.                                                     *)
LEMMA SetGaugesStep ==
  ASSUME MInv, NEW of \in Ping, NEW ring \in Ping, SetGauges(of, ring)
  PROVE  MInv'
<1> DEFINE s == current.ses
           h == PeerAddress[s]
           new == [ses |-> s, at |-> current.at, of |-> of, ring |-> ring]
<1>1. /\ current # Unset
      /\ of \in Visible(s, LastRXPing[s].of) /\ ring \in Visible(s, LastRXPing[s].ring)
      /\ promLatency' = [promLatency EXCEPT ![h] = new]
      /\ promLoss' = IF ringFull[s] THEN [promLoss EXCEPT ![h] = s] ELSE promLoss
      /\ current' = Unset
      /\ UNCHANGED <<lock, listed, peerVars, pingVars, scrape, todo, met>>
  BY DEF SetGauges
<1>2. /\ s \in Session /\ h \in Label /\ current.at \in Ping /\ new \in Latency
      /\ s \in listed /\ s \notin todo /\ (current.at # 0 => h # Nil)
  <2>1. current \in [ses : Session, at : Ping] /\ s \in listed \ todo
    BY <1>1 DEF MInv, TypeOK, InHand
  <2>2. current.at # 0 => h # Nil
    BY <1>1 DEF MInv, InHand
  <2> QED
    BY <2>1, <2>2 DEF MInv, TypeOK, Latency
<1>3. scrape = "measuring"
  BY <1>1 DEF MInv, WalkUnderLock
<1> HIDE DEF s, h, new
<1>4. TypeOK'
  BY <1>1, <1>2 DEF MInv, TypeOK, peerVars, pingVars
<1>5. WalkUnderLock' /\ InHand'
  BY <1>1, <1>3 DEF MInv, WalkUnderLock, InHand
<1>6. Unwelcome' /\ PingFollows'
  BY <1>1, SameUnwelcome, SamePings DEF MInv
<1>7. NilHostIsZero'
  <2>1. CASE h = Nil
    <3>1. Unmeasured(s)
      BY <1>2, <2>1 DEF MInv, Unwelcome, h
    <3>2. Between(s) = {}
      BY <3>1 DEF Unmeasured, Between
    <3>3. of = 0 /\ ring = 0
      BY <1>1, <1>2, <3>1, <3>2, VisibleFacts DEF Unmeasured
    <3>4. current.at = 0 /\ ~ringFull[s]
      BY <1>2, <2>1, <3>1 DEF Unmeasured
    <3>5. new.at = 0 /\ new.of = 0 /\ new.ring = 0
      BY <3>3, <3>4 DEF new
    <3>6. promLatency'[Nil] = new /\ promLoss' = promLoss
      BY <1>1, <1>2, <2>1, <3>4 DEF MInv, TypeOK
    <3> QED
      BY <3>5, <3>6 DEF MInv, NilHostIsZero
  <2>2. CASE h # Nil
    <3>1. promLatency'[Nil] = promLatency[Nil] /\ promLoss'[Nil] = promLoss[Nil]
      BY <1>1, <2>2 DEF MInv, TypeOK, Label
    <3> QED
      BY <3>1 DEF MInv, NilHostIsZero
  <2> QED
    BY <2>1, <2>2
<1>8. CalmWalk'
  <2> SUFFICES ASSUME scrape' = "measuring", ~met' PROVE CalmWalk'
    BY DEF CalmWalk
  <2>1. /\ ~met /\ listed' = listed /\ PeerAddress' = PeerAddress /\ ringFull' = ringFull
        /\ \A r : StoredLatency(r)' = StoredLatency(r) /\ Between(r)' = Between(r)
    BY <1>1 DEF peerVars, pingVars, StoredLatency, Between
  <2>2. \A r \in listed' : Between(r)' = {}
    BY <1>3, <2>1 DEF MInv, CalmWalk
  <2>3. new = StoredLatency(s)
    <3>1. current.at = LastRX[s]
      BY <1>1, <1>3, <2>1 DEF MInv, CalmWalk, s
    <3>2. of = LastRXPing[s].of /\ ring = LastRXPing[s].ring
      BY <1>1, <1>2, <2>1, <2>2, VisibleFacts
    <3> QED
      BY <3>1, <3>2 DEF new, StoredLatency
  <2>4. Pending = todo \cup {s} /\ Pending' = todo
    BY <1>1, <1>2 DEF Pending, s
  <2>5. ASSUME NEW g \in Label, g # h PROVE WalkedExact(g)'
    <3>1. WalkedExact(g)
      BY <1>3, <2>1 DEF MInv, CalmWalk
    <3>2. Walked(g)' = Walked(g)
      BY <2>1, <2>4, <2>5 DEF Walked, SessionsOf, h
    <3>3. promLatency'[g] = promLatency[g] /\ promLoss'[g] = promLoss[g]
      BY <1>1, <2>5 DEF MInv, TypeOK
    <3> QED
      BY <2>1, <3>1, <3>2, <3>3 DEF WalkedExact
  <2>6. WalkedExact(h)
    BY <1>2, <1>3, <2>1 DEF MInv, CalmWalk
  <2>7. ASSUME NEW g, g = h PROVE WalkedExact(g)'
    <3>1. Walked(g)' = Walked(g) \cup {s}
      BY <1>2, <2>1, <2>4, <2>7 DEF Walked, SessionsOf, h
    <3>2. promLatency'[g] = new
      BY <1>1, <1>2, <2>7 DEF MInv, TypeOK
    <3>4. CASE ringFull[s]
      <4>1. promLoss'[g] = s
        BY <1>1, <1>2, <2>7, <3>4 DEF MInv, TypeOK
      <4> QED
        BY <2>1, <2>3, <3>1, <3>2, <3>4, <4>1 DEF WalkedExact
    <3>5. CASE ~ringFull[s]
      <4>1. promLoss'[g] = promLoss[g]
        BY <1>1, <3>5
      <4> QED
        BY <2>1, <2>3, <2>6, <2>7, <3>1, <3>2, <3>5, <4>1 DEF WalkedExact
    <3> QED
      BY <3>4, <3>5
  <2> QED
    BY <1>1, <2>2, <2>5, <2>7 DEF CalmWalk
<1> QED
  BY <1>4, <1>5, <1>6, <1>7, <1>8 DEF MInv

(* The inductive invariant holds in every state.                           *)
THEOREM Invariant == Spec => []MInv
<1>1. Init => MInv
  BY InitMInv
<1>2. MInv /\ [Next]_vars => MInv'
  <2> SUFFICES ASSUME MInv, [Next]_vars PROVE MInv'
    OBVIOUS
  <2>1. CASE UNCHANGED vars
    <3>1. TypeOK'
      BY <2>1 DEF MInv, TypeOK, vars, peerVars, pingVars, scrapeVars
    <3>2. (WalkUnderLock /\ InHand /\ NilHostIsZero)'
      BY <2>1 DEF MInv, WalkUnderLock, InHand, NilHostIsZero, vars, peerVars, scrapeVars
    <3>3. Unwelcome' /\ PingFollows'
      BY <2>1, SameUnwelcome, SamePings DEF MInv, vars
    <3>4. CalmWalk'
      BY <2>1 DEF MInv, CalmWalk, WalkedExact, Walked, Pending, SessionsOf, StoredLatency,
                  Between, vars, peerVars, pingVars, scrapeVars
    <3> QED
      BY <3>1, <3>2, <3>3, <3>4 DEF MInv
  <2>2. CASE Next
    BY <2>2, StoreSessionStep, ActivateStep, AdoptStep, EchoStep, sessionGCStep, TickerStep,
       RouteStep, StoreRXStep, StorePingStep, RequestUnlockStep, LockStep, ReadRXStep,
       SetGaugesStep
       DEF Next, Holding
  <2> QED
    BY <2>1, <2>2
<1> QED
  BY <1>1, <1>2, PTL DEF Spec

(* Every value stays in its type; in particular the walk of measure never  *)
(* meets a session that is no longer in the table.                         *)
THEOREM TypeCorrect == Spec => []TypeOK
<1>1. MInv => TypeOK
  BY DEF MInv
<1> QED
  BY <1>1, Invariant, PTL

(* Sessions without an address share a label whose gauges show only zero,  *)
(* whatever comes in while they are being measured.                        *)
THEOREM NilHost == Spec => []NilHostIsZero
<1>1. MInv => NilHostIsZero
  BY DEF MInv
<1> QED
  BY <1>1, Invariant, PTL

(* A scrape that met no handler of packets leaves every host with the      *)
(* latencies of one of its sessions as they are stored, which are of one   *)
(* ping if the last one was handled alone, and with the losses of one      *)
(* whose ring is full.                                                     *)
THEOREM CalmScrape == Spec => []CalmScrapeIsExact
<1>1. MInv => CalmScrapeIsExact
  <2> SUFFICES ASSUME MInv, scrape = "measuring", todo = {}, current = Unset, ~met,
                      NEW h \in Label
               PROVE  /\ SessionsOf(h) # {} =>
                           \E s \in SessionsOf(h) :
                             /\ promLatency[h] = StoredLatency(s)
                             /\ clean[s] =>
                                  LastRXPing[s] = [of |-> LastRX[s], ring |-> LastRX[s]]
                      /\ (\E s \in SessionsOf(h) : ringFull[s]) =>
                           \E s \in SessionsOf(h) : ringFull[s] /\ promLoss[h] = s
    BY DEF CalmScrapeIsExact
  <2>1. Walked(h) = SessionsOf(h)
    BY DEF Walked, Pending
  <2>2. WalkedExact(h)
    BY DEF MInv, CalmWalk
  <2>3. \A s \in SessionsOf(h) : clean[s] => LastRXPing[s] = [of |-> LastRX[s], ring |-> LastRX[s]]
    BY DEF MInv, TypeOK, CalmWalk, SessionsOf, PingFollows, Follows
  <2> QED
    BY <2>1, <2>2, <2>3 DEF WalkedExact
<1> QED
  BY <1>1, Invariant, PTL
=============================================================================
