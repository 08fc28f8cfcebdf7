------------------------------ MODULE AckRing ------------------------------
(***************************************************************************)
(* The ring LastAcks of a session, as the handlePacket goroutines fill it. *)
(* listenAndRoute starts one goroutine per packet, and none of them takes  *)
(* a lock: the statement                                                   *)
(*     ses.LastAcks[ses.getNextAckSlot()] = pI                             *)
(* loads nextAckSlot for the test, loads it again for the increment,       *)
(* stores it, loads it once more for "return", and stores into the array;  *)
(* the time and the content of the last ping are stored after it.  These   *)
(* are separate steps here.  What a compiler makes of a racing second load *)
(* (read again, or kept in a register), and what two goroutines that write *)
(* the same struct leave in it, are choices.                               *)
(***************************************************************************)
EXTENDS Integers, Sequences

CONSTANTS
  Slots,       \* 32, the length of LastAcks
  Worker,      \* concurrent handlePacket goroutines
  Info,        \* what is kept of a ping: pingInfo
  NoInfo,      \* the zero pingInfo
  Torn,        \* words of several pings, stored by goroutines at once
  MaxReceived  \* bound on the pings received

ASSUME SlotsAssumption == Slots \in Nat \ {0}
ASSUME InfoAssumption == NoInfo \notin Info /\ Torn \notin Info \cup {NoInfo}
ASSUME MaxReceivedAssumption == MaxReceived \in Nat

VARIABLES
  LastAcks, nextAckSlot,  \* fields of struct session
  LastRX, LastRXPing,     \* the ping they are of
  alive,           \* the process has not panicked
  pc, info, slot,  \* per goroutine: its place, its ping, its register
  received,        \* history: the pings stored, in order
  calm,            \* history: how many of the last ones met no other goroutine
  overlapped       \* history: two goroutines have met and not all are done

fieldVars == <<LastAcks, nextAckSlot, LastRX, LastRXPing>>
historyVars == <<received, calm, overlapped>>
vars == <<fieldVars, alive, pc, info, slot, historyVars>>

Slot == 0 .. Slots - 1
PC == {"idle", "test", "load", "store", "return", "write", "publish", "ping"}
Stored == Info \cup {NoInfo, Torn}

TypeOK ==
  /\ LastAcks \in [Slot -> Stored]
  /\ nextAckSlot \in Nat
  /\ LastRX \in Stored
  /\ LastRXPing \in Stored
  /\ alive \in BOOLEAN
  /\ pc \in [Worker -> PC]
  /\ info \in [Worker -> Info \cup {NoInfo}]
  /\ slot \in [Worker -> Nat]
  /\ received \in Seq(Info)
  /\ calm \in 0 .. Len(received)
  /\ overlapped \in BOOLEAN

(* A new session: all fields zero.                                         *)
Init ==
  /\ LastAcks = [j \in Slot |-> NoInfo]
  /\ nextAckSlot = 0
  /\ LastRX = NoInfo
  /\ LastRXPing = NoInfo
  /\ alive = TRUE
  /\ pc = [w \in Worker |-> "idle"]
  /\ info = [w \in Worker |-> NoInfo]
  /\ slot = [w \in Worker |-> 0]
  /\ received = << >>
  /\ calm = 0
  /\ overlapped = FALSE

Goto(w, from, to) ==
  alive /\ alive' = alive /\ pc[w] = from /\ pc' = [pc EXCEPT ![w] = to]

Alone(w) == \A v \in Worker \ {w} : pc[v] = "idle"

(* What a store of w's ping leaves where another goroutine may store too.  *)
Put(w) == {info[w]} \cup (IF overlapped THEN {Torn} ELSE {})

(* A ping p that passed handlePacket's tests.                              *)
Accept(w, p) ==
  /\ Len(received) < MaxReceived
  /\ Goto(w, "idle", "test")
  /\ info' = [info EXCEPT ![w] = p]
  /\ overlapped' = (overlapped \/ ~Alone(w))
  /\ calm' = IF Alone(w) THEN calm ELSE 0
  /\ UNCHANGED <<fieldVars, slot, received>>

(* Mutants: the wrap-around one slot early, or one too late.               *)
AtEndEarly(j) == j = Slots - 2
AtEndLate(j) == j = Slots

(* The test of getNextAckSlot: 31 is followed by 0.                        *)
AtEnd(j) == j = Slots - 1

(* "if s.nextAckSlot != 31", with the first load; the else branch has a 0  *)
(* to store.                                                               *)
TestSlot(w) ==
  /\ IF AtEnd(nextAckSlot)
     THEN Goto(w, "test", "store") /\ slot' = [slot EXCEPT ![w] = 0]
     ELSE Goto(w, "test", "load") /\ slot' = [slot EXCEPT ![w] = nextAckSlot]
  /\ UNCHANGED <<fieldVars, info, historyVars>>

(* "s.nextAckSlot + 1": read again, or still in a register.                *)
LoadSlot(w) ==
  /\ Goto(w, "load", "store")
  /\ \E j \in {slot[w], nextAckSlot} : slot' = [slot EXCEPT ![w] = j + 1]
  /\ UNCHANGED <<fieldVars, info, historyVars>>

(* Mutant: the slot before the step is the one used.                       *)
StoreSlotPost(w) ==
  /\ Goto(w, "store", "write")
  /\ nextAckSlot' = slot[w]
  /\ slot' = [slot EXCEPT ![w] = nextAckSlot]
  /\ UNCHANGED <<LastAcks, LastRX, LastRXPing, info, historyVars>>

StoreSlot(w) ==
  /\ Goto(w, "store", "return")
  /\ nextAckSlot' = slot[w]
  /\ UNCHANGED <<LastAcks, LastRX, LastRXPing, info, slot, historyVars>>

(* "return s.nextAckSlot": read again, or still in a register.             *)
ReturnSlot(w) ==
  /\ Goto(w, "return", "write")
  /\ \E j \in {slot[w], nextAckSlot} : slot' = [slot EXCEPT ![w] = j]
  /\ UNCHANGED <<fieldVars, info, historyVars>>

WriteAck(w) ==
  /\ slot[w] \in Slot
  /\ Goto(w, "write", "publish")
  /\ \E v \in Put(w) : LastAcks' = [LastAcks EXCEPT ![slot[w]] = v]
  /\ received' = Append(received, info[w])
  /\ calm' = IF overlapped THEN 0 ELSE calm + 1
  /\ UNCHANGED <<nextAckSlot, LastRX, LastRXPing, info, slot, overlapped>>

(* The index is outside the array: a panic nothing recovers from.          *)
Panic(w) ==
  /\ alive /\ alive' = FALSE
  /\ pc[w] = "write"
  /\ slot[w] \notin Slot
  /\ UNCHANGED <<fieldVars, pc, info, slot, historyVars>>

(* ses.LastRX = timeRX.                                                    *)
Publish(w) ==
  /\ Goto(w, "publish", "ping")
  /\ LastRX' \in Put(w)
  /\ UNCHANGED <<LastAcks, nextAckSlot, LastRXPing, info, slot, historyVars>>

(* Mutant: the content of the last ping is kept where there is one.        *)
PublishPingOnce(w) ==
  /\ Goto(w, "ping", "idle")
  /\ LastRXPing' = IF LastRXPing = NoInfo THEN info[w] ELSE LastRXPing
  /\ info' = [info EXCEPT ![w] = NoInfo] /\ slot' = [slot EXCEPT ![w] = 0]
  /\ overlapped' = (overlapped /\ ~Alone(w))
  /\ UNCHANGED <<LastAcks, nextAckSlot, LastRX, received, calm>>

(* ses.LastRXPing = rx, the last statement; the goroutine ends.            *)
PublishPing(w) ==
  /\ Goto(w, "ping", "idle")
  /\ LastRXPing' \in Put(w)
  /\ info' = [info EXCEPT ![w] = NoInfo] /\ slot' = [slot EXCEPT ![w] = 0]
  /\ overlapped' = (overlapped /\ ~Alone(w))
  /\ UNCHANGED <<LastAcks, nextAckSlot, LastRX, received, calm>>

Step(w) ==
  \/ \E p \in Info : Accept(w, p)
  \/ TestSlot(w) \/ LoadSlot(w) \/ StoreSlot(w) \/ ReturnSlot(w)
  \/ WriteAck(w) \/ Panic(w) \/ Publish(w) \/ PublishPing(w)

Next == \E w \in Worker : Step(w)

Spec == Init /\ [][Next]_vars

-----------------------------------------------------------------------------
(* The slot of the newest ack: a goroutine between its store and its write *)
(* has already moved nextAckSlot.                                          *)
Moved == \E w \in Worker : pc[w] \in {"return", "write"}
PrevSlot(j) == IF j = 0 THEN Slots - 1 ELSE j - 1
Tip == IF Moved THEN PrevSlot(nextAckSlot) ELSE nextAckSlot

(* How many acks are newer than the one in slot j.                         *)
Newer(j) == IF j <= Tip THEN Tip - j ELSE Tip + Slots - j

(* The test and the increment load nextAckSlot separately, so goroutines   *)
(* that meet can carry it past the end of the array.  It takes a race; and *)
(* no session lives on with such an index, for a goroutine that is about   *)
(* to store through it, and to panic, is still there.                      *)
StrayIndexIsFatal ==
  /\ nextAckSlot \notin Slot =>
       /\ overlapped
       /\ \E w \in Worker : pc[w] \in {"return", "write"} /\ slot[w] \notin Slot
  /\ ~alive => overlapped

(* Goroutines that meet may lose acks and set nextAckSlot back, but the    *)
(* ring heals: the pings handled alone since then are in it, each in its   *)
(* place, and after Slots of them all of the ring is the last Slots pings. *)
RingHeals ==
  \A j \in Slot :
    Newer(j) < calm => LastAcks[j] = received[Len(received) - Newer(j)]

(* LastRX and LastRXPing, which Prometheus computes the statistics from,   *)
(* are of one ping, the newest entry of the ring, once a ping handled      *)
(* alone is done.  Until then a race may have left the time of one ping    *)
(* with the content of another.                                            *)
LastPingIsTip ==
  calm > 0 /\ (\A w \in Worker : pc[w] \notin {"publish", "ping"}) =>
    LastRX = LastAcks[Tip] /\ LastRXPing = LastAcks[Tip]

(* Where no two goroutines ever meet the ring is, slot by slot, the last   *)
(* Slots pings received and nothing else: no ack is lost, repeated or kept *)
(* too long, through any number of wrap-arounds.                           *)
RingIsLatest ==
  calm = Len(received) =>
    \A j \in Slot :
      LastAcks[j] = IF Newer(j) < Len(received)
                    THEN received[Len(received) - Newer(j)] ELSE NoInfo

(* The ring, read from its tip backwards, as a log.                        *)
Filled == IF Len(received) < Slots THEN Len(received) ELSE Slots
SlotOf(k) == (Tip + Slots - (Filled - k)) % Slots
Log == INSTANCE AckLog WITH
         log <- [k \in 1 .. Filled |-> LastAcks[SlotOf(k)]], racing <- overlapped

(* The ring implements the log of the last pings: the steps of a goroutine *)
(* that meets no other appear as one, and what a race did to the ring      *)
(* changes nothing outside the race.                                       *)
ImplementsLog == Log!Spec
=============================================================================
