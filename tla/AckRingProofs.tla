--------------------------- MODULE AckRingProofs ---------------------------
(***************************************************************************)
(* The ring of acknowledgements, for every length of the ring, any number  *)
(* of goroutines and any pings.                                            *)
(***************************************************************************)
EXTENDS AckRing, TLAPS

(* Where no goroutines meet, getNextAckSlot steps to this slot.            *)
NextSlot(j) == IF AtEnd(j) THEN 0 ELSE j + 1

(* The inductive invariant.  While no goroutines have met, at most one is  *)
(* at work, and its register follows nextAckSlot; once they have, calm is  *)
(* zero until they are done.                                               *)
OneBusy ==
  ~overlapped => \A v, w \in Worker : pc[v] # "idle" /\ pc[w] # "idle" => v = w

RegisterFollows ==
  ~overlapped =>
    /\ alive
    /\ nextAckSlot \in Slot
    /\ \A w \in Worker :
         /\ pc[w] = "load" => slot[w] = nextAckSlot /\ ~AtEnd(nextAckSlot)
         /\ pc[w] = "store" => slot[w] = NextSlot(nextAckSlot)
         /\ pc[w] \in {"return", "write"} => slot[w] = nextAckSlot

(* The goroutine that stored an index outside the array is still there,    *)
(* and has nothing else to store through.                                  *)
StrayHeld ==
  nextAckSlot \notin Slot =>
    \E w \in Worker : \/ pc[w] = "return" /\ slot[w] = nextAckSlot
                      \/ pc[w] = "write" /\ slot[w] \notin Slot

CalmAfterMeeting == overlapped => calm = 0

BusyHoldsPing == \A w \in Worker : pc[w] # "idle" => info[w] \in Info

Local ==
  /\ TypeOK
  /\ OneBusy
  /\ RegisterFollows
  /\ StrayHeld
  /\ CalmAfterMeeting
  /\ BusyHoldsPing

IInv == Local /\ RingHeals

(* A step of getNextAckSlot stays in the array, and PrevSlot undoes it.    *)
LEMMA NextSlotType ==
  ASSUME NEW j \in Slot
  PROVE  NextSlot(j) \in Slot /\ PrevSlot(NextSlot(j)) = j /\ PrevSlot(j) \in Slot
BY SlotsAssumption DEF Slot, NextSlot, AtEnd, PrevSlot

(* The place of the newest ack is a number, and outside a race a slot.     *)
TipOK == Tip \in Nat /\ (~overlapped => Tip \in Slot)

(* The invariant says so.                                                  *)
LEMMA TipType == Local => TipOK
BY SlotsAssumption, NextSlotType DEF Local, TypeOK, RegisterFollows, Tip, PrevSlot,
                                     Slot, TipOK

(* The same of the next state.                                             *)
LEMMA TipTypeNext == Local' => TipOK'
BY TipType, PTL

(* The distance between two slots, as Newer computes it, is a number.      *)
LEMMA NewerType ==
  ASSUME NEW t \in Nat, NEW j \in Slot
  PROVE  (IF j <= t THEN t - j ELSE t + Slots - j) \in Nat
BY SlotsAssumption DEF Slot

(* What a goroutine's store leaves is the ping, or torn in a race.         *)
LEMMA PutType ==
  ASSUME NEW w \in Worker, info[w] \in Info, NEW v \in Put(w)
  PROVE  v \in Stored /\ (~overlapped => v = info[w])
BY DEF Put, Stored

(* The type invariant and the goroutine-local facts are inductive.         *)
LEMMA LocalStep ==
  ASSUME Local, [Next]_vars
  PROVE  Local'
<1> USE DEF Local
<1>1. CASE UNCHANGED vars
  BY <1>1 DEF TypeOK, OneBusy, RegisterFollows, StrayHeld, CalmAfterMeeting,
              BusyHoldsPing, vars, fieldVars, historyVars
<1>2. ASSUME NEW w \in Worker, NEW p \in Info, Accept(w, p)
      PROVE  Local'
  <2>1. overlapped' \in BOOLEAN
    BY <1>2, Zenon DEF Accept
  <2>2. calm' \in 0 .. Len(received)
    BY <1>2 DEF Accept, TypeOK
  <2>3. TypeOK'
    BY <1>2, <2>1, <2>2 DEF TypeOK, Accept, Goto, PC, fieldVars
  <2>4. StrayHeld'
    BY <1>2 DEF TypeOK, StrayHeld, Accept, Goto, fieldVars
  <2>5. CASE Alone(w) /\ ~overlapped
    <3>1. ~overlapped' /\ calm' = calm
      BY <1>2, <2>5 DEF Accept
    <3> QED
      BY <1>2, <2>3, <2>4, <2>5, <3>1 DEF TypeOK, OneBusy, RegisterFollows,
         CalmAfterMeeting, BusyHoldsPing, Accept, Goto, Alone, fieldVars
  <2>6. CASE ~(Alone(w) /\ ~overlapped)
    <3>1. overlapped' /\ calm' = 0
      BY <1>2, <2>6 DEF Accept, CalmAfterMeeting
    <3> QED
      BY <1>2, <2>3, <2>4, <3>1 DEF TypeOK, OneBusy, RegisterFollows,
         CalmAfterMeeting, BusyHoldsPing, Accept, Goto
  <2> QED
    BY <2>5, <2>6
<1>3. ASSUME NEW w \in Worker, TestSlot(w)
      PROVE  Local'
  <2>1. TypeOK' /\ OneBusy' /\ CalmAfterMeeting' /\ BusyHoldsPing'
    BY <1>3 DEF TypeOK, OneBusy, CalmAfterMeeting, BusyHoldsPing,
                TestSlot, Goto, PC, fieldVars, historyVars
  <2>2. StrayHeld'
    BY <1>3 DEF TypeOK, StrayHeld, TestSlot, Goto, fieldVars
  <2>3. RegisterFollows'
    BY <1>3 DEF TypeOK, RegisterFollows, NextSlot, TestSlot, Goto, fieldVars,
                historyVars
  <2> QED
    BY <2>1, <2>2, <2>3
<1>4. ASSUME NEW w \in Worker, LoadSlot(w)
      PROVE  Local'
  <2>1. PICK j \in {slot[w], nextAckSlot} : slot' = [slot EXCEPT ![w] = j + 1]
    BY <1>4 DEF LoadSlot
  <2>2. TypeOK' /\ OneBusy' /\ CalmAfterMeeting' /\ BusyHoldsPing'
    BY <1>4, <2>1 DEF TypeOK, OneBusy, CalmAfterMeeting, BusyHoldsPing,
                LoadSlot, Goto, PC, fieldVars, historyVars
  <2>3. StrayHeld'
    BY <1>4, <2>1 DEF TypeOK, StrayHeld, LoadSlot, Goto, fieldVars
  <2>4. RegisterFollows'
    BY <1>4, <2>1 DEF TypeOK, RegisterFollows, NextSlot, LoadSlot, Goto, fieldVars,
                historyVars
  <2> QED
    BY <2>2, <2>3, <2>4
<1>5. ASSUME NEW w \in Worker, StoreSlot(w)
      PROVE  Local'
  <2>1. TypeOK' /\ OneBusy' /\ CalmAfterMeeting' /\ BusyHoldsPing'
    BY <1>5 DEF TypeOK, OneBusy, CalmAfterMeeting, BusyHoldsPing, StoreSlot, Goto,
                PC, historyVars
  <2>2. StrayHeld'
    BY <1>5 DEF TypeOK, StrayHeld, StoreSlot, Goto
  <2>3. RegisterFollows'
    BY <1>5, NextSlotType DEF TypeOK, RegisterFollows, OneBusy, StoreSlot, Goto,
                              historyVars
  <2> QED
    BY <2>1, <2>2, <2>3
<1>6. ASSUME NEW w \in Worker, ReturnSlot(w)
      PROVE  Local'
  <2>1. PICK j \in {slot[w], nextAckSlot} : slot' = [slot EXCEPT ![w] = j]
    BY <1>6 DEF ReturnSlot
  <2>2. TypeOK' /\ OneBusy' /\ CalmAfterMeeting' /\ BusyHoldsPing'
    BY <1>6, <2>1 DEF TypeOK, OneBusy, CalmAfterMeeting, BusyHoldsPing,
                ReturnSlot, Goto, PC, fieldVars, historyVars
  <2>3. StrayHeld'
    BY <1>6, <2>1 DEF TypeOK, StrayHeld, ReturnSlot, Goto, fieldVars
  <2>4. RegisterFollows'
    BY <1>6, <2>1 DEF TypeOK, RegisterFollows, ReturnSlot, Goto, fieldVars,
                historyVars
  <2> QED
    BY <2>2, <2>3, <2>4
<1>7. ASSUME NEW w \in Worker, WriteAck(w)
      PROVE  Local'
  <2>1. info[w] \in Info
    BY <1>7 DEF BusyHoldsPing, WriteAck, Goto
  <2>2. received' \in Seq(Info) /\ Len(received') = Len(received) + 1
    BY <1>7, <2>1 DEF WriteAck, TypeOK
  <2>3. PICK v \in Put(w) : LastAcks' = [LastAcks EXCEPT ![slot[w]] = v]
    BY <1>7 DEF WriteAck
  <2>4. v \in Stored
    BY <2>1, PutType
  <2>5. TypeOK' /\ OneBusy' /\ CalmAfterMeeting' /\ BusyHoldsPing'
    BY <1>7, <2>1, <2>2, <2>3, <2>4 DEF TypeOK, OneBusy, CalmAfterMeeting,
       BusyHoldsPing, WriteAck, Goto, PC
  <2>6. StrayHeld'
    BY <1>7 DEF TypeOK, StrayHeld, WriteAck, Goto
  <2>7. RegisterFollows'
    BY <1>7 DEF TypeOK, RegisterFollows, WriteAck, Goto
  <2> QED
    BY <2>5, <2>6, <2>7
<1>8. ASSUME NEW w \in Worker, Panic(w)
      PROVE  Local'
  <2>1. overlapped
    BY <1>8 DEF Panic, RegisterFollows
  <2> QED
    BY <1>8, <2>1 DEF TypeOK, OneBusy, RegisterFollows, StrayHeld, CalmAfterMeeting,
                BusyHoldsPing, Panic, fieldVars, historyVars
<1>9. ASSUME NEW w \in Worker, Publish(w)
      PROVE  Local'
  <2>1. LastRX' \in Stored
    BY <1>9, PutType DEF BusyHoldsPing, Publish, Goto
  <2>2. TypeOK' /\ OneBusy' /\ CalmAfterMeeting' /\ BusyHoldsPing'
    BY <1>9, <2>1 DEF TypeOK, OneBusy, CalmAfterMeeting, BusyHoldsPing,
                Publish, Goto, PC, historyVars
  <2>3. StrayHeld' /\ RegisterFollows'
    BY <1>9 DEF TypeOK, StrayHeld, RegisterFollows, Publish, Goto, historyVars
  <2> QED
    BY <2>2, <2>3
<1>10. ASSUME NEW w \in Worker, PublishPing(w)
      PROVE  Local'
  <2>1. LastRXPing' \in Stored
    BY <1>10, PutType DEF BusyHoldsPing, PublishPing, Goto
  <2>2. overlapped' \in BOOLEAN
    BY <1>10, Zenon DEF PublishPing
  <2>3. TypeOK' /\ OneBusy' /\ CalmAfterMeeting' /\ BusyHoldsPing'
    BY <1>10, <2>1, <2>2 DEF TypeOK, OneBusy, CalmAfterMeeting, BusyHoldsPing,
                PublishPing, Goto, Alone, PC
  <2>4. StrayHeld'
    BY <1>10 DEF TypeOK, StrayHeld, PublishPing, Goto
  <2>5. RegisterFollows'
    BY <1>10 DEF TypeOK, RegisterFollows, StrayHeld, PublishPing, Goto, Alone
  <2> QED
    BY <2>3, <2>4, <2>5
<1> QED
  BY <1>1, <1>2, <1>3, <1>4, <1>5, <1>6, <1>7, <1>8, <1>9, <1>10 DEF Next, Step

(* The place of the newest ack moves only when an ack is written.  All of  *)
(* this is for the case that no goroutines have met.                       *)
LEMMA TipStays ==
  ASSUME IInv, ~overlapped, ~overlapped', NEW w \in Worker, Step(w), ~WriteAck(w)
  PROVE  Tip' = Tip
<1> USE DEF IInv, Local
<1>1. ~Panic(w)
  BY DEF RegisterFollows, Panic
<1>2. \A v \in Worker : v # w => pc[v] \notin {"return", "write"}
  BY <1>1 DEF OneBusy, Step, Accept, TestSlot, LoadSlot, StoreSlot, ReturnSlot, Publish,
         PublishPing, Goto, TypeOK, PC, Alone
<1>3. \A v \in Worker : v # w => pc'[v] = pc[v]
  BY <1>1 DEF Step, Accept, TestSlot, LoadSlot, StoreSlot, ReturnSlot, Publish,
              PublishPing, Goto, TypeOK
<1>4. CASE StoreSlot(w)
  <2>1. ~Moved /\ Moved'
    BY <1>2, <1>4 DEF Moved, StoreSlot, Goto, TypeOK
  <2>2. nextAckSlot' = NextSlot(nextAckSlot) /\ nextAckSlot \in Slot
    BY <1>4 DEF RegisterFollows, StoreSlot, Goto
  <2> QED
    BY <2>1, <2>2, NextSlotType DEF Tip
<1>5. CASE ~StoreSlot(w)
  <2>1. nextAckSlot' = nextAckSlot
    BY <1>1, <1>5 DEF Step, Accept, TestSlot, LoadSlot, ReturnSlot, Publish,
                      PublishPing, fieldVars
  <2>2. Moved' <=> Moved
    BY <1>1, <1>2, <1>3, <1>5 DEF Moved, Step, Accept, TestSlot, LoadSlot, ReturnSlot,
                                  Publish, PublishPing, Goto, TypeOK
  <2> QED
    BY <2>1, <2>2 DEF Tip
<1> QED
  BY <1>4, <1>5

(* An ack written alone takes the place after the newest one, so that each *)
(* of the others has one more newer than itself.                           *)
LEMMA WriteKeepsRing ==
  ASSUME IInv, TypeOK', NEW w \in Worker, WriteAck(w), ~overlapped
  PROVE  RingHeals'
<1>1. /\ pc[w] = "write" /\ slot[w] = nextAckSlot /\ nextAckSlot' = nextAckSlot
      /\ nextAckSlot \in Slot
  BY DEF IInv, Local, RegisterFollows, WriteAck, Goto
<1>2. \A v \in Worker : pc'[v] \notin {"return", "write"}
  BY <1>1 DEF IInv, Local, OneBusy, TypeOK, WriteAck, Goto
<1>3. Tip = PrevSlot(nextAckSlot) /\ Tip' = nextAckSlot
  BY <1>1, <1>2 DEF Tip, Moved
<1>4. /\ Len(received') = Len(received) + 1
      /\ received'[Len(received) + 1] = info[w]
      /\ \A k \in 1 .. Len(received) : received'[k] = received[k]
  <2>1. info[w] \in Info /\ received \in Seq(Info)
    BY <1>1 DEF IInv, Local, BusyHoldsPing, TypeOK
  <2> QED
    BY <2>1 DEF WriteAck
<1>5. calm' = calm + 1 /\ calm \in 0 .. Len(received) /\ Len(received) \in Nat
  BY DEF WriteAck, IInv, Local, TypeOK
<1>8. LastAcks' = [LastAcks EXCEPT ![nextAckSlot] = info[w]]
  <2>1. info[w] \in Info
    BY <1>1 DEF IInv, Local, BusyHoldsPing
  <2> QED
    BY <1>1, <2>1, PutType DEF WriteAck
<1> SUFFICES ASSUME NEW j \in Slot, Newer(j)' < calm'
             PROVE  LastAcks'[j] = received'[Len(received') - Newer(j)']
  BY DEF RingHeals
<1>6. CASE j = nextAckSlot
  <2>1. Newer(j)' = 0
    BY <1>3, <1>6 DEF Newer, Slot
  <2>2. LastAcks'[j] = info[w]
    BY <1>6, <1>8 DEF IInv, Local, TypeOK
  <2> QED
    BY <1>4, <1>5, <2>1, <2>2
<1>7. CASE j # nextAckSlot
  <2>1. Newer(j)' = Newer(j) + 1 /\ Newer(j) \in Nat
    BY <1>1, <1>3, <1>7, SlotsAssumption DEF Newer, Slot, PrevSlot
  <2>2. LastAcks'[j] = LastAcks[j]
    BY <1>7, <1>8 DEF IInv, Local, TypeOK
  <2>3. Newer(j) < calm
    BY <1>5, <2>1
  <2>4. LastAcks[j] = received[Len(received) - Newer(j)]
    BY <2>3 DEF IInv, Local, RingHeals
  <2>5. Len(received) - Newer(j) \in 1 .. Len(received)
    BY <1>5, <2>1, <2>3
  <2>6. Len(received') - Newer(j)' = Len(received) - Newer(j)
    BY <1>4, <1>5, <2>1
  <2> QED
    BY <1>4, <2>2, <2>4, <2>5, <2>6
<1> QED
  BY <1>6, <1>7

(* The ring is right in the initial state, where it is empty.              *)
LEMMA InitIInv == ASSUME Init PROVE IInv
<1>1. TypeOK
  <2>1. received \in Seq(Info) /\ calm \in 0 .. Len(received)
    BY DEF Init
  <2>2. overlapped \in BOOLEAN
    BY Zenon DEF Init
  <2>3. alive \in BOOLEAN
    BY Zenon DEF Init
  <2> QED
    BY <2>1, <2>2, <2>3, SlotsAssumption DEF Init, TypeOK, Slot, PC, Stored
<1>2. RingHeals
  <2>1. calm = 0 /\ Tip = 0
    BY DEF Init, Tip, Moved
  <2>2. \A j \in Slot : Newer(j) \in Nat
    BY <2>1, SlotsAssumption DEF Newer, Slot
  <2> QED
    BY <2>1, <2>2 DEF RingHeals
<1>3. nextAckSlot \in Slot
  BY SlotsAssumption DEF Init, Slot
<1> QED
  BY <1>1, <1>2, <1>3 DEF Init, IInv, Local, OneBusy, RegisterFollows, StrayHeld,
                          CalmAfterMeeting, BusyHoldsPing

(* Every step preserves the inductive invariant.                           *)
LEMMA NextIInv == ASSUME IInv, [Next]_vars PROVE IInv'
<1>1. Local'
  BY LocalStep DEF IInv, Local
<1>2. RingHeals'
  <2>1. CASE overlapped'
    <3>1. calm' = 0 /\ Tip' \in Nat
      BY <1>1, <2>1, TipTypeNext DEF TipOK, CalmAfterMeeting, Local
    <3>2. ASSUME NEW j \in Slot PROVE Newer(j)' \in Nat
      BY <3>1, NewerType DEF Newer
    <3> QED
      BY <3>1, <3>2 DEF RingHeals
  <2>2. CASE UNCHANGED vars
    BY <2>2 DEF IInv, Local, RingHeals, Newer, Tip, Moved, vars, fieldVars, historyVars
  <2>3. CASE ~overlapped' /\ Next
    <3>1. PICK w \in Worker : Step(w)
      BY <2>3 DEF Next
    <3>2. CASE overlapped
      <4>1. PublishPing(w)
        BY <2>3, <3>1, <3>2 DEF Step, Accept, TestSlot, LoadSlot, StoreSlot, ReturnSlot,
                                WriteAck, Panic, Publish, historyVars
      <4>2. calm' = 0 /\ Tip' \in Nat
        BY <1>1, <3>2, <4>1, TipTypeNext DEF TipOK, IInv, Local, CalmAfterMeeting, PublishPing
      <4>3. ASSUME NEW j \in Slot PROVE Newer(j)' \in Nat
        BY <4>2, NewerType DEF Newer
      <4> QED
        BY <4>2, <4>3 DEF RingHeals
    <3>3. CASE ~overlapped /\ WriteAck(w)
      BY <1>1, <3>3, WriteKeepsRing DEF Local
    <3>4. CASE ~overlapped /\ ~WriteAck(w)
      <4>1. Tip' = Tip
        BY <2>3, <3>1, <3>4, TipStays
      <4>2. LastAcks' = LastAcks /\ received' = received
        BY <3>1, <3>4 DEF Step, Accept, TestSlot, LoadSlot, StoreSlot, ReturnSlot,
           Panic, Publish, PublishPing, fieldVars, historyVars
      <4>3. calm' = calm \/ calm' = 0
        BY <3>1, <3>4 DEF Step, Accept, TestSlot, LoadSlot, StoreSlot, ReturnSlot,
           Panic, Publish, PublishPing, historyVars
      <4>4. \A j \in Slot : Newer(j)' = Newer(j) /\ Newer(j) \in Nat
        <5>1. Tip \in Nat
          BY TipType DEF TipOK, IInv
        <5> QED
          BY <4>1, <5>1, NewerType DEF Newer
      <4>5. calm \in Nat
        BY DEF IInv, Local, TypeOK
      <4> QED
        BY <4>2, <4>3, <4>4, <4>5 DEF IInv, Local, RingHeals
    <3> QED
      BY <3>2, <3>3, <3>4
  <2> QED
    BY <2>1, <2>2, <2>3
<1> QED
  BY <1>1, <1>2 DEF IInv, Local

(* The inductive invariant holds in every state.                           *)
THEOREM Invariant == Spec => []IInv
<1>1. Init => IInv
  BY InitIInv
<1>2. IInv /\ [Next]_vars => IInv'
  BY NextIInv
<1> QED
  BY <1>1, <1>2, PTL DEF Spec

(* The index of the ring leaves the array only where handlePacket          *)
(* goroutines raced for it, and never for good: one that is about to store *)
(* through such an index, which panics, is still there.  A process whose   *)
(* packets are handled one at a time never panics on LastAcks.             *)
THEOREM StrayIndex == Spec => []StrayIndexIsFatal
<1>1. IInv => StrayIndexIsFatal
  BY DEF IInv, Local, RegisterFollows, StrayHeld, StrayIndexIsFatal
<1> QED
  BY <1>1, Invariant, PTL

(* The ring heals from any race of handlePacket goroutines: the pings      *)
(* handled alone since then are in it, each in its place.                  *)
THEOREM Healing == Spec => []RingHeals
<1>1. IInv => RingHeals
  BY DEF IInv, Local
<1> QED
  BY <1>1, Invariant, PTL

-----------------------------------------------------------------------------
(* While pings are handled alone the one on its way to LastRX and          *)
(* LastRXPing is the newest entry of the ring, and so are they when there  *)
(* is none.                                                                *)
PublishesTip ==
  calm > 0 =>
    \A w \in Worker :
      /\ pc[w] \in {"publish", "ping"} => info[w] = LastAcks[Tip]
      /\ pc[w] = "ping" => LastRX = LastAcks[Tip]

HInv == IInv /\ PublishesTip /\ LastPingIsTip /\ RingIsLatest

(* Nothing is overlapped, and at most one goroutine is busy, when the last *)
(* ping was handled alone.                                                 *)
LEMMA CalmIsAlone ==
  ASSUME IInv, calm > 0
  PROVE  /\ ~overlapped
         /\ \A v, w \in Worker : pc[v] # "idle" /\ pc[w] # "idle" => v = w
BY DEF IInv, Local, CalmAfterMeeting, OneBusy, TypeOK

(* What an ack written alone leaves: it is the newest entry, and every     *)
(* other slot keeps its content and has one more newer than itself.        *)
LEMMA WriteAlone ==
  ASSUME IInv, NEW w \in Worker, WriteAck(w), ~overlapped
  PROVE  /\ Tip' = nextAckSlot /\ Tip = PrevSlot(nextAckSlot)
         /\ LastAcks' = [LastAcks EXCEPT ![nextAckSlot] = info[w]]
         /\ \A v \in Worker : pc'[v] = IF v = w THEN "publish" ELSE "idle"
         /\ \A j \in Slot : j # nextAckSlot => Newer(j)' = Newer(j) + 1
         /\ Newer(nextAckSlot)' = 0
<1>1. /\ pc[w] = "write" /\ slot[w] = nextAckSlot /\ nextAckSlot' = nextAckSlot
      /\ nextAckSlot \in Slot
  BY DEF IInv, Local, RegisterFollows, WriteAck, Goto
<1>2. \A v \in Worker : pc'[v] = IF v = w THEN "publish" ELSE "idle"
  BY <1>1 DEF IInv, Local, OneBusy, TypeOK, WriteAck, Goto
<1>3. Tip = PrevSlot(nextAckSlot) /\ Tip' = nextAckSlot
  BY <1>1, <1>2 DEF Tip, Moved
<1>4. LastAcks' = [LastAcks EXCEPT ![nextAckSlot] = info[w]]
  <2>1. info[w] \in Info
    BY <1>1 DEF IInv, Local, BusyHoldsPing
  <2> QED
    BY <1>1, <2>1, PutType DEF WriteAck
<1>5. nextAckSlot \in Slot
  BY <1>1
<1>6. ASSUME NEW j \in Slot, j # nextAckSlot PROVE Newer(j)' = Newer(j) + 1
  BY <1>3, <1>5, <1>6, SlotsAssumption DEF Newer, Slot, PrevSlot
<1>7. Newer(nextAckSlot)' = 0
  BY <1>1, <1>3, <1>5 DEF Newer, Slot
<1> QED
  BY <1>2, <1>3, <1>4, <1>6, <1>7

(* Every step keeps LastRXPing on its way to the newest entry.             *)
LEMMA TipStep ==
  ASSUME IInv, IInv', PublishesTip, LastPingIsTip, Next
  PROVE  PublishesTip' /\ LastPingIsTip'
<1> SUFFICES ASSUME calm' > 0 PROVE PublishesTip' /\ LastPingIsTip'
  BY DEF PublishesTip, LastPingIsTip
<1>1. PICK w \in Worker : Step(w)
  BY DEF Next
<1>2. ~overlapped'
  BY DEF IInv, Local, CalmAfterMeeting, TypeOK
<1>3. CASE WriteAck(w)
  <2>1. ~overlapped
    BY <1>2, <1>3 DEF WriteAck
  <2>2. nextAckSlot \in Slot /\ LastAcks \in [Slot -> Stored]
    BY <2>1 DEF IInv, Local, RegisterFollows, TypeOK
  <2>3. LastAcks'[Tip'] = info[w] /\ pc'[w] = "publish" /\ info' = info
    BY <1>3, <2>1, <2>2, WriteAlone DEF WriteAck
  <2>4. \A v \in Worker : pc'[v] \in {"publish", "ping"} => v = w /\ pc'[v] = "publish"
    BY <1>3, <2>1, WriteAlone
  <2> QED
    BY <2>3, <2>4 DEF PublishesTip, LastPingIsTip
<1>4. CASE ~WriteAck(w)
  <2>1. calm' = calm /\ ~overlapped
    <3>1. calm' = calm
      BY <1>1, <1>4 DEF Step, Accept, TestSlot, LoadSlot, StoreSlot, ReturnSlot,
           Panic, Publish, PublishPing, historyVars
    <3> QED
      BY <3>1, CalmIsAlone
  <2>2. Tip' = Tip
    BY <1>1, <1>2, <1>4, <2>1, TipStays
  <2>3. LastAcks' = LastAcks
    BY <1>1, <1>4 DEF Step, Accept, TestSlot, LoadSlot, StoreSlot, ReturnSlot,
           Panic, Publish, PublishPing, fieldVars
  <2>4. CASE Publish(w)
    <3>1. info[w] = LastAcks[Tip] /\ LastRX' = info[w] /\ info' = info
      <4>1. info[w] \in Info
        BY <2>4 DEF IInv, Local, BusyHoldsPing, Publish, Goto
      <4> QED
        BY <2>1, <2>4, <4>1, PutType DEF PublishesTip, Publish, Goto
    <3>2. \A v \in Worker : pc'[v] \in {"publish", "ping"} <=> v = w
      BY <2>1, <2>4, CalmIsAlone DEF Publish, Goto, IInv, Local, TypeOK
    <3> QED
      BY <2>2, <2>3, <3>1, <3>2 DEF PublishesTip, LastPingIsTip
  <2>5. CASE PublishPing(w)
    <3>1. /\ info[w] = LastAcks[Tip] /\ LastRXPing' = info[w]
          /\ LastRX' = LastRX /\ LastRX = LastAcks[Tip]
      <4>1. info[w] \in Info
        BY <2>5 DEF IInv, Local, BusyHoldsPing, PublishPing, Goto
      <4> QED
        BY <2>1, <2>5, <4>1, PutType DEF PublishesTip, PublishPing, Goto
    <3>2. \A v \in Worker : pc'[v] \notin {"publish", "ping"}
      BY <2>1, <2>5, CalmIsAlone DEF PublishPing, Goto, IInv, Local, TypeOK
    <3> QED
      BY <2>2, <2>3, <3>1, <3>2 DEF PublishesTip, LastPingIsTip
  <2>6. CASE ~Publish(w) /\ ~PublishPing(w)
    <3>1. LastRXPing' = LastRXPing /\ LastRX' = LastRX
      BY <1>1, <1>4, <2>6 DEF Step, Accept, TestSlot, LoadSlot, StoreSlot, ReturnSlot,
                              Panic, fieldVars
    <3>2. \A v \in Worker :
            /\ pc'[v] \in {"publish", "ping"} <=> pc[v] \in {"publish", "ping"}
            /\ pc'[v] = "ping" <=> pc[v] = "ping"
      BY <1>1, <1>4, <2>6 DEF Step, Accept, TestSlot, LoadSlot, StoreSlot, ReturnSlot,
                              Panic, Goto, IInv, Local, TypeOK
    <3>3. \A v \in Worker : pc'[v] \in {"publish", "ping"} => info'[v] = info[v]
      BY <1>1, <1>4, <2>6 DEF Step, Accept, TestSlot, LoadSlot, StoreSlot, ReturnSlot,
                              Panic, Goto, IInv, Local, TypeOK
    <3> QED
      BY <2>1, <2>2, <2>3, <3>1, <3>2, <3>3 DEF PublishesTip, LastPingIsTip
  <2> QED
    BY <2>4, <2>5, <2>6
<1> QED
  BY <1>3, <1>4

(* Every step keeps the ring that met no race equal to the last pings.     *)
LEMMA LatestStep ==
  ASSUME IInv, IInv', RingIsLatest, Next
  PROVE  RingIsLatest'
<1> SUFFICES ASSUME calm' = Len(received'), NEW j \in Slot
             PROVE  LastAcks'[j] = IF Newer(j)' < Len(received')
                                   THEN received'[Len(received') - Newer(j)']
                                   ELSE NoInfo
  BY DEF RingIsLatest
<1>1. PICK w \in Worker : Step(w)
  BY DEF Next
<1>2. Len(received) \in Nat /\ Tip \in Nat /\ Tip' \in Nat
  BY TipType, TipTypeNext DEF TipOK, IInv, Local, TypeOK
<1>3. Newer(j) \in Nat /\ Newer(j)' \in Nat
  BY <1>2, NewerType DEF Newer
<1>4. CASE WriteAck(w)
  <2>1. info[w] \in Info /\ received \in Seq(Info)
    BY <1>4 DEF IInv, Local, BusyHoldsPing, TypeOK, WriteAck, Goto
  <2>2. /\ Len(received') = Len(received) + 1
        /\ received'[Len(received) + 1] = info[w]
        /\ \A k \in 1 .. Len(received) : received'[k] = received[k]
    BY <1>4, <2>1 DEF WriteAck
  <2>3. ~overlapped /\ calm = Len(received)
    BY <1>2, <1>4, <2>2 DEF WriteAck, IInv, Local, TypeOK
  <2>4. LastAcks \in [Slot -> Stored] /\ nextAckSlot \in Slot
    BY <2>3 DEF IInv, Local, RegisterFollows, TypeOK
  <2>5. CASE j = nextAckSlot
    <3>1. Newer(j)' = 0
      <4>1. nextAckSlot' = nextAckSlot
        BY <1>4 DEF WriteAck
      <4> QED
        BY <1>4, <2>3, <2>5, <4>1, WriteAlone DEF Newer, Slot
    <3>2. LastAcks'[j] = info[w]
      BY <1>4, <2>3, <2>4, <2>5, WriteAlone
    <3> QED
      BY <1>2, <2>2, <3>1, <3>2
  <2>6. CASE j # nextAckSlot
    <3>1. Newer(j)' = Newer(j) + 1 /\ LastAcks'[j] = LastAcks[j]
      BY <1>4, <2>3, <2>4, <2>6, WriteAlone
    <3>2. LastAcks[j] = IF Newer(j) < Len(received)
                        THEN received[Len(received) - Newer(j)] ELSE NoInfo
      BY <2>3 DEF RingIsLatest
    <3> QED
      BY <1>2, <1>3, <2>2, <3>1, <3>2
  <2> QED
    BY <2>5, <2>6
<1>5. CASE ~WriteAck(w)
  <2>1. LastAcks' = LastAcks /\ received' = received
    BY <1>1, <1>5 DEF Step, Accept, TestSlot, LoadSlot, StoreSlot, ReturnSlot,
           Panic, Publish, PublishPing,
                      fieldVars, historyVars
  <2>2. calm = Len(received)
    <3>1. calm' = calm \/ calm' = 0
      BY <1>1, <1>5 DEF Step, Accept, TestSlot, LoadSlot, StoreSlot, ReturnSlot,
           Panic, Publish, PublishPing,
                        historyVars
    <3> QED
      BY <2>1, <3>1 DEF IInv, Local, TypeOK
  <2>3. LastAcks[j] = IF Newer(j) < Len(received)
                      THEN received[Len(received) - Newer(j)] ELSE NoInfo
    BY <2>2 DEF RingIsLatest
  <2>4. CASE Len(received) = 0
    BY <1>3, <2>1, <2>3, <2>4
  <2>5. CASE Len(received) # 0
    <3>1. ~overlapped /\ ~overlapped'
      BY <1>2, <2>1, <2>2, <2>5 DEF IInv, Local, CalmAfterMeeting
    <3>2. Tip' = Tip
      BY <1>1, <1>5, <3>1, TipStays
    <3>3. Newer(j)' = Newer(j)
      BY <3>2 DEF Newer
    <3> QED
      BY <2>1, <2>3, <3>3
  <2> QED
    BY <2>4, <2>5
<1> QED
  BY <1>4, <1>5

(* What the ring and LastRXPing hold, in every state.                      *)
THEOREM HistoryInvariant == Spec => []HInv
<1>1. Init => HInv
  <2> SUFFICES ASSUME Init PROVE HInv
    OBVIOUS
  <2>1. IInv
    BY InitIInv
  <2>2. PublishesTip /\ LastPingIsTip
    BY DEF Init, PublishesTip, LastPingIsTip
  <2>3. \A j \in Slot : Newer(j) \in Nat
    <3>1. Tip \in Nat
      BY <2>1, TipType DEF TipOK, IInv
    <3> QED
      BY <3>1, NewerType DEF Newer
  <2>4. RingIsLatest
    BY <2>3 DEF Init, RingIsLatest
  <2> QED
    BY <2>1, <2>2, <2>4 DEF HInv
<1>2. HInv /\ [Next]_vars => HInv'
  <2> SUFFICES ASSUME HInv, [Next]_vars PROVE HInv'
    OBVIOUS
  <2>1. IInv'
    BY NextIInv DEF HInv
  <2>2. CASE Next
    BY <2>1, <2>2, TipStep, LatestStep DEF HInv
  <2>3. CASE UNCHANGED vars
    BY <2>1, <2>3 DEF HInv, PublishesTip, LastPingIsTip, RingIsLatest, Newer, Tip,
                      Moved, vars, fieldVars, historyVars
  <2> QED
    BY <2>2, <2>3
<1> QED
  BY <1>1, <1>2, PTL DEF Spec

(* Once a ping handled alone is done LastRXPing, from which Prometheus     *)
(* computes the statistics, is the newest entry of the ring, whatever was  *)
(* lost to races before it.                                                *)
THEOREM LastPing == Spec => []LastPingIsTip
<1>1. HInv => LastPingIsTip
  BY DEF HInv
<1> QED
  BY <1>1, HistoryInvariant, PTL

(* Where no two goroutines meet the ring is the last Slots pings and       *)
(* nothing else, through any number of wrap-arounds.                       *)
THEOREM RingExact == Spec => []RingIsLatest
<1>1. HInv => RingIsLatest
  BY DEF HInv
<1> QED
  BY <1>1, HistoryInvariant, PTL

-----------------------------------------------------------------------------
(* The log that the ring stands for, as the refinement mapping reads it.   *)
LogView == [k \in 1 .. Filled |-> LastAcks[SlotOf(k)]]

(* The remainder that SlotOf takes, for the sums that occur in it.         *)
LEMMA Wrap ==
  ASSUME NEW x \in 0 .. 2 * Slots - 1
  PROVE  x % Slots = IF x < Slots THEN x ELSE x - Slots
BY SlotsAssumption

(* SlotOf without a remainder: counted back from the tip, around the end.  *)
LEMMA SlotOfValue ==
  ASSUME NEW t \in Slot, NEW f \in 0 .. Slots, NEW k \in 1 .. f
  PROVE  /\ (t + Slots - (f - k)) % Slots
              = IF f - k <= t THEN t - (f - k) ELSE t + Slots - (f - k)
         /\ (t + Slots - (f - k)) % Slots \in Slot
<1> DEFINE x == t + Slots - (f - k)
<1>1. x \in 0 .. 2 * Slots - 1
  BY SlotsAssumption DEF Slot
<1>2. x % Slots = IF x < Slots THEN x ELSE x - Slots
  <2> HIDE DEF x
  <2> QED
    BY <1>1, Wrap
<1>3. (IF x < Slots THEN x ELSE x - Slots)
        = IF f - k <= t THEN t - (f - k) ELSE t + Slots - (f - k)
  BY SlotsAssumption DEF Slot
<1>4. (IF x < Slots THEN x ELSE x - Slots) \in Slot
  BY SlotsAssumption DEF Slot
<1> QED
  BY <1>2, <1>3, <1>4

(* A view is a log of at most Slots entries.                               *)
ViewOK ==
  /\ Filled \in 0 .. Slots
  /\ LogView \in Seq(Stored)
  /\ Len(LogView) = Filled

(* The slots the view reads are in the array, so that it is such a log.    *)
LEMMA ViewType == TypeOK => ViewOK
<1> SUFFICES ASSUME TypeOK PROVE ViewOK
  OBVIOUS
<1>1. Tip \in Nat
  BY SlotsAssumption DEF TypeOK, Tip, PrevSlot
<1>2. Filled \in 0 .. Slots
  BY SlotsAssumption DEF TypeOK, Filled
<1>3. ASSUME NEW k \in 1 .. Filled PROVE SlotOf(k) \in Slot
  <2>1. Tip + Slots - (Filled - k) \in Nat
    BY <1>1, <1>2, SlotsAssumption
  <2> QED
    BY <2>1, SlotsAssumption DEF SlotOf, Slot
<1>4. \A k \in 1 .. Filled : LastAcks[SlotOf(k)] \in Stored
  BY <1>3 DEF TypeOK
<1> QED
  BY <1>2, <1>4 DEF LogView, ViewOK

(* The same of the next state.                                             *)
LEMMA ViewTypeNext == TypeOK' => ViewOK'
BY ViewType, PTL

(* How slots move when the tip moves on by one: counted from a log that    *)
(* grew they stay, counted from a full one they are one entry older, and   *)
(* the new tip is none of them.                                            *)
LEMMA SlotsShift ==
  ASSUME NEW n \in Slot, NEW d \in 0 .. Slots - 2
  PROVE  LET t == PrevSlot(n)
             back(u, m) == IF m <= u THEN u - m ELSE u + Slots - m
         IN  back(n, d + 1) = back(t, d) /\ back(t, d) # n /\ back(t, d) \in Slot
BY SlotsAssumption DEF PrevSlot, Slot

(* An ack written alone is one Record of the log: it is appended, and the  *)
(* oldest entry of a full ring is the one it takes the place of.           *)
LEMMA WriteRecords ==
  ASSUME IInv, IInv', NEW w \in Worker, WriteAck(w), ~overlapped
  PROVE  LogView' = (LET s == Append(LogView, info[w])
                     IN  IF Len(s) <= Slots THEN s ELSE Tail(s))
<1>1. /\ Tip \in Slot /\ Filled \in 0 .. Slots /\ Len(LogView) = Filled
      /\ LogView \in Seq(Stored)
  BY ViewType, TipType DEF TipOK, IInv, Local, ViewOK
<1>2. /\ Tip' = nextAckSlot /\ Tip = PrevSlot(nextAckSlot) /\ nextAckSlot \in Slot
      /\ LastAcks' = [LastAcks EXCEPT ![nextAckSlot] = info[w]]
      /\ LastAcks \in [Slot -> Stored]
  BY WriteAlone DEF IInv, Local, RegisterFollows, TypeOK
<1>3. info[w] \in Info /\ info[w] \in Stored /\ received \in Seq(Info) /\ Len(received) \in Nat
  BY DEF IInv, Local, BusyHoldsPing, TypeOK, WriteAck, Goto, Stored
<1>4. Len(received') = Len(received) + 1
  BY <1>3 DEF WriteAck
<1>5. Filled' = IF Filled < Slots THEN Filled + 1 ELSE Slots
  BY <1>3, <1>4, SlotsAssumption DEF Filled
<1>6. ASSUME NEW k \in 1 .. Filled
      PROVE  SlotOf(k) = IF Filled - k <= Tip THEN Tip - (Filled - k)
                                              ELSE Tip + Slots - (Filled - k)
  BY <1>1, SlotOfValue DEF SlotOf
<1>7. ASSUME NEW k \in 1 .. Filled'
      PROVE  SlotOf(k)' = IF Filled' - k <= Tip' THEN Tip' - (Filled' - k)
                                                 ELSE Tip' + Slots - (Filled' - k)
  <2>1. Tip' \in Slot /\ Filled' \in 0 .. Slots
    BY <1>1, <1>2, <1>5, SlotsAssumption
  <2> QED
    BY <2>1, SlotOfValue DEF SlotOf
<1>8. ASSUME NEW k \in 1 .. Filled'
      PROVE  LogView'[k] = LastAcks'[SlotOf(k)']
  BY DEF LogView
<1>9. ASSUME NEW n \in 1 .. Filled', n = Filled'
      PROVE  LogView'[n] = info[w]
  <2>1. SlotOf(n)' = nextAckSlot
    <3>1. Filled' - n = 0 /\ Tip' = nextAckSlot /\ nextAckSlot \in Nat
      BY <1>1, <1>2, <1>5, <1>9, SlotsAssumption DEF Slot
    <3> QED
      BY <1>7, <3>1
  <2> QED
    BY <1>2, <1>8, <2>1
<1>10. CASE Filled < Slots
  <2>1. ASSUME NEW k \in 1 .. Filled
        PROVE  LogView'[k] = LogView[k]
    <3>1. k \in 1 .. Filled' /\ Filled' = Filled + 1
      BY <1>1, <1>5, <1>10
    <3>2. SlotOf(k)' = SlotOf(k) /\ SlotOf(k) # nextAckSlot /\ SlotOf(k) \in Slot
      <4>1. Filled - k \in 0 .. Slots - 2 /\ Filled' - k = (Filled - k) + 1
        BY <1>1, <1>10, <3>1, SlotsAssumption
      <4> QED
        BY <1>2, <1>6, <1>7, <3>1, <4>1, SlotsShift
    <3> QED
      BY <1>2, <1>8, <3>1, <3>2 DEF LogView
  <2>2. LogView' = Append(LogView, info[w])
    <3>1. Filled' = Filled + 1
      BY <1>5, <1>10
    <3>2. LogView' = [k \in 1 .. Filled + 1 |-> LogView'[k]]
      BY <3>1 DEF LogView
    <3>3. \A k \in 1 .. Filled + 1 :
            LogView'[k] = IF k <= Filled THEN LogView[k] ELSE info[w]
      BY <1>1, <1>9, <2>1, <3>1
    <3> QED
      BY <1>1, <1>3, <3>2, <3>3
  <2>3. Len(Append(LogView, info[w])) = Filled + 1 /\ Filled + 1 <= Slots
    BY <1>1, <1>3, <1>10, SlotsAssumption
  <2> QED
    BY <2>2, <2>3
<1>11. CASE Filled = Slots
  <2>1. ASSUME NEW k \in 1 .. Slots - 1
        PROVE  LogView'[k] = LogView[k + 1]
    <3>1. k \in 1 .. Filled' /\ Filled' = Slots /\ k + 1 \in 1 .. Filled
      BY <1>5, <1>11, SlotsAssumption
    <3>2. SlotOf(k)' = SlotOf(k + 1)
      <4>1. /\ Filled - (k + 1) \in 0 .. Slots - 2
            /\ Filled' - k = (Filled - (k + 1)) + 1
        BY <1>11, <3>1, SlotsAssumption
      <4> QED
        BY <1>2, <1>6, <1>7, <3>1, <4>1, SlotsShift
    <3>3. SlotOf(k + 1) # nextAckSlot /\ SlotOf(k + 1) \in Slot
      <4>1. Filled - (k + 1) \in 0 .. Slots - 2
        BY <1>11, <3>1, SlotsAssumption
      <4> QED
        BY <1>2, <1>6, <3>1, <4>1, SlotsShift
    <3> QED
      BY <1>2, <1>8, <3>1, <3>2, <3>3 DEF LogView
  <2>2. LogView' = Tail(Append(LogView, info[w]))
    <3>1. Filled' = Slots
      BY <1>1, <1>5, <1>11, SlotsAssumption
    <3>2. LogView' = [k \in 1 .. Slots |-> LogView'[k]]
      BY <3>1 DEF LogView
    <3>3. \A k \in 1 .. Slots :
            LogView'[k] = IF k < Slots THEN LogView[k + 1] ELSE info[w]
      BY <1>1, <1>9, <2>1, <3>1, SlotsAssumption
    <3> QED
      BY <1>1, <1>3, <1>11, <3>2, <3>3, SlotsAssumption
  <2> QED
    <3>1. Len(Append(LogView, info[w])) = Slots + 1
      BY <1>1, <1>3, <1>11, SlotsAssumption
    <3> QED
      BY <2>2, <3>1, SlotsAssumption
<1> QED
  BY <1>1, <1>10, <1>11, SlotsAssumption

(* Every other step that begins outside a race leaves the log alone.       *)
LEMMA ViewStays ==
  ASSUME IInv, IInv', NEW w \in Worker, Step(w), ~WriteAck(w), ~overlapped
  PROVE  LogView' = LogView
<1>1. LastAcks' = LastAcks /\ received' = received
  BY DEF Step, Accept, TestSlot, LoadSlot, StoreSlot, ReturnSlot,
           Panic, Publish, PublishPing, fieldVars, historyVars
<1>2. Tip' = Tip
  <2>1. CASE ~overlapped'
    BY <2>1, TipStays
  <2>2. CASE overlapped'
    <3>1. PICK p \in Info : Accept(w, p)
      BY <2>2 DEF Step, TestSlot, LoadSlot, StoreSlot, ReturnSlot, Panic, Publish,
                  PublishPing, historyVars
    <3>2. Moved' <=> Moved
      BY <3>1 DEF Moved, Accept, Goto, IInv, Local, TypeOK
    <3> QED
      BY <3>1, <3>2 DEF Tip, Accept, fieldVars
  <2> QED
    BY <2>1, <2>2
<1>3. Filled' = Filled
  BY <1>1 DEF Filled
<1>4. \A k \in 1 .. Filled : SlotOf(k)' = SlotOf(k)
  BY <1>2, <1>3 DEF SlotOf
<1> QED
  BY <1>1, <1>3, <1>4 DEF LogView

(* The initial ring is the empty log.                                      *)
LEMMA InitRefines == ASSUME Init PROVE Log!Init
<1>1. Filled = 0
  BY SlotsAssumption DEF Init, Filled
<1>2. LogView = << >>
  BY <1>1 DEF LogView
<1> QED
  BY <1>2 DEF Init, Log!Init, LogView

(* Every step is a step of the log or leaves it alone.                     *)
LEMMA NextRefines ==
  ASSUME IInv, IInv', [Next]_vars
  PROVE  [Log!Next]_<<LogView, overlapped>>
<1>1. CASE UNCHANGED vars
  BY <1>1 DEF LogView, SlotOf, Filled, Tip, Moved, vars, fieldVars, historyVars
<1>2. CASE Next
  <2>1. PICK w \in Worker : Step(w)
    BY <1>2 DEF Next
  <2>2. CASE overlapped
    <3>1. LogView' \in Seq(Info \cup {NoInfo, Torn}) /\ Len(LogView') <= Slots
      BY ViewTypeNext, SlotsAssumption DEF IInv, Local, ViewOK, Stored
    <3>2. Log!Race
      BY <2>2, <3>1 DEF Log!Race, LogView
    <3> QED
      BY <3>2 DEF Log!Next
  <2>3. CASE ~overlapped /\ WriteAck(w)
    <3>1. ~overlapped'
      BY <2>3 DEF WriteAck
    <3>2. info[w] \in Info
      BY <2>3 DEF IInv, Local, BusyHoldsPing, WriteAck, Goto
    <3>3. Log!Record(info[w])
      BY <2>3, <3>1, WriteRecords DEF Log!Record, Log!Latest, LogView
    <3> QED
      BY <3>2, <3>3 DEF Log!Next
  <2>4. CASE ~overlapped /\ ~WriteAck(w)
    <3>1. LogView' = LogView
      BY <2>1, <2>4, ViewStays
    <3>2. CASE overlapped'
      <4>1. Log!Toggle
        BY <2>4, <3>1, <3>2 DEF Log!Toggle, LogView
      <4> QED
        BY <4>1 DEF Log!Next
    <3>3. CASE ~overlapped'
      <4>1. overlapped' = overlapped
        BY <2>4, <3>3 DEF IInv, Local, TypeOK
      <4> QED
        BY <3>1, <4>1
    <3> QED
      BY <3>2, <3>3
  <2> QED
    BY <2>2, <2>3, <2>4
<1> QED
  BY <1>1, <1>2

(* The ring of acknowledgements implements the log of the last pings: what *)
(* a ping carries to the other end is that log, and the steps that fill a  *)
(* slot appear as one outside a race.                                      *)
THEOREM Refinement == Spec => ImplementsLog
<1>1. Init => Log!Init
  BY InitRefines
<1>2. IInv /\ IInv' /\ [Next]_vars => [Log!Next]_<<LogView, overlapped>>
  BY NextRefines
<1>3. Spec => Log!Init /\ [][Log!Next]_<<LogView, overlapped>>
  BY <1>1, <1>2, Invariant, PTL DEF Spec
<1> QED
  BY <1>3, PTL DEF ImplementsLog, Log!Spec, LogView
=============================================================================
