---------------------------- MODULE ClockOffset ----------------------------
(***************************************************************************)
(* The offset every timestamp is corrected by.  getTimeOffset is called by *)
(* every goroutine that takes a time, without a lock: it calibrates when   *)
(* the last calibration is half an hour old, and then stores, tests and    *)
(* returns the offset, in steps that others come between.                  *)
(* calibrateAgainstApple polls all servers at once, waits four seconds,    *)
(* takes the Considered answers of lowest round trip and uses the median   *)
(* of their offsets.  A poll takes two seconds at most, so that all the    *)
(* answers there will be are in by then: a calibration is one step here.   *)
(***************************************************************************)
EXTENDS Integers, Sequences, FiniteSets, FiniteSetsExt

CONSTANTS
  Caller,      \* goroutines that call getTimeOffset
  Main,        \* main, which calls it before it starts the others
  Server,      \* ntpServers
  Offset,      \* the clock offsets a poll may measure
  RoundTrip,   \* the round trips a poll may measure
  Considered,  \* 5: the answers the median is taken of
  MaxOffset,   \* one second
  Failed,      \* a poll without answer
  Polls        \* the pairs of polls of a server to try

ASSUME MainAssumption == Main \in Caller
ASSUME ServerAssumption == IsFiniteSet(Server)
ASSUME ConsideredAssumption == Considered \in Nat /\ Considered % 2 = 1
ASSUME OffsetAssumption == Offset \subseteq Int /\ MaxOffset \in Nat \ {0}
ASSUME RoundTripAssumption == RoundTrip \subseteq Nat \ {0}

ntpResult == [RTT : RoundTrip, Offset : Offset]
Poll == ntpResult \cup {Failed}

ASSUME PollsAssumption == Polls \subseteq Poll \X Poll

VARIABLES
  flagClockIsPerfect,  \* -clock-is-perfect
  status,      \* "up", or "fatal" after log.Fatalf
  lastSync,    \* "never", "recent" or "stale": over half an hour old
  timeOffset,
  pc,          \* per caller: its place in getTimeOffset
  value,       \* per caller: what its calibration returned
  started,     \* main has come to starting the other goroutines
  calibrated,  \* history: "never", "old", or "current": since lastSync went stale
  results      \* history: the answers behind the value just computed

syncVars == <<lastSync, timeOffset>>
vars == <<flagClockIsPerfect, status, syncVars, pc, value, started, calibrated, results>>

PC == {"idle", "calibrate", "store", "check", "return"}

TypeOK ==
  /\ flagClockIsPerfect \in BOOLEAN
  /\ status \in {"up", "fatal"}
  /\ lastSync \in {"never", "recent", "stale"}
  /\ timeOffset \in Offset \cup {0, 1}
  /\ pc \in [Caller -> PC]
  /\ value \in [Caller -> Offset \cup {0, 1}]
  /\ started \in BOOLEAN
  /\ calibrated \in {"never", "old", "current"}
  /\ DOMAIN results \subseteq Server

Init ==
  /\ flagClockIsPerfect \in BOOLEAN
  /\ status = "up"
  /\ lastSync = "never" /\ timeOffset = 0
  /\ pc = [c \in Caller |-> "idle"]
  /\ value = [c \in Caller |-> 0]
  /\ started = FALSE /\ calibrated = "never"
  /\ results = << >>

Goto(c, from, to) ==
  /\ status = "up"
  /\ pc[c] = from
  /\ pc' = [pc EXCEPT ![c] = to]

(* Mutant: main starts the goroutines without a first call of its own.     *)
MayCallAny(c) == TRUE
MayCall(c) == c = Main \/ started

(* Mutant: lastSync is set before the calibration instead of at its end,   *)
(* to spare the others one of their own.                                   *)
CallMarking(c) ==
  /\ MayCall(c)
  /\ Goto(c, "idle", IF lastSync # "recent" THEN "calibrate" ELSE "return")
  /\ lastSync' = "recent"
  /\ UNCHANGED <<flagClockIsPerfect, status, timeOffset, value, started, calibrated, results>>

(* getTimeOffset's test.                                                   *)
Call(c) ==
  /\ MayCall(c)
  /\ Goto(c, "idle", IF lastSync # "recent" THEN "calibrate" ELSE "return")
  /\ UNCHANGED <<flagClockIsPerfect, status, syncVars, value, started, calibrated, results>>

(* With -clock-is-perfect nobody is asked: the offset is one nanosecond.   *)
AssumePerfect(c) ==
  /\ flagClockIsPerfect
  /\ Goto(c, "calibrate", "store")
  /\ value' = [value EXCEPT ![c] = 1]
  /\ lastSync' = "recent"
  /\ UNCHANGED <<flagClockIsPerfect, status, timeOffset, started, calibrated, results>>

(***************************************************************************)
(* ntpTriplePoll.  It polls twice and sorts three cells, so that one cell  *)
(* is always zero: the result is the middle of two measurements and 0.     *)
(***************************************************************************)
Middle(x, y, z) == Max({Min({x, y}), Min({Max({x, y}), z})})
OffsetOf(a) == IF a = Failed THEN 0 ELSE a.Offset
RTTOf(a) == IF a = Failed THEN 0 ELSE a.RTT

(* Mutant: the measurements are added up, the cell left over ignored.      *)
SumPoll(a, b) ==
  [RTT |-> Middle(RTTOf(a), RTTOf(b), 0), Offset |-> OffsetOf(a) + OffsetOf(b)]

ntpTriplePoll(a, b) ==
  [RTT |-> Middle(RTTOf(a), RTTOf(b), 0), Offset |-> Middle(OffsetOf(a), OffsetOf(b), 0)]

(* Mutant: only the number of failures is tested.                          *)
UsableIfAny(a, b) == ~(a = Failed /\ b = Failed)

(* The test before an answer is stored: failed > 1 || RTT == 0 ||          *)
(* offset == 0 gives it up.                                                *)
Usable(a, b) ==
  /\ ~(a = Failed /\ b = Failed)
  /\ ntpTriplePoll(a, b).RTT # 0
  /\ ntpTriplePoll(a, b).Offset # 0

(***************************************************************************)
(* The rest of calibrateAgainstApple, with the answers R.                  *)
(***************************************************************************)

(* Mutant: the answers are not sorted by round trip.                       *)
BestUnsorted(R) ==
  {S \in SUBSET DOMAIN R : Cardinality(S) = Min({Considered, Cardinality(DOMAIN R)})}

(* The servers the sort by round trip may put first: the order of equal    *)
(* ones is that of a map, hence any.                                       *)
Best(R) ==
  {S \in SUBSET DOMAIN R :
     /\ Cardinality(S) = Min({Considered, Cardinality(DOMAIN R)})
     /\ \A u \in S, v \in DOMAIN R \ S : R[u].RTT <= R[v].RTT}

(* How many of the Considered cells hold an offset of V: cells that no     *)
(* answer filled hold 0.                                                   *)
Cells(R, S, V) ==
  Cardinality({v \in S : R[v].Offset \in V})
  + (IF 0 \in V THEN Considered - Cardinality(S) ELSE 0)

(* Mutant: the first cell instead of the middle one.                       *)
LowestOffset(R, S) ==
  Min({R[v].Offset : v \in S} \cup (IF Cardinality(S) < Considered THEN {0} ELSE {}))

(* considerableNTPresponces[2].Offset, after the sort by offset.           *)
MedianOffset(R, S) ==
  LET values == {R[v].Offset : v \in S} \cup {0}
  IN CHOOSE x \in values :
       /\ Cells(R, S, {x}) > 0
       /\ Cells(R, S, {y \in values : y < x}) <= Considered \div 2
       /\ Cells(R, S, {y \in values : y > x}) <= Considered \div 2

(* The pairs of polls that get a server into ts.m.                         *)
UsablePolls == {ab \in Polls : Usable(ab[1], ab[2])}
Answer(R) == [v \in DOMAIN R |-> ntpTriplePoll(R[v][1], R[v][2])]

(* A caller alone keeps the polls for the properties below.                *)
Alone(c) == \A d \in Caller \ {c} : pc[d] \in {"idle", "return"}

(* calibrateAgainstApple, with the polls R that were usable.               *)
Calibrate(c, R) ==
  /\ ~flagClockIsPerfect
  /\ Goto(c, "calibrate", "store")
  /\ LET A == Answer(R)
     IN \E S \in Best(A) : value' = [value EXCEPT ![c] = MedianOffset(A, S)]
  /\ lastSync' = "recent"
  /\ results' = IF Alone(c) THEN R ELSE << >>
  /\ UNCHANGED <<flagClockIsPerfect, status, timeOffset, started, calibrated>>

Store(c) ==
  /\ Goto(c, "store", "check")
  /\ timeOffset' = value[c]
  /\ value' = [value EXCEPT ![c] = 0]
  /\ calibrated' = "current"
  /\ results' = << >>
  /\ UNCHANGED <<flagClockIsPerfect, status, lastSync, started>>

(* Mutant: the limit is tested on the other side of zero.                  *)
OutOfSyncBelow == timeOffset < -MaxOffset

(* The offset tested is the one stored now, whoever stored it.             *)
OutOfSync == timeOffset > MaxOffset

Check(c) ==
  /\ IF OutOfSync THEN Goto(c, "check", "check") /\ status' = "fatal"
     ELSE Goto(c, "check", "return") /\ UNCHANGED status
  /\ UNCHANGED <<flagClockIsPerfect, syncVars, value, started, calibrated, results>>

(* The offset is read once more.                                           *)
Return(c) ==
  /\ Goto(c, "return", "idle")
  /\ started' = TRUE
  /\ UNCHANGED <<flagClockIsPerfect, status, syncVars, value, calibrated, results>>

(* Half an hour passes.  A calibration takes seconds.                      *)
GoStale ==
  /\ status = "up"
  /\ lastSync = "recent"
  /\ \A c \in Caller : pc[c] \in {"idle", "return"}
  /\ lastSync' = "stale"
  /\ calibrated' = "old"
  /\ UNCHANGED <<flagClockIsPerfect, status, timeOffset, pc, value, started, results>>

Next ==
  \/ \E c \in Caller :
       \/ Call(c) \/ AssumePerfect(c) \/ Store(c) \/ Check(c) \/ Return(c)
       \/ \E D \in SUBSET Server : \E R \in [D -> UsablePolls] : Calibrate(c, R)
  \/ GoStale

Spec == Init /\ [][Next]_vars

-----------------------------------------------------------------------------
(* A calibration with answers has just returned to c.                      *)
Computed(c) == pc[c] = "store" /\ results # << >>

(* The offset x is not outside the range of the offsets V.                 *)
Within(x, V) == (\E y \in V : y <= x) /\ (\E y \in V : y >= x)

(* However many servers answered, a minority of the cells cannot take the  *)
(* offset out of the range of the others.  The servers M of lowest round   *)
(* trip that are a majority of the cells by themselves bound it; with the  *)
(* cells that no answer filled, which hold 0, fewer servers do: if less    *)
(* than half of the cells are filled the offset is 0, whatever they hold.  *)
MinorityCannotSteer ==
  \A c \in Caller :
    Computed(c) =>
      \E S \in Best(Answer(results)) : \A M \in SUBSET S :
        LET measured == {Answer(results)[v].Offset : v \in M}
            unfilled == Considered - Cardinality(S)
        IN /\ Cardinality(M) > Considered \div 2 => Within(value[c], measured)
           /\ Cardinality(M) + unfilled > Considered \div 2 =>
                Within(value[c], measured \cup {0})

(* Slow servers do not count: an offset other than 0 was measured by a     *)
(* server that fewer than Considered others beat on round trip.            *)
OffsetFromFastServers ==
  \A c \in Caller :
    Computed(c) /\ value[c] # 0 =>
      \E v \in DOMAIN results :
        /\ Answer(results)[v].Offset = value[c]
        /\ Cardinality({u \in DOMAIN results : Answer(results)[u].RTT < Answer(results)[v].RTT})
             < Considered

(* A server counts only if both its polls were answered and agree on the   *)
(* direction of the offset: otherwise the cell that is never polled, or    *)
(* the one that failed, is the middle one and its 0 discards the server.   *)
UsedServersAgree ==
  \A v \in DOMAIN results :
    LET a == results[v][1]
        b == results[v][2]
    IN a # Failed /\ b # Failed /\ a.Offset * b.Offset > 0

(* Callers overwrite each other's offset before it is tested, and test     *)
(* another's; still an offset over the limit does not survive: while it is *)
(* in force somebody is about to end the program for it.                   *)
OutOfSyncCaught ==
  status = "up" /\ timeOffset > MaxOffset => \E c \in Caller : pc[c] = "check"

(* However many callers calibrate at once, between their calibrations the  *)
(* offset in force is one computed since the last went stale; lastSync is  *)
(* ahead of it only while somebody is about to store.                      *)
RecentMeansCalibrated ==
  lastSync = "recent" => calibrated = "current" \/ \E c \in Caller : pc[c] = "store"

(* No timestamp is taken with the offset of zero that was never            *)
(* calibrated: main's call comes before there is anyone who could see      *)
(* lastSync set and the offset not yet stored.                             *)
StampsAreCalibrated ==
  \A c \in Caller : pc[c] = "return" => calibrated # "never"
=============================================================================
