# sping: a TLA+ verification project

sping measures latency and loss between machines by sending one UDP ping per
second in each direction. This directory holds TLA+ modules translated from its
source (`src/`), configurations that model-check them with TLC, and proofs
checked by TLAPS. `PROJECT.json` lists components, runs, mutants, the map from
definitions to source lines, findings, hazards and theorems.

## 1. The system

| Component | State | Operations | Talks to |
|---|---|---|---|
| Session table and collector (`main.go`) | `sessionMap`, struct `session` | lookups, `sessionGC` every minute | everything below, partly without the lock |
| TCP invitation (`sessionhandle.go`) | a dialer per peer; a connection at the other end | `startSession`, `handleTCPconnection` | stores sessions, starts handshakers |
| UDP handshake | `UDPActivated`, `ReplyTo`, `PeerAddress`, channel `boop` | `sendUDPHandshake`, `waitForHandshake`, `handleInboundHandshake` | UDP socket, starts senders |
| Ping senders and routing (`main.go`) | `LastRX`, `LastRXPing` | `sendPackets`, `listenAndRoute`, `handlePacket` | UDP socket, ring |
| Ring of acknowledgements | `LastAcks`, `nextAckSlot` | `getNextAckSlot` and the stores of `handlePacket` | the peer, in every ping |
| Loss and latency statistics | none | `getLoss`, `getStats` | rings, Prometheus |
| Clock calibration (`ntp.go`, `timecorrection.go`) | `timeOffset`, `lastSync` | `getTimeOffset`, `calibrateAgainstApple`, `ntpTriplePoll` | NTP servers; every timestamp |
| Prometheus collector (`prom.go`) | gauges | `measure` | table, statistics |
| Tickers, PPS (`main.go`, `pps*.go`) | a list of sessions; `pulse` channels (never made) | `ppsClockTicker`, `sysClockTicker` | table, under the lock |
| ICMP timestamp pinger | one socket per host | `Ping`, `main` | ICMP codec |
| ICMP multipart messages (`icmp/`) | none | `Marshal`, `parse...` of bodies with extensions | objects |
| ICMP extension objects (`icmp/`) | none | label stacks, interface information and identification in octets | the buffer of a message |
| ICMP messages, plain bodies (`icmp/`) | none | `Message.Marshal`, `ParseMessage`, echoes, packet too big, raw | multipart bodies |
| ICMP endpoint (`icmp/`) | a socket | system calls | |

What is hard: every UDP packet is handled by a goroutine of its own and none of
them locks a session; the notification of a finished handshake can be lost; a
session object outlives its entry in the table; packets are lost, duplicated
and reordered; either process restarts; ids, indices and offsets wrap. What
makes the parts correct is listed per run below; PROJECT.json has the hazards
line by line.

## 2. Modules and how they correspond to the code

**Session.** Any number of processes, each with its table, socket, dialers
(`startSession`), per-session handshaker and senders, and a pool of concurrent
`handleInboundHandshake` calls; one network of UDP packets. A session object is
named by its process and id and keeps its fields after it left the table. One
action per stretch of code between two points where another goroutine matters:
- `Invite`, `SpawnWaiter` (or `SpawnOnNil`), `InviteFails`, `AcceptInvite`,
  `SpawnHandshaker`, `Redial`: the TCP side. Storing the session and the second,
  unlocked lookup for the `go` statement are separate steps.
- `HandshakerStart` (or `StartWithoutSocket`), `TickWake`, `HandshakerRound`,
  `HandshakerTimeout`, `StartSending`: the two handshaker loops. Being in the
  `select` and being in a round are different states, because a boop arrives
  only in the first.
- `RecvHandshake`, `Latch`, `Answer`, `Activate`, `Adopt`, `Notify`:
  `handleInboundHandshake`, with its two separate reads of `UDPActivated`, and
  `ReplyTo`, the flag, `PeerAddress`, boop and echo stored or sent one after the
  other, as no lock keeps other goroutines from seeing what is between them.
- `SendPing`, `StopSending`, `RecvPing`, `Drop`, `sessionGC`, `Tick`, `ListenUDP`,
  `Restart`.

Abstractions: times are ages in ticks capped by `Old`, above every limit (the
zero `time.Time` is `Old`). `Drop` covers loss, the rate limiter and every
early return that changes nothing. The 32-bit random ids never collide with one
in use (`InUse`). `Stop` leaves the fields of a dead process's sessions as they
were: no action reads them, and for a property "activated" then means that the
process confirmed the session before it ended. A reply read in part is another unused id. `RecvPing` is one
step: what its stores do to the ring is AckRing's subject, what ids and times
come of it PingExchange's. Accesses to the table are atomic; the lock is
Metrics' subject.

**AckRing / AckLog.** `ses.LastAcks[ses.getNextAckSlot()] = pI` as the loads for
the test, for the increment and for the return, the store and the array store it
is, for any number of goroutines, with what a compiler makes of a racing second
load as a choice; then `LastRX` and `LastRXPing`, each a store of its own. Where
goroutines meet, the increment may carry the index past the end of the array,
and the array store is then a panic (`Panic`), which ends the process. A struct
that two goroutines store at a time may hold words of both (`Torn`). AckLog is
what the ring promises: the log of the last pings, unspecified only while
goroutines race. `ImplementsLog` is the refinement.

**PingIds.** What the next two share: the id of a second, how far `getLoss`
reaches back and which ids it looks for.

**LossScan.** `getLoss`: the loop in byte arithmetic, over rings kept as the sets
of their ids.

**PingExchange.** Both ends of one session: each sends a ping at every second of
its corrected clock, with the ring of what it got; the ids, and the search for
them, go by each end's uncorrected clock. Such a clock is some seconds ahead of
the corrected one or behind, and where the offset is not in full seconds it turns
to its next second in the midst of a corrected one (`TurnClock`), before or after
the ping is sent and between any two scrapes. The corrected clocks agree, and the
offsets stay as they are (a calibration every half hour may change them; a
behaviour here is shorter). The network loses, delays, repeats and reorders; `getStats`
and `getLoss` are state functions, as they may be asked at any moment. It puts
AckLog's ring (shown to be what AckRing implements) and LossScan's set of ids
(shown there to be what the loop visits) together. History variables say which
pings really arrived and how long nothing has gone wrong.

**Metrics.** One process's table under `sessionLock`: the users of the lock
(`startSession`, `handleTCPconnection`, `sessionGC`, the tickers), the handlers
that change sessions without it, and a scrape that walks the table one read at
a time. Every ping has a goroutine of its own (`handlers`), and several of one
session may be between any two of their stores; of two that store `LastRXPing` at
a time the later may leave fields of the earlier. The flag, the address and the
echo of a handshake are steps of their own, the flag first. That the peer of a
session stored without address sends no ping before it got the echo
(`peerSends`) is taken from Session, where `MeasuredBothWays` shows it. A latency
is described by the pings it was computed from, so that a mixture of two is seen;
a struct that is copied while it is written may have fields of both.

**ClockOffset.** `getTimeOffset` for any number of goroutines, of which one is
`main`, whose call comes before the others are started. Each may find the
offset stale and calibrate: the polls of all servers in any order, answers that
fail or come too late, the choice by round trip, the median of the cells (those
nobody filled are zero), `lastSync`, then the store, the limit and the second
read of `timeOffset` as steps of their own.

**IcmpObjects.** Label stacks, `InterfaceInfo`, `InterfaceIdent` and raw extensions
as octets, and their parsers over any octets. An octet that `Marshal` does not
write is marked: the buffer is shared, and a name longer than its field runs on
into the objects behind (`Spill`).

**IcmpMultipart.** Destination unreachable, time exceeded, parameter problem and
extended echo request bodies as positions in octets: padded datagram, length
attribute (a byte), extension header with its checksum, objects; and the bodies
without extensions. Messages are marshalled, cut short or written by another
implementation, then parsed by the parser `ParseMessage` chooses. The fixed
fields are in the four leading octets, where a length attribute would be. The
sum a checksum is made of is any of a set (`PacketSum`: what the halves of a
packet can add up to). `Sayable` and `Expressible` are what the format can say, the
condition of `RoundTrip`. A datagram may have octets that read as an extension
header, at 128 or at any octet behind (`Look`): each look-alike has its place,
the objects that the octets behind it read as, and the ends of the message with
which its checksum does not fit. `parseExtensions` takes one where the length
attribute or the compatibility rule leads it there and finds its objects
(`Found`), in a whole message as in one whose real header was cut off.
`NoOverread` is about the indices of `parseExtensions`; the object parsers fail as
a whole where their tests fail, and their indices are not modelled one by one.

**TimestampPinger.** The list of hosts, a deadline per host, replies that come
late, ICMP messages of other programs (a raw socket gets them all), a clock
that passes midnight. Times are kept in the width of their field (`Word`), and a
body too short for its fields is refused. The hosts' clocks agree exactly.

The `MC...` modules give constants their values. Operators introduced as
"Mutant" are deliberate errors, each tried in place of the definition below it
to see that a property notices.

## 3. Runs

Passing:

| Run | Instance | Shows |
|---|---|---|
| `session_race` | 1 id, 2 handlers (`AtMostTwoHandlers`), 1 restart, 2 packets in flight, ages to 2 | `SenderHasPeer`, `OneSenderPerSession`, `UnconfirmedNeverMeasured`: handshake packets racing through two handlers give one sender with a peer |
| `session_redial` | 2 ids, 1 handler, 1 packet in flight, 3 session objects with goroutines (`AtMostThreeRunning`) | `MeasuredBothWays`, `EndsArePaired`: a new session and the remains of the last never mix |
| `session_live` | `FairSpec`, 1 id | `DialerRecovers`, `OrphanSenderStops` |
| `ackring` | 2 goroutines, 3 slots, 6 pings | `StrayIndexIsFatal`, `RingHeals`, `LastPingIsTip`, `RingIsLatest`, refinement `ImplementsLog`: a race may end in a panic; after one that does not the ring is right again for the pings handled alone, and outside the races it is the log of the last pings |
| `loss` | the real 256 and 32, all 255 seconds, rings at both ends of the cycle, sparse ones, one that is not full | `SearchesLastSeconds`, `CountsAreExact`, `Terminates` |
| `exchange` | cycle of 5 ids, 3 slots, 7 seconds, packets up to 2 seconds late, 3 faults, clocks exact, a second apart either way, or a fraction behind at either end | `LossNotHidden`, `LossNotInvented`, `QuietLinkShowsOnlySkew`, `LatencyRecovers`: which reported losses are losses, and how soon a link that recovered looks like it |
| `clock` | 2 callers, 4 servers, 3 considered, 11 pairs of polls | `MinorityCannotSteer`, `OffsetFromFastServers`, `UsedServersAgree` for every calibration; `OutOfSyncCaught`, `RecentMeansCalibrated`, `StampsAreCalibrated` across callers |
| `metrics` | 2 sessions, 1 host, 2 pings, 2 goroutines each | `CalmScrapeIsExact`, `NilHostIsZero`, `ScrapeAnswered` |
| `icmp_multipart` | lengths on both sides of 128, of each alignment, of 1020 and of 2040; 19 lists of extensions, 11 of foreign objects; look-alikes with and without objects; 6 values of the fields | `RoundTrip`, with the contents of every object; `NoOverread`, `CutInventsNothing`, `LegacyUnderstood` |
| `pinger_reports` | 2 hosts, 1 stray message, day of 5 ticks | `EveryHostReported`, `ExactWithinADay` |

Each component but the ring and the loop of `getLoss`, whose indices
`StrayIndexIsFatal` and `SearchesLastSeconds` pin down, also has its `TypeOK` in
one of them.

Runs that end in a violation, each a disagreement between the code and what a
comment, message or help text says of it (quoted in PROJECT.json, findings):

| Run | What TLC shows |
|---|---|
| `session_collected` | the collector takes a new session between unlock and second lookup: nil dereference |
| `session_boop` | the boop is lost while the handshaker is in its round: it never ends and no sender starts |

Also in the models, as actions or as limits of a property, without a run of
their own:
- `sendUDPHandshake` dereferences the socket that another goroutine binds:
  `StartWithoutSocket` (`sessionhandle.go:104`).
- The collector's 20 seconds of grace for a handshake are never reached, since
  the zero `LastRX` is older than a minute: `UnconfirmedNeverMeasured` with `Dead`
  (`main.go:124`).
- `-clock-is-perfect`, whose text says it enables calibration, skips it:
  `AssumePerfect` (`ntp.go:119`).
- One failed poll discards a server although `failed > 1` is tested:
  `UsedServersAgree` (`ntp.go:130`).
- Losing everything reads 31 or 30 of 32, since the scan is shorter than the
  total: `Reach` (`main.go:379`).
- A clock that is ahead is never too far out of sync, only one that is behind:
  `OutOfSyncCaught` (`timecorrection.go:15`).
- A caller may use an offset beyond the limit in the moment before the caller
  that stored it ends the process: the condition of `OutOfSyncCaught`.
- Two system clocks a second apart make one loss where there is none, in one
  direction, for ever. One a fraction of a second behind does so too: the ping
  sent at a corrected second carries the id of the system second that is about to
  end, and a scrape after its turn looks for it while the peer's last ring cannot
  have it. A ping sent just after the turn, where those before were sent just
  before it, leaves a second without ping. These are the limits in
  `LossNotInvented` and `QuietLinkShowsOnlySkew` (`main.go:182`, `:192`, `:379`). When most pings are lost, or the clocks are a cycle of
  ids apart, an id that came round again
  hides a loss: the condition of `LossNotHidden` (`main.go:192`).
- `getNextAckSlot` tests one load of `nextAckSlot` and increments another: of two
  goroutines, one may test 30, the other store 31, the first load 31 and store
  32, and `LastAcks[32]` panics: `LoadSlot`, `Panic`, the limit in
  `StrayIndexIsFatal` (`main.go:168`).
- Two goroutines may leave `LastRX` of one ping with `LastRXPing` of another until
  the next ping: the conditions of `LastPingIsTip` and `CalmScrapeIsExact`
  (`main.go:290`).
- Sessions that wait for their handshake write zeros for the host `<nil>`;
  gauges of sessions that are gone stay; of two sessions with one host either may
  win: `NilHostIsZero`, `CalmScrapeIsExact`. The help of `splitping_loss` says
  per cent, the gauge is a fraction (`prom.go:100`).
- `validExtensions` accepts two InterfaceIdent objects (`icmp/extension.go:142`).
- A name of more than 63 octets runs into the padding of the next object, and an
  InterfaceInfo whose Type is not that of its contents is read as something
  else: `Spill` and the limits in `Sayable` (`icmp/interface.go:164`, `:89`).
- A name that begins or ends with a zero octet loses it to `strings.Trim`, and an
  index or an MTU of more than 32 bits is cut: the limits in `Sayable`
  (`icmp/interface.go:178`, `:110`).
- An ICMPv6 ParamProb loses its extensions, and a datagram above 1020 or 2040
  octets makes the length attribute wrap: the limits in `Expressible`.
- A message whose real extension header is lost may yield extensions nobody sent,
  if its original datagram has octets at 128 that look like a header:
  the second case of `CutInventsNothing` (`icmp/extension.go:65`).
- The pinger takes any reply as the current host's, subtracts times of day across
  midnight, and panics on an echo reply: `ReadReply`, the condition of
  `ExactWithinADay`, `ReadEcho`.

**Bounds.** Two processes are all that ever share a session id. Two handlers are
enough for a race on one session, since a handler depends on the others only
through the flag and the handshaker's state; `AtMostTwoHandlers` therefore counts
those of both processes together, and `AtMostThreeRunning` lets the two ends of a
session and one end of the other run. The search stops at states beyond them;
the theorems cover any number. Two
packets in flight let a handshake, its duplicate and an echo overtake each
other; packets beyond the bound are lost, which the network may do anyway.
One restart lets an old session meet a new process, two ids let an old session
meet a new one. Ages only matter against limits, so the cap is one above the
largest. `loss` uses the program's numbers. Three slots and six pings take the
ring through two wrap-arounds. In `exchange` a full ring is shorter than the
cycle of ids, as in the program, and the seconds go once round the cycle, so
that an id can come back while an old one of it is in a ring; three faults empty
a ring's worth of pings; a packet is late by up to two seconds, so that it can
arrive after a good second. `FewOddities` bounds faults, pings sent after a turn
and clocks that turn in the midst of a second together, since each multiplies the
interleavings. Two sessions are enough for a host with several and for the order of
the walk; two pings for a struct that is half of each, for `LastRX` of one with
`LastRXPing` of the other, and for a ring that is not full. That a third ping,
handled alone, mends what two left is beyond this run and in the theorem, and in
`ackring`. In `clock` two callers overlap in every way, and the eleven pairs of
polls have every combination of sign, order, size beyond the limit and failure
that the code tells apart; a median of three cells needs three servers, the
fourth is the one that comes too late. The ICMP sums are one without and one
with a second carry. The pinger's delays exceed its
deadline by one tick, so a reply can be late.

**Deadlock** is allowed where a computation ends (getLoss, the codec, a bounded
number of pings or seconds, a calibration that was fatal). The session, metrics
and pinger models never stop.

**Fairness.** `session_live`: time passes; every goroutine that can run does (the
Go scheduler), and so do tickers and the collector's loop. Nothing is assumed of
the network, of dials or of restarts. LossScan: the loop runs.
Metrics: the scrape runs, and the lock, which its other users hold for one step,
is given to it however often they are faster (strong fairness: a `sync.Mutex` goes
over to starvation mode and hands itself to the first waiter after a
millisecond); nothing is assumed of the handlers.
TimestampPinger: the program runs and the clock advances; replies may all be
lost.

**Symmetry** (ids and handlers, servers) is used in safety runs only.

## 4. Proofs

Proved for every value of the constants under the named assumptions of the
modules: peerings join different processes, null values are not real ones,
limits are below the cap of ages, a ring has a slot (two for the loss window, and
fewer than there are ids), there are finitely many NTP servers and an odd number
of them is considered, time starts after one cycle of ids (255 seconds after
1970), the values tried in IcmpMultipart are of their types, and the halves of a
list of extensions add up to what a packet can hold. TLC evaluates them in every
run.

Every safety property of a passing run is a theorem. None of
them is inductive by itself; each module states the invariant that is, proves it
with one lemma or step per action and one step per conjunct the action can
disturb, and derives the properties from it.

**SessionProofs** (`TypeOK`, `SenderHasPeer`, `OneSenderPerSession`,
`UnconfirmedNeverMeasured`; any number of processes, peerings, ids, handlers,
packets and restarts). `IInv` adds:
- `SenderIsLast`: only a handshaker in its `select` takes a boop; having taken it,
  it starts the one sender as its last act. A session with a sender therefore
  has a handshaker that is done, and a second boop finds no reader.
- `HandlerHolds`, `HandlerStored`, `MakerKnowsPeer`: the addresses handlers and
  clients use are real, and a handler past its stores has made them.
- `DialerHolds`, `InviteIsNew`, `SpawnHeld`: an id a dialer is waiting for has no
  session, sender or handler at its own end, so that storing the session does
  not disturb one.
- `UnconfirmedSilent`: a session object that is not activated has the zero
  `LastRX`, listed or not.

Its second part has `MeasuredBothWays` and `EndsArePaired`, with the flag and the
addresses stored apart: who answers a handshake has stored `ReplyTo` before the
flag, and the peer's first ping follows the echo, which follows `PeerAddress`. Both relate two
processes, so the invariant `PairInv` ties everything that carries an id to one
ordered pair of processes: who dialed and who was dialed, every session object
that is still in use (listed, with a handshaker, a sender or a handler), every
packet in flight and every dialer that holds the id (`AllPaired`). `AskedIsQuiet`
covers the time between the invitation and the dialer's own store, in which the
other end exists and must not have been confirmed; `PingsConfirmed` says a ping
in flight comes from an activated session, which is what `RecvPing` needs, and
`PeersKnown` that whoever sends, or is sent, a ping has its `PeerAddress`.

**AckRingProofs** (`StrayIndexIsFatal`, `RingHeals`, `LastPingIsTip`, `RingIsLatest`, and the
refinement `ImplementsLog`; any ring length, any number of goroutines). `IInv`
says which goroutine, if any, is between its store and its write when nobody
else is about, and that the goroutine that carried the index past the end still
holds it (`StrayHeld`); `HInv` adds what is on its way to `LastRXPing`. `Refinement` shows
that the initial state is an empty log and that every step is a step of AckLog
or leaves the log alone, action by action: an ack written alone is the append.

**LossScanProofs** (`SearchesLastSeconds`, `CountsAreExact`; any width of the byte
and any window below it). `ScanInv` says that after some number of rounds the
loop stands at the k-th last second and has looked for the ids of all older ones
in the window; `Back` is the id of the k-th last second in byte arithmetic with
the skipped zero.

**PingExchangeProofs** (`TypeOK`, `LossNotHidden`, `LossNotInvented`,
`QuietLinkShowsOnlySkew`, `LatencyRecovers`; any size of ids and rings, any offsets
of the uncorrected clocks, turns before or after any ping, any number of faults,
packets on their way for any time). What is said of a ring is
a predicate `RingOK` of constants: its contents, the seconds its end handled, when
the end was last overtaken, the present second, the number of good seconds.
`PushRing` and `TickRing` show it kept by a store and by the passing of a second,
apart from the state machine. Its parts are:
- `Acks`: an ack is of a handled ping, under the id of its stamp: the second its
  sender's uncorrected clock showed, which `after` tells (`SentOK`, `AfterOK`);
- `Spaced`: since the end was last overtaken acks are in the order of sending, no
  two of one second, so that a full ring reaches back as far as it has slots;
- `Kept`: a handled ping is in the ring or was pushed out by later ones;
- `Runs`, `Fresh`, `Marks`, `Good`: in a run of good seconds there is one ack per
  second, and a second in which the end was overtaken cannot count as good.

`SnapOK` is what remains true of a copy of the ring while it is on its way or in
`LastRXPing`: pings handled since are newer than all of it, or the peer was
overtaken. `XInv` puts this on both ends, all packets in flight and
`LastRXPing`. The losses then come down to counting: `SameID` (two seconds less
than a cycle apart have different ids), an injection from the seconds lost into
the ids missing, and a surjection from the excusable seconds onto them. Stamps of
one end grow with the seconds but not strictly: a ping sent after the turn and
the next sent before it share one (`Stamp`), which is where the losses counted by
`SentAfter` come from.

The attempt to prove `LatencyRecovers` showed that it had held only because
packets were late by at most a second: one that is two seconds late may arrive
after a good second and take `LastRXPing` back. The property now has the same
condition as `QuietLinkShowsOnlySkew`, that neither end was overtaken in the present
second, and the run lets packets be two seconds late.

**MetricsProofs** (`TypeOK`, `NilHostIsZero`, `CalmScrapeIsExact`; any number of
sessions, hosts, pings and goroutines). `CalmWalk` is the scrape's loop invariant: while no
handler was met, every host of a session already walked has the gauges of one
of its walked sessions. `WalkUnderLock` keeps the table still under the walk,
`InHand`, `Unwelcome` and `PingFollows` say what handlers may have done to the
session in hand and to those without an address.

**ClockOffsetProofs** (`TypeOK` and the six properties of `clock`; any number of
callers, servers and considered servers). The order of the servers by round
trip and the middle of their offsets are stated as properties of sets and
shown to exist by taking least elements; that a majority of the cells, filled or
not, has members on both sides of the middle is a count of two sets.
`MainAlone` says nobody else runs until `main` has returned, `ValueFromResults`
that a value about to be stored is the median of the answers.

**TimestampPingerProofs** (`TypeOK`, `ExactWithinADay`; any list of hosts, deadline
and delays). `OnItsWay` and `ClockShows`: the message of the host at work has been
on its way as long as the pinger waited, and within its day the clock shows it.

**IcmpMultipartProofs** (`TypeOK`, `NoOverread`, `CutInventsNothing`,
`LegacyUnderstood`, `RoundTrip`; any bodies, lists of extensions of any length and
contents, objects of other implementations, losses). `IInv` says what there is to
parse and what was parsed, as functions: the wire is `WireOf` the body, that with
its end lost, or one another implementation sends, and the result is `ParseOf` the
wire. The rest is about these functions:
- `LenToStep`, `ObjectsTyped`: what the loops over the extensions compute. A
  recursive function exists (`Recursion`), is the only one with its equation, and
  grows by one member at a time.
- `FoundTyped`, `HeaderPlace`: the header found is the real one or a look-alike,
  and its objects are that one's.
- `WalkedFirst`, `NeverBehind`: the parser's loop goes through the first objects,
  as many as have a header and end within the message, whatever they say.
- `ChecksumFits`: the sum of a structure with its own checksum folds to nothing,
  by writing the sum as a multiple of 65535 and a rest.
- `HeaderBack`: the padded length is a multiple of the alignment, so that the
  length attribute is it again, and the header is found there.
- `StackBack`, `IdentBack`, `InfoBack`, `RawBack`: the octets of each kind of
  extension are parsed as that extension. `InfoPlaces` has the four attributes of
  an InterfaceInfo one behind the other, each there or not; the parser begins each
  where the one before it ended. `ObjectsBack` carries this over to a list, in
  which nothing runs into the next object (`SpillNone`).

The attempt to prove `RoundTrip` showed that it was too wide: it had held because
no name tried began or ended with a zero octet and no number had more than 32
bits. `Sayable` now says so, and the run has such names.

Where a proof needs induction over numbers it takes a least counterexample
(`NatLessThanWellFounded`, `WFMin`), since the prover cannot instantiate the
induction theorems, which have an operator as parameter.

Only model-checked: liveness (`DialerRecovers`, `OrphanSenderStops`, `Terminates`,
`EveryHostReported`, `ScrapeAnswered`), since fairness is out of the prover's
reach.

## 5. Not modelled

The PPS device, ICMP sockets, HTTP and logging: pure I/O. What Go's map does when
a read without the lock meets a write (`main.go:271`): an access to the table is
one step. `ParseIPv4Header` and `IPv6PseudoHeader`, which copy fields from and to
fixed places and which sping does not call; the checksum of a whole ICMP
message, which `ParseMessage` does not check. IPv4 addresses in 16 octets, which
the code takes for IPv4 (`attrsOf` goes by the length). The header of the slice
`PeerAddress`, several words that a scrape may read while they are written: the
address is there or not. A panic of the ring (AckRing) under a scrape.
A calibration that changes the offset of a running exchange.

## 6. Plan

What is left:
1. The sum of the halves of an extension structure computed from its octets,
   where now it is any possible sum.
2. Shorter proofs where one lemma serves several actions.
