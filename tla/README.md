# A verification project for ristrust

ristrust implements the RIST media transport (VSF TR-06) in Rust. A sender numbers and timestamps
payloads and keeps them in a history; a receiver holds what arrives in a ring for the length of a
recovery buffer, asks for what is missing, and plays out in order, each packet one buffer after
its source time. That is a deterministic state machine without I/O, `rist-core`. A tokio host,
`rist`, gives it datagrams, timers and a clock, bonds paths, sorts flows and adapts the encoder's
rate; `rist-codec` frames, encrypts and authenticates.

This directory holds TLA+ models of all three, TLC configurations that check them on small
instances, and TLAPS proofs of the properties that matter most for every value of the constants.
`PROJECT.json` lists the components, the runs, the map from each definition to the lines it
models, the findings, the hazards and the theorems.

Contents: [inventory](#1-inventory) · [modules](#2-modules) · [how the models relate to the
code](#3-how-the-models-relate-to-the-code) · [runs](#4-runs) · [fairness](#5-fairness) ·
[proofs](#6-proofs) · [findings](#7-findings) · [not modelled](#8-what-is-not-modelled) ·
[what is left](#9-what-is-left)

## 1. Inventory

Paths are relative to `src/crates/`. "Correct" says what has to hold for the component to do its
job, with the properties that say so.

### rist-core

| Component | State | Operations | Hard | Correct |
|---|---|---|---|---|
| Sequence arithmetic `rist-core/src/seq.rs` | none | add, sub, distance, circular compare, forward gap | comparisons are not transitive across half the space | used where half the space is never exceeded (`CursorWindow`) |
| Clock and RTT `clock.rs`, `rtt.rs` | the EWMA and the last raw sample | saturating arithmetic, NTP-64 conversion, observe, clamps | rounding; a negative or missing sample | never negative (`TypeOK`), the gate never under its floor (`ResendsBounded`) |
| Receiver flow `flow/receiver.rs`, `flow/mod.rs` | ring, playout cursor, `highest`, `last_found`, clock baseline, missing queue, token bucket, timer shadows, auto-scaled buffer | `feed` (anchor, re-anchor on clock wrap, framing change, flow reset, shed, accept and mark gaps), `deliver_due`, `process_nacks`, three timers, `tick`, echo responses, buffer negotiation | circular comparisons that must agree; timers mirrored in two places; retries against deadlines; bounded queue | in order, no duplicate, gaps flagged (`PlayoutSpec`), nothing late (`PlayoutOnTime`), no packet stranded and no hole forgotten (`CursorWindow`, `TimersArmed`, `HolesTracked`, `NothingLingers`), bounds (`ResourcesBounded`) |
| Sender flow `flow/sender.rs`, `flow/congestion.rs` | history ring, sequence counter, two bit-rate estimates, echo timer | push (plain, explicit sequence or time), `service_nack`, echo timer | slots reused without a check; repeated NACKs; the gate before the first RTT sample | `RetransmitFaithful`, `ResendsBounded` |
| The ARQ loop of the two | what is on the network | all of the above | loss of media, retransmissions and NACKs, jitter, duplicates; the two ends measure the round trip differently | `Complete`, `ConstantLatency`, `NothingResent`, `AllOut` |
| FEC `fec/encoder.rs`, `fec/decoder.rs` | groups under construction; windows of media and groups | clip a packet, emit row and column groups, peel, evict | wrap of the base the wire truncates, groups left incomplete, eviction, order of arrival | `FecRepairs` |

### rist (host)

| Component | State | Operations | Hard | Correct |
|---|---|---|---|---|
| Pumps `driver.rs`, `driver_main.rs`, `driver_adv.rs`, `sender.rs`, `receiver.rs` | channels, peer, timers, handles | select over socket, timers and channels; drain after every call; re-bind; close, drop | a bounded channel awaited in mid-drain; a reader that outlives its driver | `NothingDropped`, `TimeoutJustified`, `SilentPeerClosed` |
| Bonding `bonding.rs`, `driver_bonded*.rs` | paths with weight, credit, liveness; learned addresses | choose paths, expire and revive, add, remove, re-weigh | stale liveness, credit of dead paths, indices against positions | `PathsJudged`, `FairShare`, `Seamless`, `FeedbackAlive`, `DriverSurvives` |
| Reassembly and split `reassembler.rs`, `split.rs` | current run, held half | piece in, payload out | a lost piece, runs that touch, a start in mid-stream | `PayloadsWhole` |
| Multi-flow `multi.rs` | map of flows, accept channel | route, open, reclaim, close | one task, many bounded channels | `FlowsApart`, `DemuxEnds` |
| Source adaptation `adapt.rs` (and `rist-codec/src/adapt.rs`) | counters of a period, target rate | report, observe | lost and repeated reports, FEC accounting | `RateReturns`, `ProbesWhenRepaired` |
| Codecs `codec.rs`, `codec_main.rs`, `codec_adv.rs` | widening state, GRE sequence, keys | widen, encode and decode NACKs, frame and take apart | wraps with packets of both sides under way | `SameIdentity`, `NackExact`, `SameEpoch`, `AnsweredOnce`, `Understood` |
| Peers, sessions `peer.rs`, `session.rs` | learned address, last heard | learn, observe, expire | learning again after a move | `AdmissionSound`, `TimeoutJustified` |
| Configuration `config.rs`, `session.rs` | a record of settings | build, validate, derive limits | settings one by one in range and together impossible | section 6: `AcceptedFlow`, `GapsAreMarked`, `FecWindowFits` |
| Reflector, URLs, statistics, sockets | - | copy, parse, format, I/O | - | - |

### rist-codec

| Component | State | Operations | Hard | Correct |
|---|---|---|---|---|
| EAP-SRP `eap.rs`, `srp.rs` | phase, identifiers, cached reply, SRP values | messages in both roles, restart, passphrase push | repeated, late and mixed messages; what is retransmitted | `SuccessAgrees`, `AuthCompletes`, `ReauthEnds` |
| PSK and key rollover `crypto.rs` | key, nonce, count | encrypt, decrypt, rotate, announce | datagrams of another nonce or size under way; the sequence wraps | `Understood`, `KeystreamOnce` |
| DTLS `dtls/*`, `rist/src/dtls_transport.rs` | flight, transcript, keys, replay window, bridge | flights, retransmission, seal, open, relay | lost and late flights, a repeat under the new epoch, a burst that overruns the window, a worker thread that must end | `NonceOnce`, `TunnelOnce`, `HandshakeHeals`, `WorkerEnds` |
| Wire formats `rtp.rs`, `rtcp.rs`, `gre.rs`, `adv.rs`, `npd.rs`, ... | none | parse, serialise | truncated fields | inside the properties of the codecs |

### How the components interact

The host calls one function of a `Flow` at a time (`feed`, `feed_feedback`, `push_app`,
`handle_timer`), each with the current instant; nothing in the core runs by itself. The call
queues effects (packets and feedback to send, timers to set or clear, payloads to deliver) and the
host drains them before it waits again. Around that, one task per session selects over a channel
from its socket reader, one from the application and its timers. In the Main and Advanced profiles
each datagram passes the codec's keys and, before media, the gate of EAP-SRP; under DTLS a thread
per session stands between task and socket. A bonded session has one flow and several paths; a
multi-flow receiver has one socket and several sessions. So inside a flow the only interleaving is
of calls, and concurrency is that of the two ends and the network, of tasks and bounded channels
of one host, and of timers with what arrives.

## 2. Modules

| Module | Models | Composes |
|---|---|---|
| `SeqArith` | circular numbers of `2 * Half` values (`seq.rs`) | |
| `Clock` | saturating timestamps, NTP-64 conversion, RTT estimator | |
| `FlowReceiver` | the receiver half with the host's timer map | `SeqArith`, `Clock` |
| `PlayoutStream` | abstract specification: strictly increasing positions, exact discontinuity flags | refined by `FlowReceiver` |
| `FlowSender` | the sender half with its congestion windows | `SeqArith`, `Clock` |
| `ReliableStream` | abstract specification: every payload comes out, once, in order | refined by `ArqSystem` |
| `ArqSystem` | both ends and a network between them | `FlowReceiver` extended, `FlowSender` instantiated |
| `Fec` | encoder, carriage and decoder with recovery | `SeqArith` |
| `Delivery` | pairs, fragments and FEC control messages cut and put together | `SeqArith` |
| `Wire` | truncated sequences and timestamps, NACK records, EXTSEQ, restarts | |
| `Frames` | GRE sequence, nonces, keys at either end, the order of taking a datagram apart | |
| `Advanced` | extrapolated time, the upgrade of the framing, unknown control messages | |
| `Adapt` | link-quality reports and the rate controller | |
| `Pump` | handle, driver, socket reader and their channels | |
| `Bonded` | the path group and the drivers' list of paths | |
| `Multi` | demultiplexer, flows, accept channel | |
| `Eap` | both EAP-SRP state machines, as operators from a message to a reply | used by `MainAuth` |
| `MainAuth` | two Main drivers that authenticate over a network | `Eap` |
| `Replay` | the anti-replay window | used by `Dtls` |
| `Dtls` | both connections, their worker threads and the path | `Replay` |
| `Config` | the public configuration, `validate`, and the limits a session derives; no state | only proved about |
| `MCReceiver` ... `MCDtls` | the inputs and cases of TLC's instances | one module each |
| `MCData`, `MCHost`, `MCSecurity` | several parts in one run, one at work at a time (`focus`) | the MC modules |
| `FlowReceiverProofs`, `FlowSenderProofs`, `FramesProofs`, `ConfigProofs` | theorems and proofs about the module they are named for | |
| `ArqProofs` | that both ends of `ArqSystem` are the components they are made of | `FlowReceiverProofs` |
| `DataProofs` | theorems and proofs about `Wire`, `Advanced` and `Delivery` | these |
| `HostProofs` | theorems and proofs about `Pump`, `Multi` and `Bonded` | all three |
| `SecurityProofs` | theorems and proofs about `MainAuth`, `Dtls` and `Replay` | these |

Definitions commented "Slip" are plausible bugs in one definition, each with the definition's own
parameters. They are used nowhere; one put in the place of its original shows that a property
would notice (`PROJECT.json`, "mutants").

## 3. How the models relate to the code

**Names.** Variables and operators keep the names of fields and functions (`deliver_next`,
`last_found`, `FeedAccept` for the accepting path of `recv_feed`, `UnwrapRegion`, `Precompute`,
`maybe_rebind_caller` as the guards of `Rebind`, ...). Related fields are gathered in tuples or
records, so that an action names what it leaves alone.

### The flow

**One action per path of a call.** `recv_feed` is three actions, by how it ends: `FeedAnchor`
(first packet, or first of another flow), `FeedDiscard` (too late, duplicate), `FeedAccept`. Each
contains everything the call changes, baseline re-anchoring and gap marking included.

**Loops.** `deliver_due`, `process_nacks` and `service_nack` have a state of their own. A step of
the model is one iteration (`EmitDeliver`, `SkipHole`, `SkipLapped`; `NackDrop`, `NackKeep`;
`Refuse`, `Resend`). `phase` (receiver) and `todo` (sender) say that the call is running, and
until it ends no other action of that end is enabled: the call stays atomic.

**Host timers.** `wheel` is the host's map from timer to deadline, beside the core's own shadow
(`playout_armed`, `nack_armed`). A timer action is what `fire_timers` does with one due entry.
`fire_timers` fires all due entries before one drain; since handlers of different timers do not
read each other's queued effects, draining after each gives the same states.

**Time** is a natural number that `Advance` (or `Tick`) increases, and never while a timer is
overdue by `MaxLate`: 0 is a punctual host, 1 lets timers fire late and in any order.

**The network** of `ArqSystem` follows the simulation fabric of `rist-core/tests/sim`: a message
is handed over between `MinDelay` and `MaxDelay` after it was sent, in any order; up to `MaxLoss`
messages are lost and up to `MaxDup` handed over twice. As in `rist-core/tests/invariants.rs` the
first packet anchors the flow before the second is pushed, and the first transmissions of the
first and last packet arrive. Unlike those tests, NACKs and retransmissions may be lost too.

### Around the flow

**Fec** keeps the bytes of a datagram as a set of atoms, XOR as symmetric difference; a recovery is
exact when the set is the packet's own. The wire keeps `BaseSpan` values of a group's base. Media
and groups travel in order but for a bounded number of losses, delays and copies (`MaxFaults`,
which also counts packets the encoder could not take).

**Delivery** has one flow, which hands pieces over in order with gaps flagged as `PlayoutStream`
allows, and three ways of cutting; FEC control messages have no flow and come in any order.

**Wire** takes from the flow only which sequences are missing. A packet is its index in the
sender's stream; what is checked is that the two ends mean the same packet by a number that was
truncated, widened, put in a record, split over packets and widened again.

**Frames** is one direction of a session. A key is a term of passphrase, nonce and size; a region
opened with another term is garbage, and what matters is whether garbage is taken for something.
Nonces are numbered in the order in which they are drawn, since a random nonce does not repeat.

**Advanced** is the media clock: where a packet is placed in time against the one that anchored
the flow, while the timestamp wraps within a few packets.

**Pump** splits a session into handle, driver, socket reader and channels. A step is one branch of
`select!`; an awaited send on a full channel is the state `"delivering"`, in which the driver does
nothing else. A Main sender's `send_block` has a channel of its own, which the loop watches beside
`send`'s. Time is counted in keepalive intervals and passes only when no task can take a step, so
what is late is late because something waited; but a datagram may arrive when a tick is due
already, and `select!` then takes the two in either order. `quiet` counts the silence of the socket
as of the end of the last interval, which is what the tick can know.

**Bonded** keeps the driver's list of paths beside the group's, as the code does. Ages count
keepalive intervals; the wire is the network's, so `fan` records what a step transmitted.

**Eap** is written as operators: a role record and a message give a role record and replies. SRP
values are terms (`<<...>>` of the ephemerals and the password), equal only when built alike.
`MainAuth` adds the driver: gate, retransmission on the keepalive, migration, re-authentication,
callback. Datagrams arrive in order except for those the network loses, and for copies it keeps
and delivers whenever it likes.

**Dtls** sends a flight as whole messages, each record with epoch and sequence; a transcript
stands for its hash and a key for what it was derived from, so two ends agree exactly when their
transcripts do. The worker thread is its handshake state and then the relay.

**Sizes.** Sequence spaces, microseconds per second, wrap periods, identifiers, windows and channel
capacities are constants, so wraps and limits are reached within a few steps. Payloads are numbers
or model values. Statistics nothing reads, virtual ports and layouts are left out.

**History variables** record what the code forgets and properties need: `pos`, `event`,
`given_up` (receiver), `log` (sender), `fecLog`, `given` (`Delivery`), `known` and `heard`
(`Wire`), `verdict`, `spent` and `twice` (`Frames`), `unrepaired` (`Adapt`), `quiet`, `stalled`
and `got` (`Pump`), `heard` and `waits` (`Bonded`), `proven`, `admitted` and `moved` (`MainAuth`),
`sealed` (`Dtls`). No guard of the code's actions reads one.

## 4. Runs

All passing runs are exhaustive for their bounds.

| Run | Properties | States | What it shows |
|---|---|---|---|
| `receiver_arq` | `HolesTracked` `NothingLingers` | 29 k | loss, reordering and retransmission of four packets whose sequence wraps: no hole is forgotten, every packet leaves and every recovery ends |
| `receiver_restart` | `CursorWindow` `TimersArmed` `PlayoutSpec` | 1.2 M | a four-slot ring lapped by bursts, then another framing, then another SSRC |
| `receiver_edge` | `TypeOK` `ResourcesBounded` `PlayoutOnTime` | 1.2 M | the source clock wraps while the missing queue is full, the token bucket empty and the buffer being resized |
| `system_loss` | `Complete` `ConstantLatency` `AllOut` | 261 k | four packets, any two messages lost, late timers, one answer per NACK |
| `system_jitter` | `NothingResent` | 1.7 M | delays of 1 to 2, one loss, one duplicate, echo exchanges |
| `data` | `ResendsBounded` `RetransmitFaithful` `FecRepairs` `PayloadsWhole` `SameIdentity` `NackExact` `SameEpoch` `AnsweredOnce` `Understood` `KeystreamOnce` | 1.5 M | what is done to packets outside the receiving flow, in three profiles |
| `host` | `NothingDropped` `TimeoutJustified` `PathsJudged` `FairShare` `FlowsApart` `SilentPeerClosed` `Seamless` `FeedbackAlive` `DemuxEnds` `RateReturns` | 439 k | tasks and channels, bonded paths, many flows, the encoder's rate |
| `security` | `SuccessAgrees` `AdmissionSound` `NonceOnce` `TunnelOnce` `ReauthEnds` `AuthCompletes` `HandshakeHeals` `WorkerEnds` | 157 k | EAP-SRP between two drivers, the DTLS handshake and tunnel |
| `skip_clears_live`, `auth_single_loss`, `bonded_paths`, `wire_upper` | one each | - | findings, section 7 |

The last three passing runs each hold several parts that do not meet in the code. `focus`, chosen
in the initial state, names the part at work; the others rest. So the states of a run are the sum,
not the product, of its parts, and a property is checked on the part that it is about.

In the receiver's and the system's runs deadlock is checked (`Stopped` and `Finished` say where a
behaviour may end). In the others the system may really stop: a session has ended, everything has
been sent and delivered, a handshake was aborted.

### Bounds, and why they are enough

*Receiver.* The sequence space has 16 numbers and streams start two short of its end, so every run
crosses the wrap. Rings have 4 or 8 slots, so they are lapped by jumps of 3 to 9.
`MissingCounterMax = 1` fills the queue with the first gap, and a token that costs two clock steps
runs out within a pass. A retransmission takes three steps (NACK, answer, arrival) and the buffers
leave room for several.

*System.* `MaxLoss`, `MaxDup` bound the network's faults, `NumPackets` the payloads, `MaxNow` the
clock. TLC finds where completeness starts to hold. With a punctual host, a fixed delay and a
sender that answers every request, the recovery buffer must cover
`PushGap + FirstDelay + RTT + (losses - 1) * RetryInterval`; in model units 5, 7 and 9 for one,
two and three losses, and one less fails. With timers late by 1, and a sender that answers one
request per NACK, `system_loss` needs 11 for two losses, and a `max_retries` of 3: a request the
sender cuts off (`max_nacks`) costs the receiver a retry although nothing was lost. `system_jitter`
needs 9. `NothingResent` needs a reorder buffer of 2, one more than the jitter.

*Sender.* Eight sequence numbers over a history of two slots, starting one short of the wrap; a
relay that names sequences itself; NACKs of one packet, of two, and of one named twice; an echo
sample and a bogus negative one.

*FEC.* 2 x 2, ten packets from six short of the wrap of 64 numbers, a base that keeps 16 values, a
window of six: groups straddle the wrap and the window's edge, and `MaxFaults = 2` loses both
members of one group, or one packet and the group that would have repaired it.

*Delivery.* Three payloads, runs of up to `MaxFragments = 3`, any piece lost: two payloads that
touch and one after them. *Wire.* A wire sequence of 8 values, an upper half of 2 and timestamps
of 8, seven packets: both halves wrap; two packets under way are more than a quarter of the
range. *Advanced.* A timestamp of 6 values wraps at least once in seven packets.

*Frames.* A GRE sequence of 4 values and a ceiling of 3, so that the sequence wraps under one
nonce; three nonces let two rotations overlap with two datagrams under way; key sizes differ
between the ends and between sessions.

*Host.* Channels of one place are full after one item; two for the application, so that the driver
can end with items in it. Re-binding stops after 2 attempts instead of 10. Three paths of weight
0, 1 and 2, ages up to one past timeout and grace, any order of arrivals, deaths and returns. Two
keys for one flow's room, and three sessions, so that a key comes back after its flow was
reclaimed. Reports of periods of three packets, two losses and one lost or repeated report; the
rate falls to its floor and has to climb back.

*Security.* Two losses for the handshake, or one copy delivered at any time, or a move with one
loss, each with either end as the caller; 32 identifiers, starting two short of the wrap; three
retransmissions instead of 16. For DTLS three timeouts per flight, one fault beyond them, a
replay window of 2 and a bridge of 4: in one case a host sends three datagrams, so that a record or
its copy comes when it is inside the window, at its edge or beyond it; in another both ends send
one. With so small a window the datagrams of a server's host can overtake its delayed Finished and
push it out: the client's window refuses it, the server does not repeat its last flight, and the
handshake does not complete. `HandshakeHeals` therefore leaves out a server whose host has sent a
window of datagrams; in the code that takes 64 before the Finished arrives.

Each property fails within these bounds when a plausible bug is put in, so the cases they are
about do happen.

**Bounds of the environment** are guards of the environment's actions, never constraints on
states: `MaxNow`, `FeedUntil`, `MaxSent`, `NumPackets`, `MaxLoss`, `MaxDup`, `MaxMedia`,
`MaxFaults`, `DelPayloads`, `MaxPending`, `MaxStream`, `MaxFlight`, `MaxAdv`, `MaxAir`,
`MaxUnknown`, `MaxNonces`, `MaxDatagrams`, `MaxEapol`, `MaxPayloads`, `MaxControls`, `MaxPerKey`,
`MaxSessions`, `MaxPeriod`, `MaxLosses`, `MaxSpoils`, `MaxReports`, `MaxTries`, `MaxApp`,
`MaxPathFaults`, `MaxDrops`, and the losses, copies and moves of a scenario.

**Narrowed inputs.** Some inputs are kept out because the code is known not to handle them; each
is an item of section 7: gaps in an Advanced stream longer than half a wrap of its timestamp
(`PausingStream`), retransmissions during the change of framing (`UpgradeLoss`), recovery of
retransmissions in band (`InBand`), empty payloads when merging (`EmptyToo`), paths removed below
the last (`Shrinking`), Main receivers that join after a wrap (`LateMain`), DTLS without the
server's last flight (`OneLoss`), pure-SRP handshakes with a loss (`SingleLoss`). Two are facts
about the network: an Advanced packet is less than half a wrap under way, and a stream's rate is
steady until its first two packets are known.

**Not exercised by a run:** pacing in `Normal` mode (the runs use `Off` and `Aggressive`, the
theorems cover all three) and timing modes other than `Source`.

## 5. Fairness

| Specification | Assumes | Because |
|---|---|---|
| `FairSpec` (receiver) | weak fairness of the turns of `deliver_due` and `process_nacks`; strong of due timers and of time | a call in progress cannot be disabled; an arriving packet can disable a timer for a moment, and `select!` picks among ready branches at random |
| `SysFairSpec` (system) | the system takes some step when it can | a message may not be older than `MaxDelay` nor a timer later than `MaxLate`, so what is due happens before time passes |
| `PumpFairness` | weak fairness of the driver, of the reader, of time | tasks are scheduled, time passes; nothing is assumed of which branch is picked, of peer, socket and application |
| `BondFairness` | weak fairness of the keepalive tick | an interval timer |
| `MultiFairness` | weak fairness of the demultiplexer's task and of each session's; a session without demultiplexer ends | tasks are scheduled; a silent session times out. What the application does is a premise of `DemuxEnds` |
| `AdaptFairness` | media comes, periods end, the oldest report arrives | the reporting interval is a timer; losses and repeats are bounded |
| `AuthFairness` | weak fairness of receiving, ticking and elapsing together | datagrams sent in an interval arrive in it or are lost |
| `DtlsFairness` | weak fairness of each worker's steps and its read timeout | the thread runs; `recv_timeout` returns |

The safety properties use none of it.

## 6. Proofs

`tlapm` proves the theorems below for all values of the constants that satisfy the modules'
assumptions. These are facts of the configuration: sizes are positive, a ring is no larger than
half the sequence space and divides it, minima do not exceed maxima, a wire sequence is no wider than a wire
timestamp, the sets of inputs hold well-typed values. Some theorems have a premise of their own,
which says where the code stops being right: room in the GRE sequence, paths of a bonded session
that come and go at the end of the list, no packet that takes the ring slot of another, gaps within the
reach of the ring and the limits of `mark_missing`, a rate steady enough to extrapolate and no
retransmission while the framing changes, non-empty payloads from an even start when they travel as pairs, a Main receiver that
hears its sender before the first wrap, EAP identifiers that do not come round while an old frame
is kept. `AnyInput` of `ArqProofs` is no such
condition: it gives the constants that `ArqSystem` never reads, the environment of a receiver by
itself, their largest values.

| Theorem | Statement |
|---|---|
| `FlowReceiverProofs!TypeCorrect` | `Spec => []TypeOK` |
| `FlowReceiverProofs!WindowHolds` | `Spec => []CursorWindow` |
| `FlowReceiverProofs!TimersAlwaysArmed` | `Spec => []TimersArmed` |
| `FlowReceiverProofs!ResourcesHold` | `Spec => []ResourcesBounded` |
| `FlowReceiverProofs!ImplementsStream` | `Spec => PlayoutSpec`: the receiver implements `PlayoutStream` |
| `FlowReceiverProofs!PlayoutPunctual` | `Spec /\ [][Unlapped]_vars => PlayoutOnTime` |
| `FlowReceiverProofs!HolesAreTracked` | `Spec /\ [][InReach]_vars => []HolesTracked` |
| `FlowSenderProofs!TypeCorrect` | `Spec => []TypeOK` |
| `FlowSenderProofs!RetransmitsFaithful` | `Spec => []RetransmitFaithful` |
| `FlowSenderProofs!RetriesHold`, `NoStorm`, `ResendsHold` | `Spec => []RetriesBounded`, `[]StormBounded`, and both: `[]ResendsBounded` |
| `ArqProofs!ReceiverInSystem`, `SenderInSystem` | `AnyInput` implies `SysSpec => Spec` and `SysSpec => S!Spec`: the system implements either component |
| `ArqProofs!SystemReceiver` | so `SysSpec => []CursorWindow`, `[]TimersArmed`, `[]ResourcesBounded`, `PlayoutSpec` |
| `FramesProofs!KeystreamNeverReused` | `Reuse + MaxEapol <= GreMod` implies `FrameSpec => []KeystreamOnce` |
| `FramesProofs!FramesUnderstood` | `FrameSpec => []Understood` |
| `DataProofs!WireSameIdentity` | `WireSpec => []SameIdentity` |
| `DataProofs!NacksExact` | `WireSpec /\ [][SeesTheStart]_wireVars => []NackExact` |
| `DataProofs!AdvancedAnsweredOnce` | `AdvSpec => []AnsweredOnce` |
| `DataProofs!PlacedInOneEpoch` | `NoUpgradeLoss` implies `AdvSpec /\ [][Extrapolates]_advVars => []SameEpoch` |
| `DataProofs!SteadyInOneEpoch` | `NoUpgradeLoss` and `SteadyRate` imply `AdvSpec => []SameEpoch` |
| `DataProofs!DeliveryPayloadsWhole` | `EvenPairs` and `OneLap` imply `DelSpec => []PayloadsWhole` |
| `HostProofs!PumpTypeCorrect`, `PumpDropsNothing`, `PumpTimeoutJustified` | `PumpSpec => []PumpTypeOK`, `[]NothingDropped`, `[]TimeoutJustified` |
| `HostProofs!MultiFlowsApart` | `MultiSpec => []FlowsApart` |
| `HostProofs!BondPathsJudged`, `BondFairShare`, `BondSurvives`, `BondSeamless`, `BondFeedbackAlive` | `AtTheEnd` implies `BondSpec => []PathsJudged`, `[]FairShare`, `[]DriverSurvives`, `Seamless`, `FeedbackAlive` |
| `SecurityProofs!MainAdmissionSound`, `MainKeyEarned` | `AuthSpec => []AdmissionSound`, `[]KeyEarned` (a conjunct of `SuccessAgrees`) |
| `SecurityProofs!MainKeysAgree` | `AuthSpec /\ [][FreshIds]_authVars => []SuccessAgrees` |
| `SecurityProofs!ReplayOnce` | a marked sequence is never accepted again, and another one is while the window covers it |
| `SecurityProofs!TunnelNonceOnce`, `TunnelHeardOnce` | `DtlsSpec => []NonceOnce`, `[]TunnelOnce` |
| `HostProofs!ProbesOnlyRepaired` | `AdaptSpec => ProbesWhenRepaired` |
| `ConfigProofs!AcceptedFlow` | an accepted configuration gives the flow an ordered buffer, a power-of-two ring, a pass of two or more, and, if `rtt_max` is at least 3 ms, round-trip bounds in order |
| `ConfigProofs!GapsAreMarked`, `RetriesLastTheBuffer` | the limit on queued gaps is never 0 (buffers up to a day); `max_retries` round trips last for the smaller buffer |
| `ConfigProofs!FecWindowFits`, `OneWayIsQuiet` | truncated FEC bases are unambiguous; a one-way session builds nothing that answers |
| `ConfigProofs!FloorAboveCeiling`, `DtlsBesideSrp` | two configurations `validate` should refuse and accepts (items 26, 27 of section 7) |

**The receiver's window.** `CursorWindow` says that each slot holds a sequence that belongs there,
at a forward distance from the cursor no greater than that of `highest`, and that this distance
stays under half the space. The second half is what makes it inductive: all comparisons of the
code are circular, and they agree with each other exactly while every sequence in play lies within
half the space of the cursor. Each step then adds its own arithmetic: the cursor guard of
`recv_feed` keeps an accepted sequence in range, `deliver_due` moves the cursor to a sequence no
further than the nearest packet, a flow reset empties the ring. A corollary is that no slot is
ever stale, which is what makes finding 1 a bug and not a clean-up.

**Timers.** Inside a running `deliver_due` or `process_nacks` nothing is promised; the exit of the
loop arms the timer whenever something is left. The invariant ties the host's wheel to the core's
shadow in all phases. For playout, `CursorWindow` supplies that a filled slot is one the scan
finds; for NACKs, the shadow is set by whatever fills the queue (`NackShadowed`), and a flow reset,
which leaves the host's timer running, only arms more than it needs.

`PlayoutOnTime` needs more than an armed timer: `DeadlineKept` says that outside the loop the
timer is set no later than the first packet ahead is due, whichever packet that is. `deliver_due`
sets it for the first it meets, and a packet fed later that comes first brings it forward. Only a
packet that takes the slot of another breaks it (`Unlapped`, item 28 of section 7).

**Holes.** `HolesTracked` is not true of every behaviour, and `InReach` says exactly what it takes:
packets are accepted less than a ring ahead of the cursor, `mark_missing` walks the gaps they open
to the end (neither `missing_counter_max` nor its largest gap nor `no_recovery` cuts them), and the
cursor does not run half the sequence space past `last_found` while only retransmissions arrive.
TLC refutes the invariant when any of the three is dropped. What the premise leaves to prove is
the interplay of the rest: out-of-order arrivals that do not move `last_found` or move it back,
a `last_found` the cursor has passed, passes that run while the cursor moves. The invariant
(`HInv`) adds that everything buffered is less than a ring ahead, and that `last_found` is still
buffered while it is ahead: that is why a gap starts where it should, why `skip_to` never empties a
slot beyond the positions it passes, and why a skip of a whole ring cannot have a hole in it. Since
the ring size divides the sequence space (`SlotsApart`), a filled slot in reach holds the sequence
it should; so `process_nacks`, which drops an entry when its slot is filled by whatever sequence,
drops none whose packet has not come.

**Resources.** A pass takes the queue out, and gaps marked meanwhile are counted against what is
kept so far; so the bound on the whole needs the part not walked yet, which only shrinks. The
recovery buffer is clamped last, wherever it was computed.

**Implementing `PlayoutStream`.** `event` is the same variable on both sides, so the refinement
mapping is the identity; what has to be shown is that the flag computed from
`pending_discontinuity`, which a skip sets and a later delivery consumes, equals "the position is
not the next one". The invariant relates the flag to the distance between cursor and last
delivery.

**The sender.** The state forgets what it overwrites, so the invariant speaks about the history
`log`: an occupied slot lies at the index of its sequence and agrees with the record of that
sequence in payload, timestamp and count (`SlotsAgree`); a one-way sender keeps nothing. For
`StormBounded` counting is not enough: the invariant says that the *last* retransmission has paid
for all of them (`resends * MinGate <= (last_retry - first_sent) + MinGate`). The gate makes the
next one wait at least `MinGate` from there, whatever samples moved it in between, since it is
clamped from below (`GateFloor`). Windows are shown to keep the pacing rates natural numbers
although the update subtracts.

**The keystream.** A set of used sequences says nothing about the next one. The invariant measures
each backwards from the next (`Back`) and bounds that distance by what the nonce has sealed plus
the unsealed EAPOL datagrams of the session, for those are all that moves the sequence. A
sequence is met again at distance `GreMod`; `RotateDue` comes before it as long as ceiling and
unsealed datagrams together stay within the modulus. That premise is the theorem's, and is needed:
in the code the ceiling is 2^32 - 1 and the modulus 2^32, which leaves room for one
(item 15 of section 7).

**Understanding a datagram.** A datagram may be under way while either end changes its key, so
`UInv` says of each what it was sealed with, not what is current: its term is derived from the one
passphrase and from the nonce and size it names. Whatever decryptor it meets either holds the key
of that nonce and size, or derives it from the datagram, or is refused; for that the decryptor's
own key must belong to the nonce and size it holds (`DecOK`). The last conjunct of `GramOK` is
where the order of events matters: a datagram framed when both ends were ready meets a decryptor
exactly if it is sealed, however late it comes, because a receiver that has become ready never
goes back.

**Identity on the wire.** Sequences are truncated to `WireMod` and timestamps to `TickMod`, and
both are widened against the last packet decoded. `Aligned` says that the numbers of every packet
the receiver has met lie as far from the reference's as the packet's index does; `Anchored` ties
the reference to a packet. The step is a fact of remainders (`NearestIs`): less than half the
range away, the nearest number with the right low part is the one that was meant. Re-ordering
within half of the sequence's range is then within half of the timestamp's, which is where
`WireMod <= TickMod` is used (16 and 32 bits in the code).

**Payloads.** The pieces the flow still holds are the end of one line in which each follows the
one before it (`InLine`), so what came through lies before them and is given in order. The merger
and the reassembler hold the place where the line was cut last: unless a gap is flagged, the first
piece in line is the one behind the half that is held (`Halves`) or behind the open run
(`Fragments`). Only the last conjunct of either gives the property its second half, that a payload
which came through whole is also delivered whole: a later piece finds what came before it. Control
fragments come in any order and more than once, and only their sequence tells whether one belongs
to the open run. `Control` therefore numbers all pieces ever cut (`Offsets`), and the next sequence
is the next piece as long as the numbers do not come round (`OneLap`, `NextPiece`). `EvenPairs`
is where halves stop being told apart: an empty payload travels as one half (`EmptyToo`, item 10
of section 7).

**Answers.** Each answer under way was counted when it was sent, and hearing one raises none.

**A session's channels.** `Conveyed` strings together what the application has taken, the channel,
the core's events and what is still held, and says that the result is 1, 2, ..., `fed`: every
step of the drain moves an element between neighbours. `Flushed` is the same of the way out, and
says which ways of ending leave something behind. For `TimeoutJustified` the driver's view of
silence must lag behind the socket's only when something waits: `Punctual` compares `peer.silent`
and `quiet` whenever no datagram is pending, which is true before every interval since time passes
only when no task can take a step.

**Two ends and a network.** The theorems about `FlowReceiver` and `FlowSender` hold for any peer,
and the peer of `ArqSystem` is a particular one. `EndsStep` goes through the actions of the system:
each is a step of one end and leaves the other alone, or touches the network only. For this the
network must hold only what an end accepts (`Carried`), which rests on either end's types: a
retransmission takes its timestamp from the history (`SenderTyped`), a NACK its sequences from the
missing queue. The theorems of `FlowReceiverProofs` then apply as they stand (`SystemReceiver`).
`tlapm` cannot use a theorem through an `INSTANCE`, so for the sender the step stops at `S!Spec`;
the theorems of `FlowSenderProofs` are about that formula.

**Extrapolated times.** Every time `adv_source_micros` finds is the true one less a constant, the
codec's zero, which the first packet fixes at a whole number of wraps (`ClockTrue`). So a
timestamp widened at the extrapolated reference is right as long as that reference is less than
half a wrap off (`TicksTrue`), and `Extrapolates` asks just this of the average rate since the
anchor, for the packets under way. At a steady rate the average is the rate itself whatever was
lost, so `SteadyInOneEpoch` needs no more than the model's network (`InTime`). A stream that pauses
refutes the property, as does a retransmission across a change of framing, which `NoUpgradeLoss`
excludes (items 12 and 13 of section 7). What is left is the clamp of a time before the codec's
zero, which only a fresh packet can have, and by less than half a wrap (`ZeroNear`): hence the
margin in `SameEpoch`.

**Flows of one socket.** A datagram is fed in two steps, and flows end between them. `MultiInv`
therefore orders the whole line of a key: what its sessions were given, oldest session first, the
datagram in hand, the socket's buffer, and what its peer has yet to send. `Mapped` says that the
map names the newest session of each key, which is what keeps a re-opened key behind its
predecessor.

**Bonded paths.** `PathOK` ties the driver's path, the group's and the history of the same index:
one position, one age, and a credit within the weight. With it `all_expired`, which asks the
driver's list, and `select_weighted`, which asks the group's, speak of the same silence.
`AtTheEnd` is the condition that `PathsJudged` has in its comment: the runtime commands add and
remove only the path behind the ones the session started with. It is needed, as run `bonded_paths`
shows; the cases of run `host` satisfy it and `Shrinking` does not. Election needs that a first
path exists however many there are: `FirstExists` proves it for any strict total order on a
non-empty finite set, from the well-foundedness of the subset ordering, and `best_weighted` and
`select_nack_path` are shown to be such orders (`RichestIn`, `WinsOrders`).
`FairShare` is inductive with `Shares`: the waits of a path and the credits left in the round
together never pass the total weight, or twice the total while the path has credit of its own. A
packet elsewhere moves one unit from the credits to the waits, so the sum stands still, and a new
round begins only when every usable path is at the end of its credit. The total is a fold of the
community modules. What it is built from is a function on the subsets of the set of paths, so the
lemmas on sums (`SumIs`, `SumOrdered`, `SumLess`) need no induction theorem with an operator
parameter: `SumsExist` finds that function by a least counterexample, `SubsetsBy` compares two.

**Trust.** `AuthInv` describes what may be on the wire: any term that the roles can build from the
password in play, in any order and multiplicity. So the network needs no counting, and losses,
copies and moves are unbounded. A role holds a session key only behind a proof, and a proof over a
key of the verifier's password can be built only by a peer that knows it (`KeyEarned`). A driver's
trust is tied to the source it was proven from; the one step that makes it move takes the proof
along (`MaybeReassociate`).

**One key.** That two successful roles hold the same key (`MainKeysAgree`) is a fact about the past:
who drew which ephemeral, and who has made a proof over which key. The roles keep the latest values
only, so the invariant `NetAgrees` says that a history fits them: sets `A`, `B` of the ephemerals
either role has drawn and `M`, `S` of the keys over which the client and the server have made a proof. In such a history
(`KeysAgree`) the server has proven one key per ephemeral, of its own as of its peer's, and no key the
client has made joins an older ephemeral of its own with a newer one of the server's than a proven key does:
both draw in order, hence of two keys that the roles succeed with, neither is older (`OneKey`).
`Fine` says what each frame that is kept anywhere (under way, to be repeated, cached as a reply, or
gone astray) may still do: it carries values of the history, and if it has the identifier of the
server's last request it belongs to that exchange. One lemma for each handler of either role shows
that its step extends the history (`Leads`), and `NetStep` puts driver and network around them. The
last part of `Fine` needs `FreshIds`: a new identifier of the server is not that of an opening frame
(identity, challenge, client key) kept from before. Identifiers are one byte and the model's network
may keep a copy for ever, so this is a premise; it can fail only for a frame that
outlives a whole round of 256.
In run `security` no identifier comes round.

**The replay window** is proved as an operator. `ReplayOnce` speaks of any window with its right
edge at or beyond all it remembers (`IsWindow`), which the empty one is and marking preserves.

**Adaptation.** `ProbesWhenRepaired` is proved and no run checks it. That a cut never raises the target is arithmetic of an integer quotient
(`QuotientBound`) over a cut that may not be negative although loss is subtracted from it
(`CutType`); that no report, lost, repeated or re-ordered, does is the invariant that each under
way is well formed.

**The configuration.** The flow modules assume facts of their constants, and `ConfigProofs` says
which configurations make them true. Its numbers are the code's own (microseconds, 64-bit products
that wrap), far beyond what TLC can represent, so they are proved only; `DefaultLimits` checks the
translation against the two values the code's comments give, 3571 and 88. An existence
theorem names its witness: `Default` with a few fields changed.

**The tunnel.** `DtlsInv` has a half for each end. As the one that seals: the records it has sealed
under epoch 1 are as many as it counts, all under sequences below that count and no two under the
same one (`SeqsApart`), and a datagram it has sealed is no longer queued. `TunnelNonceOnce` is this
half. As the one that opens: what was decrypted, and what the host may read, holds no datagram
twice nor one in both queues, and each came in a record whose sequence the window refuses by now;
`ReplayOnce` says that it always will, and `TunnelHeardOnce` follows. The two meet in `NamesRecord`:
a datagram names its record, so that a second copy of it is that record again.
Records are heard, transcripts hashed and flights emitted one element after the other, by folds of
unknown length. A fold is a choice of a function, so it is first shown to exist (`FoldsExist`, by
the least length for which it would not) and to pass through one state for each element
(`FoldPasses`); what every step preserves, `ProcessAll`, `Keyed` and the handshake preserve.

**What a NACK says.** `NackExact` compares two sets of sequences across an encoder and a decoder that
both iterate over data of unknown length. A fold over a sequence is again a function on a set that is
shown to exist (`JoinsExist`), and from it a chain with one state for each number (`PackedPacks`);
`JoinTakes` (and what follows from it, `PackedTold`) says that joining a number to the records of any
of the five packings, ranges and bitmasks of either width and groups of one upper half, adds just
that number to what the reader will find. Cutting the records into packets loses none (`PacketsHold`),
and neither does stringing together the groups' packets (`FlattenHolds`). Behind the encoder the argument is
arithmetic: the receiver's number and the sender's have one low half (`NumberIs`), and the sender's
is the greatest with that low half at or below its position while it is less than a wrap behind
(`AtMostFound`, `YoungFound`). So a packet without EXTSEQ needs the low halves only, and those of the
Simple profile agree always. With EXTSEQ the receiver's whole number is taken at its word. In the Main
profile it is right from the first packet on, or never: hence `SeesTheStart`, and run `wire_upper`
shows what happens without it. `NackInv` adds that every compound under way was made from numbers
of this kind (`AskedOK`); later packets do not change that. The network is the model's: no packet is
late by half the short range (`InReach` of `Wire`), no NACK by a whole one (`Young`).

**Model-checked only.** Liveness and leads-to properties, which are beyond the prover:
`NothingLingers`, `AllOut`, `SilentPeerClosed`, `DemuxEnds`, `RateReturns`, `ReauthEnds`,
`AuthCompletes`, `HandshakeHeals`, `WorkerEnds`. What is computed by iteration over data,
where a step preserves nothing short of the result: `FecRepairs` (peeling).
The timed properties of `ArqSystem` (`ConstantLatency`, `NothingResent`), with
`Complete`, are not proved so far.

## 7. Findings

Each of the first four has a run of its own; TLC prints the behaviour.

1. `skip_clears_live` - `skip_to` empties every filled slot whose index it passes, whatever
   sequence it holds. When packets are spread over more than one ring span it discards packets
   still ahead of the cursor. Its doc says it "clears stale slots passed over".
2. `auth_single_loss` - `handle_eap` stores every reply as the message to repeat. In pure-SRP mode
   the client's closing SUCCESS can be lost while the passphrase push behind it arrives; the
   server's acknowledgement of the push overwrites what it should have repeated, and it never
   leaves the handshake.
3. `bonded_paths` - the driver uses the group's path indices as positions in its own list. After
   `remove_path` below the last path, or `add_path` with a gap, an index lies past the end and the
   driver's task panics on the next packet.
4. `wire_upper` - a Main receiver fills the upper half of an EXTSEQ packet from its own count of
   wraps. If it joined after the sender's first wrap, or outlives a restart, its requests name
   sequences the sender never used, and retransmission ends after the first wrap it sees.

Others were met while modelling. Those with a name in `code font` are stated as a formula of the
module, or as a set of inputs the runs leave out; TLC finds each one violated.

*Flow.*

5. `TailRedetected` (`FlowReceiver`) - when the missing queue is full, `mark_missing` stops walking
   a gap and `recv_feed` then moves `last_found` past the rest. The comment says "the unmarked tail
   is re-detected on the next packet"; it never is.
6. `OnlyMissingQueued` (`FlowReceiver`) - out-of-order is decided by source time, strictly. Two
   packets of one source time that arrive swapped move `last_found` backwards, and the next packet
   queues and counts as missing a sequence that has arrived.
7. `ShrinkLimited` (`FlowReceiver`) - the clamp to the peer's advertised buffer follows the rate
   limit, so one recalculation may shrink the buffer by any amount.
8. `AutoSeqFresh` (`FlowSender`) - an explicit sequence below the counter rewinds it. The next
   automatic payload takes a sequence already sent, and still retained, for another payload.

*Data.*

9. `InBand` (`Fec`) - an Advanced sender protects whole datagrams but retransmits with the R bit
   set. A group that takes in a retransmission's copy yields a datagram one bit away from the one
   lost, and `RecoversExact` fails.
10. `EmptyToo` (`Delivery`) - an empty payload travels as one half, which `Merger` takes for the
    first half of the next payload: `NeverSpliced` fails.
11. `widen_ticks` clamps a time before zero to zero, so early packets of a stream joined just after
    a wrap of the timestamp share one time.
12. `PausingStream` (`Advanced`) - after a pause of half a wrap (32 ms) the extrapolated time is
    ambiguous, and a packet may be placed 65 ms from where it belongs.
13. `UpgradeLoss` (`Advanced`) - around the change from Main to Advanced framing a retransmission
    framed for the other clock than the flow follows is placed wrongly, though receiver.rs:450 says
    "a gap open at the switch still heals via ARQ"; and a retransmission that arrives before the
    flow starts already anchors the codec's clock.
14. Toggling null-packet deletion changes the form of payloads whose FEC group is under
    construction.

*Keys.*

15. Unsealed EAPOL datagrams advance the GRE sequence but not the count `rotate_due` looks at. The
    ceiling leaves room for exactly one; with two in a session that seals 2^32 - 1 datagrams under
    one nonce a sequence would come twice. The theorem's premise says how much room is needed.
16. `generate_nonce` rejects an all-zero nonce before it clears the B bit, so zero, which stands
    for "no nonce", can still be drawn (one in 2^32).

*Sessions.*

17. `StalledAbandoned` (`MainAuth`) - every inbound EAP frame resets the count of retransmissions;
    two ends that answer each other's repeats never reach `EAP_MAX_RETX`.
18. `KeysRolled` (`MainAuth`) - `has_psk` looks only at whether there is a send key, not at where
    it came from. In pure-SRP mode the receiver holds the session key as its send key after the
    first authentication, so a second one no longer re-keys it, while the sender, which never has
    a send key, installs the new key for receiving: feedback is then sealed under the old key and
    the sender expects the new one.
19. In pure-SRP mode only the receiver's feedback is encrypted. A sender that is the caller and
    moves cannot show an encrypted proof of who it is, and is not re-associated.
20. `LoopEnds`, `CloseReleases` (`Pump`) - a Main driver holds a clone of the inbound sender for
    re-binds, so its loop does not end when the reader does; `close` aborts the driver, and the
    detached reader keeps the socket until the next datagram. `drain` also returns early when the
    application has gone, leaving events; a listening sender that is closed waits for a peer before
    it looks at the closed channel; the keepalive arm may give a session up while the datagrams
    that show the peer alive are queued. `BlocksFlushed` - a closed and empty `app_in` ends the loop
    of a sender whose handle was dropped, and what `send_block` had put into its own channel is lost.
21. `LastFlightRepeated` (`Dtls`) - the server sends its last flight once and leaves the handshake;
    a client that does not get it repeats its own in vain.
22. In a bonded session media waits until every path has authenticated, so a path added under
    EAP-SRP holds it up on all of them. The session times out only when every path was heard and
    has fallen silent, so a path that was never heard keeps it open for ever.
23. `OthersFlow` (`Multi`) - one flow that nobody accepts or reads fills its channels, and the
    demultiplexer waits for it and serves no other.
24. Link-quality reports: recoveries that never reached the flow are moved off the received count,
    retransmissions count as source packets, a NACKed hole filled by FEC counts twice, and a
    duplicate report is applied twice.
25. Two ristrust ends in Advanced framing never answer each other's echo requests, and an EAP
    handshake of the Advanced driver is never retransmitted.
26. `validate` accepts `rtt_max` below 3 ms (config.rs:875 compares it with `rtt_min` only). With a
    small buffer and many retries the bounds handed to the flow stay there, and the RTT estimator,
    which raises the lower one to 3 ms (rtt.rs:21: "never below this even if the configured
    `rtt_min` is lower"), calls `i64::clamp` with its bounds the wrong way round, which panics
    (`FloorAboveCeiling`: buffer 50 ms, 100 retries, round trips of 1 to 2 ms).
27. config.rs:1054 says "DTLS and EAP-SRP authentication are mutually exclusive", but
    `validate_dtls` does not look at `srp_users`: a receiver with both is accepted and gets an
    authenticator (`DtlsBesideSrp`). Nor does it look at `one_way`, although a DTLS handshake needs
    a way back. The limit on `buffer_max` is missing too: past some centuries the product behind
    the limit on queued gaps overflows, hence the premise of `GapsAreMarked`.
28. `OvertakenPackets` (`MCReceiver`) - a packet more than a ring span ahead takes the slot of the
    first packet in line while the timer stays set for the one it replaced. If the next in line is
    due earlier (the buffer has shrunk since, or source times fall), it waits for that timer, and
    `PlayoutOnTime` fails.

## 8. What is not modelled

- Byte layouts, checks of malformed input, cryptographic algorithms, LZ4, certificates,
  fragmentation of a DTLS message: data without control state.
- URLs, statistics, logging, sockets, and the reflector, which copies one input to many sessions.
  Of the configuration, the builder's setters, callbacks, keys and multicast names.
- In `Pump`, tasks that are scheduled more than a keepalive interval late while they have work, other
  than a driver held up by its application.
- The Advanced pump's select loop: it has the shape of `Pump`'s. Flow attributes, PSK over control
  messages and most runtime setters.
- A bonded session's flow and codecs: those of the flow modules, over more paths. The network of
  `ArqSystem` has one path.
- The contents of the RTCP beat and of the statistics in it; RTT echo requests are in the flow
  modules.
- A sender that restarts under the same SSRC with a start sequence behind the playout cursor is
  shed until it has caught up (receiver.rs:523): the model has the behaviour, no property forbids
  it, since the code cannot tell it from late packets.
- A second re-anchor for one wrap of the source clock. A packet from before the wrap that arrives
  after it raises `max_source_time` again, so the re-anchor may fire twice; the decoders of all
  three profiles widen timestamps first, so the core does not see a wrap from them.
- Overflow of 64-bit microseconds (292 thousand years), of counters that only report, and of
  `i64` products in the pacing windows.

## 9. What is left

- Two paths under one flow in `ArqSystem`, with `Bonded`'s choice between them.
- Several FEC geometries in one run, and FEC beside ARQ: a recovery that races a retransmission.
