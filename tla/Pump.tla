--------------------------------- MODULE Pump ---------------------------------
(***************************************************************************)
(* One session of the Simple or Main profile as tasks and channels: the    *)
(* application's handle (sender.rs, receiver.rs), the driver's select loop *)
(* (driver.rs, driver_main.rs), its socket reader, and the bounded         *)
(* channels between them.  The peer is the environment.  Time is counted   *)
(* in keepalive intervals and passes only when no task can take a step, so *)
(* that nothing is late but by waiting for something.                      *)
(***************************************************************************)
EXTENDS Naturals, Sequences

CONSTANTS
  SessionTimeout,  \* session_timeout, in keepalive intervals
  RebindSilence,   \* max(session_timeout, 4 keepalives)
  MaxRebinds, RebindBackoffCap, \* REBIND_MAX_ATTEMPTS, REBIND_BACKOFF_CAP (both 10)
  Hold,            \* recovery buffer, in keepalive intervals
  InboundCap, DataCap, AppCap, BlockCap, \* channel capacities (256, 1024, 256, 256)
  SockCap,         \* datagrams the kernel buffers
  MaxPayloads,     \* payloads of a run
  MaxControls,     \* control datagrams of a run
  MaxBlocks,       \* blocks of a run
  Sessions         \* kinds of session to start from

ASSUME PumpAssumption ==
  /\ SessionTimeout \in Nat \ {0} /\ RebindSilence \in Nat /\ RebindSilence >= SessionTimeout
  /\ MaxRebinds \in Nat /\ RebindBackoffCap \in Nat /\ Hold \in Nat \ {0}
  /\ \A n \in {InboundCap, DataCap, AppCap, BlockCap, SockCap} : n \in Nat \ {0}
  /\ MaxPayloads \in Nat /\ MaxControls \in Nat /\ MaxBlocks \in Nat
  /\ \A s \in Sessions : s.role \in {"sender", "receiver"} /\ s.profile \in {"simple", "main"}
                         /\ s.caller \in BOOLEAN

VARIABLES
  session,   \* [role, profile, caller]
  handle,    \* "open", "closed" by close(), or "dropped"
  task,      \* "running", "delivering" (awaits data_out), "ended", "aborted"
  reason,    \* CloseFlag
  reader,    \* "reading", "parked" (awaits inbound), "exited"
  sock,      \* [queue, ok]: the kernel's buffer, and whether the socket works
  inbound, parked, appIn, dataOut,  \* channels, and what the reader holds
  blocks,    \* [queued, offered, sent]: of send_block, a channel of its own
  held,      \* packets in the flow core
  timer,     \* intervals until its deadline, or NoTimer
  events,    \* the core's undelivered events
  peer,      \* [known, seen, silent]
  tick,      \* the keepalive interval has elapsed
  rebinds,   \* [attempts, ago]: of the caller, and when the last was
  accepted, onWire, arrived, controls, fed, got,  \* history: payloads through the session
  quiet,     \* history, [age, fresh]: intervals of silence of the socket when the last
             \* one ended, and whether a datagram has reached it since
  stalled, gone   \* history: of the application and of the peer

env      == <<accepted, arrived, controls, gone>>
app      == <<handle, got>>
chan     == <<inbound, parked, appIn, dataOut>>
core     == <<held, timer, events, fed>>
pumpVars == <<session, app, task, reason, reader, sock, chan, blocks, core, peer, tick, rebinds,
              onWire, env, quiet, stalled>>

NoTimer == Hold + 1
Never   == RebindSilence + MaxRebinds * SessionTimeout + 1   \* bound of the age counters

Receiver   == session.role = "receiver"
Running    == task = "running"
Alive      == task \in {"running", "delivering"}
\* A Main driver keeps a clone of the sending half for maybe_rebind_caller.
KeepsInTx  == session.profile = "main"
\* send_block takes blocks on a Main sender only.
TakesBlocks == session.profile = "main" /\ ~Receiver
Rebinder   == session.profile = "main" /\ session.caller /\ Receiver

----------------------------------------------------------------------------
\* Silence is counted until the application holds up the driver.
Uncounted == [age |-> 0, fresh |-> FALSE]

PumpStart(s) ==
  /\ session = s
  /\ handle = "open" /\ task = "running" /\ reason = "none" /\ reader = "reading"
  /\ sock = [queue |-> <<>>, ok |-> TRUE]
  /\ inbound = <<>> /\ parked = <<>> /\ appIn = <<>> /\ dataOut = <<>>
  /\ blocks = [queued |-> 0, offered |-> 0, sent |-> 0]
  /\ held = <<>> /\ timer = NoTimer /\ events = <<>> /\ fed = 0
  /\ peer = [known |-> s.caller, seen |-> FALSE, silent |-> 0]
  /\ tick = FALSE /\ rebinds = [attempts |-> 0, ago |-> Never]
  /\ accepted = 0 /\ onWire = <<>> /\ arrived = 0 /\ controls = 0 /\ got = <<>>
  /\ quiet = Uncounted /\ stalled = FALSE /\ gone = FALSE

PumpInit == \E s \in Sessions : PumpStart(s)

----------------------------------------------------------------------------
(* The peer and the network.                                               *)
\* A datagram arrives within an interval, or when its end is due already: the
\* select loop then takes the two in either order.
Arrive ==
  /\ ~gone /\ sock.ok /\ reader # "exited" /\ Len(sock.queue) < SockCap
  /\ \/ /\ Receiver /\ arrived < MaxPayloads
        /\ sock' = [sock EXCEPT !.queue = Append(@, "media")]
        /\ arrived' = arrived + 1 /\ UNCHANGED controls
     \/ /\ controls < MaxControls
        /\ sock' = [sock EXCEPT !.queue = Append(@, "control")]
        /\ controls' = controls + 1 /\ UNCHANGED arrived
  /\ quiet' = [quiet EXCEPT !.fresh = ~stalled]
  /\ UNCHANGED <<session, blocks, app, task, reason, reader, chan, core, peer, tick, rebinds, onWire, accepted, gone, stalled>>

PeerGone ==
  /\ ~gone /\ gone' = TRUE
  /\ UNCHANGED <<session, blocks, app, task, reason, reader, sock, chan, core, peer, tick, rebinds, onWire,
                 accepted, arrived, controls, quiet, stalled>>

SocketFails ==
  /\ sock.ok /\ reader # "exited"
  /\ sock' = [queue |-> <<>>, ok |-> FALSE]
  /\ UNCHANGED <<session, blocks, app, task, reason, reader, chan, core, peer, tick, rebinds, onWire, env, quiet, stalled>>

----------------------------------------------------------------------------
(* The application.                                                        *)
Send ==
  /\ ~Receiver /\ handle = "open" /\ Alive
  /\ accepted < MaxPayloads /\ Len(appIn) < AppCap
  /\ accepted' = accepted + 1
  /\ appIn' = Append(appIn, accepted + 1)
  /\ UNCHANGED <<session, blocks, app, task, reason, reader, sock, inbound, parked, dataOut, core, peer, tick,
                 rebinds, onWire, arrived, controls, gone, quiet, stalled>>

SendBlock ==
  /\ TakesBlocks /\ handle = "open" /\ Alive
  /\ blocks.offered < MaxBlocks /\ blocks.queued < BlockCap
  /\ blocks' = [blocks EXCEPT !.queued = @ + 1, !.offered = @ + 1]
  /\ UNCHANGED <<session, app, task, reason, reader, sock, chan, core, peer, tick, rebinds, onWire, env, quiet, stalled>>

\* recv: what is buffered is read even after the driver has ended.
Recv ==
  /\ Receiver /\ handle = "open" /\ dataOut # <<>>
  /\ got' = Append(got, Head(dataOut)) /\ dataOut' = Tail(dataOut)
  /\ UNCHANGED <<session, blocks, handle, task, reason, reader, sock, inbound, parked, appIn, core, peer, tick,
                 rebinds, onWire, env, quiet, stalled>>

\* What block_in still holds goes with the driver.
BlocksDropped == blocks' = [blocks EXCEPT !.queued = 0]

\* close drops the channel and aborts the driver: its locals, the JoinHandle of
\* the reader among them, are dropped where it stands.
CloseHandle ==
  /\ handle = "open"
  /\ handle' = "closed"
  /\ task' = IF Alive THEN "aborted" ELSE task
  /\ appIn' = <<>> /\ dataOut' = <<>> /\ inbound' = <<>> /\ BlocksDropped
  /\ UNCHANGED <<session, got, reason, reader, sock, parked, core, peer, tick, rebinds, onWire, env, quiet, stalled>>

DropHandle ==
  /\ handle = "open"
  /\ handle' = "dropped" /\ dataOut' = <<>>
  /\ UNCHANGED <<session, blocks, got, task, reason, reader, sock, inbound, parked, appIn, core, peer, tick,
                 rebinds, onWire, env, quiet, stalled>>

----------------------------------------------------------------------------
(* The socket reader, a task of its own.                                   *)
ReaderReads ==
  /\ reader = "reading" /\ sock.queue # <<>>
  /\ IF ~Alive THEN reader' = "exited" /\ UNCHANGED <<inbound, parked>>
     ELSE IF Len(inbound) < InboundCap
       THEN inbound' = Append(inbound, Head(sock.queue)) /\ UNCHANGED <<reader, parked>>
       ELSE reader' = "parked" /\ parked' = <<Head(sock.queue)>> /\ UNCHANGED inbound
  /\ sock' = [sock EXCEPT !.queue = Tail(@)]
  /\ UNCHANGED <<session, blocks, app, task, reason, appIn, dataOut, core, peer, tick, rebinds, onWire, env, quiet, stalled>>

ReaderUnparks ==
  /\ reader = "parked" /\ (~Alive \/ Len(inbound) < InboundCap)
  /\ IF Alive THEN reader' = "reading" /\ inbound' = inbound \o parked
              ELSE reader' = "exited" /\ UNCHANGED inbound
  /\ parked' = <<>>
  /\ UNCHANGED <<session, blocks, app, task, reason, sock, appIn, dataOut, core, peer, tick, rebinds, onWire, env, quiet, stalled>>

ReaderFails ==
  /\ reader = "reading" /\ ~sock.ok
  /\ reader' = "exited"
  /\ UNCHANGED <<session, blocks, app, task, reason, sock, chan, core, peer, tick, rebinds, onWire, env, quiet, stalled>>

----------------------------------------------------------------------------
(* The driver.                                                             *)

\* run's epilogue: the reader is aborted; the channels close.
Exit(why) ==
  /\ task' = "ended" /\ reason' = why /\ reader' = "exited" /\ parked' = <<>>
  /\ inbound' = <<>> /\ appIn' = <<>> /\ BlocksDropped

ObservePeer(p) == [p EXCEPT !.silent = 0, !.seen = TRUE]

\* Slip: control traffic does not count as a sign of life.
HeardMediaOnly(p, d) ==
  IF d = "media" THEN [ObservePeer(p) EXCEPT !.known = TRUE] ELSE [p EXCEPT !.known = TRUE]

\* on_media and on_rtcp: learn the address, note the sign of life.
Heard(p, d) == [ObservePeer(p) EXCEPT !.known = TRUE]

\* Slip: an event that finds the channel full is dropped.
HandOverLossy(evs, out) ==
  IF handle # "open" THEN [events |-> evs, out |-> out]
  ELSE LET n == Len(evs)
           r == DataCap - Len(out)
           k == IF n < r THEN n ELSE r
       IN [events |-> <<>>, out |-> out \o SubSeq(evs, 1, k)]

\* drain's hand-over: as many events as the channel takes; the first one is
\* lost, and the rest stay in the core, when the application has gone.
HandOver(evs, out) ==
  IF handle # "open" THEN [events |-> IF evs = <<>> THEN evs ELSE Tail(evs), out |-> out]
  ELSE LET n == Len(evs)
           r == DataCap - Len(out)
           k == IF n < r THEN n ELSE r
       IN [events |-> SubSeq(evs, k + 1, n), out |-> out \o SubSeq(evs, 1, k)]

Drain(evs) ==
  \E h \in {HandOver(evs, dataOut)} :
    /\ events' = h.events /\ dataOut' = h.out
    /\ task' = IF h.events # <<>> /\ handle = "open" THEN "delivering" ELSE "running"

\* flow.feed: the packet is held until the recovery buffer has passed.
OnInbound ==
  /\ Running /\ inbound # <<>>
  /\ LET d == Head(inbound) IN
     /\ peer' = Heard(peer, d)
     /\ inbound' = Tail(inbound)
     /\ IF d = "media"
          THEN /\ fed' = fed + 1 /\ held' = Append(held, fed')
               /\ timer' = IF timer = NoTimer THEN Hold ELSE timer
          ELSE UNCHANGED <<held, timer, fed>>
  /\ Drain(events)
  /\ UNCHANGED <<session, blocks, app, reason, reader, sock, parked, appIn, tick, rebinds, onWire, env, quiet, stalled>>

\* inbound.recv() gives None when no sending half is left.
InboundCloses ==
  /\ Running /\ inbound = <<>> /\ reader = "exited" /\ ~KeepsInTx
  /\ Exit("none")
  /\ UNCHANGED <<session, app, sock, dataOut, core, peer, tick, rebinds, onWire, env, quiet, stalled>>

\* recv_app_gated holds media until the peer's address is known.
OnApp ==
  /\ Running /\ ~Receiver /\ peer.known /\ appIn # <<>>
  /\ onWire' = Append(onWire, Head(appIn)) /\ appIn' = Tail(appIn)
  /\ UNCHANGED <<session, blocks, app, task, reason, reader, sock, inbound, parked, dataOut, core, peer, tick,
                 rebinds, env, quiet, stalled>>

\* push_app_block; block_in that gives None is only no longer watched.
OnBlock ==
  /\ Running /\ peer.known /\ blocks.queued > 0
  /\ blocks' = [blocks EXCEPT !.queued = @ - 1, !.sent = @ + 1]
  /\ UNCHANGED <<session, app, task, reason, reader, sock, chan, core, peer, tick, rebinds, onWire, env, quiet, stalled>>

\* A closed mpsc channel still yields what it took before.
Drained == appIn = <<>>

AppCloses ==
  /\ Running /\ ~Receiver /\ peer.known /\ Drained /\ handle = "dropped"
  /\ Exit("none")
  /\ UNCHANGED <<session, app, sock, dataOut, core, peer, tick, rebinds, onWire, env, quiet, stalled>>

OnTimer ==
  /\ Running /\ timer = 0
  /\ timer' = NoTimer /\ held' = <<>>
  /\ Drain(events \o held)
  /\ UNCHANGED <<session, blocks, app, reason, reader, sock, inbound, parked, appIn, fed, peer, tick, rebinds, onWire, env, quiet, stalled>>

\* The awaited data_out.send completes, or fails because the handle has gone.
Delivered ==
  /\ task = "delivering"
  /\ handle # "open" \/ Len(dataOut) < DataCap
  /\ Drain(events)
  /\ UNCHANGED <<session, blocks, app, reason, reader, sock, inbound, parked, appIn, held, timer, fed, peer, tick,
                 rebinds, onWire, env, quiet, stalled>>

SilentFor(n) == peer.seen /\ peer.silent > n

\* Slip: a rebind counts as recovered although it only reset the liveness clock.
RecoveredAnyhow == rebinds.ago # Never /\ peer.silent <= rebinds.ago

\* Traffic arrived after the last rebind.
Recovered == rebinds.ago # Never /\ peer.silent < rebinds.ago

Attempts == IF Recovered THEN 0 ELSE rebinds.attempts

\* maybe_rebind_caller, when the peer has expired.
TooEarly == ~SilentFor(RebindSilence)

GivesUp  == ~Rebinder \/ (~TooEarly /\ Attempts >= MaxRebinds)
Backoff  == IF Attempts < RebindBackoffCap THEN Attempts ELSE RebindBackoffCap
BacksOff == rebinds.ago # Never /\ rebinds.ago < Backoff * SessionTimeout

Rebind ==
  /\ reader' = "reading" /\ parked' = <<>> /\ sock' = [queue |-> <<>>, ok |-> TRUE]
  /\ rebinds' = [attempts |-> Attempts + 1, ago |-> 0]
  /\ peer' = ObservePeer(peer)

OnKeepalive ==
  /\ Running /\ tick /\ tick' = FALSE
  /\ IF SilentFor(SessionTimeout)
       THEN \/ GivesUp /\ Exit("timeout") /\ UNCHANGED <<sock, peer, rebinds>>
            \/ /\ ~GivesUp /\ ~TooEarly /\ ~BacksOff
               /\ \/ Rebind /\ UNCHANGED <<task, reason, inbound, appIn, blocks>>
                  \* no fresh port could be bound
                  \/ /\ Exit("timeout") /\ rebinds' = [rebinds EXCEPT !.attempts = Attempts]
                     /\ UNCHANGED <<sock, peer>>
            \/ /\ ~GivesUp /\ (TooEarly \/ BacksOff)
               /\ rebinds' = [rebinds EXCEPT !.attempts = IF TooEarly THEN @ ELSE Attempts]
               /\ UNCHANGED <<task, reason, reader, parked, inbound, appIn, blocks, sock, peer>>
       ELSE UNCHANGED <<task, reason, reader, parked, inbound, appIn, blocks, sock, peer, rebinds>>
  /\ UNCHANGED <<session, app, dataOut, core, onWire, env, quiet, stalled>>

----------------------------------------------------------------------------
Driver == OnInbound \/ InboundCloses \/ OnApp \/ OnBlock \/ AppCloses \/ OnTimer \/ Delivered \/ OnKeepalive
Reader == ReaderReads \/ ReaderUnparks \/ ReaderFails

\* Is any task able to take a step?
DriverReady ==
  \/ Running /\ (inbound # <<>> \/ (reader = "exited" /\ ~KeepsInTx) \/ timer = 0 \/ tick
                 \/ (peer.known /\ blocks.queued > 0)
                 \/ (~Receiver /\ peer.known /\ (appIn # <<>> \/ handle = "dropped")))
  \/ task = "delivering" /\ (handle # "open" \/ Len(dataOut) < DataCap)
ReaderReady ==
  \/ reader = "reading" /\ (sock.queue # <<>> \/ ~sock.ok)
  \/ reader = "parked" /\ (~Alive \/ Len(inbound) < InboundCap)

Up(n, top) == IF n < top THEN n + 1 ELSE n

\* A keepalive interval passes; a missed tick is delayed, not repeated.
Elapse ==
  /\ ~DriverReady /\ ~ReaderReady /\ Alive
  /\ tick' = TRUE
  /\ timer' = IF timer \in {0, NoTimer} THEN timer ELSE timer - 1
  /\ peer' = [peer EXCEPT !.silent = Up(@, Never)]
  /\ rebinds' = [rebinds EXCEPT !.ago = Up(@, Never)]
  /\ stalled' = (stalled \/ task = "delivering")
  /\ quiet' = IF stalled' THEN Uncounted
              ELSE [age |-> IF quiet.fresh THEN 1 ELSE Up(quiet.age, SessionTimeout + 1), fresh |-> FALSE]
  /\ UNCHANGED <<session, blocks, app, task, reason, reader, sock, chan, held, events, fed, onWire, env>>

PumpEnv  == Arrive \/ PeerGone \/ SocketFails \/ Send \/ SendBlock \/ Recv \/ CloseHandle \/ DropHandle
PumpNext == PumpEnv \/ Driver \/ Reader \/ Elapse

PumpFairness ==
  WF_pumpVars(Driver) /\ WF_pumpVars(Reader) /\ WF_pumpVars(Elapse)
PumpSpec == PumpInit /\ [][PumpNext]_pumpVars /\ PumpFairness

----------------------------------------------------------------------------
(* Properties.                                                             *)

PumpTypeOK ==
  /\ Len(inbound) <= InboundCap /\ Len(dataOut) <= DataCap /\ Len(appIn) <= AppCap
  /\ blocks.queued <= BlockCap /\ blocks.queued + blocks.sent <= blocks.offered
  /\ (parked # <<>>) = (reader = "parked")
  /\ rebinds.attempts \in 0..MaxRebinds
  /\ timer \in 0..NoTimer
  /\ (held # <<>>) = (timer # NoTimer)

\* However the application lags, pauses or resumes, what it reads is what the
\* flow took in, in order and without a hole: a full channel suspends the driver in
\* the middle of a drain, and the drain resumes where it stopped
\* (driver.rs: drain, deliver_out).
HandedOver ==
  LET all == got \o dataOut \o events \o held IN
  handle = "open" => Len(all) = fed /\ \A i \in 1..fed : all[i] = i

\* Unless the application itself held up the driver, a session times out only
\* when no datagram had reached its socket for the session timeout as the last
\* interval ended; one that arrives with the tick already due may come too late
\* (driver.rs: the keepalive arm; peer.rs: expired).
TimeoutJustified ==
  reason = "timeout" /\ ~stalled /\ sock.ok => quiet.age > SessionTimeout

\* A sender whose handle is dropped transmits all that `send` has accepted before
\* its driver ends (driver.rs: the app_in arm).  Not so what send_block accepted.
DroppedFlushes ==
  task = "ended" /\ reason = "none" /\ handle = "dropped" /\ sock.ok /\ ~Receiver
    => Len(onWire) = accepted

\* The same of the blocks that send_block has accepted, which "applies
\* back-pressure like send": false, for app_in alone ends the loop (driver_main.rs:
\* the app_in and block_in arms).
BlocksFlushed ==
  task = "ended" /\ reason = "none" /\ handle = "dropped" /\ sock.ok
    => blocks.sent = blocks.offered

\* Between the flow core and the application's handle nothing is dropped,
\* reordered or left behind, in either direction, while the handle is there to
\* read or to have written it (driver.rs: drain, the app_in arm).
NothingDropped == HandedOver /\ DroppedFlushes

\* A peer that was heard and then falls silent for good is given up, however
\* often the caller re-binds its socket, if the application reads what it gets
\* (driver_main.rs: maybe_rebind_caller).
SilentPeerClosed ==
  []<>(dataOut = <<>>) => ((gone /\ peer.seen) ~> ~Alive)

\* Why the loop may end, as its documentation says.
LoopEnds ==
  (reader = "exited" /\ ~sock.ok /\ Running) ~> (~Running \/ sock.ok)

\* A closed handle has released its socket.
CloseReleases == (handle = "closed") ~> (reader = "exited")
===============================================================================
