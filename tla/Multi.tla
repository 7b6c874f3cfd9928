-------------------------------- MODULE Multi ---------------------------------
(***************************************************************************)
(* A multi-flow receiver (multi.rs): one task reads the shared socket,     *)
(* keys each datagram, and feeds the session of its key, opening it on     *)
(* first sight and handing its Receiver to accept.  A session is a driver  *)
(* task between its inbound channel and the channel its Receiver reads.    *)
(***************************************************************************)
EXTENDS Naturals, Sequences, FiniteSets

CONSTANTS
  Keys,         \* SSRCs, or source addresses
  MaxFlows,     \* MAX_FLOWS, which is also the depth of the accept channel
  FlowInCap, FlowOutCap,  \* INBOUND_CAPACITY and DATA_CAPACITY
  MaxPerKey,    \* datagrams of a key
  MaxSessions   \* sessions of a run

ASSUME MultiAssumption ==
  /\ \A n \in {MaxFlows, FlowInCap, FlowOutCap} : n \in Nat \ {0}
  /\ MaxPerKey \in Nat /\ MaxSessions \in Nat

VARIABLES
  inbox,      \* the socket's buffer: datagrams [key, n]
  seq,       \* key -> datagrams it has sent
  demux,     \* [at |-> "reading" | "feeding" | "accepting" | "aborted", ...]
  flows,     \* the map: a function from some keys to sessions
  acceptq,   \* sessions whose Receiver waits to be accepted
  sessions   \* a sequence of [key, state, receiver, inbound, out, took]

multiVars == <<inbox, seq, demux, flows, acceptq, sessions>>

Sids == DOMAIN sessions
Reading == [at |-> "reading"]
IsClosed(s) == sessions[s].state = "ended"
LiveSessions == {s \in Sids : ~IsClosed(s)}

MultiInit ==
  /\ inbox = <<>> /\ seq = [k \in Keys |-> 0] /\ demux = Reading
  /\ flows = [k \in {} |-> 0] /\ acceptq = <<>> /\ sessions = <<>>

----------------------------------------------------------------------------
Datagram(k) ==
  /\ seq[k] < MaxPerKey
  /\ seq' = [seq EXCEPT ![k] = @ + 1]
  /\ inbox' = Append(inbox, [key |-> k, n |-> seq[k] + 1])
  /\ UNCHANGED <<demux, flows, acceptq, sessions>>

Without(f, k) == [j \in DOMAIN f \ {k} |-> f[j]]

\* Slip: at the limit the oldest entry makes room, its session running on.
ReclaimedOldest ==
  LET kept == {k \in DOMAIN flows : ~IsClosed(flows[k])}
      kept1 == IF Cardinality(kept) < MaxFlows THEN kept
               ELSE {k \in kept : \E j \in kept : flows[j] < flows[k]}
  IN [k \in kept1 |-> flows[k]]

\* flows.retain(not closed)
Reclaimed ==
  LET kept == {k \in DOMAIN flows : ~IsClosed(flows[k])} IN [k \in kept |-> flows[k]]

SessionOf(d) == {flows[k] : k \in DOMAIN flows \cap {d.key}}

\* route: feed the flow of the key, or open one.
Route ==
  /\ demux = Reading /\ inbox # <<>>
  /\ inbox' = Tail(inbox)
  /\ LET d == Head(inbox) IN
     \/ /\ \E s \in SessionOf(d) : demux' = [at |-> "feeding", to |-> s, d |-> d]
        /\ UNCHANGED <<flows, sessions>>
     \/ /\ SessionOf(d) = {}
        /\ IF Cardinality(DOMAIN Reclaimed) >= MaxFlows
             THEN flows' = Reclaimed /\ UNCHANGED <<demux, sessions>>
             ELSE \/ \* the session cannot be built: the datagram is dropped
                     flows' = Reclaimed /\ UNCHANGED <<demux, sessions>>
                  \/ LET s == Len(sessions) + 1 IN
                     /\ s <= MaxSessions
                     /\ sessions' = Append(sessions,
                          [key |-> d.key, state |-> "running", receiver |-> "waiting",
                           inbound |-> <<d>>, out |-> 0, took |-> <<>>])
                     /\ flows' = [k \in DOMAIN Reclaimed \cup {d.key} |->
                                    IF k = d.key THEN s ELSE Reclaimed[k]]
                     /\ demux' = [at |-> "accepting", to |-> s]
  /\ UNCHANGED <<seq, acceptq>>

\* Slip: the demultiplexer waits for room also in a channel that has closed.
FeedGone(s) == FALSE

\* tx.send gives an error when the session has ended.
FeedFails(s) == IsClosed(s)

\* The awaited tx.send(inb).
Feed ==
  /\ demux.at = "feeding"
  /\ LET s == demux.to IN
     \/ /\ FeedFails(s)
        /\ flows' = Without(flows, demux.d.key)
        /\ UNCHANGED sessions
     \/ /\ ~IsClosed(s) /\ Len(sessions[s].inbound) < FlowInCap
        /\ sessions' = [sessions EXCEPT ![s].inbound = Append(@, demux.d)]
        /\ UNCHANGED flows
  /\ demux' = Reading
  /\ UNCHANGED <<inbox, seq, acceptq>>

\* The awaited accept_tx.send(receiver).
Surface ==
  /\ demux.at = "accepting" /\ Len(acceptq) < MaxFlows
  /\ acceptq' = Append(acceptq, demux.to)
  /\ demux' = Reading
  /\ UNCHANGED <<inbox, seq, flows, sessions>>

----------------------------------------------------------------------------
(* A session.                                                              *)
Ended(r) == [r EXCEPT !.state = "ended", !.inbound = <<>>]

\* The driver takes a datagram in and delivers; a full channel suspends it.
Pumps(s) ==
  /\ sessions[s].state = "running" /\ sessions[s].inbound # <<>>
  /\ LET r == sessions[s]
         room == r.receiver = "dropped" \/ r.out < FlowOutCap
     IN sessions' = [sessions EXCEPT ![s] =
          [r EXCEPT !.inbound = Tail(@), !.took = Append(@, Head(r.inbound)),
                    !.state = IF room THEN "running" ELSE "delivering",
                    !.out = IF r.receiver # "dropped" /\ room THEN @ + 1 ELSE @]]
  /\ UNCHANGED <<inbox, seq, demux, flows, acceptq>>

Delivers(s) ==
  /\ sessions[s].state = "delivering"
  /\ sessions[s].receiver = "dropped" \/ sessions[s].out < FlowOutCap
  /\ sessions' = [sessions EXCEPT ![s].state = "running",
                                  ![s].out = IF sessions[s].receiver = "dropped" THEN @ ELSE @ + 1]
  /\ UNCHANGED <<inbox, seq, demux, flows, acceptq>>

Idles(s) == sessions[s].state = "running" /\ sessions[s].inbound = <<>>

\* Its peer is silent past the timeout, or the demultiplexer has gone and what
\* it had sent has been read.
SessionEnds(s) ==
  /\ Idles(s)
  /\ sessions' = [sessions EXCEPT ![s] = Ended(@)]
  /\ UNCHANGED <<inbox, seq, demux, flows, acceptq>>

----------------------------------------------------------------------------
(* The application.                                                        *)
Accept ==
  /\ acceptq # <<>>
  /\ sessions' = [sessions EXCEPT ![Head(acceptq)].receiver = "held"]
  /\ acceptq' = Tail(acceptq)
  /\ UNCHANGED <<inbox, seq, demux, flows>>

ReadOne(s) ==
  /\ sessions[s].receiver = "held" /\ sessions[s].out > 0
  /\ sessions' = [sessions EXCEPT ![s].out = @ - 1]
  /\ UNCHANGED <<inbox, seq, demux, flows, acceptq>>

\* Receiver::close aborts the driver.
CloseOne(s) ==
  /\ sessions[s].receiver = "held"
  /\ sessions' = [sessions EXCEPT ![s] = [Ended(@) EXCEPT !.receiver = "dropped", !.out = 0]]
  /\ UNCHANGED <<inbox, seq, demux, flows, acceptq>>

\* MultiReceiver::close: the task is aborted, its map and the receivers nobody
\* accepted are dropped.
Shut ==
  /\ demux.at # "aborted"
  /\ demux' = [at |-> "aborted"]
  /\ flows' = [k \in {} |-> 0] /\ acceptq' = <<>> /\ inbox' = <<>>
  /\ sessions' = [s \in Sids |-> IF sessions[s].receiver = "held" THEN sessions[s]
                                 ELSE [sessions[s] EXCEPT !.receiver = "dropped", !.out = 0]]
  /\ UNCHANGED seq

Demux == Route \/ Feed \/ Surface
Works == \E s \in Sids : Pumps(s) \/ Delivers(s)
AppSteps  == Accept \/ \E s \in Sids : ReadOne(s) \/ CloseOne(s)

MultiNext ==
  \/ \E k \in Keys : demux.at # "aborted" /\ Datagram(k)
  \/ Demux \/ Works \/ AppSteps \/ Shut
  \/ \E s \in Sids : SessionEnds(s)

MultiFairness ==
  /\ WF_multiVars(Demux)
  /\ \A s \in 1..MaxSessions :
       /\ WF_multiVars(s \in Sids /\ (Pumps(s) \/ Delivers(s)))
       /\ WF_multiVars(s \in Sids /\ demux.at = "aborted" /\ SessionEnds(s))

MultiSpec == MultiInit /\ [][MultiNext]_multiVars /\ MultiFairness

----------------------------------------------------------------------------
(* Properties.                                                             *)

\* Whatever ends, is closed or is re-opened, a key has at most one session at
\* work, and no more sessions work than the limit (multi.rs: route, MAX_FLOWS).
OneSessionEach ==
  /\ Cardinality(LiveSessions) <= MaxFlows
  /\ \A s, t \in LiveSessions : sessions[s].key = sessions[t].key => s = t

\* A session takes in datagrams of its own key alone, in the order they came,
\* each at most once over all the sessions the key ever had (multi.rs: route).
OwnStream ==
  \A s \in Sids :
    LET all == sessions[s].took \o sessions[s].inbound IN
    /\ \A i \in DOMAIN all : all[i].key = sessions[s].key
    /\ \A i, j \in DOMAIN all : i < j => all[i].n < all[j].n
    /\ \A t \in Sids : t < s /\ sessions[t].key = sessions[s].key =>
         \A i \in DOMAIN all : \A j \in DOMAIN sessions[t].took : sessions[t].took[j].n < all[i].n

\* The flows of one socket stay apart (multi.rs: route, the reclaiming of ended
\* flows).
FlowsApart == OneSessionEach /\ OwnStream

\* If the application keeps accepting and reading, every datagram is routed or
\* shed in the end: an ended flow never holds up the others (multi.rs: demux_*).
AllRouted ==
  []<>(acceptq = <<>> /\ \A s \in Sids : sessions[s].out < FlowOutCap)
    => <>[](inbox = <<>> /\ demux.at \in {"reading", "aborted"})

\* A closed multi-receiver ends every session the application reads, down to
\* the last datagram it was fed (MultiReceiver::close).
ShutEnds ==
  []<>(\A s \in Sids : sessions[s].out < FlowOutCap)
    => [](demux.at = "aborted" => <>(LiveSessions = {}))

\* The demultiplexer gets on with its work and gives up what it holds.
DemuxEnds == AllRouted /\ ShutEnds

\* A flow that nobody accepts or reads leaves the others alone.
OthersFlow == []<>(demux.at \in {"reading", "aborted"})
===============================================================================
