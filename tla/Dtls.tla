--------------------------------- MODULE Dtls ---------------------------------
(***************************************************************************)
(* The DTLS 1.2 tunnel of the Main profile: the handshake of a client and  *)
(* a server connection (dtls/conn.rs, handshake.rs, record.rs), each on    *)
(* the worker thread that then relays datagrams for the host               *)
(* (dtls_transport.rs), over a path that loses, duplicates, delays and     *)
(* reorders.  A transcript stands for its hash, and the transcript a key   *)
(* was derived from for the key.                                           *)
(***************************************************************************)
EXTENDS Replay, SequencesExt

CONSTANTS
  MaxTries,     \* timeouts of a flight before handshake_timeout
  BridgeCap,    \* BRIDGE_CAPACITY
  MaxApp,       \* datagrams a host sends, in the case with most of them
  MaxPathFaults,\* losses, copies and delays beyond a timeout
  MaxDrops,     \* hosts that drop their socket
  DtlsCases     \* the cases of a run

ASSUME DtlsAssumption ==
  /\ MaxTries \in Nat /\ BridgeCap \in Nat \ {0} /\ MaxApp \in Nat
  /\ MaxPathFaults \in Nat /\ MaxDrops \in Nat

Sides == {"client", "server"}
\* kx: the key exchange of the suite both would choose; common: whether there
\* is one; required: require_client_cert; hasCert: the client holds one;
\* lastSafe: the path does not lose the server's Finished; app: the datagrams
\* of each host.
DtlsCase == [kx : {"psk", "ecdhe", "rsa"}, common : BOOLEAN, required : BOOLEAN,
             hasCert : BOOLEAN, lastSafe : BOOLEAN, app : [Sides -> 0 .. MaxApp]]
Facing(p) == IF p = "client" THEN "server" ELSE "client"

VARIABLES
  dtlsCase,
  conn,      \* end -> the connection
  paths,     \* end -> datagrams under way to it, each a sequence of records
  bridge,    \* end -> [out, in]: plaintext queued for the worker, for the host
  offered,   \* end -> datagrams its host sent so far
  shutdown,  \* ends whose host dropped the socket
  pathFaults,
  sealed     \* what was sealed under epoch 1: {[from, seq, payload]}

dtlsVars == <<dtlsCase, conn, paths, bridge, offered, shutdown, pathFaults, sealed>>

NoKeys == <<"none">>
NewConn(pc) ==
  [pc |-> pc, next |-> 0, pending |-> {}, got |-> <<>>, script |-> <<>>, msgSeq |-> 0,
   flight |-> <<>>, tries |-> 0, keys |-> NoKeys, stash |-> <<>>,
   window |-> <<NewWindow, NewWindow>>, sendSeq |-> <<0, 0>>, app |-> <<>>]

DtlsStart(c) ==
  /\ dtlsCase = c
  /\ conn = [client |-> NewConn("start"), server |-> NewConn("accept")]
  /\ paths = [p \in Sides |-> {}] /\ bridge = [p \in Sides |-> [out |-> <<>>, in |-> <<>>]]
  /\ offered = [p \in Sides |-> 0] /\ shutdown = {} /\ pathFaults = 0
  /\ sealed = {}

DtlsInit == \E c \in DtlsCases : DtlsStart(c)

\* The message read_flight waits for, by the state of the end.
Until == [start |-> "none", hvr |-> "HelloVerifyRequest", f4 |-> "ServerHelloDone",
          f6 |-> "Finished", accept |-> "ClientHello", f1 |-> "ClientHello",
          f3 |-> "ClientHello", f5a |-> "ClientKeyExchange", f5b |-> "Finished",
          done |-> "none", ended |-> "none"]
Handshaking(c) == c.pc \in {"hvr", "f4", "f6", "f1", "f3", "f5a", "f5b"}

----------------------------------------------------------------------------
(* Records and flights *)

\* F(x), with x evaluated once.
Of(x, F(_)) == CHOOSE y \in {F(v) : v \in {x}} : TRUE

\* A handshake message of end p.
Message(p, typ, n, body) == [from |-> p, typ |-> typ, mseq |-> n, body |-> body]
Unframed(p, typ, n) == Message(p, typ, n, <<>>)

\* A message of the connection x of end p, and x after it.
Emit(p, x, typ, body, epoch, hashed) ==
  LET After(c) ==
        LET m == Message(p, typ, c.msgSeq, body)
        IN [c EXCEPT !.msgSeq = @ + 1,
                     !.script = IF hashed THEN Append(@, typ) ELSE @,
                     !.flight = Append(@, [typ |-> "Handshake", epoch |-> epoch, payload |-> m])]
  IN Of(x, After)
\* The Finished, over the transcript so far.
Finish(p, x) == LET After(c) == Emit(p, c, "Finished", c.script, 1, TRUE) IN Of(x, After)
EmitAll(p, c, types) ==
  FoldLeft(LAMBDA acc, t : Emit(p, acc, t, <<>>, 0, TRUE), c, types)
ChangeCipherSpec(p, c) ==
  [c EXCEPT !.flight = Append(@, [typ |-> "ChangeCipherSpec", epoch |-> 0,
                                  payload |-> Unframed(p, "ChangeCipherSpec", 0)])]
Hash(c, m) == [c EXCEPT !.script = Append(@, m.typ)]
Abort(c) == [c EXCEPT !.pc = "ended", !.flight = <<>>]

\* HalfConn::seal: a record and the key it is sealed with, if it is.
Sealed(c, spec, seq) ==
  [typ |-> spec.typ, epoch |-> spec.epoch, payload |-> spec.payload, key |-> c.keys, seq |-> seq]

\* Slip: the count of epoch 0 alone is read.
RecordsFromZero(c, specs) ==
  [i \in DOMAIN specs |->
     Sealed(c, specs[i], (IF specs[i].epoch = 0 THEN c.sendSeq[1] ELSE 0)
                         + Cardinality({j \in 1 .. i - 1 : specs[j].epoch = specs[i].epoch}))]
\* send_flight: fresh sequences, counted for each epoch.
Records(c, specs) ==
  [i \in DOMAIN specs |->
     Sealed(c, specs[i], c.sendSeq[specs[i].epoch + 1]
                         + Cardinality({j \in 1 .. i - 1 : specs[j].epoch = specs[i].epoch}))]
Counted(c, specs) ==
  [c EXCEPT !.sendSeq = [e \in 1 .. 2 |->
     @[e] + Cardinality({i \in DOMAIN specs : specs[i].epoch = e - 1})]]

\* One datagram from end p, whose connection becomes c.
Transmit(p, c, specs) ==
  /\ conn' = [conn EXCEPT ![p] = Counted(c, specs)]
  /\ paths' = [paths EXCEPT ![Facing(p)] =
                 IF specs = <<>> THEN @ ELSE @ \cup {Records(c, specs)}]
  /\ sealed' = sealed \cup
       {[from |-> p, seq |-> r.seq, payload |-> r.payload] :
          r \in {x \in {Records(c, specs)[i] : i \in DOMAIN specs} : x.epoch = 1}}

\* Reassembler::accept
Accept(c, m, epoch) ==
  IF m.mseq < c.next \/ \E x \in c.pending : x.mseq = m.mseq THEN c
  ELSE [c EXCEPT !.pending = @ \cup
          {[from |-> m.from, typ |-> m.typ, mseq |-> m.mseq, body |-> m.body, epoch |-> epoch]}]

Opens(c, r) == r.epoch = 0 \/ r.key = c.keys

ProcessRecord(c, r) ==
  LET marked == [c EXCEPT !.window[r.epoch + 1] = Mark(@, r.seq)]
  IN CASE r.epoch = 1 /\ c.keys = NoKeys -> [c EXCEPT !.stash = Append(@, r)]
       [] (r.epoch = 0 \/ c.keys # NoKeys) /\ ~Check(c.window[r.epoch + 1], r.seq) -> c
       [] OTHER ->
            IF ~Opens(c, r) THEN c
            ELSE CASE r.typ = "Handshake" -> Accept(marked, r.payload, r.epoch)
                   [] r.typ = "ApplicationData" -> [marked EXCEPT !.app = Append(@, r.payload)]
                   [] r.typ = "ChangeCipherSpec" -> marked

ProcessAll(c, records) ==
  FoldLeft(LAMBDA acc, r : Of(acc, LAMBDA x : ProcessRecord(x, r)), c, records)
\* The extended master secret: the premaster of the key exchange and the
\* transcript so far.
PreMaster == <<dtlsCase.kx>>
Master(script) == PreMaster \o script
\* derive_master, and drain_pending.
Keyed(x) ==
  LET Drained(c) == ProcessAll([c EXCEPT !.stash = <<>>, !.keys = Master(c.script)], c.stash)
  IN Of(x, Drained)

----------------------------------------------------------------------------
(* The handshake: what each end does with the flight it has read *)

Has(flight, typ) == \E i \in DOMAIN flight : flight[i].typ = typ
The(flight, typ) == flight[CHOOSE i \in DOMAIN flight : flight[i].typ = typ]
Reading(c, pc) == [c EXCEPT !.pc = pc, !.got = <<>>, !.tries = 0]
Fresh(c) == [c EXCEPT !.flight = <<>>]
IsCert(k) == k \in {"ecdhe", "rsa"}
Cookie == <<"cookie">>
CertBody == IF dtlsCase.hasCert THEN <<"cert">> ELSE <<>>

ServerFlight4 ==
  <<"ServerHello">>
  \o (IF IsCert(dtlsCase.kx) THEN <<"Certificate">> ELSE <<>>)
  \o (IF dtlsCase.kx = "ecdhe" THEN <<"ServerKeyExchange">> ELSE <<>>)
  \o (IF IsCert(dtlsCase.kx) /\ dtlsCase.required THEN <<"CertificateRequest">> ELSE <<>>)
  \o <<"ServerHelloDone">>

\* client_handshake
ClientGot(c, f) ==
  CASE c.pc = "hvr" ->
         Reading(Emit("client", Fresh(c), "ClientHello", Cookie, 0, TRUE), "f4")
    [] c.pc = "f4" ->
         LET asked == Has(f, "CertificateRequest")
             heard == FoldLeft(Hash, Fresh(c), f)
             certed == IF asked THEN Emit("client", heard, "Certificate",
                                          CertBody, 0, TRUE) ELSE heard
             keyed == Keyed(Emit("client", certed, "ClientKeyExchange", <<>>, 0, TRUE))
             proven == IF asked /\ dtlsCase.hasCert
                       THEN EmitAll("client", keyed, <<"CertificateVerify">>) ELSE keyed
         IN Reading(Finish("client", ChangeCipherSpec("client", proven)), "f6")
    [] c.pc = "f6" ->
         LET fin == The(f, "Finished")
         IN IF fin.epoch = 1 /\ fin.body = c.script
            THEN [Hash(Fresh(c), fin) EXCEPT !.pc = "done"] ELSE Abort(c)

\* server_handshake, the flight it has read by flight.
OnHello(c) ==
  IF ~dtlsCase.common THEN Abort(c)
  ELSE Reading(Emit("server", Fresh(c), "HelloVerifyRequest", Cookie, 0, FALSE), "f3")
OnCookie(c, f) ==
  LET ch == The(f, "ClientHello")
  IN IF ch.body # Cookie THEN Abort(c)
     ELSE Reading(EmitAll("server", Hash(Fresh(c), ch), ServerFlight4), "f5a")
OnKeyExchange(c, f) ==
  LET certed == IF Has(f, "Certificate") THEN Hash(c, The(f, "Certificate")) ELSE c
      keyed == Keyed(Hash(certed, The(f, "ClientKeyExchange")))
  IN IF dtlsCase.required
          /\ ~(Has(f, "Certificate") /\ The(f, "Certificate").body # <<>>)
     THEN Abort(c)
     ELSE Reading(keyed, "f5b")
OnFinished(c, f) ==
  LET fin == The(f, "Finished")
      heard == IF Has(f, "CertificateVerify")
               THEN Hash(c, The(f, "CertificateVerify")) ELSE c
  IN IF \/ dtlsCase.required /\ ~Has(f, "CertificateVerify")
        \/ fin.epoch # 1 \/ fin.body # heard.script
     THEN Abort(c)
     ELSE [Finish("server", ChangeCipherSpec("server", Hash(Fresh(heard), fin)))
             EXCEPT !.pc = "done"]
ServerGot(c, f) ==
  CASE c.pc = "f1" -> OnHello(c)
    [] c.pc = "f3" -> OnCookie(c, f)
    [] c.pc = "f5a" -> OnKeyExchange(c, f)
    [] c.pc = "f5b" -> OnFinished(c, f)

Got(p, c, f) == IF p = "client" THEN ClientGot(c, f) ELSE ServerGot(c, f)

\* A step of f5a sends nothing: the flight to repeat stays flight 4.
Sends(pc) == pc # "f5a"

----------------------------------------------------------------------------
(* The worker threads *)

ConnLocal == <<dtlsCase, bridge, offered, shutdown, pathFaults>>

\* Conn::handshake of a client sends the first flight.
Begin ==
  /\ conn.client.pc = "start"
  /\ \E c \in {Emit("client", conn.client, "ClientHello", <<>>, 0, FALSE)} :
       Transmit("client", Reading(c, "hvr"), c.flight)
  /\ UNCHANGED ConnLocal

Ready(c) == {m \in c.pending : m.mseq = c.next}

\* read_flight: the next message in order, and at the last one of the flight
\* what the handshake does with it.
NextMessage(p) ==
  /\ Handshaking(conn[p]) /\ Ready(conn[p]) # {}
  /\ \E m \in Ready(conn[p]) :
       \E c \in {[conn[p] EXCEPT !.pending = @ \ {m}, !.next = @ + 1,
                                 !.got = Append(@, m)]} :
         IF m.typ # Until[c.pc]
         THEN conn' = [conn EXCEPT ![p] = c] /\ UNCHANGED <<paths, sealed>>
         ELSE \E g \in {Got(p, c, c.got)} :
                Transmit(p, g, IF Sends(c.pc) THEN g.flight ELSE <<>>)
  /\ UNCHANGED ConnLocal

Listens(c) == \/ c.pc = "accept"
              \/ c.pc = "done" /\ c.app = <<>>
              \/ Handshaking(c) /\ Ready(c) = {}

\* process_datagram; the server's worker starts with the first datagram.
Heard(p, d) ==
  \E c \in {ProcessAll(conn[p], d)} :
    conn' = [conn EXCEPT ![p] = IF c.pc = "accept" THEN [c EXCEPT !.pc = "f1"] ELSE c]

ReceiveDatagram(p) ==
  /\ Listens(conn[p])
  /\ \E d \in paths[p] : Heard(p, d) /\ paths' = [paths EXCEPT ![p] = @ \ {d}]
  /\ UNCHANGED <<dtlsCase, bridge, offered, shutdown, pathFaults, sealed>>

\* Nothing is on its way to either end and no end has a message to take.
Quiet == \A p \in Sides :
  conn[p].pc # "ended" => /\ paths[p] = {} /\ conn[p].pc # "start"
                          /\ Handshaking(conn[p]) => Ready(conn[p]) = {}

\* Slip: the flight is sent once.
RepeatedNever(c) == <<>>
Repeated(c) == c.flight

\* The two timers started from the same timeouts and double alike.
InStep(p) == Handshaking(conn[Facing(p)]) => conn[p].tries <= conn[Facing(p)].tries + 1

GivesUp(c) == Abort(c)

LateAnswer == pathFaults < MaxPathFaults /\ pathFaults' = pathFaults + 1

\* read_flight times out: the flight again, or the handshake is over.
FlightTimeout(p) ==
  /\ Handshaking(conn[p]) /\ Ready(conn[p]) = {}
  /\ IF Quiet THEN InStep(p) /\ UNCHANGED pathFaults ELSE LateAnswer
  /\ IF conn[p].tries < MaxTries
     THEN Transmit(p, [conn[p] EXCEPT !.tries = @ + 1], Repeated(conn[p]))
     ELSE /\ conn' = [conn EXCEPT ![p] = GivesUp(@)]
          /\ UNCHANGED <<paths, sealed>>
  /\ UNCHANGED <<dtlsCase, bridge, offered, shutdown>>

\* relay: a queued datagram goes out as an application record.
RelayWrites(p) ==
  /\ conn[p].pc = "done" /\ bridge[p].out # <<>>
  /\ Transmit(p, conn[p], <<[typ |-> "ApplicationData", epoch |-> 1,
                             payload |-> Head(bridge[p].out)]>>)
  /\ bridge' = [bridge EXCEPT ![p].out = Tail(@)]
  /\ UNCHANGED <<dtlsCase, offered, shutdown, pathFaults>>

\* read, and relay: what was decrypted goes to the host; a full queue drops it.
RelayReads(p) ==
  /\ conn[p].pc = "done" /\ conn[p].app # <<>>
  /\ conn' = [conn EXCEPT ![p].app = Tail(@)]
  /\ bridge' = [bridge EXCEPT ![p].in =
                  IF Len(@) < BridgeCap THEN Append(@, Head(conn[p].app)) ELSE @]
  /\ UNCHANGED <<dtlsCase, paths, offered, shutdown, pathFaults, sealed>>

\* Slip: the worker looks at the flag in the relay only.
StopsInRelay(c) == c.pc = "done"
\* The flag is looked at between receptions before and after the handshake.
StopsAt(c) == c.pc \in {"accept", "done"}
WorkerStops(p) ==
  /\ p \in shutdown /\ StopsAt(conn[p])
  /\ conn' = [conn EXCEPT ![p] = Abort(@)]
  /\ UNCHANGED <<dtlsCase, paths, bridge, offered, shutdown, pathFaults, sealed>>

\* poll_send: a full queue drops the datagram.
HostSends(p) ==
  /\ offered[p] < dtlsCase.app[p] /\ p \notin shutdown /\ conn[p].pc # "ended"
  /\ offered' = [offered EXCEPT ![p] = @ + 1]
  /\ bridge' = [bridge EXCEPT ![p].out =
                  IF Len(@) < BridgeCap THEN Append(@, Unframed(p, "ApplicationData", offered[p])) ELSE @]
  /\ UNCHANGED <<dtlsCase, conn, paths, shutdown, pathFaults, sealed>>

HostDrops(p) ==
  /\ Cardinality(shutdown) < MaxDrops /\ p \notin shutdown
  /\ shutdown' = shutdown \cup {p}
  /\ UNCHANGED <<dtlsCase, conn, paths, bridge, offered, pathFaults, sealed>>

IsLastFlight(p, d) == p = "client" /\ d[1].typ = "ChangeCipherSpec"

PathLoses(p) ==
  /\ pathFaults < MaxPathFaults /\ pathFaults' = pathFaults + 1
  /\ \E d \in paths[p] :
       /\ dtlsCase.lastSafe => ~IsLastFlight(p, d)
       /\ paths' = [paths EXCEPT ![p] = @ \ {d}]
  /\ UNCHANGED <<dtlsCase, conn, bridge, offered, shutdown, sealed>>

PathCopies(p) ==
  /\ pathFaults < MaxPathFaults /\ pathFaults' = pathFaults + 1
  /\ Listens(conn[p])
  /\ \E d \in paths[p] : Heard(p, d)
  /\ UNCHANGED <<dtlsCase, paths, bridge, offered, shutdown, sealed>>

DtlsNext ==
  \/ Begin
  \/ \E p \in Sides :
       \/ NextMessage(p) \/ ReceiveDatagram(p) \/ FlightTimeout(p) \/ RelayWrites(p)
       \/ RelayReads(p)
       \/ WorkerStops(p) \/ HostSends(p) \/ HostDrops(p) \/ PathLoses(p) \/ PathCopies(p)

DtlsFairness ==
  \A p \in Sides : /\ WF_dtlsVars(NextMessage(p))
                   /\ WF_dtlsVars(ReceiveDatagram(p))
                   /\ WF_dtlsVars(FlightTimeout(p))
                   /\ WF_dtlsVars(WorkerStops(p))

DtlsSpec == DtlsInit /\ [][DtlsNext]_dtlsVars /\ DtlsFairness

----------------------------------------------------------------------------
(* Properties *)

Established(p) == conn[p].pc = "done"

\* send_flight: "retransmits never reuse a GCM nonce": the sequence is the
\* nonce of a sealed record of epoch 1.  An end seals no two payloads under one
\* sequence, and none twice under one: its counter has moved for each record.
NonceOnce ==
  \A p \in Sides : LET mine == {x \in sealed : x.from = p} IN
    /\ \A x, y \in mine : x.seq = y.seq => x = y
    /\ conn[p].sendSeq[2] = Cardinality(mine)

\* ReplayWindow: the host receives no datagram twice, be the second copy of its
\* record inside the window, at its edge or beyond it.
TunnelOnce ==
  \A p \in Sides : \A i, j \in DOMAIN bridge[p].in :
    i # j => bridge[p].in[i] # bridge[p].in[j]

\* A host that drops its socket is rid of the worker, whichever state the
\* connection is in.
WorkerEnds == \A p \in Sides : (p \in shutdown /\ conn[p].pc # "start") ~> conn[p].pc = "ended"

Compatible == dtlsCase.common
  /\ (dtlsCase.required => IsCert(dtlsCase.kx) /\ dtlsCase.hasCert)

\* A client that begins and a server that can agree with it get through the
\* handshake, although a datagram is lost or comes twice or late, the server's
\* last one excepted.  (A server's host that sends a window of datagrams at once
\* may have them overtake its Finished, which the client's window then rejects.)
HandshakeHeals ==
  (Compatible /\ conn.client.pc # "start")
    ~> \/ (\A p \in Sides : Established(p)) \/ shutdown # {}
       \/ offered.server >= ReplaySize

\* conn.rs: "the full flight exchange (with RFC 6347 4.2.4 retransmission on
\* read timeout)": what the server's last flight loses, too, is repeated.
LastFlightRepeated ==
  [](Established("server") => <>(Established("client") \/ shutdown # {}))
=============================================================================
