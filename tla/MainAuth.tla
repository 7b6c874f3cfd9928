------------------------------- MODULE MainAuth -------------------------------
(***************************************************************************)
(* Two Main-profile drivers (rist/src/driver_main.rs) that authenticate    *)
(* over a network: a sender that is the authenticatee and a receiver that  *)
(* is the authenticator.  Either may be the caller; the caller sits behind *)
(* a NAT and may change its address.  Datagrams arrive in order, except    *)
(* that the network loses some and keeps copies of some, which it delivers *)
(* whenever it likes.  Time is counted in keepalive intervals.             *)
(***************************************************************************)
EXTENDS Eap, Sequences

CONSTANTS
  Timeout,      \* session timeout, in keepalive intervals
  ReauthWindow, \* reauth_timeout(), in keepalive intervals
  MaxRetx,      \* EAP_MAX_RETX (16 in the code)
  Scenarios     \* configurations to start from, each with a bound on the
                \* datagrams lost and copied and on the moves of the caller

ASSUME AuthAssumption ==
  /\ Timeout \in Nat \ {0} /\ ReauthWindow \in Nat \ {0} /\ MaxRetx \in Nat
  /\ \A s \in Scenarios :
       /\ s.psk \in BOOLEAN /\ s.caller \in {"sender", "receiver"} /\ s.accept \in BOOLEAN
       /\ s.ver \in {2, 3} /\ s.id \in 0..IdMod-1
       /\ s.losses \in Nat /\ s.copies \in Nat /\ s.moves \in Nat

Ends     == {"sender", "receiver"}
Other(e) == IF e = "sender" THEN "receiver" ELSE "sender"
Home(c, e) == IF e = c THEN "caller" ELSE "listener"

VARIABLES
  psk,       \* is a PSK secret configured?
  caller,    \* the end that dials
  accept,    \* what the receiver's connection callback answers
  role,      \* [Ends -> role record of Eap]
  drv,       \* [Ends -> driver record]
  addr,      \* [Ends -> address], where each end can be reached now
  fresh,     \* [Ends -> datagrams on their way to it in this interval]
  stale,     \* copies the network still holds from before
  ticked,    \* ends whose keepalive tick has fired in this interval
  eph,       \* ephemerals drawn so far
  losses, copies, moves

config   == <<psk, caller, accept>>
authVars == <<config, role, drv, addr, fresh, stale, ticked, eph, losses, copies, moves>>

Dormant == 2   \* keepalive intervals of silence before a peer may be claimed

Eapol(w)    == [eap |-> w, key |-> None]
Beacon(key) == [eap |-> None, key |-> key]

----------------------------------------------------------------------------
NewDriver(peer, key) ==
  [peer |-> peer, silent |-> 0, seen |-> FALSE, greeted |-> FALSE, started |-> FALSE,
   authed |-> FALSE, ever |-> FALSE, reauthing |-> FALSE, left |-> 0,
   lastTx |-> None, retx |-> 0, cname |-> FALSE, sendKey |-> key, recvKey |-> key,
   open |-> "open",
   proven |-> "none", admitted |-> 0, moved |-> FALSE]   \* history only

\* A handler takes and yields a bundle: driver, role, the datagrams it sends.
Bundle(d, r, out) == [d |-> d, r |-> r, out |-> out]

HasPsk(d)     == d.sendKey # None
SrpAuthed(d)  == d.ever
SilentFor(d, n) == d.seen /\ d.silent > n
Expired(d)    == SilentFor(d, Timeout)
Observe(d)    == [d EXCEPT !.silent = 0, !.seen = TRUE]

Greet(x) == [x EXCEPT !.d.greeted = TRUE, !.out = Append(@, Beacon(x.d.sendKey))]

(* maybe_start_eap: the authenticatee opens once, when the peer is known.  *)
MaybeStartEap(e, x) ==
  IF x.d.started \/ x.d.peer = "none" \/ e = "receiver" THEN x
  ELSE LET o == StartClient(x.r)
           w == Encode(o.reply) IN
       [x EXCEPT !.r = o.role, !.out = Append(@, Eapol(w)),
                 !.d.started = TRUE, !.d.lastTx = w, !.d.retx = 0]

HoldForReauth(d) ==
  [d EXCEPT !.authed = FALSE,
            !.left = IF d.reauthing THEN @ ELSE ReauthWindow,
            !.reauthing = TRUE]

(* The re-keying of on_authenticated: feedback is encrypted under K, media *)
(* stay in the clear; then K is pushed as the passphrase.                  *)
OnAuthenticated(e, x) ==
  [x EXCEPT !.d.sendKey = IF e = "receiver" THEN x.r.session ELSE @,
            !.d.recvKey = IF e = "sender" THEN x.r.session ELSE @,
            !.out = Append(@, Eapol(Encode(PassphrasePush(PushId))))]

(* eap.recv: f is the parsed form of the wire frame w.                     *)
Handled(e, r, w, f, n) ==
  Recv(r, w, IF e = "sender" THEN ClientHandles(r, f, "user", n)
                             ELSE ServerHandles(r, f, [user |-> "good"], n))

\* The connection callback is asked on the first success only.
Rejected(e, d) == ~d.ever /\ e = "receiver" /\ ~accept

MarkSuccess(d, was, src) ==
  [d EXCEPT !.ever = TRUE, !.reauthing = FALSE, !.proven = IF was THEN @ ELSE src,
            !.admitted = IF d.ever THEN @ ELSE @ + 1]

Succeeds(e, x, was, src) ==
  LET y == [x EXCEPT !.d = MarkSuccess(@, was, src)] IN
  IF Rejected(e, x.d) THEN [y EXCEPT !.d.authed = FALSE, !.d.open = "auth"]
  ELSE IF was \/ HasPsk(x.d) THEN y ELSE OnAuthenticated(e, y)

(* The reply is the frame to retransmit from now on.                       *)
Replied(d, o) ==
  [d EXCEPT !.retx = 0, !.authed = Authenticated(o.role),
            !.lastTx = IF o.reply = None THEN @ ELSE Encode(o.reply)]

(* handle_eap, once the role has produced its outcome o.                   *)
HandleEap(e, x, src, o) ==
  LET d == Replied(x.d, o)
      y == Bundle(d, o.role, x.out \o (IF o.reply = None THEN <<>> ELSE <<Eapol(Encode(o.reply))>>))
  IN IF Authenticated(o.role) THEN Succeeds(e, y, x.d.authed, src)
     ELSE IF d.ever /\ (Failed(o.role) \/ x.d.authed) THEN [y EXCEPT !.d = HoldForReauth(d)]
     ELSE y

Decrypts(d, p) == p.key = None \/ p.key = d.recvKey

(* The proof a migrated peer must show: encrypted feedback that carries    *)
(* the established peer's CNAME.                                           *)
ReassocTrigger(d, p) == p.eap = None /\ p.key # None /\ Decrypts(d, p) /\ d.cname

(* Slip: the migrated peer stays trusted while it proves itself again.     *)
MigrateTrusting(d, src) ==
  [d EXCEPT !.peer = src, !.reauthing = TRUE, !.left = ReauthWindow, !.moved = TRUE]

Migrate(d, src) ==
  [d EXCEPT !.peer = src, !.reauthing = TRUE, !.left = ReauthWindow, !.authed = FALSE, !.moved = TRUE]

Reassociate(e, x, src) ==
  LET o == IF e = "sender" THEN StartClient(RestartClient(x.r)) ELSE StartServer(RestartServer(x.r))
      w == Encode(o.reply)
  IN Bundle([Migrate(x.d, src) EXCEPT !.lastTx = w, !.retx = 0], o.role, <<Eapol(w)>>)

MaybeReassociate(e, x, src, p) ==
  IF x.d.reauthing \/ ~SilentFor(x.d, Dormant) \/ ~ReassocTrigger(x.d, p)
    THEN x ELSE Reassociate(e, x, src)

Foreign(d, src) == SrpAuthed(d) /\ d.peer # "none" /\ d.peer # src

Adopts(d, src) == [d EXCEPT !.peer = IF @ = "none" THEN src ELSE @]

(* on_recv from a source that is the peer or may become it.                *)
Learn(e, x, src) ==
  LET y == [x EXCEPT !.d = Observe(Adopts(@, src))]
  IN MaybeStartEap(e, IF y.d.greeted THEN y ELSE Greet(y))

Feedback(x, p) ==
  IF x.d.authed /\ SrpAuthed(x.d) /\ p.key # None /\ Decrypts(x.d, p)
    THEN [x EXCEPT !.d.cname = TRUE] ELSE x

(* The keepalive arm of the pump, in its order: initial failure, re-auth   *)
(* deadline or expiry, EAP retransmission, beacon.                         *)
Close(x, why) == [x EXCEPT !.d.open = why]

Resend(x) ==
  IF x.d.authed \/ x.d.peer = "none" \/ x.d.lastTx = None THEN x
  ELSE IF x.d.retx < MaxRetx THEN [x EXCEPT !.d.retx = @ + 1, !.out = Append(@, Eapol(x.d.lastTx))]
  ELSE IF x.d.ever THEN x ELSE Close(x, "auth")

Announce(x) ==
  IF x.d.open # "open" \/ x.d.peer = "none" \/ x.d.reauthing THEN x
  ELSE [x EXCEPT !.out = Append(@, Beacon(x.d.sendKey))]

(* Slip: only silence closes a session.                                    *)
TimedOutSilent(d) == Expired(d)

TimedOut(d) == IF d.reauthing THEN d.left = 0 ELSE Expired(d)

OnKeepalive(x) ==
  IF ~x.d.ever /\ Failed(x.r) THEN Close(x, "auth")
  ELSE IF TimedOut(x.d) THEN Close(x, "timeout")
  ELSE Announce(Resend(x))

----------------------------------------------------------------------------
Opened(e, peer, key, r) ==
  LET x == Bundle(NewDriver(peer, key), r, <<>>) IN
  IF e = "sender" \/ peer # "none"
    THEN MaybeStartEap(e, IF peer = "none" THEN [x EXCEPT !.d.greeted = TRUE] ELSE Greet(x))
    ELSE x

Datagrams(e, d, out, from) ==
  [i \in 1..Len(out) |-> [to |-> Other(e), src |-> from, dst |-> d.peer, data |-> out[i]]]

Initial(e, s) ==
  Opened(e, IF e = s.caller THEN "listener" ELSE "none", IF s.psk THEN [psk |-> TRUE] ELSE None,
         IF e = "sender" THEN NewAuthenticatee(s.pw, ~s.psk) ELSE NewAuthenticator(s.ver, ~s.psk, s.id))

AuthStart(s) ==
  /\ psk = s.psk /\ caller = s.caller /\ accept = s.accept
  /\ losses = s.losses /\ copies = s.copies /\ moves = s.moves
  /\ LET x == [e \in Ends |-> Initial(e, s)] IN
     /\ role = [e \in Ends |-> x[e].r]
     /\ drv  = [e \in Ends |-> x[e].d]
     /\ fresh = [e \in Ends |-> IF e = s.caller THEN <<>>
                                ELSE Datagrams(s.caller, x[s.caller].d, x[s.caller].out, "caller")]
  /\ addr = [e \in Ends |-> Home(s.caller, e)]
  /\ stale = {} /\ ticked = {} /\ eph = 0

AuthInit == \E s \in Scenarios : AuthStart(s)

Apply(e, x) ==
  /\ role' = [role EXCEPT ![e] = x.r]
  /\ drv'  = [drv EXCEPT ![e] = x.d]

State(e) == Bundle(drv[e], role[e], <<>>)
IsOpen(e) == drv[e].open = "open"

Draws(r, n) == IF "client" \in DOMAIN r THEN r.client # None /\ r.client.a = n
                                        ELSE r.server # None /\ r.server.b = n

(* on_recv, by the datagram's source and kind: the outcome, in a set.      *)
OnRecv(e, x, src, p) ==
  IF Foreign(x.d, src) THEN {MaybeReassociate(e, x, src, p)}
  ELSE UNION {IF p.eap = None THEN {Feedback(y, p)}
              ELSE {HandleEap(e, y, src, o) :
                      o \in {Handled(e, y.r, p.eap, Parse(p.eap), eph + 1)}} :
                y \in {Learn(e, x, src)}}

(* on_inbound; queues is what is in flight besides m.                      *)
Deliver(m, queues, old) ==
  LET e == m.to
  IN /\ m.dst = addr[e] /\ IsOpen(e)
     /\ \E z \in OnRecv(e, State(e), m.src, m.data) :
          /\ Apply(e, z)
          /\ fresh' = [queues EXCEPT ![Other(e)] = @ \o Datagrams(e, z.d, z.out, addr[e])]
          /\ eph' = IF Draws(z.r, eph + 1) THEN eph + 1 ELSE eph
     /\ stale' = old
     /\ UNCHANGED <<config, addr, ticked, losses, copies, moves>>

Rest(e) == [fresh EXCEPT ![e] = Tail(@)]

Receive(e) == fresh[e] # <<>> /\ Deliver(Head(fresh[e]), Rest(e), stale)

\* The network keeps a copy of what it delivers next ...
Copy(e) ==
  /\ copies > 0 /\ fresh[e] # <<>>
  /\ Head(fresh[e]).data.eap # None /\ Head(fresh[e]) \notin stale
  /\ stale' = stale \cup {Head(fresh[e])}
  /\ copies' = copies - 1
  /\ UNCHANGED <<config, role, drv, addr, fresh, ticked, eph, losses, moves>>

\* ... and delivers it whenever it likes.
ReceiveStale == \E m \in stale : Deliver(m, fresh, stale \ {m})

Lose(e) ==
  /\ losses > 0 /\ fresh[e] # <<>> /\ Head(fresh[e]).data.eap # None
  /\ fresh' = Rest(e)
  /\ losses' = losses - 1
  /\ UNCHANGED <<config, role, drv, addr, stale, ticked, eph, copies, moves>>

\* A datagram to an address nobody holds, or to a driver that has exited.
Undeliverable(e) ==
  /\ fresh[e] # <<>>
  /\ Head(fresh[e]).dst # addr[e] \/ ~IsOpen(e)
  /\ fresh' = Rest(e)
  /\ UNCHANGED <<config, role, drv, addr, stale, ticked, eph, losses, copies, moves>>

Keepalive(e) ==
  /\ e \notin ticked /\ IsOpen(e)
  /\ \E x \in {OnKeepalive(State(e))} :
     /\ Apply(e, x)
     /\ fresh' = [fresh EXCEPT ![Other(e)] = @ \o Datagrams(e, x.d, x.out, addr[e])]
  /\ ticked' = ticked \cup {e}
  /\ UNCHANGED <<config, addr, stale, eph, losses, copies, moves>>

(* A keepalive interval passes: everything sent in it has arrived, is lost *)
(* or has become an old copy.                                              *)
Aged(d) == [d EXCEPT !.silent = IF @ > Timeout THEN @ ELSE @ + 1,
                     !.left = IF @ = 0 THEN 0 ELSE @ - 1]

Elapse ==
  /\ \A e \in Ends : fresh[e] = <<>>
  /\ \A e \in Ends : e \in ticked \/ ~IsOpen(e)
  /\ \E e \in Ends : IsOpen(e)
  /\ drv' = [e \in Ends |-> Aged(drv[e])]
  /\ ticked' = {}
  /\ UNCHANGED <<config, role, addr, fresh, stale, eph, losses, copies, moves>>

\* The NAT in front of the caller gives it another address.
Move ==
  /\ moves > 0
  /\ addr' = [addr EXCEPT ![caller] = "moved"]
  /\ addr[caller] # "moved"
  /\ moves' = moves - 1
  /\ UNCHANGED <<config, role, drv, fresh, stale, ticked, eph, losses, copies>>

AuthProgress ==
  Elapse \/ \E e \in Ends : Receive(e) \/ Undeliverable(e) \/ Keepalive(e)

AuthFaults == ReceiveStale \/ Move \/ \E e \in Ends : Copy(e) \/ Lose(e)

AuthNext == AuthProgress \/ AuthFaults

AuthFairness == WF_authVars(AuthProgress)
AuthSpec == AuthInit /\ [][AuthNext]_authVars /\ AuthFairness

----------------------------------------------------------------------------
(* Properties.                                                             *)

Key(e) == role[e].session
Succeeded(e) == Authenticated(role[e])

\* Type correctness of the driver's records and of the identifiers.
AuthTypeOK ==
  /\ \A e \in Ends :
       /\ role[e].state \in {"Unauth", "InProgress", "Success", "Failed"}
       /\ role[e].id \in 0..IdMod-1
       /\ drv[e].silent \in 0..Timeout+1 /\ drv[e].left \in 0..ReauthWindow
       /\ drv[e].retx \in 0..MaxRetx
       /\ drv[e].open \in {"open", "auth", "timeout"}
  /\ \A e \in Ends : \A i \in 1..Len(fresh[e]) : fresh[e][i].to = e

\* An end that reports success holds a session key, and it holds one only
\* opposite a peer that knows the password (eap.rs: the two proofs).
KeyEarned ==
  \A e \in Ends : /\ Succeeded(e) => Key(e) # None
                  /\ Key(e) # None => role["sender"].pw = "good"

\* Whatever frames are repeated, delayed or mixed between handshakes, two
\* roles that both report success hold the same session key, and an end holds
\* a session key only opposite a peer that knows the password
\* (eap.rs: the identifier gates, the reply cache, restart and the proofs).
SuccessAgrees ==
  /\ Succeeded("sender") /\ Succeeded("receiver") => Key("sender") = Key("receiver")
  /\ KeyEarned

\* A peer that has moved is trusted only after a handshake that was completed
\* from its new address (driver_main.rs: maybe_reassociate, handle_eap).
MigrationReproved ==
  \A e \in Ends : drv[e].moved /\ drv[e].authed => drv[e].proven = drv[e].peer

\* However often the session re-authenticates, the connection callback is
\* asked once per session (driver_main.rs: handle_eap, admit_peer).
AdmittedOnce == \A e \in Ends : drv[e].admitted <= 1

\* The gate in front of media holds through every re-authentication: a moved
\* peer stays out until it is proven anew, and the host is asked once
\* (driver_main.rs: maybe_reassociate, handle_eap, admit_peer).
AdmissionSound == MigrationReproved /\ AdmittedOnce

\* A re-authentication that cannot complete does not hold media for ever:
\* it succeeds or the session closes (driver_main.rs: reauth_deadline).
ReauthEnds ==
  \A e \in Ends : drv[e].reauthing ~> (~drv[e].reauthing \/ ~IsOpen(e))

Ideal == /\ copies = 0 /\ moves = 0 /\ accept
         /\ role["sender"].pw = "good"
BothAuthed == \A e \in Ends : drv[e].authed

\* With a pre-shared secret and a network that loses datagrams but does not
\* hold on to copies, the keepalive-driven retransmissions complete the
\* handshake (driver_main.rs: eap_last_tx, the replay in recv).
AuthCompletes == Ideal /\ psk => <>[]BothAuthed

\* The same without a pre-shared secret.
LossRecovered == Ideal => <>BothAuthed

\* A handshake that does not advance is abandoned: an end that is not
\* authenticated becomes so or closes its session
\* (driver_main.rs: EAP_MAX_RETX).
StalledAbandoned ==
  \A e \in Ends : ~drv[e].authed ~> (drv[e].authed \/ ~IsOpen(e))

\* When both ends are authenticated the receiver encrypts its feedback under
\* the key with which the sender decrypts it (driver_main.rs: on_authenticated).
KeysRolled == BothAuthed => drv["receiver"].sendKey = drv["sender"].recvKey
===============================================================================
