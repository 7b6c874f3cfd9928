-------------------------------- MODULE Frames --------------------------------
(***************************************************************************)
(* One direction of a Main (or, where it says so, Advanced) session between *)
(* the codec that frames datagrams and the driver that takes them apart:    *)
(* GRE sequence and nonce, the passphrase's key and its rotation, the       *)
(* decryptor that follows the inbound nonce and key size, the order in      *)
(* which a datagram is tried as EAPOL, out-of-band, keepalive and data, and *)
(* null-packet deletion.  Keys are terms; a region opened with the wrong    *)
(* term is garbage.  near frames, far receives.                             *)
(***************************************************************************)
EXTENDS Integers, FiniteSets

CONSTANTS
  GreMod,        \* 2^32: values of the GRE sequence
  Reuse,         \* u32::MAX: encryptions under one nonce at the most
  MaxNonces,     \* nonces drawn
  MaxDatagrams,  \* datagrams under way at a time
  MaxEapol,      \* EAPOL datagrams of a session: few against GreMod
  FrameCases     \* the cases of a run

FrameKinds == {"media", "feedback", "keepalive", "bufneg", "oob", "eapol"}

\* kinds: what near sends; psk: a passphrase is configured; srp: an SRP session key is installed on
\* authentication; gated: EAP-SRP guards the session; announces: the peer announces its next nonce (Advanced); restarts:
\* near is replaced by a session with the other key size.
FrameCase == [psk : BOOLEAN, srp : BOOLEAN, gated : BOOLEAN,
              kinds : SUBSET FrameKinds, rotation : Nat, near_bits : {128, 256}, far_bits : {128, 256},
              announces : BOOLEAN, restarts : BOOLEAN]

ASSUME FramesAssumption ==
  /\ GreMod \in Nat \ {0} /\ Reuse \in 1 .. GreMod - 1
  /\ MaxNonces \in Nat /\ MaxDatagrams \in Nat /\ MaxEapol \in Nat
  /\ FrameCases \subseteq FrameCase

VARIABLES
  fcase,
  near,      \* [key, gre_seq, npd, split, authed, fresh, eapols]
  far,       \* [dec, authed, merge]
  drawn,     \* nonces drawn so far
  carried,   \* datagrams under way
  verdict,   \* history: what the last datagram was and was taken for
  spent,     \* history: GRE sequences used under the current nonce
  twice      \* history: one of them was used again

frameVars == <<fcase, near, far, drawn, carried, verdict, spent, twice>>

NoNonce == 0
NoKey == [pw |-> "none", bits |-> 0, nonce |-> NoNonce, used_times |-> 0]
NoNext == [nonce |-> NoNonce, bits |-> 0]
NoDecryptor == [pw |-> "none", bits |-> 0, key |-> <<>>, nonce |-> NoNonce, next |-> NoNext]
NoVerdict == [sent |-> "none", got |-> "none", meant |-> "none", form |-> "none", ready |-> FALSE]

----------------------------------------------------------------------------
(* Keys *)

\* derive_key: a pure function of passphrase, nonce and size.
DeriveKey(pw, nonce, bits) == <<pw, nonce, bits>>

\* Key::new draws its first nonce; a random nonce is one not drawn before.
NewKey(pw, bits) == [pw |-> pw, bits |-> bits, nonce |-> drawn + 1, used_times |-> 0]
NewDecryptor(pw, bits) == [NoDecryptor EXCEPT !.pw = pw, !.bits = bits]

\* Slip: the ceiling is noticed after it is passed.
RotateDueLate(k) == k.used_times > Reuse \/ (fcase.rotation > 0 /\ k.used_times > fcase.rotation)

RotateDue(k) == k.used_times = Reuse \/ (fcase.rotation > 0 /\ k.used_times >= fcase.rotation)

Rekey(k) == [k EXCEPT !.nonce = drawn + 1, !.used_times = 0]
Encrypt(k) == [(IF RotateDue(k) THEN Rekey(k) ELSE k) EXCEPT !.used_times = @ + 1]

Precompute(d, nonce, bits) ==
  IF nonce = NoNonce \/ (nonce = d.nonce /\ bits = d.bits) THEN d
  ELSE [d EXCEPT !.next = [nonce |-> nonce, bits |-> bits]]

\* A changed size forgets what was derived at the old one.
SetKeyBits(d, bits) ==
  IF bits = d.bits THEN d ELSE [d EXCEPT !.bits = bits, !.nonce = NoNonce, !.next = NoNext]

\* Slip: the first change of nonce takes the key that was derived ahead.
DecryptAhead(d, nonce) ==
  IF nonce = d.nonce THEN d
  ELSE [d EXCEPT !.nonce = nonce, !.next = NoNext,
                 !.key = IF d.next # NoNext THEN DeriveKey(d.pw, d.next.nonce, d.next.bits)
                         ELSE DeriveKey(d.pw, nonce, d.bits)]

\* Decryptor::decrypt re-derives whenever the inbound nonce differs; a key that
\* was derived ahead is taken for its own nonce and size only.
Decrypt(d, nonce) ==
  IF nonce = d.nonce THEN d
  ELSE [d EXCEPT !.nonce = nonce,
                 !.key = IF d.next = [nonce |-> nonce, bits |-> d.bits]
                         THEN DeriveKey(d.pw, d.next.nonce, d.next.bits)
                         ELSE DeriveKey(d.pw, nonce, d.bits),
                 !.next = IF @ = [nonce |-> nonce, bits |-> d.bits] THEN NoNext ELSE @]

----------------------------------------------------------------------------
(* Null-packet deletion: "nulls" holds null packets with a filling of their  *)
(* own, "clean" the canonical ones, "plain" none at all.                     *)

Suppress(p) == IF p \in {"nulls", "clean"} THEN "reduced" ELSE p
\* The header extension tells a payload that lacks its nulls.
Marked(p) == p = "reduced"
Expand(p) == IF Marked(p) THEN "clean" ELSE p

\* The payload FEC is computed over.
FecPayload(p) == IF near.npd THEN Expand(Suppress(p)) ELSE p

----------------------------------------------------------------------------
(* Sessions *)

NewNear(c, bits) ==
  [key |-> IF c.psk THEN NewKey("psk", bits) ELSE NoKey, gre_seq |-> 0,
   npd |-> "media" \in c.kinds, split |-> FALSE, authed |-> ~c.gated, fresh |-> TRUE, eapols |-> 0]

NewFar(c) ==
  [dec |-> IF c.psk THEN NewDecryptor("psk", c.far_bits) ELSE NoDecryptor,
   authed |-> ~c.gated, merge |-> FALSE]

FrameStart(c) ==
  /\ fcase = c /\ drawn = IF c.psk THEN 1 ELSE 0
  /\ near = [NewNear(c, c.near_bits) EXCEPT !.key = IF c.psk THEN [@ EXCEPT !.nonce = 1] ELSE @]
  /\ far = NewFar(c)
  /\ carried = {} /\ verdict = NoVerdict /\ spent = {} /\ twice = FALSE

FrameInit == \E c \in FrameCases : FrameStart(c)

HasKey(k) == k # NoKey
HasDecryptor(d) == d # NoDecryptor

\* Both ends have installed what authentication gives them.
CanFrame == /\ near.authed /\ far.authed
         /\ HasKey(near.key) = HasDecryptor(far.dec)

----------------------------------------------------------------------------
(* Framing *)

\* gre::Header and the region behind it, under the key k.
Datagram(kind, version, k, sealed, meant, body) ==
  [kind |-> kind, version |-> version, has_key |-> sealed, bits |-> k.bits,
   nonce |-> k.nonce, seq |-> near.gre_seq, term |-> DeriveKey(k.pw, k.nonce, k.bits),
   meant |-> meant, body |-> body, ready |-> CanFrame]

\* frame, frame_control; EAPOL is never encrypted.  The sequence advances with
\* every datagram, sealed or not.
Framed(kind, version, meant, body) ==
  LET sealed == HasKey(near.key) /\ kind # "eapol"
      k == IF sealed THEN Encrypt(near.key) ELSE near.key
      fresh == k.nonce # near.key.nonce
      used == IF fresh THEN {} ELSE spent
  IN /\ kind \in fcase.kinds /\ Cardinality(carried) < MaxDatagrams
     /\ fresh => drawn < MaxNonces
     /\ drawn' = IF fresh THEN drawn + 1 ELSE drawn
     /\ near' = [near EXCEPT !.key = k, !.gre_seq = (@ + 1) % GreMod,
                            !.eapols = IF kind = "eapol" THEN @ + 1 ELSE @]
     /\ carried' = carried \cup {Datagram(kind, version, k, sealed, meant, body)}
     /\ spent' = IF sealed THEN used \cup {near.gre_seq} ELSE used
     /\ twice' = (twice \/ (sealed /\ near.gre_seq \in used))
     /\ verdict' = NoVerdict
     /\ UNCHANGED <<fcase, far>>

\* drain: media waits for authentication; what the FEC stage is given is what
\* the receiver is meant to see.
SendMedia ==
  /\ near.authed
  /\ \E p \in {"plain", "nulls"} :
       Framed("media", 1, FecPayload(p), IF near.npd THEN Suppress(p) ELSE p)

SendFeedback == Framed("feedback", 1, "none", "none")

\* Capabilities: the L bit.
Caps == IF near.split THEN "split" ELSE "whole"

\* A keepalive of GRE v1 (VERSION_MIN) or one wrapped as VSF.
SendKeepalive == \E version \in {1, 2} : Framed("keepalive", version, Caps, Caps)

\* BufferNegotiation: what a sender retains; a receiver's has none.
SenderMax(role) == IF role = "sender" THEN "max" ELSE "zero"

SendBufferNeg ==
  \E role \in {"sender", "receiver"} : Framed("bufneg", 2, SenderMax(role), SenderMax(role))
SendOob == near.authed /\ Framed("oob", 1, "data", "data")
SendEapol == near.eapols < MaxEapol /\ Framed("eapol", 1, "eap", "eap")

\* A peer that announces the nonce it will use next (external).
AnnounceNonce ==
  /\ fcase.announces /\ HasKey(near.key) /\ Cardinality(carried) < MaxDatagrams
  /\ drawn < MaxNonces
  /\ carried' = carried \cup
       {[kind |-> "future", version |-> 1, has_key |-> FALSE, bits |-> near.key.bits,
         nonce |-> drawn + 1, seq |-> near.gre_seq, term |-> <<>>,
         meant |-> "none", body |-> "none", ready |-> CanFrame]}
  /\ UNCHANGED <<fcase, near, far, drawn, verdict, spent, twice>>

SetNpd ==
  /\ "media" \in fcase.kinds /\ near' = [near EXCEPT !.npd = ~@] /\ verdict' = NoVerdict
  /\ UNCHANGED <<fcase, far, drawn, carried, spent, twice>>

\* A new session in the place of near, with the other key size.
NearRestarts ==
  /\ fcase.restarts /\ near.fresh /\ drawn < MaxNonces
  /\ near' = [NewNear(fcase, IF near.key.bits = 128 THEN 256 ELSE 128)
                EXCEPT !.split = TRUE, !.fresh = FALSE]
  /\ drawn' = drawn + 1 /\ spent' = {}
  /\ UNCHANGED <<fcase, far, carried, verdict, twice>>

\* The handshake completes at either end (MainAuth); without a passphrase the
\* session key is installed, raw and at 256 bits.
SetSendSessionKey ==
  /\ ~near.authed /\ (fcase.srp => drawn < MaxNonces)
  /\ near' = [near EXCEPT !.authed = TRUE,
                          !.key = IF fcase.srp /\ ~HasKey(@) THEN NewKey("K", 256) ELSE @]
  /\ drawn' = IF near'.key # near.key THEN drawn + 1 ELSE drawn
  /\ spent' = IF near'.key # near.key THEN {} ELSE spent
  /\ UNCHANGED <<fcase, far, carried, verdict, twice>>

SetRecvSessionKey ==
  /\ ~far.authed
  /\ far' = [far EXCEPT !.authed = TRUE,
                        !.dec = IF fcase.srp /\ ~HasDecryptor(@) THEN NewDecryptor("K", 256) ELSE @]
  /\ UNCHANGED <<fcase, near, drawn, carried, verdict, spent, twice>>

----------------------------------------------------------------------------
(* Taking apart *)

Unsealed(g) == Decrypt(SetKeyBits(far.dec, g.bits), g.nonce)
KeyOpens(g) == g.has_key /\ HasDecryptor(far.dec)

\* The region behind the header, or why there is none.
Region(g) ==
  IF ~g.has_key THEN g.body
  ELSE IF ~HasDecryptor(far.dec) THEN "refused"
  ELSE IF Unsealed(g).key = g.term THEN g.body ELSE "garbage"

\* unwrap_region: cleartext is refused once a decryptor is set.
UnwrapRegion(g) == IF ~g.has_key /\ HasDecryptor(far.dec) THEN "refused" ELSE Region(g)

\* VsfProto: the control kinds of GRE v2.
Wrapped(g) == g.version = 2

\* What on_recv makes of a datagram: EAPOL first, then the gate, then the kinds
\* that take cleartext, then data.
TakenAs(g) ==
  CASE g.kind = "eapol" -> "eap"
    [] g.kind # "eapol" /\ ~far.authed -> "refused"
    [] g.kind = "oob" /\ far.authed -> Region(g)
    [] g.kind = "keepalive" /\ ~Wrapped(g) /\ far.authed -> Region(g)
    [] OTHER -> UnwrapRegion(g)

\* Keepalive::parse: whether the peer splits.
Advertised(g) == IF g.kind = "keepalive" THEN TakenAs(g) ELSE "none"

\* decode_media_main expands what the header extension marks.
Form(g) == IF g.kind = "media" THEN Expand(TakenAs(g)) ELSE TakenAs(g)

Judged(g) ==
  [sent |-> g.kind, meant |-> g.meant, ready |-> g.ready, form |-> Form(g),
   got |-> IF TakenAs(g) \in {"refused", "garbage"} THEN TakenAs(g) ELSE g.kind]

\* The decryptor follows every sealed datagram it is given, EAPOL and what the
\* gate refuses excepted.
Follows(g) == far.authed /\ KeyOpens(g)

ReceiveFrame ==
  \E g \in carried :
    /\ g.kind # "future"
    /\ carried' = carried \ {g}
    /\ verdict' = Judged(g)
    /\ far' = [far EXCEPT !.dec = IF Follows(g) THEN Unsealed(g) ELSE @,
                          !.merge = IF Advertised(g) \in {"split", "whole"}
                                    THEN Advertised(g) = "split" ELSE @]
    /\ UNCHANGED <<fcase, near, drawn, spent, twice>>

\* decode_control_msg: a decryptor concern only.
ReceiveNonce ==
  \E g \in carried :
    /\ g.kind = "future"
    /\ carried' = carried \ {g}
    /\ far' = [far EXCEPT !.dec = IF HasDecryptor(@) THEN Precompute(@, g.nonce, g.bits) ELSE @]
    /\ verdict' = NoVerdict
    /\ UNCHANGED <<fcase, near, drawn, spent, twice>>

LoseFrame ==
  /\ \E g \in carried : carried' = carried \ {g}
  /\ UNCHANGED <<fcase, near, far, drawn, verdict, spent, twice>>

FrameNext == \/ SendMedia \/ SendFeedback \/ SendKeepalive \/ SendBufferNeg \/ SendOob
             \/ SendEapol \/ AnnounceNonce \/ SetNpd \/ NearRestarts
             \/ SetSendSessionKey \/ SetRecvSessionKey
             \/ ReceiveFrame \/ ReceiveNonce \/ LoseFrame

FrameSpec == FrameInit /\ [][FrameNext]_frameVars

----------------------------------------------------------------------------
(* Properties *)

\* Whatever is late, lost or out of order while nonces rotate, a next one is
\* announced, a session with another key size takes over and the two ends
\* install a session key at different moments: nothing is taken for what it is
\* not (on_recv), a payload has the form its FEC was computed over
\* (fec_payload), and what is framed once both ends are ready is understood.
Understood ==
  /\ verdict.got # "garbage"
  /\ verdict.got \notin {"none", "refused"} => verdict.form = verdict.meant
  /\ verdict.ready => verdict.got # "refused"

\* "The per-packet seq in the high bytes gives every packet a disjoint keystream
\* window" (build_iv): a sequence is used once under a nonce, although it wraps
\* and the unsealed EAPOL datagrams advance it as well.
KeystreamOnce == ~twice
=============================================================================
