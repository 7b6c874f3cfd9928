----------------------------- MODULE FramesProofs -----------------------------
(***************************************************************************)
(* No keystream is used twice, and nothing is taken for what it is not: for *)
(* every modulus of the GRE sequence, ceiling of a nonce, rotation, number  *)
(* of datagrams under way and order of their arrival.                       *)
(***************************************************************************)
EXTENDS Frames, TLAPS

USE FramesAssumption

Keys == [pw: {"none", "psk", "K"}, bits: Nat, nonce: Nat, used_times: 0 .. Reuse]
Nears == [key: Keys, gre_seq: 0 .. GreMod - 1, npd: BOOLEAN, split: BOOLEAN,
          authed: BOOLEAN, fresh: BOOLEAN, eapols: 0 .. MaxEapol]

\* How many datagrams before the next one the sequence s was used.
Back(s) == IF s < near.gre_seq THEN near.gre_seq - s ELSE near.gre_seq + GreMod - s

\* What the sending end may hold: nothing is spent without a key.
NearType ==
  /\ fcase \in FrameCases
  /\ near \in Nears /\ drawn \in Nat /\ near.key.nonce <= drawn
  /\ spent \subseteq 0 .. GreMod - 1
  /\ ~HasKey(near.key) => spent = {}

\* Every sequence spent under the nonce lies no farther back than the datagrams
\* the nonce has sealed and the unsealed ones that may have come between.
SpentBack == \A s \in spent : Back(s) <= near.key.used_times + near.eapols

KInv == NearType /\ SpentBack /\ ~twice

-----------------------------------------------------------------------------

\* The sequence after this one.
LEMMA NextSeq ==
  ASSUME NEW q \in 0 .. GreMod - 1
  PROVE  /\ (q + 1) % GreMod \in 0 .. GreMod - 1
         /\ (q + 1) % GreMod = IF q + 1 = GreMod THEN 0 ELSE q + 1
  OBVIOUS

\* A key's count and nonce after one more region is sealed under it.
LEMMA EncryptType ==
  ASSUME NearType
  PROVE  /\ Encrypt(near.key) \in Keys
         /\ Encrypt(near.key).nonce \in {near.key.nonce, drawn + 1}
         /\ Encrypt(near.key).nonce = near.key.nonce =>
              /\ near.key.used_times < Reuse
              /\ Encrypt(near.key).used_times = near.key.used_times + 1
         /\ Encrypt(near.key).nonce # near.key.nonce => Encrypt(near.key).used_times = 1
         /\ HasKey(near.key) => HasKey(Encrypt(near.key))
  <1> DEFINE k == near.key
  <1>1. k \in Keys /\ drawn \in Nat /\ k.nonce <= drawn BY DEF NearType, Nears
  <1> HIDE DEF k
  <1>2. CASE RotateDue(k)
    <2>0. Rekey(k) = [pw |-> k.pw, bits |-> k.bits, nonce |-> drawn + 1, used_times |-> 0]
      <3> DEFINE renewed == [k EXCEPT !.nonce = drawn + 1]
      <3>1. k = [pw |-> k.pw, bits |-> k.bits, nonce |-> k.nonce, used_times |-> k.used_times]
        BY <1>1 DEF Keys
      <3>2. renewed = [pw |-> k.pw, bits |-> k.bits, nonce |-> drawn + 1,
                       used_times |-> k.used_times]
        BY <3>1
      <3>3. Rekey(k) = [renewed EXCEPT !.used_times = 0] BY DEF Rekey
      <3> HIDE DEF renewed
      <3> QED BY <3>2, <3>3
    <2>1. Encrypt(k) = [pw |-> k.pw, bits |-> k.bits, nonce |-> drawn + 1, used_times |-> 1]
      BY <1>2, <2>0 DEF Encrypt
    <2>2. drawn + 1 # k.nonce BY <1>1 DEF Keys
    <2>3. HasKey(k) => HasKey(Encrypt(k)) BY <1>1, <2>1 DEF HasKey, NoKey, Keys
    <2> QED BY <1>1, <2>1, <2>2, <2>3 DEF Keys, k
  <1>3. CASE ~RotateDue(k)
    <2>1. Encrypt(k) = [pw |-> k.pw, bits |-> k.bits, nonce |-> k.nonce,
                        used_times |-> k.used_times + 1]
      BY <1>1, <1>3 DEF Encrypt, Keys
    <2>2. k.used_times < Reuse BY <1>1, <1>3 DEF RotateDue, Keys
    <2>3. HasKey(k) => HasKey(Encrypt(k)) BY <1>1, <2>1 DEF HasKey, NoKey, Keys
    <2> QED BY <1>1, <2>1, <2>2, <2>3 DEF Keys, k
  <1> QED BY <1>2, <1>3

\* Framing a datagram, of whichever kind and under whichever key.
LEMMA FramedStep ==
  ASSUME Reuse + MaxEapol <= GreMod, KInv,
         NEW kind \in FrameKinds, NEW version, NEW meant, NEW body,
         Framed(kind, version, meant, body), kind = "eapol" => near.eapols < MaxEapol
  PROVE  KInv'
  <1> DEFINE sealed == HasKey(near.key) /\ kind # "eapol"
             k == IF sealed THEN Encrypt(near.key) ELSE near.key
             fresh == k.nonce # near.key.nonce
             used == IF fresh THEN {} ELSE spent
             e == IF kind = "eapol" THEN near.eapols + 1 ELSE near.eapols
             n == near.key.used_times
             q == near.gre_seq
  <1>1. /\ near \in Nears /\ drawn \in Nat /\ near.key.nonce <= drawn
        /\ near.key \in Keys /\ q \in 0 .. GreMod - 1 /\ near.eapols \in 0 .. MaxEapol
        /\ n \in 0 .. Reuse /\ spent \subseteq 0 .. GreMod - 1
        /\ fcase \in FrameCases
    BY DEF KInv, NearType, Nears, Keys
  <1>2. /\ k \in Keys
        /\ k.nonce \in {near.key.nonce, drawn + 1}
        /\ sealed /\ ~fresh => n < Reuse /\ k.used_times = n + 1
        /\ fresh => sealed /\ k.used_times = 1
        /\ ~sealed => k.used_times = n
        /\ HasKey(k) <=> HasKey(near.key)
    BY <1>1, EncryptType, SMTT(30) DEF KInv
  <1>3. /\ drawn' = (IF fresh THEN drawn + 1 ELSE drawn)
        /\ near' = [near EXCEPT !.key = k, !.gre_seq = (q + 1) % GreMod, !.eapols = e]
        /\ spent' = (IF sealed THEN used \cup {q} ELSE used)
        /\ twice' = (twice \/ (sealed /\ q \in used))
        /\ fcase' = fcase
    BY DEF Framed
  <1>4. e \in 0 .. MaxEapol BY <1>1
  <1>5. (q + 1) % GreMod \in 0 .. GreMod - 1 BY <1>1, NextSeq
  <1> HIDE DEF k, e
  <1>6. /\ near' \in Nears /\ near'.key = k /\ near'.eapols = e
        /\ near'.gre_seq = (q + 1) % GreMod
    <2>1. near' = [key |-> k, gre_seq |-> (q + 1) % GreMod, npd |-> near.npd,
                   split |-> near.split, authed |-> near.authed, fresh |-> near.fresh,
                   eapols |-> e]
      BY <1>1, <1>3 DEF Nears
    <2> QED BY <1>1, <1>2, <1>4, <1>5, <2>1 DEF Nears
  <1>7. drawn' \in Nat /\ near'.key.nonce <= drawn'
    BY <1>1, <1>2, <1>3, <1>6
  <1>8. spent' \subseteq 0 .. GreMod - 1 BY <1>1, <1>3
  <1>9. ~HasKey(near'.key) => spent' = {}
    <2>1. ~HasKey(near.key) => spent = {} BY DEF KInv, NearType
    <2> QED BY <1>2, <1>3, <1>6, <2>1
  <1>10. ASSUME NEW s \in used
         PROVE  /\ s \in 0 .. GreMod - 1 /\ ~fresh
                /\ Back(s) <= n + near.eapols
    BY <1>1 DEF KInv, SpentBack
  <1>11. ~twice'
    <2>1. CASE sealed /\ q \in used
      <3>1. Back(q) <= n + near.eapols /\ n < Reuse BY <1>2, <1>10, <2>1
      <3>2. Back(q) = GreMod BY <1>1 DEF Back
      <3> QED BY <1>1, <3>1, <3>2
    <2>2. CASE ~(sealed /\ q \in used) BY <1>3, <2>2 DEF KInv
    <2> QED BY <2>1, <2>2
  <1>12. SpentBack'
    <2> SUFFICES ASSUME NEW s \in spent' PROVE Back(s)' <= near'.key.used_times + near'.eapols
      BY DEF SpentBack
    <2>1. near'.gre_seq = IF q + 1 = GreMod THEN 0 ELSE q + 1
      BY <1>1, <1>6, NextSeq
    <2>2. k.used_times \in Nat /\ e \in Nat /\ e >= near.eapols
      BY <1>1, <1>2, <1>4 DEF Keys, e
    <2>3. CASE s \in used
      <3>1. s \in 0 .. GreMod - 1 /\ Back(s) <= n + near.eapols /\ ~fresh
        BY <1>10, <2>3
      <3>2. s # q \/ ~sealed
        BY <1>3, <1>11, <2>3
      <3>3. Back(s)' <= Back(s) + 1
        BY <1>1, <2>1, <3>1 DEF Back
      <3>4. CASE sealed
        BY <1>1, <1>2, <1>6, <2>2, <3>1, <3>3, <3>4 DEF Back
      <3>5. CASE ~sealed
        <4>1. HasKey(near.key) BY <2>3, <3>1 DEF KInv, NearType
        <4>2. kind = "eapol" BY <3>5, <4>1
        <4>3. e = near.eapols + 1 BY <4>2 DEF e
        <4> QED BY <1>1, <1>2, <1>6, <3>1, <3>3, <3>5, <4>3 DEF Back
      <3> QED BY <3>4, <3>5
    <2>4. CASE s \notin used
      <3>1. s = q /\ sealed BY <1>3, <2>4
      <3>2. Back(s)' = 1 BY <1>1, <2>1, <3>1 DEF Back
      <3>3. k.used_times >= 1 BY <1>1, <1>2, <3>1
      <3> QED BY <1>6, <2>2, <3>2, <3>3
    <2> QED BY <2>3, <2>4
  <1> QED BY <1>1, <1>3, <1>6, <1>7, <1>8, <1>9, <1>11, <1>12 DEF KInv, NearType

\* A key that has sealed nothing, and a session that starts with it.
LEMMA NewNearType ==
  ASSUME NEW c \in FrameCases, NEW bits \in {128, 256}, drawn \in Nat
  PROVE  /\ NewNear(c, bits) \in Nears
         /\ c.psk => NewNear(c, bits).key.nonce = drawn + 1
         /\ ~c.psk => NewNear(c, bits).key = NoKey
         /\ NoKey \in Keys
  <1>1. c.psk \in BOOLEAN /\ c.gated \in BOOLEAN BY DEF FrameCase
  <1>2. NoKey \in Keys BY DEF NoKey, Keys, NoNonce
  <1>3. NewKey("psk", bits) \in Keys /\ NewKey("psk", bits).nonce = drawn + 1
    BY DEF NewKey, Keys
  <1> QED BY <1>1, <1>2, <1>3 DEF NewNear, Nears

LEMMA KInit == FrameInit => KInv
  <1> SUFFICES ASSUME NEW c \in FrameCases, FrameStart(c) PROVE KInv BY DEF FrameInit
  <1> DEFINE m == NewNear(c, c.near_bits)
             key == IF c.psk THEN [m.key EXCEPT !.nonce = 1] ELSE m.key
  <1>1. /\ fcase = c /\ drawn = (IF c.psk THEN 1 ELSE 0) /\ spent = {} /\ ~twice
        /\ near = [m EXCEPT !.key = key]
    BY DEF FrameStart
  <1>2. c.psk \in BOOLEAN /\ c.near_bits \in {128, 256} BY DEF FrameCase
  <1>3. drawn \in Nat BY <1>1
  <1>4. m \in Nears /\ (~c.psk => m.key = NoKey) /\ NoKey \in Keys
    BY <1>2, <1>3, NewNearType
  <1> HIDE DEF m
  <1>5. m.key \in Keys BY <1>4 DEF Nears
  <1>6. key \in Keys /\ key.nonce <= drawn
    BY <1>1, <1>2, <1>4, <1>5 DEF Keys, NoKey, NoNonce
  <1> HIDE DEF key
  <1>7. near \in Nears /\ near.key = key BY <1>1, <1>4, <1>6 DEF Nears
  <1> QED BY <1>1, <1>3, <1>6, <1>7 DEF KInv, NearType, SpentBack

\* A new session, or a session key: nothing is spent under its nonce.
LEMMA RestartStep == ASSUME KInv, NearRestarts PROVE KInv'
  <1> DEFINE bits == IF near.key.bits = 128 THEN 256 ELSE 128
             m == NewNear(fcase, bits)
  <1>1. fcase \in FrameCases /\ drawn \in Nat BY DEF KInv, NearType
  <1>2. m \in Nears /\ (fcase.psk => m.key.nonce = drawn + 1)
        /\ (~fcase.psk => m.key = NoKey)
    BY <1>1, NewNearType
  <1>3. /\ near' = [m EXCEPT !.split = TRUE, !.fresh = FALSE]
        /\ drawn' = drawn + 1 /\ spent' = {} /\ fcase' = fcase /\ twice' = twice
    BY DEF NearRestarts
  <1> HIDE DEF m
  <1>4. near' \in Nears /\ near'.key = m.key BY <1>2, <1>3 DEF Nears
  <1>5. fcase.psk \in BOOLEAN BY <1>1 DEF FrameCase
  <1>6. near'.key.nonce <= drawn' BY <1>1, <1>2, <1>3, <1>4, <1>5 DEF NoKey, NoNonce
  <1> QED BY <1>1, <1>3, <1>4, <1>6 DEF KInv, NearType, SpentBack

LEMMA SessionKeyStep == ASSUME KInv, SetSendSessionKey PROVE KInv'
  <1> DEFINE key == IF fcase.srp /\ ~HasKey(near.key) THEN NewKey("K", 256) ELSE near.key
  <1>1. /\ fcase \in FrameCases /\ drawn \in Nat /\ near \in Nears /\ near.key \in Keys
        /\ near.key.nonce <= drawn
    BY DEF KInv, NearType, Nears
  <1>2. /\ near' = [near EXCEPT !.authed = TRUE, !.key = key]
        /\ drawn' = (IF near'.key # near.key THEN drawn + 1 ELSE drawn)
        /\ spent' = (IF near'.key # near.key THEN {} ELSE spent)
        /\ fcase' = fcase /\ twice' = twice
    BY DEF SetSendSessionKey
  <1>3. key \in Keys /\ (key = near.key \/ key.nonce = drawn + 1)
    BY <1>1 DEF NewKey, Keys
  <1> HIDE DEF key
  <1>4. /\ near' \in Nears /\ near'.key = key /\ near'.gre_seq = near.gre_seq
        /\ near'.eapols = near.eapols
    BY <1>1, <1>2, <1>3 DEF Nears
  <1>5. CASE key = near.key
    <2>1. spent' = spent /\ drawn' = drawn BY <1>2, <1>4, <1>5
    <2>2. SpentBack' BY <1>4, <1>5, <2>1 DEF KInv, SpentBack, Back
    <2> QED BY <1>1, <1>2, <1>4, <1>5, <2>1, <2>2 DEF KInv, NearType
  <1>6. CASE key # near.key
    <2>1. spent' = {} /\ drawn' = drawn + 1 /\ key.nonce = drawn + 1
      BY <1>2, <1>3, <1>4, <1>6
    <2> QED BY <1>1, <1>2, <1>4, <2>1 DEF KInv, NearType, SpentBack
  <1> QED BY <1>5, <1>6

\* The other steps do not touch what the sending end has used.
LEMMA OtherStep ==
  ASSUME KInv, UNCHANGED <<fcase, drawn, spent, twice>>,
         near' = near \/ near' = [near EXCEPT !.npd = ~@]
  PROVE  KInv'
  <1>1. near \in Nears BY DEF KInv, NearType
  <1>2. /\ near' \in Nears /\ near'.key = near.key /\ near'.gre_seq = near.gre_seq
        /\ near'.eapols = near.eapols
    BY <1>1 DEF Nears
  <1>3. SpentBack' BY <1>2 DEF KInv, SpentBack, Back
  <1> QED BY <1>2, <1>3 DEF KInv, NearType

LEMMA KStep ==
  ASSUME Reuse + MaxEapol <= GreMod PROVE KInv /\ [FrameNext]_frameVars => KInv'
  <1> SUFFICES ASSUME KInv, [FrameNext]_frameVars PROVE KInv' OBVIOUS
  <1>1. CASE SendMedia
    <2>1. "media" \in FrameKinds BY DEF FrameKinds
    <2> QED BY <1>1, <2>1, FramedStep DEF SendMedia
  <1>2. CASE SendFeedback
    <2>1. "feedback" \in FrameKinds BY DEF FrameKinds
    <2> QED BY <1>2, <2>1, FramedStep DEF SendFeedback
  <1>3. CASE SendKeepalive
    <2>1. "keepalive" \in FrameKinds BY DEF FrameKinds
    <2> QED BY <1>3, <2>1, FramedStep DEF SendKeepalive
  <1>4. CASE SendBufferNeg
    <2>1. "bufneg" \in FrameKinds BY DEF FrameKinds
    <2> QED BY <1>4, <2>1, FramedStep DEF SendBufferNeg
  <1>5. CASE SendOob
    <2>1. "oob" \in FrameKinds BY DEF FrameKinds
    <2> QED BY <1>5, <2>1, FramedStep DEF SendOob
  <1>6. CASE SendEapol
    <2>1. "eapol" \in FrameKinds BY DEF FrameKinds
    <2> QED BY <1>6, <2>1, FramedStep DEF SendEapol
  <1>7. CASE AnnounceNonce BY <1>7, OtherStep DEF AnnounceNonce
  <1>8. CASE SetNpd BY <1>8, OtherStep DEF SetNpd
  <1>9. CASE SetRecvSessionKey \/ ReceiveFrame \/ ReceiveNonce \/ LoseFrame
    BY <1>9, OtherStep DEF SetRecvSessionKey, ReceiveFrame, ReceiveNonce, LoseFrame
  <1>10. CASE UNCHANGED frameVars BY <1>10, OtherStep DEF frameVars
  <1> QED BY <1>1, <1>2, <1>3, <1>4, <1>5, <1>6, <1>7, <1>8, <1>9, <1>10,
             RestartStep, SessionKeyStep DEF FrameNext

\* No keystream window is used twice, whatever is framed, lost and announced and
\* whenever nonces rotate, as long as the ceiling of a nonce and the unsealed
\* datagrams of a session together do not exceed the GRE sequence's modulus:
\* rotate_due counts only what it seals, and the sequence counts more.
THEOREM KeystreamNeverReused ==
  ASSUME Reuse + MaxEapol <= GreMod PROVE FrameSpec => []KeystreamOnce
  <1>1. FrameInit => KInv BY KInit
  <1>2. KInv /\ [FrameNext]_frameVars => KInv' BY KStep
  <1>3. KInv => KeystreamOnce BY DEF KInv, KeystreamOnce
  <1> QED BY <1>1, <1>2, <1>3, PTL DEF FrameSpec

-----------------------------------------------------------------------------
(* What is taken apart: the key a region was sealed under and the key the    *)
(* decryptor opens it with are derived from the same three things.           *)

\* The one secret the two ends of a case can share.
Secret == IF fcase.psk THEN "psk" ELSE "K"

NearOK ==
  /\ fcase \in FrameCases /\ drawn \in Nat
  /\ DOMAIN near = {"key", "gre_seq", "npd", "split", "authed", "fresh", "eapols"}
  /\ DOMAIN near.key = DOMAIN NoKey
  /\ HasKey(near.key) => near.key.pw = Secret /\ near.key.nonce # NoNonce
  /\ fcase.psk => HasKey(near.key)

\* A decryptor: what it has derived belongs to the nonce and the size it holds.
DecOK(d) ==
  /\ DOMAIN d = DOMAIN NoDecryptor
  /\ HasDecryptor(d) => d.pw = Secret
  /\ d.nonce # NoNonce => d.key = DeriveKey(d.pw, d.nonce, d.bits)

FarOK ==
  /\ DOMAIN far = {"dec", "authed", "merge"} /\ DecOK(far.dec)
  /\ fcase.psk => HasDecryptor(far.dec)

\* A datagram under way.  One that was framed when both ends were ready meets a
\* decryptor if and only if it is sealed, however late it arrives.
GramOK(g) ==
  g.kind # "future" =>
    /\ g.kind \in FrameKinds
    /\ g.has_key => /\ g.kind # "eapol" /\ g.nonce # NoNonce
                    /\ g.term = DeriveKey(Secret, g.nonce, g.bits)
    /\ g.body \notin {"refused", "garbage"}
    /\ g.meant = IF g.kind = "media" THEN Expand(g.body) ELSE g.body
    /\ g.kind = "eapol" => g.body = "eap"
    /\ g.has_key \in BOOLEAN
    /\ g.ready /\ g.kind # "eapol" => far.authed /\ g.has_key = HasDecryptor(far.dec)

UInv == NearOK /\ FarOK /\ (\A g \in carried : GramOK(g)) /\ Understood

\* One more region under a key keeps its passphrase and gives it a nonce.
LEMMA EncryptKeeps ==
  ASSUME NearOK, HasKey(near.key)
  PROVE  /\ DOMAIN Encrypt(near.key) = DOMAIN NoKey
         /\ Encrypt(near.key).pw = Secret /\ Encrypt(near.key).nonce # NoNonce
  <1> DEFINE k == near.key
             r == IF RotateDue(k) THEN Rekey(k) ELSE k
  <1>1. /\ DOMAIN k = {"pw", "bits", "nonce", "used_times"} /\ k.pw = Secret
        /\ k.nonce # NoNonce /\ drawn \in Nat
    BY DEF NearOK, NoKey
  <1> HIDE DEF k
  <1>2. /\ DOMAIN Rekey(k) = {"pw", "bits", "nonce", "used_times"}
        /\ Rekey(k).pw = k.pw /\ Rekey(k).nonce = drawn + 1
    BY <1>1 DEF Rekey
  <1>3. DOMAIN r = {"pw", "bits", "nonce", "used_times"} /\ r.pw = Secret /\ r.nonce # NoNonce
    BY <1>1, <1>2 DEF NoNonce
  <1>4. Encrypt(k) = [r EXCEPT !.used_times = @ + 1] BY DEF Encrypt
  <1> HIDE DEF r
  <1>5. /\ DOMAIN Encrypt(k) = {"pw", "bits", "nonce", "used_times"}
        /\ Encrypt(k).pw = r.pw /\ Encrypt(k).nonce = r.nonce
    BY <1>3, <1>4
  <1> QED BY <1>3, <1>5 DEF k, NoKey

\* A key with a passphrase is a key.
LEMMA SecretIsKey ==
  ASSUME NEW k, k.pw = Secret PROVE HasKey(k)
  <1>1. Secret # "none" BY DEF Secret
  <1>2. NoKey.pw = "none" BY DEF NoKey
  <1> QED BY <1>1, <1>2 DEF HasKey

LEMMA SecretIsDecryptor ==
  ASSUME NEW d, d.pw = Secret PROVE HasDecryptor(d)
  <1>1. Secret # "none" BY DEF Secret
  <1>2. NoDecryptor.pw = "none" BY DEF NoDecryptor
  <1> QED BY <1>1, <1>2 DEF HasDecryptor

\* Framing: the datagram is sealed under the shared secret if a key is there.
LEMMA UFramed ==
  ASSUME UInv, NEW kind \in FrameKinds, NEW version, NEW meant, NEW body,
         Framed(kind, version, meant, body),
         body \notin {"refused", "garbage"},
         meant = IF kind = "media" THEN Expand(body) ELSE body,
         kind = "eapol" => body = "eap"
  PROVE  UInv'
  <1> DEFINE sealed == HasKey(near.key) /\ kind # "eapol"
             k == IF sealed THEN Encrypt(near.key) ELSE near.key
             fresh == k.nonce # near.key.nonce
             e == IF kind = "eapol" THEN near.eapols + 1 ELSE near.eapols
             g == Datagram(kind, version, k, sealed, meant, body)
  <1>1. /\ near' = [near EXCEPT !.key = k, !.gre_seq = (near.gre_seq + 1) % GreMod, !.eapols = e]
        /\ drawn' = (IF fresh THEN drawn + 1 ELSE drawn)
        /\ carried' = carried \cup {g}
        /\ verdict' = NoVerdict /\ fcase' = fcase /\ far' = far
    BY DEF Framed
  <1>2. Secret' = Secret BY <1>1 DEF Secret
  <1>3. NearOK BY DEF UInv
  <1>4. /\ DOMAIN k = DOMAIN NoKey
        /\ HasKey(k) => k.pw = Secret /\ k.nonce # NoNonce
        /\ HasKey(near.key) => HasKey(k)
        /\ sealed => k.pw = Secret /\ k.nonce # NoNonce
    <2>1. CASE sealed
      <3>1. DOMAIN k = DOMAIN NoKey /\ k.pw = Secret /\ k.nonce # NoNonce
        BY <1>3, <2>1, EncryptKeeps
      <3>2. HasKey(k) BY <3>1, SecretIsKey
      <3> QED BY <3>1, <3>2
    <2>2. CASE ~sealed
      <3>1. k = near.key BY <2>2
      <3> QED BY <1>3, <2>2, <3>1, Zenon DEF NearOK
    <2> QED BY <2>1, <2>2
  <1>5. g.ready = CanFrame /\ g.kind = kind /\ g.has_key = sealed /\ g.nonce = k.nonce
        /\ g.bits = k.bits /\ g.term = DeriveKey(k.pw, k.nonce, k.bits)
        /\ g.meant = meant /\ g.body = body
    BY DEF Datagram
  <1> HIDE DEF k, g, e
  <1>6. NearOK'
    <2>1. DOMAIN near' = DOMAIN near /\ near'.key = k
      BY <1>1, <1>3 DEF NearOK
    <2>2. drawn' \in Nat BY <1>1, <1>3 DEF NearOK
    <2>3. fcase' \in FrameCases BY <1>1, <1>3 DEF NearOK
    <2>4. fcase'.psk => HasKey(near'.key) BY <1>1, <1>3, <1>4, <2>1 DEF NearOK
    <2> QED BY <1>2, <1>3, <1>4, <2>1, <2>2, <2>3, <2>4 DEF NearOK, HasKey
  <1>7. FarOK' BY <1>1, <1>2 DEF UInv, FarOK, DecOK
  <1>8. ASSUME NEW x, x = g PROVE GramOK(x)'
    <2>1. sealed \in BOOLEAN BY DEF HasKey
    <2>2. g.has_key => /\ kind # "eapol" /\ g.nonce # NoNonce
                       /\ g.term = DeriveKey(Secret, g.nonce, g.bits)
      BY <1>4, <1>5
    <2>3. g.ready /\ kind # "eapol" => far.authed /\ g.has_key = HasDecryptor(far.dec)
      <3> SUFFICES ASSUME g.ready, kind # "eapol"
                   PROVE  far.authed /\ g.has_key = HasDecryptor(far.dec)
        OBVIOUS
      <3>1. CanFrame BY <1>5
      <3>2. far.authed /\ HasKey(near.key) = HasDecryptor(far.dec) BY <3>1 DEF CanFrame
      <3>3. sealed = HasKey(near.key) BY <2>1 DEF HasKey
      <3> QED BY <1>5, <3>2, <3>3
    <2> HIDE DEF sealed
    <2>4. x.kind = kind /\ x.has_key = sealed /\ x.meant = meant /\ x.body = body BY <1>5, <1>8
    <2>5. x.has_key => /\ x.kind # "eapol" /\ x.nonce # NoNonce
                       /\ x.term = DeriveKey(Secret', x.nonce, x.bits)
      BY <1>2, <1>8, <2>2, <2>4
    <2>6. x.ready /\ x.kind # "eapol" => far'.authed /\ x.has_key = HasDecryptor(far'.dec)
      BY <1>1, <1>8, <2>3, <2>4, Zenon
    <2>7. x.meant = IF x.kind = "media" THEN Expand(x.body) ELSE x.body BY <2>4
    <2>8. x.has_key \in BOOLEAN BY <2>1, <2>4
    <2> QED BY <2>4, <2>5, <2>6, <2>7, <2>8, Zenon DEF GramOK
  <1>9. ASSUME NEW h \in carried PROVE GramOK(h)'
    BY <1>1, <1>2 DEF UInv, GramOK
  <1>10. Understood' BY <1>1 DEF Understood, NoVerdict
  <1> QED BY <1>1, <1>6, <1>7, <1>8, <1>9, <1>10 DEF UInv

-----------------------------------------------------------------------------

\* Following a size and a nonce keeps a decryptor's key the derived one.
LEMMA FollowKeeps ==
  ASSUME NEW d, DecOK(d), HasDecryptor(d), NEW bits, NEW nonce, nonce # NoNonce
  PROVE  LET u == Decrypt(SetKeyBits(d, bits), nonce)
         IN  /\ DecOK(u) /\ HasDecryptor(u)
             /\ u.key = DeriveKey(Secret, nonce, bits)
  <1> DEFINE s == SetKeyBits(d, bits)
             fit == s.next = [nonce |-> nonce, bits |-> s.bits]
             key == IF fit THEN DeriveKey(s.pw, s.next.nonce, s.next.bits)
                    ELSE DeriveKey(s.pw, nonce, s.bits)
             next == IF fit THEN NoNext ELSE s.next
             u == Decrypt(s, nonce)
             Fields == {"pw", "bits", "key", "nonce", "next"}
  <1>1. /\ DOMAIN d = Fields /\ d.pw = Secret
        /\ d.nonce # NoNonce => d.key = DeriveKey(d.pw, d.nonce, d.bits)
    BY DEF DecOK, NoDecryptor
  <1>2. /\ DOMAIN s = Fields /\ s.pw = Secret /\ s.bits = bits
        /\ s.nonce # NoNonce => s.key = DeriveKey(s.pw, s.nonce, s.bits)
    <2>1. CASE bits = d.bits BY <1>1, <2>1 DEF SetKeyBits
    <2>2. CASE bits # d.bits
      <3> DEFINE a == [d EXCEPT !.bits = bits]
                 b == [a EXCEPT !.nonce = NoNonce]
      <3>1. DOMAIN a = Fields /\ a.pw = d.pw /\ a.bits = bits BY <1>1
      <3> HIDE DEF a
      <3>2. DOMAIN b = Fields /\ b.pw = d.pw /\ b.bits = bits /\ b.nonce = NoNonce BY <3>1
      <3>3. s = [b EXCEPT !.next = NoNext] BY <2>2 DEF SetKeyBits, a
      <3> HIDE DEF b, s
      <3> QED BY <1>1, <3>2, <3>3
    <2> QED BY <2>1, <2>2
  <1> HIDE DEF s
  <1>3. key = DeriveKey(s.pw, nonce, s.bits)
    <2>1. fit => s.next.nonce = nonce /\ s.next.bits = s.bits OBVIOUS
    <2> QED BY <2>1
  <1>4. /\ DOMAIN u = Fields /\ u.pw = Secret /\ u.nonce = nonce /\ u.bits = bits
        /\ u.key = DeriveKey(Secret, nonce, bits)
    <2>1. CASE nonce = s.nonce BY <1>2, <2>1 DEF Decrypt
    <2>2. CASE nonce # s.nonce
      <3> DEFINE a == [s EXCEPT !.nonce = nonce]
                 b == [a EXCEPT !.key = key]
      <3>1. DOMAIN a = Fields /\ a.pw = s.pw /\ a.bits = s.bits /\ a.nonce = nonce
            /\ a.next = s.next
        BY <1>2
      <3>2. u = [b EXCEPT !.next = next]
        BY <1>2, <2>2, <3>1 DEF Decrypt
      <3> HIDE DEF a, key, next, u
      <3>3. DOMAIN b = Fields /\ b.pw = s.pw /\ b.bits = s.bits /\ b.nonce = nonce /\ b.key = key
        BY <3>1
      <3> HIDE DEF b
      <3>4. /\ DOMAIN u = Fields /\ u.pw = s.pw /\ u.bits = s.bits /\ u.nonce = nonce
            /\ u.key = key
        BY <3>2, <3>3
      <3> QED BY <1>2, <1>3, <3>4
    <2> QED BY <2>1, <2>2
  <1> HIDE DEF u
  <1>5. HasDecryptor(u) BY <1>4, SecretIsDecryptor
  <1>6. DOMAIN NoDecryptor = Fields BY DEF NoDecryptor
  <1>7. DecOK(u) BY <1>4, <1>5, <1>6, Zenon DEF DecOK
  <1> QED BY <1>4, <1>5, <1>7 DEF u, s

\* What a receiver finds behind the header of a datagram under way.
LEMMA RegionIs ==
  ASSUME UInv, NEW g \in carried, g.kind # "future"
  PROVE  /\ Region(g) = IF g.has_key /\ ~HasDecryptor(far.dec) THEN "refused" ELSE g.body
         /\ UnwrapRegion(g) = IF g.has_key = HasDecryptor(far.dec) THEN g.body ELSE "refused"
  <1>1. GramOK(g) /\ DecOK(far.dec) BY DEF UInv, FarOK
  <1>2. g.has_key \in BOOLEAN /\ HasDecryptor(far.dec) \in BOOLEAN
    BY <1>1 DEF GramOK, HasDecryptor
  <1>3. KeyOpens(g) => Unsealed(g).key = g.term
    <2> SUFFICES ASSUME g.has_key, HasDecryptor(far.dec) PROVE Unsealed(g).key = g.term
      BY DEF KeyOpens
    <2>1. g.nonce # NoNonce /\ g.term = DeriveKey(Secret, g.nonce, g.bits) BY <1>1 DEF GramOK
    <2>2. Unsealed(g).key = DeriveKey(Secret, g.nonce, g.bits)
      BY <1>1, <2>1, FollowKeeps DEF Unsealed
    <2> QED BY <2>1, <2>2
  <1>4. Region(g) = IF g.has_key /\ ~HasDecryptor(far.dec) THEN "refused" ELSE g.body
    BY <1>2, <1>3 DEF Region, KeyOpens
  <1> QED BY <1>2, <1>4 DEF UnwrapRegion

\* A datagram is taken for what it is or refused; never refused if it was
\* framed when both ends were ready.
LEMMA TakenIs ==
  ASSUME UInv, NEW g \in carried, g.kind # "future"
  PROVE  /\ TakenAs(g) \in {"refused", g.body}
         /\ g.ready => TakenAs(g) = g.body
  <1>1. GramOK(g) BY DEF UInv
  <1>2. g.kind = "eapol" => g.body = "eap" BY <1>1 DEF GramOK
  <1>3. g.ready /\ g.kind # "eapol" => far.authed /\ g.has_key = HasDecryptor(far.dec)
    BY <1>1 DEF GramOK
  <1>4. /\ Region(g) = IF g.has_key /\ ~HasDecryptor(far.dec) THEN "refused" ELSE g.body
        /\ UnwrapRegion(g) = IF g.has_key = HasDecryptor(far.dec) THEN g.body ELSE "refused"
    BY RegionIs
  <1>5. Region(g) \in {"refused", g.body} /\ UnwrapRegion(g) \in {"refused", g.body} BY <1>4
  <1>6. g.ready /\ g.kind # "eapol" => Region(g) = g.body /\ UnwrapRegion(g) = g.body
    BY <1>3, <1>4
  <1>7. TakenAs(g) =
          CASE g.kind = "eapol" -> "eap"
            [] g.kind # "eapol" /\ ~far.authed -> "refused"
            [] g.kind = "oob" /\ far.authed -> Region(g)
            [] g.kind = "keepalive" /\ ~Wrapped(g) /\ far.authed -> Region(g)
            [] OTHER -> UnwrapRegion(g)
    BY DEF TakenAs
  <1>8. CASE g.kind = "eapol"
    <2>1. TakenAs(g) = "eap" BY <1>7, <1>8
    <2> QED BY <1>2, <1>8, <2>1
  <1>9. CASE g.kind # "eapol"
    <2>1. CASE ~far.authed
      <3>1. g.kind # "oob" \/ ~far.authed BY <2>1
      <3>2. TakenAs(g) = "refused" BY <1>7, <1>9, <2>1
      <3> QED BY <1>3, <1>9, <2>1, <3>2
    <2>2. CASE far.authed
      <3>1. TakenAs(g) \in {Region(g), UnwrapRegion(g)} BY <1>7, <1>9, <2>2
      <3> QED BY <1>5, <1>6, <1>9, <3>1
    <2> QED BY <2>1, <2>2
  <1> QED BY <1>8, <1>9

-----------------------------------------------------------------------------

\* A session that starts: with a passphrase, its key has drawn a nonce.
LEMMA NewNearOK ==
  ASSUME NEW c \in FrameCases, c = fcase, NEW bits, drawn \in Nat
  PROVE  LET m == NewNear(c, bits)
         IN  /\ DOMAIN m = {"key", "gre_seq", "npd", "split", "authed", "fresh", "eapols"}
             /\ DOMAIN m.key = DOMAIN NoKey
             /\ m.key = NoKey \/ (m.key.pw = Secret /\ m.key.nonce # NoNonce)
             /\ c.psk => m.key.pw = "psk" /\ HasKey(m.key)
             /\ ~c.psk => m.key = NoKey
  <1>1. c.psk \in BOOLEAN BY DEF FrameCase
  <1>2. /\ DOMAIN NewNear(c, bits) =
             {"key", "gre_seq", "npd", "split", "authed", "fresh", "eapols"}
        /\ NewNear(c, bits).key = IF c.psk THEN NewKey("psk", bits) ELSE NoKey
    BY DEF NewNear
  <1>3. /\ DOMAIN NewKey("psk", bits) = DOMAIN NoKey /\ NewKey("psk", bits).pw = "psk"
        /\ NewKey("psk", bits).nonce # NoNonce
    BY DEF NewKey, NoKey, NoNonce
  <1>4. c.psk => Secret = "psk" BY DEF Secret
  <1>5. CASE c.psk
    <2>1. NewNear(c, bits).key = NewKey("psk", bits) BY <1>2, <1>5
    <2>2. HasKey(NewNear(c, bits).key) BY <1>3, <1>4, <1>5, <2>1, SecretIsKey
    <2> QED BY <1>2, <1>3, <1>4, <1>5, <2>1, <2>2
  <1>6. CASE ~c.psk BY <1>2, <1>6
  <1> QED BY <1>5, <1>6

LEMMA UInit == FrameInit => UInv
  <1> SUFFICES ASSUME NEW c \in FrameCases, FrameStart(c) PROVE UInv BY DEF FrameInit
  <1> DEFINE m == NewNear(c, c.near_bits)
             key == IF c.psk THEN [m.key EXCEPT !.nonce = 1] ELSE m.key
  <1>1. /\ fcase = c /\ drawn = (IF c.psk THEN 1 ELSE 0)
        /\ near = [m EXCEPT !.key = key] /\ far = NewFar(c)
        /\ carried = {} /\ verdict = NoVerdict
    BY DEF FrameStart
  <1>2. c.psk \in BOOLEAN BY DEF FrameCase
  <1>3. drawn \in Nat BY <1>1
  <1>4. /\ DOMAIN m = {"key", "gre_seq", "npd", "split", "authed", "fresh", "eapols"}
        /\ DOMAIN m.key = DOMAIN NoKey
        /\ m.key = NoKey \/ (m.key.pw = Secret /\ m.key.nonce # NoNonce)
        /\ c.psk => m.key.pw = "psk" /\ HasKey(m.key)
        /\ ~c.psk => m.key = NoKey
    BY <1>1, <1>3, NewNearOK
  <1> HIDE DEF m
  <1>5. DOMAIN near = DOMAIN m /\ near.key = key BY <1>1, <1>4
  <1>6. /\ DOMAIN key = DOMAIN NoKey
        /\ c.psk => key.pw = Secret /\ key.nonce # NoNonce
        /\ ~c.psk => key = NoKey
    <2>1. CASE c.psk
      <3>1. key = [m.key EXCEPT !.nonce = 1] BY <2>1
      <3>2. Secret = "psk" BY <1>1, <2>1 DEF Secret
      <3>3. DOMAIN m.key = {"pw", "bits", "nonce", "used_times"} BY <1>4 DEF NoKey
      <3> HIDE DEF key
      <3>4. DOMAIN key = DOMAIN m.key /\ key.pw = m.key.pw /\ key.nonce = 1
        BY <3>1, <3>3
      <3> QED BY <1>4, <2>1, <3>2, <3>4 DEF NoNonce
    <2>2. CASE ~c.psk BY <1>4, <2>2
    <2> QED BY <2>1, <2>2
  <1> HIDE DEF key
  <1>7. NearOK
    <2>1. c.psk => HasKey(key) BY <1>6, SecretIsKey
    <2>2. HasKey(key) => c.psk BY <1>6 DEF HasKey
    <2> QED BY <1>1, <1>3, <1>4, <1>5, <1>6, <2>1, <2>2 DEF NearOK
  <1>8. FarOK
    <2>1. DOMAIN far = {"dec", "authed", "merge"}
          /\ far.dec = IF c.psk THEN NewDecryptor("psk", c.far_bits) ELSE NoDecryptor
      BY <1>1 DEF NewFar
    <2>2. /\ DOMAIN NewDecryptor("psk", c.far_bits) = DOMAIN NoDecryptor
          /\ NewDecryptor("psk", c.far_bits).pw = "psk"
          /\ NewDecryptor("psk", c.far_bits).nonce = NoNonce
          /\ NoDecryptor.nonce = NoNonce
      BY DEF NewDecryptor, NoDecryptor
    <2>3. CASE c.psk
      <3>1. far.dec = NewDecryptor("psk", c.far_bits) /\ Secret = "psk"
        BY <1>1, <2>1, <2>3 DEF Secret
      <3>2. HasDecryptor(far.dec) BY <2>2, <3>1, SecretIsDecryptor
      <3> QED BY <2>1, <2>2, <3>1, <3>2, Zenon DEF FarOK, DecOK
    <2>4. CASE ~c.psk
      <3>1. far.dec = NoDecryptor BY <2>1, <2>4
      <3> QED BY <1>1, <2>1, <2>2, <2>4, <3>1, Zenon DEF FarOK, DecOK, HasDecryptor
    <2> QED BY <2>3, <2>4
  <1>9. Understood BY <1>1 DEF Understood, NoVerdict
  <1> QED BY <1>1, <1>7, <1>8, <1>9 DEF UInv

\* The sending end is replaced, or finishes its handshake: what is under way
\* keeps the key it was sealed under.
LEMMA URestart == ASSUME UInv, NearRestarts PROVE UInv'
  <1> DEFINE bits == IF near.key.bits = 128 THEN 256 ELSE 128
             m == NewNear(fcase, bits)
  <1>1. fcase \in FrameCases /\ drawn \in Nat BY DEF UInv, NearOK
  <1>2. /\ near' = [m EXCEPT !.split = TRUE, !.fresh = FALSE] /\ drawn' = drawn + 1
        /\ UNCHANGED <<fcase, far, carried, verdict>>
    BY DEF NearRestarts
  <1>3. Secret' = Secret BY <1>2 DEF Secret
  <1>4. /\ DOMAIN m = {"key", "gre_seq", "npd", "split", "authed", "fresh", "eapols"}
        /\ DOMAIN m.key = DOMAIN NoKey
        /\ m.key = NoKey \/ (m.key.pw = Secret /\ m.key.nonce # NoNonce)
        /\ fcase.psk => HasKey(m.key)
    BY <1>1, NewNearOK
  <1> HIDE DEF m
  <1>5. DOMAIN near' = DOMAIN m /\ near'.key = m.key BY <1>2, <1>4
  <1>6. NearOK' BY <1>1, <1>2, <1>3, <1>4, <1>5 DEF NearOK, HasKey
  <1>7. FarOK' BY <1>2, <1>3 DEF UInv, FarOK, DecOK
  <1>8. \A g \in carried' : GramOK(g)' BY <1>2, <1>3 DEF UInv, GramOK
  <1>9. Understood' BY <1>2 DEF UInv, Understood
  <1> QED BY <1>6, <1>7, <1>8, <1>9 DEF UInv

LEMMA USendKey == ASSUME UInv, SetSendSessionKey PROVE UInv'
  <1> DEFINE key == IF fcase.srp /\ ~HasKey(near.key) THEN NewKey("K", 256) ELSE near.key
  <1>1. NearOK BY DEF UInv
  <1>2. /\ near' = [near EXCEPT !.authed = TRUE, !.key = key]
        /\ drawn' = (IF near'.key # near.key THEN drawn + 1 ELSE drawn)
        /\ UNCHANGED <<fcase, far, carried, verdict>>
    BY DEF SetSendSessionKey
  <1>3. Secret' = Secret BY <1>2 DEF Secret
  <1>4. /\ DOMAIN key = DOMAIN NoKey
        /\ HasKey(key) => key.pw = Secret /\ key.nonce # NoNonce
        /\ fcase.psk => HasKey(key)
    <2>1. CASE fcase.srp /\ ~HasKey(near.key)
      <3>1. ~fcase.psk BY <1>1, <2>1 DEF NearOK
      <3>2. Secret = "K" BY <3>1 DEF Secret
      <3>3. key = NewKey("K", 256) BY <2>1
      <3>4. DOMAIN key = DOMAIN NoKey /\ key.pw = "K" /\ key.nonce = drawn + 1
        BY <3>3 DEF NewKey, NoKey
      <3>5. drawn + 1 # NoNonce BY <1>1 DEF NearOK, NoNonce
      <3> QED BY <3>1, <3>2, <3>4, <3>5
    <2>2. CASE ~(fcase.srp /\ ~HasKey(near.key)) BY <1>1, <2>2 DEF NearOK
    <2> QED BY <2>1, <2>2
  <1> HIDE DEF key
  <1>5. DOMAIN near' = DOMAIN near /\ near'.key = key BY <1>1, <1>2 DEF NearOK
  <1>6. drawn' \in Nat BY <1>1, <1>2 DEF NearOK
  <1>7. NearOK' BY <1>1, <1>2, <1>3, <1>4, <1>5, <1>6 DEF NearOK, HasKey
  <1>8. FarOK' BY <1>2, <1>3 DEF UInv, FarOK, DecOK
  <1>9. \A g \in carried' : GramOK(g)' BY <1>2, <1>3 DEF UInv, GramOK
  <1>10. Understood' BY <1>2 DEF UInv, Understood
  <1> QED BY <1>7, <1>8, <1>9, <1>10 DEF UInv

\* The receiving end installs its key: nothing framed when both were ready can
\* be under way yet.
LEMMA URecvKey == ASSUME UInv, SetRecvSessionKey PROVE UInv'
  <1> DEFINE dec == IF fcase.srp /\ ~HasDecryptor(far.dec) THEN NewDecryptor("K", 256) ELSE far.dec
  <1>1. FarOK BY DEF UInv
  <1>2. /\ ~far.authed /\ far' = [far EXCEPT !.authed = TRUE, !.dec = dec]
        /\ UNCHANGED <<fcase, near, drawn, carried, verdict>>
    BY DEF SetRecvSessionKey
  <1>3. Secret' = Secret BY <1>2 DEF Secret
  <1>4. DecOK(dec) /\ (fcase.psk => HasDecryptor(dec))
    <2>1. CASE fcase.srp /\ ~HasDecryptor(far.dec)
      <3>1. ~fcase.psk BY <1>1, <2>1 DEF FarOK
      <3>2. Secret = "K" BY <3>1 DEF Secret
      <3>3. dec = NewDecryptor("K", 256) BY <2>1
      <3>4. DOMAIN dec = DOMAIN NoDecryptor /\ dec.pw = "K" /\ dec.nonce = NoNonce
        BY <3>3 DEF NewDecryptor, NoDecryptor
      <3> QED BY <3>1, <3>2, <3>4 DEF DecOK
    <2>2. CASE ~(fcase.srp /\ ~HasDecryptor(far.dec)) BY <1>1, <2>2 DEF FarOK
    <2> QED BY <2>1, <2>2
  <1> HIDE DEF dec
  <1>5. DOMAIN far' = DOMAIN far /\ far'.dec = dec BY <1>1, <1>2 DEF FarOK
  <1>6. FarOK' BY <1>1, <1>2, <1>3, <1>4, <1>5 DEF FarOK, DecOK, HasDecryptor
  <1>7. NearOK' BY <1>2, <1>3 DEF UInv, NearOK
  <1>8. \A g \in carried' : GramOK(g)' BY <1>2, <1>3 DEF UInv, GramOK
  <1>9. Understood' BY <1>2 DEF UInv, Understood
  <1> QED BY <1>6, <1>7, <1>8, <1>9 DEF UInv

\* A decryptor that has followed a datagram, or been told of a nonce, is still
\* the decryptor of the same secret, and no decryptor is gained or lost.
LEMMA UReceived ==
  ASSUME UInv, NEW g \in carried, carried' = carried \ {g}, NEW dec, NEW merge,
         far' = [far EXCEPT !.dec = dec, !.merge = merge] \/ far' = [far EXCEPT !.dec = dec],
         DecOK(dec), HasDecryptor(dec) = HasDecryptor(far.dec),
         UNCHANGED <<fcase, near, drawn>>, Understood'
  PROVE  UInv'
  <1>1. Secret' = Secret BY DEF Secret
  <1>2. FarOK BY DEF UInv
  <1>3. DOMAIN far' = DOMAIN far /\ far'.dec = dec /\ far'.authed = far.authed
    BY <1>2 DEF FarOK
  <1>4. FarOK' BY <1>1, <1>2, <1>3 DEF FarOK, DecOK, HasDecryptor
  <1>5. NearOK' BY <1>1 DEF UInv, NearOK
  <1>6. ASSUME NEW h \in carried' PROVE GramOK(h)'
    <2>1. GramOK(h) BY DEF UInv
    <2>2. HasDecryptor(far.dec)' = HasDecryptor(far.dec) BY <1>3 DEF HasDecryptor
    <2> QED BY <1>1, <1>3, <2>1, <2>2 DEF GramOK
  <1> QED BY <1>4, <1>5, <1>6 DEF UInv

LEMMA UReceive == ASSUME UInv, ReceiveFrame PROVE UInv'
  <1>1. PICK g \in carried :
          /\ g.kind # "future" /\ carried' = carried \ {g} /\ verdict' = Judged(g)
          /\ far' = [far EXCEPT !.dec = IF Follows(g) THEN Unsealed(g) ELSE @,
                                !.merge = IF Advertised(g) \in {"split", "whole"}
                                          THEN Advertised(g) = "split" ELSE @]
          /\ UNCHANGED <<fcase, near, drawn>>
    BY DEF ReceiveFrame
  <1> DEFINE dec == IF Follows(g) THEN Unsealed(g) ELSE far.dec
             merge == IF Advertised(g) \in {"split", "whole"} THEN Advertised(g) = "split"
                      ELSE far.merge
  <1>2. GramOK(g) /\ FarOK /\ DecOK(far.dec) BY DEF UInv, FarOK
  <1>3. DecOK(dec) /\ HasDecryptor(dec) = HasDecryptor(far.dec)
    <2>1. CASE Follows(g)
      <3>1. g.has_key /\ HasDecryptor(far.dec) BY <2>1 DEF Follows, KeyOpens
      <3>2. g.nonce # NoNonce BY <1>1, <1>2, <3>1 DEF GramOK
      <3>3. DecOK(Unsealed(g)) /\ HasDecryptor(Unsealed(g))
        BY <1>2, <3>1, <3>2, FollowKeeps DEF Unsealed
      <3> QED BY <2>1, <3>1, <3>3
    <2>2. CASE ~Follows(g) BY <1>2, <2>2
    <2> QED BY <2>1, <2>2
  <1>4. far' = [far EXCEPT !.dec = dec, !.merge = merge]
    <2>1. DOMAIN far = {"dec", "authed", "merge"} BY <1>2 DEF FarOK
    <2> QED BY <1>1, <2>1
  <1>5. Understood'
    <2>1. TakenAs(g) \in {"refused", g.body} /\ (g.ready => TakenAs(g) = g.body)
      BY <1>1, TakenIs
    <2>2. /\ g.kind \in FrameKinds /\ g.body \notin {"refused", "garbage"}
          /\ g.meant = IF g.kind = "media" THEN Expand(g.body) ELSE g.body
      BY <1>1, <1>2 DEF GramOK
    <2>3. /\ verdict'.meant = g.meant /\ verdict'.ready = g.ready /\ verdict'.form = Form(g)
          /\ verdict'.got = IF TakenAs(g) \in {"refused", "garbage"} THEN TakenAs(g) ELSE g.kind
      BY <1>1 DEF Judged
    <2>4. CASE TakenAs(g) = g.body
      <3>1. verdict'.got = g.kind BY <2>2, <2>3, <2>4
      <3>2. verdict'.form = verdict'.meant BY <2>2, <2>3, <2>4 DEF Form
      <3>3. g.kind \notin {"garbage", "refused"} BY <2>2 DEF FrameKinds
      <3> QED BY <3>1, <3>2, <3>3 DEF Understood
    <2>5. CASE TakenAs(g) # g.body
      <3>1. verdict'.got = "refused" /\ ~verdict'.ready BY <2>1, <2>3, <2>5
      <3> QED BY <3>1 DEF Understood
    <2> QED BY <2>4, <2>5
  <1> HIDE DEF dec, merge
  <1> QED BY <1>1, <1>3, <1>4, <1>5, UReceived

LEMMA UNonce == ASSUME UInv, ReceiveNonce PROVE UInv'
  <1>1. PICK g \in carried :
          /\ carried' = carried \ {g} /\ verdict' = NoVerdict
          /\ far' = [far EXCEPT !.dec = IF HasDecryptor(@) THEN Precompute(@, g.nonce, g.bits) ELSE @]
          /\ UNCHANGED <<fcase, near, drawn>>
    BY DEF ReceiveNonce
  <1> DEFINE dec == IF HasDecryptor(far.dec) THEN Precompute(far.dec, g.nonce, g.bits) ELSE far.dec
  <1>2. DecOK(far.dec) BY DEF UInv, FarOK
  <1>3. far' = [far EXCEPT !.dec = dec] BY <1>1
  <1>4. DecOK(dec) /\ HasDecryptor(dec) = HasDecryptor(far.dec)
    <2>1. CASE dec = far.dec BY <1>2, <2>1
    <2>2. CASE dec # far.dec
      <3>1. HasDecryptor(far.dec) /\ dec = Precompute(far.dec, g.nonce, g.bits) BY <2>2
      <3>2. dec = [far.dec EXCEPT !.next = [nonce |-> g.nonce, bits |-> g.bits]]
        BY <2>2, <3>1 DEF Precompute
      <3>3. DOMAIN far.dec = {"pw", "bits", "key", "nonce", "next"} BY <1>2 DEF DecOK, NoDecryptor
      <3> HIDE DEF dec
      <3>4. /\ DOMAIN dec = DOMAIN far.dec /\ dec.pw = far.dec.pw /\ dec.key = far.dec.key
            /\ dec.nonce = far.dec.nonce /\ dec.bits = far.dec.bits
        BY <3>2, <3>3
      <3>5. far.dec.pw = Secret BY <1>2, <3>1 DEF DecOK
      <3>6. HasDecryptor(dec) BY <3>4, <3>5, SecretIsDecryptor
      <3> QED BY <1>2, <3>1, <3>4, <3>5, <3>6 DEF DecOK
    <2> QED BY <2>1, <2>2
  <1>5. Understood' BY <1>1 DEF Understood, NoVerdict
  <1> HIDE DEF dec
  <1> QED BY <1>1, <1>3, <1>4, <1>5, UReceived

\* The steps that leave the receiving end alone and frame nothing.
LEMMA UQuiet ==
  ASSUME UInv, UNCHANGED <<fcase, far, drawn>>, NEW h, h.kind = "future",
         carried' \subseteq carried \cup {h},
         near' = near \/ near' = [near EXCEPT !.npd = ~@],
         verdict' = verdict \/ verdict' = NoVerdict
  PROVE  UInv'
  <1>1. Secret' = Secret BY DEF Secret
  <1>2. NearOK BY DEF UInv
  <1>3. DOMAIN near' = DOMAIN near /\ near'.key = near.key BY <1>2 DEF NearOK
  <1>4. NearOK' BY <1>1, <1>2, <1>3 DEF NearOK
  <1>5. FarOK' BY <1>1 DEF UInv, FarOK, DecOK
  <1>6. ASSUME NEW g \in carried' PROVE GramOK(g)'
    BY <1>1 DEF UInv, GramOK
  <1>7. Understood' BY DEF UInv, Understood, NoVerdict
  <1> QED BY <1>4, <1>5, <1>6, <1>7 DEF UInv

LEMMA UStep == UInv /\ [FrameNext]_frameVars => UInv'
  <1> SUFFICES ASSUME UInv, [FrameNext]_frameVars PROVE UInv' OBVIOUS
  <1> DEFINE h == [kind |-> "future", version |-> 1, has_key |-> FALSE, bits |-> near.key.bits,
                   nonce |-> drawn + 1, seq |-> near.gre_seq, term |-> <<>>,
                   meant |-> "none", body |-> "none", ready |-> CanFrame]
  <1>0. h.kind = "future" OBVIOUS
  <1>1. CASE SendMedia
    <2>1. PICK p \in {"plain", "nulls"} :
            Framed("media", 1, FecPayload(p), IF near.npd THEN Suppress(p) ELSE p)
      BY <1>1 DEF SendMedia
    <2> DEFINE body == IF near.npd THEN Suppress(p) ELSE p
    <2>2. "media" \in FrameKinds BY DEF FrameKinds
    <2>3. body \notin {"refused", "garbage"} /\ FecPayload(p) = Expand(body)
      BY DEF Suppress, Expand, FecPayload, Marked
    <2> HIDE DEF body
    <2>4. Framed("media", 1, FecPayload(p), body) BY <2>1 DEF body
    <2> QED BY <2>2, <2>3, <2>4, UFramed
  <1>2. CASE SendFeedback
    <2>1. "feedback" \in FrameKinds BY DEF FrameKinds
    <2> QED BY <1>2, <2>1, UFramed DEF SendFeedback
  <1>3. CASE SendKeepalive
    <2>1. "keepalive" \in FrameKinds BY DEF FrameKinds
    <2>2. Caps \notin {"refused", "garbage"} BY DEF Caps
    <2> QED BY <1>3, <2>1, <2>2, UFramed DEF SendKeepalive
  <1>4. CASE SendBufferNeg
    <2>1. "bufneg" \in FrameKinds BY DEF FrameKinds
    <2>2. \A role : SenderMax(role) \notin {"refused", "garbage"} BY DEF SenderMax
    <2> QED BY <1>4, <2>1, <2>2, UFramed DEF SendBufferNeg
  <1>5. CASE SendOob
    <2>1. "oob" \in FrameKinds BY DEF FrameKinds
    <2> QED BY <1>5, <2>1, UFramed DEF SendOob
  <1>6. CASE SendEapol
    <2>1. "eapol" \in FrameKinds BY DEF FrameKinds
    <2> QED BY <1>6, <2>1, UFramed DEF SendEapol
  <1>7. CASE AnnounceNonce
    <2>1. UNCHANGED <<fcase, near, far, drawn, verdict>> /\ carried' = carried \cup {h}
      BY <1>7 DEF AnnounceNonce
    <2> HIDE DEF h
    <2> QED BY <1>0, <2>1, UQuiet
  <1>8. CASE SetNpd
    <2> HIDE DEF h
    <2> QED BY <1>0, <1>8, UQuiet DEF SetNpd
  <1>9. CASE LoseFrame
    <2> HIDE DEF h
    <2> QED BY <1>0, <1>9, UQuiet DEF LoseFrame
  <1>10. CASE UNCHANGED frameVars
    <2> HIDE DEF h
    <2> QED BY <1>0, <1>10, UQuiet DEF frameVars
  <1> QED BY <1>1, <1>2, <1>3, <1>4, <1>5, <1>6, <1>7, <1>8, <1>9, <1>10,
             URestart, USendKey, URecvKey, UReceive, UNonce DEF FrameNext

\* However many datagrams are under way, whatever is late, lost or reordered,
\* whenever nonces rotate or are announced ahead, a session restarts with the
\* other key size or the two ends install their key: nothing is taken for what
\* it is not, and what is framed once both ends are ready is understood.
THEOREM FramesUnderstood == FrameSpec => []Understood
  <1>1. FrameInit => UInv BY UInit
  <1>2. UInv /\ [FrameNext]_frameVars => UInv' BY UStep
  <1>3. UInv => Understood BY DEF UInv
  <1> QED BY <1>1, <1>2, <1>3, PTL DEF FrameSpec
=============================================================================
