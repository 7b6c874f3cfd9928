---------------------------- MODULE SecurityProofs ----------------------------
(***************************************************************************)
(* What holds of a secured session for any number of lost, repeated and    *)
(* delayed datagrams and of moves: who is admitted, what a session key     *)
(* stands for, that two successful roles hold one key, what the            *)
(* anti-replay window refuses, and that a record of the tunnel is sealed   *)
(* and taken once.                                                         *)
(***************************************************************************)
EXTENDS MainAuth, Dtls, SequenceTheorems, FiniteSetTheorems, TLAPS

----------------------------------------------------------------------------
(* What may be on the wire.  pw is the password of the authenticatee: a    *)
(* proof M1 is over a key made with it, and a proof M2 exists only when it *)
(* is the right one.                                                       *)

BodyOK(b, pw) ==
  /\ "m1" \in DOMAIN b => b.m1.pw = pw
  /\ "m2" \in DOMAIN b => pw = "good"

FrameOK(f, pw) == f # None => f.kind \in Kinds /\ BodyOK(f.body, pw)
WireOK(w, pw)  == w # None => (\E k \in Kinds : w.method = Method[k]) /\ BodyOK(w.body, pw)

LEMMA PlainBodies ==
  ASSUME NEW pw, NEW v
  PROVE  BodyOK(None, pw) /\ BodyOK([user |-> v], pw) /\ BodyOK([a |-> v], pw) /\ BodyOK([b |-> v], pw)
  BY DEF BodyOK, None

LEMMA ProofBodies ==
  ASSUME NEW pw, NEW key
  PROVE  /\ key.pw = pw => BodyOK(M1(key), pw)
         /\ pw = "good" => BodyOK(M2(key), pw)
         /\ BodyOK(M1(key), pw) => key.pw = pw
         /\ BodyOK(M2(key), pw) => pw = "good"
  BY DEF BodyOK, M1, M2

LEMMA FrameFields ==
  ASSUME NEW k, NEW v, NEW i, NEW b
  PROVE  LET f == Frame(k, v, i, b) IN f.kind = k /\ f.ver = v /\ f.id = i /\ f.body = b
  BY DEF Frame

LEMMA FramesOK ==
  ASSUME NEW k \in Kinds, NEW v, NEW i, NEW b, NEW pw, BodyOK(b, pw)
  PROVE  FrameOK(Frame(k, v, i, b), pw)
  BY FrameFields DEF FrameOK

LEMMA EncodedOK ==
  ASSUME NEW f, NEW pw, f # None, FrameOK(f, pw)
  PROVE  WireOK(Encode(f), pw)
  BY DEF FrameOK, WireOK, Encode

\* A proof or a plain frame is not the absence of one.
LEMMA FrameNotNone ==
  ASSUME NEW k, NEW v, NEW i, NEW b
  PROVE  Frame(k, v, i, b) # None
  <1>1. "kind" \in DOMAIN Frame(k, v, i, b) /\ "kind" \notin DOMAIN None
    BY DEF Frame, None
  <1> QED BY <1>1

LEMMA KeyNotNone ==
  ASSUME NEW a, NEW b, NEW v, NEW pw
  PROVE  SessionKey(a, b, v, pw) # None /\ SessionKey(a, b, v, pw).pw = pw
  <1>1. "pw" \in DOMAIN SessionKey(a, b, v, pw) /\ "pw" \notin DOMAIN None
    BY DEF SessionKey, None
  <1> QED BY <1>1 DEF SessionKey

\* Whatever is on the wire parses to one of the frames.
LEMMA ParsedOK ==
  ASSUME NEW w, NEW pw, w # None, WireOK(w, pw)
  PROVE  Parse(w).kind \in Kinds /\ BodyOK(Parse(w).body, pw)
  <1> DEFINE c == CHOOSE k \in Kinds : Method[k] = w.method
  <1>1. c \in Kinds
    BY DEF WireOK
  <1>2. "ServerValidator" \in Kinds
    BY DEF Kinds, Method
  <1> HIDE DEF c
  <1>3. Parse(w).kind = (IF w.method[1] \in {"request", "response"} /\ w.method[2] = 3
                         THEN "ServerValidator" ELSE c) /\ Parse(w).body = w.body
    BY DEF Parse, Frame, c
  <1> QED BY <1>1, <1>2, <1>3 DEF WireOK

LEMMA AllKinds ==
  Kinds = {"Start", "Logoff", "IdentityRequest", "IdentityResponse", "Challenge", "ClientKey",
           "ServerKey", "ClientValidator", "ServerValidator", "PassphraseRequest",
           "PassphraseResponse", "Success", "Failure"}
  BY DEF Kinds, Method

----------------------------------------------------------------------------
(* The roles *)

ClientFields == {"state", "id", "idValid", "client", "session", "pw", "useKey", "lastRx", "lastReply"}
ServerFields == {"state", "id", "server", "session", "verified", "everAuthed", "ver", "pw", "useKey",
                 "lastRx", "lastReply"}

ClientOK(r, pw) ==
  /\ DOMAIN r = ClientFields /\ r.pw = pw
  /\ r.client # None => /\ DOMAIN r.client = {"a", "ver", "key"}
                        /\ r.client.key # None => r.client.key.pw = pw
  /\ r.session # None => pw = "good"
  /\ r.state = "Success" => r.session # None
  /\ FrameOK(r.lastReply, pw)

ServerOK(r, pw) ==
  /\ DOMAIN r = ServerFields
  /\ r.server # None => r.pw = "good" /\ DOMAIN r.server = {"b", "pubA", "key"}
  /\ r.session # None => pw = "good"
  /\ r.state = "Success" \/ r.verified => r.session # None
  /\ FrameOK(r.lastReply, pw)

RoleOK(e, r, pw) == IF e = "sender" THEN ClientOK(r, pw) ELSE ServerOK(r, pw)

OutcomeOK(e, o, pw) == /\ DOMAIN o = {"role", "reply", "err"}
                       /\ RoleOK(e, o.role, pw) /\ FrameOK(o.reply, pw)

LEMMA NoFrameOK ==
  ASSUME NEW pw
  PROVE  FrameOK(None, pw) /\ WireOK(None, pw)
  BY DEF FrameOK, WireOK

LEMMA OutcomesOK ==
  ASSUME NEW e, NEW r, NEW pw, RoleOK(e, r, pw), NEW f, FrameOK(f, pw)
  PROVE  /\ OutcomeOK(e, Silent(r), pw) /\ OutcomeOK(e, Answer(r, f), pw) /\ OutcomeOK(e, Unexpected(r), pw)
         /\ OutcomeOK(e, Fail(r, f), pw) /\ OutcomeOK(e, Fail(r, None), pw)
  <1>1. \A b : OutcomeOK(e, Outcome(r, f, b), pw) /\ OutcomeOK(e, Outcome(r, None, b), pw)
    BY NoFrameOK DEF OutcomeOK, Outcome
  <1>2. RoleOK(e, [r EXCEPT !.state = "Failed"], pw)
    BY DEF RoleOK, ClientOK, ServerOK, ClientFields, ServerFields
  <1> DEFINE q == [r EXCEPT !.state = "Failed"]
  <1> HIDE DEF q
  <1>3. OutcomeOK(e, Outcome(q, f, TRUE), pw) /\ OutcomeOK(e, Outcome(q, None, TRUE), pw)
    BY <1>2, NoFrameOK DEF OutcomeOK, Outcome, q
  <1> QED BY <1>1, <1>3 DEF Silent, Answer, Unexpected, Fail, q

LEMMA RestartsOK ==
  ASSUME NEW r, NEW pw
  PROVE  /\ ClientOK(r, pw) => ClientOK(RestartClient(r), pw)
         /\ ServerOK(r, pw) => ServerOK(RestartServer(r), pw)
  <1>1. FrameOK(None, pw)
    BY NoFrameOK
  <1>2. ASSUME ClientOK(r, pw)
        PROVE  ClientOK(RestartClient(r), pw)
    BY <1>1, <1>2 DEF ClientOK, RestartClient, NewAuthenticatee, ClientFields
  <1>3. ServerOK(RestartServer(r), pw)
    <2> DEFINE n == NewAuthenticator(r.ver, r.useKey, NextId(r.id))
               q == [n EXCEPT !.everAuthed = r.everAuthed, !.pw = r.pw]
    <2>1. /\ DOMAIN n = ServerFields /\ n.server = None /\ n.session = None /\ n.state = "Unauth"
          /\ n.verified = FALSE /\ n.lastReply = None
      BY DEF NewAuthenticator, ServerFields
    <2> HIDE DEF n
    <2>2. /\ DOMAIN q = ServerFields /\ q.server = None /\ q.session = None /\ q.state = "Unauth"
          /\ q.verified = FALSE /\ q.lastReply = None
      BY <2>1 DEF ServerFields
    <2>3. ServerOK(q, pw)
      BY <1>1, <2>2 DEF ServerOK
    <2> QED BY <2>3 DEF RestartServer, n
  <1> QED BY <1>2, <1>3

LEMMA StartsOK ==
  ASSUME NEW r, NEW pw
  PROVE  /\ ClientOK(r, pw) => OutcomeOK("sender", StartClient(r), pw)
         /\ ServerOK(r, pw) => OutcomeOK("receiver", StartServer(r), pw)
  <1>1. FrameOK(Frame("Start", 3, 0, None), pw) /\ FrameOK(Frame("IdentityRequest", r.ver, r.id, None), pw)
    BY FramesOK, PlainBodies, AllKinds
  <1> DEFINE q == IF r.state = "Unauth" THEN [r EXCEPT !.state = "InProgress"] ELSE r
  <1>2. (ClientOK(r, pw) => ClientOK(q, pw)) /\ (ServerOK(r, pw) => ServerOK(q, pw))
    BY DEF ClientOK, ServerOK, ClientFields, ServerFields
  <1> HIDE DEF q
  <1>3. /\ StartClient(r) = Outcome(q, Frame("Start", 3, 0, None), FALSE)
        /\ StartServer(r) = Outcome(q, Frame("IdentityRequest", r.ver, r.id, None), FALSE)
    BY DEF StartClient, StartServer, q
  <1> QED BY <1>1, <1>2, <1>3 DEF OutcomeOK, RoleOK, Outcome

----------------------------------------------------------------------------
(* What the authenticatee does with a frame *)

LEMMA ClientAnswers ==
  ASSUME NEW r, NEW pw, ClientOK(r, pw), NEW k \in Kinds, NEW v, NEW i, NEW b, BodyOK(b, pw)
  PROVE  OutcomeOK("sender", Answer(r, Frame(k, v, i, b)), pw)
  BY FramesOK, OutcomesOK DEF RoleOK

LEMMA ClientSilent ==
  ASSUME NEW r, NEW pw, ClientOK(r, pw)
  PROVE  /\ OutcomeOK("sender", Silent(r), pw) /\ OutcomeOK("sender", Unexpected(r), pw)
         /\ OutcomeOK("sender", Fail(r, None), pw)
  BY NoFrameOK, OutcomesOK DEF RoleOK

LEMMA AdoptOK ==
  ASSUME NEW r, NEW f, NEW pw, ClientOK(r, pw)
  PROVE  ClientOK(Adopt(r, f), pw) /\ Adopt(r, f).client = r.client /\ Adopt(r, f).session = r.session
         /\ Adopt(r, f).state = r.state
  BY DEF ClientOK, ClientFields, Adopt

LEMMA IdentityRequestOK ==
  ASSUME NEW r, NEW f, NEW pw, NEW user, ClientOK(r, pw)
  PROVE  OutcomeOK("sender", OnIdentityRequest(r, f, user), pw)
  <1> DEFINE q == Adopt(r, f)
             s == [q EXCEPT !.state = IF @ = "Unauth" THEN "InProgress" ELSE @]
  <1>1. ClientOK(q, pw)
    BY AdoptOK
  <1> HIDE DEF q
  <1>2. ClientOK(s, pw)
    BY <1>1 DEF ClientOK, ClientFields
  <1> HIDE DEF s
  <1>3. OnIdentityRequest(r, f, user) =
          Answer(s, Frame("IdentityResponse", NegotiatedVersion(f), f.id, [user |-> user]))
    BY DEF OnIdentityRequest, q, s
  <1> QED BY <1>2, <1>3, ClientAnswers, PlainBodies, AllKinds

LEMMA ChallengeOK ==
  ASSUME NEW r, NEW f, NEW pw, NEW a, ClientOK(r, pw)
  PROVE  OutcomeOK("sender", OnChallenge(r, f, a), pw)
  <1> DEFINE q == Adopt(r, f)
             c == NewClient(a, NegotiatedVersion(f))
             s == [q EXCEPT !.client = c, !.state = "InProgress"]
  <1>1. ClientOK(q, pw)
    BY AdoptOK
  <1>2. DOMAIN c = {"a", "ver", "key"} /\ c.key = None
    BY DEF NewClient
  <1> HIDE DEF q, c
  <1>3. ClientOK(s, pw)
    BY <1>1, <1>2 DEF ClientOK, ClientFields
  <1> HIDE DEF s
  <1>4. OnChallenge(r, f, a) = Answer(s, Frame("ClientKey", NegotiatedVersion(f), f.id, [a |-> a]))
    BY DEF OnChallenge, q, c, s
  <1> QED BY <1>3, <1>4, ClientAnswers, PlainBodies, AllKinds

LEMMA ServerKeyOK ==
  ASSUME NEW r, NEW f, NEW pw, ClientOK(r, pw)
  PROVE  OutcomeOK("sender", OnServerKey(r, f), pw)
  <1>1. CASE r.client = None
    BY <1>1, ClientSilent DEF OnServerKey
  <1>2. CASE r.client # None
    <2> DEFINE q == Adopt(r, f)
               k == SessionKey(r.client.a, f.body.b, r.client.ver, r.pw)
               c == [r.client EXCEPT !.key = k]
               s == [q EXCEPT !.client = c]
    <2>1. ClientOK(q, pw) /\ k.pw = pw
      BY AdoptOK, KeyNotNone DEF ClientOK
    <2> HIDE DEF q, k
    <2>2. DOMAIN c = {"a", "ver", "key"} /\ c.key = k
      BY <1>2 DEF ClientOK
    <2>3. c = ComputeKey(r.client, f.body.b, r.pw)
      BY DEF ComputeKey, k
    <2> HIDE DEF c
    <2>4. ClientOK(s, pw)
      BY <2>1, <2>2 DEF ClientOK, ClientFields
    <2>5. OnServerKey(r, f) = Answer(s, Frame("ClientValidator", NegotiatedVersion(f), f.id, M1(k)))
      BY <1>2, <2>2, <2>3 DEF OnServerKey, q
    <2> HIDE DEF s
    <2> QED BY <2>1, <2>4, <2>5, ClientAnswers, ProofBodies, AllKinds
  <1> QED BY <1>1, <1>2

\* The step that makes a session key of the authenticatee's: the proof it was
\* sent is over its own key.
LEMMA ServerValidatorOK ==
  ASSUME NEW r, NEW f, NEW pw, ClientOK(r, pw), BodyOK(f.body, pw)
  PROVE  OutcomeOK("sender", OnServerValidator(r, f), pw)
  <1>1. CASE r.client = None \/ f.body = None
    BY <1>1, ClientSilent DEF OnServerValidator
  <1> DEFINE q == Adopt(r, f)
             s == [q EXCEPT !.session = r.client.key, !.state = "Success"]
  <1>2. ClientOK(q, pw)
    BY AdoptOK
  <1>3. CASE ~(r.client = None \/ f.body = None) /\ (r.client.key = None \/ f.body # M2(r.client.key))
    <2>1. OnServerValidator(r, f) = Fail(q, None)
      BY <1>3 DEF OnServerValidator
    <2> QED BY <1>2, <2>1, ClientSilent
  <1>4. CASE ~(r.client = None \/ f.body = None) /\ r.client.key # None /\ f.body = M2(r.client.key)
    <2>1. pw = "good"
      BY <1>4, ProofBodies
    <2> HIDE DEF q
    <2>2. ClientOK(s, pw)
      BY <1>2, <1>4, <2>1 DEF ClientOK, ClientFields
    <2>3. OnServerValidator(r, f) = Answer(s, Frame("Success", NegotiatedVersion(f), f.id, None))
      BY <1>4 DEF OnServerValidator, q
    <2> HIDE DEF s
    <2> QED BY <2>2, <2>3, ClientAnswers, PlainBodies, AllKinds
  <1> QED BY <1>1, <1>3, <1>4

LEMMA PassphraseOK ==
  ASSUME NEW e, NEW r, NEW f, NEW pw, RoleOK(e, r, pw)
  PROVE  OutcomeOK(e, OnPassphrase(r, f), pw)
  <1>1. FrameOK(SuccessAck(f.id), pw) /\ FrameOK(PassphrasePush(f.id), pw)
    BY FramesOK, PlainBodies, AllKinds DEF SuccessAck, PassphrasePush
  <1> QED BY <1>1, OutcomesOK DEF OnPassphrase

LEMMA ClientHandlesOK ==
  ASSUME NEW r0, NEW f, NEW pw, NEW user, NEW a, ClientOK(r0, pw), f.kind \in Kinds, BodyOK(f.body, pw)
  PROVE  OutcomeOK("sender", ClientHandles(r0, f, user, a), pw)
  <1> DEFINE r == IF r0.state = "Success" /\ f.kind = "IdentityRequest" THEN RestartClient(r0) ELSE r0
             o == ClientHandles(r0, f, user, a)
  <1>1. ClientOK(r, pw)
    BY RestartsOK
  <1>2. CASE f.kind \in ServerDriven /\ (r.state = "Success" \/ OutOfSequence(r, f))
    <2>1. o = Silent(r)
      BY <1>2 DEF ClientHandles
    <2> QED BY <1>1, <2>1, ClientSilent
  <1>3. CASE ~(f.kind \in ServerDriven /\ (r.state = "Success" \/ OutOfSequence(r, f)))
    <2> HIDE DEF r
    <2>0. o = CASE f.kind = "IdentityRequest" -> OnIdentityRequest(r, f, user)
         [] f.kind = "Challenge"       -> OnChallenge(r, f, a)
         [] f.kind = "ServerKey"       -> OnServerKey(r, f)
         [] f.kind = "ServerValidator" -> OnServerValidator(r, f)
         [] f.kind = "Success"         -> Silent(r)
         [] f.kind = "Failure"         -> IF r.state # "InProgress" \/ f.id # r.id THEN Silent(r) ELSE Fail(r, None)
         [] f.kind \in {"PassphraseRequest", "PassphraseResponse"} -> OnPassphrase(r, f)
         [] f.kind \in {"Start", "Logoff", "IdentityResponse", "ClientKey", "ClientValidator"} -> Unexpected(r)
      BY <1>3 DEF ClientHandles, r
    <2> HIDE DEF o
    <2>1. CASE f.kind = "IdentityRequest"
      BY <1>1, <2>0, <2>1, IdentityRequestOK DEF o
    <2>2. CASE f.kind = "Challenge"
      BY <1>1, <2>0, <2>2, ChallengeOK DEF o
    <2>3. CASE f.kind = "ServerKey"
      BY <1>1, <2>0, <2>3, ServerKeyOK DEF o
    <2>4. CASE f.kind = "ServerValidator"
      BY <1>1, <2>0, <2>4, ServerValidatorOK DEF o
    <2>5. CASE f.kind \in {"Success", "Failure", "Start", "Logoff", "IdentityResponse", "ClientKey", "ClientValidator"}
      BY <1>1, <2>0, <2>5, ClientSilent DEF o
    <2>6. CASE f.kind \in {"PassphraseRequest", "PassphraseResponse"}
      BY <1>1, <2>0, <2>6, PassphraseOK DEF o, RoleOK
    <2> QED BY <2>1, <2>2, <2>3, <2>4, <2>5, <2>6, AllKinds DEF o
  <1> QED BY <1>2, <1>3

----------------------------------------------------------------------------
(* What the authenticator does with a frame *)

LEMMA ServerAnswers ==
  ASSUME NEW r, NEW pw, ServerOK(r, pw), NEW k \in Kinds, NEW v, NEW i, NEW b, BodyOK(b, pw)
  PROVE  OutcomeOK("receiver", Answer(r, Frame(k, v, i, b)), pw)
  BY FramesOK, OutcomesOK DEF RoleOK

LEMMA ServerSilent ==
  ASSUME NEW r, NEW pw, ServerOK(r, pw)
  PROVE  /\ OutcomeOK("receiver", Silent(r), pw) /\ OutcomeOK("receiver", Unexpected(r), pw)
         /\ OutcomeOK("receiver", Fail(r, None), pw)
  BY NoFrameOK, OutcomesOK DEF RoleOK

LEMMA StartOK ==
  ASSUME NEW r, NEW pw, ServerOK(r, pw)
  PROVE  OutcomeOK("receiver", OnStart(r), pw)
  <1>1. ServerOK(RestartServer(r), pw)
    BY RestartsOK
  <1> QED BY <1>1, StartsOK, ServerSilent DEF OnStart

LEMMA LogoffOK ==
  ASSUME NEW r, NEW pw, ServerOK(r, pw)
  PROVE  OutcomeOK("receiver", OnLogoff(r), pw)
  <1> DEFINE s == [r EXCEPT !.state = "Unauth", !.server = None, !.session = None, !.verified = FALSE]
  <1>1. ServerOK(s, pw)
    BY DEF ServerOK, ServerFields
  <1> HIDE DEF s
  <1>2. OnLogoff(r) = Silent(r) \/ OnLogoff(r) = Silent(s)
    BY DEF OnLogoff, s
  <1> QED BY <1>1, <1>2, ServerSilent

LEMMA IdentityResponseOK ==
  ASSUME NEW r, NEW f, NEW pw, NEW b, ServerOK(r, pw)
  PROVE  OutcomeOK("receiver", OnIdentityResponse(r, f, [user |-> "good"], b), pw)
  <1> DEFINE lookup == [user |-> "good"]
  <1>1. CASE f.body.user \notin DOMAIN lookup
    BY <1>1, ServerSilent DEF OnIdentityResponse
  <1>2. CASE f.body.user \in DOMAIN lookup
    <2> DEFINE c == NewServer(b)
               n == NextId(r.id)
               p == lookup[f.body.user]
               s == [r EXCEPT !.server = c, !.pw = p, !.state = "InProgress", !.id = n]
    <2>1. DOMAIN c = {"b", "pubA", "key"} /\ p = "good"
      BY <1>2 DEF NewServer
    <2> HIDE DEF c, n, p
    <2>2. ServerOK(s, pw)
      BY <2>1 DEF ServerOK, ServerFields
    <2>3. OnIdentityResponse(r, f, lookup, b) = Answer(s, Frame("Challenge", r.ver, n, None))
      BY <1>2 DEF OnIdentityResponse, c, n, p
    <2> HIDE DEF s
    <2> QED BY <2>2, <2>3, ServerAnswers, PlainBodies, AllKinds
  <1> QED BY <1>1, <1>2

LEMMA ClientKeyOK ==
  ASSUME NEW r, NEW f, NEW pw, ServerOK(r, pw)
  PROVE  OutcomeOK("receiver", OnClientKey(r, f), pw)
  <1>1. CASE r.server = None
    BY <1>1, ServerSilent DEF OnClientKey
  <1>2. CASE r.server # None
    <2> DEFINE n == NextId(r.id)
               c == [r.server EXCEPT !.pubA = f.body.a]
               s == [r EXCEPT !.server = c, !.id = n]
    <2> HIDE DEF n
    <2>1. DOMAIN c = {"b", "pubA", "key"} /\ r.pw = "good"
      BY <1>2 DEF ServerOK
    <2>2. [r EXCEPT !.server.pubA = f.body.a, !.id = n] = s
      OBVIOUS
    <2> HIDE DEF c
    <2>3. ServerOK(s, pw)
      BY <2>1 DEF ServerOK, ServerFields
    <2>4. OnClientKey(r, f) = Answer(s, Frame("ServerKey", r.ver, n, [b |-> r.server.b]))
      BY <1>2, <2>2 DEF OnClientKey, n
    <2> HIDE DEF s
    <2> QED BY <2>3, <2>4, ServerAnswers, PlainBodies, AllKinds
  <1> QED BY <1>1, <1>2

\* The step that makes a session key of the authenticator's: a proof over a
\* key of the verifier's password can only come from a peer that knows it.
LEMMA ClientValidatorOK ==
  ASSUME NEW r, NEW f, NEW pw, ServerOK(r, pw), BodyOK(f.body, pw)
  PROVE  OutcomeOK("receiver", OnClientValidator(r, f), pw)
  <1> DEFINE key == ServerKeyOf(r.server, r.ver, r.pw)
             n   == NextId(r.id)
             c   == [r.server EXCEPT !.key = key]
             s   == [r EXCEPT !.server = c, !.session = key, !.verified = TRUE, !.id = n]
  <1>0. key # None /\ key.pw = r.pw
    BY KeyNotNone DEF ServerKeyOf
  <1>1. CASE r.server = None
    BY <1>1, ServerSilent DEF OnClientValidator
  <1> HIDE DEF key, n
  <1>2. CASE r.server # None /\ (r.server.pubA = 0 \/ f.body # M1(key))
    <2>1. OnClientValidator(r, f) = Fail(r, Frame("Failure", r.ver, r.id, None))
      BY <1>2 DEF OnClientValidator, key
    <2>2. FrameOK(Frame("Failure", r.ver, r.id, None), pw)
      BY FramesOK, PlainBodies, AllKinds
    <2> QED BY <2>1, <2>2, OutcomesOK DEF RoleOK
  <1>3. CASE r.server # None /\ ~(r.server.pubA = 0 \/ f.body # M1(key))
    <2>1. pw = "good" /\ r.pw = "good" /\ DOMAIN c = {"b", "pubA", "key"}
      BY <1>0, <1>3, ProofBodies DEF ServerOK
    <2>2. [r EXCEPT !.server.key = key, !.session = key, !.verified = TRUE, !.id = n] = s
      OBVIOUS
    <2> HIDE DEF c
    <2>3. ServerOK(s, pw)
      BY <1>0, <2>1 DEF ServerOK, ServerFields
    <2>4. OnClientValidator(r, f) = Answer(s, Frame("ServerValidator", r.ver, n, M2(key)))
      BY <1>3, <2>2 DEF OnClientValidator, n, key
    <2> HIDE DEF s
    <2> QED BY <2>1, <2>3, <2>4, ServerAnswers, ProofBodies, AllKinds
  <1> QED BY <1>1, <1>2, <1>3

LEMMA AcknowledgedOK ==
  ASSUME NEW r, NEW pw, ServerOK(r, pw)
  PROVE  OutcomeOK("receiver", OnAcknowledged(r), pw)
  <1> DEFINE n == NextId(r.id)
             s == [r EXCEPT !.state = "Success", !.everAuthed = TRUE, !.id = n]
  <1> HIDE DEF n
  <1>1. r.verified => ServerOK(s, pw)
    BY DEF ServerOK, ServerFields
  <1> HIDE DEF s
  <1>2. OnAcknowledged(r) = IF r.verified THEN Silent(s) ELSE Silent(r)
    BY DEF OnAcknowledged, s, n
  <1> QED BY <1>1, <1>2, ServerSilent

LEMMA ServerHandlesOK ==
  ASSUME NEW r, NEW f, NEW pw, NEW b, ServerOK(r, pw), f.kind \in Kinds, BodyOK(f.body, pw)
  PROVE  OutcomeOK("receiver", ServerHandles(r, f, [user |-> "good"], b), pw)
  <1> DEFINE lookup == [user |-> "good"]
             o == ServerHandles(r, f, lookup, b)
  <1>1. CASE Mismatched(r, f)
    BY <1>1, ServerSilent DEF ServerHandles
  <1>2. CASE ~Mismatched(r, f)
    <2>0. o = CASE f.kind = "Start"            -> OnStart(r)
         [] f.kind = "Logoff"           -> OnLogoff(r)
         [] f.kind = "IdentityResponse" -> OnIdentityResponse(r, f, lookup, b)
         [] f.kind = "ClientKey"        -> OnClientKey(r, f)
         [] f.kind = "ClientValidator"  -> OnClientValidator(r, f)
         [] f.kind \in {"ServerValidator", "Success"} -> OnAcknowledged(r)
         [] f.kind \in {"PassphraseRequest", "PassphraseResponse"} -> OnPassphrase(r, f)
         [] f.kind = "Failure"          -> IF r.state # "InProgress" THEN Silent(r) ELSE Fail(r, None)
         [] f.kind \in {"IdentityRequest", "Challenge", "ServerKey"} -> Unexpected(r)
      BY <1>2 DEF ServerHandles
    <2> HIDE DEF o
    <2>1. CASE f.kind = "Start"
      BY <2>0, <2>1, StartOK DEF o
    <2>2. CASE f.kind = "Logoff"
      BY <2>0, <2>2, LogoffOK DEF o
    <2>3. CASE f.kind = "IdentityResponse"
      BY <2>0, <2>3, IdentityResponseOK DEF o
    <2>4. CASE f.kind = "ClientKey"
      BY <2>0, <2>4, ClientKeyOK DEF o
    <2>5. CASE f.kind = "ClientValidator"
      BY <2>0, <2>5, ClientValidatorOK DEF o
    <2>6. CASE f.kind \in {"ServerValidator", "Success"}
      BY <2>0, <2>6, AcknowledgedOK DEF o
    <2>7. CASE f.kind \in {"PassphraseRequest", "PassphraseResponse"}
      BY <2>0, <2>7, PassphraseOK DEF o, RoleOK
    <2>8. CASE f.kind \in {"Failure", "IdentityRequest", "Challenge", "ServerKey"}
      BY <2>0, <2>8, ServerSilent DEF o
    <2> QED BY <2>1, <2>2, <2>3, <2>4, <2>5, <2>6, <2>7, <2>8, AllKinds DEF o
  <1> QED BY <1>1, <1>2

\* recv, of either role: a repetition is answered from the cache.
LEMMA HandledOK ==
  ASSUME NEW e \in Ends, NEW r, NEW w, NEW n, NEW pw, RoleOK(e, r, pw), w # None, WireOK(w, pw)
  PROVE  OutcomeOK(e, Handled(e, r, w, Parse(w), n), pw)
  <1> DEFINE f == Parse(w)
             h == IF e = "sender" THEN ClientHandles(r, f, "user", n)
                                  ELSE ServerHandles(r, f, [user |-> "good"], n)
  <1>1. f.kind \in Kinds /\ BodyOK(f.body, pw)
    BY ParsedOK
  <1> HIDE DEF f
  <1>2. OutcomeOK(e, h, pw)
    BY <1>1, ClientHandlesOK, ServerHandlesOK DEF RoleOK, Ends
  <1> HIDE DEF h
  <1>3. Handled(e, r, w, f, n) = Recv(r, w, h)
    BY DEF Handled, h, f
  <1>4. CASE r.lastRx = w
    <2>1. FrameOK(r.lastReply, pw)
      BY DEF RoleOK, ClientOK, ServerOK
    <2> QED BY <1>3, <1>4, <2>1 DEF Recv, OutcomeOK, Outcome, f
  <1>5. CASE r.lastRx # w /\ h.err
    BY <1>2, <1>3, <1>5 DEF Recv, f
  <1>6. CASE r.lastRx # w /\ ~h.err
    <2> DEFINE q == [h.role EXCEPT !.lastRx = w, !.lastReply = h.reply]
               g == [h EXCEPT !.role = q]
    <2>1. RoleOK(e, h.role, pw) /\ FrameOK(h.reply, pw)
      BY <1>2 DEF OutcomeOK
    <2>2. RoleOK(e, q, pw)
      BY <2>1 DEF RoleOK, ClientOK, ServerOK, ClientFields, ServerFields
    <2> HIDE DEF q
    <2>3. DOMAIN g = {"role", "reply", "err"} /\ g.role = q /\ g.reply = h.reply
      BY <1>2 DEF OutcomeOK
    <2>4. Recv(r, w, h) = g
      BY <1>6 DEF Recv, q
    <2> QED BY <1>3, <2>1, <2>2, <2>3, <2>4 DEF OutcomeOK, f
  <1> QED BY <1>4, <1>5, <1>6

----------------------------------------------------------------------------
(* Sequences of whatever they hold *)

Elements(q) == {q[i] : i \in DOMAIN q}
IsSeq(q)    == q \in Seq(Elements(q))

LEMMA SeqIs ==
  ASSUME NEW S, NEW q \in Seq(S)
  PROVE  IsSeq(q) /\ DOMAIN q = 1 .. Len(q) /\ Len(q) \in Nat
  <1>1. DOMAIN q = 1 .. Len(q) /\ Len(q) \in Nat
    BY LenProperties
  <1>2. q = [i \in 1 .. Len(q) |-> q[i]]
    BY <1>1
  <1>3. \A i \in 1 .. Len(q) : q[i] \in Elements(q)
    BY <1>1 DEF Elements
  <1> QED BY <1>1, <1>2, <1>3, IsASeq DEF IsSeq

LEMMA EmptyIs == IsSeq(<<>>)
  BY SeqIs, EmptySeq

LEMMA AppendIs ==
  ASSUME NEW q, IsSeq(q), NEW m
  PROVE  /\ IsSeq(Append(q, m))
         /\ \A i \in DOMAIN Append(q, m) : \/ i \in DOMAIN q /\ Append(q, m)[i] = q[i]
                                           \/ Append(q, m)[i] = m
  <1> DEFINE S == Elements(q) \cup {m}
  <1>1. Elements(q) \subseteq S /\ m \in S
    OBVIOUS
  <1>2. q \in Seq(Elements(q))
    BY DEF IsSeq
  <1> HIDE DEF S
  <1>3. q \in Seq(S) /\ DOMAIN q = 1 .. Len(q) /\ Len(q) \in Nat
    BY <1>1, <1>2, SeqMonotonic, SeqIs
  <1>4. /\ Append(q, m) \in Seq(S) /\ Len(Append(q, m)) = Len(q) + 1
        /\ \A i \in 1 .. Len(q) : Append(q, m)[i] = q[i]
        /\ Append(q, m)[Len(q) + 1] = m
    BY ONLY <1>1, <1>3, AppendProperties
  <1>5. IsSeq(Append(q, m)) /\ DOMAIN Append(q, m) = 1 .. Len(Append(q, m))
    BY <1>4, SeqIs
  <1> QED BY <1>3, <1>4, <1>5

LEMMA SingleIs ==
  ASSUME NEW m
  PROVE  IsSeq(<<m>>) /\ DOMAIN <<m>> = {1} /\ <<m>>[1] = m
  <1> DEFINE q == <<m>>
  <1>1. q \in Seq({m}) /\ DOMAIN q = {1} /\ q[1] = m
    OBVIOUS
  <1> HIDE DEF q
  <1>2. IsSeq(q)
    BY <1>1, SeqIs
  <1> QED BY <1>1, <1>2 DEF q

LEMMA ConcatIs ==
  ASSUME NEW q, NEW p, IsSeq(q), IsSeq(p)
  PROVE  IsSeq(q \o p) /\ Elements(q \o p) \subseteq Elements(q) \cup Elements(p)
  <1> DEFINE S == Elements(q) \cup Elements(p)
             t == q \o p
  <1>1. Elements(q) \subseteq S /\ Elements(p) \subseteq S
    OBVIOUS
  <1>2. q \in Seq(Elements(q)) /\ p \in Seq(Elements(p))
    BY DEF IsSeq
  <1> HIDE DEF S
  <1>3. /\ q \in Seq(S) /\ p \in Seq(S) /\ DOMAIN q = 1 .. Len(q) /\ Len(q) \in Nat
        /\ DOMAIN p = 1 .. Len(p) /\ Len(p) \in Nat
    BY <1>1, <1>2, SeqMonotonic, SeqIs
  <1>4. /\ q \o p \in Seq(S) /\ Len(q \o p) = Len(q) + Len(p)
        /\ \A i \in 1 .. Len(q) + Len(p) : (q \o p)[i] = IF i <= Len(q) THEN q[i] ELSE p[i - Len(q)]
    BY ONLY <1>3, ConcatProperties
  <1> HIDE DEF t
  <1>5. /\ t \in Seq(S) /\ Len(t) = Len(q) + Len(p)
        /\ \A i \in 1 .. Len(q) + Len(p) : t[i] = IF i <= Len(q) THEN q[i] ELSE p[i - Len(q)]
    BY <1>4 DEF t
  <1>6. IsSeq(t) /\ DOMAIN t = 1 .. Len(q) + Len(p)
    BY ONLY <1>5, SeqIs
  <1>7. ASSUME NEW i \in DOMAIN t
        PROVE  (\E j \in DOMAIN q : t[i] = q[j]) \/ (\E j \in DOMAIN p : t[i] = p[j])
    <2>1. CASE i <= Len(q)
      <3>1. i \in DOMAIN q /\ t[i] = q[i]
        BY ONLY <1>3, <1>5, <1>6, <1>7, <2>1
      <3> QED BY <3>1
    <2>2. CASE ~(i <= Len(q))
      <3>1. i - Len(q) \in DOMAIN p /\ t[i] = p[i - Len(q)]
        BY ONLY <1>3, <1>5, <1>6, <1>7, <2>2
      <3> QED BY <3>1
    <2> QED BY <2>1, <2>2
  <1>8. Elements(t) \subseteq Elements(q) \cup Elements(p)
    BY <1>7 DEF Elements
  <1> QED BY <1>6, <1>8 DEF t

LEMMA TailIs ==
  ASSUME NEW q, IsSeq(q), q # <<>>
  PROVE  /\ IsSeq(Tail(q)) /\ 1 \in DOMAIN q /\ Head(q) = q[1]
         /\ \A i \in DOMAIN Tail(q) : i + 1 \in DOMAIN q /\ Tail(q)[i] = q[i + 1]
  <1> DEFINE S == Elements(q)
  <1>1. q \in Seq(S) /\ q # <<>>
    BY DEF IsSeq
  <1> HIDE DEF S
  <1>2. /\ Tail(q) \in Seq(S) /\ Len(Tail(q)) = Len(q) - 1 /\ Head(q) = q[1]
        /\ \A i \in 1 .. Len(Tail(q)) : Tail(q)[i] = q[i + 1]
    BY ONLY <1>1, HeadTailProperties
  <1>3. DOMAIN q = 1 .. Len(q) /\ Len(q) \in Nat /\ IsSeq(Tail(q)) /\ DOMAIN Tail(q) = 1 .. Len(Tail(q))
    BY <1>1, <1>2, SeqIs
  <1>4. Len(q) # 0
    BY ONLY <1>1, EmptySeq
  <1> QED BY <1>2, <1>3, <1>4

----------------------------------------------------------------------------
(* Bundles *)

DriverFields ==
  {"peer", "silent", "seen", "greeted", "started", "authed", "ever", "reauthing", "left",
   "lastTx", "retx", "cname", "sendKey", "recvKey", "open", "proven", "admitted", "moved"}

\* A driver that has moved has been authenticated and has a peer, and if it
\* trusts that peer the last proof came from there; the callback was not asked
\* before the first success and at most once after it.
Admits(d) ==
  /\ DOMAIN d = DriverFields
  /\ d.admitted \in {0, 1} /\ (~d.ever => d.admitted = 0)
  /\ d.moved => d.ever /\ d.peer # "none"
  /\ d.moved /\ d.authed => d.proven = d.peer

DriverOK(d, pw) == Admits(d) /\ WireOK(d.lastTx, pw)
OutOK(out, pw)  == IsSeq(out) /\ \A i \in DOMAIN out : WireOK(out[i].eap, pw)
BundleOK(e, x, pw) ==
  /\ DOMAIN x = {"d", "r", "out"}
  /\ DriverOK(x.d, pw) /\ RoleOK(e, x.r, pw) /\ OutOK(x.out, pw)

LEMMA BundlesOK ==
  ASSUME NEW e, NEW pw, NEW d, NEW r, NEW out, DriverOK(d, pw), RoleOK(e, r, pw), OutOK(out, pw)
  PROVE  BundleOK(e, Bundle(d, r, out), pw)
  BY DEF BundleOK, Bundle

LEMMA OutGrows ==
  ASSUME NEW out, NEW pw, OutOK(out, pw), NEW m, WireOK(m.eap, pw)
  PROVE  OutOK(Append(out, m), pw)
  <1> DEFINE q == Append(out, m)
  <1>1. IsSeq(q) /\ \A i \in DOMAIN q : (i \in DOMAIN out /\ q[i] = out[i]) \/ q[i] = m
    BY AppendIs DEF OutOK
  <1> HIDE DEF q
  <1>2. OutOK(q, pw)
    BY <1>1 DEF OutOK
  <1> QED BY <1>2 DEF q

LEMMA FramesSent ==
  ASSUME NEW w, NEW pw, WireOK(w, pw), NEW key
  PROVE  WireOK(Eapol(w).eap, pw) /\ WireOK(Beacon(key).eap, pw)
  BY NoFrameOK DEF Eapol, Beacon

\* A step that replaces the driver and sends one datagram.
LEMMA BundleSends ==
  ASSUME NEW e, NEW x, NEW pw, BundleOK(e, x, pw), NEW d, DriverOK(d, pw), NEW m, WireOK(m.eap, pw)
  PROVE  LET y == [x EXCEPT !.d = d, !.out = Append(x.out, m)] IN
         BundleOK(e, y, pw) /\ y.d = d
  <1> DEFINE o == Append(x.out, m)
  <1>1. OutOK(o, pw)
    BY OutGrows DEF BundleOK
  <1> HIDE DEF o
  <1>2. LET y == [x EXCEPT !.d = d, !.out = o] IN BundleOK(e, y, pw) /\ y.d = d
    BY <1>1 DEF BundleOK
  <1> QED BY <1>2 DEF o

LEMMA BundleKeeps ==
  ASSUME NEW e, NEW x, NEW pw, BundleOK(e, x, pw), NEW d, DriverOK(d, pw)
  PROVE  BundleOK(e, [x EXCEPT !.d = d], pw) /\ [x EXCEPT !.d = d].d = d
  BY DEF BundleOK

LEMMA GreetOK ==
  ASSUME NEW e, NEW x, NEW pw, BundleOK(e, x, pw)
  PROVE  BundleOK(e, Greet(x), pw) /\ Greet(x).d = [x.d EXCEPT !.greeted = TRUE]
  <1> DEFINE d == [x.d EXCEPT !.greeted = TRUE]
             m == Beacon(x.d.sendKey)
  <1>1. DriverOK(d, pw)
    BY DEF BundleOK, DriverOK, Admits, DriverFields
  <1>2. WireOK(m.eap, pw)
    BY FramesSent, NoFrameOK
  <1>3. Greet(x) = [x EXCEPT !.d = d, !.out = Append(x.out, m)]
    BY DEF Greet
  <1> HIDE DEF d, m
  <1>4. BundleOK(e, Greet(x), pw) /\ Greet(x).d = d
    <2> DEFINE y == [x EXCEPT !.d = d, !.out = Append(x.out, m)]
    <2>1. BundleOK(e, y, pw)
      BY <1>1, <1>2, BundleSends, Zenon
    <2>2. y.d = d
      BY DEF BundleOK
    <2> QED BY <1>3, <2>1, <2>2
  <1> QED BY <1>4 DEF d

LEMMA StartsEapOK ==
  ASSUME NEW e \in Ends, NEW x, NEW pw, BundleOK(e, x, pw)
  PROVE  LET y == MaybeStartEap(e, x) IN
         BundleOK(e, y, pw) /\ y.d.peer = x.d.peer /\ y.d.ever = x.d.ever
  <1>1. CASE x.d.started \/ x.d.peer = "none" \/ e = "receiver"
    BY <1>1 DEF MaybeStartEap
  <1>2. CASE ~(x.d.started \/ x.d.peer = "none" \/ e = "receiver")
    <2> DEFINE o == StartClient(x.r)
               w == Encode(o.reply)
               d == [x.d EXCEPT !.started = TRUE, !.lastTx = w, !.retx = 0]
               m == Eapol(w)
               z == [x EXCEPT !.r = o.role]
               y == [z EXCEPT !.d = d, !.out = Append(z.out, m)]
    <2>1. e = "sender" /\ ClientOK(x.r, pw)
      BY <1>2 DEF Ends, BundleOK, RoleOK
    <2>2. RoleOK(e, o.role, pw) /\ FrameOK(o.reply, pw)
      BY <2>1, StartsOK DEF OutcomeOK
    <2>3. o.reply # None
      BY FrameNotNone DEF StartClient, Outcome
    <2>4. WireOK(w, pw) /\ WireOK(m.eap, pw)
      BY <2>2, <2>3, EncodedOK, FramesSent
    <2> HIDE DEF o, w
    <2>5. DriverOK(d, pw) /\ d.peer = x.d.peer /\ d.ever = x.d.ever
      BY <2>4 DEF BundleOK, DriverOK, Admits, DriverFields
    <2>6. BundleOK(e, z, pw)
      BY <2>2 DEF BundleOK
    <2>7. MaybeStartEap(e, x) = y
      <3>1. MaybeStartEap(e, x) =
              [x EXCEPT !.r = o.role, !.out = Append(@, Eapol(w)),
                        !.d.started = TRUE, !.d.lastTx = w, !.d.retx = 0]
        BY <1>2 DEF MaybeStartEap, o, w
      <3>2. DOMAIN x = {"d", "r", "out"}
        BY DEF BundleOK
      <3> HIDE DEF m
      <3>3. [x EXCEPT !.r = o.role, !.out = Append(@, m),
                      !.d.started = TRUE, !.d.lastTx = w, !.d.retx = 0] = y
        BY <3>2
      <3> QED BY <3>1, <3>3 DEF m
    <2> HIDE DEF d, m, z
    <2>8. BundleOK(e, y, pw)
      BY <2>4, <2>5, <2>6, BundleSends, Zenon
    <2>9. y.d = d
      BY <2>6 DEF BundleOK
    <2> QED BY <2>5, <2>7, <2>8, <2>9
  <1> QED BY <1>1, <1>2

\* A datagram of the peer's, or of one that becomes it: from here on the
\* driver's peer is its source if there ever was a success.
LEMMA LearnOK ==
  ASSUME NEW e \in Ends, NEW x, NEW src, NEW pw, BundleOK(e, x, pw), src # "none", ~Foreign(x.d, src)
  PROVE  LET y == Learn(e, x, src) IN
         BundleOK(e, y, pw) /\ (y.d.ever => y.d.peer = src)
  <1> DEFINE d == Observe(Adopts(x.d, src))
             y == [x EXCEPT !.d = d]
             z == IF y.d.greeted THEN y ELSE Greet(y)
  <1>1. DriverOK(d, pw) /\ (d.ever => d.peer = src)
    BY DEF BundleOK, DriverOK, Admits, DriverFields, Observe, Adopts, Foreign, SrpAuthed
  <1>2. Learn(e, x, src) = MaybeStartEap(e, z)
    BY DEF Learn
  <1> HIDE DEF z
  <1> HIDE DEF d
  <1>3. BundleOK(e, y, pw) /\ y.d = d
    BY <1>1, BundleKeeps
  <1> HIDE DEF y
  <1>4. BundleOK(e, z, pw) /\ (z.d.ever => z.d.peer = src)
    <2>1. BundleOK(e, Greet(y), pw) /\ Greet(y).d = [d EXCEPT !.greeted = TRUE]
      BY <1>3, GreetOK
    <2>2. [d EXCEPT !.greeted = TRUE].ever = d.ever /\ [d EXCEPT !.greeted = TRUE].peer = d.peer
      BY <1>1 DEF DriverOK, Admits, DriverFields
    <2>3. CASE y.d.greeted
      BY <1>1, <1>3, <2>3 DEF z
    <2>4. CASE ~y.d.greeted
      BY <1>1, <2>1, <2>2, <2>4 DEF z
    <2> QED BY <2>3, <2>4
  <1> HIDE DEF z
  <1> QED BY <1>2, <1>4, StartsEapOK

LEMMA FeedbackOK ==
  ASSUME NEW e, NEW x, NEW p, NEW pw, BundleOK(e, x, pw)
  PROVE  BundleOK(e, Feedback(x, p), pw)
  <1> DEFINE d == [x.d EXCEPT !.cname = TRUE]
  <1>1. DriverOK(d, pw)
    BY DEF BundleOK, DriverOK, Admits, DriverFields
  <1>2. [x EXCEPT !.d.cname = TRUE] = [x EXCEPT !.d = d]
    OBVIOUS
  <1> HIDE DEF d
  <1>3. BundleOK(e, [x EXCEPT !.d = d], pw)
    BY <1>1, BundleKeeps
  <1> QED BY <1>2, <1>3 DEF Feedback

\* The re-keying pushes a passphrase.
LEMMA OnAuthenticatedOK ==
  ASSUME NEW e, NEW x, NEW pw, BundleOK(e, x, pw)
  PROVE  BundleOK(e, OnAuthenticated(e, x), pw)
  <1> DEFINE s == IF e = "receiver" THEN x.r.session ELSE x.d.sendKey
             t == IF e = "sender" THEN x.r.session ELSE x.d.recvKey
             d == [x.d EXCEPT !.sendKey = s, !.recvKey = t]
             m == Eapol(Encode(PassphrasePush(PushId)))
             y == [x EXCEPT !.d = d, !.out = Append(x.out, m)]
  <1>1. WireOK(m.eap, pw)
    <2>1. FrameOK(PassphrasePush(PushId), pw) /\ PassphrasePush(PushId) # None
      BY FramesOK, PlainBodies, FrameNotNone, AllKinds DEF PassphrasePush
    <2> QED BY <2>1, EncodedOK, FramesSent
  <1>2. OnAuthenticated(e, x) = y
    <2> HIDE DEF m
    <2>1. DOMAIN x = {"d", "r", "out"} /\ DOMAIN x.d = DriverFields
      BY DEF BundleOK, DriverOK, Admits
    <2>2. OnAuthenticated(e, x) =
            [x EXCEPT !.d.sendKey = s, !.d.recvKey = t, !.out = Append(@, m)]
      BY <2>1 DEF OnAuthenticated, m, DriverFields
    <2> HIDE DEF s, t
    <2>3. [x EXCEPT !.d.sendKey = s, !.d.recvKey = t, !.out = Append(@, m)] = y
      BY <2>1
    <2> QED BY <2>2, <2>3
  <1> HIDE DEF s, t
  <1>3. DriverOK(d, pw)
    BY DEF BundleOK, DriverOK, Admits, DriverFields
  <1> HIDE DEF d, m
  <1>4. BundleOK(e, y, pw)
    BY <1>1, <1>3, BundleSends, Zenon
  <1> QED BY <1>2, <1>4

\* The reply, and the state of the driver before a success is acted upon.
LEMMA RepliedOK ==
  ASSUME NEW d, NEW o, NEW pw, DriverOK(d, pw), FrameOK(o.reply, pw)
  PROVE  LET c == Replied(d, o) IN
         /\ DOMAIN c = DriverFields /\ WireOK(c.lastTx, pw)
         /\ c.admitted = d.admitted /\ c.ever = d.ever /\ c.moved = d.moved /\ c.peer = d.peer
         /\ c.proven = d.proven /\ c.authed = Authenticated(o.role)
  <1> DEFINE l == IF o.reply = None THEN d.lastTx ELSE Encode(o.reply)
             a == Authenticated(o.role)
  <1>1. WireOK(l, pw)
    BY EncodedOK DEF DriverOK
  <1>2. Replied(d, o) = [d EXCEPT !.retx = 0, !.authed = a, !.lastTx = l]
    BY DEF Replied, DriverOK, Admits, DriverFields
  <1> HIDE DEF l, a
  <1>3. LET c == [d EXCEPT !.retx = 0, !.authed = a, !.lastTx = l] IN
         /\ DOMAIN c = DriverFields /\ c.lastTx = l
         /\ c.admitted = d.admitted /\ c.ever = d.ever /\ c.moved = d.moved /\ c.peer = d.peer
         /\ c.proven = d.proven /\ c.authed = a
    BY DEF DriverOK, Admits, DriverFields
  <1> QED BY <1>1, <1>2, <1>3 DEF a

\* A success proves the source unless the driver was authenticated already,
\* when the proof it holds is of the peer it has.
LEMMA MarkOK ==
  ASSUME NEW b, NEW d, NEW src, NEW pw, DriverOK(b, pw), b.ever => b.peer = src,
         DOMAIN d = DriverFields, WireOK(d.lastTx, pw), d.admitted = b.admitted, d.ever = b.ever,
         d.moved = b.moved, d.peer = b.peer, d.proven = b.proven
  PROVE  DriverOK(MarkSuccess(d, b.authed, src), pw)
  <1> DEFINE p == IF b.authed THEN d.proven ELSE src
             n == IF d.ever THEN d.admitted ELSE d.admitted + 1
             c == [d EXCEPT !.ever = TRUE, !.reauthing = FALSE, !.proven = p, !.admitted = n]
  <1>1. MarkSuccess(d, b.authed, src) = c
    BY DEF MarkSuccess, DriverFields
  <1>2. n \in {0, 1}
    BY DEF DriverOK, Admits
  <1>3. d.moved => p = d.peer /\ d.peer # "none"
    BY DEF DriverOK, Admits
  <1> HIDE DEF p, n
  <1>4. /\ DOMAIN c = DriverFields /\ c.ever = TRUE /\ c.proven = p /\ c.admitted = n
        /\ c.moved = d.moved /\ c.peer = d.peer /\ c.authed = d.authed /\ c.lastTx = d.lastTx
    BY DEF DriverFields
  <1> HIDE DEF c
  <1> QED BY <1>1, <1>2, <1>3, <1>4 DEF DriverOK, Admits

LEMMA SucceedsOK ==
  ASSUME NEW e, NEW b, NEW x, NEW src, NEW pw, DriverOK(b, pw), b.ever => b.peer = src,
         DOMAIN x = {"d", "r", "out"}, RoleOK(e, x.r, pw), OutOK(x.out, pw),
         DOMAIN x.d = DriverFields, WireOK(x.d.lastTx, pw), x.d.admitted = b.admitted, x.d.ever = b.ever,
         x.d.moved = b.moved, x.d.peer = b.peer, x.d.proven = b.proven
  PROVE  BundleOK(e, Succeeds(e, x, b.authed, src), pw)
  <1> DEFINE d == MarkSuccess(x.d, b.authed, src)
             y == [x EXCEPT !.d = d]
  <1>1. DriverOK(d, pw)
    BY MarkOK
  <1>2. y = [x EXCEPT !.d = MarkSuccess(@, b.authed, src)]
    OBVIOUS
  <1> HIDE DEF d
  <1>3. BundleOK(e, y, pw) /\ y.d = d
    BY <1>1 DEF BundleOK
  <1> HIDE DEF y
  <1>4. Succeeds(e, x, b.authed, src) =
          IF Rejected(e, x.d) THEN [y EXCEPT !.d.authed = FALSE, !.d.open = "auth"]
          ELSE IF b.authed \/ HasPsk(x.d) THEN y ELSE OnAuthenticated(e, y)
    BY <1>2 DEF Succeeds
  <1>5. BundleOK(e, [y EXCEPT !.d.authed = FALSE, !.d.open = "auth"], pw)
    <2> DEFINE c == [d EXCEPT !.authed = FALSE, !.open = "auth"]
    <2>1. DriverOK(c, pw)
      BY <1>1 DEF DriverOK, Admits, DriverFields
    <2>2. [y EXCEPT !.d.authed = FALSE, !.d.open = "auth"] = [y EXCEPT !.d = c]
      BY <1>3 DEF BundleOK
    <2> HIDE DEF c
    <2> QED BY <1>3, <2>1, <2>2, BundleKeeps
  <1>6. BundleOK(e, OnAuthenticated(e, y), pw)
    BY <1>3, OnAuthenticatedOK
  <1> QED BY <1>3, <1>4, <1>5, <1>6

LEMMA HandleEapOK ==
  ASSUME NEW e, NEW x, NEW src, NEW o, NEW pw, BundleOK(e, x, pw), OutcomeOK(e, o, pw),
         x.d.ever => x.d.peer = src
  PROVE  BundleOK(e, HandleEap(e, x, src, o), pw)
  <1> DEFINE d == Replied(x.d, o)
             t == x.out \o (IF o.reply = None THEN <<>> ELSE <<Eapol(Encode(o.reply))>>)
             y == Bundle(d, o.role, t)
  <1>0. DriverOK(x.d, pw) /\ OutOK(x.out, pw) /\ RoleOK(e, o.role, pw) /\ FrameOK(o.reply, pw)
    BY DEF BundleOK, OutcomeOK
  <1>1. /\ DOMAIN d = DriverFields /\ WireOK(d.lastTx, pw)
        /\ d.admitted = x.d.admitted /\ d.ever = x.d.ever /\ d.moved = x.d.moved /\ d.peer = x.d.peer
        /\ d.proven = x.d.proven /\ d.authed = Authenticated(o.role)
    BY <1>0, RepliedOK
  <1>2. OutOK(t, pw)
    <2>1. CASE o.reply = None
      <3>1. x.out \in Seq(Elements(x.out))
        BY <1>0 DEF OutOK, IsSeq
      <3>2. x.out \o <<>> = x.out
        BY ONLY <3>1, ConcatEmptySeq
      <3> QED BY <1>0, <2>1, <3>2
    <2>2. CASE o.reply # None
      <3> DEFINE m == Eapol(Encode(o.reply))
                 q == <<m>>
      <3>1. WireOK(m.eap, pw)
        BY <1>0, <2>2, EncodedOK, FramesSent
      <3> HIDE DEF m
      <3>2. IsSeq(q) /\ DOMAIN q = {1} /\ q[1] = m
        BY SingleIs
      <3> DEFINE v == x.out
                 u == v \o q
      <3>3. IsSeq(v) /\ \A i \in DOMAIN v : WireOK(v[i].eap, pw)
        BY <1>0 DEF OutOK
      <3>4. u = t
        BY <2>2 DEF m
      <3> HIDE DEF q, u, v
      <3>5. IsSeq(u) /\ Elements(u) \subseteq Elements(v) \cup Elements(q)
        BY ONLY <3>2, <3>3, ConcatIs, Zenon DEF u
      <3>6. OutOK(u, pw)
        BY <3>1, <3>2, <3>3, <3>5 DEF OutOK, Elements
      <3> QED BY <3>4, <3>6
    <2> QED BY <2>1, <2>2
  <1>3. HandleEap(e, x, src, o) =
          IF Authenticated(o.role) THEN Succeeds(e, y, x.d.authed, src)
          ELSE IF d.ever /\ (Failed(o.role) \/ x.d.authed) THEN [y EXCEPT !.d = HoldForReauth(d)]
          ELSE y
    BY DEF HandleEap
  <1> HIDE DEF d, t
  <1>4. DOMAIN y = {"d", "r", "out"} /\ y.d = d /\ y.r = o.role /\ y.out = t
    BY DEF Bundle
  <1> HIDE DEF y
  <1>5. CASE Authenticated(o.role)
    BY <1>0, <1>1, <1>2, <1>3, <1>4, <1>5, SucceedsOK
  <1>6. CASE ~Authenticated(o.role)
    <2>1. DriverOK(d, pw)
      BY <1>0, <1>1, <1>6 DEF DriverOK, Admits
    <2>2. BundleOK(e, y, pw)
      BY <1>0, <1>2, <1>4, <2>1 DEF BundleOK
    <2>3. DriverOK(HoldForReauth(d), pw)
      <3> DEFINE l == IF d.reauthing THEN d.left ELSE ReauthWindow
      <3>1. HoldForReauth(d) = [d EXCEPT !.authed = FALSE, !.left = l, !.reauthing = TRUE]
        BY <1>1 DEF HoldForReauth, DriverFields
      <3> HIDE DEF l
      <3> QED BY <2>1, <3>1 DEF DriverOK, Admits, DriverFields
    <2>4. BundleOK(e, [y EXCEPT !.d = HoldForReauth(d)], pw)
      BY <2>2, <2>3, BundleKeeps
    <2> QED BY <1>3, <1>6, <2>2, <2>4
  <1> QED BY <1>5, <1>6

\* The one step that makes a driver move takes its trust with it.
LEMMA ReassociateOK ==
  ASSUME NEW e \in Ends, NEW x, NEW src, NEW p, NEW pw, BundleOK(e, x, pw), src # "none", Foreign(x.d, src)
  PROVE  BundleOK(e, MaybeReassociate(e, x, src, p), pw)
  <1> DEFINE o == IF e = "sender" THEN StartClient(RestartClient(x.r)) ELSE StartServer(RestartServer(x.r))
             w == Encode(o.reply)
             c == Migrate(x.d, src)
             d == [c EXCEPT !.lastTx = w, !.retx = 0]
             m == Eapol(w)
  <1>1. OutcomeOK(e, o, pw)
    BY RestartsOK, StartsOK DEF BundleOK, RoleOK, Ends
  <1>2. o.reply # None
    BY FrameNotNone DEF StartClient, StartServer, Outcome
  <1>3. Reassociate(e, x, src) = Bundle(d, o.role, <<m>>)
    BY DEF Reassociate
  <1> HIDE DEF o
  <1>4. WireOK(w, pw) /\ WireOK(m.eap, pw) /\ RoleOK(e, o.role, pw)
    BY <1>1, <1>2, EncodedOK, FramesSent DEF OutcomeOK
  <1> HIDE DEF w
  <1>5. /\ DOMAIN c = DriverFields /\ c.admitted = x.d.admitted /\ c.ever = x.d.ever /\ c.moved = TRUE
        /\ c.peer = src /\ c.authed = FALSE
    BY DEF BundleOK, DriverOK, Admits, DriverFields, Migrate
  <1>6. x.d.admitted \in {0, 1} /\ x.d.ever
    BY DEF BundleOK, DriverOK, Admits, Foreign, SrpAuthed
  <1> HIDE DEF c
  <1>7. DriverOK(d, pw)
    BY <1>4, <1>5, <1>6 DEF DriverOK, Admits, DriverFields
  <1>8. OutOK(<<m>>, pw)
    <2> HIDE DEF m
    <2> DEFINE q == <<m>>
    <2>1. IsSeq(q) /\ DOMAIN q = {1} /\ q[1] = m
      BY SingleIs
    <2> HIDE DEF q
    <2>2. OutOK(q, pw)
      BY <1>4, <2>1 DEF OutOK
    <2> QED BY <2>2 DEF q
  <1> HIDE DEF d, m
  <1>9. BundleOK(e, Reassociate(e, x, src), pw)
    BY <1>3, <1>4, <1>7, <1>8, BundlesOK
  <1> QED BY <1>9 DEF MaybeReassociate

LEMMA CloseOK ==
  ASSUME NEW e, NEW x, NEW pw, BundleOK(e, x, pw), NEW why
  PROVE  BundleOK(e, Close(x, why), pw)
  <1> DEFINE d == [x.d EXCEPT !.open = why]
  <1>1. DriverOK(d, pw)
    BY DEF BundleOK, DriverOK, Admits, DriverFields
  <1>2. Close(x, why) = [x EXCEPT !.d = d]
    BY DEF Close
  <1> HIDE DEF d
  <1> QED BY <1>1, <1>2, BundleKeeps

LEMMA ResendOK ==
  ASSUME NEW e, NEW x, NEW pw, BundleOK(e, x, pw)
  PROVE  BundleOK(e, Resend(x), pw)
  <1> DEFINE n == x.d.retx + 1
             d == [x.d EXCEPT !.retx = n]
             m == Eapol(x.d.lastTx)
             y == [x EXCEPT !.d = d, !.out = Append(x.out, m)]
  <1>1. WireOK(m.eap, pw)
    BY FramesSent DEF BundleOK, DriverOK
  <1>2. [x EXCEPT !.d.retx = @ + 1, !.out = Append(@, Eapol(x.d.lastTx))] = y
    <2> HIDE DEF m
    <2>1. [x EXCEPT !.d.retx = @ + 1, !.out = Append(@, m)] = y
      BY DEF BundleOK, DriverOK, Admits, DriverFields
    <2> QED BY <2>1 DEF m
  <1> HIDE DEF n
  <1>3. DriverOK(d, pw)
    BY DEF BundleOK, DriverOK, Admits, DriverFields
  <1> HIDE DEF d, m
  <1>4. BundleOK(e, y, pw)
    BY <1>1, <1>3, BundleSends, Zenon
  <1>5. BundleOK(e, Close(x, "auth"), pw)
    BY CloseOK
  <1> QED BY <1>2, <1>4, <1>5 DEF Resend

LEMMA AnnounceOK ==
  ASSUME NEW e, NEW x, NEW pw, BundleOK(e, x, pw)
  PROVE  BundleOK(e, Announce(x), pw)
  <1> DEFINE d == x.d
             m == Beacon(x.d.sendKey)
             y == [x EXCEPT !.d = d, !.out = Append(x.out, m)]
  <1>1. WireOK(m.eap, pw) /\ DriverOK(d, pw)
    BY FramesSent, NoFrameOK DEF BundleOK
  <1>2. [x EXCEPT !.out = Append(@, m)] = y
    BY DEF BundleOK
  <1> HIDE DEF d, m
  <1>3. BundleOK(e, y, pw)
    BY <1>1, BundleSends, Zenon
  <1> QED BY <1>2, <1>3 DEF Announce, m

LEMMA OnKeepaliveOK ==
  ASSUME NEW e, NEW x, NEW pw, BundleOK(e, x, pw)
  PROVE  BundleOK(e, OnKeepalive(x), pw)
  <1>1. BundleOK(e, Announce(Resend(x)), pw)
    BY ResendOK, AnnounceOK
  <1>2. BundleOK(e, Close(x, "auth"), pw) /\ BundleOK(e, Close(x, "timeout"), pw)
    BY CloseOK
  <1> QED BY <1>1, <1>2 DEF OnKeepalive

LEMMA OnRecvOK ==
  ASSUME NEW e \in Ends, NEW x, NEW src, NEW p, NEW pw, BundleOK(e, x, pw), src # "none", WireOK(p.eap, pw),
         NEW z \in OnRecv(e, x, src, p)
  PROVE  BundleOK(e, z, pw)
  <1>1. CASE Foreign(x.d, src)
    <2>1. z = MaybeReassociate(e, x, src, p)
      BY <1>1 DEF OnRecv
    <2> QED BY <1>1, <2>1, ReassociateOK
  <1>2. CASE ~Foreign(x.d, src)
    <2> DEFINE y == Learn(e, x, src)
               o == Handled(e, y.r, p.eap, Parse(p.eap), eph + 1)
    <2>1. BundleOK(e, y, pw) /\ (y.d.ever => y.d.peer = src)
      BY <1>2, LearnOK
    <2>2. z = IF p.eap = None THEN Feedback(y, p) ELSE HandleEap(e, y, src, o)
      BY <1>2 DEF OnRecv
    <2> HIDE DEF y
    <2>3. p.eap # None => OutcomeOK(e, o, pw)
      BY <2>1, HandledOK DEF BundleOK
    <2> HIDE DEF o
    <2> QED BY <2>1, <2>2, <2>3, FeedbackOK, HandleEapOK
  <1> QED BY <1>1, <1>2

----------------------------------------------------------------------------
(* The invariant of the two drivers and the network *)

MsgOK(m, pw) == m.to \in Ends /\ m.src # "none" /\ WireOK(m.data.eap, pw)
QueueOK(q, pw) == IsSeq(q) /\ \A i \in DOMAIN q : MsgOK(q[i], pw)

Password == role["sender"].pw

AuthInv ==
  /\ DOMAIN role = Ends /\ DOMAIN drv = Ends /\ DOMAIN fresh = Ends /\ DOMAIN addr = Ends
  /\ caller \in Ends /\ \A e \in Ends : addr[e] # "none"
  /\ \A e \in Ends : RoleOK(e, role[e], Password) /\ DriverOK(drv[e], Password)
  /\ \A e \in Ends : QueueOK(fresh[e], Password)
  /\ \A m \in stale : MsgOK(m, Password)

LEMMA DatagramsOK ==
  ASSUME NEW e \in Ends, NEW d, NEW out, NEW from, NEW pw, OutOK(out, pw), from # "none"
  PROVE  QueueOK(Datagrams(e, d, out, from), pw)
  <1> DEFINE M(i) == [to |-> Other(e), src |-> from, dst |-> d.peer, data |-> out[i]]
             q == [i \in 1 .. Len(out) |-> M(i)]
             S == {M(i) : i \in 1 .. Len(out)}
  <1>1. DOMAIN out = 1 .. Len(out) /\ Len(out) \in Nat
    BY SeqIs DEF OutOK, IsSeq
  <1>2. \A i \in 1 .. Len(out) : MsgOK(M(i), pw)
    BY <1>1 DEF MsgOK, OutOK, Other, Ends
  <1>3. Datagrams(e, d, out, from) = q
    BY DEF Datagrams
  <1> HIDE DEF M
  <1>4. q \in Seq(S)
    BY <1>1, IsASeq
  <1>5. IsSeq(q)
    BY <1>4, SeqIs
  <1>6. DOMAIN q = 1 .. Len(out) /\ \A i \in 1 .. Len(out) : q[i] = M(i)
    OBVIOUS
  <1> HIDE DEF q
  <1> QED BY <1>2, <1>3, <1>5, <1>6 DEF QueueOK

LEMMA QueueGrows ==
  ASSUME NEW q, NEW p, NEW pw, QueueOK(q, pw), QueueOK(p, pw)
  PROVE  QueueOK(q \o p, pw)
  <1> DEFINE t == q \o p
  <1>0. IsSeq(q) /\ IsSeq(p)
    BY DEF QueueOK
  <1>1. IsSeq(t) /\ Elements(t) \subseteq Elements(q) \cup Elements(p)
    BY ONLY <1>0, ConcatIs, Zenon
  <1> HIDE DEF t
  <1>2. QueueOK(t, pw)
    BY <1>1 DEF QueueOK, Elements
  <1> QED BY <1>2 DEF t

LEMMA QueueTakes ==
  ASSUME NEW q, NEW pw, QueueOK(q, pw), q # <<>>
  PROVE  QueueOK(Tail(q), pw) /\ MsgOK(Head(q), pw)
  <1>1. /\ IsSeq(Tail(q)) /\ 1 \in DOMAIN q /\ Head(q) = q[1]
        /\ \A i \in DOMAIN Tail(q) : i + 1 \in DOMAIN q /\ Tail(q)[i] = q[i + 1]
    BY TailIs DEF QueueOK
  <1> DEFINE r == Tail(q)
             h == Head(q)
  <1> HIDE DEF r, h
  <1>2. QueueOK(r, pw) /\ MsgOK(h, pw)
    BY <1>1 DEF QueueOK, r, h
  <1> QED BY <1>2 DEF r, h

\* A handler's bundle becomes the state of its end.
LEMMA AppliesOK ==
  ASSUME AuthInv, NEW e \in Ends, NEW z, BundleOK(e, z, Password), Apply(e, z)
  PROVE  /\ DOMAIN role' = Ends /\ DOMAIN drv' = Ends /\ Password' = Password
         /\ \A p \in Ends : RoleOK(p, role'[p], Password) /\ DriverOK(drv'[p], Password)
  <1>1. /\ DOMAIN role' = Ends /\ DOMAIN drv' = Ends
        /\ \A p \in Ends : /\ role'[p] = IF p = e THEN z.r ELSE role[p]
                           /\ drv'[p] = IF p = e THEN z.d ELSE drv[p]
    BY DEF AuthInv, Apply
  <1>2. RoleOK(e, z.r, Password) /\ DriverOK(z.d, Password)
    BY DEF BundleOK
  <1>3. \A p \in Ends : RoleOK(p, role'[p], Password) /\ DriverOK(drv'[p], Password)
    BY <1>1, <1>2 DEF AuthInv
  <1>4. role'["sender"].pw = Password
    BY <1>3 DEF RoleOK, ClientOK, Ends
  <1> QED BY <1>1, <1>3, <1>4 DEF Password

LEMMA StateOK ==
  ASSUME AuthInv, NEW e \in Ends
  PROVE  BundleOK(e, State(e), Password)
  <1>1. OutOK(<<>>, Password)
    BY EmptyIs DEF OutOK
  <1> QED BY <1>1, BundlesOK DEF AuthInv, State

\* What an end sends joins what is under way to the other.
LEMMA SendsOK ==
  ASSUME NEW pw, NEW e \in Ends, NEW f, DOMAIN f = Ends, \A p \in Ends : QueueOK(f[p], pw),
         NEW out, OutOK(out, pw), NEW d, NEW from, from # "none",
         NEW g, g = [f EXCEPT ![Other(e)] = @ \o Datagrams(e, d, out, from)]
  PROVE  DOMAIN g = Ends /\ \A p \in Ends : QueueOK(g[p], pw)
  <1> DEFINE t == f[Other(e)] \o Datagrams(e, d, out, from)
  <1>1. Other(e) \in Ends
    BY DEF Other, Ends
  <1>2. QueueOK(t, pw)
    BY <1>1, DatagramsOK, QueueGrows
  <1>3. g = [f EXCEPT ![Other(e)] = t]
    OBVIOUS
  <1> HIDE DEF t
  <1> QED BY <1>1, <1>2, <1>3

LEMMA DeliverOK ==
  ASSUME AuthInv, NEW m, NEW queues, NEW old, Deliver(m, queues, old), MsgOK(m, Password),
         DOMAIN queues = Ends, \A p \in Ends : QueueOK(queues[p], Password),
         \A n \in old : MsgOK(n, Password)
  PROVE  AuthInv'
  <1> DEFINE e == m.to
  <1>1. e \in Ends /\ m.src # "none" /\ WireOK(m.data.eap, Password)
    BY DEF MsgOK
  <1>2. PICK z \in OnRecv(e, State(e), m.src, m.data) :
          /\ Apply(e, z)
          /\ fresh' = [queues EXCEPT ![Other(e)] = @ \o Datagrams(e, z.d, z.out, addr[e])]
    BY DEF Deliver
  <1>3. stale' = old /\ UNCHANGED <<config, addr>>
    BY DEF Deliver
  <1> HIDE DEF e
  <1>4. BundleOK(e, z, Password)
    BY <1>1, <1>2, StateOK, OnRecvOK
  <1>5. /\ DOMAIN role' = Ends /\ DOMAIN drv' = Ends /\ Password' = Password
        /\ \A p \in Ends : RoleOK(p, role'[p], Password) /\ DriverOK(drv'[p], Password)
    BY <1>1, <1>2, <1>4, AppliesOK
  <1>6. DOMAIN fresh' = Ends /\ \A p \in Ends : QueueOK(fresh'[p], Password)
    BY <1>1, <1>2, <1>4, SendsOK DEF BundleOK, AuthInv
  <1> QED BY <1>3, <1>5, <1>6 DEF AuthInv, config

LEMMA RestOK ==
  ASSUME AuthInv, NEW e \in Ends, fresh[e] # <<>>
  PROVE  /\ MsgOK(Head(fresh[e]), Password) /\ DOMAIN Rest(e) = Ends
         /\ \A p \in Ends : QueueOK(Rest(e)[p], Password)
  <1> DEFINE t == Tail(fresh[e])
  <1>1. QueueOK(t, Password) /\ MsgOK(Head(fresh[e]), Password)
    BY QueueTakes DEF AuthInv
  <1>2. Rest(e) = [fresh EXCEPT ![e] = t]
    BY DEF Rest
  <1> HIDE DEF t
  <1> QED BY <1>1, <1>2 DEF AuthInv

LEMMA AuthStep ==
  ASSUME AuthInv, [AuthNext]_authVars
  PROVE  AuthInv'
  <1> DEFINE pw == Password
  <1>1. ASSUME NEW e \in Ends, Receive(e)
        PROVE  AuthInv'
    <2>1. fresh[e] # <<>> /\ Deliver(Head(fresh[e]), Rest(e), stale)
      BY <1>1 DEF Receive
    <2>2. \A n \in stale : MsgOK(n, Password)
      BY DEF AuthInv
    <2> QED BY <2>1, <2>2, RestOK, DeliverOK
  <1>2. CASE ReceiveStale
    <2>1. PICK m \in stale : Deliver(m, fresh, stale \ {m})
      BY <1>2 DEF ReceiveStale
    <2>2. /\ MsgOK(m, Password) /\ DOMAIN fresh = Ends /\ \A p \in Ends : QueueOK(fresh[p], Password)
          /\ \A n \in stale \ {m} : MsgOK(n, Password)
      BY DEF AuthInv
    <2> QED BY <2>1, <2>2, DeliverOK
  <1>3. ASSUME NEW e \in Ends, Copy(e)
        PROVE  AuthInv'
    <2>1. /\ stale' = stale \cup {Head(fresh[e])} /\ fresh[e] # <<>>
          /\ UNCHANGED <<psk, caller, accept, role, drv, addr, fresh>>
      BY <1>3 DEF Copy, config
    <2>2. MsgOK(Head(fresh[e]), Password)
      BY <2>1, RestOK
    <2> QED BY <2>1, <2>2 DEF AuthInv, Password
  <1>4. ASSUME NEW e \in Ends, Lose(e) \/ Undeliverable(e)
        PROVE  AuthInv'
    <2>1. /\ fresh[e] # <<>> /\ fresh' = Rest(e)
          /\ UNCHANGED <<psk, caller, accept, role, drv, addr, stale>>
      BY <1>4 DEF Lose, Undeliverable, config
    <2>2. DOMAIN Rest(e) = Ends /\ \A p \in Ends : QueueOK(Rest(e)[p], Password)
      BY <2>1, RestOK
    <2> QED BY <2>1, <2>2 DEF AuthInv, Password
  <1>5. ASSUME NEW e \in Ends, Keepalive(e)
        PROVE  AuthInv'
    <2> DEFINE x == OnKeepalive(State(e))
    <2>1. /\ Apply(e, x)
          /\ fresh' = [fresh EXCEPT ![Other(e)] = @ \o Datagrams(e, x.d, x.out, addr[e])]
          /\ UNCHANGED <<psk, caller, accept, addr, stale>>
      BY <1>5 DEF Keepalive, config
    <2>2. BundleOK(e, x, Password)
      BY StateOK, OnKeepaliveOK
    <2> HIDE DEF x
    <2>3. /\ DOMAIN role' = Ends /\ DOMAIN drv' = Ends /\ Password' = Password
          /\ \A p \in Ends : RoleOK(p, role'[p], Password) /\ DriverOK(drv'[p], Password)
      BY <2>1, <2>2, AppliesOK
    <2>4. DOMAIN fresh' = Ends /\ \A p \in Ends : QueueOK(fresh'[p], Password)
      BY <2>1, <2>2, SendsOK DEF BundleOK, AuthInv
    <2> QED BY <2>1, <2>3, <2>4 DEF AuthInv
  <1>6. CASE Elapse
    <2>1. /\ drv' = [e \in Ends |-> Aged(drv[e])]
          /\ UNCHANGED <<psk, caller, accept, role, addr, fresh, stale>>
      BY <1>6 DEF Elapse, config
    <2>2. ASSUME NEW d, NEW w, DriverOK(d, w)
          PROVE  DriverOK(Aged(d), w)
      <3> DEFINE s == IF d.silent > Timeout THEN d.silent ELSE d.silent + 1
                 l == IF d.left = 0 THEN 0 ELSE d.left - 1
      <3>1. Aged(d) = [d EXCEPT !.silent = s, !.left = l]
        BY <2>2 DEF Aged, DriverOK, Admits, DriverFields
      <3> HIDE DEF s, l
      <3> QED BY <2>2, <3>1 DEF DriverOK, Admits, DriverFields
    <2>3. DOMAIN drv' = Ends /\ \A e \in Ends : DriverOK(drv'[e], Password)
      BY <2>1, <2>2 DEF AuthInv
    <2> QED BY <2>1, <2>3 DEF AuthInv, Password
  <1>7. CASE Move
    <2>1. /\ addr' = [addr EXCEPT ![caller] = "moved"]
          /\ UNCHANGED <<psk, caller, accept, role, drv, fresh, stale>>
      BY <1>7 DEF Move, config
    <2>2. DOMAIN addr' = Ends /\ \A e \in Ends : addr'[e] # "none"
      BY <2>1 DEF AuthInv
    <2> QED BY <2>1, <2>2 DEF AuthInv, Password
  <1>8. CASE UNCHANGED authVars
    BY <1>8 DEF authVars, config, AuthInv, Password
  <1> QED BY <1>1, <1>2, <1>3, <1>4, <1>5, <1>6, <1>7, <1>8 DEF AuthNext, AuthProgress, AuthFaults

LEMMA OpenedOK ==
  ASSUME NEW e \in Ends, NEW peer, NEW key, NEW r, NEW pw, RoleOK(e, r, pw)
  PROVE  BundleOK(e, Opened(e, peer, key, r), pw)
  <1> DEFINE n == NewDriver(peer, key)
             x == Bundle(n, r, <<>>)
             d == [n EXCEPT !.greeted = TRUE]
             y == [x EXCEPT !.d = d]
  <1>1. DriverOK(n, pw)
    BY NoFrameOK DEF NewDriver, DriverOK, Admits, DriverFields
  <1>2. OutOK(<<>>, pw)
    BY EmptyIs DEF OutOK
  <1> HIDE DEF n
  <1>3. BundleOK(e, x, pw) /\ x.d = n
    BY <1>1, <1>2, BundlesOK DEF Bundle
  <1>4. DriverOK(d, pw)
    BY <1>1 DEF DriverOK, Admits, DriverFields
  <1>5. [x EXCEPT !.d.greeted = TRUE] = y
    BY <1>3 DEF BundleOK
  <1> DEFINE z == IF peer = "none" THEN y ELSE Greet(x)
  <1>6. Opened(e, peer, key, r) = IF e = "sender" \/ peer # "none" THEN MaybeStartEap(e, z) ELSE x
    BY <1>5 DEF Opened, n
  <1> HIDE DEF x, d
  <1>7. BundleOK(e, y, pw) /\ BundleOK(e, Greet(x), pw)
    BY <1>3, <1>4, BundleKeeps, GreetOK
  <1>8. BundleOK(e, z, pw)
    BY <1>7
  <1> HIDE DEF z
  <1>9. BundleOK(e, MaybeStartEap(e, z), pw)
    BY <1>8, StartsEapOK
  <1> QED BY <1>3, <1>6, <1>9

LEMMA AuthStarts ==
  ASSUME AuthInit
  PROVE  AuthInv
  <1>1. PICK s \in Scenarios : AuthStart(s)
    BY DEF AuthInit
  <1>2. s.caller \in Ends
    BY AuthAssumption DEF Ends
  <1> DEFINE x == [e \in Ends |-> Initial(e, s)]
  <1>3. /\ caller = s.caller /\ stale = {} /\ addr = [e \in Ends |-> Home(s.caller, e)]
        /\ role = [e \in Ends |-> x[e].r] /\ drv  = [e \in Ends |-> x[e].d]
        /\ fresh = [e \in Ends |-> IF e = s.caller THEN <<>>
                                   ELSE Datagrams(s.caller, x[s.caller].d, x[s.caller].out, "caller")]
    BY <1>1 DEF AuthStart
  <1>4. ASSUME NEW e \in Ends
        PROVE  BundleOK(e, Initial(e, s), s.pw)
    <2> DEFINE r == IF e = "sender" THEN NewAuthenticatee(s.pw, ~s.psk) ELSE NewAuthenticator(s.ver, ~s.psk, s.id)
               p == IF e = s.caller THEN "listener" ELSE "none"
               k == IF s.psk THEN [psk |-> TRUE] ELSE None
    <2>1. ClientOK(NewAuthenticatee(s.pw, ~s.psk), s.pw)
      BY NoFrameOK DEF ClientOK, ClientFields, NewAuthenticatee
    <2>2. ServerOK(NewAuthenticator(s.ver, ~s.psk, s.id), s.pw)
      BY NoFrameOK DEF ServerOK, ServerFields, NewAuthenticator
    <2>3. RoleOK(e, r, s.pw)
      BY <2>1, <2>2 DEF RoleOK
    <2> HIDE DEF r, p, k
    <2>4. BundleOK(e, Opened(e, p, k, r), s.pw)
      BY <2>3, OpenedOK
    <2> QED BY <2>4 DEF Initial, r, p, k
  <1>5. \A e \in Ends : BundleOK(e, x[e], s.pw)
    BY <1>4
  <1> HIDE DEF x
  <1>6. DOMAIN role = Ends /\ DOMAIN drv = Ends /\ \A e \in Ends : role[e] = x[e].r /\ drv[e] = x[e].d
    BY <1>3
  <1>7. \A e \in Ends : RoleOK(e, role[e], s.pw) /\ DriverOK(drv[e], s.pw)
    BY <1>5, <1>6 DEF BundleOK
  <1>8. Password = s.pw
    BY <1>7 DEF Password, RoleOK, ClientOK, Ends
  <1>9. DOMAIN fresh = Ends /\ \A e \in Ends : QueueOK(fresh[e], s.pw)
    <2> DEFINE q == Datagrams(s.caller, x[s.caller].d, x[s.caller].out, "caller")
    <2>1. QueueOK(q, s.pw)
      BY <1>2, <1>5, DatagramsOK DEF BundleOK
    <2>2. QueueOK(<<>>, s.pw)
      BY EmptyIs DEF QueueOK
    <2> HIDE DEF q
    <2>3. fresh = [e \in Ends |-> IF e = s.caller THEN <<>> ELSE q]
      BY <1>3 DEF q
    <2> QED BY <2>1, <2>2, <2>3
  <1>10. DOMAIN addr = Ends /\ \A e \in Ends : addr[e] # "none"
    BY <1>3 DEF Home
  <1> QED BY <1>2, <1>3, <1>6, <1>7, <1>8, <1>9, <1>10 DEF AuthInv

LEMMA AuthInvariant == AuthSpec => []AuthInv
  <1>1. AuthInit => AuthInv
    BY AuthStarts
  <1>2. AuthInv /\ [AuthNext]_authVars => AuthInv'
    BY AuthStep
  <1> QED BY <1>1, <1>2, PTL DEF AuthSpec

\* However many datagrams are lost or repeated and however often the caller
\* moves, a driver that trusts a peer that has moved was proven a password
\* from the new address, and the host was asked once
\* (driver_main.rs: maybe_reassociate, handle_eap, admit_peer).
THEOREM MainAdmissionSound == AuthSpec => []AdmissionSound
  <1>1. AuthInv => AdmissionSound
    BY DEF AuthInv, DriverOK, Admits, AdmissionSound, MigrationReproved, AdmittedOnce
  <1> QED BY <1>1, AuthInvariant, PTL

\* However the frames of any number of handshakes are lost, repeated and
\* mixed, a role that reports success holds a session key, and neither role
\* ever holds one opposite a peer with the wrong password
\* (eap.rs: handle_client_validator, handle_server_validator, recv, restart).
THEOREM MainKeyEarned == AuthSpec => []KeyEarned
  <1>1. AuthInv => KeyEarned
    <2> SUFFICES ASSUME AuthInv, NEW e \in Ends
                 PROVE  /\ Succeeded(e) => Key(e) # None
                        /\ Key(e) # None => role["sender"].pw = "good"
      BY DEF KeyEarned
    <2>1. RoleOK(e, role[e], Password)
      BY DEF AuthInv
    <2> QED BY <2>1 DEF RoleOK, ClientOK, ServerOK, Key, Succeeded, Authenticated, Password
  <1> QED BY <1>1, AuthInvariant, PTL

----------------------------------------------------------------------------
(* One key: what is on the wire                                             *)

LEMMA MethodsDiffer ==
  ASSUME NEW j \in Kinds, NEW k \in Kinds, Method[j] = Method[k] PROVE j = k
  BY AllKinds DEF Method

LEMMA ThirdIsValidator ==
  ASSUME NEW k \in Kinds, Method[k][2] = 3 PROVE k = "ServerValidator"
  BY AllKinds DEF Method

LEMMA ParsedEncoded ==
  ASSUME NEW f, f.kind \in Kinds
  PROVE  LET g == Parse(Encode(f)) IN g.kind = f.kind /\ g.id = f.id /\ g.body = f.body
  <1> DEFINE m == Method[f.kind]
             c == CHOOSE k \in Kinds : Method[k] = m
  <1>1. Encode(f).method = m /\ Encode(f).id = f.id /\ Encode(f).body = f.body BY DEF Encode
  <1>2. c \in Kinds /\ Method[c] = m OBVIOUS
  <1>3. c = f.kind BY <1>2, MethodsDiffer
  <1> HIDE DEF c
  <1>4. Parse(Encode(f)).kind = (IF m[1] \in {"request", "response"} /\ m[2] = 3
                                 THEN "ServerValidator" ELSE c)
        /\ Parse(Encode(f)).id = f.id /\ Parse(Encode(f)).body = f.body
    BY <1>1 DEF Parse, Frame, c
  <1> QED BY <1>3, <1>4, ThirdIsValidator

\* The kinds that lead to a key.
Opening == {"IdentityRequest", "IdentityResponse", "Challenge", "ClientKey"}

\* What the network, the drivers and the reply caches hold.
OnWire(f) == IF f = None THEN {} ELSE {Encode(f)}
Queued(q) == {q[i].data.eap : i \in DOMAIN q}
Copies(old)   == {m.data.eap : m \in old}
Underway(new) == UNION {Queued(new[e]) : e \in Ends}
LastSent(d)   == {d[e].lastTx : e \in Ends}
Replies(r)    == UNION {OnWire(r[e].lastReply) : e \in Ends}
Kept(old, new, d, r) == Copies(old) \cup Underway(new) \cup LastSent(d) \cup Replies(r)
OnNet == Kept(stale, fresh, drv, role)

\* A, B: the ephemerals either role has drawn; M, S: the keys over which the
\* client and the server have made a proof.
Fine(f, V, A, B, M, S) ==
  /\ f.kind \in Kinds /\ f.kind # "Logoff"
  /\ f.kind = "ClientKey" => f.body.a \in A
  /\ f.kind = "ServerKey" => f.body.b \in B
  /\ f.kind = "ClientValidator" => f.body.m1 \in M
  /\ f.kind = "ServerValidator" => f.body.m2 \in S
  \* The identifier of the last request is that of nothing from before it.
  /\ f.kind \in {"Challenge", "ClientKey"} /\ f.id = V.id => V.server # None /\ V.server.pubA = 0
  /\ f.kind \in {"IdentityRequest", "IdentityResponse"} /\ f.id = V.id => V.server = None
  /\ f.kind = "ClientKey" /\ f.id = V.id => \A L \in S : L.a # f.body.a

AllFine(W, V, A, B, M, S) == \A w \in W : w # None => Fine(Parse(w), V, A, B, M, S)

ClientAgrees(C, A, M, S) ==
  /\ C.client # None => /\ C.client.a \in A /\ \A a \in A : a <= C.client.a
                        /\ C.client.key # None => C.client.key.a = C.client.a /\ C.client.key \in M
  /\ C.state = "Success" => /\ C.client # None /\ C.client.key # None
                            /\ C.session = C.client.key /\ C.session \in S

ServerAgrees(V, A, B, S) ==
  /\ V.id \in 0 .. IdMod - 1
  /\ V.state = "Unauth" => V.server = None
  /\ V.server # None => /\ V.server.b \in B /\ \A b \in B : b <= V.server.b
                        /\ V.server.pubA \in A \cup {0}
                        /\ \A L \in S : L.b = V.server.b <=> L.a = V.server.pubA
  /\ V.session # None => /\ V.server # None /\ V.server.pubA # 0 /\ V.session \in S
                         /\ V.session.a = V.server.pubA /\ V.session.b = V.server.b

KeysAgree(ver, n, A, B, M, S) ==
  /\ n \in Nat /\ A \subseteq 1 .. n /\ B \subseteq 1 .. n /\ S \subseteq M
  /\ \A K \in M : K.a \in A /\ K.b \in B
  /\ \A L \in S : L = SessionKey(L.a, L.b, ver, "good")
  /\ \A K, L \in S : K.a = L.a <=> K.b = L.b
  /\ \A K \in M, L \in S : ~(K.a < L.a /\ L.b < K.b)

Agrees(C, V, n, A, B, M, S) ==
  ClientAgrees(C, A, M, S) /\ ServerAgrees(V, A, B, S) /\ KeysAgree(V.ver, n, A, B, M, S)

\* Two roles that succeed, succeed with one key.
LEMMA OneKey ==
  ASSUME NEW C, NEW V, NEW n, NEW A, NEW B, NEW M, NEW S, Agrees(C, V, n, A, B, M, S),
         C.state = "Success", V.session # None
  PROVE  C.session = V.session
  <1> DEFINE K == C.session
             L == V.session
  <1>1. K \in S /\ K.a = C.client.a /\ \A a \in A : a <= K.a
    BY DEF Agrees, ClientAgrees
  <1>2. L \in S /\ L.b = V.server.b /\ \A b \in B : b <= L.b
    BY DEF Agrees, ServerAgrees
  <1> HIDE DEF K, L
  <1>3. /\ K.a \in A /\ L.a \in A /\ K.b \in B /\ L.b \in B /\ A \subseteq 1 .. n /\ B \subseteq 1 .. n
        /\ ~(L.a < K.a /\ K.b < L.b) /\ (K.a = L.a <=> K.b = L.b) /\ n \in Nat
    BY <1>1, <1>2 DEF Agrees, KeysAgree
  <1>4. K.b <= L.b /\ L.a <= K.a BY <1>1, <1>2, <1>3
  <1>5. K.a \in Int /\ K.b \in Int /\ L.a \in Int /\ L.b \in Int
    <2>1. A \subseteq Int /\ B \subseteq Int BY <1>3
    <2> QED BY <1>3, <2>1, Zenon
  <1>6. K.a = L.a /\ K.b = L.b BY <1>3, <1>4, <1>5
  <1>7. K = SessionKey(K.a, K.b, V.ver, "good") /\ L = SessionKey(L.a, L.b, V.ver, "good")
    BY <1>1, <1>2 DEF Agrees, KeysAgree
  <1> QED BY <1>6, <1>7 DEF K, L

----------------------------------------------------------------------------
(* What a step of either role keeps                                         *)

\* What is drawn and proven only grows, and a server that moves on takes
\* another identifier.
Carries(V, V2, A, B, M, S, A2, B2, N2, S2) ==
  /\ A \subseteq A2 /\ B \subseteq B2 /\ M \subseteq N2 /\ S \subseteq S2
  /\ V2.id = V.id => V2.server = V.server /\ S2 = S

LEMMA FineCarries ==
  ASSUME NEW f, NEW V, NEW V2, NEW A, NEW B, NEW M, NEW S, NEW A2, NEW B2, NEW N2, NEW S2,
         Carries(V, V2, A, B, M, S, A2, B2, N2, S2), Fine(f, V, A, B, M, S),
         V2.id # V.id /\ f.kind \in Opening => f.id # V2.id
  PROVE  Fine(f, V2, A2, B2, N2, S2)
  BY Zenon DEF Carries, Fine, Opening

LEMMA FineSame ==
  ASSUME NEW f, NEW g, g.kind = f.kind, g.id = f.id, g.body = f.body,
         NEW V, NEW A, NEW B, NEW M, NEW S, Fine(f, V, A, B, M, S)
  PROVE  Fine(g, V, A, B, M, S)
  BY DEF Fine

Plain == {"Start", "PassphraseRequest", "PassphraseResponse", "Success", "Failure"}

LEMMA PlainFine ==
  ASSUME NEW f, f.kind \in Plain, NEW V, NEW A, NEW B, NEW M, NEW S
  PROVE  Fine(f, V, A, B, M, S)
  BY AllKinds DEF Fine, Plain

ClientSame(C, D) == D.client = C.client /\ (D.state = "Success" => C.state = "Success" /\ D.session = C.session)
ServerSame(V, U) == /\ U.id = V.id /\ U.ver = V.ver /\ U.server = V.server /\ U.session = V.session
                    /\ U.state = "Unauth" => V.state = "Unauth"

LEMMA ClientStays ==
  ASSUME NEW C, NEW D, ClientSame(C, D), NEW A, NEW M, NEW S, ClientAgrees(C, A, M, S)
  PROVE  ClientAgrees(D, A, M, S)
  BY Zenon DEF ClientSame, ClientAgrees

LEMMA ServerStays ==
  ASSUME NEW V, NEW U, ServerSame(V, U), NEW A, NEW B, NEW S, ServerAgrees(V, A, B, S)
  PROVE  ServerAgrees(U, A, B, S)
  BY Zenon DEF ServerSame, ServerAgrees

LEMMA KeysGrow ==
  ASSUME NEW v, NEW n, NEW A, NEW B, NEW M, NEW S, KeysAgree(v, n, A, B, M, S)
  PROVE  KeysAgree(v, n + 1, A, B, M, S)
  <1>1. n \in Nat /\ A \subseteq 1 .. n /\ B \subseteq 1 .. n BY DEF KeysAgree
  <1>2. 1 .. n \subseteq 1 .. n + 1 /\ n + 1 \in Nat BY <1>1
  <1>3. A \subseteq 1 .. n + 1 /\ B \subseteq 1 .. n + 1 BY <1>1, <1>2, Zenon
  <1> QED BY <1>2, <1>3, Zenon DEF KeysAgree

\* The ephemerals drawn, once a role r has been given n + 1.
Drawn(r, n) == IF Draws(r, n + 1) THEN n + 1 ELSE n

LEMMA KeysDrawn ==
  ASSUME NEW v, NEW n, NEW A, NEW B, NEW M, NEW S, KeysAgree(v, n, A, B, M, S), NEW r
  PROVE  KeysAgree(v, Drawn(r, n), A, B, M, S)
  BY KeysGrow DEF Drawn

\* A step of a server V leads to C2 and V2, having sent the frame f.
Leads(V, A, B, M, S, C2, V2, n2, f) ==
  \E A2, B2, N2, S2 : /\ Agrees(C2, V2, n2, A2, B2, N2, S2)
                      /\ Carries(V, V2, A, B, M, S, A2, B2, N2, S2)
                      /\ f # None => Fine(f, V2, A2, B2, N2, S2)

LEMMA ClientIdles ==
  ASSUME NEW C, NEW V, NEW n, NEW A, NEW B, NEW M, NEW S, Agrees(C, V, n, A, B, M, S),
         NEW D, ClientSame(C, D), NEW f, f # None => Fine(f, V, A, B, M, S)
  PROVE  Leads(V, A, B, M, S, D, V, Drawn(D, n), f)
  <1>1. Carries(V, V, A, B, M, S, A, B, M, S) BY DEF Carries
  <1>2. Agrees(D, V, Drawn(D, n), A, B, M, S) BY ClientStays, KeysDrawn DEF Agrees
  <1> QED BY <1>1, <1>2, Zenon DEF Leads

LEMMA ServerIdles ==
  ASSUME NEW C, NEW V, NEW n, NEW A, NEW B, NEW M, NEW S, Agrees(C, V, n, A, B, M, S),
         NEW U, ServerSame(V, U), NEW f, f # None => Fine(f, U, A, B, M, S)
  PROVE  Leads(V, A, B, M, S, C, U, Drawn(U, n), f)
  <1>1. Carries(V, U, A, B, M, S, A, B, M, S) BY DEF Carries, ServerSame
  <1>2. ServerAgrees(U, A, B, S) BY ServerStays DEF Agrees
  <1>3. U.ver = V.ver BY DEF ServerSame
  <1>4. KeysAgree(U.ver, Drawn(U, n), A, B, M, S) BY <1>3, KeysDrawn DEF Agrees
  <1>5. Agrees(C, U, Drawn(U, n), A, B, M, S) BY <1>2, <1>4 DEF Agrees
  <1> QED BY <1>1, <1>5, Zenon DEF Leads

----------------------------------------------------------------------------
(* The authenticatee's steps                                                *)

\* What an outcome o leaves of the agreement, at either end.
ClientLeads(C, V, n, A, B, M, S, o) == Leads(V, A, B, M, S, o.role, V, Drawn(o.role, n), o.reply)
ServerLeads(C, V, n, A, B, M, S, o) == Leads(V, A, B, M, S, C, o.role, Drawn(o.role, n), o.reply)

LEMMA OutcomeFields ==
  ASSUME NEW r, NEW f, NEW err
  PROVE  Outcome(r, f, err).role = r /\ Outcome(r, f, err).reply = f
  BY DEF Outcome

LEMMA ClientOutcome ==
  ASSUME NEW C, NEW V, NEW n, NEW A, NEW B, NEW M, NEW S, Agrees(C, V, n, A, B, M, S),
         NEW D, ClientSame(C, D), NEW f, f # None => Fine(f, V, A, B, M, S), NEW err
  PROVE  ClientLeads(C, V, n, A, B, M, S, Outcome(D, f, err))
  BY OutcomeFields, ClientIdles DEF ClientLeads

LEMMA ClientQuiet ==
  ASSUME NEW C, NEW V, NEW n, NEW A, NEW B, NEW M, NEW S, Agrees(C, V, n, A, B, M, S),
         NEW pw, NEW D, ClientOK(D, pw), ClientSame(C, D)
  PROVE  /\ ClientLeads(C, V, n, A, B, M, S, Silent(D)) /\ ClientLeads(C, V, n, A, B, M, S, Unexpected(D))
         /\ ClientLeads(C, V, n, A, B, M, S, Fail(D, None))
  <1> DEFINE F == [D EXCEPT !.state = "Failed"]
  <1>1. ClientSame(C, F) BY DEF ClientSame, ClientOK, ClientFields
  <1> HIDE DEF F
  <1>2. /\ ClientLeads(C, V, n, A, B, M, S, Outcome(F, None, TRUE))
        /\ ClientLeads(C, V, n, A, B, M, S, Outcome(D, None, TRUE))
        /\ ClientLeads(C, V, n, A, B, M, S, Outcome(D, None, FALSE))
    BY <1>1, ClientOutcome
  <1> QED BY <1>2 DEF Silent, Unexpected, Fail, F

\* A role that starts over agrees with whatever came before.
LEMMA ClientForgets ==
  ASSUME NEW C, NEW V, NEW n, NEW A, NEW B, NEW M, NEW S, Agrees(C, V, n, A, B, M, S),
         NEW D, D.client = None, D.state # "Success", NEW f, f # None => Fine(f, V, A, B, M, S), NEW err
  PROVE  ClientLeads(C, V, n, A, B, M, S, Outcome(D, f, err))
  <1>1. Carries(V, V, A, B, M, S, A, B, M, S) BY DEF Carries
  <1>2. ClientAgrees(D, A, M, S) BY DEF ClientAgrees
  <1>3. Agrees(D, V, Drawn(D, n), A, B, M, S) BY <1>2, KeysDrawn DEF Agrees
  <1>4. Leads(V, A, B, M, S, D, V, Drawn(D, n), f) BY <1>1, <1>3, Zenon DEF Leads
  <1> QED BY <1>4, OutcomeFields DEF ClientLeads

LEMMA IdentityRequestAgrees ==
  ASSUME NEW C, NEW V, NEW n, NEW A, NEW B, NEW M, NEW S, Agrees(C, V, n, A, B, M, S),
         NEW pw, ClientOK(C, pw), NEW f, Fine(f, V, A, B, M, S), f.kind = "IdentityRequest", NEW user
  PROVE  LET r == IF C.state = "Success" THEN RestartClient(C) ELSE C IN
         ClientLeads(C, V, n, A, B, M, S, OnIdentityRequest(r, f, user))
  <1> DEFINE r == IF C.state = "Success" THEN RestartClient(C) ELSE C
             q == Adopt(r, f)
             D == [q EXCEPT !.state = IF @ = "Unauth" THEN "InProgress" ELSE @]
             g == Frame("IdentityResponse", NegotiatedVersion(f), f.id, [user |-> user])
  <1>a. g.kind = "IdentityResponse" /\ g.id = f.id
    BY FrameFields
  <1> HIDE DEF g
  <1>1. Fine(g, V, A, B, M, S)
    BY <1>a, AllKinds DEF Fine
  <1>2. r.state # "Success" /\ (C.state = "Success" => r.client = None) /\ (C.state # "Success" => r = C)
    BY DEF RestartClient, NewAuthenticatee
  <1>3. ClientOK(r, pw) BY RestartsOK
  <1> HIDE DEF r
  <1>4. q.client = r.client /\ q.state = r.state /\ ClientOK(q, pw) BY <1>3, AdoptOK
  <1> HIDE DEF q
  <1>5. D.client = r.client /\ D.state # "Success"
    BY <1>2, <1>4 DEF ClientOK, ClientFields
  <1> HIDE DEF D
  <1>6. OnIdentityRequest(r, f, user) = Outcome(D, g, FALSE)
    BY DEF OnIdentityRequest, Answer, D, q, g
  <1>7. CASE C.state = "Success" BY <1>1, <1>2, <1>5, <1>6, <1>7, ClientForgets DEF r
  <1>8. CASE C.state # "Success"
    <2>1. ClientSame(C, D) BY <1>2, <1>5, <1>8 DEF ClientSame
    <2> QED BY <1>1, <1>6, <2>1, ClientOutcome DEF r
  <1> QED BY <1>7, <1>8

LEMMA ChallengeAgrees ==
  ASSUME NEW C, NEW V, NEW n, NEW A, NEW B, NEW M, NEW S, Agrees(C, V, n, A, B, M, S),
         NEW pw, ClientOK(C, pw), NEW f, Fine(f, V, A, B, M, S), f.kind = "Challenge"
  PROVE  ClientLeads(C, V, n, A, B, M, S, OnChallenge(C, f, n + 1))
  <1> DEFINE q == Adopt(C, f)
             c == NewClient(n + 1, NegotiatedVersion(f))
             D == [q EXCEPT !.client = c, !.state = "InProgress"]
             g == Frame("ClientKey", NegotiatedVersion(f), f.id, [a |-> n + 1])
             A2 == A \cup {n + 1}
  <1>1. /\ n \in Nat /\ A \subseteq 1 .. n /\ B \subseteq 1 .. n /\ \A L \in S : L.a \in A
        /\ ServerAgrees(V, A, B, S) /\ KeysAgree(V.ver, n, A, B, M, S)
    BY DEF Agrees, KeysAgree
  <1>2. A2 \subseteq 1 .. n + 1 /\ (\A a \in A2 : a <= n + 1) /\ n + 1 \notin A /\ n + 1 # 0
    BY <1>1
  <1>3. \A L \in S : L.a # n + 1 BY <1>1, <1>2
  <1>4. g.kind = "ClientKey" /\ g.id = f.id /\ g.body.a = n + 1
    BY FrameFields
  <1>5. g.kind \in Kinds BY <1>4, AllKinds
  <1> HIDE DEF g
  <1>6. f.id = V.id => V.server # None /\ V.server.pubA = 0 BY DEF Fine
  <1>7. n + 1 \in A2 /\ A \subseteq A2 OBVIOUS
  <1> HIDE DEF A2
  <1>8. Fine(g, V, A2, B, M, S)
    BY <1>3, <1>4, <1>5, <1>6, <1>7 DEF Fine
  <1>9. c.a = n + 1 /\ c.key = None /\ c # None
    <2>1. "a" \in DOMAIN c /\ "a" \notin DOMAIN None BY DEF NewClient, None
    <2> QED BY <2>1 DEF NewClient
  <1>10. ClientOK(q, pw) BY AdoptOK
  <1> HIDE DEF c, q
  <1>11. DOMAIN D = ClientFields /\ D.client = c /\ D.state = "InProgress"
    BY <1>10 DEF ClientOK, ClientFields
  <1> HIDE DEF D
  <1>12. OnChallenge(C, f, n + 1) = Outcome(D, g, FALSE)
    BY DEF OnChallenge, Answer, D, q, c, g
  <1>13. Draws(D, n + 1) BY <1>9, <1>11 DEF Draws, ClientFields
  <1>14. ClientAgrees(D, A2, M, S) BY <1>2, <1>7, <1>9, <1>11 DEF ClientAgrees, A2
  <1>15. ServerAgrees(V, A2, B, S) BY <1>1, <1>7 DEF ServerAgrees
  <1>16. KeysAgree(V.ver, n + 1, A2, B, M, S)
    <2>1. KeysAgree(V.ver, n + 1, A, B, M, S) BY <1>1, KeysGrow
    <2> QED BY <2>1, <1>2, <1>7 DEF KeysAgree
  <1>17. Agrees(D, V, Drawn(D, n), A2, B, M, S) BY <1>13, <1>14, <1>15, <1>16 DEF Agrees, Drawn
  <1>18. Carries(V, V, A, B, M, S, A2, B, M, S) BY <1>7 DEF Carries
  <1>19. Leads(V, A, B, M, S, D, V, Drawn(D, n), g) BY <1>8, <1>17, <1>18, Zenon DEF Leads
  <1> DEFINE o == OnChallenge(C, f, n + 1)
  <1>a. o = Outcome(D, g, FALSE) BY <1>12
  <1> HIDE DEF o
  <1>20. o.role = D /\ o.reply = g BY <1>a DEF Outcome
  <1>21. ClientLeads(C, V, n, A, B, M, S, o) BY <1>19, <1>20 DEF ClientLeads
  <1> QED BY <1>21 DEF o

LEMMA ServerKeyAgrees ==
  ASSUME NEW C, NEW V, NEW n, NEW A, NEW B, NEW M, NEW S, Agrees(C, V, n, A, B, M, S),
         NEW pw, ClientOK(C, pw), NEW f, Fine(f, V, A, B, M, S), f.kind = "ServerKey", C.state # "Success"
  PROVE  ClientLeads(C, V, n, A, B, M, S, OnServerKey(C, f))
  <1>1. CASE C.client = None
    <2>1. OnServerKey(C, f) = Fail(C, None) BY <1>1 DEF OnServerKey
    <2> QED BY <2>1, ClientQuiet DEF ClientSame
  <1>2. CASE C.client # None
    <2> DEFINE q == Adopt(C, f)
               k == SessionKey(C.client.a, f.body.b, C.client.ver, C.pw)
               c == [C.client EXCEPT !.key = k]
               D == [q EXCEPT !.client = c]
               g == Frame("ClientValidator", NegotiatedVersion(f), f.id, M1(k))
               M2x == M \cup {k}
    <2>1. C.client.a \in A /\ (\A a \in A : a <= C.client.a) /\ DOMAIN C.client = {"a", "ver", "key"}
      BY <1>2 DEF Agrees, ClientAgrees, ClientOK
    <2>2. k.a = C.client.a /\ k.b = f.body.b /\ k # None BY KeyNotNone DEF SessionKey
    <2>3. f.body.b \in B BY DEF Fine
    <2>4. c = ComputeKey(C.client, f.body.b, C.pw) BY DEF ComputeKey
    <2>5. g.kind = "ClientValidator" /\ g.id = f.id /\ g.body = M1(k) BY FrameFields
    <2>6. M1(k).m1 = k BY DEF M1
    <2> HIDE DEF k, g
    <2>7. c.a = C.client.a /\ c.key = k /\ c # None
      <3>1. "a" \in DOMAIN c /\ "a" \notin DOMAIN None BY <2>1 DEF None
      <3> QED BY <2>1, <3>1
    <2> HIDE DEF c
    <2>8. ClientOK(q, pw) /\ q.state = C.state BY AdoptOK
    <2> HIDE DEF q
    <2>9. D.client = c /\ D.state # "Success" BY <2>8 DEF ClientOK, ClientFields
    <2> HIDE DEF D
    <2>10. k \in M2x /\ M \subseteq M2x OBVIOUS
    <2>11. KeysAgree(V.ver, n, A, B, M, S) BY DEF Agrees
    <2>12. KeysAgree(V.ver, n, A, B, M2x, S)
      <3>1. \A L \in S : L.a \in A BY <2>11 DEF KeysAgree
      <3>2. A \subseteq Int BY <2>11 DEF KeysAgree
      <3>3. \A L \in S : ~(k.a < L.a)
        <4> SUFFICES ASSUME NEW L \in S PROVE ~(k.a < L.a) OBVIOUS
        <4>1. L.a \in Int /\ k.a \in Int /\ L.a <= k.a BY <2>1, <2>2, <3>1, <3>2
        <4> QED BY <4>1
      <3>4. \A K \in M2x, L \in S : ~(K.a < L.a /\ L.b < K.b) BY <2>11, <3>3 DEF KeysAgree
      <3>5. \A K \in M2x : K.a \in A /\ K.b \in B BY <2>1, <2>2, <2>3, <2>11 DEF KeysAgree
      <3> QED BY <2>11, <3>4, <3>5, <2>10 DEF KeysAgree
    <2> HIDE DEF M2x
    <2>13. KeysAgree(V.ver, Drawn(D, n), A, B, M2x, S) BY <2>12, KeysDrawn
    <2>14. ClientAgrees(D, A, M2x, S) BY <2>1, <2>2, <2>7, <2>9, <2>10 DEF ClientAgrees
    <2>15. Agrees(D, V, Drawn(D, n), A, B, M2x, S) BY <2>13, <2>14 DEF Agrees
    <2>16. Fine(g, V, A, B, M2x, S) BY <2>5, <2>6, <2>10, AllKinds DEF Fine
    <2>17. Carries(V, V, A, B, M, S, A, B, M2x, S) BY <2>10 DEF Carries
    <2>18. Leads(V, A, B, M, S, D, V, Drawn(D, n), g) BY <2>15, <2>16, <2>17, Zenon DEF Leads
    <2> DEFINE o == OnServerKey(C, f)
    <2>19. o = Outcome(D, g, FALSE)
      BY <1>2, <2>4, <2>7 DEF OnServerKey, Answer, D, q, g
    <2> HIDE DEF o
    <2>20. o.role = D /\ o.reply = g BY <2>19 DEF Outcome
    <2>21. ClientLeads(C, V, n, A, B, M, S, o) BY <2>18, <2>20 DEF ClientLeads
    <2> QED BY <2>21 DEF o
  <1> QED BY <1>1, <1>2

LEMMA ServerValidatorAgrees ==
  ASSUME NEW C, NEW V, NEW n, NEW A, NEW B, NEW M, NEW S, Agrees(C, V, n, A, B, M, S),
         NEW pw, ClientOK(C, pw), NEW f, Fine(f, V, A, B, M, S), f.kind = "ServerValidator"
  PROVE  ClientLeads(C, V, n, A, B, M, S, OnServerValidator(C, f))
  <1>1. CASE C.client = None \/ f.body = None
    <2>1. OnServerValidator(C, f) = Fail(C, None) BY <1>1 DEF OnServerValidator
    <2> QED BY <2>1, ClientQuiet DEF ClientSame
  <1> DEFINE q == Adopt(C, f)
             D == [q EXCEPT !.session = C.client.key, !.state = "Success"]
             g == Frame("Success", NegotiatedVersion(f), f.id, None)
  <1>2. ClientOK(q, pw) /\ q.client = C.client /\ q.session = C.session /\ q.state = C.state
    BY AdoptOK
  <1>3. CASE ~(C.client = None \/ f.body = None) /\ (C.client.key = None \/ f.body # M2(C.client.key))
    <2>1. OnServerValidator(C, f) = Fail(q, None)
      BY <1>3 DEF OnServerValidator
    <2> HIDE DEF q
    <2>2. ClientSame(C, q) BY <1>2 DEF ClientSame
    <2> QED BY <1>2, <2>1, <2>2, ClientQuiet
  <1>4. CASE ~(C.client = None \/ f.body = None) /\ C.client.key # None /\ f.body = M2(C.client.key)
    <2>1. C.client.key \in S BY <1>4 DEF Fine, M2
    <2>2. g.kind \in Plain BY FrameFields DEF Plain
    <2> HIDE DEF g, q
    <2>3. D.client = C.client /\ D.session = C.client.key /\ D.state = "Success"
      BY <1>2 DEF ClientOK, ClientFields
    <2>4. OnServerValidator(C, f) = Outcome(D, g, FALSE)
      BY <1>4 DEF OnServerValidator, Answer, D, q, g
    <2> HIDE DEF D
    <2>5. ClientAgrees(D, A, M, S) BY <1>4, <2>1, <2>3 DEF Agrees, ClientAgrees
    <2>6. Agrees(D, V, Drawn(D, n), A, B, M, S) BY <2>5, KeysDrawn DEF Agrees
    <2>7. Fine(g, V, A, B, M, S) BY <2>2, PlainFine
    <2>8. Carries(V, V, A, B, M, S, A, B, M, S) BY DEF Carries
    <2>9. Leads(V, A, B, M, S, D, V, Drawn(D, n), g) BY <2>6, <2>7, <2>8, Zenon DEF Leads
    <2> DEFINE o == OnServerValidator(C, f)
    <2>10. o = Outcome(D, g, FALSE) BY <2>4
    <2> HIDE DEF o
    <2>11. o.role = D /\ o.reply = g BY <2>10 DEF Outcome
    <2>12. ClientLeads(C, V, n, A, B, M, S, o) BY <2>9, <2>11 DEF ClientLeads
    <2> QED BY <2>12 DEF o
  <1> QED BY <1>1, <1>3, <1>4

LEMMA PassphraseReplies ==
  ASSUME NEW r, NEW f
  PROVE  LET o == OnPassphrase(r, f) IN o.role = r /\ (o.reply # None => o.reply.kind \in Plain)
  <1>1. SuccessAck(f.id).kind \in Plain /\ PassphrasePush(f.id).kind \in Plain
    BY FrameFields DEF SuccessAck, PassphrasePush, Plain
  <1> QED BY <1>1 DEF OnPassphrase, Answer, Silent, Outcome

LEMMA ClientHandlesAgree ==
  ASSUME NEW C, NEW V, NEW n, NEW A, NEW B, NEW M, NEW S, Agrees(C, V, n, A, B, M, S),
         NEW pw, ClientOK(C, pw), NEW f, Fine(f, V, A, B, M, S), NEW user
  PROVE  ClientLeads(C, V, n, A, B, M, S, ClientHandles(C, f, user, n + 1))
  <1> DEFINE r == IF C.state = "Success" /\ f.kind = "IdentityRequest" THEN RestartClient(C) ELSE C
             o == ClientHandles(C, f, user, n + 1)
  <1>0. f.kind \in Kinds BY DEF Fine
  <1>1. ClientSame(C, C) BY DEF ClientSame
  <1>2. CASE f.kind = "IdentityRequest"
    <2> DEFINE t == IF C.state = "Success" THEN RestartClient(C) ELSE C
    <2>1. t = r BY <1>2
    <2>2. o = OnIdentityRequest(r, f, user) BY <1>2 DEF ClientHandles, ServerDriven
    <2> HIDE DEF r, o
    <2>3. o = OnIdentityRequest(t, f, user) BY <2>1, <2>2
    <2>4. ClientLeads(C, V, n, A, B, M, S, OnIdentityRequest(t, f, user)) BY <1>2, IdentityRequestAgrees
    <2>5. ClientLeads(C, V, n, A, B, M, S, o) BY <2>3, <2>4
    <2> QED BY <2>5 DEF o
  <1>3. CASE f.kind # "IdentityRequest"
    <2>1. r = C BY <1>3
    <2>2. CASE f.kind \in ServerDriven /\ (C.state = "Success" \/ OutOfSequence(C, f))
      <3>1. o = Silent(C) BY <1>3, <2>2 DEF ClientHandles
      <3> QED BY <1>1, <3>1, ClientQuiet
    <2>3. CASE ~(f.kind \in ServerDriven /\ (C.state = "Success" \/ OutOfSequence(C, f)))
      <3>0. o = CASE f.kind = "IdentityRequest" -> OnIdentityRequest(C, f, user)
           [] f.kind = "Challenge"       -> OnChallenge(C, f, n + 1)
           [] f.kind = "ServerKey"       -> OnServerKey(C, f)
           [] f.kind = "ServerValidator" -> OnServerValidator(C, f)
           [] f.kind = "Success"         -> Silent(C)
           [] f.kind = "Failure"         -> IF C.state # "InProgress" \/ f.id # C.id THEN Silent(C) ELSE Fail(C, None)
           [] f.kind \in {"PassphraseRequest", "PassphraseResponse"} -> OnPassphrase(C, f)
           [] f.kind \in {"Start", "Logoff", "IdentityResponse", "ClientKey", "ClientValidator"} -> Unexpected(C)
        BY <1>3, <2>3 DEF ClientHandles
      <3> HIDE DEF o
      <3>2. CASE f.kind = "Challenge"
        BY <3>0, <3>2, ChallengeAgrees DEF o
      <3>3. CASE f.kind = "ServerKey"
        <4>1. C.state # "Success" BY <2>3, <3>3 DEF ServerDriven
        <4> QED BY <3>0, <3>3, <4>1, ServerKeyAgrees DEF o
      <3>4. CASE f.kind = "ServerValidator"
        BY <3>0, <3>4, ServerValidatorAgrees DEF o
      <3>5. CASE f.kind \in {"Success", "Failure", "Start", "Logoff", "IdentityResponse", "ClientKey", "ClientValidator"}
        BY <1>1, <3>0, <3>5, ClientQuiet DEF o
      <3>6. CASE f.kind \in {"PassphraseRequest", "PassphraseResponse"}
        <4>1. o = OnPassphrase(C, f) BY <3>0, <3>6
        <4>2. o.role = C /\ (o.reply # None => Fine(o.reply, V, A, B, M, S))
          BY <4>1, PassphraseReplies, PlainFine
        <4>3. ClientLeads(C, V, n, A, B, M, S, o) BY <1>1, <4>2, ClientIdles DEF ClientLeads
        <4> QED BY <4>3 DEF o
      <3> QED BY <1>0, <1>3, <3>2, <3>3, <3>4, <3>5, <3>6, AllKinds DEF o
    <2> QED BY <2>2, <2>3
  <1> QED BY <1>2, <1>3

----------------------------------------------------------------------------
(* The authenticator's steps                                                *)

LEMMA Successor ==
  ASSUME NEW i \in 0 .. IdMod - 1
  PROVE  NextId(i) \in 0 .. IdMod - 1 /\ NextId(i) # i
  <1>1. IdMod \in Nat /\ IdMod > 4 BY IdAssumption
  <1>2. CASE i + 1 < IdMod
    <2>1. (i + 1) % IdMod = i + 1 BY <1>1, <1>2
    <2> QED BY <1>1, <1>2, <2>1 DEF NextId
  <1>3. CASE ~(i + 1 < IdMod)
    <2>1. i + 1 = IdMod BY <1>1, <1>3
    <2>2. IdMod % IdMod = 0 BY <1>1
    <2> QED BY <1>1, <2>1, <2>2 DEF NextId
  <1> QED BY <1>2, <1>3

LEMMA ServerQuiet ==
  ASSUME NEW C, NEW V, NEW n, NEW A, NEW B, NEW M, NEW S, Agrees(C, V, n, A, B, M, S),
         NEW pw, ServerOK(V, pw), NEW f, f # None => f.kind \in Plain
  PROVE  /\ ServerLeads(C, V, n, A, B, M, S, Silent(V)) /\ ServerLeads(C, V, n, A, B, M, S, Unexpected(V))
         /\ ServerLeads(C, V, n, A, B, M, S, Fail(V, f)) /\ ServerLeads(C, V, n, A, B, M, S, Fail(V, None))
  <1> DEFINE F == [V EXCEPT !.state = "Failed"]
  <1>1. ServerSame(V, F) /\ ServerSame(V, V) BY DEF ServerSame, ServerOK, ServerFields
  <1> HIDE DEF F
  <1>2. f # None => Fine(f, F, A, B, M, S) BY PlainFine
  <1>3. /\ Leads(V, A, B, M, S, C, F, Drawn(F, n), f)
        /\ Leads(V, A, B, M, S, C, F, Drawn(F, n), None)
        /\ Leads(V, A, B, M, S, C, V, Drawn(V, n), None)
    BY <1>1, <1>2, ServerIdles
  <1>4. /\ Silent(V).role = V /\ Silent(V).reply = None /\ Unexpected(V).role = V /\ Unexpected(V).reply = None
        /\ Fail(V, f).role = F /\ Fail(V, f).reply = f /\ Fail(V, None).role = F /\ Fail(V, None).reply = None
    BY DEF Silent, Unexpected, Fail, Outcome, F
  <1> QED BY <1>3, <1>4 DEF ServerLeads

\* A role that starts over under another identifier agrees with whatever came before.
LEMMA ServerForgets ==
  ASSUME NEW C, NEW V, NEW n, NEW A, NEW B, NEW M, NEW S, Agrees(C, V, n, A, B, M, S),
         NEW U, U.server = None, U.session = None, U.ver = V.ver, U.id \in 0 .. IdMod - 1,
         U.id = V.id => V.server = None,
         NEW f, f # None => Fine(f, U, A, B, M, S)
  PROVE  Leads(V, A, B, M, S, C, U, Drawn(U, n), f)
  <1>1. Carries(V, U, A, B, M, S, A, B, M, S) BY DEF Carries
  <1>2. ServerAgrees(U, A, B, S) BY DEF ServerAgrees
  <1>3. KeysAgree(U.ver, Drawn(U, n), A, B, M, S) BY KeysDrawn DEF Agrees
  <1>4. Agrees(C, U, Drawn(U, n), A, B, M, S) BY <1>2, <1>3 DEF Agrees
  <1> QED BY <1>1, <1>4, Zenon DEF Leads

\* A role that opens, in place or anew.
LEMMA OpensAgree ==
  ASSUME NEW C, NEW V, NEW n, NEW A, NEW B, NEW M, NEW S, Agrees(C, V, n, A, B, M, S),
         NEW pw, ServerOK(V, pw)
  PROVE  /\ ServerLeads(C, V, n, A, B, M, S, StartServer(RestartServer(V)))
         /\ V.state = "Unauth" => ServerLeads(C, V, n, A, B, M, S, StartServer(V))
  <1>0. V.id \in 0 .. IdMod - 1 /\ (V.state = "Unauth" => V.server = None /\ V.session = None)
    BY DEF Agrees, ServerAgrees
  <1>1. ASSUME NEW r, DOMAIN r = ServerFields, r.server = None, r.session = None, r.ver = V.ver,
               r.id \in 0 .. IdMod - 1, r.id = V.id => V.server = None
        PROVE  ServerLeads(C, V, n, A, B, M, S, StartServer(r))
    <2> DEFINE U == IF r.state = "Unauth" THEN [r EXCEPT !.state = "InProgress"] ELSE r
               g == Frame("IdentityRequest", r.ver, r.id, None)
               o == StartServer(r)
    <2>1. U.server = None /\ U.session = None /\ U.ver = V.ver /\ U.id = r.id
      BY <1>1 DEF ServerFields
    <2>2. o.role = U /\ o.reply = g BY DEF StartServer, Outcome
    <2>3. g.kind = "IdentityRequest" /\ g.id = r.id BY FrameFields
    <2> HIDE DEF U, g, o
    <2>4. Fine(g, U, A, B, M, S) BY <2>1, <2>3, AllKinds DEF Fine
    <2>5. Leads(V, A, B, M, S, C, U, Drawn(U, n), g) BY <1>1, <2>1, <2>4, ServerForgets
    <2>6. ServerLeads(C, V, n, A, B, M, S, o) BY <2>2, <2>5 DEF ServerLeads
    <2> QED BY <2>6 DEF o
  <1>2. V.state = "Unauth" => ServerLeads(C, V, n, A, B, M, S, StartServer(V))
    BY <1>0, <1>1 DEF ServerOK
  <1> DEFINE R == RestartServer(V)
  <1>3. /\ DOMAIN R = ServerFields /\ R.server = None /\ R.session = None /\ R.ver = V.ver
        /\ R.id = NextId(V.id)
    <2> DEFINE N == NewAuthenticator(V.ver, V.useKey, NextId(V.id))
    <2>1. /\ DOMAIN N = ServerFields /\ N.server = None /\ N.session = None /\ N.ver = V.ver
          /\ N.id = NextId(V.id)
      BY DEF NewAuthenticator, ServerFields
    <2> HIDE DEF N
    <2>2. R = [N EXCEPT !.everAuthed = V.everAuthed, !.pw = V.pw] BY DEF RestartServer, N
    <2> QED BY <2>1, <2>2 DEF ServerFields
  <1> HIDE DEF R
  <1>4. R.id \in 0 .. IdMod - 1 /\ R.id # V.id BY <1>0, <1>3, Successor
  <1>5. ServerLeads(C, V, n, A, B, M, S, StartServer(R)) BY <1>1, <1>3, <1>4
  <1> QED BY <1>2, <1>5 DEF R

LEMMA IdentityResponseAgrees ==
  ASSUME NEW C, NEW V, NEW n, NEW A, NEW B, NEW M, NEW S, Agrees(C, V, n, A, B, M, S),
         NEW pw, ServerOK(V, pw), NEW f, Fine(f, V, A, B, M, S), f.kind = "IdentityResponse",
         V.state # "Unauth" => f.id = V.id
  PROVE  ServerLeads(C, V, n, A, B, M, S, OnIdentityResponse(V, f, [user |-> "good"], n + 1))
  <1> DEFINE lookup == [user |-> "good"]
             o == OnIdentityResponse(V, f, lookup, n + 1)
  <1>1. CASE f.body.user \notin DOMAIN lookup
    <2>1. o = Fail(V, None) BY <1>1 DEF OnIdentityResponse
    <2>2. ServerLeads(C, V, n, A, B, M, S, Fail(V, None)) BY ServerQuiet
    <2> QED BY <2>1, <2>2
  <1>2. CASE f.body.user \in DOMAIN lookup
    <2> DEFINE c == NewServer(n + 1)
               i == NextId(V.id)
               p == lookup[f.body.user]
               U == [V EXCEPT !.server = c, !.pw = p, !.state = "InProgress", !.id = i]
               g == Frame("Challenge", V.ver, i, None)
               B2 == B \cup {n + 1}
    <2>1. o = Outcome(U, g, FALSE) BY <1>2 DEF OnIdentityResponse, Answer
    <2>2. c.b = n + 1 /\ c.pubA = 0 /\ c # None
      <3>1. "b" \in DOMAIN c /\ "b" \notin DOMAIN None BY DEF NewServer, None
      <3> QED BY <3>1 DEF NewServer
    <2>3. g.kind = "Challenge" /\ g.id = i BY FrameFields
    <2>4. i \in 0 .. IdMod - 1 /\ i # V.id BY Successor DEF Agrees, ServerAgrees
    <2>5. V.server = None /\ V.session = None BY DEF Fine, Agrees, ServerAgrees
    <2> HIDE DEF c, i, p, g, o
    <2>6. /\ U.server = c /\ U.session = None /\ U.state = "InProgress" /\ U.id = i /\ U.ver = V.ver
          /\ DOMAIN U = ServerFields
      BY <2>5 DEF ServerOK, ServerFields
    <2> HIDE DEF U
    <2>7. /\ n \in Nat /\ A \subseteq 1 .. n /\ B \subseteq 1 .. n
          /\ \A L \in S : L.a \in A /\ L.b \in B
          /\ KeysAgree(V.ver, n, A, B, M, S)
      BY DEF Agrees, KeysAgree
    <2>8. B2 \subseteq 1 .. n + 1 /\ (\A b \in B2 : b <= n + 1) /\ n + 1 \notin B /\ 0 \notin A
      BY <2>7
    <2>9. n + 1 \in B2 /\ B \subseteq B2 OBVIOUS
    <2> HIDE DEF B2
    <2>10. \A L \in S : L.b # n + 1 /\ L.a # 0 BY <2>7, <2>8
    <2>11. ServerAgrees(U, A, B2, S)
      BY <2>2, <2>4, <2>6, <2>8, <2>9, <2>10 DEF ServerAgrees
    <2>12. Draws(U, n + 1)
      <3>1. "client" \notin DOMAIN U BY <2>6 DEF ServerFields
      <3> QED BY <2>2, <2>6, <3>1 DEF Draws
    <2>13. KeysAgree(V.ver, n + 1, A, B2, M, S)
      <3>1. KeysAgree(V.ver, n + 1, A, B, M, S) BY <2>7, KeysGrow
      <3> QED BY <3>1, <2>8, <2>9 DEF KeysAgree
    <2>14. Agrees(C, U, Drawn(U, n), A, B2, M, S) BY <2>6, <2>11, <2>12, <2>13 DEF Agrees, Drawn
    <2>15. Fine(g, U, A, B2, M, S) BY <2>2, <2>3, <2>6, AllKinds DEF Fine
    <2>16. Carries(V, U, A, B, M, S, A, B2, M, S) BY <2>4, <2>6, <2>9 DEF Carries
    <2>17. Leads(V, A, B, M, S, C, U, Drawn(U, n), g) BY <2>14, <2>15, <2>16, Zenon DEF Leads
    <2>18. o.role = U /\ o.reply = g BY <2>1 DEF Outcome
    <2>19. ServerLeads(C, V, n, A, B, M, S, o) BY <2>17, <2>18 DEF ServerLeads
    <2> QED BY <2>19 DEF o
  <1> QED BY <1>1, <1>2

LEMMA ClientKeyAgrees ==
  ASSUME NEW C, NEW V, NEW n, NEW A, NEW B, NEW M, NEW S, Agrees(C, V, n, A, B, M, S),
         NEW pw, ServerOK(V, pw), NEW f, Fine(f, V, A, B, M, S), f.kind = "ClientKey",
         V.state # "Unauth" => f.id = V.id
  PROVE  ServerLeads(C, V, n, A, B, M, S, OnClientKey(V, f))
  <1> DEFINE o == OnClientKey(V, f)
  <1>1. CASE V.server = None
    <2>1. o = Fail(V, None) BY <1>1 DEF OnClientKey
    <2>2. ServerLeads(C, V, n, A, B, M, S, Fail(V, None)) BY ServerQuiet
    <2> QED BY <2>1, <2>2
  <1>2. CASE V.server # None
    <2> DEFINE i == NextId(V.id)
               c == [V.server EXCEPT !.pubA = f.body.a]
               U == [V EXCEPT !.server = c, !.id = i]
               g == Frame("ServerKey", V.ver, i, [b |-> V.server.b])
    <2>1. f.id = V.id BY <1>2 DEF Agrees, ServerAgrees
    <2>2. /\ f.body.a \in A /\ V.server.pubA = 0 /\ (\A L \in S : L.a # f.body.a)
          /\ V.server.b \in B /\ (\A b \in B : b <= V.server.b)
          /\ \A L \in S : L.b = V.server.b <=> L.a = V.server.pubA
      BY <1>2, <2>1 DEF Fine, Agrees, ServerAgrees
    <2>3. V.session = None BY <2>2 DEF Agrees, ServerAgrees
    <2>4. i \in 0 .. IdMod - 1 /\ i # V.id BY Successor DEF Agrees, ServerAgrees
    <2>5. g.kind = "ServerKey" /\ g.body.b = V.server.b BY FrameFields
    <2>6. KeysAgree(V.ver, n, A, B, M, S) BY DEF Agrees
    <2>7. \A L \in S : L.a # 0
      <3>1. \A L \in S : L.a \in A BY <2>6 DEF KeysAgree
      <3>2. 0 \notin A BY <2>6 DEF KeysAgree
      <3> QED BY <3>1, <3>2
    <2>8. o = Outcome(U, g, FALSE)
      <3>1. [V EXCEPT !.server.pubA = f.body.a, !.id = i] = U OBVIOUS
      <3> QED BY <1>2, <3>1 DEF OnClientKey, Answer
    <2> HIDE DEF i, g, o
    <2>9. c.b = V.server.b /\ c.pubA = f.body.a /\ c # None
      <3>1. DOMAIN V.server = {"b", "pubA", "key"} BY <1>2 DEF ServerOK
      <3>2. "b" \in DOMAIN c /\ "b" \notin DOMAIN None BY <3>1 DEF None
      <3> QED BY <3>1, <3>2
    <2> HIDE DEF c
    <2>10. /\ U.server = c /\ U.session = None /\ U.state = V.state /\ U.id = i /\ U.ver = V.ver
      BY <2>3 DEF ServerOK, ServerFields
    <2> HIDE DEF U
    <2>11. V.state # "Unauth" BY <1>2 DEF Agrees, ServerAgrees
    <2>12. ServerAgrees(U, A, B, S)
      BY <2>2, <2>4, <2>7, <2>9, <2>10, <2>11 DEF ServerAgrees
    <2>13. KeysAgree(U.ver, Drawn(U, n), A, B, M, S) BY <2>6, <2>10, KeysDrawn
    <2>14. Agrees(C, U, Drawn(U, n), A, B, M, S) BY <2>12, <2>13 DEF Agrees
    <2>15. Fine(g, U, A, B, M, S) BY <2>2, <2>5, AllKinds DEF Fine
    <2>16. Carries(V, U, A, B, M, S, A, B, M, S) BY <2>4, <2>10 DEF Carries
    <2>17. Leads(V, A, B, M, S, C, U, Drawn(U, n), g) BY <2>14, <2>15, <2>16, Zenon DEF Leads
    <2>18. o.role = U /\ o.reply = g BY <2>8 DEF Outcome
    <2>19. ServerLeads(C, V, n, A, B, M, S, o) BY <2>17, <2>18 DEF ServerLeads
    <2> QED BY <2>19 DEF o
  <1> QED BY <1>1, <1>2

LEMMA ClientValidatorAgrees ==
  ASSUME NEW C, NEW V, NEW n, NEW A, NEW B, NEW M, NEW S, Agrees(C, V, n, A, B, M, S),
         NEW pw, ServerOK(V, pw), NEW f, Fine(f, V, A, B, M, S), f.kind = "ClientValidator"
  PROVE  ServerLeads(C, V, n, A, B, M, S, OnClientValidator(V, f))
  <1> DEFINE o == OnClientValidator(V, f)
             k == ServerKeyOf(V.server, V.ver, V.pw)
             i == NextId(V.id)
  <1>1. CASE V.server = None
    <2>1. o = Fail(V, None) BY <1>1 DEF OnClientValidator
    <2>2. ServerLeads(C, V, n, A, B, M, S, Fail(V, None)) BY ServerQuiet
    <2> QED BY <2>1, <2>2
  <1>2. CASE V.server # None /\ (V.server.pubA = 0 \/ f.body # M1(k))
    <2> DEFINE g == Frame("Failure", V.ver, V.id, None)
    <2>1. o = Fail(V, g) BY <1>2 DEF OnClientValidator
    <2>2. g.kind \in Plain BY FrameFields DEF Plain
    <2> HIDE DEF g
    <2>3. ServerLeads(C, V, n, A, B, M, S, Fail(V, g)) BY <2>2, ServerQuiet
    <2> HIDE DEF o
    <2>4. ServerLeads(C, V, n, A, B, M, S, o) BY <2>1, <2>3
    <2> QED BY <2>4 DEF o
  <1>3. CASE V.server # None /\ ~(V.server.pubA = 0 \/ f.body # M1(k))
    <2> DEFINE c == [V.server EXCEPT !.key = k]
               U == [V EXCEPT !.server = c, !.session = k, !.verified = TRUE, !.id = i]
               g == Frame("ServerValidator", V.ver, i, M2(k))
               S2 == S \cup {k}
    <2>1. k \in M BY <1>3 DEF Fine, M1
    <2>2. /\ V.server.pubA \in A /\ V.server.b \in B /\ (\A b \in B : b <= V.server.b)
          /\ \A L \in S : L.b = V.server.b <=> L.a = V.server.pubA
      BY <1>3 DEF Agrees, ServerAgrees
    <2>3. V.pw = "good" BY <1>3 DEF ServerOK
    <2>4. k.a = V.server.pubA /\ k.b = V.server.b /\ k = SessionKey(k.a, k.b, V.ver, "good")
      BY <2>3 DEF ServerKeyOf, SessionKey
    <2>5. i \in 0 .. IdMod - 1 /\ i # V.id BY Successor DEF Agrees, ServerAgrees
    <2>6. g.kind = "ServerValidator" /\ g.body.m2 = k BY FrameFields DEF M2
    <2>7. KeysAgree(V.ver, n, A, B, M, S) BY DEF Agrees
    <2>8. o = Outcome(U, g, FALSE)
      <3>1. [V EXCEPT !.server.key = k, !.session = k, !.verified = TRUE, !.id = i] = U OBVIOUS
      <3> QED BY <1>3, <3>1 DEF OnClientValidator, Answer
    <2> HIDE DEF i, g, o, k
    <2>9. c.b = V.server.b /\ c.pubA = V.server.pubA /\ c # None
      <3>1. DOMAIN V.server = {"b", "pubA", "key"} BY <1>3 DEF ServerOK
      <3>2. "b" \in DOMAIN c /\ "b" \notin DOMAIN None BY <3>1 DEF None
      <3> QED BY <3>1, <3>2
    <2> HIDE DEF c
    <2>10. /\ U.server = c /\ U.session = k /\ U.state = V.state /\ U.id = i /\ U.ver = V.ver
      BY DEF ServerOK, ServerFields
    <2> HIDE DEF U
    <2>11. V.state # "Unauth" BY <1>3 DEF Agrees, ServerAgrees
    <2>12. k \in S2 /\ S \subseteq S2 OBVIOUS
    <2>13. \A L \in S2 : L.b = V.server.b <=> L.a = V.server.pubA BY <2>2, <2>4
    <2>14. ServerAgrees(U, A, B, S2)
      BY <1>3, <2>2, <2>4, <2>5, <2>9, <2>10, <2>11, <2>12, <2>13 DEF ServerAgrees
    <2>15. KeysAgree(V.ver, n, A, B, M, S2)
      <3>1. B \subseteq Int /\ \A K \in M : K.b \in B BY <2>7 DEF KeysAgree
      <3>2. \A K \in M : ~(k.b < K.b)
        <4> SUFFICES ASSUME NEW K \in M PROVE ~(k.b < K.b) OBVIOUS
        <4>1. K.b \in Int /\ k.b \in Int /\ K.b <= k.b BY <2>2, <2>4, <3>1
        <4> QED BY <4>1
      <3>3. \A K \in M, L \in S2 : ~(K.a < L.a /\ L.b < K.b) BY <2>7, <3>2 DEF KeysAgree
      <3>4. \A K, L \in S2 : K.a = L.a <=> K.b = L.b
        BY <2>4, <2>7, <2>13 DEF KeysAgree
      <3>5. S2 \subseteq M /\ \A L \in S2 : L = SessionKey(L.a, L.b, V.ver, "good")
        BY <2>1, <2>4, <2>7 DEF KeysAgree
      <3> QED BY <2>7, <3>3, <3>4, <3>5 DEF KeysAgree
    <2> HIDE DEF S2
    <2>16. KeysAgree(U.ver, Drawn(U, n), A, B, M, S2) BY <2>10, <2>15, KeysDrawn
    <2>17. Agrees(C, U, Drawn(U, n), A, B, M, S2)
      <3>1. ClientAgrees(C, A, M, S2) BY <2>12 DEF Agrees, ClientAgrees
      <3> QED BY <2>14, <2>16, <3>1 DEF Agrees
    <2>18. Fine(g, U, A, B, M, S2) BY <2>6, <2>12, AllKinds DEF Fine
    <2>19. Carries(V, U, A, B, M, S, A, B, M, S2) BY <2>5, <2>10, <2>12 DEF Carries
    <2>20. Leads(V, A, B, M, S, C, U, Drawn(U, n), g) BY <2>17, <2>18, <2>19, Zenon DEF Leads
    <2>21. o.role = U /\ o.reply = g BY <2>8 DEF Outcome
    <2>22. ServerLeads(C, V, n, A, B, M, S, o) BY <2>20, <2>21 DEF ServerLeads
    <2> QED BY <2>22 DEF o
  <1> QED BY <1>1, <1>2, <1>3

LEMMA AcknowledgedAgrees ==
  ASSUME NEW C, NEW V, NEW n, NEW A, NEW B, NEW M, NEW S, Agrees(C, V, n, A, B, M, S),
         NEW pw, ServerOK(V, pw)
  PROVE  ServerLeads(C, V, n, A, B, M, S, OnAcknowledged(V))
  <1> DEFINE i == NextId(V.id)
             U == [V EXCEPT !.state = "Success", !.everAuthed = TRUE, !.id = i]
  <1>1. OnAcknowledged(V) = IF V.verified THEN Silent(U) ELSE Silent(V)
    BY DEF OnAcknowledged
  <1>2. i \in 0 .. IdMod - 1 /\ i # V.id BY Successor DEF Agrees, ServerAgrees
  <1>3. ServerLeads(C, V, n, A, B, M, S, Silent(V)) BY ServerQuiet
  <1> HIDE DEF i
  <1>4. /\ U.server = V.server /\ U.session = V.session /\ U.state = "Success" /\ U.id = i /\ U.ver = V.ver
    BY DEF ServerOK, ServerFields
  <1> HIDE DEF U
  <1>5. ServerAgrees(U, A, B, S) BY <1>2, <1>4 DEF Agrees, ServerAgrees
  <1>6. KeysAgree(U.ver, Drawn(U, n), A, B, M, S) BY <1>4, KeysDrawn DEF Agrees
  <1>7. Agrees(C, U, Drawn(U, n), A, B, M, S) BY <1>5, <1>6 DEF Agrees
  <1>8. Carries(V, U, A, B, M, S, A, B, M, S) BY <1>2, <1>4 DEF Carries
  <1>9. Leads(V, A, B, M, S, C, U, Drawn(U, n), None) BY <1>7, <1>8, Zenon DEF Leads
  <1>10. Silent(U).role = U /\ Silent(U).reply = None BY DEF Silent, Outcome
  <1>11. ServerLeads(C, V, n, A, B, M, S, Silent(U)) BY <1>9, <1>10 DEF ServerLeads
  <1> QED BY <1>1, <1>3, <1>11

LEMMA ServerHandlesAgree ==
  ASSUME NEW C, NEW V, NEW n, NEW A, NEW B, NEW M, NEW S, Agrees(C, V, n, A, B, M, S),
         NEW pw, ServerOK(V, pw), NEW f, Fine(f, V, A, B, M, S)
  PROVE  ServerLeads(C, V, n, A, B, M, S, ServerHandles(V, f, [user |-> "good"], n + 1))
  <1> DEFINE lookup == [user |-> "good"]
             o == ServerHandles(V, f, lookup, n + 1)
  <1>0. f.kind \in Kinds /\ f.kind # "Logoff" BY DEF Fine
  <1>a. /\ ServerLeads(C, V, n, A, B, M, S, Silent(V)) /\ ServerLeads(C, V, n, A, B, M, S, Unexpected(V))
        /\ ServerLeads(C, V, n, A, B, M, S, Fail(V, None))
    BY ServerQuiet
  <1>1. CASE Mismatched(V, f)
    BY <1>1, <1>a DEF ServerHandles
  <1>2. CASE ~Mismatched(V, f)
    <2>0. o = CASE f.kind = "Start"            -> OnStart(V)
         [] f.kind = "Logoff"           -> OnLogoff(V)
         [] f.kind = "IdentityResponse" -> OnIdentityResponse(V, f, lookup, n + 1)
         [] f.kind = "ClientKey"        -> OnClientKey(V, f)
         [] f.kind = "ClientValidator"  -> OnClientValidator(V, f)
         [] f.kind \in {"ServerValidator", "Success"} -> OnAcknowledged(V)
         [] f.kind \in {"PassphraseRequest", "PassphraseResponse"} -> OnPassphrase(V, f)
         [] f.kind = "Failure"          -> IF V.state # "InProgress" THEN Silent(V) ELSE Fail(V, None)
         [] f.kind \in {"IdentityRequest", "Challenge", "ServerKey"} -> Unexpected(V)
      BY <1>2 DEF ServerHandles
    <2> HIDE DEF o
    <2>1. CASE f.kind = "Start"
      <3>1. ServerLeads(C, V, n, A, B, M, S, OnStart(V))
        BY <1>a, OpensAgree DEF OnStart
      <3> QED BY <2>0, <2>1, <3>1 DEF o
    <2>3. CASE f.kind = "IdentityResponse"
      <3>1. V.state # "Unauth" => f.id = V.id BY <1>2, <2>3 DEF Mismatched
      <3> QED BY <2>0, <2>3, <3>1, IdentityResponseAgrees DEF o
    <2>4. CASE f.kind = "ClientKey"
      <3>1. V.state # "Unauth" => f.id = V.id BY <1>2, <2>4 DEF Mismatched
      <3> QED BY <2>0, <2>4, <3>1, ClientKeyAgrees DEF o
    <2>5. CASE f.kind = "ClientValidator"
      BY <2>0, <2>5, ClientValidatorAgrees DEF o
    <2>6. CASE f.kind \in {"ServerValidator", "Success"}
      BY <2>0, <2>6, AcknowledgedAgrees DEF o
    <2>7. CASE f.kind \in {"PassphraseRequest", "PassphraseResponse"}
      <3>1. o = OnPassphrase(V, f) BY <2>0, <2>7
      <3>2. o.role = V /\ (o.reply # None => Fine(o.reply, V, A, B, M, S))
        BY <3>1, PassphraseReplies, PlainFine
      <3>3. ServerSame(V, V) BY DEF ServerSame
      <3>4. ServerLeads(C, V, n, A, B, M, S, o) BY <3>2, <3>3, ServerIdles DEF ServerLeads
      <3> QED BY <3>4 DEF o
    <2>8. CASE f.kind \in {"Failure", "IdentityRequest", "Challenge", "ServerKey"}
      BY <2>0, <2>8, <1>a DEF o
    <2> QED BY <1>0, <2>1, <2>3, <2>4, <2>5, <2>6, <2>7, <2>8, AllKinds DEF o
  <1> QED BY <1>1, <1>2

----------------------------------------------------------------------------
(* Either end's steps                                                       *)

Mine(e, C, V) == IF e = "sender" THEN C ELSE V

\* End e takes the role r and sends f.
EndLeads(e, C, V, n, A, B, M, S, r, f) ==
  Leads(V, A, B, M, S, IF e = "sender" THEN r ELSE C, IF e = "sender" THEN V ELSE r, Drawn(r, n), f)

Cached(r, w, f) == [r EXCEPT !.lastRx = w, !.lastReply = f]

LEMMA CachedAlike ==
  ASSUME NEW e \in Ends, NEW r, NEW pw, RoleOK(e, r, pw), NEW w, NEW f
  PROVE  LET q == Cached(r, w, f) IN
         /\ q.state = r.state /\ q.session = r.session /\ Drawn(q, eph) = Drawn(r, eph) /\ q.lastReply = f
         /\ e = "sender" => q.client = r.client
         /\ e = "receiver" => q.server = r.server /\ q.id = r.id /\ q.ver = r.ver
  <1> DEFINE q == [r EXCEPT !.lastRx = w, !.lastReply = f]
  <1>1. /\ q.state = r.state /\ q.session = r.session /\ DOMAIN q = DOMAIN r /\ q.lastReply = f
        /\ e = "sender" => q.client = r.client
        /\ e = "receiver" => q.server = r.server /\ q.id = r.id /\ q.ver = r.ver
    BY DEF RoleOK, ClientOK, ServerOK, ClientFields, ServerFields, Ends
  <1>2. "client" \in DOMAIN r <=> e = "sender"
    BY DEF RoleOK, ClientOK, ServerOK, ClientFields, ServerFields, Ends
  <1> HIDE DEF q
  <1>3. Drawn(q, eph) = Drawn(r, eph) BY <1>1, <1>2 DEF Drawn, Draws, Ends
  <1> QED BY <1>1, <1>3 DEF q, Cached

\* What the cache keeps does not touch the agreement.
LEMMA CachedLeads ==
  ASSUME NEW e \in Ends, NEW C, NEW V, NEW A, NEW B, NEW M, NEW S, NEW r, NEW q, NEW f,
         EndLeads(e, C, V, eph, A, B, M, S, r, f),
         q.state = r.state, q.session = r.session, Drawn(q, eph) = Drawn(r, eph),
         e = "sender" => q.client = r.client,
         e = "receiver" => q.server = r.server /\ q.id = r.id /\ q.ver = r.ver
  PROVE  EndLeads(e, C, V, eph, A, B, M, S, q, f)
  <1> DEFINE n2 == Drawn(r, eph)
  <1>1. CASE e = "sender"
    <2>1. PICK A2, B2, N2, S2 : /\ Agrees(r, V, n2, A2, B2, N2, S2)
                                /\ Carries(V, V, A, B, M, S, A2, B2, N2, S2)
                                /\ f # None => Fine(f, V, A2, B2, N2, S2)
      BY <1>1, Zenon DEF EndLeads, Leads
    <2>2. ClientSame(r, q) BY <1>1 DEF ClientSame
    <2>3. Agrees(q, V, n2, A2, B2, N2, S2) BY <2>1, <2>2, ClientStays DEF Agrees
    <2>4. Leads(V, A, B, M, S, q, V, n2, f) BY <2>1, <2>3, Zenon DEF Leads
    <2> QED BY <1>1, <2>4 DEF EndLeads
  <1>2. CASE e = "receiver"
    <2>1. PICK A2, B2, N2, S2 : /\ Agrees(C, r, n2, A2, B2, N2, S2)
                                /\ Carries(V, r, A, B, M, S, A2, B2, N2, S2)
                                /\ f # None => Fine(f, r, A2, B2, N2, S2)
      BY <1>2, Zenon DEF EndLeads, Leads
    <2>2. ServerSame(r, q) BY <1>2 DEF ServerSame
    <2>3. ServerAgrees(q, A2, B2, S2) BY <2>1, <2>2, ServerStays DEF Agrees
    <2>4. Agrees(C, q, n2, A2, B2, N2, S2) BY <1>2, <2>1, <2>3 DEF Agrees
    <2>5. Carries(V, q, A, B, M, S, A2, B2, N2, S2) BY <1>2, <2>1 DEF Carries
    <2>6. f # None => Fine(f, q, A2, B2, N2, S2) BY <1>2, <2>1 DEF Fine
    <2>7. Leads(V, A, B, M, S, C, q, n2, f) BY <2>4, <2>5, <2>6, Zenon DEF Leads
    <2> QED BY <1>2, <2>7 DEF EndLeads
  <1> QED BY <1>1, <1>2 DEF Ends

\* A step that fails leaves the reply cache alone.
LEMMA FailsKeepReply ==
  ASSUME NEW r, NEW pw, ClientOK(r, pw) \/ ServerOK(r, pw), NEW f
  PROVE  /\ Silent(r).err = FALSE /\ Answer(r, f).err = FALSE
         /\ Fail(r, f).role.lastReply = r.lastReply /\ Unexpected(r).role.lastReply = r.lastReply
  <1> DEFINE F == [r EXCEPT !.state = "Failed"]
  <1>1. F.lastReply = r.lastReply
    BY DEF ClientOK, ServerOK, ClientFields, ServerFields
  <1> HIDE DEF F
  <1>2. Fail(r, f).role = F /\ Unexpected(r).role = r BY DEF Fail, Unexpected, Outcome, F
  <1>3. Silent(r).err = FALSE /\ Answer(r, f).err = FALSE BY DEF Silent, Answer, Outcome
  <1> QED BY <1>1, <1>2, <1>3

LEMMA ClientKeepsReply ==
  ASSUME NEW r, NEW pw, ClientOK(r, pw), NEW f, f.kind \in Kinds, NEW user, NEW a
  PROVE  LET o == ClientHandles(r, f, user, a) IN o.err => o.role.lastReply = r.lastReply
  <1> DEFINE o == ClientHandles(r, f, user, a)
             Q(p) == p.err => p.role.lastReply = r.lastReply
  <1>0. \A d, g : ClientOK(d, pw) =>
          /\ Silent(d).err = FALSE /\ Answer(d, g).err = FALSE
          /\ Fail(d, g).role.lastReply = d.lastReply /\ Unexpected(d).role.lastReply = d.lastReply
    BY FailsKeepReply
  <1>1. CASE f.kind = "IdentityRequest"
    <2> DEFINE t == IF r.state = "Success" THEN RestartClient(r) ELSE r
               q == Adopt(t, f)
               d == [q EXCEPT !.state = IF @ = "Unauth" THEN "InProgress" ELSE @]
    <2>1. o = OnIdentityRequest(t, f, user) BY <1>1 DEF ClientHandles, ServerDriven
    <2>2. \E g : OnIdentityRequest(t, f, user) = Answer(d, g) BY DEF OnIdentityRequest
    <2> HIDE DEF o, d
    <2>3. PICK g : o = Answer(d, g) BY <2>1, <2>2
    <2>4. o.err = FALSE BY <2>3 DEF Answer, Outcome
    <2> QED BY <2>4 DEF o
  <1>2. CASE f.kind # "IdentityRequest"
    <2>1. /\ o \in {Silent(r), Fail(r, None), Unexpected(r), OnChallenge(r, f, a), OnServerKey(r, f),
                    OnServerValidator(r, f), OnPassphrase(r, f)}
      BY <1>2, AllKinds DEF ClientHandles
    <2> HIDE DEF o
    <2>2. Q(Silent(r)) /\ Q(Fail(r, None)) /\ Q(Unexpected(r)) BY <1>0
    <2>3. Q(OnChallenge(r, f, a)) BY DEF OnChallenge, Answer, Outcome
    <2>4. Q(OnServerKey(r, f)) BY <1>0 DEF OnServerKey, Answer, Outcome
    <2>5. Q(OnServerValidator(r, f))
      <3> DEFINE q == Adopt(r, f)
      <3>1. ClientOK(q, pw) BY AdoptOK
      <3>2. q.lastReply = r.lastReply BY DEF Adopt, ClientOK, ClientFields
      <3> HIDE DEF q
      <3>3. Fail(q, None).role.lastReply = r.lastReply BY <1>0, <3>1, <3>2
      <3> QED BY <1>0, <3>3 DEF OnServerValidator, Answer, Outcome, q
    <2>6. Q(OnPassphrase(r, f)) BY <1>0 DEF OnPassphrase
    <2>7. Q(o) BY <2>1, <2>2, <2>3, <2>4, <2>5, <2>6
    <2> QED BY <2>7 DEF o
  <1> QED BY <1>1, <1>2

LEMMA ServerKeepsReply ==
  ASSUME NEW r, NEW pw, ServerOK(r, pw), NEW f, f.kind \in Kinds, NEW b
  PROVE  LET o == ServerHandles(r, f, [user |-> "good"], b) IN o.err => o.role.lastReply = r.lastReply
  <1> DEFINE lookup == [user |-> "good"]
             o == ServerHandles(r, f, lookup, b)
             Q(p) == p.err => p.role.lastReply = r.lastReply
  <1>0. \A g : /\ Silent(r).err = FALSE /\ Answer(r, g).err = FALSE
               /\ Fail(r, g).role.lastReply = r.lastReply /\ Unexpected(r).role.lastReply = r.lastReply
    BY FailsKeepReply
  <1>1. o \in {Silent(r), Fail(r, None), Unexpected(r), OnStart(r), OnLogoff(r), OnClientKey(r, f),
               OnIdentityResponse(r, f, lookup, b), OnClientValidator(r, f), OnAcknowledged(r), OnPassphrase(r, f)}
    BY AllKinds DEF ServerHandles
  <1> HIDE DEF o
  <1>2. Q(Silent(r)) /\ Q(Fail(r, None)) /\ Q(Unexpected(r)) BY <1>0
  <1>3. Q(OnStart(r)) BY DEF OnStart, StartServer, Silent, Outcome
  <1>4. Q(OnLogoff(r)) BY DEF OnLogoff, Silent, Outcome
  <1>5. Q(OnClientKey(r, f)) BY <1>0 DEF OnClientKey, Answer, Outcome
  <1>6. Q(OnIdentityResponse(r, f, lookup, b)) BY <1>0 DEF OnIdentityResponse, Answer, Outcome
  <1>7. Q(OnClientValidator(r, f)) BY <1>0 DEF OnClientValidator, Answer, Outcome
  <1>8. Q(OnAcknowledged(r)) BY DEF OnAcknowledged, Silent, Outcome
  <1>9. Q(OnPassphrase(r, f)) BY <1>0 DEF OnPassphrase
  <1>10. Q(o) BY <1>1, <1>2, <1>3, <1>4, <1>5, <1>6, <1>7, <1>8, <1>9
  <1> QED BY <1>10 DEF o

LEMMA HandledAgrees ==
  ASSUME NEW e \in Ends, NEW C, NEW V, NEW A, NEW B, NEW M, NEW S, Agrees(C, V, eph, A, B, M, S),
         NEW pw, ClientOK(C, pw), ServerOK(V, pw), NEW w, WireOK(w, pw), w # None, Fine(Parse(w), V, A, B, M, S),
         Mine(e, C, V).lastReply # None => Fine(Mine(e, C, V).lastReply, V, A, B, M, S)
  PROVE  LET r == Mine(e, C, V)
             o == Handled(e, r, w, Parse(w), eph + 1) IN
         EndLeads(e, C, V, eph, A, B, M, S, o.role, o.reply) /\ o.role.lastReply \in {r.lastReply, o.reply}
  <1> DEFINE r == Mine(e, C, V)
             f == Parse(w)
             h == IF e = "sender" THEN ClientHandles(r, f, "user", eph + 1)
                                  ELSE ServerHandles(r, f, [user |-> "good"], eph + 1)
             o == Handled(e, r, w, f, eph + 1)
  <1>1. f.kind \in Kinds /\ BodyOK(f.body, pw) BY ParsedOK
  <1>2. RoleOK(e, r, pw) BY DEF RoleOK, Mine
  <1>3. o = Recv(r, w, h) BY DEF Handled
  <1>4. /\ EndLeads(e, C, V, eph, A, B, M, S, h.role, h.reply) /\ OutcomeOK(e, h, pw)
        /\ h.err => h.role.lastReply = r.lastReply
    <2>1. CASE e = "sender"
      <3>1. h = ClientHandles(C, f, "user", eph + 1) BY <2>1 DEF Mine
      <3> HIDE DEF f, h
      <3>2. ClientLeads(C, V, eph, A, B, M, S, h) /\ OutcomeOK("sender", h, pw)
        BY <1>1, <3>1, ClientHandlesAgree, ClientHandlesOK DEF f
      <3>3. h.err => h.role.lastReply = C.lastReply BY <1>1, <3>1, ClientKeepsReply
      <3> QED BY <2>1, <3>2, <3>3 DEF Mine, ClientLeads, EndLeads
    <2>2. CASE e = "receiver"
      <3>1. h = ServerHandles(V, f, [user |-> "good"], eph + 1) BY <2>2 DEF Mine
      <3> HIDE DEF f, h
      <3>2. ServerLeads(C, V, eph, A, B, M, S, h) /\ OutcomeOK("receiver", h, pw)
        BY <1>1, <3>1, ServerHandlesAgree, ServerHandlesOK DEF f
      <3>3. h.err => h.role.lastReply = V.lastReply BY <1>1, <3>1, ServerKeepsReply
      <3> QED BY <2>2, <3>2, <3>3 DEF Mine, ServerLeads, EndLeads
    <2> QED BY <2>1, <2>2 DEF Ends
  <1> HIDE DEF h, o, r, f
  <1>5. CASE r.lastRx = w
    <2>1. o.role = r /\ o.reply = r.lastReply BY <1>3, <1>5 DEF Recv, Outcome
    <2>2. EndLeads(e, C, V, eph, A, B, M, S, r, r.lastReply)
      <3>1. ClientSame(C, C) /\ ServerSame(V, V) BY DEF ClientSame, ServerSame
      <3>2. r.lastReply # None => Fine(r.lastReply, V, A, B, M, S) BY DEF r
      <3>3. CASE e = "sender" BY <3>1, <3>2, <3>3, ClientIdles DEF EndLeads, r, Mine
      <3>4. CASE e = "receiver" BY <3>1, <3>2, <3>4, ServerIdles DEF EndLeads, r, Mine
      <3> QED BY <3>3, <3>4 DEF Ends
    <2>3. EndLeads(e, C, V, eph, A, B, M, S, o.role, o.reply) /\ o.role.lastReply \in {r.lastReply, o.reply}
      BY <2>1, <2>2
    <2> QED BY <2>3 DEF o, r, f
  <1>6. CASE r.lastRx # w /\ h.err
    <2>1. o = h BY <1>3, <1>6 DEF Recv
    <2>2. EndLeads(e, C, V, eph, A, B, M, S, o.role, o.reply) BY <1>4, <2>1
    <2>3. o.role.lastReply \in {r.lastReply, o.reply} BY <1>4, <1>6, <2>1
    <2> QED BY <2>2, <2>3 DEF o, r, f
  <1>7. CASE r.lastRx # w /\ ~h.err
    <2> DEFINE q == Cached(h.role, w, h.reply)
    <2>1. /\ q.state = h.role.state /\ q.session = h.role.session /\ Drawn(q, eph) = Drawn(h.role, eph)
          /\ q.lastReply = h.reply
          /\ e = "sender" => q.client = h.role.client
          /\ e = "receiver" => q.server = h.role.server /\ q.id = h.role.id /\ q.ver = h.role.ver
      BY <1>4, CachedAlike DEF OutcomeOK
    <2>2. o = [h EXCEPT !.role = q] BY <1>3, <1>7 DEF Recv, Cached
    <2> HIDE DEF q
    <2>3. o.role = q /\ o.reply = h.reply BY <1>4, <2>2 DEF OutcomeOK
    <2>4. EndLeads(e, C, V, eph, A, B, M, S, q, h.reply) BY <1>4, <2>1, CachedLeads
    <2>5. EndLeads(e, C, V, eph, A, B, M, S, o.role, o.reply) /\ o.role.lastReply \in {r.lastReply, o.reply}
      BY <2>1, <2>3, <2>4
    <2> QED BY <2>5 DEF o, r, f
  <1> QED BY <1>5, <1>6, <1>7

----------------------------------------------------------------------------
(* What a driver sends, W being the frames it may send                      *)

SaysOut(out, W) == \A i \in DOMAIN out : out[i].eap \in W
Says(x, W) == x.d.lastTx \in W /\ SaysOut(x.out, W)

StartWire == Encode(Frame("Start", 3, 0, None))
PushWire  == Encode(PassphrasePush(PushId))
Spoken(W) == {None, StartWire, PushWire} \subseteq W

\* The bundle x with the driver d and one more datagram.
Sent(x, d, m) == [x EXCEPT !.d = d, !.out = Append(x.out, m)]

LEMMA SendsSay ==
  ASSUME NEW e, NEW x, NEW pw, BundleOK(e, x, pw), NEW W, Says(x, W), NEW d, d.lastTx \in W, NEW m, m.eap \in W
  PROVE  Says(Sent(x, d, m), W) /\ Sent(x, d, m).r = x.r
  <1> DEFINE o == Append(x.out, m)
  <1>1. SaysOut(o, W)
    <2>1. IsSeq(x.out) BY DEF BundleOK, OutOK
    <2>2. \A i \in DOMAIN o : (i \in DOMAIN x.out /\ o[i] = x.out[i]) \/ o[i] = m BY <2>1, AppendIs
    <2> HIDE DEF o
    <2> QED BY <2>2 DEF Says, SaysOut
  <1> HIDE DEF o
  <1>2. LET y == [x EXCEPT !.d = d, !.out = o] IN Says(y, W) /\ y.r = x.r
    BY <1>1 DEF BundleOK, Says
  <1> QED BY <1>2 DEF o, Sent

LEMMA KeepsSay ==
  ASSUME NEW e, NEW x, NEW pw, BundleOK(e, x, pw), NEW W, Says(x, W), NEW d, d.lastTx \in W
  PROVE  LET y == [x EXCEPT !.d = d] IN Says(y, W) /\ y.r = x.r /\ y.d = d
  BY DEF BundleOK, Says

LEMMA GreetSays ==
  ASSUME NEW e, NEW x, NEW pw, BundleOK(e, x, pw), NEW W, Spoken(W), Says(x, W)
  PROVE  Says(Greet(x), W) /\ Greet(x).r = x.r
  <1> DEFINE d == [x.d EXCEPT !.greeted = TRUE]
             m == Beacon(x.d.sendKey)
             y == Sent(x, d, m)
  <1>1. d.lastTx \in W BY DEF BundleOK, DriverOK, Admits, DriverFields, Says
  <1>2. m.eap \in W BY DEF Beacon, Spoken
  <1>3. Greet(x) = y BY DEF Greet, Sent
  <1> HIDE DEF d, m
  <1>4. Says(y, W) /\ y.r = x.r BY <1>1, <1>2, SendsSay
  <1> QED BY <1>3, <1>4

\* The authenticatee may have opened.
MayOpen(e, r, q) == q = r \/ (e = "sender" /\ q = StartClient(r).role)

LEMMA StartsEapSays ==
  ASSUME NEW e \in Ends, NEW x, NEW pw, BundleOK(e, x, pw), NEW W, Spoken(W), Says(x, W)
  PROVE  Says(MaybeStartEap(e, x), W) /\ MayOpen(e, x.r, MaybeStartEap(e, x).r)
  <1>1. CASE x.d.started \/ x.d.peer = "none" \/ e = "receiver"
    BY <1>1 DEF MaybeStartEap, MayOpen
  <1>2. CASE ~(x.d.started \/ x.d.peer = "none" \/ e = "receiver")
    <2> DEFINE o == StartClient(x.r)
               w == Encode(o.reply)
               d == [x.d EXCEPT !.started = TRUE, !.lastTx = w, !.retx = 0]
               m == Eapol(w)
               z == [x EXCEPT !.r = o.role]
               y == Sent(z, d, m)
    <2>1. e = "sender" /\ ClientOK(x.r, pw)
      BY <1>2 DEF Ends, BundleOK, RoleOK
    <2>2. RoleOK(e, o.role, pw)
      BY <2>1, StartsOK DEF OutcomeOK
    <2>3. o.reply = Frame("Start", 3, 0, None) BY DEF StartClient, Outcome
    <2>4. w \in W BY <2>3 DEF Spoken, StartWire
    <2>5. m.eap \in W BY <2>4 DEF Eapol
    <2>7. MaybeStartEap(e, x) = y
      <3>1. MaybeStartEap(e, x) =
              [x EXCEPT !.r = o.role, !.out = Append(@, Eapol(w)),
                        !.d.started = TRUE, !.d.lastTx = w, !.d.retx = 0]
        BY <1>2 DEF MaybeStartEap
      <3>2. DOMAIN x = {"d", "r", "out"}
        BY DEF BundleOK
      <3> HIDE DEF m, o, w
      <3>3. [x EXCEPT !.r = o.role, !.out = Append(@, m),
                      !.d.started = TRUE, !.d.lastTx = w, !.d.retx = 0] = y
        BY <3>2 DEF Sent
      <3> QED BY <3>1, <3>3 DEF m
    <2> HIDE DEF o, w
    <2>8. d.lastTx \in W BY <2>4 DEF BundleOK, DriverOK, Admits, DriverFields
    <2>9. BundleOK(e, z, pw) /\ Says(z, W) /\ z.r = o.role
      BY <2>2 DEF BundleOK, Says
    <2> HIDE DEF d, m, z
    <2>10. Says(y, W) /\ y.r = z.r BY <2>5, <2>8, <2>9, SendsSay
    <2> QED BY <2>1, <2>7, <2>9, <2>10 DEF MayOpen, o
  <1> QED BY <1>1, <1>2

LEMMA LearnSays ==
  ASSUME NEW e \in Ends, NEW x, NEW src, NEW pw, BundleOK(e, x, pw), src # "none", ~Foreign(x.d, src),
         NEW W, Spoken(W), Says(x, W)
  PROVE  Says(Learn(e, x, src), W) /\ MayOpen(e, x.r, Learn(e, x, src).r)
  <1> DEFINE d == Observe(Adopts(x.d, src))
             y == [x EXCEPT !.d = d]
             z == IF y.d.greeted THEN y ELSE Greet(y)
  <1>1. DriverOK(d, pw) /\ d.lastTx \in W
    BY DEF BundleOK, DriverOK, Admits, DriverFields, Observe, Adopts, Foreign, SrpAuthed, Says
  <1>2. Learn(e, x, src) = MaybeStartEap(e, z)
    BY DEF Learn
  <1> HIDE DEF z
  <1> HIDE DEF d
  <1>3. BundleOK(e, y, pw) /\ y.d = d
    BY <1>1, BundleKeeps
  <1>4. Says(y, W) /\ y.r = x.r BY <1>1, KeepsSay, Zenon
  <1> HIDE DEF y
  <1>5. BundleOK(e, z, pw) /\ Says(z, W) /\ z.r = x.r
    BY <1>3, <1>4, GreetOK, GreetSays DEF z
  <1> HIDE DEF z
  <1> QED BY <1>2, <1>5, StartsEapSays

LEMMA FeedbackSays ==
  ASSUME NEW e, NEW x, NEW p, NEW pw, BundleOK(e, x, pw), NEW W, Says(x, W)
  PROVE  Says(Feedback(x, p), W) /\ Feedback(x, p).r = x.r
  <1> DEFINE d == [x.d EXCEPT !.cname = TRUE]
             y == [x EXCEPT !.d = d]
  <1>1. d.lastTx \in W
    BY DEF BundleOK, DriverOK, Admits, DriverFields, Says
  <1>2. [x EXCEPT !.d.cname = TRUE] = y
    OBVIOUS
  <1> HIDE DEF d
  <1>3. Says(y, W) /\ y.r = x.r BY <1>1, KeepsSay, Zenon
  <1> QED BY <1>2, <1>3 DEF Feedback

LEMMA OnAuthenticatedSays ==
  ASSUME NEW e, NEW x, NEW pw, BundleOK(e, x, pw), NEW W, Spoken(W), Says(x, W)
  PROVE  Says(OnAuthenticated(e, x), W) /\ OnAuthenticated(e, x).r = x.r
  <1> DEFINE s == IF e = "receiver" THEN x.r.session ELSE x.d.sendKey
             t == IF e = "sender" THEN x.r.session ELSE x.d.recvKey
             d == [x.d EXCEPT !.sendKey = s, !.recvKey = t]
             m == Eapol(Encode(PassphrasePush(PushId)))
             y == Sent(x, d, m)
  <1>1. m.eap \in W BY DEF Eapol, Spoken, PushWire
  <1>2. OnAuthenticated(e, x) = y
    <2> HIDE DEF m
    <2>1. DOMAIN x = {"d", "r", "out"} /\ DOMAIN x.d = DriverFields
      BY DEF BundleOK, DriverOK, Admits
    <2>2. OnAuthenticated(e, x) =
            [x EXCEPT !.d.sendKey = s, !.d.recvKey = t, !.out = Append(@, m)]
      BY <2>1 DEF OnAuthenticated, m, DriverFields
    <2> HIDE DEF s, t
    <2>3. [x EXCEPT !.d.sendKey = s, !.d.recvKey = t, !.out = Append(@, m)] = y
      BY <2>1 DEF Sent
    <2> QED BY <2>2, <2>3
  <1> HIDE DEF s, t
  <1>3. d.lastTx \in W
    BY DEF BundleOK, DriverOK, Admits, DriverFields, Says
  <1> HIDE DEF d, m
  <1>4. Says(y, W) /\ y.r = x.r
    BY <1>1, <1>3, SendsSay
  <1> QED BY <1>2, <1>4

LEMMA SucceedsSays ==
  ASSUME NEW e, NEW b, NEW x, NEW src, NEW pw, DriverOK(b, pw), b.ever => b.peer = src,
         DOMAIN x = {"d", "r", "out"}, RoleOK(e, x.r, pw), OutOK(x.out, pw),
         DOMAIN x.d = DriverFields, WireOK(x.d.lastTx, pw), x.d.admitted = b.admitted, x.d.ever = b.ever,
         x.d.moved = b.moved, x.d.peer = b.peer, x.d.proven = b.proven,
         NEW W, Spoken(W), Says(x, W)
  PROVE  Says(Succeeds(e, x, b.authed, src), W) /\ Succeeds(e, x, b.authed, src).r = x.r
  <1> DEFINE d == MarkSuccess(x.d, b.authed, src)
             y == [x EXCEPT !.d = d]
  <1>1. DriverOK(d, pw) /\ d.lastTx = x.d.lastTx
    <2>1. DriverOK(d, pw) BY MarkOK
    <2> QED BY <2>1 DEF MarkSuccess, DriverFields
  <1>2. y = [x EXCEPT !.d = MarkSuccess(@, b.authed, src)]
    OBVIOUS
  <1> HIDE DEF d
  <1>3. BundleOK(e, y, pw) /\ y.d = d /\ Says(y, W) /\ y.r = x.r
    BY <1>1 DEF BundleOK, Says
  <1> HIDE DEF y
  <1>4. Succeeds(e, x, b.authed, src) =
          IF Rejected(e, x.d) THEN [y EXCEPT !.d.authed = FALSE, !.d.open = "auth"]
          ELSE IF b.authed \/ HasPsk(x.d) THEN y ELSE OnAuthenticated(e, y)
    BY <1>2 DEF Succeeds
  <1> DEFINE u == [y EXCEPT !.d.authed = FALSE, !.d.open = "auth"]
  <1>5. Says(u, W) /\ u.r = y.r
    <2> DEFINE c == [d EXCEPT !.authed = FALSE, !.open = "auth"]
               v == [y EXCEPT !.d = c]
    <2>1. c.lastTx \in W
      BY <1>1 DEF DriverOK, Admits, DriverFields, Says
    <2>2. u = v
      BY <1>3 DEF BundleOK
    <2> HIDE DEF c, u
    <2>3. Says(v, W) /\ v.r = y.r BY <1>3, <2>1 DEF BundleOK, Says
    <2> QED BY <2>2, <2>3
  <1>6. Says(OnAuthenticated(e, y), W) /\ OnAuthenticated(e, y).r = y.r
    BY <1>3, OnAuthenticatedSays
  <1> HIDE DEF u
  <1> QED BY <1>3, <1>4, <1>5, <1>6 DEF u

LEMMA HandleEapSays ==
  ASSUME NEW e, NEW x, NEW src, NEW o, NEW pw, BundleOK(e, x, pw), OutcomeOK(e, o, pw),
         x.d.ever => x.d.peer = src,
         NEW W, Spoken(W), Says(x, W), o.reply # None => Encode(o.reply) \in W
  PROVE  Says(HandleEap(e, x, src, o), W) /\ HandleEap(e, x, src, o).r = o.role
  <1> DEFINE d == Replied(x.d, o)
             t == x.out \o (IF o.reply = None THEN <<>> ELSE <<Eapol(Encode(o.reply))>>)
             y == Bundle(d, o.role, t)
  <1>0. DriverOK(x.d, pw) /\ OutOK(x.out, pw) /\ RoleOK(e, o.role, pw) /\ FrameOK(o.reply, pw)
    BY DEF BundleOK, OutcomeOK
  <1>1. /\ DOMAIN d = DriverFields /\ WireOK(d.lastTx, pw)
        /\ d.admitted = x.d.admitted /\ d.ever = x.d.ever /\ d.moved = x.d.moved /\ d.peer = x.d.peer
        /\ d.proven = x.d.proven /\ d.authed = Authenticated(o.role)
    BY <1>0, RepliedOK
  <1>a. d.lastTx \in W
    <2> DEFINE l == IF o.reply = None THEN x.d.lastTx ELSE Encode(o.reply)
               a == Authenticated(o.role)
    <2>1. l \in W BY DEF Says
    <2>2. d = [x.d EXCEPT !.retx = 0, !.authed = a, !.lastTx = l]
      BY <1>0 DEF Replied, DriverOK, Admits, DriverFields
    <2> HIDE DEF l, a, d
    <2>3. d.lastTx = l BY <1>0, <2>2 DEF DriverOK, Admits, DriverFields
    <2> QED BY <2>1, <2>3
  <1>2. OutOK(t, pw) /\ SaysOut(t, W)
    <2>1. CASE o.reply = None
      <3>1. x.out \in Seq(Elements(x.out))
        BY <1>0 DEF OutOK, IsSeq
      <3>2. x.out \o <<>> = x.out
        BY ONLY <3>1, ConcatEmptySeq
      <3> QED BY <1>0, <2>1, <3>2 DEF Says
    <2>2. CASE o.reply # None
      <3> DEFINE m == Eapol(Encode(o.reply))
                 q == <<m>>
      <3>1. WireOK(m.eap, pw) /\ m.eap \in W
        BY <1>0, <2>2, EncodedOK, FramesSent DEF Eapol
      <3> HIDE DEF m
      <3>2. IsSeq(q) /\ DOMAIN q = {1} /\ q[1] = m
        BY SingleIs
      <3> DEFINE v == x.out
                 u == v \o q
      <3>3. IsSeq(v) /\ \A i \in DOMAIN v : WireOK(v[i].eap, pw) /\ v[i].eap \in W
        BY <1>0 DEF OutOK, Says, SaysOut
      <3>4. u = t
        BY <2>2 DEF m
      <3> HIDE DEF q, u, v
      <3>5. IsSeq(u) /\ Elements(u) \subseteq Elements(v) \cup Elements(q)
        BY ONLY <3>2, <3>3, ConcatIs, Zenon DEF u
      <3>6. OutOK(u, pw) /\ SaysOut(u, W)
        BY <3>1, <3>2, <3>3, <3>5 DEF OutOK, SaysOut, Elements
      <3> QED BY <3>4, <3>6
    <2> QED BY <2>1, <2>2
  <1>3. HandleEap(e, x, src, o) =
          IF Authenticated(o.role) THEN Succeeds(e, y, x.d.authed, src)
          ELSE IF d.ever /\ (Failed(o.role) \/ x.d.authed) THEN [y EXCEPT !.d = HoldForReauth(d)]
          ELSE y
    BY DEF HandleEap
  <1> HIDE DEF d, t
  <1>4. DOMAIN y = {"d", "r", "out"} /\ y.d = d /\ y.r = o.role /\ y.out = t
    BY DEF Bundle
  <1> HIDE DEF y
  <1>b. Says(y, W) BY <1>a, <1>2, <1>4 DEF Says
  <1>5. CASE Authenticated(o.role)
    <2>1. Says(Succeeds(e, y, x.d.authed, src), W) /\ Succeeds(e, y, x.d.authed, src).r = y.r
      BY <1>0, <1>1, <1>2, <1>4, <1>b, SucceedsSays
    <2> QED BY <1>3, <1>4, <1>5, <2>1
  <1>6. CASE ~Authenticated(o.role)
    <2> DEFINE c == HoldForReauth(d)
               z == [y EXCEPT !.d = c]
    <2>1. c.lastTx = d.lastTx
      BY <1>1 DEF HoldForReauth, DriverFields
    <2> HIDE DEF c
    <2>2. Says(z, W) /\ z.r = y.r BY <1>4, <1>a, <1>b, <2>1 DEF Says
    <2>3. HandleEap(e, x, src, o) \in {y, z} BY <1>3, <1>6 DEF c
    <2> HIDE DEF z
    <2> QED BY <1>4, <1>b, <2>2, <2>3
  <1> QED BY <1>5, <1>6

\* The handshake that a migrated peer's proof starts.
Anew(e, r) == IF e = "sender" THEN StartClient(RestartClient(r)) ELSE StartServer(RestartServer(r))

LEMMA ReassociateSays ==
  ASSUME NEW e \in Ends, NEW x, NEW src, NEW p, NEW pw, BundleOK(e, x, pw), src # "none", Foreign(x.d, src),
         NEW W, Spoken(W), Says(x, W), Encode(Anew(e, x.r).reply) \in W
  PROVE  LET z == MaybeReassociate(e, x, src, p) IN
         z = x \/ (Says(z, W) /\ z.r = Anew(e, x.r).role)
  <1> DEFINE o == Anew(e, x.r)
             w == Encode(o.reply)
             c == Migrate(x.d, src)
             d == [c EXCEPT !.lastTx = w, !.retx = 0]
             m == Eapol(w)
             z == Reassociate(e, x, src)
  <1>1. z = Bundle(d, o.role, <<m>>)
    BY DEF Reassociate, Anew
  <1>2. m.eap = w BY DEF Eapol
  <1> HIDE DEF o, w
  <1>3. DOMAIN c = DriverFields
    BY DEF BundleOK, DriverOK, Admits, DriverFields, Migrate
  <1> HIDE DEF c, z
  <1>4. d.lastTx = w BY <1>3 DEF DriverFields
  <1> HIDE DEF d, m
  <1> DEFINE q == <<m>>
  <1>5. DOMAIN q = {1} /\ q[1] = m BY SingleIs
  <1>6. z.d = d /\ z.r = o.role /\ z.out = q BY <1>1 DEF Bundle
  <1> HIDE DEF q
  <1>7. w \in W BY DEF w, o
  <1>8. Says(z, W) /\ z.r = o.role BY <1>2, <1>4, <1>5, <1>6, <1>7 DEF Says, SaysOut
  <1>9. MaybeReassociate(e, x, src, p) \in {x, z} BY DEF MaybeReassociate, z
  <1> QED BY <1>8, <1>9 DEF o

LEMMA CloseSays ==
  ASSUME NEW e, NEW x, NEW pw, BundleOK(e, x, pw), NEW W, Says(x, W), NEW why
  PROVE  Says(Close(x, why), W) /\ Close(x, why).r = x.r
  <1> DEFINE d == [x.d EXCEPT !.open = why]
             y == [x EXCEPT !.d = d]
  <1>1. d.lastTx \in W BY DEF BundleOK, DriverOK, Admits, DriverFields, Says
  <1>2. Close(x, why) = y BY DEF Close
  <1> HIDE DEF d
  <1>3. Says(y, W) /\ y.r = x.r BY <1>1 DEF BundleOK, Says
  <1> QED BY <1>2, <1>3

LEMMA ResendSays ==
  ASSUME NEW e, NEW x, NEW pw, BundleOK(e, x, pw), NEW W, Says(x, W)
  PROVE  Says(Resend(x), W) /\ Resend(x).r = x.r
  <1> DEFINE n == x.d.retx + 1
             d == [x.d EXCEPT !.retx = n]
             m == Eapol(x.d.lastTx)
             y == Sent(x, d, m)
             c == Close(x, "auth")
  <1>1. m.eap \in W BY DEF Eapol, Says
  <1>2. [x EXCEPT !.d.retx = @ + 1, !.out = Append(@, Eapol(x.d.lastTx))] = y
    <2> HIDE DEF m
    <2>1. [x EXCEPT !.d.retx = @ + 1, !.out = Append(@, m)] = y
      BY DEF BundleOK, DriverOK, Admits, DriverFields, Sent
    <2> QED BY <2>1 DEF m
  <1> HIDE DEF n
  <1>3. d.lastTx \in W BY DEF BundleOK, DriverOK, Admits, DriverFields, Says
  <1> HIDE DEF d, m
  <1>4. Says(y, W) /\ y.r = x.r BY <1>1, <1>3, SendsSay
  <1>5. Says(c, W) /\ c.r = x.r BY CloseSays
  <1>6. Resend(x) \in {x, y, c} BY <1>2 DEF Resend
  <1> HIDE DEF c, y
  <1> QED BY <1>4, <1>5, <1>6

LEMMA AnnounceSays ==
  ASSUME NEW e, NEW x, NEW pw, BundleOK(e, x, pw), NEW W, Spoken(W), Says(x, W)
  PROVE  Says(Announce(x), W) /\ Announce(x).r = x.r
  <1> DEFINE d == x.d
             m == Beacon(x.d.sendKey)
             y == Sent(x, d, m)
  <1>1. m.eap \in W /\ d.lastTx \in W BY DEF Beacon, Spoken, Says
  <1>2. [x EXCEPT !.out = Append(@, m)] = y
    BY DEF BundleOK, Sent
  <1>3. Announce(x) \in {x, y} BY <1>2 DEF Announce
  <1> HIDE DEF d, m
  <1>4. Says(y, W) /\ y.r = x.r BY <1>1, SendsSay
  <1> HIDE DEF y
  <1> QED BY <1>3, <1>4

LEMMA OnKeepaliveSays ==
  ASSUME NEW e, NEW x, NEW pw, BundleOK(e, x, pw), NEW W, Spoken(W), Says(x, W)
  PROVE  Says(OnKeepalive(x), W) /\ OnKeepalive(x).r = x.r
  <1> DEFINE a == Close(x, "auth")
             t == Close(x, "timeout")
             y == Resend(x)
             z == Announce(y)
  <1>1. Says(a, W) /\ a.r = x.r /\ Says(t, W) /\ t.r = x.r BY CloseSays
  <1>2. BundleOK(e, y, pw) /\ Says(y, W) /\ y.r = x.r BY ResendOK, ResendSays
  <1>3. OnKeepalive(x) \in {a, t, z} BY DEF OnKeepalive
  <1> HIDE DEF y
  <1>4. Says(z, W) /\ z.r = y.r BY <1>2, AnnounceSays
  <1> HIDE DEF a, t, z
  <1> QED BY <1>1, <1>2, <1>3, <1>4

LEMMA OpenedSays ==
  ASSUME NEW e \in Ends, NEW peer, NEW key, NEW r, NEW pw, RoleOK(e, r, pw), NEW W, Spoken(W)
  PROVE  Says(Opened(e, peer, key, r), W) /\ MayOpen(e, r, Opened(e, peer, key, r).r)
  <1> DEFINE n == NewDriver(peer, key)
             x == Bundle(n, r, <<>>)
             d == [n EXCEPT !.greeted = TRUE]
             y == [x EXCEPT !.d = d]
  <1>1. DriverOK(n, pw) /\ n.lastTx \in W
    BY NoFrameOK DEF NewDriver, DriverOK, Admits, DriverFields, Spoken
  <1>2. OutOK(<<>>, pw) /\ SaysOut(<<>>, W)
    <2>1. DOMAIN <<>> = {} OBVIOUS
    <2> QED BY <2>1, EmptyIs DEF OutOK, SaysOut
  <1> HIDE DEF n
  <1>3. BundleOK(e, x, pw) /\ x.d = n /\ Says(x, W) /\ x.r = r
    BY <1>1, <1>2, BundlesOK DEF Bundle, Says
  <1>4. DriverOK(d, pw) /\ d.lastTx \in W
    BY <1>1 DEF DriverOK, Admits, DriverFields
  <1>5. [x EXCEPT !.d.greeted = TRUE] = y
    BY <1>3 DEF BundleOK
  <1> DEFINE g == Greet(x)
             z == IF peer = "none" THEN y ELSE g
             u == MaybeStartEap(e, z)
  <1>6. Opened(e, peer, key, r) = IF e = "sender" \/ peer # "none" THEN u ELSE x
    BY <1>5 DEF Opened, n
  <1> HIDE DEF x, d
  <1>7. BundleOK(e, y, pw) /\ BundleOK(e, g, pw)
    BY <1>3, <1>4, BundleKeeps, GreetOK
  <1>8. Says(y, W) /\ y.r = r BY <1>3, <1>4 DEF BundleOK, Says
  <1>9. Says(g, W) /\ g.r = r BY <1>3, GreetSays
  <1> HIDE DEF y, g
  <1>10. BundleOK(e, z, pw) /\ Says(z, W) /\ z.r = r
    BY <1>7, <1>8, <1>9
  <1> HIDE DEF z
  <1>11. Says(u, W) /\ MayOpen(e, z.r, u.r) BY <1>10, StartsEapSays
  <1> HIDE DEF u
  <1> QED BY <1>3, <1>6, <1>10, <1>11 DEF MayOpen

\* A datagram leads end e to a role q and a reply f: nothing of the handshake
\* changed; or the handshake started anew; or the frame was handled.
Met(e, r, w, q, f) ==
  \/ f = None /\ MayOpen(e, r, q)
  \/ q = Anew(e, r).role /\ f = Anew(e, r).reply
  \/ /\ w # None
     /\ \E s : MayOpen(e, r, s) /\ RoleOK(e, s, Password) /\ LET o == Handled(e, s, w, Parse(w), eph + 1) IN q = o.role /\ f = o.reply

LEMMA OnRecvSays ==
  ASSUME NEW e \in Ends, NEW x, NEW src, NEW p, BundleOK(e, x, Password), src # "none", WireOK(p.eap, Password),
         NEW z \in OnRecv(e, x, src, p), NEW W, Spoken(W), Says(x, W)
  PROVE  \E f : Met(e, x.r, p.eap, z.r, f) /\ Says(z, W \cup OnWire(f))
  <1> DEFINE pw == Password
  <1> HIDE DEF pw
  <1>0. BundleOK(e, x, pw) /\ WireOK(p.eap, pw) BY DEF pw
  <1>1. CASE Foreign(x.d, src)
    <2> DEFINE f == Anew(e, x.r).reply
               W2 == W \cup OnWire(f)
    <2>1. z = MaybeReassociate(e, x, src, p)
      BY <1>1 DEF OnRecv
    <2>2. f # None BY FrameNotNone DEF Anew, StartClient, StartServer, Outcome
    <2>3. Encode(f) \in W2 BY <2>2 DEF OnWire
    <2>4. Spoken(W2) /\ Says(x, W2) BY DEF Spoken, Says, SaysOut
    <2> HIDE DEF W2
    <2>5. z = x \/ (Says(z, W2) /\ z.r = Anew(e, x.r).role)
      BY <1>0, <1>1, <2>1, <2>3, <2>4, ReassociateSays
    <2>6. CASE z = x
      <3>1. Met(e, x.r, p.eap, z.r, None) BY <2>6 DEF Met, MayOpen
      <3>2. Says(z, W \cup OnWire(None)) BY <2>6 DEF Says, SaysOut
      <3> QED BY <3>1, <3>2
    <2>7. CASE Says(z, W2) /\ z.r = Anew(e, x.r).role
      <3>1. Met(e, x.r, p.eap, z.r, f) BY <2>7 DEF Met
      <3> QED BY <2>7, <3>1 DEF W2
    <2> QED BY <2>5, <2>6, <2>7
  <1>2. CASE ~Foreign(x.d, src)
    <2> DEFINE y == Learn(e, x, src)
               o == Handled(e, y.r, p.eap, Parse(p.eap), eph + 1)
    <2>1. BundleOK(e, y, pw) /\ (y.d.ever => y.d.peer = src)
      BY <1>0, <1>2, LearnOK
    <2>2. z = IF p.eap = None THEN Feedback(y, p) ELSE HandleEap(e, y, src, o)
      BY <1>2 DEF OnRecv
    <2>3. Says(y, W) /\ MayOpen(e, x.r, y.r) BY <1>0, <1>2, LearnSays
    <2> HIDE DEF y
    <2>4. CASE p.eap = None
      <3>1. Says(z, W) /\ z.r = y.r BY <2>1, <2>2, <2>3, <2>4, FeedbackSays
      <3>2. Met(e, x.r, p.eap, z.r, None) BY <2>3, <3>1 DEF Met
      <3>3. Says(z, W \cup OnWire(None)) BY <3>1 DEF Says, SaysOut
      <3> QED BY <3>2, <3>3
    <2>5. CASE p.eap # None
      <3> DEFINE f == o.reply
                 W2 == W \cup OnWire(f)
      <3>1. OutcomeOK(e, o, pw)
        BY <1>0, <2>1, <2>5, HandledOK DEF BundleOK
      <3>a. RoleOK(e, y.r, Password) BY <2>1 DEF BundleOK, pw
      <3>2. Met(e, x.r, p.eap, o.role, f) BY <2>3, <2>5, <3>a DEF Met
      <3> HIDE DEF o
      <3>3. f # None => Encode(f) \in W2 BY DEF OnWire
      <3>4. Spoken(W2) /\ Says(y, W2) BY <2>3 DEF Spoken, Says, SaysOut
      <3> HIDE DEF W2
      <3>5. Says(z, W2) /\ z.r = o.role
        BY <2>1, <2>2, <2>5, <3>1, <3>3, <3>4, HandleEapSays
      <3> QED BY <3>2, <3>5 DEF W2
    <2> QED BY <2>4, <2>5
  <1> QED BY <1>1, <1>2

LEMMA AnewAgrees ==
  ASSUME NEW e \in Ends, NEW C, NEW V, NEW A, NEW B, NEW M, NEW S, Agrees(C, V, eph, A, B, M, S),
         NEW pw, ClientOK(C, pw), ServerOK(V, pw)
  PROVE  LET o == Anew(e, Mine(e, C, V)) IN
         EndLeads(e, C, V, eph, A, B, M, S, o.role, o.reply) /\ o.role.lastReply = None /\ OutcomeOK(e, o, pw)
  <1> DEFINE o == Anew(e, Mine(e, C, V))
  <1>1. CASE e = "sender"
    <2> DEFINE R == RestartClient(C)
               q == [R EXCEPT !.state = "InProgress"]
               g == Frame("Start", 3, 0, None)
    <2>1. /\ R.client = None /\ R.state = "Unauth" /\ R.lastReply = None
          /\ DOMAIN R = ClientFields
      BY DEF RestartClient, NewAuthenticatee, ClientFields
    <2>2. o = StartClient(R) BY <1>1 DEF Anew, Mine
    <2>3. ClientOK(R, pw) BY RestartsOK
    <2>4. OutcomeOK(e, o, pw) BY <1>1, <2>2, <2>3, StartsOK
    <2> HIDE DEF R
    <2>5. q.client = None /\ q.state # "Success" /\ q.lastReply = None BY <2>1 DEF ClientFields
    <2>6. o.role = q /\ o.reply = g BY <2>1, <2>2 DEF StartClient, Outcome
    <2>7. Fine(g, V, A, B, M, S)
      <3>1. g.kind \in Plain BY FrameFields DEF Plain
      <3> QED BY <3>1, PlainFine
    <2> HIDE DEF q, g, o
    <2>8. ClientLeads(C, V, eph, A, B, M, S, o)
      <3>1. Carries(V, V, A, B, M, S, A, B, M, S) BY DEF Carries
      <3>2. ClientAgrees(q, A, M, S) BY <2>5 DEF ClientAgrees
      <3>3. Agrees(q, V, Drawn(q, eph), A, B, M, S) BY <3>2, KeysDrawn DEF Agrees
      <3>4. Leads(V, A, B, M, S, q, V, Drawn(q, eph), g) BY <2>7, <3>1, <3>3, Zenon DEF Leads
      <3> QED BY <2>6, <3>4 DEF ClientLeads
    <2>9. EndLeads(e, C, V, eph, A, B, M, S, o.role, o.reply) BY <1>1, <2>8 DEF EndLeads, ClientLeads
    <2> QED BY <2>4, <2>5, <2>6, <2>9 DEF o
  <1>2. CASE e = "receiver"
    <2> DEFINE R == RestartServer(V)
    <2>1. o = StartServer(R) BY <1>2 DEF Anew, Mine
    <2>2. ServerOK(R, pw) BY RestartsOK
    <2>3. R.lastReply = None
      <3> DEFINE N == NewAuthenticator(V.ver, V.useKey, NextId(V.id))
      <3>1. DOMAIN N = ServerFields /\ N.lastReply = None
        BY DEF NewAuthenticator, ServerFields
      <3> HIDE DEF N
      <3>2. R = [N EXCEPT !.everAuthed = V.everAuthed, !.pw = V.pw] BY DEF RestartServer, N
      <3> QED BY <3>1, <3>2 DEF ServerFields
    <2>4. ServerLeads(C, V, eph, A, B, M, S, StartServer(R)) BY OpensAgree
    <2> HIDE DEF R
    <2>5. OutcomeOK(e, o, pw) BY <1>2, <2>1, <2>2, StartsOK
    <2>6. o.role.lastReply = None BY <2>1, <2>2, <2>3 DEF StartServer, Outcome, ServerOK, ServerFields
    <2> HIDE DEF o
    <2>7. EndLeads(e, C, V, eph, A, B, M, S, o.role, o.reply) BY <1>2, <2>1, <2>4 DEF EndLeads, ServerLeads
    <2> QED BY <2>5, <2>6, <2>7 DEF o
  <1> QED BY <1>1, <1>2 DEF Ends

LEMMA MayOpenSame ==
  ASSUME NEW C, NEW pw, ClientOK(C, pw), NEW q, MayOpen("sender", C, q)
  PROVE  ClientSame(C, q) /\ q.lastReply = C.lastReply
  <1>1. CASE q = C BY <1>1 DEF ClientSame
  <1>2. CASE q = StartClient(C).role
    <2>1. q = IF C.state = "Unauth" THEN [C EXCEPT !.state = "InProgress"] ELSE C
      BY <1>2 DEF StartClient, Outcome
    <2> QED BY <2>1 DEF ClientOK, ClientFields, ClientSame
  <1> QED BY <1>1, <1>2 DEF MayOpen

LEMMA MetAgrees ==
  ASSUME NEW e \in Ends, NEW C, NEW V, NEW A, NEW B, NEW M, NEW S, Agrees(C, V, eph, A, B, M, S),
         ClientOK(C, Password), ServerOK(V, Password), NEW w, WireOK(w, Password),
         w # None => Fine(Parse(w), V, A, B, M, S),
         Mine(e, C, V).lastReply # None => Fine(Mine(e, C, V).lastReply, V, A, B, M, S),
         NEW q, NEW f, Met(e, Mine(e, C, V), w, q, f)
  PROVE  /\ EndLeads(e, C, V, eph, A, B, M, S, q, f) /\ FrameOK(f, Password)
         /\ q.lastReply \in {Mine(e, C, V).lastReply, f, None}
  <1> DEFINE r == Mine(e, C, V)
  <1>0. (e = "sender" => r = C) /\ (e = "receiver" => r = V) BY DEF Mine
  <1> HIDE DEF r
  <1>1. CASE f = None /\ MayOpen(e, r, q)
    <2>1. CASE e = "sender"
      <3>1. ClientSame(C, q) /\ q.lastReply = C.lastReply BY <1>0, <1>1, <2>1, MayOpenSame
      <3>2. Leads(V, A, B, M, S, q, V, Drawn(q, eph), f) BY <1>1, <3>1, ClientIdles
      <3> QED BY <1>0, <1>1, <2>1, <3>1, <3>2, NoFrameOK DEF EndLeads, r
    <2>2. CASE e = "receiver"
      <3>1. q = V BY <1>0, <1>1, <2>2 DEF MayOpen
      <3>2. ServerSame(V, V) BY DEF ServerSame
      <3>3. Leads(V, A, B, M, S, C, q, Drawn(q, eph), f) BY <1>1, <3>1, <3>2, ServerIdles
      <3> QED BY <1>0, <1>1, <2>2, <3>1, <3>3, NoFrameOK DEF EndLeads, r
    <2> QED BY <2>1, <2>2 DEF Ends
  <1>2. CASE q = Anew(e, r).role /\ f = Anew(e, r).reply
    <2> DEFINE o == Anew(e, r)
    <2>1. EndLeads(e, C, V, eph, A, B, M, S, o.role, o.reply) /\ o.role.lastReply = None /\ OutcomeOK(e, o, Password)
      BY AnewAgrees DEF r
    <2> HIDE DEF o
    <2>2. q = o.role /\ f = o.reply BY <1>2 DEF o
    <2> QED BY <2>1, <2>2 DEF OutcomeOK
  <1>3. ASSUME w # None, NEW s, MayOpen(e, r, s), RoleOK(e, s, Password),
               LET o == Handled(e, s, w, Parse(w), eph + 1) IN q = o.role /\ f = o.reply
        PROVE  /\ EndLeads(e, C, V, eph, A, B, M, S, q, f) /\ FrameOK(f, Password)
               /\ q.lastReply \in {r.lastReply, f, None}
    <2> DEFINE o == Handled(e, s, w, Parse(w), eph + 1)
    <2>0. OutcomeOK(e, o, Password) BY <1>3, HandledOK
    <2>1. q = o.role /\ f = o.reply BY <1>3
    <2>2. FrameOK(f, Password) BY <2>0, <2>1 DEF OutcomeOK
    <2>3. CASE e = "sender"
      <3>1. ClientSame(C, s) /\ s.lastReply = C.lastReply BY <1>0, <1>3, <2>3, MayOpenSame
      <3>2. Agrees(s, V, eph, A, B, M, S) BY <3>1, ClientStays DEF Agrees
      <3>3. Mine(e, s, V) = s BY <2>3 DEF Mine
      <3>4. ClientOK(s, Password) BY <1>3, <2>3 DEF RoleOK
      <3>5. s.lastReply # None => Fine(s.lastReply, V, A, B, M, S) BY <1>0, <2>3, <3>1 DEF r
      <3>6. EndLeads(e, s, V, eph, A, B, M, S, o.role, o.reply) /\ o.role.lastReply \in {s.lastReply, o.reply}
        BY <1>3, <3>2, <3>3, <3>4, <3>5, HandledAgrees
      <3> HIDE DEF o
      <3>7. EndLeads(e, s, V, eph, A, B, M, S, q, f) BY <2>1, <3>6
      <3>8. EndLeads(e, C, V, eph, A, B, M, S, q, f) BY <2>3, <3>7 DEF EndLeads
      <3> QED BY <1>0, <2>1, <2>2, <2>3, <3>1, <3>6, <3>8
    <2>4. CASE e = "receiver"
      <3>1. s = V BY <1>0, <1>3, <2>4 DEF MayOpen
      <3>2. Mine(e, C, V) = s BY <2>4, <3>1 DEF Mine
      <3>3. EndLeads(e, C, V, eph, A, B, M, S, o.role, o.reply) /\ o.role.lastReply \in {s.lastReply, o.reply}
        BY <1>3, <3>2, HandledAgrees
      <3> HIDE DEF o
      <3> QED BY <1>0, <2>1, <2>2, <2>4, <3>1, <3>3
    <2> QED BY <2>3, <2>4 DEF Ends
  <1>4. Met(e, r, w, q, f) BY DEF r
  <1>5. CASE w # None /\ \E s : MayOpen(e, r, s) /\ RoleOK(e, s, Password)
                                /\ LET o == Handled(e, s, w, Parse(w), eph + 1) IN q = o.role /\ f = o.reply
    BY <1>3, <1>5 DEF r
  <1> QED BY <1>1, <1>2, <1>4, <1>5 DEF Met, r

----------------------------------------------------------------------------
(* The network                                                              *)

QueueSays(q, W) == Queued(q) \subseteq W

KeptIn(old, new, d, r, W) ==
  /\ \A m \in old : m.data.eap \in W
  /\ \A e \in Ends : QueueSays(new[e], W) /\ d[e].lastTx \in W /\ OnWire(r[e].lastReply) \subseteq W

LEMMA KeptIs ==
  ASSUME NEW old, NEW new, NEW d, NEW r, NEW W
  PROVE  /\ KeptIn(old, new, d, r, Kept(old, new, d, r))
         /\ KeptIn(old, new, d, r, W) => Kept(old, new, d, r) \subseteq W
  <1> DEFINE K == Kept(old, new, d, r)
             P == Copies(old)
             Q == Underway(new)
             L == LastSent(d)
             R == Replies(r)
  <1>0. K = P \cup Q \cup L \cup R BY DEF Kept
  <1>1. \A m \in old : m.data.eap \in P BY DEF Copies
  <1>2. \A e \in Ends : Queued(new[e]) \subseteq Q BY DEF Underway
  <1>3. \A e \in Ends : d[e].lastTx \in L BY DEF LastSent
  <1>4. \A e \in Ends : OnWire(r[e].lastReply) \subseteq R BY DEF Replies
  <1>5. ASSUME KeptIn(old, new, d, r, W)
        PROVE  P \subseteq W /\ Q \subseteq W /\ L \subseteq W /\ R \subseteq W
    <2>1. P \subseteq W BY <1>5 DEF KeptIn, Copies
    <2>2. Q \subseteq W BY <1>5 DEF KeptIn, QueueSays, Underway
    <2>3. L \subseteq W BY <1>5 DEF KeptIn, LastSent
    <2>4. R \subseteq W BY <1>5 DEF KeptIn, Replies
    <2> QED BY <2>1, <2>2, <2>3, <2>4
  <1> HIDE DEF K, P, Q, L, R
  <1>6. KeptIn(old, new, d, r, K)
    <2>1. P \subseteq K /\ Q \subseteq K /\ L \subseteq K /\ R \subseteq K BY <1>0
    <2>2. \A e \in Ends : Queued(new[e]) \subseteq K BY <1>2, <2>1
    <2>3. \A e \in Ends : OnWire(r[e].lastReply) \subseteq K BY <1>4, <2>1
    <2> QED BY <1>1, <1>3, <2>1, <2>2, <2>3 DEF KeptIn, QueueSays
  <1> QED BY <1>0, <1>5, <1>6 DEF K

\* What an end may say without a reply.
Sayable == OnNet \cup {None, StartWire, PushWire}

LEMMA PlainWires ==
  ASSUME NEW V, NEW A, NEW B, NEW M, NEW S
  PROVE  Fine(Parse(StartWire), V, A, B, M, S) /\ Fine(Parse(PushWire), V, A, B, M, S)
  <1> DEFINE f == Frame("Start", 3, 0, None)
             g == PassphrasePush(PushId)
  <1>1. f.kind = "Start" /\ g.kind = "PassphraseResponse" BY FrameFields DEF PassphrasePush
  <1> HIDE DEF f, g
  <1>2. Parse(Encode(f)).kind \in Plain /\ Parse(Encode(g)).kind \in Plain
    BY <1>1, ParsedEncoded, AllKinds DEF Plain
  <1> QED BY <1>2, PlainFine DEF StartWire, PushWire, f, g

LEMMA EncodedNotNone ==
  ASSUME NEW f
  PROVE  Encode(f) # None
  <1>1. "method" \in DOMAIN Encode(f) /\ "method" \notin DOMAIN None BY DEF Encode, None
  <1> QED BY <1>1

LEMMA FineEncoded ==
  ASSUME NEW f, f.kind \in Kinds, NEW V, NEW A, NEW B, NEW M, NEW S
  PROVE  Fine(Parse(Encode(f)), V, A, B, M, S) <=> Fine(f, V, A, B, M, S)
  <1> DEFINE g == Parse(Encode(f))
  <1>1. g.kind = f.kind /\ g.id = f.id /\ g.body = f.body BY ParsedEncoded
  <1> HIDE DEF g
  <1>2. Fine(g, V, A, B, M, S) <=> Fine(f, V, A, B, M, S) BY <1>1, FineSame
  <1> QED BY <1>2 DEF g

NetAgrees ==
  \E A, B, M, S : /\ Agrees(role["sender"], role["receiver"], eph, A, B, M, S)
                  /\ AllFine(OnNet, role["receiver"], A, B, M, S)

\* An identifier does not come round while a frame of an exchange that
\* carries it is kept.
FreshIds ==
  role'["receiver"].id # role["receiver"].id =>
    \A w \in OnNet : w # None /\ Parse(w).kind \in Opening => Parse(w).id # role'["receiver"].id

LEMMA NetMoves ==
  ASSUME FreshIds, DOMAIN role = Ends, NEW A, NEW B, NEW M, NEW S,
         AllFine(OnNet, role["receiver"], A, B, M, S),
         NEW e \in Ends, NEW q, NEW f, NEW pw, FrameOK(f, pw),
         EndLeads(e, role["sender"], role["receiver"], eph, A, B, M, S, q, f),
         role' = [role EXCEPT ![e] = q], eph' = Drawn(q, eph), OnNet' \subseteq Sayable \cup OnWire(f)
  PROVE  NetAgrees'
  <1> DEFINE C2 == role'["sender"]
             V2 == role'["receiver"]
             V == role["receiver"]
  <1>1. Leads(V, A, B, M, S, C2, V2, eph', f)
    <2>1. CASE e = "sender"
      <3>1. C2 = q /\ V2 = V BY <2>1 DEF Ends
      <3> QED BY <2>1, <3>1 DEF EndLeads
    <2>2. CASE e = "receiver"
      <3>1. C2 = role["sender"] /\ V2 = q BY <2>2 DEF Ends
      <3> QED BY <2>2, <3>1 DEF EndLeads
    <2> QED BY <2>1, <2>2 DEF Ends
  <1>2. PICK A2, B2, N2, S2 : /\ Agrees(C2, V2, eph', A2, B2, N2, S2)
                              /\ Carries(V, V2, A, B, M, S, A2, B2, N2, S2)
                              /\ f # None => Fine(f, V2, A2, B2, N2, S2)
    BY <1>1, Zenon DEF Leads
  <1>3. ASSUME NEW w \in OnNet', w # None
        PROVE  Fine(Parse(w), V2, A2, B2, N2, S2)
    <2>1. CASE w \in OnNet
      <3>1. Fine(Parse(w), V, A, B, M, S) BY <1>3, <2>1 DEF AllFine
      <3>2. V2.id # V.id /\ Parse(w).kind \in Opening => Parse(w).id # V2.id
        BY <1>3, <2>1 DEF FreshIds
      <3> HIDE DEF V, V2
      <3> QED BY <1>2, <3>1, <3>2, FineCarries
    <2>2. CASE w \in {StartWire, PushWire}
      BY <2>2, PlainWires
    <2>3. CASE w \in OnWire(f)
      <3>1. f # None /\ w = Encode(f) BY <2>3 DEF OnWire
      <3>2. f.kind \in Kinds BY <3>1 DEF FrameOK
      <3> QED BY <1>2, <3>1, <3>2, FineEncoded
    <2>4. w \in Sayable \cup OnWire(f) BY <1>3
    <2> QED BY <1>3, <2>1, <2>2, <2>3, <2>4 DEF Sayable
  <1>4. AllFine(OnNet', V2, A2, B2, N2, S2) BY <1>3 DEF AllFine
  <1> QED BY <1>2, <1>4 DEF NetAgrees, AllFine

\* A step that leaves the roles alone and says nothing new.
LEMMA NetRests ==
  ASSUME NetAgrees, \A e \in Ends : role'[e] = role[e], eph' = eph, OnNet' \subseteq Sayable
  PROVE  NetAgrees'
  <1>0. role'["sender"] = role["sender"] /\ role'["receiver"] = role["receiver"] BY DEF Ends
  <1>1. PICK A, B, M, S : /\ Agrees(role["sender"], role["receiver"], eph, A, B, M, S)
                          /\ AllFine(OnNet, role["receiver"], A, B, M, S)
    BY Zenon DEF NetAgrees
  <1>2. \A w \in OnNet' : w # None => Fine(Parse(w), role["receiver"], A, B, M, S)
    BY <1>1, PlainWires DEF AllFine, Sayable
  <1>3. AllFine(OnNet', role["receiver"], A, B, M, S) BY <1>2 DEF AllFine
  <1> QED BY <1>0, <1>1, <1>3 DEF NetAgrees, AllFine

LEMMA QueueSaysMore ==
  ASSUME NEW q, IsSeq(q), NEW W, QueueSays(q, W), NEW e, NEW d, NEW out, NEW from, IsSeq(out), SaysOut(out, W)
  PROVE  QueueSays(q \o Datagrams(e, d, out, from), W)
  <1> DEFINE M(i) == [to |-> Other(e), src |-> from, dst |-> d.peer, data |-> out[i]]
             p == [i \in 1 .. Len(out) |-> M(i)]
             S == {M(i) : i \in 1 .. Len(out)}
             t == q \o p
  <1>1. DOMAIN out = 1 .. Len(out) /\ Len(out) \in Nat
    BY SeqIs DEF IsSeq
  <1>2. \A i \in 1 .. Len(out) : M(i).data.eap \in W
    BY <1>1 DEF SaysOut
  <1>3. Datagrams(e, d, out, from) = p
    BY DEF Datagrams
  <1> HIDE DEF M
  <1>4. p \in Seq(S)
    BY <1>1, IsASeq
  <1>5. IsSeq(p)
    BY <1>4, SeqIs
  <1>6. DOMAIN p = 1 .. Len(out) /\ \A i \in 1 .. Len(out) : p[i] = M(i)
    OBVIOUS
  <1> HIDE DEF p
  <1>7. \A x \in Elements(p) : x.data.eap \in W BY <1>2, <1>6 DEF Elements
  <1>8. \A x \in Elements(q) : x.data.eap \in W BY DEF Elements, QueueSays, Queued
  <1>9. Elements(t) \subseteq Elements(q) \cup Elements(p) BY <1>5, ConcatIs
  <1> HIDE DEF t
  <1>10. \A x \in Elements(t) : x.data.eap \in W BY <1>7, <1>8, <1>9
  <1>11. QueueSays(t, W)
    <2>1. \A i \in DOMAIN t : t[i] \in Elements(t) BY DEF Elements
    <2> QED BY <1>10, <2>1 DEF QueueSays, Queued
  <1> QED BY <1>3, <1>11 DEF t

LEMMA SendsSayMore ==
  ASSUME NEW f, DOMAIN f = Ends, NEW pw, \A p \in Ends : QueueOK(f[p], pw), NEW W, \A p \in Ends : QueueSays(f[p], W),
         NEW e \in Ends, NEW d, NEW out, IsSeq(out), SaysOut(out, W), NEW from,
         NEW g, g = [f EXCEPT ![Other(e)] = @ \o Datagrams(e, d, out, from)]
  PROVE  \A p \in Ends : QueueSays(g[p], W)
  <1> DEFINE t == f[Other(e)] \o Datagrams(e, d, out, from)
  <1>1. Other(e) \in Ends BY DEF Other, Ends
  <1>2. QueueSays(t, W) BY <1>1, QueueSaysMore DEF QueueOK
  <1>3. g = [f EXCEPT ![Other(e)] = t] OBVIOUS
  <1> HIDE DEF t
  <1> QED BY <1>1, <1>2, <1>3

LEMMA QueueSaysTail ==
  ASSUME NEW q, IsSeq(q), q # <<>>, NEW W, QueueSays(q, W)
  PROVE  QueueSays(Tail(q), W) /\ Head(q).data.eap \in W
  <1> DEFINE t == Tail(q)
             h == Head(q)
  <1>1. /\ 1 \in DOMAIN q /\ h = q[1]
        /\ \A i \in DOMAIN t : i + 1 \in DOMAIN q /\ t[i] = q[i + 1]
    BY TailIs
  <1> HIDE DEF t, h
  <1>2. \A i \in DOMAIN q : q[i].data.eap \in W BY DEF QueueSays, Queued
  <1>3. \A i \in DOMAIN t : t[i].data.eap \in W BY <1>1, <1>2
  <1> QED BY <1>1, <1>2, <1>3 DEF QueueSays, Queued, t, h

LEMMA RestSays ==
  ASSUME AuthInv, NEW e \in Ends, fresh[e] # <<>>
  PROVE  Head(fresh[e]).data.eap \in OnNet /\ \A p \in Ends : QueueSays(Rest(e)[p], OnNet)
  <1> DEFINE t == Tail(fresh[e])
  <1>1. \A p \in Ends : QueueSays(fresh[p], OnNet) BY KeptIs DEF KeptIn, OnNet
  <1>2. IsSeq(fresh[e]) BY DEF AuthInv, QueueOK
  <1>3. QueueSays(t, OnNet) /\ Head(fresh[e]).data.eap \in OnNet BY <1>1, <1>2, QueueSaysTail
  <1>4. Rest(e) = [fresh EXCEPT ![e] = t] BY DEF Rest
  <1> HIDE DEF t
  <1> QED BY <1>1, <1>3, <1>4 DEF AuthInv

LEMMA QueueSaysWider ==
  ASSUME NEW q, NEW W, NEW X, QueueSays(q, W), W \subseteq X
  PROVE  QueueSays(q, X)
  BY DEF QueueSays

LEMMA DeliverAgrees ==
  ASSUME AuthInv, NetAgrees, FreshIds, NEW m, NEW queues, NEW old, Deliver(m, queues, old), MsgOK(m, Password),
         DOMAIN queues = Ends, \A p \in Ends : QueueOK(queues[p], Password),
         old \subseteq stale, m.data.eap \in OnNet, \A p \in Ends : QueueSays(queues[p], OnNet)
  PROVE  NetAgrees'
  <1> DEFINE e == m.to
             C == role["sender"]
             V == role["receiver"]
             w == m.data.eap
             X == Sayable
  <1>1. e \in Ends /\ m.src # "none" /\ WireOK(w, Password)
    BY DEF MsgOK
  <1>2. PICK z \in OnRecv(e, State(e), m.src, m.data) :
          /\ Apply(e, z)
          /\ fresh' = [queues EXCEPT ![Other(e)] = @ \o Datagrams(e, z.d, z.out, addr[e])]
          /\ eph' = IF Draws(z.r, eph + 1) THEN eph + 1 ELSE eph
    BY DEF Deliver
  <1>3. stale' = old BY DEF Deliver
  <1>4. PICK A, B, M, S : Agrees(C, V, eph, A, B, M, S) /\ AllFine(OnNet, V, A, B, M, S)
    BY Zenon DEF NetAgrees
  <1>a. /\ \A p \in Ends : drv[p].lastTx \in OnNet /\ OnWire(role[p].lastReply) \subseteq OnNet
        /\ \A n \in stale : n.data.eap \in OnNet
    BY KeptIs DEF KeptIn, OnNet
  <1>b. OnNet \subseteq X BY DEF Sayable
  <1>5. Spoken(X) BY DEF Sayable, Spoken
  <1>6. Says(State(e), X) /\ State(e).r = role[e]
    <2>1. drv[e].lastTx \in X BY <1>1, <1>a, <1>b
    <2>2. SaysOut(<<>>, X)
      <3>1. DOMAIN <<>> = {} OBVIOUS
      <3> QED BY <3>1 DEF SaysOut
    <2> QED BY <2>1, <2>2 DEF Says, State, Bundle
  <1>7. BundleOK(e, State(e), Password) BY <1>1, StateOK
  <1> HIDE DEF X, e
  <1>8. PICK f : Met(e, role[e], w, z.r, f) /\ Says(z, X \cup OnWire(f))
    BY <1>1, <1>2, <1>5, <1>6, <1>7, OnRecvSays
  <1>9. ClientOK(C, Password) /\ ServerOK(V, Password) BY DEF AuthInv, RoleOK, Ends
  <1>10. role[e] = Mine(e, C, V) BY <1>1 DEF Mine, Ends
  <1>11. w # None => Fine(Parse(w), V, A, B, M, S) BY <1>4 DEF AllFine
  <1>12. role[e].lastReply # None => Fine(role[e].lastReply, V, A, B, M, S)
    <2> SUFFICES ASSUME role[e].lastReply # None PROVE Fine(role[e].lastReply, V, A, B, M, S) OBVIOUS
    <2> DEFINE g == role[e].lastReply
    <2>1. FrameOK(g, Password) BY <1>9, <1>10 DEF ClientOK, ServerOK, Mine
    <2>2. Encode(g) \in OnNet BY <1>1, <1>a DEF OnWire
    <2>3. Fine(Parse(Encode(g)), V, A, B, M, S) BY <1>4, <2>2, EncodedNotNone DEF AllFine
    <2> QED BY <2>1, <2>3, FineEncoded DEF FrameOK
  <1> HIDE DEF C, V, w
  <1>13. /\ EndLeads(e, C, V, eph, A, B, M, S, z.r, f) /\ FrameOK(f, Password)
         /\ z.r.lastReply \in {role[e].lastReply, f, None}
    BY <1>1, <1>4, <1>8, <1>9, <1>10, <1>11, <1>12, MetAgrees
  <1> DEFINE Y == X \cup OnWire(f)
  <1>14. OnNet' \subseteq Y
    <2>1. BundleOK(e, z, Password) BY <1>1, <1>2, <1>7, OnRecvOK DEF w
    <2>2. IsSeq(z.out) BY <2>1 DEF BundleOK, OutOK
    <2>3. \A p \in Ends : QueueSays(queues[p], Y)
      <3>1. OnNet \subseteq Y BY <1>b
      <3> HIDE DEF Y
      <3> QED BY <3>1, QueueSaysWider
    <2>4. SaysOut(z.out, Y) /\ z.d.lastTx \in Y BY <1>8 DEF Says
    <2>5. \A p \in Ends : /\ role'[p] = IF p = e THEN z.r ELSE role[p]
                          /\ drv'[p] = IF p = e THEN z.d ELSE drv[p]
      BY <1>1, <1>2 DEF AuthInv, Apply
    <2>6. \A n \in stale' : n.data.eap \in Y BY <1>3, <1>a, <1>b
    <2>7. \A p \in Ends : drv'[p].lastTx \in Y BY <1>a, <1>b, <2>4, <2>5
    <2>8. \A p \in Ends : OnWire(role'[p].lastReply) \subseteq Y
      <3> SUFFICES ASSUME NEW p \in Ends PROVE OnWire(role'[p].lastReply) \subseteq Y OBVIOUS
      <3>1. OnWire(role[p].lastReply) \subseteq Y /\ OnWire(None) \subseteq Y /\ OnWire(f) \subseteq Y
        BY <1>a, <1>b DEF OnWire
      <3>2. role'[p].lastReply \in {role[p].lastReply, f, None} BY <1>13, <2>5
      <3> QED BY <3>1, <3>2
    <2> HIDE DEF Y
    <2>9. \A p \in Ends : QueueSays(fresh'[p], Y) BY <1>1, <1>2, <2>2, <2>3, <2>4, SendsSayMore
    <2>10. KeptIn(stale', fresh', drv', role', Y) BY <2>6, <2>7, <2>8, <2>9 DEF KeptIn
    <2> QED BY <2>10, KeptIs DEF OnNet
  <1>15. role' = [role EXCEPT ![e] = z.r] /\ eph' = Drawn(z.r, eph) BY <1>2 DEF Apply, Drawn
  <1>16. DOMAIN role = Ends BY DEF AuthInv
  <1> QED BY <1>1, <1>4, <1>13, <1>14, <1>15, <1>16, NetMoves DEF C, V, X

LEMMA NetStep ==
  ASSUME AuthInv, NetAgrees, [AuthNext]_authVars, [FreshIds]_authVars
  PROVE  NetAgrees'
  <1>0. KeptIn(stale, fresh, drv, role, OnNet) BY KeptIs DEF OnNet
  <1>a. OnNet \subseteq Sayable BY DEF Sayable
  <1>1. CASE UNCHANGED authVars
    <2>1. OnNet' = OnNet /\ UNCHANGED <<role, eph>> BY <1>1 DEF authVars, OnNet
    <2> QED BY <1>a, <2>1, NetRests
  <1> SUFFICES ASSUME AuthNext, FreshIds PROVE NetAgrees'
    BY <1>1
  <1>2. ASSUME NEW e \in Ends, Receive(e)
        PROVE  NetAgrees'
    <2>1. fresh[e] # <<>> /\ Deliver(Head(fresh[e]), Rest(e), stale)
      BY <1>2 DEF Receive
    <2> QED BY <2>1, RestOK, RestSays, DeliverAgrees
  <1>3. CASE ReceiveStale
    <2>1. PICK m \in stale : Deliver(m, fresh, stale \ {m})
      BY <1>3 DEF ReceiveStale
    <2>2. MsgOK(m, Password) /\ DOMAIN fresh = Ends /\ \A p \in Ends : QueueOK(fresh[p], Password)
      BY DEF AuthInv
    <2>3. m.data.eap \in OnNet /\ \A p \in Ends : QueueSays(fresh[p], OnNet)
      BY <1>0 DEF KeptIn
    <2>4. stale \ {m} \subseteq stale OBVIOUS
    <2> QED BY <2>1, <2>2, <2>3, <2>4, DeliverAgrees
  <1>4. ASSUME NEW e \in Ends, Copy(e)
        PROVE  NetAgrees'
    <2>1. /\ stale' = stale \cup {Head(fresh[e])} /\ fresh[e] # <<>>
          /\ UNCHANGED <<role, drv, fresh, eph>>
      BY <1>4 DEF Copy
    <2>2. Head(fresh[e]).data.eap \in OnNet BY <2>1, RestSays
    <2>3. KeptIn(stale', fresh', drv', role', OnNet) BY <1>0, <2>1, <2>2 DEF KeptIn
    <2>4. OnNet' \subseteq OnNet BY <2>3, KeptIs DEF OnNet
    <2> QED BY <1>a, <2>1, <2>4, NetRests
  <1>5. ASSUME NEW e \in Ends, Lose(e) \/ Undeliverable(e)
        PROVE  NetAgrees'
    <2>1. /\ fresh[e] # <<>> /\ fresh' = Rest(e)
          /\ UNCHANGED <<role, drv, stale, eph>>
      BY <1>5 DEF Lose, Undeliverable
    <2>2. \A p \in Ends : QueueSays(fresh'[p], OnNet) BY <2>1, RestSays
    <2>3. KeptIn(stale', fresh', drv', role', OnNet) BY <1>0, <2>1, <2>2 DEF KeptIn
    <2>4. OnNet' \subseteq OnNet BY <2>3, KeptIs DEF OnNet
    <2> QED BY <1>a, <2>1, <2>4, NetRests
  <1>6. ASSUME NEW e \in Ends, Keepalive(e)
        PROVE  NetAgrees'
    <2> DEFINE x == OnKeepalive(State(e))
               W == Sayable
    <2>1. /\ Apply(e, x)
          /\ fresh' = [fresh EXCEPT ![Other(e)] = @ \o Datagrams(e, x.d, x.out, addr[e])]
          /\ UNCHANGED <<stale, eph>>
      BY <1>6 DEF Keepalive
    <2>2. BundleOK(e, State(e), Password) BY StateOK
    <2>3. Says(State(e), W) /\ State(e).r = role[e]
      <3>1. drv[e].lastTx \in W BY <1>0, <1>a DEF KeptIn
      <3>2. DOMAIN <<>> = {} OBVIOUS
      <3> QED BY <3>1, <3>2 DEF Says, SaysOut, State, Bundle
    <2>4. Spoken(W) BY DEF Sayable, Spoken
    <2>5. \A p \in Ends : QueueSays(fresh[p], W) BY <1>0, <1>a, QueueSaysWider DEF KeptIn
    <2>6. \A p \in Ends : drv[p].lastTx \in W /\ OnWire(role[p].lastReply) \subseteq W
      BY <1>0, <1>a DEF KeptIn
    <2>7. \A n \in stale : n.data.eap \in W BY <1>0, <1>a DEF KeptIn
    <2> HIDE DEF W
    <2>8. BundleOK(e, x, Password) BY <2>2, OnKeepaliveOK
    <2>9. Says(x, W) /\ x.r = role[e] BY <2>2, <2>3, <2>4, OnKeepaliveSays
    <2> HIDE DEF x
    <2>10. \A p \in Ends : role'[p] = role[p] BY <2>1, <2>9 DEF Apply, AuthInv
    <2>11. \A p \in Ends : drv'[p] = IF p = e THEN x.d ELSE drv[p] BY <2>1 DEF Apply, AuthInv
    <2>12. \A p \in Ends : QueueSays(fresh'[p], W)
      <3>1. IsSeq(x.out) /\ SaysOut(x.out, W) BY <2>8, <2>9 DEF BundleOK, OutOK, Says
      <3> QED BY <2>1, <2>5, <3>1, SendsSayMore DEF AuthInv
    <2>13. KeptIn(stale', fresh', drv', role', W)
      BY <2>1, <2>6, <2>7, <2>9, <2>10, <2>11, <2>12 DEF KeptIn, Says
    <2>14. OnNet' \subseteq W BY <2>13, KeptIs DEF OnNet
    <2> QED BY <2>1, <2>10, <2>14, NetRests DEF W
  <1>7. CASE Elapse
    <2>1. /\ drv' = [e \in Ends |-> Aged(drv[e])]
          /\ UNCHANGED <<role, fresh, stale, eph>>
      BY <1>7 DEF Elapse
    <2>2. ASSUME NEW d, NEW pw, DriverOK(d, pw)
          PROVE  Aged(d).lastTx = d.lastTx
      <3> DEFINE s == IF d.silent > Timeout THEN d.silent ELSE d.silent + 1
                 l == IF d.left = 0 THEN 0 ELSE d.left - 1
      <3>1. Aged(d) = [d EXCEPT !.silent = s, !.left = l]
        BY <2>2 DEF Aged, DriverOK, Admits, DriverFields
      <3> HIDE DEF s, l
      <3> QED BY <2>2, <3>1 DEF DriverOK, Admits, DriverFields
    <2>3. \A e \in Ends : drv'[e].lastTx = drv[e].lastTx BY <2>1, <2>2 DEF AuthInv
    <2>4. KeptIn(stale', fresh', drv', role', OnNet) BY <1>0, <2>1, <2>3 DEF KeptIn
    <2>5. OnNet' \subseteq OnNet BY <2>4, KeptIs DEF OnNet
    <2> QED BY <1>a, <2>1, <2>5, NetRests
  <1>8. CASE Move
    <2>1. UNCHANGED <<role, drv, fresh, stale, eph>> BY <1>8 DEF Move
    <2>2. OnNet' = OnNet BY <2>1 DEF OnNet
    <2> QED BY <1>a, <2>1, <2>2, NetRests
  <1> QED BY <1>2, <1>3, <1>4, <1>5, <1>6, <1>7, <1>8 DEF AuthNext, AuthProgress, AuthFaults

LEMMA NetStarts ==
  ASSUME AuthInit
  PROVE  NetAgrees
  <1>0. AuthInv BY AuthStarts
  <1>1. PICK s \in Scenarios : AuthStart(s)
    BY DEF AuthInit
  <1>2. s.caller \in Ends /\ s.id \in 0 .. IdMod - 1
    BY AuthAssumption DEF Ends
  <1> DEFINE x == [e \in Ends |-> Initial(e, s)]
             W == {None, StartWire, PushWire}
             C0 == NewAuthenticatee(s.pw, ~s.psk)
             V0 == NewAuthenticator(s.ver, ~s.psk, s.id)
  <1>3. /\ caller = s.caller /\ stale = {} /\ eph = 0
        /\ role = [e \in Ends |-> x[e].r] /\ drv  = [e \in Ends |-> x[e].d]
        /\ fresh = [e \in Ends |-> IF e = s.caller THEN <<>>
                                   ELSE Datagrams(s.caller, x[s.caller].d, x[s.caller].out, "caller")]
    BY <1>1 DEF AuthStart
  <1>4. ClientOK(C0, s.pw)
    BY NoFrameOK DEF ClientOK, ClientFields, NewAuthenticatee
  <1>5. ServerOK(V0, s.pw)
    BY NoFrameOK DEF ServerOK, ServerFields, NewAuthenticator
  <1>6. ASSUME NEW e \in Ends
        PROVE  /\ Says(Initial(e, s), W) /\ MayOpen(e, Mine(e, C0, V0), Initial(e, s).r)
               /\ BundleOK(e, Initial(e, s), s.pw)
    <2> DEFINE r == IF e = "sender" THEN C0 ELSE V0
               p == IF e = s.caller THEN "listener" ELSE "none"
               k == IF s.psk THEN [psk |-> TRUE] ELSE None
               o == Opened(e, p, k, r)
    <2>1. RoleOK(e, r, s.pw) BY <1>4, <1>5 DEF RoleOK
    <2>2. Spoken(W) BY DEF Spoken
    <2>3. Initial(e, s) = o BY DEF Initial
    <2>4. Mine(e, C0, V0) = r BY DEF Mine
    <2> HIDE DEF W, r, p, k, C0, V0
    <2>5. Says(o, W) /\ MayOpen(e, r, o.r) /\ BundleOK(e, o, s.pw) BY <2>1, <2>2, OpenedSays, OpenedOK
    <2> QED BY <2>3, <2>4, <2>5
  <1>7. /\ C0.client = None /\ C0.state = "Unauth" /\ C0.lastReply = None
        /\ V0.server = None /\ V0.session = None /\ V0.id = s.id /\ V0.ver = s.ver /\ V0.lastReply = None
    BY DEF NewAuthenticatee, NewAuthenticator
  <1> HIDE DEF C0, V0
  <1>8. \A e \in Ends : Says(x[e], W) /\ MayOpen(e, Mine(e, C0, V0), x[e].r) /\ BundleOK(e, x[e], s.pw)
    BY <1>6
  <1> HIDE DEF x
  <1>9. \A e \in Ends : role[e] = x[e].r /\ drv[e] = x[e].d BY <1>3
  <1> DEFINE C == role["sender"]
             V == role["receiver"]
  <1>10. ClientSame(C0, C) /\ C.lastReply = None
    BY <1>4, <1>7, <1>8, <1>9, MayOpenSame DEF Ends, Mine
  <1>11. V = V0 BY <1>8, <1>9 DEF Ends, Mine, MayOpen
  <1>12. Agrees(C, V, eph, {}, {}, {}, {})
    <2>1. ClientAgrees(C, {}, {}, {}) BY <1>7, <1>10 DEF ClientSame, ClientAgrees
    <2>2. ServerAgrees(V, {}, {}, {}) BY <1>2, <1>7, <1>11 DEF ServerAgrees
    <2>3. KeysAgree(V.ver, eph, {}, {}, {}, {}) BY <1>3 DEF KeysAgree
    <2> QED BY <2>1, <2>2, <2>3 DEF Agrees
  <1>13. OnNet \subseteq W
    <2>1. None \in W OBVIOUS
    <2> HIDE DEF W
    <2>2. \A e \in Ends : OnWire(role[e].lastReply) \subseteq W
      BY <1>7, <1>10, <1>11 DEF OnWire, Ends
    <2>3. \A e \in Ends : drv[e].lastTx \in W BY <1>8, <1>9 DEF Says
    <2> DEFINE c == x[s.caller]
               q == <<>> \o Datagrams(s.caller, c.d, c.out, "caller")
               t == Datagrams(s.caller, c.d, c.out, "caller")
    <2>4. IsSeq(c.out) /\ SaysOut(c.out, W) BY <1>2, <1>8 DEF BundleOK, OutOK, Says
    <2>5. QueueSays(<<>>, W)
      <3>1. DOMAIN <<>> = {} OBVIOUS
      <3> QED BY <3>1 DEF QueueSays, Queued
    <2>6. QueueSays(q, W) BY <2>4, <2>5, EmptyIs, QueueSaysMore
    <2>7. q = t
      <3>1. QueueOK(t, s.pw) BY <1>2, <1>8, DatagramsOK DEF BundleOK
      <3> HIDE DEF t
      <3>2. t \in Seq(Elements(t)) BY <3>1 DEF QueueOK, IsSeq
      <3>3. <<>> \o t = t BY ONLY <3>2, ConcatEmptySeq
      <3> QED BY <3>3 DEF t
    <2> HIDE DEF q, t
    <2>8. QueueSays(t, W) BY <2>6, <2>7
    <2>9. \A e \in Ends : fresh[e] = <<>> \/ fresh[e] = t BY <1>3 DEF t, c
    <2>10. \A e \in Ends : QueueSays(fresh[e], W) BY <2>5, <2>8, <2>9
    <2>11. KeptIn(stale, fresh, drv, role, W) BY <1>3, <2>2, <2>3, <2>10 DEF KeptIn
    <2> QED BY <2>11, KeptIs DEF OnNet
  <1>14. AllFine(OnNet, V, {}, {}, {}, {}) BY <1>13, PlainWires DEF AllFine
  <1> QED BY <1>12, <1>14 DEF NetAgrees

\* Whatever frames are lost, repeated, delayed or mixed between handshakes, two
\* roles that both report success hold the same session key, and one opposite
\* a peer that knows the password - as long as the one-byte identifiers do not
\* come round while an old frame of an exchange is still about
\* (eap.rs: the identifier gates, the reply cache, restart and the proofs).
THEOREM MainKeysAgree == AuthSpec /\ [][FreshIds]_authVars => []SuccessAgrees
  <1>1. AuthInit => NetAgrees
    BY NetStarts
  <1>2. AuthInv /\ NetAgrees /\ [AuthNext]_authVars /\ [FreshIds]_authVars => NetAgrees'
    BY NetStep
  <1>3. AuthInv /\ NetAgrees /\ KeyEarned => SuccessAgrees
    <2> SUFFICES ASSUME AuthInv, NetAgrees, KeyEarned PROVE SuccessAgrees OBVIOUS
    <2> DEFINE C == role["sender"]
               V == role["receiver"]
    <2>1. PICK A, B, M, S : Agrees(C, V, eph, A, B, M, S)
      BY Zenon DEF NetAgrees
    <2>2. ServerOK(V, Password) BY DEF AuthInv, RoleOK, Ends
    <2>3. ASSUME C.state = "Success", V.state = "Success"
          PROVE  C.session = V.session
      <3>1. V.session # None BY <2>2, <2>3 DEF ServerOK
      <3> HIDE DEF C, V
      <3> QED BY <2>1, <2>3, <3>1, OneKey
    <2> QED BY <2>3 DEF SuccessAgrees, Succeeded, Authenticated, Key
  <1> QED BY <1>1, <1>2, <1>3, AuthInvariant, MainKeyEarned, PTL DEF AuthSpec

----------------------------------------------------------------------------
(* The anti-replay window *)

IsWindow(w) == w.right \in Int /\ \A t \in w.bitmap : t \in Int /\ t <= w.right

\* For every width of the window: a sequence that was marked is refused from
\* then on, whatever is marked later and however far the window has moved;
\* and another one is still accepted as long as the window covers it
\* (dtls/replay.rs: check, mark).
THEOREM ReplayOnce ==
  /\ IsWindow(NewWindow) /\ \A seq \in Nat : Check(NewWindow, seq)
  /\ \A w : \A seq, later \in Int : IsWindow(w) =>
       /\ IsWindow(Mark(w, later))
       /\ ~Check(Mark(w, seq), seq)
       /\ ~Check(w, seq) => ~Check(Mark(w, later), seq)
       /\ Check(w, seq) /\ seq # later /\ Mark(w, later).right - seq < ReplaySize
            => Check(Mark(w, later), seq)
  <1>0. IsWindow(NewWindow) /\ \A seq \in Nat : Check(NewWindow, seq)
    BY DEF IsWindow, NewWindow, Check
  <1> SUFFICES ASSUME NEW w, NEW seq \in Int, NEW later \in Int, IsWindow(w)
               PROVE  /\ IsWindow(Mark(w, later))
                      /\ ~Check(Mark(w, seq), seq)
                      /\ ~Check(w, seq) => ~Check(Mark(w, later), seq)
                      /\ Check(w, seq) /\ seq # later /\ Mark(w, later).right - seq < ReplaySize
                           => Check(Mark(w, later), seq)
    BY <1>0
  <1>1. ReplaySize \in Nat \ {0} /\ w.right \in Int /\ \A t \in w.bitmap : t \in Int /\ t <= w.right
    BY ReplayAssumption DEF IsWindow
  <1> DEFINE R(s) == IF s > w.right THEN s ELSE w.right
             B(s) == {t \in w.bitmap \cup {s} : R(s) - t < ReplaySize}
  <1>2. \A s \in Int : Mark(w, s).right = R(s) /\ Mark(w, s).bitmap = B(s)
    BY DEF Mark
  <1>3. \A s \in Int : R(s) \in Int /\ R(s) >= s /\ R(s) >= w.right
    BY <1>1
  <1>4. \A s, t \in Int : t \in B(s) <=> (t \in w.bitmap \/ t = s) /\ R(s) - t < ReplaySize
    OBVIOUS
  <1>5. \A s \in Int : \A t \in B(s) : t \in Int
    BY <1>1
  <1> HIDE DEF R, B
  <1>6. IsWindow(Mark(w, later))
    BY <1>1, <1>2, <1>3, <1>4, <1>5, SMTT(30) DEF IsWindow
  <1>7. ~Check(Mark(w, seq), seq)
    BY <1>1, <1>2, <1>3, <1>4 DEF Check
  <1>8. ASSUME ~Check(w, seq)
        PROVE  ~Check(Mark(w, later), seq)
    BY <1>1, <1>2, <1>3, <1>4, <1>8 DEF Check
  <1>9. ASSUME Check(w, seq), seq # later, Mark(w, later).right - seq < ReplaySize
        PROVE  Check(Mark(w, later), seq)
    <2>1. seq \notin w.bitmap
      BY <1>1, <1>9 DEF Check
    <2> QED BY <1>2, <1>3, <1>4, <1>9, <2>1 DEF Check
  <1> QED BY <1>6, <1>7, <1>8, <1>9

----------------------------------------------------------------------------
(* The tunnel *)

\* What a connection holds, and the states its end may be in.
ConnFields == {"pc", "next", "pending", "got", "script", "msgSeq", "flight", "tries", "keys", "stash",
               "window", "sendSeq", "app"}
States(p) == {"done", "ended"} \cup (IF p = "client" THEN {"start", "hvr", "f4", "f6"}
                                     ELSE {"accept", "f1", "f3", "f5a", "f5b"})

\* A record under way that end from sealed, S being all that was sealed.
RecordOK(from, r, S) ==
  /\ r.epoch \in {0, 1} /\ r.seq \in Int
  /\ r.typ \in {"Handshake", "ChangeCipherSpec", "ApplicationData"}
  /\ r.typ = "ApplicationData" => r.epoch = 1 /\ r.payload.typ = "ApplicationData"
  /\ r.epoch = 1 => [from |-> from, seq |-> r.seq, payload |-> r.payload] \in S
RecordsOK(from, q, S) == IsSeq(q) /\ \A i \in DOMAIN q : RecordOK(from, q[i], S)

\* A record of a flight, never a datagram of the host.
SpecOK(x) == /\ x.epoch \in {0, 1}
             /\ x.typ \in {"Handshake", "ChangeCipherSpec"} /\ x.payload.typ # "ApplicationData"
FlightOK(q) == IsSeq(q) /\ \A i \in DOMAIN q : SpecOK(q[i])

\* A datagram y for the host of end p, its record marked in the window w.
Once(y, p, w, S) ==
  /\ y.typ = "ApplicationData"
  /\ \E x \in S : x.from = Facing(p) /\ x.payload = y /\ ~Check(w, x.seq)

\* No datagram twice.
NoTwins(q) == \A i \in DOMAIN q, j \in DOMAIN q : i # j => q[i] # q[j]

\* The connection c of end p, with in queued for its host: what was decrypted
\* came of marked records and is queued once, here or there.
ConnOK(p, c, in, S) ==
  /\ DOMAIN c = ConnFields /\ c.pc \in States(p)
  /\ IsSeq(c.got) /\ FlightOK(c.flight) /\ RecordsOK(Facing(p), c.stash, S)
  /\ DOMAIN c.window = 1 .. 2 /\ IsWindow(c.window[1]) /\ IsWindow(c.window[2])
  /\ DOMAIN c.sendSeq = 1 .. 2 /\ c.sendSeq[1] \in Nat /\ c.sendSeq[2] \in Nat
  /\ IsSeq(c.app) /\ IsSeq(in) /\ NoTwins(c.app) /\ NoTwins(in)
  /\ \A y \in Elements(c.app) \cup Elements(in) : Once(y, p, c.window[2], S)
  /\ Elements(c.app) \cap Elements(in) = {}

\* No two of an end's records share a sequence.
SeqsApart(p, S) == \A x, y \in S : x.from = p /\ y.from = p /\ x.seq = y.seq => x = y

\* What was sealed by an end with n records, m datagrams offered, out still queued.
SealedOK(p, S, n, m, out) ==
  /\ m \in Nat /\ IsSeq(out) /\ NoTwins(out)
  /\ \A y \in Elements(out) : y.typ = "ApplicationData" /\ y.mseq \in 0 .. m - 1
  /\ Cardinality({x \in S : x.from = p}) = n /\ SeqsApart(p, S)
  /\ \A x \in S : x.from = p =>
       /\ x.seq \in 0 .. n - 1
       /\ x.payload.typ = "ApplicationData" => /\ x.payload.mseq \in 0 .. m - 1
                                               /\ x.payload \notin Elements(out)
                                               /\ \A y \in S : y.from = p /\ y.payload = x.payload => x.seq = y.seq

\* End p: its connection c, its queues b, the datagrams P under way to it, and
\* the n its host offered.
EndOK(p, c, b, P, n, S) ==
  /\ DOMAIN b = {"out", "in"}
  /\ ConnOK(p, c, b.in, S)
  /\ \A d \in P : RecordsOK(Facing(p), d, S)
  /\ SealedOK(p, S, c.sendSeq[2], n, b.out)

DtlsInv ==
  /\ DOMAIN conn = Sides /\ DOMAIN paths = Sides /\ DOMAIN bridge = Sides /\ DOMAIN offered = Sides
  /\ IsFiniteSet(sealed)
  /\ \A p \in Sides : EndOK(p, conn[p], bridge[p], paths[p], offered[p], sealed)

----------------------------------------------------------------------------
(* Folds. A fold over a sequence is a function of the sets of positions    *)
(* folded so far; it exists for every length, and passes through one state *)
(* for each element, so that what every step preserves, the fold           *)
(* preserves.                                                              *)

\* One step of each of the folds over a sequence.
FoldStep(k, p, x, r) ==
  IF k = "hears" THEN ProcessRecord(x, r)
  ELSE IF k = "hashes" THEN Hash(x, r) ELSE Emit(p, x, r, <<>>, 0, TRUE)

\* h is the fold over the first n of d, for each of their subsets.
FoldsTo(n, h, k, p, c, d) ==
  h = [s \in SUBSET (1 .. n) |->
         IF s = {} THEN c ELSE FoldStep(k, p, h[s \ {Max(s)}], d[Max(s)])]

LEMMA LastIsMax ==
  ASSUME NEW n \in Nat, NEW s \in SUBSET (1 .. n + 1), n + 1 \in s PROVE Max(s) = n + 1
  <1>1. \A x \in s : x \in Int /\ n + 1 >= x OBVIOUS
  <1>2. \A x \in s : (\A y \in s : x >= y) => x = n + 1 BY <1>1
  <1> QED BY <1>1, <1>2 DEF Max

LEMMA FoldsNext ==
  ASSUME NEW n \in Nat, NEW h, NEW k, NEW p, NEW c, NEW d, FoldsTo(n, h, k, p, c, d)
  PROVE  \E g : FoldsTo(n + 1, g, k, p, c, d)
  <1> DEFINE T == SUBSET (1 .. n + 1)
             g == [s \in T |-> IF n + 1 \in s THEN FoldStep(k, p, h[s \ {n + 1}], d[n + 1]) ELSE h[s]]
  <1>1. ASSUME NEW s \in T
        PROVE  g[s] = IF s = {} THEN c ELSE FoldStep(k, p, g[s \ {Max(s)}], d[Max(s)])
    <2>1. CASE n + 1 \in s
      <3>1. Max(s) = n + 1 /\ s # {} BY <2>1, LastIsMax
      <3>2. s \ {n + 1} \in T /\ n + 1 \notin s \ {n + 1} OBVIOUS
      <3>3. g[s \ {n + 1}] = h[s \ {n + 1}] BY <3>2
      <3>4. g[s] = FoldStep(k, p, h[s \ {n + 1}], d[n + 1]) BY <2>1
      <3> HIDE DEF g
      <3> QED BY <3>1, <3>3, <3>4
    <2>2. CASE n + 1 \notin s
      <3>1. s \in SUBSET (1 .. n) BY <2>2
      <3>2. h[s] = IF s = {} THEN c ELSE FoldStep(k, p, h[s \ {Max(s)}], d[Max(s)])
        BY <3>1, Zenon DEF FoldsTo
      <3>3. s \ {Max(s)} \in T /\ n + 1 \notin s \ {Max(s)} BY <2>2
      <3>4. g[s \ {Max(s)}] = h[s \ {Max(s)}] BY <3>3
      <3>5. g[s] = h[s] BY <2>2
      <3> HIDE DEF g
      <3> QED BY <3>2, <3>4, <3>5
    <2> QED BY <2>1, <2>2
  <1>2. g = [s \in T |-> g[s]] OBVIOUS
  <1> HIDE DEF g
  <1>3. [s \in T |-> g[s]]
          = [s \in T |-> IF s = {} THEN c ELSE FoldStep(k, p, g[s \ {Max(s)}], d[Max(s)])]
    BY <1>1, Zenon
  <1>4. FoldsTo(n + 1, g, k, p, c, d) BY <1>2, <1>3 DEF FoldsTo
  <1> QED BY <1>4

LEMMA LeastNat ==
  ASSUME NEW B, B \subseteq Nat, B # {} PROVE \E i \in B : \A m \in B : i <= m
  <1>1. \E i \in B : \A m \in B : ~ (<<m, i>> \in OpToRel(<, Nat))
    BY WFMin, NatLessThanWellFounded
  <1>2. \A m, i \in Nat : i <= m \/ m < i OBVIOUS
  <1> QED BY <1>1, <1>2 DEF OpToRel

\* Induction over the elements folded.
LEMMA StepsReach ==
  ASSUME NEW n \in Nat, NEW A, 0 \in A, \A i \in 0 .. n - 1 : i \in A => i + 1 \in A
  PROVE  n \in A
  <1> DEFINE B == {i \in 0 .. n : i \notin A}
  <1> SUFFICES ASSUME n \notin A PROVE FALSE OBVIOUS
  <1>1. B \subseteq Nat /\ B # {} OBVIOUS
  <1>2. PICK i \in B : \A k \in B : i <= k
    <2> HIDE DEF B
    <2> QED BY <1>1, LeastNat
  <1>3. i \in 0 .. n /\ i # 0 OBVIOUS
  <1>4. i - 1 \in 0 .. n - 1 /\ i - 1 \in 0 .. n /\ ~(i <= i - 1) /\ (i - 1) + 1 = i BY <1>3
  <1>5. i - 1 \in A BY <1>2, <1>4
  <1> QED BY <1>4, <1>5

LEMMA FoldsExist ==
  ASSUME NEW k, NEW p, NEW c, NEW d, NEW n \in Nat
  PROVE  \E h : FoldsTo(n, h, k, p, c, d)
  <1> DEFINE A == {i \in Nat : \E h : FoldsTo(i, h, k, p, c, d)}
  <1>1. 0 \in A
    <2> DEFINE g == [s \in SUBSET (1 .. 0) |-> c]
    <2>1. \A s \in SUBSET (1 .. 0) : s = {} OBVIOUS
    <2>2. g = [s \in SUBSET (1 .. 0) |->
                 IF s = {} THEN c ELSE FoldStep(k, p, g[s \ {Max(s)}], d[Max(s)])]
      BY <2>1, Zenon
    <2>3. FoldsTo(0, g, k, p, c, d) BY <2>2, Zenon DEF FoldsTo
    <2> QED BY <2>3
  <1>2. \A i \in 0 .. n - 1 : i \in A => i + 1 \in A BY FoldsNext
  <1> HIDE DEF A
  <1>3. n \in A BY <1>1, <1>2, StepsReach
  <1> QED BY <1>3 DEF A

\* What the fold passes through: a step for each element, in order.
Passes(g, n, k, p, c, d) ==
  g[0] = c /\ \A i \in 0 .. n - 1 : g[i + 1] = FoldStep(k, p, g[i], d[i + 1])

LEMMA FoldPasses ==
  ASSUME NEW n \in Nat, NEW h, NEW k, NEW p, NEW c, NEW d, FoldsTo(n, h, k, p, c, d)
  PROVE  \E g : Passes(g, n, k, p, c, d) /\ g[n] = h[1 .. n]
  <1> DEFINE g == [i \in 0 .. n |-> h[1 .. i]]
  <1>1. g[0] = c
    <2>1. {} \in SUBSET (1 .. n) /\ 1 .. 0 = {} /\ 0 \in 0 .. n OBVIOUS
    <2>2. h[{}] = c BY <2>1, Zenon DEF FoldsTo
    <2> QED BY <2>1, <2>2
  <1>2. ASSUME NEW i \in 0 .. n - 1 PROVE g[i + 1] = FoldStep(k, p, g[i], d[i + 1])
    <2>1. i \in Nat /\ 1 .. i + 1 \in SUBSET (1 .. n) /\ i + 1 \in 1 .. i + 1 /\ 1 .. i + 1 # {}
          /\ (1 .. i + 1) \ {i + 1} = 1 .. i /\ i + 1 \in 0 .. n /\ i \in 0 .. n
      OBVIOUS
    <2> DEFINE s == 1 .. i + 1
    <2>2. s \in SUBSET (1 .. i + 1) /\ s \in SUBSET (1 .. n) /\ s # {} BY <2>1
    <2>3. Max(s) = i + 1 BY <2>1, <2>2, LastIsMax
    <2> HIDE DEF s
    <2>4. h[s] = FoldStep(k, p, h[s \ {Max(s)}], d[Max(s)]) BY <2>2, Zenon DEF FoldsTo
    <2>5. g[i + 1] = h[s] /\ g[i] = h[1 .. i] BY <2>1 DEF s
    <2>6. s \ {Max(s)} = 1 .. i BY <2>1, <2>3 DEF s
    <2> HIDE DEF g
    <2> QED BY <2>3, <2>4, <2>5, <2>6
  <1>3. g[n] = h[1 .. n] OBVIOUS
  <1> HIDE DEF g
  <1> QED BY <1>1, <1>2, <1>3 DEF Passes

LEMMA ProcessAllPasses ==
  ASSUME NEW c, NEW d, IsSeq(d), NEW p
  PROVE  \E g : Passes(g, Len(d), "hears", p, c, d) /\ ProcessAll(c, d) = g[Len(d)]
  <1> DEFINE n == Len(d)
             F(h) == h = [s \in SUBSET DOMAIN d |->
                            IF s = {} THEN c
                            ELSE CHOOSE y \in {ProcessRecord(v, d[Max(s)]) : v \in {h[s \ {Max(s)}]}} : TRUE]
  <1>0. n \in Nat /\ DOMAIN d = 1 .. n BY SeqIs DEF IsSeq
  <1>1. ProcessAll(c, d) = (CHOOSE h : F(h))[DOMAIN d]
    BY DEF ProcessAll, FoldLeft, MapThenFoldSet, Of
  <1>2. ASSUME NEW h PROVE F(h) <=> FoldsTo(n, h, "hears", p, c, d)
    <2> DEFINE u(s) == IF s = {} THEN c
                       ELSE CHOOSE y \in {ProcessRecord(v, d[Max(s)]) : v \in {h[s \ {Max(s)}]}} : TRUE
               w(s) == IF s = {} THEN c ELSE FoldStep("hears", p, h[s \ {Max(s)}], d[Max(s)])
    <2>1. \A s : u(s) = w(s) BY DEF FoldStep
    <2> HIDE DEF u, w
    <2>2. [s \in SUBSET DOMAIN d |-> u(s)] = [s \in SUBSET DOMAIN d |-> w(s)] BY <2>1, Zenon
    <2>3. [s \in SUBSET DOMAIN d |-> u(s)] = [s \in SUBSET (1 .. n) |-> w(s)] BY <1>0, <2>2, Zenon
    <2> QED BY <2>3, Zenon DEF FoldsTo, u, w
  <1>3. \E h : F(h) BY <1>0, <1>2, FoldsExist
  <1> DEFINE h == CHOOSE x : F(x)
  <1>4. F(h) BY <1>3
  <1> HIDE DEF F, h
  <1>5. FoldsTo(n, h, "hears", p, c, d) BY <1>2, <1>4
  <1>6. ProcessAll(c, d) = h[1 .. n] BY <1>0, <1>1 DEF h
  <1> HIDE DEF n
  <1>7. PICK g : Passes(g, n, "hears", p, c, d) /\ g[n] = h[1 .. n] BY <1>0, <1>5, FoldPasses
  <1> QED BY <1>6, <1>7 DEF n

----------------------------------------------------------------------------
(* What an end takes of the records it hears. A marked sequence stays      *)
(* marked (ReplayOnce), so what is in the queues for the host is not taken *)
(* again.                                                                  *)

\* A datagram's payload names its record, at the end that sealed it.
NamesRecord(f, S) ==
  \A x \in S : x.from = f =>
    /\ x.seq \in Int
    /\ x.payload.typ = "ApplicationData" =>
         \A y \in S : y.from = f /\ y.payload = x.payload => y.seq = x.seq

LEMMA MarkedStays ==
  ASSUME NEW w, IsWindow(w), NEW seq \in Int
  PROVE  /\ IsWindow(Mark(w, seq)) /\ ~Check(Mark(w, seq), seq)
         /\ \A s \in Int : ~Check(w, s) => ~Check(Mark(w, seq), s)
  BY ReplayOnce

\* marked: the connection with the record's sequence marked.
Marked(c, r) == [c EXCEPT !.window[r.epoch + 1] = Mark(@, r.seq)]

LEMMA MarkedOK ==
  ASSUME NEW p, NEW c, NEW in, NEW S, ConnOK(p, c, in, S), NamesRecord(Facing(p), S),
         NEW r, RecordOK(Facing(p), r, S)
  PROVE  /\ ConnOK(p, Marked(c, r), in, S)
         /\ Marked(c, r).app = c.app /\ Marked(c, r).sendSeq = c.sendSeq
         /\ r.epoch = 1 => ~Check(Marked(c, r).window[2], r.seq)
  <1> DEFINE x == Marked(c, r)
             e == r.epoch + 1
  <1>1. e \in 1 .. 2 /\ r.seq \in Int /\ (r.epoch = 1 => e = 2) /\ (e = 1 \/ e = 2)
    BY DEF RecordOK
  <1>2. /\ DOMAIN x = ConnFields /\ x.pc = c.pc /\ x.got = c.got /\ x.flight = c.flight
        /\ x.stash = c.stash /\ x.sendSeq = c.sendSeq /\ x.app = c.app
        /\ DOMAIN x.window = 1 .. 2 /\ x.window[e] = Mark(c.window[e], r.seq)
        /\ \A k \in 1 .. 2 : k # e => x.window[k] = c.window[k]
    BY <1>1 DEF Marked, ConnOK, ConnFields
  <1> HIDE DEF x, e
  <1>3. IsWindow(c.window[1]) /\ IsWindow(c.window[2]) BY DEF ConnOK
  <1>4. IsWindow(Mark(c.window[e], r.seq)) /\ ~Check(Mark(c.window[e], r.seq), r.seq)
        /\ \A s \in Int : ~Check(c.window[e], s) => ~Check(Mark(c.window[e], r.seq), s)
    BY <1>1, <1>3, MarkedStays
  <1>5. 1 \in 1 .. 2 /\ 2 \in 1 .. 2 OBVIOUS
  <1>6. IsWindow(x.window[1]) /\ IsWindow(x.window[2])
    BY <1>1, <1>2, <1>3, <1>4, <1>5
  <1>7. \A s \in Int : ~Check(c.window[2], s) => ~Check(x.window[2], s)
    BY <1>1, <1>2, <1>4, <1>5
  <1>8. r.epoch = 1 => ~Check(x.window[2], r.seq) BY <1>1, <1>2, <1>4
  <1>9. ASSUME NEW y, Once(y, p, c.window[2], S) PROVE Once(y, p, x.window[2], S)
    BY <1>7, <1>9 DEF Once, NamesRecord
  <1>10. ConnOK(p, x, in, S) BY <1>2, <1>6, <1>9 DEF ConnOK
  <1> QED BY <1>2, <1>8, <1>10 DEF x

LEMMA AppendOnce ==
  ASSUME NEW q, IsSeq(q), NoTwins(q), NEW y, y \notin Elements(q)
  PROVE  /\ IsSeq(Append(q, y)) /\ NoTwins(Append(q, y))
         /\ Elements(Append(q, y)) \subseteq Elements(q) \cup {y}
  <1> DEFINE t == Append(q, y)
  <1>1. DOMAIN q = 1 .. Len(q) /\ Len(q) \in Nat BY SeqIs DEF IsSeq
  <1>2. /\ IsSeq(t) /\ DOMAIN t = 1 .. Len(q) + 1 /\ t[Len(q) + 1] = y
        /\ \A i \in 1 .. Len(q) : t[i] = q[i]
    <2>1. q \in Seq(Elements(q) \cup {y}) BY SeqMonotonic DEF IsSeq
    <2>2. /\ t \in Seq(Elements(q) \cup {y}) /\ Len(t) = Len(q) + 1
          /\ t[Len(q) + 1] = y /\ \A i \in 1 .. Len(q) : t[i] = q[i]
      BY <2>1, AppendProperties
    <2> HIDE DEF t
    <2>3. IsSeq(t) /\ DOMAIN t = 1 .. Len(t) BY <2>2, SeqIs
    <2> QED BY <2>2, <2>3
  <1> HIDE DEF t
  <1>3. \A i \in DOMAIN t : (i \in DOMAIN q /\ t[i] = q[i]) \/ (i = Len(q) + 1 /\ t[i] = y) BY <1>1, <1>2
  <1>4. Elements(t) \subseteq Elements(q) \cup {y} BY <1>3 DEF Elements
  <1>5. NoTwins(t)
    <2> SUFFICES ASSUME NEW i \in DOMAIN t, NEW j \in DOMAIN t, i # j PROVE t[i] # t[j] BY DEF NoTwins
    <2>1. \A k \in DOMAIN q : q[k] # y BY DEF Elements
    <2> QED BY <1>3, <2>1 DEF NoTwins
  <1> QED BY <1>2, <1>4, <1>5 DEF t

LEMMA TailOnce ==
  ASSUME NEW q, IsSeq(q), NoTwins(q), q # <<>>
  PROVE  /\ IsSeq(Tail(q)) /\ NoTwins(Tail(q)) /\ Elements(Tail(q)) \subseteq Elements(q)
         /\ Head(q) \in Elements(q) /\ Head(q) \notin Elements(Tail(q))
  <1> DEFINE t == Tail(q)
  <1>1. /\ IsSeq(t) /\ 1 \in DOMAIN q /\ Head(q) = q[1]
        /\ \A i \in DOMAIN t : i + 1 \in DOMAIN q /\ t[i] = q[i + 1]
    BY TailIs
  <1> HIDE DEF t
  <1>2. \A i \in DOMAIN t : i \in Nat /\ i >= 1
    <2>1. DOMAIN t = 1 .. Len(t) /\ Len(t) \in Nat BY <1>1, SeqIs DEF IsSeq
    <2> QED BY <2>1
  <1>3. NoTwins(t)
    <2> SUFFICES ASSUME NEW i \in DOMAIN t, NEW j \in DOMAIN t, i # j PROVE t[i] # t[j] BY DEF NoTwins
    <2>1. i + 1 # j + 1 BY <1>2
    <2> QED BY <1>1, <2>1 DEF NoTwins
  <1>4. \A i \in DOMAIN t : t[i] # q[1]
    <2> TAKE i \in DOMAIN t
    <2>1. i + 1 # 1 BY <1>2
    <2> QED BY <1>1, <2>1 DEF NoTwins
  <1> QED BY <1>1, <1>3, <1>4 DEF Elements, t

LEMMA AppTakes ==
  ASSUME NEW p, NEW c, NEW in, NEW S, ConnOK(p, c, in, S),
         NEW y, Once(y, p, c.window[2], S), y \notin Elements(c.app) \cup Elements(in)
  PROVE  ConnOK(p, [c EXCEPT !.app = Append(@, y)], in, S)
  <1> DEFINE q == Append(c.app, y)
             x == [c EXCEPT !.app = q]
  <1>1. /\ DOMAIN x = ConnFields /\ x.pc = c.pc /\ x.got = c.got /\ x.flight = c.flight
        /\ x.stash = c.stash /\ x.sendSeq = c.sendSeq /\ x.app = q /\ x.window = c.window
    BY DEF ConnOK, ConnFields
  <1>2. IsSeq(c.app) /\ NoTwins(c.app) BY DEF ConnOK
  <1>3. IsSeq(q) /\ NoTwins(q) /\ Elements(q) \subseteq Elements(c.app) \cup {y} BY <1>2, AppendOnce
  <1> HIDE DEF x, q
  <1>4. Elements(q) \cap Elements(in) = {} BY <1>3 DEF ConnOK
  <1>5. \A z \in Elements(q) \cup Elements(in) : Once(z, p, c.window[2], S) BY <1>3 DEF ConnOK
  <1>6. ConnOK(p, x, in, S) BY <1>1, <1>3, <1>4, <1>5 DEF ConnOK
  <1> QED BY <1>6 DEF x, q

LEMMA RecordTaken ==
  ASSUME NEW p, NEW c, NEW in, NEW S, ConnOK(p, c, in, S), NamesRecord(Facing(p), S),
         NEW r, RecordOK(Facing(p), r, S)
  PROVE  ConnOK(p, ProcessRecord(c, r), in, S) /\ ProcessRecord(c, r).sendSeq = c.sendSeq
  <1> DEFINE m == Marked(c, r)
             P == ProcessRecord(c, r)
  <1>1. r.epoch \in {0, 1} /\ r.typ \in {"Handshake", "ChangeCipherSpec", "ApplicationData"}
    BY DEF RecordOK
  <1>2. /\ ConnOK(p, m, in, S) /\ m.app = c.app /\ m.sendSeq = c.sendSeq
        /\ r.epoch = 1 => ~Check(m.window[2], r.seq)
    BY MarkedOK
  <1>3. CASE r.epoch = 1 /\ c.keys = NoKeys
    <2> DEFINE x == [c EXCEPT !.stash = Append(@, r)]
    <2>1. P = x BY <1>3 DEF ProcessRecord
    <2>2. /\ DOMAIN x = ConnFields /\ x.pc = c.pc /\ x.got = c.got /\ x.flight = c.flight
          /\ x.stash = Append(c.stash, r) /\ x.sendSeq = c.sendSeq /\ x.app = c.app /\ x.window = c.window
      BY DEF ConnOK, ConnFields
    <2> HIDE DEF x, P
    <2>3. RecordsOK(Facing(p), Append(c.stash, r), S)
      <3>1. RecordsOK(Facing(p), c.stash, S) BY DEF ConnOK
      <3> QED BY <3>1, AppendIs DEF RecordsOK
    <2>4. ConnOK(p, x, in, S) BY <2>2, <2>3 DEF ConnOK
    <2> QED BY <2>1, <2>2, <2>4 DEF P
  <1>4. CASE ~(r.epoch = 1 /\ c.keys = NoKeys)
    <2>1. CASE ~Check(c.window[r.epoch + 1], r.seq) \/ ~Opens(c, r)
      <3>1. P = c BY <1>1, <1>4, <2>1 DEF ProcessRecord
      <3> HIDE DEF P
      <3> QED BY <3>1 DEF P
    <2>2. CASE Check(c.window[r.epoch + 1], r.seq) /\ Opens(c, r) /\ r.typ = "Handshake"
      <3>1. P = Accept(m, r.payload, r.epoch) BY <1>1, <1>4, <2>2 DEF ProcessRecord, Marked
      <3> HIDE DEF m, P
      <3> DEFINE v == [from |-> r.payload.from, typ |-> r.payload.typ, mseq |-> r.payload.mseq,
                       body |-> r.payload.body, epoch |-> r.epoch]
                 x == [m EXCEPT !.pending = @ \cup {v}]
      <3>2. P = m \/ P = x BY <3>1 DEF Accept
      <3> HIDE DEF v
      <3>3. /\ DOMAIN x = ConnFields /\ x.pc = m.pc /\ x.got = m.got /\ x.flight = m.flight
            /\ x.stash = m.stash /\ x.sendSeq = m.sendSeq /\ x.app = m.app /\ x.window = m.window
        BY <1>2 DEF ConnOK, ConnFields
      <3> HIDE DEF x
      <3>4. ConnOK(p, x, in, S) BY <1>2, <3>3 DEF ConnOK
      <3> QED BY <1>2, <3>2, <3>3, <3>4 DEF P
    <2>3. CASE Check(c.window[r.epoch + 1], r.seq) /\ Opens(c, r) /\ r.typ = "ChangeCipherSpec"
      <3>1. P = m BY <1>1, <1>4, <2>3 DEF ProcessRecord, Marked
      <3> HIDE DEF m, P
      <3> QED BY <1>2, <3>1 DEF P
    <2>4. CASE Check(c.window[r.epoch + 1], r.seq) /\ Opens(c, r) /\ r.typ = "ApplicationData"
      <3> DEFINE y == r.payload
                 x == [m EXCEPT !.app = Append(@, y)]
                 z == [from |-> Facing(p), seq |-> r.seq, payload |-> y]
      <3>1. P = x BY <1>1, <1>4, <2>4 DEF ProcessRecord, Marked
      <3>2. r.epoch = 1 /\ y.typ = "ApplicationData" /\ z \in S /\ r.epoch + 1 = 2
        BY <2>4 DEF RecordOK
      <3>3. z.from = Facing(p) /\ z.payload = y /\ z.seq = r.seq OBVIOUS
      <3> HIDE DEF m, P, z, y
      <3>4. Once(y, p, m.window[2], S) BY <1>2, <3>2, <3>3 DEF Once
      <3>5. y \notin Elements(c.app) \cup Elements(in)
        <4> SUFFICES ASSUME y \in Elements(c.app) \cup Elements(in) PROVE FALSE OBVIOUS
        <4>1. Once(y, p, c.window[2], S) BY DEF ConnOK
        <4>2. PICK w \in S : w.from = Facing(p) /\ w.payload = y /\ ~Check(c.window[2], w.seq)
          BY <4>1 DEF Once
        <4>3. w.seq = z.seq BY <3>2, <3>3, <4>2 DEF NamesRecord
        <4> QED BY <2>4, <3>2, <3>3, <4>2, <4>3
      <3>6. ConnOK(p, x, in, S) BY <1>2, <3>4, <3>5, AppTakes
      <3>7. x.sendSeq = m.sendSeq BY <1>2 DEF ConnOK, ConnFields
      <3> HIDE DEF x
      <3> QED BY <1>2, <3>1, <3>6, <3>7 DEF P
    <2> QED BY <1>1, <2>1, <2>2, <2>3, <2>4
  <1> QED BY <1>3, <1>4

LEMMA DatagramTaken ==
  ASSUME NEW p, NEW c, NEW in, NEW S, ConnOK(p, c, in, S), NamesRecord(Facing(p), S),
         NEW d, RecordsOK(Facing(p), d, S)
  PROVE  ConnOK(p, ProcessAll(c, d), in, S) /\ ProcessAll(c, d).sendSeq = c.sendSeq
  <1>1. IsSeq(d) /\ DOMAIN d = 1 .. Len(d) /\ Len(d) \in Nat BY SeqIs DEF RecordsOK, IsSeq
  <1>2. PICK g : Passes(g, Len(d), "hears", p, c, d) /\ ProcessAll(c, d) = g[Len(d)]
    BY <1>1, ProcessAllPasses
  <1> DEFINE n == Len(d)
             OK(i) == ConnOK(p, g[i], in, S) /\ g[i].sendSeq = c.sendSeq
             A == {i \in 0 .. n : OK(i)}
  <1>3. g[0] = c /\ \A i \in 0 .. n - 1 : g[i + 1] = ProcessRecord(g[i], d[i + 1])
    BY <1>2 DEF Passes, FoldStep
  <1>4. n \in Nat /\ DOMAIN d = 1 .. n BY <1>1
  <1> HIDE DEF n
  <1>5. OK(0) BY <1>3
  <1>6. ASSUME NEW i \in 0 .. n - 1, OK(i) PROVE OK(i + 1)
    <2>1. i + 1 \in DOMAIN d BY <1>4
    <2>2. RecordOK(Facing(p), d[i + 1], S) BY <2>1 DEF RecordsOK
    <2> QED BY <1>3, <1>6, <2>2, RecordTaken
  <1> HIDE DEF OK
  <1>7. 0 \in A /\ \A i \in 0 .. n - 1 : i \in A => i + 1 \in A BY <1>4, <1>5, <1>6
  <1> HIDE DEF A
  <1>8. OK(n) BY <1>4, <1>7, StepsReach DEF A
  <1> QED BY <1>2, <1>8 DEF OK, n

----------------------------------------------------------------------------
(* What the handshake does with a connection leaves the windows, the       *)
(* record sequences and the queues for the host as they are.               *)

\* The transcript after the flight f.
HashAll(c, f) == FoldLeft(Hash, c, f)

LEMMA HashAllPasses ==
  ASSUME NEW c, NEW d, IsSeq(d), NEW p
  PROVE  \E g : Passes(g, Len(d), "hashes", p, c, d) /\ HashAll(c, d) = g[Len(d)]
  <1> DEFINE n == Len(d)
             F(h) == h = [s \in SUBSET DOMAIN d |->
                            IF s = {} THEN c ELSE Hash(h[s \ {Max(s)}], d[Max(s)])]
  <1>0. n \in Nat /\ DOMAIN d = 1 .. n BY SeqIs DEF IsSeq
  <1>1. HashAll(c, d) = (CHOOSE h : F(h))[DOMAIN d]
    BY DEF HashAll, FoldLeft, MapThenFoldSet
  <1>2. ASSUME NEW h PROVE F(h) <=> FoldsTo(n, h, "hashes", p, c, d)
    <2> DEFINE u(s) == IF s = {} THEN c ELSE Hash(h[s \ {Max(s)}], d[Max(s)])
               w(s) == IF s = {} THEN c ELSE FoldStep("hashes", p, h[s \ {Max(s)}], d[Max(s)])
    <2>1. \A s : u(s) = w(s) BY DEF FoldStep
    <2> HIDE DEF u, w
    <2>2. [s \in SUBSET DOMAIN d |-> u(s)] = [s \in SUBSET DOMAIN d |-> w(s)] BY <2>1, Zenon
    <2>3. [s \in SUBSET DOMAIN d |-> u(s)] = [s \in SUBSET (1 .. n) |-> w(s)] BY <1>0, <2>2, Zenon
    <2> QED BY <2>3, Zenon DEF FoldsTo, u, w
  <1>3. \E h : F(h) BY <1>0, <1>2, FoldsExist
  <1> DEFINE h == CHOOSE x : F(x)
  <1>4. F(h) BY <1>3
  <1> HIDE DEF F, h
  <1>5. FoldsTo(n, h, "hashes", p, c, d) BY <1>2, <1>4
  <1>6. HashAll(c, d) = h[1 .. n] BY <1>0, <1>1 DEF h
  <1> HIDE DEF n
  <1>7. PICK g : Passes(g, n, "hashes", p, c, d) /\ g[n] = h[1 .. n] BY <1>0, <1>5, FoldPasses
  <1> QED BY <1>6, <1>7 DEF n

LEMMA EmitAllPasses ==
  ASSUME NEW c, NEW d, IsSeq(d), NEW p
  PROVE  \E g : Passes(g, Len(d), "emits", p, c, d) /\ EmitAll(p, c, d) = g[Len(d)]
  <1> DEFINE n == Len(d)
             F(h) == h = [s \in SUBSET DOMAIN d |->
                            IF s = {} THEN c
                            ELSE Emit(p, h[s \ {Max(s)}], d[Max(s)], <<>>, 0, TRUE)]
  <1>0. n \in Nat /\ DOMAIN d = 1 .. n BY SeqIs DEF IsSeq
  <1>1. EmitAll(p, c, d) = (CHOOSE h : F(h))[DOMAIN d]
    BY DEF EmitAll, FoldLeft, MapThenFoldSet
  <1>2. ASSUME NEW h PROVE F(h) <=> FoldsTo(n, h, "emits", p, c, d)
    <2> DEFINE u(s) == IF s = {} THEN c ELSE Emit(p, h[s \ {Max(s)}], d[Max(s)], <<>>, 0, TRUE)
               w(s) == IF s = {} THEN c ELSE FoldStep("emits", p, h[s \ {Max(s)}], d[Max(s)])
    <2>1. \A s : u(s) = w(s) BY DEF FoldStep
    <2> HIDE DEF u, w
    <2>2. [s \in SUBSET DOMAIN d |-> u(s)] = [s \in SUBSET DOMAIN d |-> w(s)] BY <2>1, Zenon
    <2>3. [s \in SUBSET DOMAIN d |-> u(s)] = [s \in SUBSET (1 .. n) |-> w(s)] BY <1>0, <2>2, Zenon
    <2> QED BY <2>3, Zenon DEF FoldsTo, u, w
  <1>3. \E h : F(h) BY <1>0, <1>2, FoldsExist
  <1> DEFINE h == CHOOSE x : F(x)
  <1>4. F(h) BY <1>3
  <1> HIDE DEF F, h
  <1>5. FoldsTo(n, h, "emits", p, c, d) BY <1>2, <1>4
  <1>6. EmitAll(p, c, d) = h[1 .. n] BY <1>0, <1>1 DEF h
  <1> HIDE DEF n
  <1>7. PICK g : Passes(g, n, "emits", p, c, d) /\ g[n] = h[1 .. n] BY <1>0, <1>5, FoldPasses
  <1> QED BY <1>6, <1>7 DEF n

\* A connection in order, with n records sent.
ConnAt(p, c, in, S, n) == ConnOK(p, c, in, S) /\ c.sendSeq = n

LEMMA Retouched ==
  ASSUME NEW p, NEW c, NEW in, NEW S, NEW n, ConnAt(p, c, in, S, n), NEW x,
         DOMAIN x = ConnFields, x.pc \in States(p), IsSeq(x.got), FlightOK(x.flight),
         x.stash = c.stash, x.window = c.window, x.sendSeq = c.sendSeq, x.app = c.app
  PROVE  ConnAt(p, x, in, S, n)
  BY DEF ConnAt, ConnOK

LEMMA FlightGrows ==
  ASSUME NEW q, FlightOK(q), NEW x, SpecOK(x) PROVE FlightOK(Append(q, x))
  BY AppendIs DEF FlightOK

LEMMA EmitOK ==
  ASSUME NEW p, NEW c, NEW in, NEW S, NEW n, ConnAt(p, c, in, S, n),
         NEW typ, typ # "ApplicationData", NEW body, NEW epoch \in {0, 1}, NEW hashed
  PROVE  ConnAt(p, Emit(p, c, typ, body, epoch, hashed), in, S, n)
  <1> DEFINE m == Message(p, typ, c.msgSeq, body)
             s == IF hashed THEN Append(c.script, typ) ELSE c.script
             f == Append(c.flight, [typ |-> "Handshake", epoch |-> epoch, payload |-> m])
             x == [c EXCEPT !.msgSeq = @ + 1, !.script = s, !.flight = f]
  <1>1. Emit(p, c, typ, body, epoch, hashed) = x BY DEF Emit, Of
  <1>2. FlightOK(f)
    <2>1. SpecOK([typ |-> "Handshake", epoch |-> epoch, payload |-> m]) BY DEF SpecOK, Message
    <2>2. FlightOK(c.flight) BY DEF ConnAt, ConnOK
    <2> QED BY <2>1, <2>2, FlightGrows
  <1> HIDE DEF m, s, f
  <1>3. /\ DOMAIN x = ConnFields /\ x.pc = c.pc /\ x.got = c.got /\ x.flight = f
        /\ x.stash = c.stash /\ x.window = c.window /\ x.sendSeq = c.sendSeq /\ x.app = c.app
    BY DEF ConnAt, ConnOK, ConnFields
  <1> HIDE DEF x
  <1>4. c.pc \in States(p) /\ IsSeq(c.got) BY DEF ConnAt, ConnOK
  <1>5. ConnAt(p, x, in, S, n) BY <1>2, <1>3, <1>4, Retouched
  <1> QED BY <1>1, <1>5

LEMMA FinishOK ==
  ASSUME NEW p, NEW c, NEW in, NEW S, NEW n, ConnAt(p, c, in, S, n)
  PROVE  ConnAt(p, Finish(p, c), in, S, n)
  <1>1. Finish(p, c) = Emit(p, c, "Finished", c.script, 1, TRUE) BY DEF Finish, Of
  <1> QED BY <1>1, EmitOK

LEMMA TouchesOK ==
  ASSUME NEW p, NEW c, NEW in, NEW S, NEW n, ConnAt(p, c, in, S, n)
  PROVE  /\ ConnAt(p, ChangeCipherSpec(p, c), in, S, n)
         /\ \A m : ConnAt(p, Hash(c, m), in, S, n)
         /\ ConnAt(p, Fresh(c), in, S, n) /\ ConnAt(p, Abort(c), in, S, n)
         /\ \A pc \in States(p) : ConnAt(p, Reading(c, pc), in, S, n)
                                  /\ ConnAt(p, [c EXCEPT !.pc = pc], in, S, n)
  <1>1. /\ DOMAIN c = ConnFields /\ c.pc \in States(p) /\ IsSeq(c.got) /\ FlightOK(c.flight)
        /\ "ended" \in States(p)
    BY DEF ConnAt, ConnOK, States
  <1>2. FlightOK(<<>>) /\ IsSeq(<<>>) BY EmptyIs DEF FlightOK
  <1>3. ConnAt(p, ChangeCipherSpec(p, c), in, S, n)
    <2> DEFINE s == [typ |-> "ChangeCipherSpec", epoch |-> 0, payload |-> Unframed(p, "ChangeCipherSpec", 0)]
               f == Append(c.flight, s)
               x == [c EXCEPT !.flight = f]
    <2>1. SpecOK(s) BY DEF SpecOK, Unframed, Message
    <2>2. FlightOK(f) BY <1>1, <2>1, FlightGrows
    <2>3. ChangeCipherSpec(p, c) = x BY DEF ChangeCipherSpec
    <2> HIDE DEF s, f
    <2>4. ConnAt(p, x, in, S, n) BY <1>1, <2>2, Retouched DEF ConnFields
    <2> QED BY <2>3, <2>4
  <1>4. ASSUME NEW m PROVE ConnAt(p, Hash(c, m), in, S, n)
    BY <1>1, Retouched DEF Hash, ConnFields
  <1>5. ConnAt(p, Fresh(c), in, S, n) BY <1>1, <1>2, Retouched DEF Fresh, ConnFields
  <1>6. ConnAt(p, Abort(c), in, S, n) BY <1>1, <1>2, Retouched DEF Abort, ConnFields
  <1>7. ASSUME NEW pc \in States(p)
        PROVE  ConnAt(p, Reading(c, pc), in, S, n) /\ ConnAt(p, [c EXCEPT !.pc = pc], in, S, n)
    BY <1>1, <1>2, Retouched DEF Reading, ConnFields
  <1> QED BY <1>3, <1>4, <1>5, <1>6, <1>7

LEMMA EmitAllOK ==
  ASSUME NEW p, NEW c, NEW in, NEW S, NEW n, ConnAt(p, c, in, S, n),
         NEW d, IsSeq(d), \A t \in Elements(d) : t # "ApplicationData"
  PROVE  ConnAt(p, EmitAll(p, c, d), in, S, n)
  <1>1. DOMAIN d = 1 .. Len(d) /\ Len(d) \in Nat BY SeqIs DEF IsSeq
  <1>2. PICK g : Passes(g, Len(d), "emits", p, c, d) /\ EmitAll(p, c, d) = g[Len(d)]
    BY EmitAllPasses
  <1> DEFINE k == Len(d)
             OK(i) == ConnAt(p, g[i], in, S, n)
             A == {i \in 0 .. k : OK(i)}
  <1>3. g[0] = c /\ \A i \in 0 .. k - 1 : g[i + 1] = Emit(p, g[i], d[i + 1], <<>>, 0, TRUE)
    BY <1>2 DEF Passes, FoldStep
  <1>4. k \in Nat /\ DOMAIN d = 1 .. k BY <1>1
  <1> HIDE DEF k
  <1>5. OK(0) BY <1>3
  <1>6. ASSUME NEW i \in 0 .. k - 1, OK(i) PROVE OK(i + 1)
    <2>1. i + 1 \in DOMAIN d BY <1>4
    <2>2. d[i + 1] # "ApplicationData" BY <2>1 DEF Elements
    <2>3. ConnAt(p, Emit(p, g[i], d[i + 1], <<>>, 0, TRUE), in, S, n) BY <1>6, <2>2, EmitOK
    <2> QED BY <1>3, <2>3
  <1> HIDE DEF OK
  <1>7. 0 \in A /\ \A i \in 0 .. k - 1 : i \in A => i + 1 \in A BY <1>4, <1>5, <1>6
  <1> HIDE DEF A
  <1>8. OK(k) BY <1>4, <1>7, StepsReach DEF A
  <1> QED BY <1>2, <1>8 DEF OK, k

LEMMA HashAllOK ==
  ASSUME NEW p, NEW c, NEW in, NEW S, NEW n, ConnAt(p, c, in, S, n), NEW d, IsSeq(d)
  PROVE  ConnAt(p, HashAll(c, d), in, S, n)
  <1>1. DOMAIN d = 1 .. Len(d) /\ Len(d) \in Nat BY SeqIs DEF IsSeq
  <1>2. PICK g : Passes(g, Len(d), "hashes", p, c, d) /\ HashAll(c, d) = g[Len(d)]
    BY HashAllPasses
  <1> DEFINE k == Len(d)
             OK(i) == ConnAt(p, g[i], in, S, n)
             A == {i \in 0 .. k : OK(i)}
  <1>3. g[0] = c /\ \A i \in 0 .. k - 1 : g[i + 1] = Hash(g[i], d[i + 1])
    BY <1>2 DEF Passes, FoldStep
  <1>4. k \in Nat /\ DOMAIN d = 1 .. k BY <1>1
  <1> HIDE DEF k
  <1>5. OK(0) BY <1>3
  <1>6. ASSUME NEW i \in 0 .. k - 1, OK(i) PROVE OK(i + 1)
    BY <1>3, <1>6, TouchesOK
  <1> HIDE DEF OK
  <1>7. 0 \in A /\ \A i \in 0 .. k - 1 : i \in A => i + 1 \in A BY <1>4, <1>5, <1>6
  <1> HIDE DEF A
  <1>8. OK(k) BY <1>4, <1>7, StepsReach DEF A
  <1> QED BY <1>2, <1>8 DEF OK, k

LEMMA KeyedOK ==
  ASSUME NEW p, NEW c, NEW in, NEW S, NEW n, ConnAt(p, c, in, S, n), NamesRecord(Facing(p), S)
  PROVE  ConnAt(p, Keyed(c), in, S, n)
  <1> DEFINE x == [c EXCEPT !.stash = <<>>, !.keys = Master(c.script)]
  <1>1. Keyed(c) = ProcessAll(x, c.stash) BY DEF Keyed, Of
  <1>2. /\ DOMAIN x = ConnFields /\ x.pc = c.pc /\ x.got = c.got /\ x.flight = c.flight
        /\ x.stash = <<>> /\ x.window = c.window /\ x.sendSeq = c.sendSeq /\ x.app = c.app
    BY DEF ConnAt, ConnOK, ConnFields
  <1> HIDE DEF x
  <1>3. RecordsOK(Facing(p), <<>>, S) BY EmptyIs DEF RecordsOK
  <1>4. ConnOK(p, x, in, S) BY <1>2, <1>3 DEF ConnAt, ConnOK
  <1>5. RecordsOK(Facing(p), c.stash, S) BY DEF ConnAt, ConnOK
  <1>6. ConnOK(p, ProcessAll(x, c.stash), in, S) /\ ProcessAll(x, c.stash).sendSeq = x.sendSeq
    BY <1>4, <1>5, DatagramTaken
  <1> QED BY <1>1, <1>2, <1>6 DEF ConnAt

LEMMA ClientGotOK ==
  ASSUME NEW c, NEW in, NEW S, NEW n, ConnAt("client", c, in, S, n), NamesRecord("server", S),
         NEW f, IsSeq(f), c.pc \in {"hvr", "f4", "f6"}
  PROVE  ConnAt("client", ClientGot(c, f), in, S, n)
  <1> DEFINE OK(x) == ConnAt("client", x, in, S, n)
  <1>1. Facing("client") = "server" /\ {"f4", "f6", "done"} \subseteq States("client")
    BY DEF Facing, States
  <1>2. \A x : OK(x) => /\ OK(Fresh(x)) /\ OK(Abort(x)) /\ OK(HashAll(x, f)) /\ OK(Keyed(x))
                        /\ OK(Finish("client", x)) /\ OK(ChangeCipherSpec("client", x))
                        /\ OK(Reading(x, "f4")) /\ OK(Reading(x, "f6")) /\ OK([x EXCEPT !.pc = "done"])
                        /\ \A m : OK(Hash(x, m))
    BY <1>1, TouchesOK, HashAllOK, KeyedOK, FinishOK
  <1>3. \A x, b : OK(x) => /\ OK(Emit("client", x, "ClientHello", b, 0, TRUE))
                           /\ OK(Emit("client", x, "Certificate", b, 0, TRUE))
                           /\ OK(Emit("client", x, "ClientKeyExchange", b, 0, TRUE))
    BY EmitOK
  <1>4. \A x : OK(x) => OK(EmitAll("client", x, <<"CertificateVerify">>))
    <2>1. IsSeq(<<"CertificateVerify">>) /\ \A t \in Elements(<<"CertificateVerify">>) : t # "ApplicationData"
      BY SingleIs DEF Elements
    <2> QED BY <2>1, EmitAllOK
  <1>5. OK(c) OBVIOUS
  <1> HIDE DEF OK
  <1>6. CASE c.pc = "hvr"
    <2>1. ClientGot(c, f) = Reading(Emit("client", Fresh(c), "ClientHello", Cookie, 0, TRUE), "f4")
      BY <1>6 DEF ClientGot
    <2> QED BY <1>2, <1>3, <1>5, <2>1 DEF OK
  <1>7. CASE c.pc = "f4"
    <2> DEFINE asked == Has(f, "CertificateRequest")
               heard == HashAll(Fresh(c), f)
               certed == IF asked THEN Emit("client", heard, "Certificate", CertBody, 0, TRUE) ELSE heard
               keyed == Keyed(Emit("client", certed, "ClientKeyExchange", <<>>, 0, TRUE))
               proven == IF asked /\ dtlsCase.hasCert
                         THEN EmitAll("client", keyed, <<"CertificateVerify">>) ELSE keyed
    <2>1. ClientGot(c, f) = Reading(Finish("client", ChangeCipherSpec("client", proven)), "f6")
      BY <1>7 DEF ClientGot, HashAll
    <2>2. OK(certed) BY <1>2, <1>3, <1>5
    <2>3. OK(keyed)
      <3> HIDE DEF certed
      <3> QED BY <1>2, <1>3, <2>2
    <2>4. OK(proven)
      <3> HIDE DEF keyed
      <3> QED BY <1>4, <2>3
    <2> HIDE DEF proven
    <2> QED BY <1>2, <2>1, <2>4 DEF OK
  <1>8. CASE c.pc = "f6"
    <2> DEFINE fin == The(f, "Finished")
    <2>1. ClientGot(c, f) = [Hash(Fresh(c), fin) EXCEPT !.pc = "done"] \/ ClientGot(c, f) = Abort(c)
      BY <1>8 DEF ClientGot
    <2> HIDE DEF fin
    <2> QED BY <1>2, <1>5, <2>1 DEF OK
  <1> QED BY <1>6, <1>7, <1>8

LEMMA ServerFlightOK ==
  IsSeq(ServerFlight4) /\ \A t \in Elements(ServerFlight4) : t # "ApplicationData"
  <1> DEFINE T == {"ServerHello", "Certificate", "ServerKeyExchange", "CertificateRequest",
                   "ServerHelloDone"}
             OK(q) == IsSeq(q) /\ Elements(q) \subseteq T
  <1>1. \A t \in T : OK(<<t>>) BY SingleIs DEF Elements
  <1>2. OK(<<>>) BY EmptyIs DEF Elements
  <1>3. \A q, r : OK(q) /\ OK(r) => OK(q \o r) BY ConcatIs
  <1>4. \A b \in BOOLEAN : \A t \in T : OK(IF b THEN <<t>> ELSE <<>>) BY <1>1, <1>2
  <1> DEFINE x1 == <<"ServerHello">>
             x2 == IF IsCert(dtlsCase.kx) THEN <<"Certificate">> ELSE <<>>
             x3 == IF dtlsCase.kx = "ecdhe" THEN <<"ServerKeyExchange">> ELSE <<>>
             x4 == IF IsCert(dtlsCase.kx) /\ dtlsCase.required THEN <<"CertificateRequest">> ELSE <<>>
             x5 == <<"ServerHelloDone">>
  <1>5. OK(x1) /\ OK(x2) /\ OK(x3) /\ OK(x4) /\ OK(x5) BY <1>1, <1>2
  <1>6. ServerFlight4 = x1 \o x2 \o x3 \o x4 \o x5 BY DEF ServerFlight4
  <1>7. \A q : OK(q) => IsSeq(q) /\ \A t \in Elements(q) : t # "ApplicationData" OBVIOUS
  <1> HIDE DEF OK, x1, x2, x3, x4, x5
  <1>8. OK(x1 \o x2 \o x3 \o x4 \o x5) BY <1>3, <1>5
  <1> QED BY <1>6, <1>7, <1>8

LEMMA ServerGotOK ==
  ASSUME NEW c, NEW in, NEW S, NEW n, ConnAt("server", c, in, S, n), NamesRecord("client", S),
         NEW f, c.pc \in {"f1", "f3", "f5a", "f5b"}
  PROVE  ConnAt("server", ServerGot(c, f), in, S, n)
  <1> DEFINE OK(x) == ConnAt("server", x, in, S, n)
  <1>1. Facing("server") = "client" /\ {"f3", "f5a", "f5b", "done"} \subseteq States("server")
    BY DEF Facing, States
  <1>2. \A x : OK(x) => /\ OK(Fresh(x)) /\ OK(Abort(x)) /\ OK(Keyed(x))
                        /\ OK(Finish("server", x)) /\ OK(ChangeCipherSpec("server", x))
                        /\ OK(Reading(x, "f3")) /\ OK(Reading(x, "f5a")) /\ OK(Reading(x, "f5b"))
                        /\ OK([x EXCEPT !.pc = "done"]) /\ \A m : OK(Hash(x, m))
    BY <1>1, TouchesOK, KeyedOK, FinishOK
  <1>3. \A x, b, h : OK(x) => OK(Emit("server", x, "HelloVerifyRequest", b, 0, h)) BY EmitOK
  <1>4. \A x : OK(x) => OK(EmitAll("server", x, ServerFlight4)) BY ServerFlightOK, EmitAllOK
  <1>5. OK(c) OBVIOUS
  <1> HIDE DEF OK
  <1>6. CASE c.pc = "f1"
    <2>1. ServerGot(c, f) = OnHello(c) BY <1>6 DEF ServerGot
    <2>2. OK(OnHello(c)) BY <1>2, <1>3, <1>5 DEF OnHello
    <2> QED BY <2>1, <2>2 DEF OK
  <1>7. CASE c.pc = "f3"
    <2>1. ServerGot(c, f) = OnCookie(c, f) BY <1>7 DEF ServerGot
    <2>2. OK(OnCookie(c, f)) BY <1>2, <1>4, <1>5 DEF OnCookie
    <2> QED BY <2>1, <2>2 DEF OK
  <1>8. CASE c.pc = "f5a"
    <2>1. ServerGot(c, f) = OnKeyExchange(c, f) BY <1>8 DEF ServerGot
    <2>2. OK(OnKeyExchange(c, f))
      <3> DEFINE certed == IF Has(f, "Certificate") THEN Hash(c, The(f, "Certificate")) ELSE c
      <3>1. OK(certed) BY <1>2, <1>5
      <3>2. OnKeyExchange(c, f) = Abort(c)
            \/ OnKeyExchange(c, f) = Reading(Keyed(Hash(certed, The(f, "ClientKeyExchange"))), "f5b")
        BY DEF OnKeyExchange
      <3> HIDE DEF certed
      <3> QED BY <1>2, <1>5, <3>1, <3>2
    <2> QED BY <2>1, <2>2 DEF OK
  <1>9. CASE c.pc = "f5b"
    <2>1. ServerGot(c, f) = OnFinished(c, f) BY <1>9 DEF ServerGot
    <2>2. OK(OnFinished(c, f))
      <3> DEFINE fin == The(f, "Finished")
                 heard == IF Has(f, "CertificateVerify") THEN Hash(c, The(f, "CertificateVerify")) ELSE c
      <3>1. OK(heard) BY <1>2, <1>5
      <3>2. OnFinished(c, f) = Abort(c)
            \/ OnFinished(c, f)
                 = [Finish("server", ChangeCipherSpec("server", Hash(Fresh(heard), fin))) EXCEPT !.pc = "done"]
        BY DEF OnFinished
      <3> HIDE DEF heard, fin
      <3> QED BY <1>2, <1>5, <3>1, <3>2
    <2> QED BY <2>1, <2>2 DEF OK
  <1> QED BY <1>6, <1>7, <1>8, <1>9

----------------------------------------------------------------------------
(* What an end seals: as many records as it counts, under the sequences    *)
(* that follow those it has used.                                          *)

\* What send_flight or the relay may send.
SendableOK(q) ==
  /\ IsSeq(q)
  /\ \A i \in DOMAIN q :
       /\ q[i].epoch \in {0, 1}
       /\ q[i].typ \in {"Handshake", "ChangeCipherSpec", "ApplicationData"}
       /\ q[i].typ = "ApplicationData" => q[i].epoch = 1 /\ q[i].payload.typ = "ApplicationData"

\* The specs of q that are sealed under epoch e, all of them and those before i.
AllOf(q, e) == {i \in DOMAIN q : q[i].epoch = e}
Before(q, e, i) == {j \in 1 .. i - 1 : q[j].epoch = e}

LEMMA BeforeCounts ==
  ASSUME NEW q, IsSeq(q), NEW e
  PROVE  /\ IsFiniteSet(AllOf(q, e)) /\ Cardinality(AllOf(q, e)) \in Nat
         /\ \A i \in DOMAIN q : Cardinality(Before(q, e, i)) \in Nat
         /\ \A i \in AllOf(q, e) : Cardinality(Before(q, e, i)) < Cardinality(AllOf(q, e))
         /\ \A i, k \in AllOf(q, e) : i < k => Cardinality(Before(q, e, i)) < Cardinality(Before(q, e, k))
  <1> DEFINE n == Len(q)
  <1>1. n \in Nat /\ DOMAIN q = 1 .. n BY SeqIs DEF IsSeq
  <1> HIDE DEF n
  <1>2. IsFiniteSet(AllOf(q, e))
    <2>1. IsFiniteSet(1 .. n) BY <1>1, FS_Interval
    <2>2. AllOf(q, e) \in SUBSET (1 .. n) BY <1>1 DEF AllOf
    <2> QED BY <2>1, <2>2, FS_Subset
  <1>3. \A i \in DOMAIN q : Before(q, e, i) \in SUBSET AllOf(q, e) BY <1>1 DEF AllOf, Before
  <1>4. \A i \in DOMAIN q : IsFiniteSet(Before(q, e, i)) /\ Cardinality(Before(q, e, i)) \in Nat
    BY <1>2, <1>3, FS_Subset, FS_CardinalityType
  <1>5. Cardinality(AllOf(q, e)) \in Nat BY <1>2, FS_CardinalityType
  <1>6. ASSUME NEW A, NEW B, IsFiniteSet(B), A \in SUBSET B, A # B PROVE Cardinality(A) < Cardinality(B)
    <2>1. IsFiniteSet(A) /\ Cardinality(A) <= Cardinality(B) /\ Cardinality(A) # Cardinality(B)
      BY <1>6, FS_Subset
    <2>2. Cardinality(A) \in Nat /\ Cardinality(B) \in Nat BY <1>6, <2>1, FS_CardinalityType
    <2> QED BY <2>1, <2>2
  <1>7. ASSUME NEW i \in AllOf(q, e) PROVE Cardinality(Before(q, e, i)) < Cardinality(AllOf(q, e))
    <2>1. i \in DOMAIN q /\ i \notin Before(q, e, i) BY <1>1 DEF AllOf, Before
    <2> QED BY <1>2, <1>3, <1>6, <1>7, <2>1
  <1>8. ASSUME NEW i \in AllOf(q, e), NEW k \in AllOf(q, e), i < k
        PROVE  Cardinality(Before(q, e, i)) < Cardinality(Before(q, e, k))
    <2>1. /\ k \in DOMAIN q /\ i \in Before(q, e, k) /\ i \notin Before(q, e, i)
          /\ Before(q, e, i) \in SUBSET Before(q, e, k)
      BY <1>1, <1>8 DEF AllOf, Before
    <2> QED BY <1>4, <1>6, <2>1
  <1> QED BY <1>2, <1>4, <1>5, <1>7, <1>8

\* What is sealed of a datagram from end p.
SealsOf(p, R) == {[from |-> p, seq |-> r.seq, payload |-> r.payload] :
                    r \in {x \in {R[i] : i \in DOMAIN R} : x.epoch = 1}}

LEMMA RecordsSeal ==
  ASSUME NEW p, NEW c, NEW q, SendableOK(q), c.sendSeq[1] \in Nat, c.sendSeq[2] \in Nat
  PROVE  LET R == Records(c, q)
             N == SealsOf(p, R)
             k == Cardinality(AllOf(q, 1))
         IN /\ k \in Nat /\ IsFiniteSet(N) /\ Cardinality(N) = k
            /\ \A x \in N : /\ DOMAIN x = {"from", "seq", "payload"} /\ x.from = p
                            /\ x.seq \in c.sendSeq[2] .. c.sendSeq[2] + k - 1
                            /\ \E i \in DOMAIN q : x.payload = q[i].payload /\ q[i].epoch = 1
            /\ \A x, y \in N : x.seq = y.seq => x = y
            /\ \A S : N \subseteq S => RecordsOK(p, R, S)
  <1> DEFINE R == Records(c, q)
             N == SealsOf(p, R)
             I == AllOf(q, 1)
             k == Cardinality(I)
             b == c.sendSeq[2]
             at(i) == b + Cardinality(Before(q, 1, i))
             el(i) == [from |-> p, seq |-> at(i), payload |-> q[i].payload]
  <1>1. IsSeq(q) /\ DOMAIN q = 1 .. Len(q) /\ Len(q) \in Nat BY SeqIs DEF SendableOK, IsSeq
  <1>2. /\ IsFiniteSet(I) /\ k \in Nat
        /\ \A i \in I : Cardinality(Before(q, 1, i)) \in Nat /\ Cardinality(Before(q, 1, i)) < k
        /\ \A i, j \in I : i < j => Cardinality(Before(q, 1, i)) < Cardinality(Before(q, 1, j))
        /\ \A i \in DOMAIN q, e \in {0, 1} : Cardinality(Before(q, e, i)) \in Nat
    BY <1>1, BeforeCounts DEF AllOf
  <1>3. /\ DOMAIN R = DOMAIN q
        /\ \A i \in DOMAIN q : /\ R[i].typ = q[i].typ /\ R[i].epoch = q[i].epoch
                               /\ R[i].payload = q[i].payload
                               /\ R[i].seq = c.sendSeq[q[i].epoch + 1] + Cardinality(Before(q, q[i].epoch, i))
    BY DEF Records, Sealed, Before
  <1>4. \A i \in DOMAIN q : R[i].seq \in Int
    <2> TAKE i \in DOMAIN q
    <2>1. q[i].epoch \in {0, 1} BY DEF SendableOK
    <2>2. c.sendSeq[q[i].epoch + 1] \in Nat BY <2>1
    <2>3. Cardinality(Before(q, q[i].epoch, i)) \in Nat BY <1>2, <2>1
    <2> QED BY <1>3, <2>2, <2>3
  <1>5. IsSeq(R)
    <2>1. R = [i \in 1 .. Len(q) |-> R[i]] BY <1>1 DEF Records
    <2>2. \A i \in 1 .. Len(q) : R[i] \in Elements(R) BY <1>1, <1>3 DEF Elements
    <2> HIDE DEF R
    <2> QED BY <1>1, <2>1, <2>2, IsASeq DEF IsSeq
  <1> HIDE DEF R
  <1>6. N = {el(i) : i \in I}
    <2>1. \A i \in I : i \in DOMAIN q /\ R[i].epoch = 1 /\ R[i].seq = at(i) /\ R[i].payload = q[i].payload
      BY <1>3 DEF AllOf
    <2>2. \A i \in DOMAIN R : R[i].epoch = 1 => i \in I BY <1>3 DEF AllOf
    <2> HIDE DEF at, I
    <2> QED BY <1>3, <2>1, <2>2 DEF SealsOf
  <1>7. \A i \in I : at(i) \in b .. b + k - 1 /\ at(i) \in Int
    <2> HIDE DEF k, I
    <2> QED BY <1>2
  <1>8. \A i, j \in I : at(i) = at(j) => i = j
    <2> SUFFICES ASSUME NEW i \in I, NEW j \in I, at(i) = at(j), i # j PROVE FALSE OBVIOUS
    <2>1. i \in Int /\ j \in Int BY <1>1 DEF AllOf
    <2>2. i < j \/ j < i BY <2>1
    <2>3. Cardinality(Before(q, 1, i)) = Cardinality(Before(q, 1, j)) BY <1>2
    <2> HIDE DEF I
    <2> QED BY <1>2, <2>2, <2>3
  <1>9. IsFiniteSet(N) /\ Cardinality(N) = k
    <2> DEFINE f == [i \in I |-> el(i)]
    <2> HIDE DEF at, N, I
    <2>1. f \in Surjection(I, N) BY <1>6 DEF Surjection
    <2>2. f \in Injection(I, N) BY <1>6, <1>8 DEF Injection, IsInjective
    <2> HIDE DEF f
    <2> QED BY <1>2, <2>1, <2>2, FS_Surjection
  <1>10. ASSUME NEW x \in N
         PROVE  /\ DOMAIN x = {"from", "seq", "payload"} /\ x.from = p /\ x.seq \in b .. b + k - 1
                /\ \E i \in DOMAIN q : x.payload = q[i].payload /\ q[i].epoch = 1
    <2>1. PICK i \in I : x = el(i)
      <3> HIDE DEF el
      <3> QED BY <1>6, <1>10
    <2>2. i \in DOMAIN q /\ q[i].epoch = 1 BY DEF AllOf
    <2>3. x.seq = at(i) /\ x.payload = q[i].payload /\ x.from = p /\ DOMAIN x = {"from", "seq", "payload"}
      BY <2>1
    <2> HIDE DEF at, k, b, I
    <2> QED BY <1>7, <2>2, <2>3
  <1>11. ASSUME NEW S, N \subseteq S PROVE RecordsOK(p, R, S)
    <2> SUFFICES ASSUME NEW i \in DOMAIN q PROVE RecordOK(p, R[i], S) BY <1>3, <1>5 DEF RecordsOK
    <2>1. R[i].epoch = 1 => [from |-> p, seq |-> R[i].seq, payload |-> R[i].payload] \in N
      BY <1>3 DEF SealsOf
    <2>2. /\ R[i].epoch \in {0, 1} /\ R[i].typ \in {"Handshake", "ChangeCipherSpec", "ApplicationData"}
          /\ R[i].typ = "ApplicationData" => R[i].epoch = 1 /\ R[i].payload.typ = "ApplicationData"
      BY <1>3 DEF SendableOK
    <2> HIDE DEF N
    <2> QED BY <1>4, <1>11, <2>1, <2>2 DEF RecordOK
  <1>12. ASSUME NEW x \in N, NEW y \in N, x.seq = y.seq PROVE x = y
    <2>1. PICK i \in I : x = el(i)
      <3> HIDE DEF el
      <3> QED BY <1>6, <1>12
    <2>2. PICK j \in I : y = el(j)
      <3> HIDE DEF el
      <3> QED BY <1>6, <1>12
    <2>3. x.seq = at(i) /\ y.seq = at(j) BY <2>1, <2>2
    <2> HIDE DEF el, at, I
    <2>4. i = j BY <1>8, <1>12, <2>3
    <2> QED BY <2>1, <2>2, <2>4
  <1> QED BY <1>2, <1>9, <1>10, <1>11, <1>12 DEF R, N, k, I, b

LEMMA RecordsGrow ==
  ASSUME NEW f, NEW q, NEW S, NEW T, S \subseteq T, RecordsOK(f, q, S) PROVE RecordsOK(f, q, T)
  BY DEF RecordsOK, RecordOK

LEMMA ConnGrows ==
  ASSUME NEW p, NEW c, NEW in, NEW S, NEW T, S \subseteq T, ConnOK(p, c, in, S) PROVE ConnOK(p, c, in, T)
  <1>1. RecordsOK(Facing(p), c.stash, T) BY RecordsGrow DEF ConnOK
  <1>2. \A y : Once(y, p, c.window[2], S) => Once(y, p, c.window[2], T) BY DEF Once
  <1> QED BY <1>1, <1>2 DEF ConnOK

LEMMA SealsName ==
  ASSUME NEW p, NEW S, NEW n \in Nat, NEW m, NEW out, SealedOK(p, S, n, m, out) PROVE NamesRecord(p, S)
  <1> SUFFICES ASSUME NEW x \in S, x.from = p
               PROVE  /\ x.seq \in Int
                      /\ x.payload.typ = "ApplicationData" =>
                           \A y \in S : y.from = p /\ y.payload = x.payload => y.seq = x.seq
    BY DEF NamesRecord
  <1>1. x.seq \in 0 .. n - 1 BY DEF SealedOK
  <1>2. x.seq \in Int BY <1>1
  <1> QED BY <1>2 DEF SealedOK

\* What the other end seals leaves an end in order.
LEMMA OthersSeal ==
  ASSUME NEW p, NEW S, NEW N, NEW n, NEW m, NEW out, SealedOK(p, S, n, m, out),
         \A x \in N : x.from # p
  PROVE  SealedOK(p, S \cup N, n, m, out)
  <1>1. {x \in S \cup N : x.from = p} = {x \in S : x.from = p} OBVIOUS
  <1>2. \A x \in S \cup N : x.from = p => x \in S OBVIOUS
  <1>3. SeqsApart(p, S \cup N) BY <1>2 DEF SealedOK, SeqsApart
  <1> QED BY <1>1, <1>2, <1>3 DEF SealedOK

\* What an end seals: k records more, and a datagram among them only alone and
\* taken out of the queue.
LEMMA SealsAdd ==
  ASSUME NEW p, NEW S, IsFiniteSet(S), NEW N, IsFiniteSet(N), NEW n \in Nat, NEW k \in Nat,
         NEW m, NEW out, NEW rest, SealedOK(p, S, n, m, out), Cardinality(N) = k,
         IsSeq(rest), NoTwins(rest), Elements(rest) \subseteq Elements(out),
         \A x \in N : /\ x.from = p /\ x.seq \in n .. n + k - 1
                      /\ x.payload.typ = "ApplicationData" =>
                           k = 1 /\ x.payload \in Elements(out) /\ x.payload \notin Elements(rest),
         \A x, y \in N : x.seq = y.seq => x = y
  PROVE  SealedOK(p, S \cup N, n + k, m, rest)
  <1> DEFINE A == {x \in S : x.from = p}
             T == S \cup N
  <1>1. m \in Nat /\ IsSeq(out) /\ Cardinality(A) = n
        /\ \A y \in Elements(out) : y.typ = "ApplicationData" /\ y.mseq \in 0 .. m - 1
    BY DEF SealedOK
  <1>2. /\ \A x \in S : x.from = p => x.seq \in 0 .. n - 1
        /\ \A x, y \in S : x.from = p /\ y.from = p /\ x.seq = y.seq => x = y
    BY DEF SealedOK, SeqsApart
  <1>3. A \cap N = {}
    <2> SUFFICES ASSUME NEW x \in A, x \in N PROVE FALSE OBVIOUS
    <2>1. x.seq \in 0 .. n - 1 /\ x.seq \in n .. n + k - 1 BY <1>2
    <2> QED BY <2>1
  <1>4. {x \in T : x.from = p} = A \cup N OBVIOUS
  <1>5. Cardinality(A \cup N) = n + k
    <2>1. IsFiniteSet(A) /\ A \cap N \in SUBSET A BY FS_Subset
    <2>2. Cardinality(A \cup N) = Cardinality(A) + Cardinality(N) - Cardinality(A \cap N)
      BY <2>1, FS_Union
    <2>3. Cardinality(A \cap N) = 0 BY <1>3, FS_EmptySet
    <2> HIDE DEF A
    <2> QED BY <1>1, <2>2, <2>3
  <1>6. ASSUME NEW x \in T, x.from = p PROVE x.seq \in 0 .. n + k - 1
    <2>1. x.seq \in 0 .. n - 1 \/ x.seq \in n .. n + k - 1 BY <1>2, <1>6
    <2> QED BY <2>1
  <1>7. ASSUME NEW x \in T, x.from = p, x.payload.typ = "ApplicationData"
        PROVE  /\ x.payload.mseq \in 0 .. m - 1 /\ x.payload \notin Elements(rest)
               /\ \A y \in T : y.from = p /\ y.payload = x.payload => x.seq = y.seq
    <2>1. \A y \in S : y.from = p /\ y.payload.typ = "ApplicationData" =>
            /\ y.payload.mseq \in 0 .. m - 1 /\ y.payload \notin Elements(out)
            /\ \A z \in S : z.from = p /\ z.payload = y.payload => y.seq = z.seq
      BY DEF SealedOK
    <2>2. CASE x \in S
      <3>1. \A y \in N : y.payload # x.payload BY <1>7, <2>1, <2>2
      <3> QED BY <1>7, <2>1, <2>2, <3>1
    <2>3. CASE x \in N
      <3>1. k = 1 /\ x.payload \in Elements(out) /\ x.payload \notin Elements(rest) BY <1>7, <2>3
      <3>2. \A y \in N : x.seq = y.seq
        <4> TAKE y \in N
        <4>1. x.seq \in n .. n + 1 - 1 /\ y.seq \in n .. n + 1 - 1 BY <2>3, <3>1
        <4> QED BY <4>1
      <3>3. \A y \in S : y.from = p => y.payload # x.payload BY <1>7, <2>1, <3>1
      <3> QED BY <1>1, <3>1, <3>2, <3>3
    <2> QED BY <2>2, <2>3
  <1>8. \A y \in Elements(rest) : y.typ = "ApplicationData" /\ y.mseq \in 0 .. m - 1 BY <1>1
  <1> HIDE DEF A
  <1>9. Cardinality({x \in T : x.from = p}) = n + k BY <1>4, <1>5
  <1>10. \A x \in T : x.from = p =>
       /\ x.seq \in 0 .. (n + k) - 1
       /\ x.payload.typ = "ApplicationData" => /\ x.payload.mseq \in 0 .. m - 1
                                               /\ x.payload \notin Elements(rest)
                                               /\ \A y \in T : y.from = p /\ y.payload = x.payload => x.seq = y.seq
    BY <1>6, <1>7
  <1>11. SeqsApart(p, T)
    <2> SUFFICES ASSUME NEW x \in T, NEW y \in T, x.from = p, y.from = p, x.seq = y.seq PROVE x = y
      BY DEF SeqsApart
    <2>1. ASSUME NEW a \in S, a.from = p, NEW b \in N PROVE a.seq # b.seq
      <3>1. a.seq \in 0 .. n - 1 /\ b.seq \in n .. n + k - 1 BY <1>2, <2>1
      <3> QED BY <3>1
    <2> QED BY <1>2, <2>1
  <1> HIDE DEF T
  <1>12. SealedOK(p, T, n + k, m, rest) BY <1>1, <1>8, <1>9, <1>10, <1>11 DEF SealedOK
  <1> QED BY <1>12 DEF T

LEMMA CountedOK ==
  ASSUME NEW p, NEW c, NEW in, NEW S, ConnOK(p, c, in, S), NEW q, SendableOK(q)
  PROVE  /\ ConnOK(p, Counted(c, q), in, S)
         /\ Counted(c, q).sendSeq[2] = c.sendSeq[2] + Cardinality(AllOf(q, 1))
  <1> DEFINE x == Counted(c, q)
             s == [e \in 1 .. 2 |-> c.sendSeq[e] + Cardinality({i \in DOMAIN q : q[i].epoch = e - 1})]
  <1>1. /\ DOMAIN x = ConnFields /\ x.pc = c.pc /\ x.got = c.got /\ x.flight = c.flight
        /\ x.stash = c.stash /\ x.window = c.window /\ x.sendSeq = s /\ x.app = c.app
    BY DEF Counted, ConnOK, ConnFields
  <1>2. DOMAIN s = 1 .. 2 /\ s[1] = c.sendSeq[1] + Cardinality(AllOf(q, 0))
        /\ s[2] = c.sendSeq[2] + Cardinality(AllOf(q, 1))
    BY DEF AllOf
  <1>3. IsSeq(q) BY DEF SendableOK
  <1>4. Cardinality(AllOf(q, 0)) \in Nat /\ Cardinality(AllOf(q, 1)) \in Nat BY <1>3, BeforeCounts
  <1>5. c.sendSeq[1] \in Nat /\ c.sendSeq[2] \in Nat BY DEF ConnOK
  <1> HIDE DEF x, s
  <1>6. s[1] \in Nat /\ s[2] \in Nat BY <1>2, <1>4, <1>5
  <1>7. ConnOK(p, x, in, S) BY <1>1, <1>2, <1>6 DEF ConnOK
  <1> QED BY <1>1, <1>2, <1>7 DEF x

LEMMA FlightsSendable ==
  ASSUME NEW q, FlightOK(q)
  PROVE  SendableOK(q) /\ \A i \in DOMAIN q : q[i].payload.typ # "ApplicationData"
  BY DEF FlightOK, SpecOK, SendableOK

LEMMA FacingBack ==
  ASSUME NEW p \in Sides
  PROVE  Facing(p) \in Sides /\ Facing(Facing(p)) = p /\ Facing(p) # p /\ \A r \in Sides : r = p \/ r = Facing(p)
  BY DEF Sides, Facing

LEMMA OthersName ==
  ASSUME DtlsInv, NEW p \in Sides PROVE NamesRecord(Facing(p), sealed)
  <1> DEFINE f == Facing(p)
  <1>1. f \in Sides BY FacingBack
  <1> HIDE DEF f
  <1>2. EndOK(f, conn[f], bridge[f], paths[f], offered[f], sealed) BY <1>1 DEF DtlsInv
  <1>3. conn[f].sendSeq[2] \in Nat BY <1>2 DEF EndOK, ConnOK
  <1>4. NamesRecord(f, sealed) BY <1>2, <1>3, SealsName DEF EndOK
  <1> QED BY <1>4 DEF f

\* Only end p has moved, and what was sealed and is under way stands.
LEMMA EndMoves ==
  ASSUME DtlsInv, NEW p \in Sides, DOMAIN conn' = Sides, DOMAIN paths' = Sides, DOMAIN bridge' = Sides,
         DOMAIN offered' = Sides, UNCHANGED sealed,
         EndOK(p, conn'[p], bridge'[p], paths'[p], offered'[p], sealed),
         \A r \in Sides : r # p => /\ conn'[r] = conn[r] /\ bridge'[r] = bridge[r]
                                   /\ paths'[r] = paths[r] /\ offered'[r] = offered[r]
  PROVE  DtlsInv'
  <1>1. ASSUME NEW r \in Sides PROVE EndOK(r, conn'[r], bridge'[r], paths'[r], offered'[r], sealed')
    <2>1. EndOK(r, conn[r], bridge[r], paths[r], offered[r], sealed) BY DEF DtlsInv
    <2> QED BY <2>1
  <1>2. IsFiniteSet(sealed') BY DEF DtlsInv
  <1> QED BY <1>1, <1>2 DEF DtlsInv

LEMMA TransmitOK ==
  ASSUME DtlsInv, NEW p \in Sides, NEW c, ConnAt(p, c, bridge[p].in, sealed, conn[p].sendSeq),
         NEW q, SendableOK(q), Transmit(p, c, q), UNCHANGED offered,
         DOMAIN bridge' = Sides, \A r \in Sides : r # p => bridge'[r] = bridge[r],
         DOMAIN bridge'[p] = {"out", "in"}, bridge'[p].in = bridge[p].in,
         IsSeq(bridge'[p].out), NoTwins(bridge'[p].out), Elements(bridge'[p].out) \subseteq Elements(bridge[p].out),
         \A i \in DOMAIN q : q[i].payload.typ = "ApplicationData" /\ q[i].epoch = 1 =>
           /\ Cardinality(AllOf(q, 1)) = 1
           /\ q[i].payload \in Elements(bridge[p].out) /\ q[i].payload \notin Elements(bridge'[p].out)
  PROVE  DtlsInv'
  <1> DEFINE R == Records(c, q)
             N == SealsOf(p, R)
             k == Cardinality(AllOf(q, 1))
             f == Facing(p)
             n == conn[p].sendSeq[2]
             x == Counted(c, q)
  <1>1. f \in Sides /\ Facing(f) = p /\ f # p /\ \A r \in Sides : r = p \/ r = f BY FacingBack
  <1>2. EndOK(p, conn[p], bridge[p], paths[p], offered[p], sealed)
        /\ EndOK(f, conn[f], bridge[f], paths[f], offered[f], sealed) /\ IsFiniteSet(sealed)
    BY <1>1 DEF DtlsInv
  <1>3. ConnOK(p, c, bridge[p].in, sealed) /\ c.sendSeq = conn[p].sendSeq
        /\ c.sendSeq[1] \in Nat /\ c.sendSeq[2] \in Nat /\ n \in Nat /\ c.sendSeq[2] = n
    BY DEF ConnAt, ConnOK
  <1>4. /\ k \in Nat /\ IsFiniteSet(N) /\ Cardinality(N) = k
        /\ \A y \in N : /\ y.from = p /\ y.seq \in n .. n + k - 1
                        /\ \E i \in DOMAIN q : y.payload = q[i].payload /\ q[i].epoch = 1
        /\ \A y, z \in N : y.seq = z.seq => y = z
        /\ \A S : N \subseteq S => RecordsOK(p, R, S)
    <2>1. /\ k \in Nat /\ IsFiniteSet(N) /\ Cardinality(N) = k
          /\ \A y \in N : /\ DOMAIN y = {"from", "seq", "payload"} /\ y.from = p
                          /\ y.seq \in c.sendSeq[2] .. c.sendSeq[2] + k - 1
                          /\ \E i \in DOMAIN q : y.payload = q[i].payload /\ q[i].epoch = 1
          /\ \A y, z \in N : y.seq = z.seq => y = z
          /\ \A S : N \subseteq S => RecordsOK(p, R, S)
      BY <1>3, RecordsSeal, Zenon
    <2> HIDE DEF k, N, R, n
    <2> QED BY <1>3, <2>1
  <1>5. ConnOK(p, x, bridge[p].in, sealed) /\ x.sendSeq[2] = n + k BY <1>3, CountedOK
  <1>6. /\ sealed' = sealed \cup N
        /\ conn' = [conn EXCEPT ![p] = x]
        /\ paths' = [paths EXCEPT ![f] = IF q = <<>> THEN @ ELSE @ \cup {R}]
    <2>1. DOMAIN R = DOMAIN q BY DEF Records
    <2>2. sealed' = sealed \cup
            {[from |-> p, seq |-> r.seq, payload |-> r.payload] :
               r \in {z \in {R[i] : i \in DOMAIN q} : z.epoch = 1}}
      BY DEF Transmit
    <2>3. conn' = [conn EXCEPT ![p] = x] /\ paths' = [paths EXCEPT ![f] = IF q = <<>> THEN @ ELSE @ \cup {R}]
      BY DEF Transmit
    <2> HIDE DEF R, x, f
    <2> QED BY <2>1, <2>2, <2>3 DEF SealsOf
  <1>7. /\ DOMAIN conn' = Sides /\ DOMAIN paths' = Sides /\ DOMAIN offered' = Sides
        /\ conn'[p] = x /\ conn'[f] = conn[f] /\ paths'[p] = paths[p]
        /\ \A d \in paths'[f] : d \in paths[f] \/ d = R
    <2> HIDE DEF x, R, f
    <2> QED BY <1>1, <1>6 DEF DtlsInv
  <1> HIDE DEF R, N, x, f, k
  <1>8. SealedOK(p, sealed \cup N, n + k, offered[p], bridge'[p].out)
    <2>1. SealedOK(p, sealed, n, offered[p], bridge[p].out) BY <1>2 DEF EndOK
    <2>2. \A y \in N : /\ y.from = p /\ y.seq \in n .. n + k - 1
                       /\ y.payload.typ = "ApplicationData" =>
                            k = 1 /\ y.payload \in Elements(bridge[p].out)
                            /\ y.payload \notin Elements(bridge'[p].out)
      BY <1>4 DEF k
    <2>3. n \in Nat /\ k \in Nat /\ IsFiniteSet(N) /\ Cardinality(N) = k /\ IsFiniteSet(sealed)
          /\ \A y, z \in N : y.seq = z.seq => y = z
      BY <1>2, <1>3, <1>4
    <2> HIDE DEF n
    <2> QED BY <2>1, <2>2, <2>3, SealsAdd
  <1>9. EndOK(p, conn'[p], bridge'[p], paths'[p], offered'[p], sealed')
    <2>1. ConnOK(p, x, bridge'[p].in, sealed') BY <1>5, <1>6, ConnGrows
    <2>2. \A d \in paths[p] : RecordsOK(Facing(p), d, sealed') BY <1>2, <1>6, RecordsGrow DEF EndOK
    <2> QED BY <1>5, <1>6, <1>7, <1>8, <2>1, <2>2 DEF EndOK
  <1>10. EndOK(f, conn'[f], bridge'[f], paths'[f], offered'[f], sealed')
    <2>1. bridge'[f] = bridge[f] /\ offered'[f] = offered[f] BY <1>1
    <2>2. ConnOK(f, conn[f], bridge[f].in, sealed') BY <1>2, <1>6, ConnGrows DEF EndOK
    <2>3. \A d \in paths[f] : RecordsOK(p, d, sealed') BY <1>1, <1>2, <1>6, RecordsGrow DEF EndOK
    <2>4. RecordsOK(p, R, sealed') BY <1>4, <1>6
    <2>5. SealedOK(f, sealed', conn[f].sendSeq[2], offered[f], bridge[f].out)
      BY <1>1, <1>2, <1>4, <1>6, OthersSeal DEF EndOK
    <2> QED BY <1>1, <1>2, <1>7, <2>1, <2>2, <2>3, <2>4, <2>5 DEF EndOK
  <1>11. IsFiniteSet(sealed') BY <1>2, <1>4, <1>6, FS_Union
  <1>12. \A r \in Sides : EndOK(r, conn'[r], bridge'[r], paths'[r], offered'[r], sealed')
    BY <1>1, <1>9, <1>10
  <1> QED BY <1>7, <1>11, <1>12 DEF DtlsInv

----------------------------------------------------------------------------
(* The steps of the tunnel                                                 *)

LEMMA EndIs ==
  ASSUME DtlsInv, NEW p \in Sides
  PROVE  /\ EndOK(p, conn[p], bridge[p], paths[p], offered[p], sealed)
         /\ ConnAt(p, conn[p], bridge[p].in, sealed, conn[p].sendSeq)
  BY DEF DtlsInv, EndOK, ConnAt

LEMMA FlightSent ==
  ASSUME DtlsInv, NEW p \in Sides, NEW c, ConnAt(p, c, bridge[p].in, sealed, conn[p].sendSeq),
         NEW q, FlightOK(q), Transmit(p, c, q), UNCHANGED <<offered, bridge>>
  PROVE  DtlsInv'
  <1>1. SendableOK(q) /\ \A i \in DOMAIN q : q[i].payload.typ # "ApplicationData" BY FlightsSendable
  <1>2. EndOK(p, conn[p], bridge[p], paths[p], offered[p], sealed) BY EndIs
  <1>3. DOMAIN bridge[p] = {"out", "in"} /\ IsSeq(bridge[p].out) /\ NoTwins(bridge[p].out)
    BY <1>2 DEF EndOK, SealedOK
  <1>4. DOMAIN bridge = Sides BY DEF DtlsInv
  <1>5. bridge' = bridge /\ UNCHANGED offered OBVIOUS
  <1> QED BY <1>1, <1>3, <1>4, <1>5, TransmitOK

\* The connection of end p has moved, and what is under way may be less.
LEMMA ConnMoves ==
  ASSUME DtlsInv, NEW p \in Sides, NEW x, conn' = [conn EXCEPT ![p] = x],
         ConnAt(p, x, bridge[p].in, sealed, conn[p].sendSeq),
         DOMAIN paths' = Sides, \A r \in Sides : paths'[r] \subseteq paths[r],
         UNCHANGED <<bridge, offered, sealed>>
  PROVE  DtlsInv'
  <1>1. DOMAIN conn' = Sides /\ conn'[p] = x /\ \A r \in Sides : r # p => conn'[r] = conn[r]
    BY DEF DtlsInv
  <1>2. ASSUME NEW r \in Sides PROVE EndOK(r, conn'[r], bridge[r], paths'[r], offered[r], sealed)
    <2>1. EndOK(r, conn[r], bridge[r], paths[r], offered[r], sealed) BY EndIs
    <2>2. ConnOK(r, conn'[r], bridge[r].in, sealed) /\ conn'[r].sendSeq = conn[r].sendSeq
      BY <1>1, <2>1 DEF ConnAt, EndOK
    <2> QED BY <2>1, <2>2 DEF EndOK
  <1>3. bridge' = bridge /\ offered' = offered /\ sealed' = sealed OBVIOUS
  <1> QED BY <1>1, <1>2, <1>3 DEF DtlsInv

LEMMA BeginStep ==
  ASSUME DtlsInv, Begin PROVE DtlsInv'
  <1> DEFINE c == Emit("client", conn["client"], "ClientHello", <<>>, 0, FALSE)
             in == bridge["client"].in
             n == conn["client"].sendSeq
  <1>1. "client" \in Sides /\ "hvr" \in States("client") BY DEF Sides, States
  <1>2. ConnAt("client", conn["client"], in, sealed, n) BY <1>1, EndIs
  <1>3. Transmit("client", Reading(c, "hvr"), c.flight) /\ UNCHANGED <<offered, bridge>>
    BY DEF Begin, ConnLocal
  <1> HIDE DEF in, n
  <1>4. ConnAt("client", c, in, sealed, n) BY <1>2, EmitOK
  <1> HIDE DEF c
  <1>5. ConnAt("client", Reading(c, "hvr"), in, sealed, n) BY <1>1, <1>4, TouchesOK
  <1>6. FlightOK(c.flight) BY <1>4 DEF ConnAt, ConnOK
  <1> QED BY <1>1, <1>3, <1>5, <1>6, FlightSent DEF in, n

LEMMA GotOK ==
  ASSUME NEW p \in Sides, NEW c, NEW in, NEW S, NEW n, ConnAt(p, c, in, S, n),
         NamesRecord(Facing(p), S), Handshaking(c)
  PROVE  ConnAt(p, Got(p, c, c.got), in, S, n)
  <1>1. IsSeq(c.got) /\ c.pc \in States(p) BY DEF ConnAt, ConnOK
  <1>2. CASE p = "client"
    <2>1. c.pc \in {"hvr", "f4", "f6"} BY <1>1, <1>2 DEF Handshaking, States
    <2>2. NamesRecord("server", S) BY <1>2 DEF Facing
    <2> QED BY <1>1, <1>2, <2>1, <2>2, ClientGotOK DEF Got
  <1>3. CASE p = "server"
    <2>1. c.pc \in {"f1", "f3", "f5a", "f5b"} BY <1>1, <1>3 DEF Handshaking, States
    <2>2. NamesRecord("client", S) BY <1>3 DEF Facing
    <2> QED BY <1>3, <2>1, <2>2, ServerGotOK DEF Got
  <1> QED BY <1>2, <1>3 DEF Sides

LEMMA NextMessageStep ==
  ASSUME DtlsInv, NEW p \in Sides, NextMessage(p) PROVE DtlsInv'
  <1> DEFINE in == bridge[p].in
             n == conn[p].sendSeq
             After(m) == [conn[p] EXCEPT !.pending = @ \ {m}, !.next = @ + 1, !.got = Append(@, m)]
  <1>1. ConnAt(p, conn[p], in, sealed, n) BY EndIs
  <1>2. /\ Handshaking(conn[p])
        /\ \E m \in Ready(conn[p]) :
             IF m.typ # Until[After(m).pc]
             THEN conn' = [conn EXCEPT ![p] = After(m)] /\ UNCHANGED <<paths, sealed>>
             ELSE Transmit(p, Got(p, After(m), After(m).got),
                           IF Sends(After(m).pc) THEN Got(p, After(m), After(m).got).flight ELSE <<>>)
    BY DEF NextMessage
  <1>3. PICK m : \/ conn' = [conn EXCEPT ![p] = After(m)] /\ UNCHANGED <<paths, sealed>>
                 \/ Transmit(p, Got(p, After(m), After(m).got),
                             IF Sends(After(m).pc) THEN Got(p, After(m), After(m).got).flight ELSE <<>>)
    <2> HIDE DEF After
    <2> QED BY <1>2
  <1>4. UNCHANGED <<offered, bridge>> BY DEF NextMessage, ConnLocal
  <1> DEFINE c == After(m)
  <1>5. DOMAIN c = ConnFields /\ c.pc = conn[p].pc /\ c.got = Append(conn[p].got, m)
        /\ c.flight = conn[p].flight /\ c.stash = conn[p].stash /\ c.window = conn[p].window
        /\ c.sendSeq = conn[p].sendSeq /\ c.app = conn[p].app
    BY <1>1 DEF ConnAt, ConnOK, ConnFields
  <1> HIDE DEF After, in, n
  <1>6. conn[p].pc \in States(p) /\ IsSeq(conn[p].got) /\ FlightOK(conn[p].flight)
    BY <1>1 DEF ConnAt, ConnOK
  <1>7. IsSeq(Append(conn[p].got, m)) BY <1>6, AppendIs
  <1>8. ConnAt(p, c, in, sealed, n) BY <1>1, <1>5, <1>6, <1>7, Retouched
  <1>9. Handshaking(c) BY <1>2, <1>5 DEF Handshaking
  <1> HIDE DEF c
  <1>10. CASE conn' = [conn EXCEPT ![p] = c] /\ UNCHANGED <<paths, sealed>>
    <2>1. DOMAIN paths' = Sides /\ \A r \in Sides : paths'[r] \subseteq paths[r] BY <1>10 DEF DtlsInv
    <2>2. conn' = [conn EXCEPT ![p] = c] /\ UNCHANGED <<bridge, offered, sealed>> BY <1>4, <1>10
    <2> QED BY <1>8, <2>1, <2>2, ConnMoves DEF in, n
  <1>11. CASE Transmit(p, Got(p, c, c.got), IF Sends(c.pc) THEN Got(p, c, c.got).flight ELSE <<>>)
    <2> DEFINE g == Got(p, c, c.got)
               q == IF Sends(c.pc) THEN g.flight ELSE <<>>
    <2>1. NamesRecord(Facing(p), sealed) BY OthersName
    <2>2. ConnAt(p, g, in, sealed, n) BY <1>8, <1>9, <2>1, GotOK
    <2>3. Transmit(p, g, q) BY <1>11
    <2> HIDE DEF g
    <2>4. FlightOK(g.flight) /\ FlightOK(<<>>) BY <2>2, EmptyIs DEF ConnAt, ConnOK, FlightOK
    <2>5. FlightOK(q) BY <2>4
    <2> HIDE DEF q
    <2> QED BY <1>4, <2>2, <2>3, <2>5, FlightSent DEF in, n
  <1> QED BY <1>3, <1>10, <1>11 DEF c

LEMMA HeardOK ==
  ASSUME DtlsInv, NEW p \in Sides, NEW d \in paths[p], Heard(p, d),
         DOMAIN paths' = Sides, \A r \in Sides : paths'[r] \subseteq paths[r],
         UNCHANGED <<bridge, offered, sealed>>
  PROVE  DtlsInv'
  <1> DEFINE in == bridge[p].in
             n == conn[p].sendSeq
             c == ProcessAll(conn[p], d)
             x == IF c.pc = "accept" THEN [c EXCEPT !.pc = "f1"] ELSE c
  <1>1. EndOK(p, conn[p], bridge[p], paths[p], offered[p], sealed) /\ NamesRecord(Facing(p), sealed)
    BY EndIs, OthersName
  <1>2. ConnOK(p, conn[p], in, sealed) /\ RecordsOK(Facing(p), d, sealed) BY <1>1 DEF EndOK
  <1>3. conn' = [conn EXCEPT ![p] = x] BY DEF Heard
  <1> HIDE DEF in
  <1>4. ConnOK(p, c, in, sealed) /\ c.sendSeq = n BY <1>1, <1>2, DatagramTaken
  <1> HIDE DEF c, n
  <1>5. ConnAt(p, x, in, sealed, n)
    <2>1. ConnAt(p, c, in, sealed, n) BY <1>4 DEF ConnAt
    <2>2. c.pc = "accept" => "f1" \in States(p) BY <1>4 DEF ConnOK, States
    <2> QED BY <2>1, <2>2, TouchesOK
  <1> HIDE DEF x
  <1> QED BY <1>3, <1>5, ConnMoves DEF in, n

LEMMA ReceiveStep ==
  ASSUME DtlsInv, NEW p \in Sides, ReceiveDatagram(p) PROVE DtlsInv'
  <1>1. PICK d \in paths[p] : Heard(p, d) /\ paths' = [paths EXCEPT ![p] = @ \ {d}]
    BY DEF ReceiveDatagram
  <1>2. DOMAIN paths = Sides BY DEF DtlsInv
  <1>3. DOMAIN paths' = Sides /\ \A r \in Sides : paths'[r] \subseteq paths[r] BY <1>1, <1>2
  <1>4. UNCHANGED <<bridge, offered, sealed>> BY DEF ReceiveDatagram
  <1> QED BY <1>1, <1>3, <1>4, HeardOK

LEMMA CopyStep ==
  ASSUME DtlsInv, NEW p \in Sides, PathCopies(p) PROVE DtlsInv'
  <1>1. PICK d \in paths[p] : Heard(p, d) BY DEF PathCopies
  <1>2. DOMAIN paths = Sides /\ paths' = paths BY DEF DtlsInv, PathCopies
  <1>3. DOMAIN paths' = Sides /\ \A r \in Sides : paths'[r] \subseteq paths[r] BY <1>2
  <1>4. UNCHANGED <<bridge, offered, sealed>> BY DEF PathCopies
  <1> QED BY <1>1, <1>3, <1>4, HeardOK

LEMMA AbortStep ==
  ASSUME DtlsInv, NEW p \in Sides, conn' = [conn EXCEPT ![p] = Abort(@)],
         UNCHANGED <<paths, bridge, offered, sealed>>
  PROVE  DtlsInv'
  <1>1. ConnAt(p, conn[p], bridge[p].in, sealed, conn[p].sendSeq) BY EndIs
  <1>2. ConnAt(p, Abort(conn[p]), bridge[p].in, sealed, conn[p].sendSeq) BY <1>1, TouchesOK
  <1>3. DOMAIN paths' = Sides /\ \A r \in Sides : paths'[r] \subseteq paths[r] BY DEF DtlsInv
  <1>4. conn' = [conn EXCEPT ![p] = Abort(conn[p])] /\ UNCHANGED <<bridge, offered, sealed>> OBVIOUS
  <1> QED BY <1>2, <1>3, <1>4, ConnMoves

LEMMA TimeoutStep ==
  ASSUME DtlsInv, NEW p \in Sides, FlightTimeout(p) PROVE DtlsInv'
  <1> DEFINE c == [conn[p] EXCEPT !.tries = @ + 1]
             in == bridge[p].in
             n == conn[p].sendSeq
  <1>1. UNCHANGED <<bridge, offered>> BY DEF FlightTimeout
  <1>2. CASE Transmit(p, c, conn[p].flight)
    <2>1. ConnAt(p, conn[p], in, sealed, n) BY EndIs
    <2>2. DOMAIN c = ConnFields /\ c.pc = conn[p].pc /\ c.got = conn[p].got
          /\ c.flight = conn[p].flight /\ c.stash = conn[p].stash /\ c.window = conn[p].window
          /\ c.sendSeq = conn[p].sendSeq /\ c.app = conn[p].app
      BY <2>1 DEF ConnAt, ConnOK, ConnFields
    <2>3. conn[p].pc \in States(p) /\ IsSeq(conn[p].got) /\ FlightOK(conn[p].flight)
      BY <2>1 DEF ConnAt, ConnOK
    <2> HIDE DEF c, in, n
    <2>4. ConnAt(p, c, in, sealed, n) BY <2>1, <2>2, <2>3, Retouched
    <2> QED BY <1>1, <1>2, <2>3, <2>4, FlightSent DEF in, n
  <1>3. CASE conn' = [conn EXCEPT ![p] = Abort(@)] /\ UNCHANGED <<paths, sealed>>
    BY <1>1, <1>3, AbortStep
  <1> QED BY <1>2, <1>3 DEF FlightTimeout, Repeated, GivesUp

LEMMA StopStep ==
  ASSUME DtlsInv, NEW p \in Sides, WorkerStops(p) PROVE DtlsInv'
  BY AbortStep DEF WorkerStops

LEMMA WritesStep ==
  ASSUME DtlsInv, NEW p \in Sides, RelayWrites(p) PROVE DtlsInv'
  <1> DEFINE out == bridge[p].out
             y == Head(out)
             s == [typ |-> "ApplicationData", epoch |-> 1, payload |-> y]
             q == <<s>>
  <1>1. EndOK(p, conn[p], bridge[p], paths[p], offered[p], sealed)
        /\ ConnAt(p, conn[p], bridge[p].in, sealed, conn[p].sendSeq) BY EndIs
  <1>2. /\ DOMAIN bridge[p] = {"out", "in"} /\ IsSeq(out) /\ NoTwins(out)
        /\ \A z \in Elements(out) : z.typ = "ApplicationData"
    BY <1>1 DEF EndOK, SealedOK
  <1>3. /\ out # <<>> /\ Transmit(p, conn[p], q) /\ UNCHANGED offered
        /\ bridge' = [bridge EXCEPT ![p].out = Tail(@)]
    BY DEF RelayWrites
  <1>4. /\ DOMAIN bridge' = Sides /\ DOMAIN bridge'[p] = {"out", "in"} /\ bridge'[p].in = bridge[p].in
        /\ bridge'[p].out = Tail(out) /\ \A r \in Sides : r # p => bridge'[r] = bridge[r]
    BY <1>2, <1>3 DEF DtlsInv
  <1>5. s.typ = "ApplicationData" /\ s.epoch = 1 /\ s.payload = y OBVIOUS
  <1> HIDE DEF out, y, s
  <1>6. /\ IsSeq(Tail(out)) /\ NoTwins(Tail(out)) /\ Elements(Tail(out)) \subseteq Elements(out)
        /\ y \in Elements(out) /\ y \notin Elements(Tail(out))
    BY <1>2, <1>3, TailOnce DEF y
  <1>7. IsSeq(q) /\ DOMAIN q = {1} /\ q[1] = s BY SingleIs
  <1> HIDE DEF q
  <1>8. SendableOK(q) BY <1>2, <1>5, <1>6, <1>7 DEF SendableOK
  <1>9. Cardinality(AllOf(q, 1)) = 1
    <2>1. AllOf(q, 1) = {1} BY <1>5, <1>7 DEF AllOf
    <2> QED BY <2>1, FS_Singleton
  <1>10. \A i \in DOMAIN q : q[i].payload = y BY <1>5, <1>7
  <1> QED BY <1>1, <1>3, <1>4, <1>6, <1>8, <1>9, <1>10, TransmitOK DEF out

LEMMA ReadsStep ==
  ASSUME DtlsInv, NEW p \in Sides, RelayReads(p) PROVE DtlsInv'
  <1> DEFINE c == conn[p]
             in == bridge[p].in
             y == Head(c.app)
             t == Tail(c.app)
             x == [c EXCEPT !.app = t]
             i2 == IF Len(in) < BridgeCap THEN Append(in, y) ELSE in
  <1>1. EndOK(p, c, bridge[p], paths[p], offered[p], sealed) BY EndIs
  <1>2. ConnOK(p, c, in, sealed) /\ DOMAIN bridge[p] = {"out", "in"} BY <1>1 DEF EndOK
  <1>3. c.app # <<>> /\ conn' = [conn EXCEPT ![p] = x] /\ UNCHANGED <<paths, offered, sealed>>
        /\ bridge' = [bridge EXCEPT ![p].in = i2]
    BY DEF RelayReads
  <1>4. /\ DOMAIN conn' = Sides /\ conn'[p] = x /\ \A r \in Sides : r # p => conn'[r] = conn[r]
        /\ DOMAIN bridge' = Sides /\ DOMAIN bridge'[p] = {"out", "in"} /\ bridge'[p].in = i2
        /\ bridge'[p].out = bridge[p].out /\ \A r \in Sides : r # p => bridge'[r] = bridge[r]
    <2> HIDE DEF x, i2
    <2> QED BY <1>2, <1>3 DEF DtlsInv
  <1>5. /\ DOMAIN x = ConnFields /\ x.pc = c.pc /\ x.got = c.got /\ x.flight = c.flight
        /\ x.stash = c.stash /\ x.sendSeq = c.sendSeq /\ x.app = t /\ x.window = c.window
    BY <1>2 DEF ConnOK, ConnFields
  <1> HIDE DEF x, c, in
  <1>6. IsSeq(c.app) /\ NoTwins(c.app) /\ IsSeq(in) /\ NoTwins(in) /\ Elements(c.app) \cap Elements(in) = {}
    BY <1>2 DEF ConnOK
  <1>7. /\ IsSeq(t) /\ NoTwins(t) /\ Elements(t) \subseteq Elements(c.app)
        /\ y \in Elements(c.app) /\ y \notin Elements(t)
    BY <1>3, <1>6, TailOnce
  <1> HIDE DEF t, y
  <1>8. IsSeq(i2) /\ NoTwins(i2) /\ Elements(i2) \subseteq Elements(in) \cup {y}
    <2>1. y \notin Elements(in) BY <1>6, <1>7
    <2>2. IsSeq(Append(in, y)) /\ NoTwins(Append(in, y)) /\ Elements(Append(in, y)) \subseteq Elements(in) \cup {y}
      BY <1>6, <2>1, AppendOnce
    <2> QED BY <1>6, <2>2
  <1> HIDE DEF i2
  <1>9. \A z \in Elements(t) \cup Elements(i2) : Once(z, p, c.window[2], sealed)
    BY <1>2, <1>7, <1>8 DEF ConnOK
  <1>10. Elements(t) \cap Elements(i2) = {} BY <1>6, <1>7, <1>8
  <1>11. ConnOK(p, x, i2, sealed) BY <1>2, <1>5, <1>7, <1>8, <1>9, <1>10 DEF ConnOK
  <1>12. paths' = paths /\ offered' = offered /\ sealed' = sealed BY <1>3
  <1>13. DOMAIN paths = Sides /\ DOMAIN offered = Sides BY DEF DtlsInv
  <1>14. EndOK(p, conn'[p], bridge'[p], paths'[p], offered'[p], sealed)
    BY <1>1, <1>4, <1>5, <1>11, <1>12 DEF EndOK
  <1> QED BY <1>4, <1>12, <1>13, <1>14, EndMoves

LEMMA SendsStep ==
  ASSUME DtlsInv, NEW p \in Sides, HostSends(p) PROVE DtlsInv'
  <1> DEFINE m == offered[p]
             out == bridge[p].out
             y == Unframed(p, "ApplicationData", m)
             o2 == IF Len(out) < BridgeCap THEN Append(out, y) ELSE out
             n == conn[p].sendSeq[2]
  <1>1. EndOK(p, conn[p], bridge[p], paths[p], m, sealed) BY EndIs
  <1>2. SealedOK(p, sealed, n, m, out) /\ DOMAIN bridge[p] = {"out", "in"} BY <1>1 DEF EndOK
  <1>3. /\ UNCHANGED <<conn, paths, sealed>> /\ offered' = [offered EXCEPT ![p] = m + 1]
        /\ bridge' = [bridge EXCEPT ![p].out = o2]
    BY DEF HostSends
  <1>4. /\ DOMAIN offered' = Sides /\ offered'[p] = m + 1 /\ \A r \in Sides : r # p => offered'[r] = offered[r]
        /\ DOMAIN bridge' = Sides /\ DOMAIN bridge'[p] = {"out", "in"} /\ bridge'[p].out = o2
        /\ bridge'[p].in = bridge[p].in /\ \A r \in Sides : r # p => bridge'[r] = bridge[r]
    <2> HIDE DEF o2, m
    <2> QED BY <1>2, <1>3 DEF DtlsInv
  <1>5. y.typ = "ApplicationData" /\ y.mseq = m BY DEF Unframed, Message
  <1> HIDE DEF m, out, y, n
  <1>6. /\ m \in Nat /\ IsSeq(out) /\ NoTwins(out)
        /\ \A z \in Elements(out) : z.typ = "ApplicationData" /\ z.mseq \in 0 .. m - 1
        /\ \A x \in sealed : x.from = p /\ x.payload.typ = "ApplicationData" => x.payload.mseq \in 0 .. m - 1
    BY <1>2 DEF SealedOK
  <1>7. m \notin 0 .. m - 1 /\ m \in 0 .. (m + 1) - 1 /\ m + 1 \in Nat
        /\ \A i : i \in 0 .. m - 1 => i \in 0 .. (m + 1) - 1
    BY <1>6
  <1>8. y \notin Elements(out) BY <1>5, <1>6, <1>7
  <1>9. \A x \in sealed : x.from = p /\ x.payload.typ = "ApplicationData" => x.payload # y
    BY <1>5, <1>6, <1>7
  <1>10. IsSeq(o2) /\ NoTwins(o2) /\ Elements(o2) \subseteq Elements(out) \cup {y}
    BY <1>6, <1>8, AppendOnce
  <1> HIDE DEF o2
  <1>11. SealedOK(p, sealed, n, m + 1, o2)
    <2>1. \A z \in Elements(o2) : z.typ = "ApplicationData" /\ z.mseq \in 0 .. (m + 1) - 1
      BY <1>5, <1>6, <1>7, <1>10
    <2>2. \A x \in sealed : x.from = p =>
       /\ x.seq \in 0 .. n - 1
       /\ x.payload.typ = "ApplicationData" =>
            /\ x.payload.mseq \in 0 .. (m + 1) - 1 /\ x.payload \notin Elements(o2)
            /\ \A z \in sealed : z.from = p /\ z.payload = x.payload => x.seq = z.seq
      BY <1>2, <1>7, <1>9, <1>10 DEF SealedOK
    <2>3. Cardinality({x \in sealed : x.from = p}) = n /\ SeqsApart(p, sealed) BY <1>2 DEF SealedOK
    <2> QED BY <1>7, <1>10, <2>1, <2>2, <2>3 DEF SealedOK
  <1>12. conn' = conn /\ paths' = paths /\ sealed' = sealed BY <1>3
  <1>13. DOMAIN conn = Sides /\ DOMAIN paths = Sides BY DEF DtlsInv
  <1>14. EndOK(p, conn'[p], bridge'[p], paths'[p], offered'[p], sealed)
    BY <1>1, <1>4, <1>11, <1>12 DEF EndOK, n
  <1> QED BY <1>4, <1>12, <1>13, <1>14, EndMoves

LEMMA DropStep ==
  ASSUME DtlsInv, NEW p \in Sides, HostDrops(p) PROVE DtlsInv'
  BY DEF HostDrops, DtlsInv

LEMMA LossStep ==
  ASSUME DtlsInv, NEW p \in Sides, PathLoses(p) PROVE DtlsInv'
  <1>1. PICK d : paths' = [paths EXCEPT ![p] = @ \ {d}] BY DEF PathLoses
  <1>2. UNCHANGED <<conn, bridge, offered, sealed>> BY DEF PathLoses
  <1>3. DOMAIN paths' = Sides /\ \A r \in Sides : paths'[r] \subseteq paths[r] BY <1>1 DEF DtlsInv
  <1>4. ASSUME NEW r \in Sides PROVE EndOK(r, conn[r], bridge[r], paths'[r], offered[r], sealed)
    <2>1. EndOK(r, conn[r], bridge[r], paths[r], offered[r], sealed) BY EndIs
    <2> QED BY <1>3, <2>1 DEF EndOK
  <1> QED BY <1>2, <1>3, <1>4 DEF DtlsInv

LEMMA DtlsStep ==
  ASSUME DtlsInv, [DtlsNext]_dtlsVars PROVE DtlsInv'
  <1>1. CASE Begin BY <1>1, BeginStep
  <1>2. ASSUME NEW p \in Sides,
               \/ NextMessage(p) \/ ReceiveDatagram(p) \/ FlightTimeout(p) \/ RelayWrites(p)
               \/ RelayReads(p)
               \/ WorkerStops(p) \/ HostSends(p) \/ HostDrops(p) \/ PathLoses(p) \/ PathCopies(p)
        PROVE  DtlsInv'
    BY <1>2, NextMessageStep, ReceiveStep, TimeoutStep, WritesStep, ReadsStep, StopStep, SendsStep,
       DropStep, LossStep, CopyStep
  <1>3. CASE UNCHANGED dtlsVars BY <1>3 DEF dtlsVars, DtlsInv
  <1> QED BY <1>1, <1>2, <1>3 DEF DtlsNext

LEMMA DtlsStarts ==
  ASSUME DtlsInit PROVE DtlsInv
  <1>1. /\ conn = [client |-> NewConn("start"), server |-> NewConn("accept")]
        /\ paths = [p \in Sides |-> {}] /\ bridge = [p \in Sides |-> [out |-> <<>>, in |-> <<>>]]
        /\ offered = [p \in Sides |-> 0] /\ sealed = {}
    BY DEF DtlsInit, DtlsStart
  <1>2. DOMAIN conn = Sides /\ conn["client"] = NewConn("start") /\ conn["server"] = NewConn("accept")
    BY <1>1 DEF Sides
  <1>3. IsSeq(<<>>) /\ DOMAIN <<>> = {} BY EmptyIs
  <1>4. Elements(<<>>) = {} /\ NoTwins(<<>>) /\ FlightOK(<<>>) /\ \A f : RecordsOK(f, <<>>, {})
    BY <1>3 DEF Elements, NoTwins, FlightOK, RecordsOK
  <1>5. ASSUME NEW p, NEW pc \in States(p) PROVE ConnOK(p, NewConn(pc), <<>>, {})
    <2> DEFINE c == NewConn(pc)
    <2>1. /\ DOMAIN c = ConnFields /\ c.pc = pc /\ c.got = <<>> /\ c.flight = <<>> /\ c.stash = <<>>
          /\ c.app = <<>> /\ c.window = <<NewWindow, NewWindow>> /\ c.sendSeq = <<0, 0>>
      BY DEF NewConn, ConnFields
    <2>2. DOMAIN c.window = 1 .. 2 /\ IsWindow(c.window[1]) /\ IsWindow(c.window[2])
      BY <2>1, ReplayOnce
    <2>3. DOMAIN c.sendSeq = 1 .. 2 /\ c.sendSeq[1] \in Nat /\ c.sendSeq[2] \in Nat BY <2>1
    <2> HIDE DEF c
    <2> QED BY <1>3, <1>4, <1>5, <2>1, <2>2, <2>3 DEF ConnOK, c
  <1>6. \A p : SealedOK(p, {}, 0, 0, <<>>)
    <2>1. \A p : {x \in {} : x.from = p} = {} /\ Cardinality({}) = 0 /\ SeqsApart(p, {})
      BY FS_EmptySet DEF SeqsApart
    <2> QED BY <1>3, <1>4, <2>1 DEF SealedOK
  <1>7. NewConn("start").sendSeq[2] = 0 /\ NewConn("accept").sendSeq[2] = 0 BY DEF NewConn
  <1>8. "start" \in States("client") /\ "accept" \in States("server") BY DEF States
  <1>9. ASSUME NEW p \in Sides PROVE EndOK(p, conn[p], bridge[p], paths[p], offered[p], sealed)
    <2>1. /\ DOMAIN bridge[p] = {"out", "in"} /\ bridge[p].out = <<>> /\ bridge[p].in = <<>>
          /\ paths[p] = {} /\ offered[p] = 0 /\ sealed = {}
      BY <1>1
    <2>2. ConnOK(p, conn[p], <<>>, {}) /\ conn[p].sendSeq[2] = 0 BY <1>2, <1>5, <1>7, <1>8 DEF Sides
    <2> QED BY <1>6, <2>1, <2>2 DEF EndOK
  <1>10. IsFiniteSet(sealed) BY <1>1, FS_EmptySet
  <1>11. DOMAIN paths = Sides /\ DOMAIN bridge = Sides /\ DOMAIN offered = Sides BY <1>1
  <1> QED BY <1>2, <1>9, <1>10, <1>11 DEF DtlsInv

LEMMA DtlsInvHolds == DtlsSpec => []DtlsInv
  BY DtlsStarts, DtlsStep, PTL DEF DtlsSpec

\* However many flights are repeated and datagrams lost, copied and delayed, an
\* end seals no two payloads under one sequence of epoch 1, and none twice under
\* one: no nonce serves twice (dtls/conn.rs: send_flight, send).
THEOREM TunnelNonceOnce == DtlsSpec => []NonceOnce
  <1>1. DtlsInv => NonceOnce
    <2> SUFFICES ASSUME DtlsInv, NEW p \in Sides
                 PROVE  /\ \A x, y \in sealed : x.from = p /\ y.from = p /\ x.seq = y.seq => x = y
                        /\ conn[p].sendSeq[2] = Cardinality({x \in sealed : x.from = p})
      BY DEF NonceOnce
    <2>1. EndOK(p, conn[p], bridge[p], paths[p], offered[p], sealed) BY EndIs
    <2> QED BY <2>1 DEF EndOK, SealedOK, SeqsApart
  <1> QED BY <1>1, DtlsInvHolds, PTL

\* Nor does the host of the other end receive a datagram twice, whatever the
\* width of the replay window (dtls/conn.rs: process_record, drain_pending;
\* dtls/replay.rs: check, mark; dtls_transport.rs: relay).
THEOREM TunnelHeardOnce == DtlsSpec => []TunnelOnce
  <1>1. DtlsInv => TunnelOnce
    <2> SUFFICES ASSUME DtlsInv, NEW p \in Sides PROVE NoTwins(bridge[p].in)
      BY DEF TunnelOnce, NoTwins
    <2>1. EndOK(p, conn[p], bridge[p], paths[p], offered[p], sealed) BY EndIs
    <2> QED BY <2>1 DEF EndOK, ConnOK
  <1> QED BY <1>1, DtlsInvHolds, PTL

===============================================================================
