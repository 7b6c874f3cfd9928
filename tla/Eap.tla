-------------------------------- MODULE Eap --------------------------------
(***************************************************************************)
(* The two roles of the EAP-SRP handshake of the Main profile              *)
(* (rist-codec/src/eap.rs) as functions from a role record, a received     *)
(* wire frame and a fresh ephemeral to a new record, a reply and an error  *)
(* flag.  SRP values are free terms: the session key is a record of the    *)
(* two ephemerals, the hashing mode and the password, and a proof is that  *)
(* record tagged with its direction, so that equality of terms is equality *)
(* of the values (rist-codec/src/srp.rs).                                  *)
(***************************************************************************)
EXTENDS Naturals

CONSTANTS IdMod,   \* identifiers are one byte: 256 in the code
          PushId   \* PASSPHRASE_PUSH_ID

ASSUME IdAssumption == IdMod \in Nat /\ IdMod > 4 /\ PushId \in 0..IdMod-1

None == [none |-> TRUE]

NextId(id) == (id + 1) % IdMod

----------------------------------------------------------------------------
(* Frames.  Method is the code and subtype under which each kind rides;    *)
(* subtypes 1 and 2 are shared by both directions, and subtype 3 is the    *)
(* server validator whatever its code.                                     *)
Method ==
  [Start              |-> <<"eapol", 1>>,     Logoff             |-> <<"eapol", 2>>,
   IdentityRequest    |-> <<"request", 0>>,   IdentityResponse   |-> <<"response", 0>>,
   Challenge          |-> <<"request", 1>>,   ClientKey          |-> <<"response", 1>>,
   ServerKey          |-> <<"request", 2>>,   ClientValidator    |-> <<"response", 2>>,
   ServerValidator    |-> <<"request", 3>>,
   PassphraseRequest  |-> <<"request", 16>>,  PassphraseResponse |-> <<"response", 16>>,
   Success            |-> <<"success", 0>>,   Failure            |-> <<"failure", 0>>]

Kinds == DOMAIN Method

Frame(kind, ver, id, body) == [kind |-> kind, ver |-> ver, id |-> id, body |-> body]

Encode(f) == [method |-> Method[f.kind], ver |-> f.ver, id |-> f.id, body |-> f.body]

Parse(w) ==
  Frame(IF w.method[1] \in {"request", "response"} /\ w.method[2] = 3
          THEN "ServerValidator"
          ELSE CHOOSE k \in Kinds : Method[k] = w.method,
        w.ver, w.id, w.body)

ServerDriven == {"Challenge", "ServerKey", "ServerValidator"}

NegotiatedVersion(f) == IF f.ver = 2 THEN 2 ELSE 3

PassphrasePush(id) == Frame("PassphraseResponse", 3, id, None)
SuccessAck(id)     == Frame("Success", 3, id, None)

----------------------------------------------------------------------------
(* SRP-6a.                                                                 *)
SessionKey(a, b, ver, pw) == [a |-> a, b |-> b, ver |-> ver, pw |-> pw]
M1(key) == [m1 |-> key]
M2(key) == [m2 |-> key]

NewClient(a, ver)  == [a |-> a, ver |-> ver, key |-> None]
NewServer(b)       == [b |-> b, pubA |-> 0, key |-> None]

ComputeKey(c, b, pw) == [c EXCEPT !.key = SessionKey(c.a, b, c.ver, pw)]
ServerKeyOf(s, ver, pw) == SessionKey(s.pubA, s.b, ver, pw)

----------------------------------------------------------------------------
(* What a role does with a frame.                                          *)
Outcome(r, reply, err) == [role |-> r, reply |-> reply, err |-> err]
Silent(r)      == Outcome(r, None, FALSE)
Answer(r, f)   == Outcome(r, f, FALSE)
Fail(r, reply) == Outcome([r EXCEPT !.state = "Failed"], reply, TRUE)
Unexpected(r)  == Outcome(r, None, TRUE)

Authenticated(r) == r.state = "Success"
Failed(r)        == r.state = "Failed"

(* Slip: a repetition is handled like any other frame.                     *)
RecvUncached(r, w, handled) == handled

(* recv: a byte-identical repetition of the last frame replays the cached  *)
(* reply; a step without error becomes the new cache entry.                *)
Recv(r, w, handled) ==
  IF r.lastRx = w THEN Outcome(r, r.lastReply, FALSE)
  ELSE IF handled.err THEN handled
  ELSE [handled EXCEPT !.role = [@ EXCEPT !.lastRx = w, !.lastReply = handled.reply]]

----------------------------------------------------------------------------
(* The authenticatee (client).                                             *)
NewAuthenticatee(pw, useKey) ==
  [state |-> "Unauth", id |-> 0, idValid |-> FALSE, client |-> None, session |-> None,
   pw |-> pw, useKey |-> useKey, lastRx |-> None, lastReply |-> None]

RestartClient(r) == NewAuthenticatee(r.pw, r.useKey)

StartClient(r) ==
  Outcome(IF r.state = "Unauth" THEN [r EXCEPT !.state = "InProgress"] ELSE r,
          Frame("Start", 3, 0, None), FALSE)

Adopt(r, f) == [r EXCEPT !.id = f.id, !.idValid = TRUE]

(* A server-driven frame continues the exchange only with the adopted      *)
(* identifier or its successor.                                            *)
OutOfSequence(r, f) ==
  /\ r.idValid
  /\ f.kind \in ServerDriven
  /\ f.id \notin {r.id, NextId(r.id)}

OnIdentityRequest(r, f, user) ==
  Answer([Adopt(r, f) EXCEPT !.state = IF @ = "Unauth" THEN "InProgress" ELSE @],
         Frame("IdentityResponse", NegotiatedVersion(f), f.id, [user |-> user]))

OnChallenge(r, f, a) ==
  LET ver == NegotiatedVersion(f) IN
  Answer([Adopt(r, f) EXCEPT !.client = NewClient(a, ver), !.state = "InProgress"],
         Frame("ClientKey", ver, f.id, [a |-> a]))

OnServerKey(r, f) ==
  IF r.client = None THEN Fail(r, None)
  ELSE LET c == ComputeKey(r.client, f.body.b, r.pw) IN
       Answer([Adopt(r, f) EXCEPT !.client = c],
              Frame("ClientValidator", NegotiatedVersion(f), f.id, M1(c.key)))

OnServerValidator(r, f) ==
  IF r.client = None \/ f.body = None THEN Fail(r, None)
  ELSE IF r.client.key = None \/ f.body # M2(r.client.key) THEN Fail(Adopt(r, f), None)
  ELSE Answer([Adopt(r, f) EXCEPT !.session = r.client.key, !.state = "Success"],
              Frame("Success", NegotiatedVersion(f), f.id, None))

(* Both roles answer the passphrase exchange alike.                        *)
OnPassphrase(r, f) ==
  IF f.kind = "PassphraseResponse" THEN Answer(r, SuccessAck(f.id))
  ELSE IF r.useKey THEN Answer(r, PassphrasePush(f.id)) ELSE Silent(r)

(* A fresh IDENTITY_REQUEST after success restarts the role in place; the  *)
(* frames that drive an exchange are then silent.                          *)
ClientHandles(r0, f, user, a) ==
  LET r == IF r0.state = "Success" /\ f.kind = "IdentityRequest" THEN RestartClient(r0) ELSE r0 IN
  IF f.kind \in ServerDriven /\ (r.state = "Success" \/ OutOfSequence(r, f)) THEN Silent(r)
  ELSE CASE f.kind = "IdentityRequest" -> OnIdentityRequest(r, f, user)
         [] f.kind = "Challenge"       -> OnChallenge(r, f, a)
         [] f.kind = "ServerKey"       -> OnServerKey(r, f)
         [] f.kind = "ServerValidator" -> OnServerValidator(r, f)
         [] f.kind = "Success"         -> Silent(r)
         [] f.kind = "Failure"         -> IF r.state # "InProgress" \/ f.id # r.id THEN Silent(r) ELSE Fail(r, None)
         [] f.kind \in {"PassphraseRequest", "PassphraseResponse"} -> OnPassphrase(r, f)
         [] f.kind \in {"Start", "Logoff", "IdentityResponse", "ClientKey", "ClientValidator"} -> Unexpected(r)

----------------------------------------------------------------------------
(* The authenticator (server).                                             *)
NewAuthenticator(ver, useKey, id) ==
  [state |-> "Unauth", id |-> id, server |-> None, session |-> None, verified |-> FALSE,
   everAuthed |-> FALSE, ver |-> ver, pw |-> "none", useKey |-> useKey,
   lastRx |-> None, lastReply |-> None]

RestartServer(r) ==
  [NewAuthenticator(r.ver, r.useKey, NextId(r.id)) EXCEPT !.everAuthed = r.everAuthed, !.pw = r.pw]

StartServer(r) ==
  Outcome(IF r.state = "Unauth" THEN [r EXCEPT !.state = "InProgress"] ELSE r,
          Frame("IdentityRequest", r.ver, r.id, None), FALSE)

(* A response must carry the identifier of the last request; the frames    *)
(* that open, close or push a passphrase are exempt.                       *)
Mismatched(r, f) ==
  /\ r.state # "Unauth"
  /\ f.kind \notin {"Start", "Logoff", "PassphraseRequest", "PassphraseResponse"}
  /\ f.id # r.id

OnStart(r) ==
  IF r.state = "InProgress" THEN Silent(r)
  ELSE StartServer(IF r.state = "Unauth" THEN r ELSE RestartServer(r))

OnLogoff(r) ==
  IF r.state \in {"Success", "Failed"} \/ r.everAuthed THEN Silent(r)
  ELSE Silent([r EXCEPT !.state = "Unauth", !.server = None, !.session = None, !.verified = FALSE])

(* lookup maps each known user to the password its verifier was made from, *)
(* by the authenticator's host.                                            *)
OnIdentityResponse(r, f, lookup, b) ==
  IF f.body.user \notin DOMAIN lookup THEN Fail(r, None)
  ELSE LET id == NextId(r.id) IN
       Answer([r EXCEPT !.server = NewServer(b), !.pw = lookup[f.body.user], !.state = "InProgress", !.id = id],
              Frame("Challenge", r.ver, id, None))

OnClientKey(r, f) ==
  IF r.server = None THEN Fail(r, None)
  ELSE LET id == NextId(r.id) IN
       Answer([r EXCEPT !.server.pubA = f.body.a, !.id = id], Frame("ServerKey", r.ver, id, [b |-> r.server.b]))

(* Slip: the client's proof is taken on trust.                             *)
OnClientValidatorTrusting(r, f) ==
  LET key == ServerKeyOf(r.server, r.ver, r.pw)
      id  == NextId(r.id)
  IN Answer([r EXCEPT !.server.key = key, !.session = key, !.verified = TRUE, !.id = id],
            Frame("ServerValidator", r.ver, id, M2(key)))

OnClientValidator(r, f) ==
  IF r.server = None THEN Fail(r, None)
  ELSE LET key == ServerKeyOf(r.server, r.ver, r.pw)
           id  == NextId(r.id) IN
       IF r.server.pubA = 0 \/ f.body # M1(key) THEN Fail(r, Frame("Failure", r.ver, r.id, None))
       ELSE Answer([r EXCEPT !.server.key = key, !.session = key, !.verified = TRUE, !.id = id],
                   Frame("ServerValidator", r.ver, id, M2(key)))

(* The client's acknowledgement completes the exchange, once M1 is proven. *)
OnAcknowledged(r) ==
  Silent(IF r.verified
           THEN [r EXCEPT !.state = "Success", !.everAuthed = TRUE, !.id = NextId(r.id)]
           ELSE r)

ServerHandles(r, f, lookup, b) ==
  IF Mismatched(r, f) THEN Silent(r)
  ELSE CASE f.kind = "Start"            -> OnStart(r)
         [] f.kind = "Logoff"           -> OnLogoff(r)
         [] f.kind = "IdentityResponse" -> OnIdentityResponse(r, f, lookup, b)
         [] f.kind = "ClientKey"        -> OnClientKey(r, f)
         [] f.kind = "ClientValidator"  -> OnClientValidator(r, f)
         [] f.kind \in {"ServerValidator", "Success"} -> OnAcknowledged(r)
         [] f.kind \in {"PassphraseRequest", "PassphraseResponse"} -> OnPassphrase(r, f)
         [] f.kind = "Failure"          -> IF r.state # "InProgress" THEN Silent(r) ELSE Fail(r, None)
         [] f.kind \in {"IdentityRequest", "Challenge", "ServerKey"} -> Unexpected(r)
============================================================================
