------------------------------- MODULE MCFrames -------------------------------
(* Instances of Frames for TLC. *)
EXTENDS Frames

FCase(psk, srp, gated, kinds, rot, bits, ann, rst) ==
  [psk |-> psk, srp |-> srp, gated |-> gated, kinds |-> kinds, rotation |-> rot,
   near_bits |-> bits, far_bits |-> 128, announces |-> ann, restarts |-> rst]

\* No key; a passphrase that rotates, with and without announcements; one that
\* rotates at the ceiling only; a restart with another size; EAP over a
\* passphrase; session keys for feedback (Main) and for media (Advanced).
AllFrames ==
  {FCase(FALSE, FALSE, FALSE, {"media", "oob"}, 0, 128, FALSE, FALSE),
   FCase(TRUE, FALSE, FALSE, {"media"}, 1, 256, TRUE, FALSE),
   FCase(TRUE, FALSE, FALSE, {"feedback"}, 0, 128, FALSE, FALSE),
   FCase(TRUE, FALSE, FALSE, {"keepalive"}, 2, 128, FALSE, TRUE),
   FCase(TRUE, FALSE, TRUE, {"feedback", "eapol"}, 2, 256, FALSE, FALSE),
   FCase(FALSE, TRUE, TRUE, {"bufneg", "oob", "eapol"}, 0, 256, FALSE, FALSE),
   FCase(FALSE, TRUE, TRUE, {"media", "keepalive"}, 0, 256, FALSE, FALSE)}
=============================================================================
