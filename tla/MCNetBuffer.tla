----------------------------- MODULE MCNetBuffer -----------------------------
(* NetBuffer with two players, for TLC. *)
EXTENDS NetBuffer, TLC

CONSTANTS ann, bob

MCPlayers == {ann, bob}
=============================================================================
