----------------------------- MODULE MCEventLog -----------------------------
(* EventLog with two events, two crossing SetStates, payloads that restart   *)
(* the count at 0 or leave it at 2, and room for a move after each of them.  *)
EXTENDS EventLog

MCPayloadMoves == {0, 2}
=============================================================================
