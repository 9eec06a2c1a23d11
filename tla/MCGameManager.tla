--------------------------- MODULE MCGameManager ----------------------------
(* GameManager with the moves of both players and the polls of the second    *)
(* one on two connections; two findings need a poll of the first player      *)
(* alone. No spectator polls here.                                           *)
EXTENDS GameManager, TLC

CONSTANTS c1, c2, m1, m2

MCUserOf == c1 :> P2 @@ c2 :> P2
FirstUserOf == c1 :> P1
MCPlayerOf == m1 :> P1 @@ m2 :> P2
=============================================================================
