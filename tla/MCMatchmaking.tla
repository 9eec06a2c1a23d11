--------------------------- MODULE MCMatchmaking ----------------------------
(* Matchmaking with two users, the first of whom enqueues and polls on two   *)
(* connections (MCUserOf), or with one connection of either kind for each    *)
(* user (OneEach).                                                           *)
EXTENDS Matchmaking

CONSTANTS u1, u2, a1, a2, b, w1, w2

MCUserOf == a1 :> u1 @@ a2 :> u1 @@ b :> u2 @@ w1 :> u1 @@ w2 :> u1
OneEach == a1 :> u1 @@ b :> u2 @@ w1 :> u1 @@ w2 :> u2
=============================================================================
