--------------------------- MODULE MCGameSession ----------------------------
(* GameSession from the room of Init and from the posted states of a 3 by 3  *)
(* room with a wall in its middle (the prepared rooms of the tests): every   *)
(* list of at most two of the objects below, in both orders, and three       *)
(* objects in a row.                                                         *)
EXTENDS GameSession, TLC

Room(objects, turn) ==
    [players |-> <<<<0, 0>>, <<2, 0>>>>, objects |-> objects, walls |-> (<<1, 1>> :> 2),
     turn |-> turn, move |-> 1, size |-> <<3, 3>>]

Flying(pos, d, id) == Bullet(pos, d, id)
Burning(pos, t, id) == [Bomb(pos, id) EXCEPT !.ticks = t]
Loaded(pos, d, t, n, id) == [Gun(pos, d, id) EXCEPT !.ticks = t, !.shots = n]

MCObjects(id) == {Burning(<<1, 0>>, 1, id), Burning(<<2, 1>>, 2, id),
                  Loaded(<<0, 2>>, "right", 1, 1, id), Loaded(<<2, 2>>, "up", 1, 2, id),
                  Flying(<<0, 1>>, "up", id), Flying(<<0, 2>>, "right", id),
                  Flying(<<2, 2>>, "left", id)}

Lists == {<<>>} \cup {<<a>> : a \in MCObjects(0)}
         \cup {<<a, b>> : a \in MCObjects(0), b \in MCObjects(1)}
         \cup {<<Burning(<<2, 1>>, 2, 0), Flying(<<0, 2>>, "right", 1), Flying(<<2, 2>>, "left", 2)>>,
               <<Burning(<<2, 1>>, 2, 0), Flying(<<2, 2>>, "right", 1), Flying(<<0, 2>>, "right", 2)>>}

MCPayloads == {Room(l, 1) : l \in Lists}
MCTargets == {<<1, 0>>, <<0, 1>>, <<0, -1>>, <<4, 2>>}
=============================================================================
