--------------------------- MODULE MoveValidators ---------------------------
(***************************************************************************)
(* What a move has to pass (game_manager: session_api_builder, _director   *)
(* and _validator) and how it is read from a request's body (serializer).  *)
(* The operators are pure. A cell is a pair <<x, y>>; a match's state is   *)
(* the record of GameSession.                                              *)
(***************************************************************************)
EXTENDS Integers

\* const_variables.hpp
BombPlaceRadius == 1
GunPlaceRadius == 1

Direction == {"up", "right", "down", "left"}
MoveTypes == {"walk", "resign", "place_bomb", "place_gun"}

\* DeserializeMoveData: a name that is not listed is read as the first one of
\* its enumeration, and MoveData{} has the first cell and direction.
MoveFrom(body) ==
    [type |-> IF body.move_type \in MoveTypes THEN body.move_type ELSE "walk",
     pos |-> IF "position" \in DOMAIN body THEN body.position ELSE <<0, 0>>,
     dir |-> IF "direction" \in DOMAIN body /\ body.direction \in Direction
             THEN body.direction ELSE "up"]

-----------------------------------------------------------------------------
(* The builder, and the director that uses one for all validators.          *)
Unset == [dependent |-> TRUE, spread |-> "none", forbids |-> {}, distance |-> 0]

SetMoveIndependent(product) == [product EXCEPT !.dependent = FALSE]
SetCellSpread(product, type) == [product EXCEPT !.spread = type]
SetCellRestrictor(product, forbids) == [product EXCEPT !.forbids = forbids]
SetDistanceValidator(product, distance) == [product EXCEPT !.distance = distance]
MakeTargetedToCell(product) ==
    SetDistanceValidator(SetCellRestrictor(product, {"object", "player", "wall"}), 1)

\* Mutant: the product is copied out and not reset.
ProductStays(product) == product

\* What the builder goes on with after the product was taken.
GetProduct(product) == Unset

BuildWalk(product) ==
    SetDistanceValidator(SetCellSpread(MakeTargetedToCell(product), "axial"), 1)
BuildResign(product) == SetMoveIndependent(product)
BuildPlaceBomb(product) ==
    SetDistanceValidator(SetCellSpread(MakeTargetedToCell(product), "square"), BombPlaceRadius)
BuildPlaceGun(product) ==
    SetDistanceValidator(SetCellSpread(MakeTargetedToCell(product), "square"), GunPlaceRadius)

\* Session::InitApi: the validator of each type of move.
InitApi ==
    LET walk == BuildWalk(Unset)
        resign == BuildResign(GetProduct(walk))
        bomb == BuildPlaceBomb(GetProduct(resign))
        gun == BuildPlaceGun(GetProduct(bomb))
    IN  [walk |-> walk, resign |-> resign, place_bomb |-> bomb, place_gun |-> gun]

-----------------------------------------------------------------------------
Abs(n) == IF n < 0 THEN -n ELSE n
Within(from, pos, distance) ==
    Abs(from[1] - pos[1]) <= distance /\ Abs(from[2] - pos[2]) <= distance

Axial(from, pos) == from[1] = pos[1] \/ from[2] = pos[2]
Diagonal(from, pos) ==
    pos[2] - pos[1] = from[2] - from[1] \/ pos[2] + pos[1] = from[2] + from[1]

CellSpread(type, from, pos) ==
    CASE type = "axial_diagonal" -> Diagonal(from, pos) \/ Axial(from, pos)
      [] type = "axial" -> Axial(from, pos)
      [] type = "square" -> TRUE

\* Mutant: the players are forgotten.
RestrictorForgets(forbids, state, pos) ==
    /\ "object" \in forbids => \A i \in DOMAIN state.objects : state.objects[i].pos # pos
    /\ "wall" \in forbids => pos \notin DOMAIN state.walls

CellRestrictor(forbids, state, pos) ==
    /\ "object" \in forbids => \A i \in DOMAIN state.objects : state.objects[i].pos # pos
    /\ "player" \in forbids => \A p \in DOMAIN state.players : state.players[p] # pos
    /\ "wall" \in forbids => pos \notin DOMAIN state.walls

\* What the validator answers; a cell is tested only for a move that has a
\* spread, and never compared with the size of the map.
Validate(validator, state, p, pos) ==
    LET from == state.players[p]
        fits == /\ CellSpread(validator.spread, from, pos)
                /\ CellRestrictor(validator.forbids, state, pos)
                /\ Within(from, pos, validator.distance)
    IN  IF validator.dependent /\ state.turn # p THEN "not_your_move"
        ELSE IF validator.spread # "none" /\ ~fits THEN "wrong_move"
        ELSE "ok"

=============================================================================
