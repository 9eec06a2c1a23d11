---------------------------- MODULE GameSession -----------------------------
(***************************************************************************)
(* One match: the Session of game_manager/session.cpp with the objects     *)
(* that live on its field and the states that are read from and posted to  *)
(* it. Its moves pass the validators of MoveValidators.                    *)
(*                                                                         *)
(* A cell is a pair <<x, y>>, a player is 1 or 2 (its place in             *)
(* state_->players; its actor id is one less) and state_->objects is a     *)
(* sequence of records.  The tick of one move sweeps that list with two    *)
(* iterators while the objects erase themselves and each other from it;    *)
(* the sweep is a fold over single iterator steps, in which every element  *)
(* has a `node' of its own, so that an erased element is told from one     *)
(* that took its place or its actor id.                                    *)
(*                                                                         *)
(* The matches' mutex serialises the moves (GameManager), a move returns   *)
(* after its timer did, and SetState takes no lock.                        *)
(***************************************************************************)
EXTENDS EventListWrapper, MoveValidators, SequencesExt

CONSTANTS Payloads,  \* the states a debug client posts
          Targets,   \* the cells a client's move names
          MaxMove    \* bound on state_->move_number

ASSUME TargetsAssumption == Targets \subseteq Int \X Int
ASSUME MaxMoveAssumption == MaxMove \in Nat

\* const_variables.hpp
BombTicksLeft == 3
BombExplodeRadius == 1
GunCooldown == 3
GunShots == 3

Player == {1, 2}
\* Mutant of Other: a turn that counts on.
OtherCountsOn(p) == p + 1

Other(p) == 3 - p
ActorId(p) == p - 1

Step(d) == CASE d = "up"    -> <<0, -1>>
             [] d = "left"  -> <<-1, 0>>
             [] d = "down"  -> <<0, 1>>
             [] d = "right" -> <<1, 0>>
NextCell(pos, d) == <<pos[1] + Step(d)[1], pos[2] + Step(d)[2]>>

\* The objects as their constructors and Place leave them; the fields that a
\* kind does not have are constant.
Bomb(pos, id) == [kind |-> "bomb", pos |-> pos, dir |-> "up",
                  ticks |-> BombTicksLeft, shots |-> 0, id |-> id]
Gun(pos, d, id) == [kind |-> "gun", pos |-> pos, dir |-> d,
                    ticks |-> GunCooldown, shots |-> GunShots, id |-> id]
Bullet(pos, d, id) == [kind |-> "bullet", pos |-> pos, dir |-> d,
                       ticks |-> 0, shots |-> 0, id |-> id]

Objects == [kind : {"bomb", "gun", "bullet"}, pos : Int \X Int, dir : Direction,
            ticks : Int, shots : Int, id : Nat]

\* What a client's move is posted as.
Bodies == [move_type : {"walk", "place_bomb", "other"}, position : Targets]
          \cup [move_type : {"place_gun"}, position : Targets, direction : Direction \cup {"other"}]
          \cup [move_type : MoveTypes]
Moves == {MoveFrom(body) : body \in Bodies}

VARIABLES state,       \* *state_: players, objects, walls, turn, move, size
          idCounter,   \* id_counter_
          scoreboard,  \* scoreboard_: the players, winner first
          log,         \* events_wrapper_
          expired,     \* the scoreboard's weak_ptrs outlived their players
          timer,       \* the move number the waiting timer holds, or -1
          phase        \* where the thread that holds the session's mutex is

vars == <<state, idCounter, scoreboard, log, expired, timer, phase>>

\* Session::Init: the room every match starts in. A wall has an actor id.
WallCells == <<<<0, 2>>, <<3, 2>>, <<4, 3>>, <<6, 3>>, <<1, 4>>, <<3, 4>>, <<4, 5>>, <<7, 5>>>>
Walls8 == [cell \in ToSet(WallCells) |-> 1 + SelectInSeq(WallCells, LAMBDA c : c = cell)]

Init == /\ state = [players |-> <<<<4, 1>>, <<3, 6>>>>, objects |-> <<>>, walls |-> Walls8,
                    turn |-> 1, move |-> 0, size |-> <<8, 8>>]
        /\ idCounter = 10
        /\ scoreboard = <<>>
        /\ log = Cleared
        /\ expired = FALSE
        /\ timer = -1
        /\ phase = "idle"

\* No player stands on the other one or in a wall, nor, on the map, on an object.
OnMap(s, pos) == pos[1] \in 0..(s.size[1] - 1) /\ pos[2] \in 0..(s.size[2] - 1)
Apart(s) ==
    /\ s.players[1] # s.players[2]
    /\ \A p \in Player :
          /\ s.players[p] \notin DOMAIN s.walls
          /\ OnMap(s, s.players[p]) =>
                \A i \in DOMAIN s.objects : s.objects[i].pos # s.players[p]

\* A client posts states a match can be in; SetState itself tests nothing.
StateLike(s) ==
    /\ s \in [players : [Player -> Int \X Int], objects : Seq(Objects), walls : {s.walls},
              turn : Player, move : Nat, size : Nat \X Nat]
    /\ DOMAIN s.walls \subseteq Int \X Int
ASSUME PayloadsAssumption == \A s \in Payloads : StateLike(s) /\ Apart(s)

-----------------------------------------------------------------------------
\* The validator of its type lets the move pass.
Allowed(p, md) == Validate(InitApi[md.type], state, p, md.pos) = "ok"

-----------------------------------------------------------------------------
(* The tick.  A world is what the sweep changes: list (the objects, each    *)
(* with its node), board, nextId, log, the iterators prev and it (0 is the  *)
(* end of the list), running (the loop goes on) and ub (the sweep did what  *)
(* the language leaves undefined).                                          *)
At(w, node) == CHOOSE i \in DOMAIN w.list : w.list[i].node = node
NodeAfter(w, node) == IF At(w, node) = Len(w.list) THEN 0 ELSE w.list[At(w, node) + 1].node
Begin(w) == IF w.list = <<>> THEN 0 ELSE w.list[1].node
IsIn(w, node) == \E i \in DOMAIN w.list : w.list[i].node = node
Put(w, node, o) == [w EXCEPT !.list[At(w, node)].obj = o]

\* Session::FinishSession(firstWinner).
Finish(board, firstWinner) == board \o IF firstWinner THEN <<1, 2>> ELSE <<2, 1>>

\* Mutant: the player that died wins.
DieWins(w, p) == [w EXCEPT !.board = Finish(@, ActorId(p) = 0)]

\* Player::Die: the match is won by the first player iff the second died.
Die(w, p) == [w EXCEPT !.board = Finish(@, ActorId(p) = 1)]

Emit(w, kind, id) == [w EXCEPT !.log = AddEvent(@, [kind |-> kind, actor |-> id])]

\* Session::RemoveObject erases the first object with the id; erasing the end
\* of the list is undefined.
RemoveObject(w, id) ==
    LET same == {i \in DOMAIN w.list : w.list[i].obj.id = id} IN
    IF same = {} THEN [w EXCEPT !.ub = TRUE]
    ELSE [w EXCEPT !.list = RemoveAt(@, CHOOSE i \in same : \A j \in same : i <= j)]

\* Session::Explode: the first player found, scanning the blast column by
\* column within the map, dies.
Explode(w, pos) ==
    LET hit == {p \in Player : /\ OnMap(state, w.players[p])
                               /\ Within(pos, w.players[p], BombExplodeRadius)}
        Before(a, b) == a[1] < b[1] \/ (a[1] = b[1] /\ a[2] <= b[2])
        first == CHOOSE p \in hit :
                    \A q \in hit : /\ Before(w.players[p], w.players[q])
                                   /\ w.players[p] = w.players[q] => p <= q
    IN  IF hit = {} THEN w ELSE Die(w, first)

\* Bomb::UpdateTick.
TickBomb(w, node, o) ==
    LET counted == Put(w, node, [o EXCEPT !.ticks = @ - 1])
    IN  IF o.ticks # 1 THEN Emit(counted, "bomb_ticking", o.id)
        ELSE Emit(RemoveObject(Explode(counted, o.pos), o.id), "bomb_explode", o.id)

\* Gun::UpdateTick: the bullet is appended to the list that is being swept.
TickGun(w, node, o) ==
    LET waiting == Put(w, node, [o EXCEPT !.ticks = @ - 1])
        reset == Put(w, node, [o EXCEPT !.ticks = GunCooldown, !.shots = @ - 1])
        shot == [reset EXCEPT
                    !.list = Append(@, [node |-> w.fresh, obj |-> Bullet(o.pos, o.dir, w.nextId)]),
                    !.fresh = @ + 1,
                    !.nextId = @ + 1]
    IN  IF o.ticks # 1 THEN Emit(waiting, "gun_waiting", o.id)
        ELSE IF o.shots # 1 THEN Emit(shot, "gun_shot", o.id)
        ELSE Emit(Emit(RemoveObject(shot, o.id), "gun_shot", o.id), "gun_destroy", o.id)


\* Session::CollisionsOnCell for a bullet: the objects on the cell but for
\* those with its actor id, the players, and a wall.
Collides(e, pos, id) == e.obj.pos = pos /\ e.obj.id # id
Collisions(w, pos, id) ==
    Cardinality({i \in DOMAIN w.list : Collides(w.list[i], pos, id)})
        + Cardinality({p \in Player : w.players[p] = pos})
        + (IF pos \in DOMAIN state.walls THEN 1 ELSE 0)

\* InteractWithBullet: bullets on the cell are removed, players there die, and
\* other objects and walls only stop the bullet; each of them is an event.
Strike(w, pos, id) ==
    FoldLeft(LAMBDA u, e : IF e.obj.kind = "bullet" /\ Collides(e, pos, id)
                           THEN RemoveObject(u, e.obj.id) ELSE u,
             w, w.list)
Kill(w, p, pos) == IF w.players[p] = pos THEN Die(w, p) ELSE w
Interact(w, hits, id) ==
    FoldLeft(LAMBDA u, i : Emit(u, "bullet_interaction", id), w, [i \in 1..hits |-> i])

\* Bullet::UpdateTick.
TickBullet(w, node, o) ==
    LET pos == NextCell(o.pos, o.dir)
        flown == Put(w, node, [o EXCEPT !.pos = pos])
        hits == Collisions(flown, pos, o.id)
        killed == Kill(Kill(Strike(flown, pos, o.id), 1, pos), 2, pos)
        told == Interact(RemoveObject(killed, o.id), hits, o.id)
    IN  IF ~OnMap(state, pos) THEN Emit(RemoveObject(flown, o.id), "bullet_destroy", o.id)
        ELSE IF hits = 0 THEN Emit(flown, "bullet_fly", o.id)
        ELSE Emit(told, "bullet_destroy", o.id)

UpdateTick(w, node) ==
    LET o == w.list[At(w, node)].obj IN
    CASE o.kind = "bomb"   -> TickBomb(w, node, o)
      [] o.kind = "gun"    -> TickGun(w, node, o)
      [] o.kind = "bullet" -> TickBullet(w, node, o)

\* One round of the first loop of AfterMove: the first element is updated
\* until it survives its update (or the match ends, or the list is empty).
FirstUpdated(first, u) ==
    [u EXCEPT !.prev = first, !.running = u.board = <<>> /\ first # Begin(u) /\ u.list # <<>>]

FirstRound(w) == IF w.running THEN FirstUpdated(Begin(w), UpdateTick(w, Begin(w))) ELSE w

\* Mutant: after an object erased itself the loop steps over the next one.
NextUpdatedSkips(it, next, u) ==
    IF ~IsIn(u, u.prev) THEN [u EXCEPT !.ub = TRUE, !.running = FALSE]
    ELSE IF IsIn(u, it) THEN [u EXCEPT !.prev = it, !.it = NodeAfter(u, it)]
    ELSE [u EXCEPT !.it = IF next = 0 \/ ~IsIn(u, next) THEN 0 ELSE NodeAfter(u, next)]

\* Where the iterators go after `it' was updated, in front of `next'. When it
\* erased `prev', std::next(prev) reads a freed element.
NextUpdated(it, next, u) ==
    IF ~IsIn(u, u.prev) THEN [u EXCEPT !.ub = TRUE, !.running = FALSE]
    ELSE IF NodeAfter(u, u.prev) # it THEN [u EXCEPT !.it = NodeAfter(u, u.prev)]
    ELSE [u EXCEPT !.prev = it, !.it = NodeAfter(u, it)]

\* One round of the second loop.
NextRound(w) ==
    IF ~w.running \/ w.board # <<>> \/ w.it = 0 THEN [w EXCEPT !.running = FALSE]
    ELSE NextUpdated(w.it, NodeAfter(w, w.it), UpdateTick(w, w.it))

\* Each round updates another element, and only a gun adds one: a list of n
\* elements is swept in at most 2n rounds.
Rounds(w) == [i \in 1..(2 * Len(w.list)) |-> i]

FirstLoop(w) ==
    FoldLeft(LAMBDA u, i : FirstRound(u), [w EXCEPT !.running = w.list # <<>>], Rounds(w))

\* The second loop starts behind what is then the first element.
SecondLoop(w) ==
    IF w.list = <<>> THEN w
    ELSE FoldLeft(LAMBDA u, i : NextRound(u),
                  [w EXCEPT !.it = NodeAfter(w, Begin(w)), !.running = TRUE], Rounds(w))

\* The object loops of AfterMove.
Sweep(w) == SecondLoop(FirstLoop(w))

World(players, objects, nextId, board, events) ==
    [players |-> players, nextId |-> nextId, board |-> board, log |-> events,
     list |-> [i \in DOMAIN objects |-> [node |-> i, obj |-> objects[i]]],
     fresh |-> Len(objects) + 1, prev |-> 0, it |-> 0, running |-> FALSE, ub |-> FALSE]

-----------------------------------------------------------------------------
(* ApiMove up to the tick: IncreaseMoveNumber and the move's own effect.    *)
Moved(p, md) ==
    LET events == SetMoveNumber(log, state.move + 1)
        placed == IF md.type = "place_bomb" THEN <<Bomb(md.pos, idCounter)>>
                  ELSE IF md.type = "place_gun" THEN <<Gun(md.pos, md.dir, idCounter)>>
                  ELSE <<>>
        players == IF md.type = "walk" THEN [state.players EXCEPT ![p] = md.pos]
                   ELSE state.players
        board == IF md.type = "resign" THEN Finish(scoreboard, p # 1) ELSE scoreboard
    IN  World(players, state.objects \o placed, idCounter + Len(placed), board,
              AddEvent(events, [kind |-> md.type, actor |-> ActorId(p)]))

\* What a move leaves when its sweep has made w of the world: the match goes on
\* after the timer that is started, or is over. The freed element that an
\* undefined sweep reads has been reused for the event its update returned:
\* the process does not survive.
AfterMove(w) ==
    LET over == w.board # <<>> IN
    /\ state' = [state EXCEPT !.players = w.players, !.move = @ + 1,
                              !.objects = [i \in DOMAIN w.list |-> w.list[i].obj],
                              !.turn = IF over THEN @ ELSE Other(@)]
    /\ idCounter' = w.nextId
    /\ scoreboard' = w.board
    /\ log' = IF over
              THEN AddEvent(w.log, [kind |-> "player_won", actor |-> ActorId(w.board[1])])
              ELSE w.log
    /\ timer' = IF over THEN -1 ELSE state.move + 1
    /\ phase' = IF w.ub \/ (over /\ expired) THEN "crashed"
                ELSE IF over THEN "played" ELSE "waiting"

\* Session::ApiMove(id, md), its validation and AfterMove included.
ApiMove(p, md) ==
    /\ phase = "idle"
    /\ state.move < MaxMove
    /\ Allowed(p, md)
    /\ AfterMove(Sweep(Moved(p, md)))
    /\ UNCHANGED expired

\* Mutant: a timer that waits for a state of its move number.
TimerAbortWaits ==
    /\ phase = "waiting"
    /\ state.move = timer
    /\ log' = IF Throws(log) THEN log
              ELSE AddEvent(log, [kind |-> "time_is_up", actor |-> ActorId(state.turn)])
    /\ scoreboard' = IF Throws(log) THEN scoreboard ELSE Finish(scoreboard, TRUE)
    /\ timer' = -1
    /\ phase' = "played"
    /\ UNCHANGED <<state, idCounter, expired>>

\* Session::TimerAbort, 5 seconds after AfterMove started it: a result for the
\* first player, unless the state was replaced meanwhile. (With the same move
\* number in the new state AddEvent throws, into a future that nobody reads.)
TimerAbort ==
    /\ phase = "waiting"
    /\ IF state.move = timer /\ ~Throws(log)
       THEN /\ log' = AddEvent(log, [kind |-> "time_is_up", actor |-> ActorId(state.turn)])
            /\ scoreboard' = Finish(scoreboard, TRUE)
       ELSE UNCHANGED <<log, scoreboard>>
    /\ timer' = -1
    /\ phase' = "played"
    /\ UNCHANGED <<state, idCounter, expired>>

\* GameManager::CheckStatus after an accepted move: no result lets the match
\* go on, a result is recorded and the session erased, unless a user cannot
\* be looked up in the database; GetResults dereferences expired pointers.
CheckStatus ==
    /\ phase = "played"
    /\ \/ scoreboard = <<>> /\ phase' = "idle"
       \/ scoreboard # <<>> /\ expired /\ phase' = "crashed"
       \/ scoreboard # <<>> /\ ~expired /\ phase' \in {"erased", "idle"}
    /\ UNCHANGED <<state, idCounter, scoreboard, log, expired, timer>>

\* An object as JSON: the fields its kind has.
ToJson(o) ==
    CASE o.kind = "bomb" -> [type |-> o.kind, actor_id |-> o.id, position |-> o.pos,
                             ticks_left |-> o.ticks]
      [] o.kind = "gun" -> [type |-> o.kind, actor_id |-> o.id, position |-> o.pos,
                            direction |-> o.dir, ticks_to_shot |-> o.ticks,
                            shots_left |-> o.shots]
      [] o.kind = "bullet" -> [type |-> o.kind, actor_id |-> o.id, position |-> o.pos,
                               direction |-> o.dir]

\* Mutant: a gun is read with the shots of a new one.
FromJsonReloads(j) ==
    CASE j.type = "bomb" -> [Bomb(j.position, j.actor_id) EXCEPT !.ticks = j.ticks_left]
      [] j.type = "gun" -> [Gun(j.position, j.direction, j.actor_id) EXCEPT
                               !.ticks = j.ticks_to_shot]
      [] j.type = "bullet" -> Bullet(j.position, j.direction, j.actor_id)

\* An object as it is read: its kind's constructor, then the fields.
FromJson(j) ==
    CASE j.type = "bomb" -> [Bomb(j.position, j.actor_id) EXCEPT !.ticks = j.ticks_left]
      [] j.type = "gun" -> [Gun(j.position, j.direction, j.actor_id) EXCEPT
                               !.ticks = j.ticks_to_shot, !.shots = j.shots_left]
      [] j.type = "bullet" -> Bullet(j.position, j.direction, j.actor_id)

\* A state as session_state shows it, and as set_state reads it.
Shown(s) == [s EXCEPT !.objects = [i \in DOMAIN s.objects |-> ToJson(s.objects[i])]]
Posted(j) == [j EXCEPT !.objects = [i \in DOMAIN j.objects |-> FromJson(j.objects[i])]]

\* Session::SetState of what a client posted. The players of the old state are
\* destroyed with it.
SetState(j) ==
    /\ phase \in {"idle", "waiting", "played"}
    /\ state' = Posted(j)
    /\ log' = Cleared
    /\ idCounter' = 2
    /\ expired' = (expired \/ scoreboard # <<>>)
    /\ UNCHANGED <<scoreboard, timer, phase>>

Next == \/ \E p \in Player, md \in Moves : ApiMove(p, md)
        \/ TimerAbort
        \/ CheckStatus
        \/ \E s \in Payloads : SetState(Shown(s))
        \/ SetState(Shown(state))   \* what a client was shown, posted back

\* The timer's thread wakes up after its 5 seconds and the worker that waits
\* for it goes on; nothing forces a client to move or to post a state.
Fairness == WF_vars(TimerAbort) /\ WF_vars(CheckStatus)

Spec == Init /\ [][Next]_vars /\ Fairness

-----------------------------------------------------------------------------
EventKinds == {"walk", "place_bomb", "place_gun", "resign", "player_won", "time_is_up",
               "bomb_ticking", "bomb_explode", "gun_waiting", "gun_shot", "gun_destroy",
               "bullet_fly", "bullet_interaction", "bullet_destroy"}
Events == [move : Nat, event : [kind : EventKinds, actor : Nat]]
Logs == [value : Seq(Events), from : Seq(Nat), move : Nat]

(* The match's fields are of their types. *)
TypeOK ==
    /\ StateLike(state)
    /\ idCounter \in Nat
    /\ scoreboard \in Seq(Player)
    /\ log \in Logs
    /\ expired \in BOOLEAN
    /\ timer \in Nat \cup {-1}
    /\ phase \in {"idle", "waiting", "played", "erased", "crashed"}

(* While a match goes on, no player stands on the other one or in a wall, and
   none who is on the map on an object, whichever moves, ticks and collisions
   led there (CellRestrictor, session_api_validator.cpp:50, and
   Bullet::UpdateTick). Off the map a bullet may stay over a player: nothing
   collides there, and RemoveObject removes the first object with its id. *)
PlayersApart == scoreboard = <<>> /\ phase # "crashed" => Apart(state)

\* No two objects share an actor id and none has one that is still to come.
IdsUnique(s, next) ==
    /\ \A i, j \in DOMAIN s.objects : s.objects[i].id = s.objects[j].id => i = j
    /\ \A i \in DOMAIN s.objects : s.objects[i].id < next

\* What one tick makes of an object that it does not remove.
Aged(o) == CASE o.kind = "bullet" -> [o EXCEPT !.pos = NextCell(o.pos, o.dir)]
             [] o.kind = "gun" /\ o.ticks = 1 ->
                    [o EXCEPT !.ticks = GunCooldown, !.shots = @ - 1]
             [] OTHER -> [o EXCEPT !.ticks = @ - 1]

\* An object that one tick may remove.
MayGo(o) == \/ o.kind = "bullet"
            \/ o.kind = "bomb" /\ o.ticks = 1
            \/ o.kind = "gun" /\ o.ticks = 1 /\ o.shots = 1

(* A move that lets the match go on ticks every object of the field, the one
   it placed included, exactly once, although the objects leave and join the
   list while it is swept: what stays has aged by one tick, only bullets,
   burnt bombs and empty guns go, and every bullet left is over a free cell of
   the map (the two iterators of
   AfterMove, session.cpp:129-153). *)
AgesOnce ==
    [][phase = "idle" /\ phase' = "waiting" /\ IdsUnique(state, idCounter) =>
        /\ IdsUnique(state', idCounter')
        /\ \A i \in DOMAIN state.objects :
              LET o == state.objects[i]
                  left == {j \in DOMAIN state'.objects : state'.objects[j].id = o.id}
              IN  IF left = {} THEN MayGo(o)
                  ELSE \A j \in left : state'.objects[j] = Aged(o)
        /\ \A j \in DOMAIN state'.objects :
              LET new == state'.objects[j] IN
              new.id >= idCounter /\ new.kind # "bullet" =>
                  new.ticks = (IF new.kind = "bomb" THEN BombTicksLeft ELSE GunCooldown) - 1
        /\ \A j \in DOMAIN state'.objects :
              LET b == state'.objects[j] IN
              b.kind = "bullet" => OnMap(state, b.pos) /\ b.pos \notin DOMAIN state.walls]_vars

\* The object of the field can reach the cell within one tick.
Reaches(o, pos) ==
    \/ o.kind = "bomb" /\ o.ticks = 1 /\ Within(o.pos, pos, BombExplodeRadius) /\ OnMap(state, pos)
    \/ o.kind = "bullet" /\ NextCell(o.pos, o.dir) = pos
    \/ o.kind = "gun" /\ o.ticks = 1 /\ NextCell(o.pos, o.dir) = pos

(* A match that a move ends is lost by a player who resigned with that move
   or whom an object of the field could reach: nobody loses to an object that
   is elsewhere, or because the other one was hit (Player::Die, player.cpp:15,
   and the `FinishSession' arguments of session.cpp:111). *)
LoserWasHit ==
    [][phase = "idle" /\ scoreboard = <<>> /\ scoreboard' # <<>> =>
        LET loser == scoreboard'[2] IN
        \/ \E i \in DOMAIN log'.value :
              log'.value[i] = [move |-> state'.move,
                               event |-> [kind |-> "resign", actor |-> ActorId(loser)]]
        \/ \E i \in DOMAIN state.objects : Reaches(state.objects[i], state'.players[loser])
      ]_vars

(* While a match goes on it is the turn of the player who did not make the
   last move that the log holds. *)
TurnPasses ==
    LET own == {i \in DOMAIN log.value :
                  log.value[i].event.kind \in {"walk", "place_bomb", "place_gun"}}
    IN  scoreboard = <<>> /\ phase = "waiting" /\ own # {} =>
            log.value[CHOOSE i \in own : \A j \in own : j <= i].event.actor
                # ActorId(state.turn)

(* A move that holds the session's mutex gives it back, whatever states are
   posted while it waits for its timer. *)
MoveReturns == phase \in {"waiting", "played"} ~> phase \in {"idle", "erased", "crashed"}

(* What a client is shown and posts back is the state it was shown: no field
   of an object is lost on the way out or in, whatever the ticks made of it
   (test_api_set_state.cpp:30; type_serializer.hpp:84, the tojson of the
   objects). *)
RoundTrip == Posted(Shown(state)) = state

=============================================================================
