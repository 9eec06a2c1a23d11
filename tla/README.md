# Verification of the game server

TLA+ models of the game server in `src/`, their model checking with TLC and
proofs about them with TLAPS. Paths below are relative to `src/src/` unless
they begin with `src/`; modules are in this directory.

The server runs matches of two players. A player registers, logs in, enqueues,
waits for an opponent with a long poll, sends moves, and learns of the
opponent's moves with another long poll. Requests run on the threads of one
`io_context`; users and results are in Postgres, tokens and the matchmaking
queue in Redis, matches and open polls in memory.

## 1. The system

| Component | State | Operations | Talks to |
| --- | --- | --- | --- |
| Session (`game_manager/session.cpp`) with its objects and validators | `state_` (players, objects, terrain, turn, move number), `id_counter_`, `scoreboard_`, a timer per move | ApiMove, SetState, TimerAbort, GetResults | its event list; objects call back into it while it sweeps them |
| EventListWrapper (`event_manager.cpp`) | the events, `from_move_` (the index polls enter by), the current move number | AddEvent, SetMoveNumber, Clear, FromMove | read by polls |
| GameManager (`game_manager.cpp`) | `sessions_`, `session_mutex_`: a match and a mutex per id | CreateSession, HasPlayer, ApiMove, CheckStatus, FinishSession, SetState | Session, both notifiers, the user and session managers |
| SessionStateNotifier | per match: the users' responders, `poll_waiting`; `send_and_close_` | SessionCreated, Subscribe, ChangePoll, Notify, Unsubscribe, one mutex for all | GetEvents of GameManager; responders write to connections |
| QueueNotifier | `users_responser_`, `poll_waiting_` (ids nobody polled for) | Subscribe, Notify, one mutex for all | responders write to connections |
| QueueManagerRedis | a list and a set in Redis | EnqueuePlayer, PopPlayer | notifies the balancer |
| MatchmakingBalancer | `mutex_` | Notify, Ballance | queue, GameManager::CreateSession |
| ConnectionPool | `pool_`, `used_connections_`, a mutex, a condition variable | GetConnection, ReturnConnection | every query of the managers |
| GameHandler, GeneralHandler, DebugHandler | none | the API functions | all managers |
| ApiFunctionExecutor, Builder, Director, ApiHandler | the table of functions of a connection | Handle, Execute, ParseUrlParameters | TokenManager |
| TokenManagerRedis | a hash in Redis, token to user | GenerateToken, AddTokenToUuid, GetUuidByToken | |
| UserManagerPostgres, SessionManagerPostgres | the tables | AddLine, lookups, each with a connection of its own | ConnectionPool |
| Responses (`send_manager.cpp`, `response_builder.hpp`), StaticHandler | none | an answer per error and per thing sent | the connection |
| Listener and Session (`server/`) | an accept; a stream per connection | accept, read, handle, write | handlers |
| Serializer, initializer | none | conversion to and from JSON, start-up | |

What is hard in it:

* **Handlers interleave on every thread.** `GameManager` has no lock of its
  own: `HasPlayer` tests `contains` and then calls `at`; `FinishSession`
  unlocks and destroys the mutex that other moves are waiting for, and its
  caller unlocks it once more. SetState takes no lock, and is two writes.
* **A move waits.** It holds its match's mutex, and its worker, until the 5
  second timer it started is over. In between polls, other matches and
  SetState go on.
* **Long polls.** A request is answered by the step of somebody else. A user
  may poll twice, poll just before or after a move, poll after the match is
  gone, or never again.
* **The queue is two Redis keys**, changed by separate commands and balanced
  per enqueue. It outlives a crash of the server, what was popped does not.
* **The sweep of one tick** walks the object list with two iterators while
  objects remove themselves and each other from it and guns append to it.
* **Waiting and waking** in the pool: the notification comes after the unlock.
* **Failures in the middle**: a user that cannot be looked up, a result that
  cannot be stored, an accept that fails, a database connection that is lost,
  which a lookup throws out of whatever called it.
* **Locks within locks.** A responder runs under a notifier's mutex, which may
  be held under a match's or the balancer's, and takes a connection of the
  pool, and the database a row.
* **Many ways to an answer.** What a function finds, what a manager finds a
  moment later, and a third look to tell a finished match from one that never
  was, each with its own answer.

What makes each part correct:

* Session: a move ticks each object once; players never stand in one another,
  in walls or in objects; the turn alternates; only who resigned or was hit
  loses; a move returns its mutex.
* Event list: the index cuts the list where polls ask it to, whatever crossed
  before; AddEvent throws only under a move that a SetState crosses.
* Notifier and match: every poll has one answer; no move is missed; the last
  move is told before the end; one result per match.
* Matchmaking: no player is lost or duplicated; no pair waits for ever.
* Pool: a connection has one holder, no wakeup is lost.
* Server: a stream has one operation at a time; a request acts for the owner
  of its token; what was read is served.
* Handlers: a request is answered once, and a documented one with an answer the
  documentation lists for it; workers never wait for each other in a circle; a login is confirmed
  once.

`PROJECT.json` lists the components with their status, and the hazards with the
line where each one bites and the properties that would show it going wrong.

## 2. The modules

```
EventListWrapper  (operators)   <- EventLog        <- EventLogProofs
                                <- GameSession     <- GameSessionProofs
                                                   (also uses MoveValidators)
SessionStateNotifier (operators)<- GameManager     <- GameManagerProofs
                                                   -> implements UpdateMailbox
QueueNotifier     (operators)   <- Matchmaking     <- MatchmakingProofs
ApiExecutor       (operators)   <- Server          <- ServerProofs
                                                   (also uses QueueNotifier)
                                <- Responses (operators) <- Handlers
Calls             <- CallsProofs, Handlers         Handlers -> implements Calls
Handlers, CallsProofs           <- HandlersProofs
ConnectionPool    <- ConnectionPoolProofs          -> implements ResourcePool
```

Modules that only hold operators map a component's data to what a method
leaves; the module that owns the data makes them its actions. So the event
list is the same in EventLog and in GameSession, and the queue notifier in
Matchmaking and in Server. `MC*` modules and the `.cfg` files instantiate.
Definitions with "Mutant" in their comment are what the next definition would
be after a plausible slip; no run uses them as they stand. They show that the
properties tell the code from its neighbours.

**EventLog.** `log` is `events_wrapper_`, `moveNumber` is
`state_->move_number`, `captured` the number the timer was started with, `pc`
where the thread in ApiMove stands, `setter` where the threads in SetState
stand. A move counts (CountMove), stamps the list (StampMove), reports its
events (Report), and returns or starts its timer; the timer tests the number
(TimerExpires) and then reports (TimerAbort). SetState replaces the state
(ReplaceState) and then clears the list (ClearList). These are the steps: each
is one write of a field of the session or one call of a method of the list, and
any other step may come between two of them. The writes within one call of
AddEvent or Clear are not taken apart (section 5). An exception of AddEvent
under a move ends the server (`crashed`), under the timer it stays in the
future. `base` is history: the move a cleared list starts after.

**MoveValidators.** Pure. The validators as the director has them built by its
one builder (`InitApi`), what a validator answers (`Validate`), and a move as
it is read from a body, where a name that is not known becomes the first of its
enumeration (`MoveFrom`).

**GameSession.** One match with its rules. ApiMove is one action: validation,
the move's effect, the sweep, the events and the start of the timer. The sweep
(`FirstLoop`, `SecondLoop`) folds over single rounds of the two loops of
`AfterMove`; each list element has a `node`, so that an erased element is told
from one with the same actor id. Reading an erased element is undefined behaviour: the freed block has been
reused for the event made since, and the step leads to `crashed`. (An object
that erased itself and then reads its own `actor_id` reads it unchanged.) The
scoreboard holds weak pointers: after SetState they have expired and
dereferencing them is a crash too. A cell is not compared with the map's size
by the validators, as in the code. SetState is one step here; that its writes
are two is EventLog's matter. It reads what a client posts: a state of
`Payloads`, or the one it was shown (`ToJson`, `FromJson`). It tests nothing of
it; `PayloadsAssumption` is that clients post states a match can be in, as
players that overlap in a posted state go on overlapping. Left out: which player starts at random, payloads of events
other than kind and actor.

**GameManager.** One match seen by requests, from CreateSession's
notifications to FinishSession, one action per call between which another
thread can run. A move is accepted or refused by choice (the rules are
GameSession's). Polls come from players on several connections and from
spectators. A single operation on the manager's unlocked maps is atomic. `sent`,
`seen`, `since` are history.

The end of a match is four steps of its last move: the erase from `sessions_`,
the unlock by hand (UnlockEarly), the erase of the mutex (DestroyMutex), and the
second unlock by the `unique_lock` of ApiMove (ReleaseDestroyed), which does not
know of the first. `owner` says who has locked each of two mutexes, the one the
match had and the one `session_mutex_[sid]` makes once that is gone; `mine` is
the one a move found (FindMutex), which may be destroyed before it is locked.
What is left of a destroyed mutex goes on working for those who refer to it, and
the second unlock frees it under whoever has it now, or does nothing. That its
memory is put to another use meanwhile is not modelled.

**Matchmaking.** Each Redis command, each notification, and the lookups of
CreateSession are steps. `queue` and `queued` (the list and the set) survive
Restart, everything else is lost. Matches are numbered instead of named. The
two lookups of CreateSession are one choice: both succeed or one fails.

**ConnectionPool.** Each critical section is a step; sleeping, waking
(also spuriously), testing again and notifying are steps of their own.

**Server.** Connections, completion handlers, workers, accounts and tokens.
`ready` are the handlers that are due, `worker` what a thread runs, `ops` the
asynchronous operations on a stream. Registration, login (hset and hget apart)
and authorization are complete; of the game's functions the module keeps what
they do to connections and workers. Users are named by their login. A token is
one nobody else has drawn: that two logins draw the same 128 bits between the
test and the store is assumed away, not checked; a client may still make one up (`Bogus`).
`session_state_change` is in GameManager only.

**Calls.** Workers that run methods which call each other: what the shape of
the code says of its locks, for any program. A method is a small flow graph of
calls and tests; what it locks it owns from its entry to its return, as
`std::lock_guard`, `Lock<T>` and `ConnectionWrapper` do. `Needs` names what a
method locks (any one of a set: any connection of the pool), `Level` where it
stands in the order of the locks.

**Responses.** Pure. Status, error_name, Allow and the presence of a body for
every answer, and the parsing of a target's parameters, over words and the
signs `?`, `&` and `=` instead of characters.

**Handlers.** The flow graph of every API function, of the static files, and of
each manager's, notifier's and query's method they call, as one program of
Calls (`HandlerProgram`). What the other modules model in depth (whose turn it
is, whether a match is there) is an open test here; what this module is about
decides its tests: the dispatch, the parameters, the accounts (`table`), and
the connections the database has dropped (`broken`), which stay in the pool. A
lookup on one throws, through all its callers, and ends the process
(`Terminate`), which starts again with a new pool. So do the other ways out that
throw: a match that is erased between the manager's `contains` and `at`, one
without players, AddEvent and FromMove, and a method that sends commands to
Redis when it is lost. (The lookup of the token in the dispatch is such a method
too; that it throws is left out.) `INSERT INTO users` waits
for the row of its unique login. The two threads' answers to one connection are
Server's matter; here `said` counts how often a request's own handler answered
or parked it, and a responder that answers somebody else's poll is checked with
that poll's function. A match's mutex is held until LockedMove returns; what
FinishSession does to it before is GameManager's matter.

## 3. The runs

All configurations but Handlers' turn deadlock checking off for one reason: the
bounds (moves, requests) and the clients, whom nothing forces to go on, let a
behaviour stop. That nothing hangs is stated by the liveness properties, and by
`NoDeadlock` for the locks.

| Run | Instance | Shows |
| --- | --- | --- |
| EventLog | 2 events, 2 SetStates that cross, payload numbers 0 and 2, moves up to 4, 5 events | TypeOK, FromMoveExact, ThrowsOnlyIfCleared |
| GameSession | the room of Init and a 3x3 room with every list of up to two of seven objects (two orders) and two lists of three, 3 moves | TypeOK, PlayersApart, TurnPasses, AgesOnce, LoserWasHit, MoveReturns, RoundTrip |
| ConnectionPool | 4 workers, 2 connections, 2 queries each | TypeOK, HandedOutOnce, NoLostWakeup, Served, AllocatesExclusively (refinement) |
| GameManager | the moves of both players, two poll connections of one, 2 accepted moves | TypeOK, OneMoveAtATime, OneResult, EventsReachable, AnsweredOnce, NoLostUpdate, LastMoveFirst, KeepsMailbox (refinement), PollAnswered, MoveAnswered |
| Matchmaking | two users, one of them enqueues on two connections and polls on two, 4 requests, 1 restart | TypeOK, EveryPushCounts, NoPairLeft, KeptOrOpen, PairsAreMatched |
| Server | 2 connections, 2 workers, 2 users, 2 tokens, 12 requests | TypeOK, OneOperation, ActsAsOwner, ParkedIsSubscribed, RequestsServed |
| Handlers | 2 workers, 1 connection, a login that fits the column and one that is too long, 38 requests: every function, methods, tokens, targets | TypeOK, OneAnswer, NoDeadlock, RegisteredOnce, AnswersAsDocumented |
| GameManagerFinished, GameManagerCreation, HandlersToken, MatchmakingRefused, MatchmakingStale | as above or smaller | the findings below |

Why the bounds are enough for the cases that matter:

* EventLog: after a payload of 2 there is room for two moves on an index that
  is shifted, and for the list to be cleared in any place of a move; the second
  SetState crosses the first one, as more of them would.
* GameSession: the objects are chosen so that each can destroy another, or a
  player, within the tick; two in both orders are what the two iterators can
  tell apart, and the lists of three have a survivor in front of two objects
  that remove each other (or `it` and `prev`).
* ConnectionPool: more workers than connections by two, so that one waits
  while another overtakes it.
* GameManager: the third mover would wait like the second; a player's two
  connections are what a replaced poll needs; two moves are what "the last
  move" needs. The second accepted move can come before the first one is
  polled for. The third user, a spectator, would poll as a player does; the
  proofs are for any users and connections.
* Matchmaking: two connections of one user cross in EnqueuePlayer; four
  requests make two matches, so that ids can be stale; one restart can cut any
  request.
* Server: both workers can be blocked by moves of the same match, and each
  connection be answered by the other's worker.

* Handlers: one connection is what two workers contend for, under every
  mutex; two workers are what a race of two registrations or of a poll and a
  move needs. The two registrations meet in the INSERT only with two
  connections: then the row's lock is the innermost of the order, and
  `HandlersNoDeadlock` is proved for any number of connections and workers.
  The requests have every documented target in both orders, targets without
  a sign and with an empty last pair, and tokens that are missing, malformed,
  known and unknown.

Fairness. The threads of the pool and the timers' threads run: weak fairness of
their steps. A lock that is free infinitely often is obtained in the end:
strong fairness of the steps that take a match's mutex (GameManager, Server).
In Matchmaking and ConnectionPool requests are bounded, so that weak fairness
is enough. No fairness is assumed of clients, of restarts, of accepts or of
spurious wakeups. `Served` is about workers in front of which the queries end.

What AnswersAsDocumented asks of an answer: for a documented function and method
its status and name are among those listed at the function, or that its tags
include; the token decides between them as documented, except for what is said
of one that nobody has (HandlersToken); a documented target is not refused, and
nobody is told of a session without the function's parameters; a HEAD has no
body; and a login is called taken only for a reason. Methods and functions the
documentation does not mention may be answered anything but a body for a HEAD.

### Findings

* **GameManagerFinished** (`game_manager/game_manager.cpp:40`, against
  `docs/http_api.md:403-404`): a move that finds the match between `contains`
  and `at` while another one erases it throws out of its worker.
* **GameManagerCreation** (`game_manager/game_manager.cpp:20`, against
  `docs/http_api.md:395-399`): a first poll that comes before SessionCreated is
  told wrong_sessionId for a match that exists.
* **HandlersToken** (`http_handler/api_function_executor.cpp:45`, against
  `docs/http_api.md:69-76`): a well-formed token that addresses nobody is
  answered invalid_token, not person_removed.
* **MatchmakingRefused** (`queue_manager/queue_manager_redis.cpp:14`, against
  `queue_manager/i_queue_manager.hpp:22`): a pop between lpush and sadd leaves
  the player in the set; it is refused from then on.
* **MatchmakingStale** (`notification_system/queue_notifier.cpp:46`, against
  `docs/notification_system.md:8`): an id nobody polled for is not replaced; the
  next match's poll is answered with the old one.

Some behaviours of the models are not stated as findings, because no document
claims otherwise: after a failed accept no connection is taken any more
(`server/listener.cpp:27`); two requests of one user can push it twice; a
failed lookup in CreateSession leaves a session without players, which the next
enqueue's HasPlayer dereferences; a match resigned before SessionCreated keeps
its subscribers; after a posted state (`game_manager/session.cpp:66`) a new
object may get an id that is taken; a move that a SetState crosses may throw, or
be appended to the list that is about to be cleared; after a posted state with a
move number n > 0 the index has no entry for the first move, n + 1, so a poll from
move m > 0 is sent the events from m + n + 1 on (`docs/http_api.md:587`, "INCLUDING
the move you started on", does not speak of posted states); a move that got the
match's mutex from its end may lose it to the second unlock. The timer gives a
match to the first player after 5 seconds (`game_manager/session.cpp:126`), an
end that `docs/game_rules.md:2` does not list; MoveReturns relies on it.
`PROJECT.json` has most of them as hazards. `EventsReachable`, `NoLostUpdate` and `LastMoveFirst` say so in their premise: subscribers that
were there before the first move (`since = 0`).

## 4. The proofs

Theorems hold for every value of the constants, under the assumptions that the
modules name.

**EventLogProofs.** The inductive invariant is `IndexInv`. `IndexCuts` is not
inductive: to add an entry in the right place the list must be sorted by move
(`Ordered`), each entry must have an event behind it (`Entered`), there must be
exactly one entry per move so far (`Complete`, which relates `Len(from)` to the
last event's move, shifted by what the list starts after), and the move number
and the stamp must be where the move under way puts them (`Stage`: `Quiet`
between moves; after CountMove the number is one above `Latest`; `Opened` after
StampMove). Between the two writes of a SetState none of this holds: the state
is new and the list is old. `IndexInv` says it of the states in which every
SetState is `Settled`, and that is enough to be inductive, because the last
SetState to settle clears the list: `ClearList` establishes all of it from the
types alone, whatever the steps before it did to the list.
`AddEventKeepsIndex` is the one lemma that moves and the timer share. From it:
`IndexInvariant`, `TypeCorrect`, `IndexCutsTheList`, `ThrowNeedsSetState`, and
`PollsAreExact` (FromMove's result, by cases on the index's length).

**ConnectionPoolProofs.** The inductive invariant is
`PoolInv == TypeOK /\ HandedOutOnce /\ UsedCounts`: that the slots below
`used_connections_` are empty and those above are distinct is what makes the
next slot fresh, and that the count is the number of holders is what keeps
`--used_connections_` in the array. The lemmas on cardinality say what one
worker's change of `pc` does to a count of workers; `NoLostWakeup` is proved
with PoolInv, because a notification must be counted before it may find nobody
asleep. `PoolImplementsResourcePool` is the refinement of ResourcePool with
`held` for `held`: taking maps to Acquire, returning to Release, waiting and
waking to stutters.

**CallsProofs.** A circle of waiting needs an order of the locks that somebody
takes downwards. `Level` gives every method a place; the assumptions, which TLC
evaluates on the program of Handlers, say that methods that contend for a thing
stand at the same level and that a call out of a method that owns something
leads strictly up. The inductive invariant `Nested` carries that to the frames
of a worker: a frame owns only what its method needs, nothing before it has
entered, and of two frames the later is higher, strictly if the other may own
something. If all busy workers were blocked, each would wait for what another
one's frame below its top owns, so that one waits at a higher level still
(`WaitsForHigher`), and after six levels there is none (`NestedNoDeadlock`).
The theorem is of any program, any number of workers and any things.

**HandlersProofs.** Every step of Handlers is one of Calls or leaves its
variables (`StepOfCalls`), so the handlers implement Calls and inherit
`NoDeadlock`. That a request is answered once (`OneAnswer`) is not inductive:
the answer is sent deep in the frames, and the request ends when the first of
them returns. `WorkersInv` adds to `Nested` that every frame stands where its
program leads and all but the last at the call of the next (`Linked`), and that
`said` is 1 exactly while a method that answers its request is returning
(`HasAnswered`). The program must make this so: `AnsweringAssumption` says that
a method that answers, or calls one that does, returns at once with it, and
answers or leaves the answer to another on each of its ways. TLC evaluates it on
`HandlerProgram`; the proof is for any program that satisfies it.

`RegisteredOnce`, in the same module, counts confirmations, which are sent
long after the INSERT decided: in between the success is a "yes" that AddLine
and ApiRegister hand on. `RegInv` adds to `WorkersInv` that such a success on
its way (`Confirming`) is the only one for its login, that its login is in the
table and that nobody was told (`Registering`). `Linked` is needed so that a
"yes" can only come from an INSERT. The INSERT that succeeds finds its login
absent, so no other success of it is on its way. The proof uses the unique
column and that rows stay, not the row's lock; a connection that is lost at the
commit may leave its row in or out. What the program must satisfy is
`RegisteringAssumption`, which TLC evaluates on `HandlerProgram`.

**GameManagerProofs.** All safety properties of a match, from `MatchInv`.
While there is a match, `Exclusive` ties the mutex to the one move between lock
and unlock. Only that move can erase the match, so that a result is recorded
once and nobody erases a match twice (`ResultOnce`). Afterwards the mutex
excludes nobody: it is unlocked twice, and another one is made in its place.
What still holds is that at most one move is on its way out (`Ending`) and all
others that have a lock are about to look the match up, in vain; `MovesExclude`
says both. `Kept` is about the notifier's data: both
players are subscribed once SessionCreated ran, an open poll is on a connection
of its user, and a kept update, an open poll and a kept end exclude each other.
`Informed` is why no update is lost: outside the step between a move and its
Notify, each subscriber has a kept update or has seen the last one, and a
subscriber that is gone was told the end. It is stated for matches whose players
were subscribed before the first move (`since = 0`), as the properties are.
`AnsweredOnce` is a conjunct, because what a poll is owed is what its request
and the notifier say together. From the invariant follow the action property
`LastMoveFirst`, and that the notifier implements UpdateMailbox
(`NotifierKeepsMailbox`): ChangePoll maps to a poll, Notify to an update,
Unsubscribe to the end, and all else to stutters.

**ServerProofs.** `ServerInv`. `Scheduled` says that a connection is in one
place: due in the queue of handlers once, or handled by one worker, or waiting
for its stream, or parked. `OneOperation` follows, because a parked connection
has no operation and the responder that answers it takes it out of the
notifier. `Drawn` and `Issued` follow a token from the draw to the answer: two
logins never have one drawn at the same time, it is stored for the request's
user before it is sent, and a stored token is not drawn again; `ActsAsOwner`
needs all of it and that a client can only send what it was sent or made up.
`RequestsAssumption` is about what clients send. `ProtectedAssumption` says that
the executors of the protected functions need an author: what the builder, a
fold over its calls, makes of them has no constant in it, so TLC evaluates it
once and the proofs use no more of the builder.

**MatchmakingProofs.** `MatchmakingInv` is enough for `NoPairLeft` and
`KeptOrOpen`. `Pairing` bounds the queue by one, the enqueues that have pushed
and not yet popped, and what restarts stranded: a balancing that sees a pair
takes it, since only the mutex's owner pops (`OneBalancing`, `PoppedSoFar`).
`PollsAreOwn` makes an answer reach the user it is for. `EveryPushCounts` needs
also that the pair a balancing saw is still there at the second pop (`Enough`):
otherwise a player could be popped alone and matched with nobody. The rest is
counting: a sequence that gains an element at an end counts one user once more
(`TimesLast`, `TimesFirst`), a new match seats its two players (`SeatsAdded`).
The counts are cardinalities, not folds, so that this can be said.

**GameSessionProofs.** For any posted states, any targets and any number of
objects. The invariant is
`MatchInv == TypeOK /\ Plain(state) /\ PlayersApart /\ TurnPasses`; `Plain` (the
fields a kind of object does not have are as its constructor left them) is what
makes `RoundTrip` and what keeps the types when objects are ticked. A sweep is a
fold over rounds, and the operator of a fold is what the provers cannot be given
as a parameter. The module reasons about the function a fold is defined by
instead: a set of numbers has a least one, as numbers are well-founded
(`Least`), so there is such a function (`FoldExists`), and it stays in every set
that the fold's steps do not leave (`FoldStays`). The set is that of the worlds
`Swept` from the one the move left: the players stay where they are, the log
goes on with events of objects only, no result is taken back, and no object
comes to the cell of a player on the map unless somebody has lost. `Swept` is
shown of one tick of each kind (`TickBombKept`, `TickGunKept`,
`TickBulletSwept`), of the removal of erased and of freed objects, of a round and
of both loops. What the move does before the sweep is in `AllowedMove` and
`MovedWorld`: the validators the director has built leave no move onto a wall, a
player or an object. The log's part of `Swept` gives `TurnPasses`: the last event
of a move's own is the mover's.

The proof of `PlayersApart` corrected it: it holds of players on the map. A cell
is not compared with the map's size, so a player can walk off it, where nothing
collides; after SetState, which puts `id_counter_` at 2, two objects can share an
id, and a bullet that leaves the map removes the first object with its id, which
may be another one. It then stays, over the player perhaps. TLC has the example.

`AgesOnce` and `LoserWasHit` relate each object after the sweep to the one it
was before, while elements leave and join the list under two iterators. They
need three more facts of the sweep:

- The list is in the order of its nodes and each node has one element (`Tidy`),
  so a tick can be said of the set of elements. `UpdateTicked` does so for all
  kinds: the element ages, leaves, or is a bullet that hits; a gun may add a
  bullet behind all others; of the elements next to it only bullets on its cell
  go, and in a list whose ids are unique no other one goes.
- A frontier is between what is ticked and what is not (`Halfway`): the elements
  in front of it are `Touched` (an element of before, or a bullet shot
  meanwhile, aged once), those behind it `Untouched`; whoever has lost is named
  by an object that could reach him (`Judged`); and if ids were unique they still
  are, and only what may go is gone (`Lawful`). A tick of the element at the
  frontier takes it one node further (`TickHalfway`). The frontier is at the
  first element while the first loop runs and behind `prev` in the second
  (`FirstRoundHalfway`, `NextRoundHalfway`).
- The rounds suffice. The model bounds the loops' rounds to make them folds, and
  a bound too small would leave objects unticked. `Left` counts the elements
  behind the frontier, and those among them that were there before the sweep once
  more, since each may shoot one bullet. A tick makes it smaller (`TickLess`), at
  first it is at most twice the elements (`LeftNat`), and at nought nothing is
  behind the frontier. `FoldReaches` carries this along the rounds: a fold whose
  k-th step leads from the k-th set of a row to the next ends in the last one.

`SweepHalfway` puts them together: the sweep ends with the frontier behind all
elements, unless the match is over or freed memory was read. `MoveLoses` and
`MoveAges` read the properties off that. That ids are unique is a premise of
`AgesOnce` and its first conclusion, so that it holds until a state is posted.

Only model-checked: `AnswersAsDocumented` of Handlers, which enumerates what one
program answers; and every liveness property, as liveness and ENABLED are out of
this prover's reach. The findings are TLC's.

## 5. Not modelled

* What an unsynchronised `std::map`, vector or list does under a data race; a
  single operation, or call of a method of the event list, is atomic, the gaps
  between them are not. What the memory of a destroyed mutex is reused for.
* Growth over many matches (`send_and_close_`).
* The client's side of the serializer, descriptions and content types of
  answers, which paths lie under the static root, logging, program arguments.
* Redis and libpqxx failing in other places than a query: a Redis command
  that throws, a pool whose connections cannot be made at the start.
* Code outside `src/src`: Beast, Asio, libpqxx, redis-plus-plus, the frontend,
  the tests. The Redis commands and the condition variable are modelled by how
  the code uses them.

## 6. Plan

Done: event list, match rules with their validators, pool, match and notifier,
matchmaking, server, handlers with their answers, locks and lost connections.

To model next:

1. A composition of Matchmaking, GameManager and GameSession for one pair of
   players: ids from the announcement on, HasPlayer against the real moves.
2. Two matches in SessionStateNotifier and `send_and_close_` over several
   matches.
3. An abstract specification of matchmaking (a bag of waiting players, matches
   made of two) that Matchmaking implements up to restarts.

To prove next: of AnswersAsDocumented the parts that do not enumerate the
program; the refinement of the abstract specification of matchmaking.

## 7. Running

In this directory, for a run X of module M: `tlc -workers 2 -config X.cfg M`;
for the proofs: `tlapm` on each of the eight modules whose name ends in Proofs.
Longest are GameSession (five and a half minutes), Handlers and Server (a minute
and a half each).
