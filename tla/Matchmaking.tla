---------------------------- MODULE Matchmaking -----------------------------
(***************************************************************************)
(* From the enqueue request to the announced match: GameHandler::ApiEnqueue,*)
(* the queue in Redis (queue_manager_redis.cpp), the balancer that pairs   *)
(* players (matchmaking_balancer.cpp), GameManager::CreateSession and the  *)
(* polls of wait_for_opponent.                                             *)
(*                                                                         *)
(* A Redis command is one step. The list and the set of the queue outlive  *)
(* the server; matches and polls do not. Matches are numbered in the order *)
(* in which they are created; their ids are random in the code.            *)
(***************************************************************************)
EXTENDS Integers, SequencesExt, QueueNotifier

CONSTANTS Clients,      \* the connections enqueue requests come on
          UserOf,       \* the user of a connection, of either kind
          MaxRequests,  \* bound on the enqueue requests
          MaxRestarts   \* bound on the restarts of the server

ASSUME ClientsAssumption == IsFiniteSet(Clients) /\ None \notin Clients
ASSUME UserOfAssumption == UserOf \in [Clients \cup Conns -> Users]
ASSUME BoundsAssumption == MaxRequests \in Nat /\ MaxRestarts \in Nat

VARIABLES queue,     \* the Redis list, pushed at its head, popped at its end
          queued,    \* the Redis set
          sessions,  \* sessions_ and what has been erased from it
          qn,        \* the QueueNotifier
          balancer,  \* the client that has the balancer's mutex_, or None
          hand,      \* the players the balancer has popped
          pc,        \* where a client's request stands
          owed,      \* the answers a poll connection waits for
          sent,      \* history: the answers of the last step
          requests,  \* the enqueue requests so far
          restarts,  \* the restarts so far
          pushed,    \* history: how often a user was pushed
          lost,      \* history: how often a restart took a pushed user away
          stranded,  \* history: enqueues cut between push and pairing
          crashed    \* the process is gone

redisVars == <<queue, queued>>
history == <<requests, restarts, pushed, lost, stranded>>
vars == <<redisVars, sessions, qn, balancer, hand, pc, owed, sent, history, crashed>>

PC == {"idle", "member", "push", "add", "lock", "length", "pop1", "remove1", "pop2", "remove2",
       "create", "lookup", "notify1", "notify2"}

Init == /\ queue = <<>> /\ queued = {}
        /\ sessions = <<>>
        /\ qn = NobodyWaits
        /\ balancer = None /\ hand = <<>>
        /\ pc = [k \in Clients |-> "idle"]
        /\ owed = [c \in Conns |-> 0] /\ sent = {}
        /\ requests = 0 /\ restarts = 0
        /\ pushed = [u \in Users |-> 0] /\ lost = [u \in Users |-> 0] /\ stranded = 0
        /\ crashed = FALSE

Sid == Len(sessions)   \* the match that is being created
Goto(k, from, to) == pc[k] = from /\ pc' = [pc EXCEPT ![k] = to] /\ sent' = {}
Times(u, s) == Cardinality({i \in DOMAIN s : s[i] = u})

\* The players that were popped and are in no match yet.
InHand == IF \E k \in Clients : pc[k] \in {"lookup", "notify1", "notify2"} THEN <<>> ELSE hand

\* No enqueue request is under way.
Quiet == \A k \in Clients : pc[k] = "idle"

-----------------------------------------------------------------------------
(* GameHandler::ApiEnqueue and QueueManagerRedis::EnqueuePlayer.            *)

Blank == {s \in DOMAIN sessions : sessions[s].stage = "blank"}
Playing(u) == {s \in DOMAIN sessions : sessions[s].stage = "live" /\ u \in ToSet(sessions[s].players)}

\* GameManager::HasPlayer scans the sessions in the order of their ids and
\* ends at the first that has the player; Session::HasPlayer of one that is
\* not Init'ed dereferences the front of an empty vector.
StartEnqueue(k) ==
    /\ requests < MaxRequests
    /\ requests' = requests + 1
    /\ \/ Blank # {} /\ Goto(k, "idle", "idle") /\ crashed' = TRUE
       \/ Playing(UserOf[k]) # {} /\ Goto(k, "idle", "idle") /\ UNCHANGED crashed
       \/ Blank = {} /\ Playing(UserOf[k]) = {} /\ Goto(k, "idle", "member") /\ UNCHANGED crashed
    /\ UNCHANGED <<redisVars, sessions, qn, balancer, hand, owed, restarts, pushed, lost, stranded>>

\* sismember: in the set, the request is answered cant_enqueue.
IsMember(k) ==
    /\ Goto(k, "member", IF UserOf[k] \in queued THEN "idle" ELSE "push")
    /\ UNCHANGED <<redisVars, sessions, qn, balancer, hand, owed, history, crashed>>

\* lpush.
Push(k) ==
    /\ Goto(k, "push", "add")
    /\ queue' = <<UserOf[k]>> \o queue
    /\ pushed' = [pushed EXCEPT ![UserOf[k]] = @ + 1]
    /\ UNCHANGED <<queued, sessions, qn, balancer, hand, owed, requests, restarts, lost, stranded,
                   crashed>>

\* sadd.
Add(k) ==
    /\ Goto(k, "add", "lock")
    /\ queued' = queued \cup {UserOf[k]}
    /\ UNCHANGED <<queue, sessions, qn, balancer, hand, owed, history, crashed>>

-----------------------------------------------------------------------------
(* MatchmakingBalancer::Notify and Ballance.                                *)
\* Mutant: every balancing has a mutex of its own.
LockNothing(k) ==
    /\ Goto(k, "lock", "length")
    /\ balancer' = k
    /\ UNCHANGED <<redisVars, sessions, qn, hand, owed, history, crashed>>

Lock(k) ==
    /\ balancer = None
    /\ Goto(k, "lock", "length")
    /\ balancer' = k
    /\ UNCHANGED <<redisVars, sessions, qn, hand, owed, history, crashed>>

\* Ballance returns, the mutex is released and the request answered.
Return(k, from) ==
    /\ Goto(k, from, "idle")
    /\ balancer' = None
    /\ hand' = <<>>

\* Mutants: a pair is not enough, and an early return that keeps the mutex.
LengthMoreThanTwo(k) ==
    /\ \/ Len(queue) <= 2 /\ Return(k, "length")
       \/ Len(queue) > 2 /\ Goto(k, "length", "pop1") /\ UNCHANGED <<balancer, hand>>
    /\ UNCHANGED <<redisVars, sessions, qn, owed, history, crashed>>

LengthStillLocked(k) ==
    /\ \/ Len(queue) < 2 /\ Goto(k, "length", "idle")
       \/ Len(queue) >= 2 /\ Goto(k, "length", "pop1")
    /\ UNCHANGED <<redisVars, sessions, qn, balancer, hand, owed, history, crashed>>

\* llen.
Length(k) ==
    /\ \/ Len(queue) < 2 /\ Return(k, "length")
       \/ Len(queue) >= 2 /\ Goto(k, "length", "pop1") /\ UNCHANGED <<balancer, hand>>
    /\ UNCHANGED <<redisVars, sessions, qn, owed, history, crashed>>

\* PopPlayer: rpop, ...
Pop(k) ==
    /\ \/ Goto(k, "pop1", IF queue = <<>> THEN "pop2" ELSE "remove1")
       \/ Goto(k, "pop2", IF queue = <<>> THEN "create" ELSE "remove2")
    /\ hand' = hand \o (IF queue = <<>> THEN <<>> ELSE <<Last(queue)>>)
    /\ queue' = IF queue = <<>> THEN queue ELSE Front(queue)
    /\ UNCHANGED <<queued, sessions, qn, balancer, owed, history, crashed>>

\* ... and srem.
Unlist(k) ==
    /\ Goto(k, "remove1", "pop2") \/ Goto(k, "remove2", "create")
    /\ queued' = queued \ {Last(hand)}
    /\ UNCHANGED <<queue, sessions, qn, balancer, hand, owed, history, crashed>>

-----------------------------------------------------------------------------
(* GameManager::CreateSession.                                              *)

\* The emplace; without two players Ballance gives up, what it popped is gone.
Emplace(k) ==
    /\ \/ /\ Len(hand) < 2
          /\ Return(k, "create")
          /\ UNCHANGED sessions
       \/ /\ Len(hand) = 2
          /\ Goto(k, "create", "lookup")
          /\ sessions' = Append(sessions, [stage |-> "blank", players |-> hand])
          /\ UNCHANGED <<balancer, hand>>
    /\ UNCHANGED <<redisVars, qn, owed, history, crashed>>

\* The lookups of the users, and Init unless one of them fails; then the empty
\* session stays.
Lookup(k) ==
    /\ \/ Return(k, "lookup") /\ UNCHANGED sessions
       \/ /\ Goto(k, "lookup", "notify1")
          /\ sessions' = [sessions EXCEPT ![Sid].stage = "live"]
          /\ UNCHANGED <<balancer, hand>>
    /\ UNCHANGED <<redisVars, qn, owed, history, crashed>>

\* The responsers run; `asked' is the connection whose request this step is.
Answer(told, asked) ==
    /\ qn' = told.q
    /\ sent' = told.answers
    /\ owed' = [c \in Conns |-> owed[c] + (IF c \in asked THEN 1 ELSE 0)
                                 - Quantify(told.answers, LAMBDA a : a.conn = c)]

\* Mutant: the popped players are kept between two balancings.
AnnounceKeepsHand(k) ==
    /\ \/ /\ pc[k] = "notify1"
          /\ pc' = [pc EXCEPT ![k] = "notify2"]
          /\ Answer(NotifyFound(qn, hand[1], Sid), {})
          /\ UNCHANGED balancer
       \/ /\ pc[k] = "notify2"
          /\ pc' = [pc EXCEPT ![k] = "idle"]
          /\ Answer(NotifyFound(qn, hand[2], Sid), {})
          /\ balancer' = None
    /\ UNCHANGED <<redisVars, sessions, hand, history, crashed>>

\* QueueNotifier::Notify of the first player, then of the second one.
\* (SessionCreated, in module GameManager, comes before the mutex is free.)
Announce(k) ==
    /\ \/ /\ pc[k] = "notify1"
          /\ pc' = [pc EXCEPT ![k] = "notify2"]
          /\ Answer(NotifyFound(qn, hand[1], Sid), {})
          /\ UNCHANGED <<balancer, hand>>
       \/ /\ pc[k] = "notify2"
          /\ pc' = [pc EXCEPT ![k] = "idle"]
          /\ Answer(NotifyFound(qn, hand[2], Sid), {})
          /\ balancer' = None
          /\ hand' = <<>>
    /\ UNCHANGED <<redisVars, sessions, history, crashed>>

-----------------------------------------------------------------------------
\* GameHandler::ApiWaitForOpponent.
WaitForOpponent(c) ==
    /\ owed[c] = 0
    /\ Answer(SubscribePoll(qn, UserOf[c], c), {c})
    /\ UNCHANGED <<redisVars, sessions, balancer, hand, pc, history, crashed>>

\* GameManager::FinishSession erases a match (module GameManager).
FinishSession(s) ==
    /\ sessions[s].stage = "live"
    /\ sessions' = [sessions EXCEPT ![s].stage = "erased"]
    /\ sent' = {}
    /\ UNCHANGED <<redisVars, qn, balancer, hand, pc, owed, history, crashed>>

\* The server is started again after it crashed or was stopped, at any point:
\* what it kept in memory is gone. (Only a test server empties Redis.)
Restart ==
    /\ restarts < MaxRestarts
    /\ restarts' = restarts + 1
    /\ lost' = [u \in Users |-> lost[u] + Times(u, InHand)]
    /\ stranded' = stranded
         + Cardinality({k \in Clients : pc[k] \in {"add", "lock", "length", "pop1"}})
    /\ sessions' = [s \in DOMAIN sessions |-> [sessions[s] EXCEPT !.stage = "erased"]]
    /\ qn' = NobodyWaits
    /\ balancer' = None /\ hand' = <<>>
    /\ pc' = [k \in Clients |-> "idle"]
    /\ owed' = [c \in Conns |-> 0] /\ sent' = {}
    /\ crashed' = FALSE
    /\ UNCHANGED <<redisVars, requests, pushed>>

Step(k) == \/ IsMember(k) \/ Push(k) \/ Add(k) \/ Lock(k) \/ Length(k) \/ Pop(k) \/ Unlist(k)
           \/ Emplace(k) \/ Lookup(k) \/ Announce(k)

Next == \/ /\ ~crashed
           /\ \/ \E k \in Clients : StartEnqueue(k) \/ Step(k)
              \/ \E c \in Conns : WaitForOpponent(c)
              \/ \E s \in DOMAIN sessions : FinishSession(s)
        \/ Restart

\* The threads run. Who waits for the balancer's mutex gets it, since the others
\* take it a bounded number of times.
Fairness == \A k \in Clients : WF_vars(~crashed /\ Step(k))

Spec == Init /\ [][Next]_vars /\ Fairness

-----------------------------------------------------------------------------
(* The fields are of their types. *)
TypeOK ==
    /\ queue \in Seq(Users) /\ queued \subseteq Users
    /\ sessions \in Seq([stage : {"blank", "live", "erased"}, players : Users \X Users])
    /\ qn \in [responser : [Users -> Conns \cup {None}], waiting : [Users -> Nat \cup {None}]]
    /\ balancer \in Clients \cup {None} /\ hand \in Seq(Users) /\ Len(hand) <= 2
    /\ pc \in [Clients -> PC] /\ owed \in [Conns -> Int]
    /\ requests \in 0..MaxRequests /\ restarts \in 0..MaxRestarts /\ stranded \in Nat
    /\ pushed \in [Users -> Nat] /\ lost \in [Users -> Nat] /\ crashed \in BOOLEAN

\* How often a user is a player of a match, which has two.
Matched(u) == Cardinality({seat \in (DOMAIN sessions) \X {1, 2} :
                              sessions[seat[1]].players[seat[2]] = u})

(* Every push of a user leads to exactly one place: the queue, the balancer's
   hands, one match, or a restart that took it from the balancer's hands. No
   two balancings pop past each other (matchmaking_balancer.cpp:8-21 under
   :23's mutex). *)
EveryPushCounts ==
    \A u \in Users :
        pushed[u] = Times(u, queue) + Times(u, InHand) + lost[u] + Matched(u)

(* When no enqueue is under way no two players wait in the queue, although a
   balancing pairs at most two of them (matchmaking_balancer.cpp:10); only the
   enqueues a restart cut short leave more behind, one each. *)
NoPairLeft == Quiet /\ ~crashed => Len(queue) <= 1 + stranded

(* A session id is kept for a user only while the user has no open poll, and a
   poll is owed one answer as long as it is open (queue_notifier.cpp:22-48). *)
KeptOrOpen ==
    \A u \in Users :
        /\ qn.waiting[u] = None \/ qn.responser[u] = None
        /\ \A c \in Conns : UserOf[c] = u => owed[c] = IF qn.responser[u] = c THEN 1 ELSE 0

(* Two players in the queue do not wait long: a balancing pairs them, or the
   server goes down. That needs every way out of a balancing to release the
   mutex (matchmaking_balancer.cpp:22-29). *)
PairsAreMatched ==
    Len(queue) >= 2 + stranded ~> Len(queue) < 2 + stranded \/ crashed

(* i_queue_manager.hpp:22: EnqueuePlayer returns false if the player is already
   in the queue. With no request under way, who would be refused is. *)
RefusedIsQueued == Quiet /\ ~crashed => queued \subseteq ToSet(queue)

(* notification_system.md:8: if the opponent was found before the poll, the
   poll still gets the response: that of the opponent found last. *)
FoundIsLatest ==
    [][(\A k \in Clients : pc[k] \notin {"notify1", "notify2"}) =>
          \A a \in sent' : a.code = "ok" =>
             \A s \in DOMAIN sessions : s > a.sid /\ sessions[s].stage = "live"
                 => UserOf[a.conn] \notin ToSet(sessions[s].players)]_vars

=============================================================================
