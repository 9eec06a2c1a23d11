------------------------------- MODULE Server -------------------------------
(***************************************************************************)
(* The server around the API functions: the connections (server/session,   *)
(* listener), the io_context and its workers (initializer), and the        *)
(* functions that keep accounts and tokens (general_handler, user_manager, *)
(* token_manager). Of the game's functions the module keeps what they do   *)
(* to connections and workers: wait_for_opponent parks its connection in   *)
(* the QueueNotifier, enqueue answers those parked there, move holds its   *)
(* worker for the match's mutex and for the timer.                         *)
(*                                                                         *)
(* A user is named by its login, which the users table keeps unique.       *)
(***************************************************************************)
EXTENDS Integers, FiniteSets, ApiExecutor, QueueNotifier

CONSTANTS Workers,    \* the threads that run the io_context
          Idle,       \* the connection of a worker that handles no request
          Passwords,  \* the passwords in use
          Tokens,     \* the tokens the generator draws
          Requests,   \* the requests a client may send
          Bogus       \* a token nobody was sent

ASSUME IdleAssumption == Idle \notin Conns /\ None \notin Tokens \cup Users \cup Passwords
\* A body names a login and a password. session_state_change parks its
\* connection in the match's notifier instead (module GameManager).
ASSUME RequestsAssumption ==
    \A r \in Requests : /\ r.login \in Users /\ r.password \in Passwords
                        /\ r.path # "session_state_change"
ASSUME TokensAssumption == Tokens \cap {NoToken, NotBearer, Bogus} = {}

VARIABLES accepting,  \* the listener has an accept under way
          ready,      \* the completion handlers that are due, in order
          worker,     \* the connection whose request a worker handles
          pc,         \* where a connection stands
          ops,        \* the asynchronous operations under way on its stream
          request,    \* its request
          acting,     \* the uuid its function is given
          drawn,      \* the token its login has drawn
          qn,         \* the QueueNotifier
          match,      \* the connection whose move holds the match's mutex
          users,      \* the users table: a login's password
          tokens,     \* the Redis hash: a token's user
          issued      \* history: the users a token was sent to

accounts == <<users, tokens, issued>>
vars == <<accepting, ready, worker, pc, ops, request, acting, drawn, qn, match, accounts>>

Due == {"accepted", "arrived", "end", "written", "last"}
Handling == {"handle", "function", "store", "check", "notify", "lock", "played", "timer"}
PC == {"closed", "reading", "parked", "writing"} \cup Due \cup Handling

Init == /\ accepting = TRUE /\ ready = <<>>
        /\ worker = [w \in Workers |-> Idle]
        /\ pc = [c \in Conns |-> "closed"]
        /\ ops = [c \in Conns |-> 0]
        /\ request = [c \in Conns |-> None]
        /\ acting = [c \in Conns |-> None]
        /\ drawn = [c \in Conns |-> None]
        /\ qn = NobodyWaits
        /\ match = None
        /\ users = [u \in Users |-> None]
        /\ tokens = [t \in Tokens |-> None]
        /\ issued = [t \in Tokens |-> {}]

-----------------------------------------------------------------------------
(* The network: what completes an asynchronous operation.                   *)

Completes(c, to) ==
    /\ pc' = [pc EXCEPT ![c] = to]
    /\ ops' = [ops EXCEPT ![c] = @ - 1]
    /\ ready' = Append(ready, c)

\* A client connects; the accept completes with an error or with a socket.
\* After an error OnAccept returns without the next DoAccept.
Connect(c) ==
    /\ accepting
    /\ pc[c] = "closed"
    /\ \/ /\ pc' = [pc EXCEPT ![c] = "accepted"]
          /\ ready' = Append(ready, c)
          /\ UNCHANGED accepting
       \/ accepting' = FALSE /\ UNCHANGED <<pc, ready>>
    /\ UNCHANGED <<worker, ops, request, acting, drawn, qn, match, accounts>>

\* A client has the tokens it was sent, and may make one up.
Holds(token) == token \in Tokens => issued[token] # {}

SendRequest(c, r) ==
    /\ pc[c] = "reading"
    /\ Holds(r.token)
    /\ Completes(c, "arrived")
    /\ request' = [request EXCEPT ![c] = r]
    /\ UNCHANGED <<accepting, worker, acting, drawn, qn, match, accounts>>

\* The client closes the connection, or it breaks, while it is read.
EndOfStream(c) ==
    /\ pc[c] = "reading"
    /\ Completes(c, "end")
    /\ UNCHANGED <<accepting, worker, request, acting, drawn, qn, match, accounts>>

\* The answer is out: the connection is kept, or was to be closed or broke.
Written(c) ==
    /\ pc[c] = "writing"
    /\ \/ Completes(c, "written")
       \/ Completes(c, "last")
    /\ UNCHANGED <<accepting, worker, request, acting, drawn, qn, match, accounts>>

-----------------------------------------------------------------------------
(* A worker takes the next completion handler.                              *)

\* Session::Run, Read and OnWrite start the next read, Close and ReportError
\* end the connection, HandleRequest occupies the worker.
Dispatch(w) ==
    /\ worker[w] = Idle
    /\ ready # <<>>
    /\ ready' = Tail(ready)
    /\ LET c == Head(ready) IN
       \/ /\ pc[c] \in {"accepted", "written"}
          /\ pc' = [pc EXCEPT ![c] = "reading"]
          /\ ops' = [ops EXCEPT ![c] = @ + 1]
          /\ request' = [request EXCEPT ![c] = None]
          /\ UNCHANGED worker
       \/ /\ pc[c] \in {"end", "last"}
          /\ pc' = [pc EXCEPT ![c] = "closed"]
          /\ request' = [request EXCEPT ![c] = None]
          /\ UNCHANGED <<worker, ops>>
       \/ /\ pc[c] = "arrived"
          /\ pc' = [pc EXCEPT ![c] = "handle"]
          /\ worker' = [worker EXCEPT ![w] = c]
          /\ UNCHANGED <<ops, request>>
    /\ UNCHANGED <<accepting, acting, drawn, qn, match, accounts>>

\* The worker's handler goes on at `to', or returns.
GoesOn(w, c, to) == pc' = [pc EXCEPT ![c] = to] /\ UNCHANGED worker
Free(w) == worker' = [worker EXCEPT ![w] = Idle]

\* Session::Write of each answer: dropped if the socket is closed.
Write(answers, from) ==
    LET written == {c \in Conns : (\E a \in answers : a.conn = c) /\ pc[c] # "closed"}
    IN  /\ pc' = [c \in Conns |-> IF c \in written THEN "writing" ELSE from[c]]
        /\ ops' = [c \in Conns |-> IF c \in written THEN ops[c] + 1 ELSE ops[c]]

\* The handler answers its request and returns.
Reply(w, c) ==
    /\ Write({[conn |-> c]}, pc)
    /\ Free(w)
    /\ acting' = [acting EXCEPT ![c] = None]
    /\ drawn' = [drawn EXCEPT ![c] = None]

\* The tokens GetUuidByToken finds a user for.
Known == {t \in Tokens : tokens[t] # None}

\* HandleApiError has an answer for every status.
HandleApiError(w, c) == Reply(w, c)

\* HttpHandler, ApiHandler and ApiFunctionExecutor: the request is refused, or
\* its function is called with the user of the token.
HandleRequest(w, c) ==
    LET verdict == Handle(request[c], Known)
        r == request[c]
    IN  /\ pc[c] = "handle"
        /\ \/ /\ verdict # "ok"
              /\ HandleApiError(w, c)
           \/ /\ verdict = "ok"
              /\ GoesOn(w, c, "function")
              /\ acting' = [acting EXCEPT ![c] = IF Executor[r.path].author THEN tokens[r.token]
                                                 ELSE None]
              /\ UNCHANGED <<ops, drawn>>
        /\ UNCHANGED <<request, qn, match, accounts>>

-----------------------------------------------------------------------------
(* GeneralHandler, and the functions that only read.                        *)
Calls(c, path) == pc[c] = "function" /\ request[c].path = path

\* DeserializeRegData and ValidateRegData accept the body.
ValidBody(body) == body \in {"valid", "admin"}

\* Mutant: the INSERT's arguments in the wrong order.
AddLineSwapped(login, password) ==
    \/ UNCHANGED users
    \/ users[login] = None /\ users' = [users EXCEPT ![login] = login]

\* AddLine: one transaction of the database, which refuses a login that is
\* taken and may fail; any failure is answered alike.
AddLine(login, password) ==
    \/ UNCHANGED users
    \/ users[login] = None /\ users' = [users EXCEPT ![login] = password]

ApiRegister(w, c) ==
    LET r == request[c] IN
    /\ Calls(c, "register")
    /\ \/ ~ValidBody(r.body) /\ UNCHANGED users
       \/ ValidBody(r.body) /\ AddLine(r.login, r.password)
    /\ Reply(w, c)
    /\ UNCHANGED <<request, qn, match, tokens, issued>>

\* Mutant: a token is drawn without asking Redis for it.
DrawAny(c) == Tokens

\* GenerateToken: not in Redis, and not drawn by two logins at a time (128
\* random bits).
Draw(c) == {t \in Tokens : tokens[t] = None /\ \A o \in Conns \ {c} : drawn[o] # t}

GetByLoginPassword(login, password) == users[login] = password

\* (When the bounded set Tokens is used up a login is refused.)
ApiLogin(w, c) ==
    LET r == request[c]
        found == ValidBody(r.body) /\ GetByLoginPassword(r.login, r.password)
    IN  /\ Calls(c, "login")
        /\ \/ (~found \/ Draw(c) = {}) /\ Reply(w, c)
           \/ /\ found
              /\ \E t \in Draw(c) : drawn' = [drawn EXCEPT ![c] = t]
              /\ GoesOn(w, c, "store")
              /\ UNCHANGED <<ops, acting>>
        /\ UNCHANGED <<request, qn, match, accounts>>

\* hset of AddTokenToUuid.
Store(w, c) ==
    /\ pc[c] = "store"
    /\ tokens' = [tokens EXCEPT ![drawn[c]] = request[c].login]
    /\ GoesOn(w, c, "check")
    /\ UNCHANGED <<ops, request, acting, drawn, qn, match, users, issued>>

\* hget of AddTokenToUuid, and the answer: the token, or login_error.
Check(w, c) ==
    LET u == request[c].login IN
    /\ pc[c] = "check"
    /\ issued' = IF tokens[drawn[c]] = u THEN [issued EXCEPT ![drawn[c]] = @ \cup {u}] ELSE issued
    /\ Reply(w, c)
    /\ UNCHANGED <<request, qn, match, users, tokens>>

\* The functions that answer at once and leave the accounts alone: they only
\* read, or, like set_state, change what the game's modules model.
Reading(w, c) ==
    /\ pc[c] = "function"
    /\ request[c].path \notin {"register", "login", "wait_for_opponent", "enqueue", "move"}
    /\ Reply(w, c)
    /\ UNCHANGED <<request, qn, match, accounts>>

-----------------------------------------------------------------------------
(* GameHandler, as far as connections and workers go.                       *)

\* The notifier's responsers write; who is not answered is parked.
Tells(w, c, told, others) ==
    /\ qn' = told.q
    /\ Write(told.answers \cup others, [pc EXCEPT ![c] = "parked"])
    /\ Free(w)
    /\ acting' = [d \in Conns |-> IF pc'[d] = "writing" THEN None ELSE acting[d]]

\* wait_for_opponent: the connection is parked unless it is answered at once.
ApiWaitForOpponent(w, c) ==
    /\ Calls(c, "wait_for_opponent")
    /\ Tells(w, c, SubscribePoll(qn, acting[c], c), {})
    /\ UNCHANGED <<request, drawn, match, accounts>>

\* Whom an enqueue finds an opponent for (module Matchmaking): nobody, or a
\* user whose poll is answered now or, when it comes.
ApiEnqueue(w, c) ==
    /\ Calls(c, "enqueue")
    /\ \E told \in {Told(qn, {})} \cup {NotifyFound(qn, u, 1) : u \in Users} :
          Tells(w, c, told, {[conn |-> c]})
    /\ UNCHANGED <<request, drawn, match, accounts>>

\* A move waits for the match's mutex.
ApiMove(w, c) ==
    /\ Calls(c, "move")
    /\ match = None
    /\ \/ Reply(w, c) /\ UNCHANGED match
       \/ /\ match' = c
          /\ GoesOn(w, c, "timer")
          /\ UNCHANGED <<ops, acting, drawn>>
    /\ UNCHANGED <<request, qn, accounts>>

\* Mutant: the timer is a handler of the io_context.
TimerOnPool(c) ==
    /\ pc[c] = "timer"
    /\ \E w \in Workers : worker[w] = Idle
    /\ pc' = [pc EXCEPT ![c] = "played"]
    /\ UNCHANGED <<accepting, ready, worker, ops, request, acting, drawn, qn, match, accounts>>

\* The 5 seconds of AfterMove are over; they run on a thread of their own.
Timer(c) ==
    /\ pc[c] = "timer"
    /\ pc' = [pc EXCEPT ![c] = "played"]
    /\ UNCHANGED <<accepting, ready, worker, ops, request, acting, drawn, qn, match, accounts>>

\* ApiMove returns: the mutex is free again.
Played(w, c) ==
    /\ pc[c] = "played"
    /\ match' = None
    /\ Reply(w, c)
    /\ UNCHANGED <<request, qn, accounts>>

-----------------------------------------------------------------------------
Function(w, c) == \/ HandleRequest(w, c) \/ ApiRegister(w, c) \/ ApiLogin(w, c) \/ Store(w, c)
                  \/ Check(w, c) \/ Reading(w, c) \/ ApiWaitForOpponent(w, c)
                  \/ ApiEnqueue(w, c) \/ ApiMove(w, c) \/ Played(w, c)

Work(w) == /\ worker[w] # Idle
           /\ Function(w, worker[w])
           /\ UNCHANGED <<accepting, ready>>

Next == \/ \E c \in Conns : \/ Connect(c) \/ EndOfStream(c) \/ Written(c) \/ Timer(c)
                            \/ \E r \in Requests : SendRequest(c, r)
        \/ \E w \in Workers : Dispatch(w) \/ Work(w)

\* The workers run and a worker that waits for the match's mutex gets it in
\* the end; a timer ends and a write completes. Nothing forces a client.
Fairness == /\ \A w \in Workers : WF_vars(Dispatch(w)) /\ SF_vars(Work(w))
            /\ \A c \in Conns : WF_vars(Timer(c)) /\ WF_vars(Written(c))

Spec == Init /\ [][Next]_vars /\ Fairness

-----------------------------------------------------------------------------
(* The fields are of their types. *)
TypeOK ==
    /\ accepting \in BOOLEAN
    /\ ready \in Seq(Conns)
    /\ worker \in [Workers -> Conns \cup {Idle}]
    /\ pc \in [Conns -> PC] /\ ops \in [Conns -> Nat]
    /\ request \in [Conns -> Requests \cup {None}]
    /\ acting \in [Conns -> Users \cup {None}] /\ drawn \in [Conns -> Tokens \cup {None}]
    /\ qn.responser \in [Users -> Conns \cup {None}]
    /\ match \in Conns \cup {None}
    /\ users \in [Users -> Passwords \cup {None}] /\ tokens \in [Tokens -> Users \cup {None}]
    /\ issued \in [Tokens -> SUBSET Users]

(* A stream has one asynchronous operation at a time, although its answer may
   come from another connection's worker: a connection is never written while
   it is read or written, nor is a completion due twice (Session::Write,
   session.hpp:28, and OnWrite, session.cpp:43). *)
OneOperation ==
    /\ \A c \in Conns : ops[c] = IF pc[c] \in {"reading", "writing"} THEN 1 ELSE 0
    /\ \A c \in Conns : Cardinality({i \in DOMAIN ready : ready[i] = c})
                            = IF pc[c] \in Due THEN 1 ELSE 0
    /\ \A w, v \in Workers : worker[w] = worker[v] => w = v \/ worker[w] = Idle

\* What http_api.md lists as functions that need a token.
Protected == {"profile", "enqueue", "wait_for_opponent", "session_state",
              "session_state_change", "move"}

\* ApiFunctionDirector has NeedAuthor called for each of them: a fact about the
\* executors as the builder makes them, with which no constant has to do.
ASSUME ProtectedAssumption == \A path \in Protected : Executor[path].author

(* A protected function runs for the one user that the request's token was
   sent to, whichever logins crossed each other since (MatchAuthorization,
   api_function_executor.cpp:35, and GenerateToken, token_manager_redis.cpp:8). *)
ActsAsOwner ==
    \A c \in Conns :
        pc[c] \in {"function", "timer", "played", "parked"} /\ request[c].path \in Protected =>
            /\ request[c].token \in Tokens
            /\ issued[request[c].token] = {acting[c]}

(* A parked connection is its user's open poll and the other way round: no
   poll is answered into another request of its connection (ApiWaitForOpponent,
   game_handler.cpp:53, and queue_notifier.cpp:22). *)
ParkedIsSubscribed ==
    \A c \in Conns, u \in Users : qn.responser[u] = c <=> pc[c] = "parked" /\ acting[c] = u

(* A request that has been read is answered, or waits for an opponent, though
   moves hold their workers and the match for their timers (RunWorkers,
   initializer.cpp:22; AfterMove, session.cpp:157). *)
RequestsServed ==
    \A c \in Conns : pc[c] \in {"arrived"} \cup Handling ~> pc[c] \in {"writing", "parked"}

=============================================================================
