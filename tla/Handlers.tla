------------------------------ MODULE Handlers ------------------------------
(***************************************************************************)
(* Every API function and every method it calls, with the locks they hold  *)
(* and the answers they send: the flow of general_handler, game_handler,   *)
(* debug_handler, static_handler, game_manager, matchmaking_balancer, both *)
(* notifiers, user_manager and session_manager, as a program of Calls.     *)
(* What the tests compare is in the modules of these parts; here a test    *)
(* goes either way, but for the dispatch, the URL parameters, the accounts *)
(* and the state of a database connection, which the properties are about. *)
(***************************************************************************)
EXTENDS Calls, Responses, FiniteSets

CONSTANTS Connections,  \* the connections of the pool
          Requests,     \* the requests clients send
          NoRequest,    \* a worker's that handles none
          Known,        \* the tokens Redis has a user for
          TooLong       \* the logins the column does not hold

ASSUME RequestsAssumption == NoRequest \notin Requests /\ \A r \in Requests : r.about \in Subjects

VARIABLES request,  \* the request a worker handles
          said,     \* how often it was answered or parked
          broken,   \* the connections the database has dropped
          table,    \* the logins of the users table
          told      \* history: how often registration was confirmed

stores == <<broken, table, told>>
vars == <<callVars, request, said, stores>>

-----------------------------------------------------------------------------
(* ApiHandler::Handle; a target outside /api/ is a static file's.           *)

Refusals == {"options", "api_error", "wrong_method", "unauthorized", "invalid_token",
             "invalid_admin"}
Dispatched(r) == IF r.path = "static" THEN "ok" ELSE Handle(r, Known)

HandleApiError == [start |-> Test(Refusals)]

(* GeneralHandler. Here and below a method that sends commands to Redis may
   throw: the client does when the server is lost.                          *)

ApiPing == [start |-> Test({"success"})]

ApiRegister == [start |-> Test({"body_data_error", "validate"}),
                validate |-> Test({"wrong_login_or_password", "add"}),
                add |-> Call("UserAddLine", {"success"}, {"login_taken"})]

ApiLogin == [start |-> Test({"body_data_error", "validate"}),
             validate |-> Test({"wrong_login_or_password", "find"}),
             find |-> Call("GetByLoginPassword", {"generate"}, {"no_such_user"}),
             generate |-> Test({"login_error", "token", "throw"})]

ApiGetProfileData == [start |-> Call("GetByUuid", {"user"}, {"person_removed"})]

(* GameHandler *)

\* HasPlayer(id) reads the players of a match that was left without any.
ApiEnqueue == [start |-> Call("GetByUuid", {"player"}, {"invalid_token"}),
               player |-> Test({"in_the_match", "enqueue", "throw"}),
               enqueue |-> Call("EnqueuePlayer", {"success"}, {"enqueue_error"})]

ApiWaitForOpponent == [start |-> Call("QueueSubscribe", {"yes"}, {"yes"})]

\* GetState, HasPlayer(id, sid) and SetState throw when the match is erased
\* between contains and at.
ApiSessionState == [start |-> Test({"url_parameters_error", "get"}),
                    get |-> Test({"state", "finished", "throw"}),
                    finished |-> Call("GetPublicLine", {"finished_state"}, {"wrong_sessionId"})]

ApiSessionStateChange == [start |-> Test({"url_parameters_error", "poll"}),
                          poll |-> Call("ChangePoll", {"yes"}, {"define"}),
                          define |-> Call("DefineSessionState", {"yes"}, {"yes"})]

\* The responder of a poll. FromMove throws for a move behind the list.
Responder == [start |-> Test({"poll_closed", "ask", "events", "throw"}),
              ask |-> Call("GetPublicLine", {"finished_state"}, {"wrong_sessionId"})]

ApiMove == [start |-> Test({"url_parameters_error", "find"}),
            find |-> Call("GetByUuid", {"player"}, {"access_denied"}),
            player |-> Test({"define", "access_denied", "body", "throw"}),
            body |-> Test({"body_data_error", "move"}),
            move |-> Call("ManagerMove", {"success", "not_your_move", "wrong_move"}, {"define"}),
            define |-> Call("DefineSessionState", {"yes"}, {"yes"})]

DefineSessionState ==
    [start |-> Call("GetPublicLine", {"session_finished"}, {"wrong_sessionId"})]

ApiGameConsts == [start |-> Test({"consts"})]

(* DebugHandler *)

ApiGetPlayerTokens == [start |-> Test({"player_tokens", "throw"})]

ApiGetUser == [start |-> Test({"url_parameters_error", "uuid", "login"}),
               uuid |-> Call("GetByUuid", {"hidden_user"}, {"user_not_found"}),
               login |-> Call("GetByLoginPassword", {"hidden_user"}, {"user_not_found"})]

ApiGetMMQueue == [start |-> Test({"queue", "throw"})]

ApiSetState == [start |-> Test({"url_parameters_error", "body"}),
                body |-> Test({"body_data_error", "set"}),
                set |-> Test({"success", "wrong_sessionId", "throw"})]

(* StaticHandler::Handle: out of the root, the root itself, no such file or a
   directory, a file. *)
StaticFile == [start |-> Test({"no_acess", "index", "wrong_path", "file"})]

-----------------------------------------------------------------------------
(* The managers and notifiers the functions call.                           *)

\* QueueManagerRedis::EnqueuePlayer, which calls the observer.
EnqueuePlayer == [start |-> Test({"no", "notify", "throw"}),
                  notify |-> Call("Ballance", {"yes"}, {"yes"})]

\* MatchmakingBalancer::Notify, under its mutex.
Ballance == [start |-> Test({"yes", "pop", "throw"}),
             pop |-> Test({"no", "create", "throw"}),
             create |-> Call("CreateSession", {"yes"}, {"yes"})]

\* Both players are looked up before either is tested.
CreateSession == [start |-> Call("GetByUuid", {"second"}, {"other"}),
                  other |-> Call("GetByUuid", {"no"}, {"no"}),
                  second |-> Call("GetByUuid", {"notify"}, {"no"}),
                  notify |-> Call("QueueNotify", {"last"}, {"last"}),
                  last |-> Call("QueueNotify", {"created"}, {"created"}),
                  created |-> Call("SessionCreated", {"yes"}, {"yes"})]

\* The match is looked up without a lock.
ManagerMove == [start |-> Test({"no", "lock"}),
                lock |-> Call("LockedMove", {"yes"}, {"yes"})]

\* Under session_mutex_: sessions_.at and AddEvent throw; Session::ApiMove,
\* CheckStatus.
LockedMove == [start |-> Test({"yes", "notify", "throw"}),
               notify |-> Call("StateNotify", {"results"}, {"results"}),
               results |-> Test({"yes", "finish"}),
               finish |-> Call("FinishSession", {"yes"}, {"yes"})]

FinishSession == [start |-> Call("GetByLogin", {"loser"}, {"other"}),
                  other |-> Call("GetByLogin", {"no"}, {"no"}),
                  loser |-> Call("GetByLogin", {"store"}, {"no"}),
                  store |-> Call("SessionAddLine", {"close"}, {"close"}),
                  close |-> Call("StateUnsubscribe", {"yes"}, {"yes"})]

\* A poll that waits is closed, a notification that waits is told.
QueueSubscribe == [start |-> Test({"replace", "park"}),
                   replace |-> Call("TellQueued", {"park"}, {"park"}),
                   park |-> Test({"sessionId", "parked"})]
QueueNotify == [start |-> Test({"tell", "no"}),
                tell |-> Call("TellQueued", {"yes"}, {"yes"})]
QueueResponder == [start |-> Test({"sessionId", "poll_closed"})]

SessionCreated == [start |-> Test({"yes"})]
ChangePoll == [start |-> Test({"no", "tell", "replace", "parked"}),
               tell |-> Call("TellOwn", {"yes"}, {"yes"}),
               replace |-> Call("TellPoll", {"parked"}, {"parked"})]
StateNotify == [start |-> Test({"no", "each"}),
                each |-> Test({"yes", "tell"}),
                tell |-> Call("TellPoll", {"each"}, {"each"})]
StateUnsubscribe == [start |-> Test({"no", "each"}),
                     each |-> Test({"yes", "tell"}),
                     tell |-> Call("TellPoll", {"each"}, {"each"})]

\* The queries. A lookup opens its transaction before the try block, AddLine
\* within it.
Lookup == [start |-> Test({"query", "throw"}),
           query |-> Test({"yes", "no"})]
UserAddLine == [start |-> Test({"insert", "no"}),
                insert |-> Call("Insert", {"yes"}, {"no"})]
SessionAddLine == [start |-> Test({"yes", "no"})]

\* PostgreSQL: an INSERT holds its unique login until the transaction ends.
Insert == [start |-> Test({"yes", "no"})]

-----------------------------------------------------------------------------

\* The function of a path; a file's is StaticHandler's.
Function(path) ==
    CASE path = "ping" -> "ApiPing"
      [] path = "register" -> "ApiRegister"
      [] path = "login" -> "ApiLogin"
      [] path = "profile" -> "ApiGetProfileData"
      [] path = "enqueue" -> "ApiEnqueue"
      [] path = "wait_for_opponent" -> "ApiWaitForOpponent"
      [] path = "session_state" -> "ApiSessionState"
      [] path = "session_state_change" -> "ApiSessionStateChange"
      [] path = "move" -> "ApiMove"
      [] path = "game_consts" -> "ApiGameConsts"
      [] path = "player_tokens" -> "ApiGetPlayerTokens"
      [] path = "user" -> "ApiGetUser"
      [] path = "matchmaking_queue" -> "ApiGetMMQueue"
      [] path = "set_state" -> "ApiSetState"
      [] path = "static" -> "StaticFile"

HandlerProgram ==
    [HandleApiError |-> HandleApiError, ApiPing |-> ApiPing, ApiRegister |-> ApiRegister,
     ApiLogin |-> ApiLogin, ApiGetProfileData |-> ApiGetProfileData, ApiEnqueue |-> ApiEnqueue,
     ApiWaitForOpponent |-> ApiWaitForOpponent, ApiSessionState |-> ApiSessionState,
     ApiSessionStateChange |-> ApiSessionStateChange, ApiMove |-> ApiMove,
     DefineSessionState |-> DefineSessionState, ApiGameConsts |-> ApiGameConsts,
     ApiGetPlayerTokens |-> ApiGetPlayerTokens, ApiGetUser |-> ApiGetUser,
     ApiGetMMQueue |-> ApiGetMMQueue, ApiSetState |-> ApiSetState, StaticFile |-> StaticFile,
     EnqueuePlayer |-> EnqueuePlayer, Ballance |-> Ballance, CreateSession |-> CreateSession,
     ManagerMove |-> ManagerMove, LockedMove |-> LockedMove, FinishSession |-> FinishSession,
     QueueSubscribe |-> QueueSubscribe, QueueNotify |-> QueueNotify,
     TellQueued |-> QueueResponder, SessionCreated |-> SessionCreated,
     ChangePoll |-> ChangePoll, StateNotify |-> StateNotify,
     StateUnsubscribe |-> StateUnsubscribe, TellOwn |-> Responder, TellPoll |-> Responder,
     GetByUuid |-> Lookup, GetByLogin |-> Lookup, GetByLoginPassword |-> Lookup,
     GetPublicLine |-> Lookup, UserAddLine |-> UserAddLine, SessionAddLine |-> SessionAddLine,
     Insert |-> Insert]
HandlerMethods == DOMAIN HandlerProgram

Lookups == {"GetByUuid", "GetByLogin", "GetByLoginPassword", "GetPublicLine"}
Queries == Lookups \cup {"UserAddLine", "SessionAddLine"}
OfQueueNotifier == {"QueueSubscribe", "QueueNotify"}
OfStateNotifier == {"SessionCreated", "ChangePoll", "StateNotify", "StateUnsubscribe"}

\* What is locked: the balancer, a match, the notifiers, one of the pool's
\* connections, the row of a login.
BalancerMutex == {<<"balancer", "only">>}
MatchMutex(s) == {<<"match", s>>}
QueueNotifierMutex == {<<"queue notifier", "only">>}
StateNotifierMutex == {<<"state notifier", "only">>}
PoolConnections == {<<"connection", c>> : c \in Connections}
LoginRow(s) == {<<"login", s>>}

\* A lock lives as long as the method that takes it runs.
HandlerNeeds ==
    [m \in HandlerMethods |-> [s \in Subjects |->
       CASE m = "Ballance" -> BalancerMutex
         [] m = "LockedMove" -> MatchMutex(s)
         [] m \in OfQueueNotifier -> QueueNotifierMutex
         [] m \in OfStateNotifier -> StateNotifierMutex
         [] m \in Queries -> PoolConnections
         [] m = "Insert" -> LoginRow(s)
         [] OTHER -> {}]]

\* A mutex of the balancer or a match is taken before a notifier's, that
\* before a connection, that before a row.
HandlerLevel ==
    [m \in HandlerMethods |->
       CASE m \in {"Ballance", "LockedMove"} -> 1
         [] m \in OfQueueNotifier \cup OfStateNotifier \cup {"CreateSession", "FinishSession"} -> 2
         [] m \in {"TellQueued", "TellOwn", "TellPoll"} -> 3
         [] m \in Queries -> 4
         [] m = "Insert" -> 5
         [] OTHER -> 0]

Functions == {"HandleApiError"} \cup {Function(path) : path \in Paths \cup {"static"}}
ASSUME FunctionsAssumption == Functions \subseteq Methods

\* Success of a registration is that of the INSERT, handed on by AddLine.
ASSUME RegisteringAssumption ==
    /\ "none" \notin Methods
    /\ \A m \in {"Insert", "UserAddLine"} :
          /\ "start" \in DOMAIN Program[m]
          /\ \A p \in DOMAIN Program[m] :
                Program[m][p].yes \cup Program[m][p].no \subseteq DOMAIN Program[m] \cup Results
    /\ \A p \in DOMAIN Program["Insert"] : Program["Insert"][p].call = "none"
    /\ \A p \in DOMAIN Program["UserAddLine"] :
          LET point == Program["UserAddLine"][p]
          IN  "yes" \in point.yes \cup point.no => point.call = "Insert" /\ "yes" \notin point.no
    /\ \A p \in DOMAIN Program["ApiRegister"] :
          LET point == Program["ApiRegister"][p]
          IN  "success" \in point.yes \cup point.no =>
                 point.call = "UserAddLine" /\ "success" \notin point.no

\* Whose answer a responder sends: its own request's, or that of a poll which
\* was parked.
Tells == [TellPoll |-> "session_state_change", TellQueued |-> "wait_for_opponent"]

\* The methods that answer their own request: their last step, or that of the
\* method they leave it to.
Answering == Functions \cup {"DefineSessionState", "ChangePoll", "QueueSubscribe", "TellOwn"}
TargetsOf(m) == UNION {Program[m][p].yes \cup Program[m][p].no : p \in DOMAIN Program[m]}
ASSUME AnsweringAssumption ==
    /\ \A m \in Methods :
          /\ "start" \in DOMAIN Program[m] /\ DOMAIN Program[m] \cap Results = {}
          /\ "end" \notin TargetsOf(m)
          /\ TargetsOf(m) \subseteq DOMAIN Program[m] \cup Results \cup {"throw"}
             \/ m \in Answering \cup DOMAIN Tells
    /\ Answering \cap DOMAIN Tells = {}
    /\ \A m \in Functions : "no" \notin TargetsOf(m)
    /\ \A m \in Methods : \A p \in DOMAIN Program[m] :
          LET point == Program[m][p]
          IN  /\ point.call \in Answering => m \in Answering /\ point.yes = {"yes"}
              /\ m \in Answering /\ point.call \notin Answering => "yes" \notin point.yes
              /\ m \in Answering /\ "yes" \in point.no => "no" \notin TargetsOf(point.call)

-----------------------------------------------------------------------------

Init == /\ CallsInit
        /\ request = [w \in Workers |-> NoRequest]
        /\ said = [w \in Workers |-> 0]
        /\ broken = {} /\ table = {}
        /\ told = [s \in Subjects |-> 0]

Receive(w, r) ==
    /\ Begin(w, IF Dispatched(r) = "ok" THEN Function(r.path) ELSE "HandleApiError", r.about)
    /\ request' = [request EXCEPT ![w] = r]
    /\ UNCHANGED <<said, stores>>

WaitFor(w, u) == Enter(w, u) /\ UNCHANGED <<request, said, stores>>
CallNext(w) == Enters(w) /\ UNCHANGED <<request, said, stores>>

\* The connection w has is one the database dropped.
Lost(w) == \E c \in broken : <<"connection", c>> \in Owns(w)

\* Mutant: the column is not UNIQUE.
InsertsTwice(w, to) ==
    IF to = "yes" THEN ~Lost(w) /\ about[w] \notin TooLong /\ table' = table \cup {about[w]}
    ELSE /\ about[w] \in TooLong \/ Lost(w)
         /\ table' \in {table, IF about[w] \in TooLong THEN table ELSE table \cup {about[w]}}

\* The transaction of AddLine: a login that is taken or too long is refused;
\* a connection lost before the commit returns leaves the row in or out.
Inserts(w, to) ==
    IF to = "yes"
    THEN ~Lost(w) /\ about[w] \notin table \cup TooLong /\ table' = table \cup {about[w]}
    ELSE \/ about[w] \in table \cup TooLong /\ UNCHANGED table
         \/ Lost(w) /\ about[w] \notin TooLong /\ table' \in {table, table \cup {about[w]}}

\* HandleApiError answers what the dispatch found.
AsDispatched(w, to) == Top(w).method = "HandleApiError" => to = Dispatched(request[w])

\* The functions that begin with the test of their parameters.
OfUrl == {"ApiSessionState", "ApiSessionStateChange", "ApiMove", "ApiGetUser", "ApiSetState"}
AsParameters(w, to) ==
    Top(w).method \in OfUrl /\ Top(w).at = "start" =>
        (to = "url_parameters_error" <=> ~UrlFits(request[w].path, request[w].target))

\* A transaction begins on a connection the database has not dropped: a lookup
\* throws, the AddLines catch it.
LookupBegins(w, to) ==
    Top(w).method \in Lookups /\ Top(w).at = "start" => (to = "throw" <=> Lost(w))
UserAddLineBegins(w, to) == Top(w).method = "UserAddLine" => (to = "no" <=> Lost(w))
SessionAddLineBegins(w, to) == Top(w).method = "SessionAddLine" /\ Lost(w) => to = "no"

\* A test decides; those that concern what is modelled decide by it.
DecideNext(w, to) ==
    /\ Decide(w, to)
    /\ AsDispatched(w, to)
    /\ AsParameters(w, to)
    /\ LookupBegins(w, to)
    /\ UserAddLineBegins(w, to)
    /\ SessionAddLineBegins(w, to)
    /\ IF Top(w).method = "Insert" THEN Inserts(w, to) ELSE UNCHANGED table
    /\ UNCHANGED <<request, said, broken, told>>

AnswerNext(w) ==
    /\ Answer(w)
    /\ said' = [said EXCEPT ![w] = IF Top(w).method \in DOMAIN Tells THEN @ ELSE @ + 1]
    /\ told' = IF Top(w).method = "ApiRegister" /\ Top(w).at = "success"
               THEN [told EXCEPT ![about[w]] = @ + 1] ELSE told
    /\ UNCHANGED <<request, broken, table>>

ReturnNext(w, to) ==
    /\ Return(w, to)
    /\ IF to = "end" THEN /\ said' = [said EXCEPT ![w] = 0]
                         /\ request' = [request EXCEPT ![w] = NoRequest]
       ELSE UNCHANGED <<request, said>>
    /\ UNCHANGED stores

\* The database drops a connection; the pool does not replace it.
Break(c) ==
    /\ c \notin broken
    /\ broken' = broken \cup {c}
    /\ UNCHANGED <<callVars, request, said, table, told>>

\* The new process has a new pool.
Terminate ==
    /\ Abort
    /\ request' = [w \in Workers |-> NoRequest]
    /\ said' = [w \in Workers |-> 0]
    /\ broken' = {}
    /\ UNCHANGED <<table, told>>

Next ==
    \/ \E w \in Workers :
          \/ \E r \in (IF w \in Busy THEN {} ELSE Requests) : Receive(w, r)
          \/ \E u \in (IF w \in Busy THEN Wanted(w) ELSE {}) : WaitFor(w, u)
          \/ \E to \in (IF AtPoint(w) THEN Point(w).yes ELSE {}) : DecideNext(w, to)
          \/ CallNext(w)
          \/ AnswerNext(w)
          \/ \E to \in Continuations(w) : ReturnNext(w, to)
    \/ \E c \in Connections : Break(c)
    \/ Terminate

Spec == Init /\ [][Next]_vars

-----------------------------------------------------------------------------
(* What docs/http_api.md lists, as pairs of a status and an error_name.     *)

Authorized == {"profile", "enqueue", "wait_for_opponent", "session_state",
               "session_state_change", "move"}
LongPolls == {"wait_for_opponent", "session_state_change"}
OfSession == {"session_state", "session_state_change", "move"}

\* The allowed methods listed at a function.
DocumentedMethods(path) ==
    IF path \in {"register", "login", "enqueue", "move"} THEN {"post"} ELSE {"get", "head"}

\* The general errors, by a function's tags (lines 47-87, 395-410).
General4xx(path) ==
    (IF path \in Authorized
     THEN {<<401, "unathorized">>, <<401, "invalid_token">>, <<401, "person_removed">>} ELSE {})
    \cup (IF path \in LongPolls THEN {<<409, "poll_closed">>} ELSE {})
    \cup (IF path \in OfSession
          THEN {<<400, "wrong_sessionId">>, <<400, "session_finished">>} ELSE {})

\* The errors listed at a function.
Own4xx(path) ==
    CASE path \in {"register", "login"} ->
            {<<400, "body_data_error">>, <<400, "wrong_login_or_password">>}
            \cup (IF path = "register" THEN {<<409, "login_taken">>}
                  ELSE {<<400, "no_such_user">>, <<503, "login_error">>})
      [] path = "enqueue" -> {<<200, "enqueue_error">>, <<400, "in_the_match">>}
      [] path \in {"session_state", "session_state_change"} -> {<<422, "url_parameters_error">>}
      [] path = "move" ->
            {<<422, "url_parameters_error">>, <<400, "body_data_error">>,
             <<400, "access_denied">>, <<400, "not_your_move">>, <<400, "wrong_move">>}
      [] OTHER -> {}

Listed(path, response) ==
    path \in ToSet(General) \cup ToSet(Game) =>
       <<response.status, response.name>> \in {<<200, "">>} \cup General4xx(path) \cup Own4xx(path)

\* Who has no header is told so, and nobody else; a token is called invalid if
\* it is not well-formed, and not if it addresses somebody, but for enqueue,
\* which lists it for what is not there any more (lines 53-76, 462-468).
TokenAnswered(r, response) ==
    /\ response.name = "unathorized" <=> r.path \in Authorized /\ r.token = NoToken
    /\ r.path \in Authorized /\ r.token = NotBearer => response.name = "invalid_token"
    /\ r.path # "enqueue" /\ r.token \in Known => response.name # "invalid_token"

\* The targets the functions are documented with, in either order, and a
\* parameter without its sign (api_handler.cpp:54-56).
DocumentedTargets(path) ==
    CASE path \in {"session_state", "move"} ->
            {<<"?", "sessionId", "=", "id">>, <<"?", "sessionId">>}
      [] path = "session_state_change" ->
            {<<"?", "sessionId", "=", "id", "&", "from_move", "=", "2">>,
             <<"?", "from_move", "=", "2", "&", "sessionId", "=", "id">>,
             <<"?", "from_move", "=", "2", "&", "sessionId">>}
      [] OTHER -> {}

\* A target names a key behind its `?' or an `&', and may give it a number.
NamedAt(target, key) ==
    {i \in DOMAIN target : i > 1 /\ target[i] = key /\ target[i - 1] \in {"?", "&"}}
Names(target, key) == NamedAt(target, key) # {}
GivesNumber(target, key) ==
    \E i \in NamedAt(target, key) :
       i + 2 \in DOMAIN target /\ target[i + 1] = "=" /\ target[i + 2] \in Numbers

\* A documented target is not refused, and of a session nobody is told anything
\* without the parameters of the function.
TargetAnswered(r, response) ==
    LET refused == response.name \in {"url_parameters_error", "unathorized", "invalid_token"}
    IN  /\ r.target \in DocumentedTargets(r.path) => response.name # "url_parameters_error"
        /\ r.path \in OfSession /\ ~refused => Names(r.target, "sessionId")
        /\ r.path = "session_state_change" /\ ~refused => GivesNumber(r.target, "from_move")

\* Of debug functions, of files and of methods a function is not documented
\* with, nothing but a success is.
Documented(r, response) ==
    r.path \in ToSet(General) \cup ToSet(Game) /\ r.method \in DocumentedMethods(r.path) =>
       /\ Listed(r.path, response)
       /\ TokenAnswered(r, response)
       /\ TargetAnswered(r, response)

\* A HEAD gets no body from a function that takes one.
Bodied(r, response) ==
    /\ response.status = 405 => r.method \notin response.allow
    /\ response.status # 405 /\ r.method # "options" => (response.body <=> r.method # "head")

(* An answer to a documented request is one the documentation lists for the
   function, whichever of the many ways through handler, manager, notifier and
   another worker's responder it took (http_api.md; game_handler.cpp:38-173):
   it is not refused for its method, for a token it need not or does have, or
   for the parameters of a documented target, and without those is told nothing
   of a session (api_handler.cpp:37-59, api_function_builder.cpp:29). A HEAD is
   answered without the body (response_builder.hpp:10-16), and a login is said
   to be taken only if it is, or does not fit the column, or the database was
   lost (user_manager_postgres.cpp:15-22). What is said of a token that nobody
   has is left to RemovedPersonIsTold. *)
Answered(w) ==
    LET other == Top(w).method \in DOMAIN Tells
        r == IF other THEN [request[w] EXCEPT !.path = Tells[Top(w).method], !.method = "get"]
             ELSE request[w]
        response == Response(Top(w).at, r)
    IN  Top(w).at # "parked" =>
           /\ IF other THEN Listed(r.path, response) ELSE Documented(r, response)
           /\ Bodied(r, response)
           /\ response.name = "login_taken" /\ broken = {} => about[w] \in table \cup TooLong
AnswersAsDocumented == [][\A w \in Workers : AnswerNext(w) => Answered(w)]_vars

(* "Given request has Authorization header with valid-formed token but not
   addressing to anybody" is answered person_removed (http_api.md:69-76), not
   invalid_token. *)
RemovedPersonIsTold ==
    [][\A w \in Workers :
          AnswerNext(w) /\ Top(w).at = "invalid_token" => request[w].token = NotBearer]_vars

(* The frames are those of methods, and what a frame owns is what its method
   needs. *)
TypeOK ==
    /\ \A w \in Workers : \A i \in DOMAIN stack[w] :
          /\ stack[w][i].method \in Methods
          /\ stack[w][i].has \subseteq Needs[stack[w][i].method][about[w]]
    /\ about \in [Workers -> Subjects]
    /\ \A w \in Workers : request[w] = NoRequest <=> w \notin Busy
    /\ said \in [Workers -> Nat]
    /\ broken \subseteq Connections
    /\ table \subseteq Subjects
    /\ told \in [Subjects -> Nat]

(* A request whose handling returns was answered or parked once and only once,
   on every way through the handlers: whether the manager or a notifier found
   the match gone in between and a second lookup decides what to say, and
   however the methods in between failed (game_handler.cpp:100-121, 132-147).
   A way that throws ends the process, and nobody who is being handled is
   answered; see also FinishedMoveIsAnswered of GameManager. *)
OneAnswer ==
    \A w \in Workers :
       /\ said[w] <= 1
       /\ Len(stack[w]) = 1 /\ Top(w).at \in Results => said[w] = 1

(* "You cant register with same login more than once" (http_api.md:228), and
   an account that was confirmed stays: with registrations that race, a
   connection lost at the commit and a process that ends in between. *)
RegisteredOnce ==
    \A s \in Subjects : told[s] <= 1 /\ (told[s] = 1 => s \in table)

=============================================================================
