---------------------------- MODULE ApiExecutor -----------------------------
(***************************************************************************)
(* Which API function a request reaches and what is tested before it runs  *)
(* (http_handler: HttpHandler, ApiHandler, ApiFunctionDirector,            *)
(* ApiFunctionBuilder, ApiFunctionExecutor). The operators are pure; a     *)
(* path is named by its last part.                                         *)
(***************************************************************************)
EXTENDS SequencesExt

CONSTANTS NoToken,   \* no Authorization header
          NotBearer  \* a header that is not `Bearer' and 32 characters

\* An executor that is being built: the allowed methods, whether it was given
\* the token manager, whether the function is for debugging.
Unset == [methods |-> {}, author |-> FALSE, debug |-> FALSE]

GetHead(b) == [b EXCEPT !.methods = {"get", "head"}]
Post(b) == [b EXCEPT !.methods = {"post"}]
NeedAuthor(b) == [b EXCEPT !.author = TRUE]
ForDebug(b) == [b EXCEPT !.debug = TRUE]

\* What GetProduct leaves in the builder, which goes on to the next function.
GetProduct(b) == Unset

Director(path, b) ==
    CASE path \in {"ping", "game_consts"} -> GetHead(b)
      [] path \in {"register", "login"} -> Post(b)
      [] path \in {"profile", "wait_for_opponent", "session_state", "session_state_change"} ->
            GetHead(NeedAuthor(b))
      [] path \in {"enqueue", "move"} -> Post(NeedAuthor(b))
      [] path \in {"player_tokens", "user", "matchmaking_queue"} -> GetHead(ForDebug(b))
      [] path = "set_state" -> Post(ForDebug(b))

\* The functions of the general, the game and the debug handler, in the order
\* in which one director builds them.
General == <<"ping", "register", "login", "profile">>
Game == <<"enqueue", "wait_for_opponent", "session_state", "session_state_change", "move",
          "game_consts">>
Debug == <<"player_tokens", "user", "matchmaking_queue", "set_state">>
Paths == ToSet(General) \cup ToSet(Game) \cup ToSet(Debug)

\* ApiFunctionsParse: the executors of a handler.
ApiFunctionsParse(paths) ==
    FoldLeft(LAMBDA acc, path : [builder |-> GetProduct(Director(path, acc.builder)),
                                 made |-> Append(acc.made, Director(path, acc.builder))],
             [builder |-> Unset, made |-> <<>>], paths).made

ExecutorOf(paths, path) ==
    ApiFunctionsParse(paths)[CHOOSE i \in DOMAIN paths : paths[i] = path]

\* request_to_executor_.at(path) of the handler HttpHandler picks.
Executor == [path \in Paths |->
               ExecutorOf(CHOOSE h \in {General, Game, Debug} : path \in ToSet(h), path)]

MatchMethod(executor, method) == method \in executor.methods

\* The body names the administrator.
MatchAdmin(body) == body = "admin"

\* GetTokenFromHeader finds a token.
IsBearer(token) == token # NotBearer

\* MatchAuthorization. The known tokens are those Redis has a user for.
MatchAuthorization(token, known) ==
    IF token = NoToken THEN "unauthorized"
    ELSE IF ~IsBearer(token) \/ token \notin known THEN "invalid_token"
    ELSE "ok"

\* ApiFunctionExecutor::Execute up to the function.
Execute(executor, request, known) ==
    LET author == IF executor.author THEN MatchAuthorization(request.token, known) ELSE "ok"
    IN  IF ~MatchMethod(executor, request.method) THEN "wrong_method"
        ELSE IF author # "ok" THEN author
        ELSE IF executor.debug /\ ~MatchAdmin(request.body) THEN "invalid_admin"
        ELSE "ok"

\* ApiHandler::Handle: "ok" runs the function, all else is the answer.
Handle(request, known) ==
    IF request.method = "options" THEN "options"
    ELSE IF request.path \notin Paths THEN "api_error"
    ELSE Execute(Executor[request.path], request, known)

=============================================================================
