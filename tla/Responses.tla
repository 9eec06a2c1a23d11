----------------------------- MODULE Responses ------------------------------
(***************************************************************************)
(* What is sent for each answer (http_handler: send_manager,               *)
(* response_builder, static_handler; serializer) and how a target's        *)
(* parameters are read (api_handler). The operators are pure. An answer    *)
(* has the name of its error, a successful one that of what it carries;    *)
(* of a response the module keeps its status, its error_name, whether it   *)
(* has a body and the methods it allows.                                   *)
(***************************************************************************)
EXTENDS ApiExecutor, Integers

\* Answers without an error_name.
Carried == {"success", "token", "user", "hidden_user", "sessionId", "state", "finished_state",
            "events", "consts", "player_tokens", "queue"}
Files == {"index", "file"}
NotFound == {"user_not_found"}
Conflicts == {"login_taken", "poll_closed"}
Unauthorized == {"unauthorized", "invalid_token", "person_removed", "invalid_admin"}
BadRequests == {"api_error", "body_data_error", "wrong_login_or_password", "no_such_user",
                "in_the_match", "wrong_sessionId", "access_denied", "not_your_move",
                "wrong_move", "session_finished", "wrong_path", "no_acess"}

Status(answer) ==
    CASE answer \in Carried \cup Files \cup {"enqueue_error", "options"} -> 200
      [] answer \in BadRequests -> 400
      [] answer \in Unauthorized -> 401
      [] answer \in NotFound -> 404
      [] answer = "wrong_method" -> 405
      [] answer \in Conflicts -> 409
      [] answer = "url_parameters_error" -> 422
      [] answer = "login_error" -> 503

\* SerializeError, and the map SendInTheMatch makes.
ErrorName(answer) == CASE answer \in Carried \cup Files \cup {"options"} -> ""
                       [] answer = "unauthorized" -> "unathorized"
                       [] OTHER -> answer

\* BodyText and File: a HEAD is answered without the body.
Body(method, canHead) == method # "head" \/ ~canHead

\* SendWrongMethod, the answer to OPTIONS, and all others.
Response(answer, request) ==
    LET allowed == IF request.path \in Paths THEN Executor[request.path].methods ELSE {}
    IN  [status |-> Status(answer), name |-> ErrorName(answer),
         body |-> CASE answer = "options" -> FALSE
                    [] answer = "wrong_method" -> Body(request.method, "head" \in allowed)
                    [] OTHER -> Body(request.method, TRUE),
         allow |-> CASE answer = "options" -> {"get", "head", "post", "options"}
                     [] answer = "wrong_method" -> allowed
                     [] OTHER -> {}]

-----------------------------------------------------------------------------
(* A target is the sequence of its words and signs from the '?' on, <<>> if
   it has none. *)

\* Up to the first '=' and after it; npos + 1 is 0, so a pair without the sign
\* is both its own key and its own value.
ParseUrlPair(pair) ==
    LET sign == SelectInSeq(pair, LAMBDA word : word = "=")
    IN  IF sign = 0 THEN <<pair, pair>>
        ELSE <<SubSeq(pair, 1, sign - 1), SubSeq(pair, sign + 1, Len(pair))>>

\* Mutant: the loop ends before the last pair.
PairsButLast(params) ==
    Front(FoldLeft(LAMBDA pairs, word :
                IF word = "&" THEN Append(pairs, <<>>)
                ELSE [pairs EXCEPT ![Len(pairs)] = Append(@, word)],
             << <<>> >>, params))

\* The pairs between the '&'s.
Pairs(params) ==
    FoldLeft(LAMBDA pairs, word :
                IF word = "&" THEN Append(pairs, <<>>)
                ELSE [pairs EXCEPT ![Len(pairs)] = Append(@, word)],
             << <<>> >>, params)

\* map::insert keeps the first value of a key.
ParseUrlParameters(target) ==
    LET pairs == [i \in DOMAIN Pairs(Tail(target)) |-> ParseUrlPair(Pairs(Tail(target))[i])]
    IN  IF target = <<>> THEN <<>>
        ELSE [key \in {pairs[i][1] : i \in DOMAIN pairs} |->
                pairs[SelectInSeq(pairs, LAMBDA pair : pair[1] = key)][2]]

ParseUrlSessionId(target) == DOMAIN ParseUrlParameters(target) = {<<"sessionId">>}

\* std::stoi takes a value that begins with a number.
Numbers == {"0", "1", "2"}
Stoi(value) == value # <<>> /\ Head(value) \in Numbers

\* The test of the parameters in each function that makes one.
UrlFits(path, target) ==
    LET url == ParseUrlParameters(target)
    IN  CASE path \in {"session_state", "move", "set_state"} -> ParseUrlSessionId(target)
          [] path = "session_state_change" ->
                DOMAIN url = {<<"sessionId">>, <<"from_move">>} /\ Stoi(url[<<"from_move">>])
          [] path = "user" -> DOMAIN url \in {{<<"login">>, <<"password">>}, {<<"uuid">>}}
          [] OTHER -> TRUE

=============================================================================
