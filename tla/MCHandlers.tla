---------------------------- MODULE MCHandlers -----------------------------
EXTENDS Handlers, TLC

CONSTANTS w1, w2, c1, login, long, known, unknown

\* A request with its function's method and a known token.
Plain(path, target) ==
    [path |-> path, target |-> target, token |-> known, body |-> "admin", about |-> login,
     method |-> IF path \in {"register", "login", "enqueue", "move", "set_state"}
                THEN "post" ELSE "get"]

Session == <<"?", "sessionId", "=", "id">>
Change == <<"?", "sessionId", "=", "id", "&", "from_move", "=", "2">>
Changed == <<"?", "from_move", "=", "2", "&", "sessionId", "=", "id">>

MCRequests ==
    {Plain(path, <<>>) : path \in Paths \cup {"static", "nowhere"}}
    \cup {Plain(path, Session) : path \in {"session_state", "move", "set_state"}}
    \cup {Plain("session_state_change", target) : target \in {Change, Changed}}
    \cup {Plain("session_state", Append(Session, "&")),
          Plain("session_state", <<"?", "sessionId">>),
          Plain("session_state_change", Append(Front(Change), "x")),
          Plain("session_state_change", <<"?", "from_move", "&", "sessionId", "=", "id">>),
          Plain("session_state_change", <<"?", "from_move", "=", "2", "&", "sessionId">>),
          Plain("user", <<"?", "uuid", "=", "id">>),
          Plain("user", <<"?", "login", "=", "id", "&", "password", "=", "id">>)}
    \cup {[Plain("register", <<>>) EXCEPT !.about = long],
          [Plain("session_state", Session) EXCEPT !.method = "head"],
          [Plain("register", <<>>) EXCEPT !.method = "head"],
          [Plain("ping", <<>>) EXCEPT !.method = "options"],
          [Plain("profile", <<>>) EXCEPT !.token = NoToken],
          [Plain("profile", <<>>) EXCEPT !.token = NotBearer],
          [Plain("profile", <<>>) EXCEPT !.token = unknown],
          [Plain("ping", <<>>) EXCEPT !.token = NoToken],
          [Plain("game_consts", <<>>) EXCEPT !.token = NoToken],
          [Plain("matchmaking_queue", <<>>) EXCEPT !.body = "nobody"]}

Symmetry == Permutations({w1, w2})

=============================================================================
