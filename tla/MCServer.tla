------------------------------ MODULE MCServer ------------------------------
(* Server with two connections and two workers, two users with one password, *)
(* a request for every function that does something to connections, workers  *)
(* or accounts, one that reads, one with a token nobody has and one with a   *)
(* body that is refused.                                                     *)
EXTENDS Server

CONSTANTS u1, u2, t1, t2, x

R(path, method, token, login, body) ==
    [path |-> path, method |-> method, token |-> token, login |-> login, password |-> x,
     body |-> body]

MCRequests ==
    {R("register", "post", NoToken, u, "valid") : u \in Users}
    \cup {R("login", "post", NoToken, u, "valid") : u \in Users}
    \cup {R("wait_for_opponent", "get", t, u1, "none") : t \in Tokens}
    \cup {R(p, "post", t1, u1, "none") : p \in {"enqueue", "move"}}
    \cup {R("game_consts", "get", NoToken, u1, "none"), R("profile", "get", Bogus, u1, "none"),
          R("register", "post", NoToken, u1, "short")}
=============================================================================
