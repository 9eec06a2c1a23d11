------------------------ MODULE SessionStateNotifier ------------------------
(***************************************************************************)
(* The subscribers of one match (notification_system/                      *)
(* session_state_notifier.cpp). Every public method runs under the         *)
(* singleton's mutex, which the Lock that GetInstance returns holds until  *)
(* the end of the full expression, so a method is one step; the operators  *)
(* map the notifier's data to what the method leaves and the answers it    *)
(* sends.                                                                  *)
(*                                                                         *)
(* A poll is named by the connection it came on, which has one outstanding *)
(* request at a time. sessions_ and send_and_close_ are keyed by the       *)
(* session id, so one match does not see another.                          *)
(***************************************************************************)
CONSTANTS Users,   \* who may poll: the two players and spectators
          Conns,   \* the connections polls come on
          Absent,  \* the value of a key that is not in the map
          Nullopt  \* no open poll

ASSUME ConnsAssumption == Absent \notin Conns /\ Nullopt \notin Conns /\ Absent # Nullopt

\* No SessionData for the match and nobody in send_and_close_.
NoSubscribers == [known |-> FALSE,                            \* sessions_ has the id
                  responser |-> [u \in Users |-> Absent],     \* users_responser
                  waiting |-> {},                             \* poll_waiting
                  closing |-> {}]                             \* send_and_close_

Polling(n) == {u \in Users : n.responser[u] \in Conns}
Subscribed(n) == {u \in Users : n.responser[u] # Absent}
Answers(n, status) == {[conn |-> n.responser[u], status |-> status] : u \in Polling(n)}

Result(n, answers, found) == [n |-> n, answers |-> answers, found |-> found]

Subscribe(n, u) ==
    [n EXCEPT !.known = TRUE,
              !.responser[u] = IF @ = Absent THEN Nullopt ELSE @]

SessionCreated(n, p1, p2) == Subscribe(Subscribe(n, p1), p2)

\* Mutant: who has no open poll is forgotten.
NotifyPollersOnly(n) ==
    IF ~n.known THEN Result(n, {}, FALSE)
    ELSE Result([n EXCEPT !.responser = [u \in Users |-> IF u \in Polling(n) THEN Nullopt ELSE @[u]]],
                Answers(n, "ok"), TRUE)

\* Notify: open polls are answered with the events, who has none will be.
Notify(n) ==
    IF ~n.known THEN Result(n, {}, FALSE)
    ELSE Result([n EXCEPT !.responser = [u \in Users |-> IF u \in Polling(n) THEN Nullopt ELSE @[u]],
                          !.waiting = @ \cup (Subscribed(n) \ Polling(n))],
                Answers(n, "ok"), TRUE)

\* Mutants: poll_waiting is not saved, and the SessionData is not erased.
UnsubscribeForgets(n) ==
    IF ~n.known THEN Result(n, {}, FALSE)
    ELSE Result([NoSubscribers EXCEPT !.closing = n.closing], Answers(n, "not_relevant"), TRUE)

UnsubscribeKeeps(n) ==
    IF ~n.known THEN Result(n, {}, FALSE)
    ELSE Result([n EXCEPT !.closing = @ \cup n.waiting,
                          !.responser = [u \in Users |-> IF u \in Polling(n) THEN Nullopt ELSE @[u]]],
                Answers(n, "not_relevant"), TRUE)

\* Unsubscribe: who still has to be told the last events moves to
\* send_and_close_, open polls are answered without events.
Unsubscribe(n) ==
    IF ~n.known THEN Result(n, {}, FALSE)
    ELSE Result([NoSubscribers EXCEPT !.closing = n.closing \cup n.waiting],
                Answers(n, "not_relevant"), TRUE)

\* Mutants: the poll that is replaced gets no answer, and a user stays in
\* poll_waiting when told.
ChangePollUnclosed(n, u, c, events) ==
    LET told == [conn |-> c, status |-> IF events THEN "ok" ELSE "not_relevant"]
        s == Subscribe(n, u)
    IN  IF u \in n.closing
        THEN Result([n EXCEPT !.closing = @ \ {u}], {[conn |-> c, status |-> "ok"]}, TRUE)
        ELSE IF ~n.known THEN Result(n, {}, FALSE)
        ELSE IF u \in n.waiting THEN Result([s EXCEPT !.waiting = @ \ {u}], {told}, TRUE)
        ELSE Result([s EXCEPT !.responser[u] = c], {}, TRUE)

ChangePollStillWaiting(n, u, c, events) ==
    LET told == [conn |-> c, status |-> IF events THEN "ok" ELSE "not_relevant"]
        s == Subscribe(n, u)
        replaced == IF s.responser[u] \in Conns
                    THEN {[conn |-> s.responser[u], status |-> "poll_closed"]} ELSE {}
    IN  IF u \in n.closing
        THEN Result([n EXCEPT !.closing = @ \ {u}], {[conn |-> c, status |-> "ok"]}, TRUE)
        ELSE IF ~n.known THEN Result(n, {}, FALSE)
        ELSE IF u \in n.waiting
        THEN Result([s EXCEPT !.responser[u] = c], {told}, TRUE)
        ELSE Result([s EXCEPT !.responser[u] = c], replaced, TRUE)

\* ChangePoll. `events' tells whether the game manager has the session:
\* without its events an answer is handled as not relevant.
ChangePoll(n, u, c, events) ==
    LET told == [conn |-> c, status |-> IF events THEN "ok" ELSE "not_relevant"]
        s == Subscribe(n, u)
        replaced == IF s.responser[u] \in Conns
                    THEN {[conn |-> s.responser[u], status |-> "poll_closed"]} ELSE {}
    IN  IF u \in n.closing
        THEN Result([n EXCEPT !.closing = @ \ {u}], {[conn |-> c, status |-> "ok"]}, TRUE)
        ELSE IF ~n.known THEN Result(n, {}, FALSE)
        ELSE IF u \in n.waiting THEN Result([s EXCEPT !.waiting = @ \ {u}], {told}, TRUE)
        ELSE Result([s EXCEPT !.responser[u] = c], replaced, TRUE)

=============================================================================
