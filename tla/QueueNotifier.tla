--------------------------- MODULE QueueNotifier ----------------------------
(***************************************************************************)
(* Who waits for an opponent (notification_system/queue_notifier.cpp).     *)
(* Every public method runs under the singleton's mutex, so a method is    *)
(* one step; the operators map the notifier's two maps to what the method  *)
(* leaves and the answers it sends.                                        *)
(***************************************************************************)
CONSTANTS Users,  \* the users
          Conns,  \* the connections wait_for_opponent requests come on
          None    \* the value of a key that is not in a map

ASSUME NoneAssumption == None \notin Conns

\* users_responser_ and poll_waiting_, the session ids nobody has polled for.
NobodyWaits == [responser |-> [u \in Users |-> None], waiting |-> [u \in Users |-> None]]

Told(q, answers) == [q |-> q, answers |-> answers]

\* Mutant: who is answered stays subscribed.
NotifyFoundKeeps(q, u, sid) ==
    IF q.responser[u] # None
    THEN Told(q, {[conn |-> q.responser[u], code |-> "ok", sid |-> sid]})
    ELSE Told([q EXCEPT !.waiting[u] = IF @ = None THEN sid ELSE @], {})

\* Notify with a session id: answers the open poll and unsubscribes it, or
\* keeps the id for the next poll. emplace does not replace an id kept before.
NotifyFound(q, u, sid) ==
    IF q.responser[u] # None
    THEN Told([q EXCEPT !.responser[u] = None],
              {[conn |-> q.responser[u], code |-> "ok", sid |-> sid]})
    ELSE Told([q EXCEPT !.waiting[u] = IF @ = None THEN sid ELSE @], {})

\* Mutant: what was kept waits for the next Notify.
SubscribePollOnly(q, u, c) ==
    Told([q EXCEPT !.responser[u] = c],
         IF q.responser[u] = None THEN {}
         ELSE {[conn |-> q.responser[u], code |-> "poll_closed", sid |-> None]})

\* Subscribe: an open poll of the user is closed, and an id that was kept is
\* answered at once.
SubscribePoll(q, u, c) ==
    LET closed == IF q.responser[u] = None THEN {}
                  ELSE {[conn |-> q.responser[u], code |-> "poll_closed", sid |-> None]}
        open == [q EXCEPT !.responser[u] = c]
        found == NotifyFound(open, u, q.waiting[u])
    IN  IF q.waiting[u] = None THEN Told(open, closed)
        ELSE Told([found.q EXCEPT !.waiting[u] = None], closed \cup found.answers)

=============================================================================
