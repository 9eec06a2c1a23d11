--------------------------- MODULE ConnectionPool ---------------------------
(***************************************************************************)
(* The pool of database connections that all managers share                *)
(* (psql_connection_pool): an array of connections, the first              *)
(* used_connections_ of which are handed out, a mutex and a condition      *)
(* variable.                                                               *)
(*                                                                         *)
(* The two critical sections touch memory only, so each is one step; what  *)
(* interleaves is the waiting, the waking up and the notification, which   *)
(* ReturnConnection sends after it has released the mutex. A worker has    *)
(* one ConnectionWrapper at a time: every query function of the managers   *)
(* makes one, as a local, and calls no other query function.               *)
(***************************************************************************)
EXTENDS Integers, FiniteSets

CONSTANTS Threads,      \* the workers of the io_context
          Connections,  \* the connections, MAX_CONNECTION_COUNT of them
          Null,         \* a shared_ptr that was moved from
          MaxRequests   \* bound on the queries of a worker

ASSUME ThreadsAssumption == IsFiniteSet(Threads)
ASSUME ConnectionsAssumption == IsFiniteSet(Connections) /\ Null \notin Connections
ASSUME MaxRequestsAssumption == MaxRequests \in Nat

Size == Cardinality(Connections)
Slots == 0..(Size - 1)

VARIABLES pool,  \* pool_
          used,  \* used_connections_
          held,  \* the connection a worker's ConnectionWrapper owns, or Null
          pc,    \* where the worker stands
          left   \* the queries it may still make

vars == <<pool, used, held, pc, left>>

\* "waiting": asleep on cond_var_; "woken": on its way back to the mutex, to
\* test the predicate again; "notify": put its connection back, not notified.
PC == {"idle", "waiting", "woken", "holding", "notify"}

Init == /\ pool \in [Slots -> Connections]
        /\ \A i, j \in Slots : pool[i] = pool[j] => i = j
        /\ used = 0
        /\ held = [t \in Threads |-> Null]
        /\ pc = [t \in Threads |-> "idle"]
        /\ left = [t \in Threads |-> MaxRequests]

-----------------------------------------------------------------------------
\* Mutants (what the definition below would be after a plausible slip; the
\* runs tell each from the code): `<=' in the predicate of the wait, and a
\* connection handed out but not counted.
TakePastTheEnd(t) ==
    /\ used <= Size
    /\ held' = [held EXCEPT ![t] = IF used \in Slots THEN pool[used] ELSE Null]
    /\ pool' = [pool EXCEPT ![used] = Null]
    /\ used' = used + 1
    /\ pc' = [pc EXCEPT ![t] = "holding"]

TakeUncounted(t) ==
    /\ used < Size
    /\ held' = [held EXCEPT ![t] = pool[used]]
    /\ pc' = [pc EXCEPT ![t] = "holding"]
    /\ UNCHANGED <<pool, used>>

\* The predicate of the wait holds: take the first connection that is left.
Take(t) ==
    /\ used < Size
    /\ held' = [held EXCEPT ![t] = pool[used]]
    /\ pool' = [pool EXCEPT ![used] = Null]
    /\ used' = used + 1
    /\ pc' = [pc EXCEPT ![t] = "holding"]

\* The predicate does not hold: cond_var_.wait releases the mutex.
Sleep(t) ==
    /\ used >= Size
    /\ pc' = [pc EXCEPT ![t] = "waiting"]
    /\ UNCHANGED <<pool, used, held>>

\* GetConnection, up to the wait.
GetConnection(t) ==
    /\ pc[t] = "idle"
    /\ left[t] > 0
    /\ left' = [left EXCEPT ![t] = @ - 1]
    /\ Take(t) \/ Sleep(t)

\* A woken worker has the mutex again and tests the predicate.
Retest(t) ==
    /\ pc[t] = "woken"
    /\ Take(t) \/ Sleep(t)
    /\ UNCHANGED left

\* A condition variable may wake a worker that nobody notified.
SpuriousWakeup(t) ==
    /\ pc[t] = "waiting"
    /\ pc' = [pc EXCEPT ![t] = "woken"]
    /\ UNCHANGED <<pool, used, held, left>>

\* Mutant: used_connections_-- where the code has --used_connections_.
ReturnPostDecrement(t) ==
    /\ pc[t] = "holding"
    /\ pool' = [pool EXCEPT ![used] = held[t]]
    /\ used' = used - 1
    /\ held' = [held EXCEPT ![t] = Null]
    /\ pc' = [pc EXCEPT ![t] = "notify"]
    /\ UNCHANGED left

\* ~ConnectionWrapper, when the query function returns or throws: the
\* critical section of ReturnConnection.
ReturnConnection(t) ==
    /\ pc[t] = "holding"
    /\ pool' = [pool EXCEPT ![used - 1] = held[t]]
    /\ used' = used - 1
    /\ held' = [held EXCEPT ![t] = Null]
    /\ pc' = [pc EXCEPT ![t] = "notify"]
    /\ UNCHANGED left

Waiting == {t \in Threads : pc[t] = "waiting"}

\* Mutant: notify only when the pool was exhausted.
NotifyIfExhausted(t) ==
    /\ pc[t] = "notify"
    /\ IF Waiting = {} \/ used # Size - 1
       THEN pc' = [pc EXCEPT ![t] = "idle"]
       ELSE \E u \in Waiting : pc' = [pc EXCEPT ![t] = "idle", ![u] = "woken"]
    /\ UNCHANGED <<pool, used, held, left>>

\* cond_var_.notify_one wakes any one of the workers asleep, if there is one.
NotifyOne(t) ==
    /\ pc[t] = "notify"
    /\ \/ /\ Waiting = {}
          /\ pc' = [pc EXCEPT ![t] = "idle"]
       \/ \E u \in Waiting : pc' = [pc EXCEPT ![t] = "idle", ![u] = "woken"]
    /\ UNCHANGED <<pool, used, held, left>>

Next == \E t \in Threads : \/ GetConnection(t)
                           \/ Retest(t)
                           \/ SpuriousWakeup(t)
                           \/ ReturnConnection(t)
                           \/ NotifyOne(t)

\* A query ends, and a worker that can run runs. Nobody has to wake a worker
\* without a notification.
Fairness == \A t \in Threads : /\ WF_vars(Retest(t))
                               /\ WF_vars(ReturnConnection(t))
                               /\ WF_vars(NotifyOne(t))

Spec == Init /\ [][Next]_vars /\ Fairness

-----------------------------------------------------------------------------
(* The pool's fields are of their types. *)
TypeOK ==
    /\ pool \in [Slots -> Connections \cup {Null}]
    /\ used \in 0..Size
    /\ held \in [Threads -> Connections \cup {Null}]
    /\ pc \in [Threads -> PC]
    /\ left \in [Threads -> Nat]

(* The slots below used_connections_ are empty, the others hold connections
   no worker has, each once, and no two workers share a connection: what
   `pool_[used_connections_++]' hands out is never null or taken
   (postgres_connection_pool.cpp:18), and what comes back overwrites nothing
   (:25), although connections come back in any order. *)
HandedOutOnce ==
    /\ \A i \in Slots : pool[i] = Null <=> i < used
    /\ \A i, j \in Slots : pool[i] = pool[j] /\ i >= used => i = j \/ pool[j] = Null
    /\ \A t \in Threads, i \in Slots : held[t] = pool[i] => held[t] = Null
    /\ \A t, u \in Threads : held[t] = held[u] /\ held[t] # Null => t = u

(* used_connections_ counts the workers that hold a connection: the assertion
   of ReturnConnection, used_connections_ != 0, holds (:24). *)
UsedCounts ==
    /\ used = Cardinality({t \in Threads : pc[t] = "holding"})
    /\ \A t \in Threads : held[t] # Null <=> pc[t] = "holding"

Pending == {t \in Threads : pc[t] \in {"notify", "woken"}}

(* No wakeup is lost: while a worker sleeps, a free connection has a
   notification under way or a woken worker coming for it, although the
   notification is sent after the mutex is released and a worker that did not
   wait can take the connection first (postgres_connection_pool.cpp:15, :27). *)
NoLostWakeup == Waiting # {} => Size - used <= Cardinality(Pending)

(* A worker that waits for a connection gets one once the workers in front of
   it make no further queries. *)
Served == \A t \in Threads : pc[t] \in {"waiting", "woken"} ~> pc[t] = "holding"

(* The pool hands every connection to at most one worker at a time. *)
Resource == INSTANCE ResourcePool WITH Users <- Threads, Resources <- Connections,
                                       None <- Null, held <- held
AllocatesExclusively == Resource!Spec

=============================================================================
