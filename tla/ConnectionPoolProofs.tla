------------------------ MODULE ConnectionPoolProofs ------------------------
(***************************************************************************)
(* Proofs about ConnectionPool, for any number of workers, connections and *)
(* queries: connections are handed out exclusively and counted, and no     *)
(* wakeup is lost.                                                         *)
(***************************************************************************)
EXTENDS ConnectionPool, FiniteSetTheorems, TLAPS

Holders == {t \in Threads : pc[t] = "holding"}

\* The inductive invariant.
PoolInv == TypeOK /\ HandedOutOnce /\ UsedCounts

-----------------------------------------------------------------------------
(* What one worker's step does to the workers of a kind.                    *)

\* The pool has a finite number of connections.
LEMMA SizeType == Size \in Nat
  BY FS_CardinalityType, ConnectionsAssumption DEF Size

(* A set of workers is finite, and so counted by a natural number. *)
LEMMA WorkersFinite ==
  ASSUME NEW S \in SUBSET Threads
  PROVE  IsFiniteSet(S) /\ Cardinality(S) \in Nat
<1>1. IsFiniteSet(S)
  BY FS_Subset, ThreadsAssumption
<1> QED
  BY <1>1, FS_CardinalityType

(* A worker that joins a kind adds one to its number, ... *)
LEMMA Joins ==
  ASSUME NEW S \in SUBSET Threads, NEW t \in Threads, t \notin S
  PROVE  Cardinality(S \cup {t}) = Cardinality(S) + 1
  BY WorkersFinite, FS_AddElement

(* ... and one that leaves takes one from it. *)
LEMMA Leaves ==
  ASSUME NEW S \in SUBSET Threads, NEW t \in S
  PROVE  Cardinality(S \ {t}) = Cardinality(S) - 1 /\ Cardinality(S) > 0
<1>1. IsFiniteSet(S) /\ IsFiniteSet(S \ {t}) /\ Cardinality(S) \in Nat
      /\ Cardinality(S \ {t}) \in Nat
  BY WorkersFinite
<1>2. Cardinality(S \ {t}) = Cardinality(S) - 1
  BY <1>1, FS_RemoveElement
<1> QED
  BY <1>1, <1>2

(* The slots are the numbers below the size. *)
LEMMA SlotOf ==
  ASSUME NEW i \in Nat, i < Size
  PROVE  i \in Slots
  BY SizeType DEF Slots

-----------------------------------------------------------------------------
\* A new pool has all connections in their slots, and no holder.
LEMMA PoolInit ==
  ASSUME Init
  PROVE  PoolInv
<1> USE SizeType DEF Init
<1>1. TypeOK
  BY MaxRequestsAssumption DEF TypeOK, PC
<1>2. HandedOutOnce
  <2>1. \A i \in Slots : pool[i] # Null /\ ~(i < used)
    BY ConnectionsAssumption DEF Slots
  <2> QED
    BY <2>1 DEF HandedOutOnce
<1>3. UsedCounts
  <2>1. {t \in Threads : pc[t] = "holding"} = {}
    OBVIOUS
  <2>2. Cardinality({}) = 0
    BY FS_EmptySet
  <2> QED
    BY <2>1, <2>2 DEF UsedCounts
<1> QED
  BY <1>1, <1>2, <1>3 DEF PoolInv

(* Taking the first connection that is left. *)
LEMMA TakeKeeps ==
  ASSUME PoolInv, NEW t \in Threads, Take(t), pc[t] # "holding", left' \in [Threads -> Nat]
  PROVE  PoolInv'
<1> USE SizeType
<1>1. used \in Slots /\ used \in Nat /\ used < Size
  BY SlotOf DEF PoolInv, TypeOK, Take
<1>2. TypeOK'
  <2>1. pool[used] \in Connections \cup {Null}
    BY <1>1 DEF PoolInv, TypeOK
  <2>2. pool' \in [Slots -> Connections \cup {Null}] /\ held' \in [Threads -> Connections \cup {Null}]
    BY <1>1, <2>1 DEF PoolInv, TypeOK, Take
  <2>3. used' \in 0..Size
    BY <1>1 DEF Take
  <2>4. pc' \in [Threads -> PC]
    BY DEF PoolInv, TypeOK, Take, PC
  <2> QED
    BY <2>2, <2>3, <2>4 DEF TypeOK
<1>3. pool[used] # Null /\ pool[used] \in Connections
  BY <1>1 DEF PoolInv, TypeOK, HandedOutOnce
<1>4. /\ \A i \in Slots : pool'[i] = IF i = used THEN Null ELSE pool[i]
      /\ \A u \in Threads : held'[u] = IF u = t THEN pool[used] ELSE held[u]
      /\ \A u \in Threads : pc'[u] = IF u = t THEN "holding" ELSE pc[u]
      /\ used' = used + 1
  BY DEF PoolInv, TypeOK, Take
<1>5. HandedOutOnce'
  <2>1. \A i \in Slots : pool'[i] = Null <=> i < used'
    BY <1>1, <1>4 DEF PoolInv, HandedOutOnce, Slots
  <2>2. \A i, j \in Slots : pool'[i] = pool'[j] /\ i >= used' => i = j \/ pool'[j] = Null
    BY <1>1, <1>4 DEF PoolInv, HandedOutOnce, Slots
  <2>3. \A u \in Threads, i \in Slots : held'[u] = pool'[i] => held'[u] = Null
    <3>1. ASSUME NEW u \in Threads, NEW i \in Slots, held'[u] = pool'[i], i # used
          PROVE  held'[u] = Null
      <4>1. CASE u = t
        <5>1. pool[used] = pool[i]
          BY <1>4, <3>1, <4>1
        <5>2. used = i \/ pool[i] = Null
          BY <1>1, <5>1 DEF PoolInv, HandedOutOnce
        <5> QED
          BY <1>3, <3>1, <5>1, <5>2
      <4>2. CASE u # t
        BY <1>4, <3>1, <4>2 DEF PoolInv, HandedOutOnce
      <4> QED
        BY <4>1, <4>2
    <3> QED
      BY <1>4, <3>1
  <2>4. \A u, v \in Threads : held'[u] = held'[v] /\ held'[u] # Null => u = v
    <3>1. \A u \in Threads : held[u] # pool[used]
      BY <1>1, <1>3 DEF PoolInv, HandedOutOnce
    <3> QED
      BY <1>4, <3>1 DEF PoolInv, HandedOutOnce
  <2> QED
    BY <2>1, <2>2, <2>3, <2>4 DEF HandedOutOnce
<1>6. UsedCounts'
  <2>1. Holders' = Holders \cup {t} /\ t \notin Holders
    BY <1>4 DEF Holders
  <2>2. used = Cardinality(Holders)
    BY DEF PoolInv, UsedCounts, Holders
  <2>3. Cardinality(Holders \cup {t}) = Cardinality(Holders) + 1
    BY <2>1, Joins DEF Holders
  <2>4. used' = Cardinality(Holders')
    BY <1>4, <2>1, <2>2, <2>3
  <2>5. \A u \in Threads : held'[u] # Null <=> pc'[u] = "holding"
    BY <1>3, <1>4 DEF PoolInv, UsedCounts
  <2> QED
    BY <2>4, <2>5 DEF UsedCounts, Holders
<1> QED
  BY <1>2, <1>5, <1>6 DEF PoolInv

(* Putting a connection back into the last slot that is empty. *)
LEMMA ReturnKeeps ==
  ASSUME PoolInv, NEW t \in Threads, ReturnConnection(t)
  PROVE  PoolInv'
<1> USE SizeType
<1> DEFINE last == used - 1
<1>1. used > 0 /\ t \in Holders /\ used = Cardinality(Holders)
  <2>1. t \in Holders /\ used = Cardinality(Holders)
    BY DEF PoolInv, UsedCounts, Holders, ReturnConnection
  <2> QED
    BY <2>1, Leaves DEF Holders
<1>2. last \in Slots /\ last \in Nat /\ last < Size /\ used = last + 1
  BY <1>1, SlotOf DEF PoolInv, TypeOK
<1>3. held[t] # Null /\ held[t] \in Connections
  BY DEF PoolInv, TypeOK, UsedCounts, ReturnConnection
<1>4. /\ \A i \in Slots : pool'[i] = IF i = last THEN held[t] ELSE pool[i]
      /\ \A u \in Threads : held'[u] = IF u = t THEN Null ELSE held[u]
      /\ \A u \in Threads : pc'[u] = IF u = t THEN "notify" ELSE pc[u]
      /\ used' = last
  BY DEF PoolInv, TypeOK, ReturnConnection
<1> HIDE DEF last
<1>5. TypeOK'
  BY <1>2, <1>3, <1>4 DEF PoolInv, TypeOK, ReturnConnection, PC, last
<1>6. HandedOutOnce'
  <2>1. \A i \in Slots : pool'[i] = Null <=> i < used'
    BY <1>2, <1>3, <1>4 DEF PoolInv, HandedOutOnce, Slots
  <2>2. \A i \in Slots : pool[i] # held[t]
    BY <1>3 DEF PoolInv, HandedOutOnce
  <2>3. \A i, j \in Slots : pool'[i] = pool'[j] /\ i >= used' => i = j \/ pool'[j] = Null
    BY <1>2, <1>4, <2>2 DEF PoolInv, HandedOutOnce, Slots
  <2>4. \A u \in Threads, i \in Slots : held'[u] = pool'[i] => held'[u] = Null
    BY <1>3, <1>4 DEF PoolInv, HandedOutOnce
  <2>5. \A u, v \in Threads : held'[u] = held'[v] /\ held'[u] # Null => u = v
    BY <1>4 DEF PoolInv, HandedOutOnce
  <2> QED
    BY <2>1, <2>3, <2>4, <2>5 DEF HandedOutOnce
<1>7. UsedCounts'
  <2>1. Holders' = Holders \ {t}
    BY <1>4 DEF Holders
  <2>2. Cardinality(Holders \ {t}) = Cardinality(Holders) - 1
    <3>1. Holders \in SUBSET Threads
      BY DEF Holders
    <3> QED
      BY <1>1, <3>1, Leaves
  <2>3. used' = Cardinality(Holders')
    BY <1>1, <1>2, <1>4, <2>1, <2>2
  <2>4. \A u \in Threads : held'[u] # Null <=> pc'[u] = "holding"
    BY <1>4 DEF PoolInv, UsedCounts
  <2> QED
    BY <2>3, <2>4 DEF UsedCounts, Holders
<1> QED
  BY <1>5, <1>6, <1>7 DEF PoolInv

(* Going to sleep, waking up and notifying move workers between kinds that
   hold nothing. *)
LEMMA IdleKeeps ==
  ASSUME PoolInv, UNCHANGED <<pool, used, held>>, left' \in [Threads -> Nat],
         pc' \in [Threads -> PC],
         \A t \in Threads : pc[t] = "holding" <=> pc'[t] = "holding"
  PROVE  PoolInv'
<1>1. TypeOK' /\ HandedOutOnce'
  BY DEF PoolInv, TypeOK, HandedOutOnce
<1>2. {t \in Threads : pc[t] = "holding"} = {t \in Threads : pc'[t] = "holding"}
  OBVIOUS
<1>3. UsedCounts'
  BY <1>2 DEF PoolInv, UsedCounts
<1> QED
  BY <1>1, <1>3 DEF PoolInv

\* Every step of a query, waiting and waking included, keeps the invariant.
LEMMA PoolStep ==
  ASSUME PoolInv, [Next]_vars
  PROVE  PoolInv'
<1>1. ASSUME NEW t \in Threads, GetConnection(t)
      PROVE  PoolInv'
  <2>1. left' \in [Threads -> Nat]
    BY <1>1 DEF GetConnection, PoolInv, TypeOK
  <2>2. CASE Take(t)
    BY <1>1, <2>1, <2>2, TakeKeeps DEF GetConnection
  <2>3. CASE Sleep(t)
    BY <1>1, <2>1, <2>3, IdleKeeps DEF GetConnection, Sleep, PoolInv, TypeOK, PC
  <2> QED
    BY <1>1, <2>2, <2>3 DEF GetConnection
<1>2. ASSUME NEW t \in Threads, Retest(t)
      PROVE  PoolInv'
  <2>1. left' \in [Threads -> Nat]
    BY <1>2 DEF Retest, PoolInv, TypeOK
  <2>2. CASE Take(t)
    BY <1>2, <2>1, <2>2, TakeKeeps DEF Retest
  <2>3. CASE Sleep(t)
    BY <1>2, <2>1, <2>3, IdleKeeps DEF Retest, Sleep, PoolInv, TypeOK, PC
  <2> QED
    BY <1>2, <2>2, <2>3 DEF Retest
<1>3. ASSUME NEW t \in Threads, SpuriousWakeup(t)
      PROVE  PoolInv'
  BY <1>3, IdleKeeps DEF SpuriousWakeup, PoolInv, TypeOK, PC
<1>4. ASSUME NEW t \in Threads, ReturnConnection(t)
      PROVE  PoolInv'
  BY <1>4, ReturnKeeps
<1>5. ASSUME NEW t \in Threads, NotifyOne(t)
      PROVE  PoolInv'
  <2>1. CASE Waiting = {} /\ pc' = [pc EXCEPT ![t] = "idle"]
    BY <1>5, <2>1, IdleKeeps DEF NotifyOne, PoolInv, TypeOK, PC
  <2>2. ASSUME NEW u \in Waiting, pc' = [pc EXCEPT ![t] = "idle", ![u] = "woken"]
        PROVE  PoolInv'
    BY <1>5, <2>2, IdleKeeps DEF NotifyOne, Waiting, PoolInv, TypeOK, PC
  <2> QED
    BY <1>5, <2>1, <2>2 DEF NotifyOne
<1>6. CASE UNCHANGED vars
  <2>1. left' \in [Threads -> Nat] /\ pc' \in [Threads -> PC]
    BY <1>6 DEF PoolInv, TypeOK, vars
  <2> QED
    BY <1>6, <2>1, IdleKeeps DEF vars
<1> QED
  BY <1>1, <1>2, <1>3, <1>4, <1>5, <1>6 DEF Next

(* The pool's bookkeeping is right in every reachable state. *)
THEOREM PoolInvariant == Spec => []PoolInv
<1>1. Init => PoolInv
  BY PoolInit
<1>2. PoolInv /\ [Next]_vars => PoolInv'
  BY PoolStep
<1> QED
  BY <1>1, <1>2, PTL DEF Spec

(* The fields keep their types: used_connections_ stays within the pool. *)
THEOREM TypeCorrect == Spec => []TypeOK
<1>1. PoolInv => TypeOK
  BY DEF PoolInv
<1> QED
  BY <1>1, PoolInvariant, PTL

(* What GetConnection hands out is a connection nobody has, and what
   ReturnConnection puts back overwrites no connection. *)
THEOREM ExclusiveConnections == Spec => []HandedOutOnce
<1>1. PoolInv => HandedOutOnce
  BY DEF PoolInv
<1> QED
  BY <1>1, PoolInvariant, PTL

(* used_connections_ is the number of workers that have a connection; the
   assertion of ReturnConnection never fails. *)
THEOREM CountIsRight == Spec => []UsedCounts
<1>1. PoolInv => UsedCounts
  BY DEF PoolInv
<1> QED
  BY <1>1, PoolInvariant, PTL

-----------------------------------------------------------------------------
(* No wakeup is lost: the notification a return owes and the workers on     *)
(* their way are as many as the connections that are free.                  *)
LEMMA WakeupStep ==
  ASSUME PoolInv, NoLostWakeup, [Next]_vars
  PROVE  NoLostWakeup'
<1> USE SizeType
<1> DEFINE n == Cardinality(Pending)
<1>1. n \in Nat /\ n' \in Nat /\ Pending \in SUBSET Threads /\ Pending' \in SUBSET Threads
  <2>1. Pending \in SUBSET Threads /\ Pending' \in SUBSET Threads
    BY DEF Pending
  <2> QED
    BY <2>1, WorkersFinite
<1>2. used \in Nat
  BY DEF PoolInv, TypeOK
<1>3. ASSUME NEW t \in Threads, Sleep(t)
      PROVE  NoLostWakeup'
  <2>1. used' >= Size /\ used' \in Nat
    BY <1>2, <1>3 DEF Sleep
  <2>2. Size - used' <= n'
    BY <1>1, <2>1
  <2> QED
    BY <2>2 DEF NoLostWakeup
<1>4. ASSUME NEW t \in Threads, pc[t] = "idle", Take(t)
      PROVE  NoLostWakeup'
  <2>1. Waiting' = Waiting /\ Pending' = Pending /\ used' = used + 1
    BY <1>4 DEF Take, Waiting, Pending, PoolInv, TypeOK
  <2> QED
    BY <1>1, <1>2, <2>1 DEF NoLostWakeup
<1>5. ASSUME NEW t \in Threads, pc[t] = "woken", Take(t)
      PROVE  NoLostWakeup'
  <2>1. Waiting' = Waiting /\ Pending' = Pending \ {t} /\ t \in Pending /\ used' = used + 1
    BY <1>5 DEF Take, Waiting, Pending, PoolInv, TypeOK
  <2>2. Cardinality(Pending \ {t}) = n - 1
    BY <1>1, <2>1, Leaves
  <2> QED
    BY <1>1, <1>2, <2>1, <2>2 DEF NoLostWakeup
<1>6. ASSUME NEW t \in Threads, SpuriousWakeup(t)
      PROVE  NoLostWakeup'
  <2>1. Waiting # {} /\ Pending' = Pending \cup {t} /\ t \notin Pending /\ used' = used
    BY <1>6 DEF SpuriousWakeup, Waiting, Pending, PoolInv, TypeOK
  <2>2. Cardinality(Pending \cup {t}) = n + 1
    BY <1>1, <2>1, Joins
  <2> QED
    BY <1>1, <1>2, <2>1, <2>2 DEF NoLostWakeup
<1>7. ASSUME NEW t \in Threads, ReturnConnection(t)
      PROVE  NoLostWakeup'
  <2>1. Waiting' = Waiting /\ Pending' = Pending \cup {t} /\ t \notin Pending /\ used' = used - 1
    BY <1>7 DEF ReturnConnection, Waiting, Pending, PoolInv, TypeOK
  <2>2. Cardinality(Pending \cup {t}) = n + 1
    BY <1>1, <2>1, Joins
  <2> QED
    BY <1>1, <1>2, <2>1, <2>2 DEF NoLostWakeup
<1>8. ASSUME NEW t \in Threads, NotifyOne(t)
      PROVE  NoLostWakeup'
  <2>1. CASE Waiting = {} /\ pc' = [pc EXCEPT ![t] = "idle"]
    <3>1. Waiting' = {}
      BY <1>8, <2>1 DEF NotifyOne, Waiting, PoolInv, TypeOK
    <3> QED
      BY <3>1 DEF NoLostWakeup
  <2>2. ASSUME NEW u \in Waiting, pc' = [pc EXCEPT ![t] = "idle", ![u] = "woken"]
        PROVE  NoLostWakeup'
    <3>1. /\ Waiting # {} /\ used' = used /\ t \in Pending /\ u \in Threads /\ u \notin Pending
          /\ Pending' = (Pending \ {t}) \cup {u}
      BY <1>8, <2>2 DEF NotifyOne, Waiting, Pending, PoolInv, TypeOK
    <3>2. Cardinality(Pending \ {t}) = n - 1
      BY <1>1, <3>1, Leaves
    <3>3. Pending \ {t} \in SUBSET Threads /\ u \notin Pending \ {t}
      BY <1>1, <3>1
    <3>4. Cardinality((Pending \ {t}) \cup {u}) = Cardinality(Pending \ {t}) + 1
      BY <3>1, <3>3, Joins
    <3>5. n' = n
      BY <1>1, <3>1, <3>2, <3>4
    <3> QED
      BY <3>1, <3>5 DEF NoLostWakeup
  <2> QED
    BY <1>8, <2>1, <2>2 DEF NotifyOne
<1>9. CASE UNCHANGED vars
  BY <1>9 DEF vars, NoLostWakeup, Waiting, Pending
<1> QED
  BY <1>3, <1>4, <1>5, <1>6, <1>7, <1>8, <1>9 DEF Next, GetConnection, Retest

(* While a worker sleeps, every free connection has a notification under way
   or a woken worker coming for it, for any number of workers. *)
THEOREM WakeupsAreKept == Spec => []NoLostWakeup
<1>1. Init => NoLostWakeup
  <2>1. Init => Waiting = {}
    BY DEF Init, Waiting
  <2> QED
    BY <2>1 DEF NoLostWakeup
<1>2. PoolInv /\ NoLostWakeup /\ [Next]_vars => NoLostWakeup'
  BY WakeupStep
<1> QED
  BY <1>1, <1>2, PoolInvariant, PTL DEF Spec

-----------------------------------------------------------------------------
(* Every step of the pool is a step of ResourcePool or leaves held alone.   *)

\* Taking a connection from the array is Acquire of the abstract pool.
LEMMA TakeAcquires ==
  ASSUME PoolInv, NEW t \in Threads, Take(t), pc[t] # "holding"
  PROVE  Resource!Next
<1>1. used \in Slots
  BY SizeType, SlotOf DEF PoolInv, TypeOK, Take
<1>2. pool[used] \in Connections /\ pool[used] # Null
  BY <1>1, SizeType DEF PoolInv, TypeOK, HandedOutOnce, Slots
<1>3. held[t] = Null
  BY DEF PoolInv, UsedCounts
<1>4. \A u \in Threads : held[u] # pool[used]
  BY <1>1, <1>2 DEF PoolInv, HandedOutOnce
<1>5. Resource!Acquire(t, pool[used])
  BY <1>3, <1>4 DEF Resource!Acquire, Resource!Free, Take
<1> QED
  BY <1>2, <1>5 DEF Resource!Next

\* A step of the pool is one of the abstract pool, or changes no holder.
LEMMA PoolRefines ==
  ASSUME PoolInv, [Next]_vars
  PROVE  [Resource!Next]_held
<1>1. ASSUME NEW t \in Threads, GetConnection(t) \/ Retest(t)
      PROVE  [Resource!Next]_held
  <2>1. CASE Take(t)
    BY <1>1, <2>1, TakeAcquires DEF GetConnection, Retest
  <2>2. CASE Sleep(t)
    BY <2>2 DEF Sleep
  <2> QED
    BY <1>1, <2>1, <2>2 DEF GetConnection, Retest
<1>2. ASSUME NEW t \in Threads, ReturnConnection(t)
      PROVE  Resource!Next
  <2>1. held[t] # Null
    BY <1>2 DEF ReturnConnection, PoolInv, UsedCounts
  <2> QED
    BY <1>2, <2>1 DEF ReturnConnection, Resource!Release, Resource!Next
<1>3. ASSUME NEW t \in Threads, SpuriousWakeup(t) \/ NotifyOne(t)
      PROVE  UNCHANGED held
  BY <1>3 DEF SpuriousWakeup, NotifyOne
<1>4. CASE UNCHANGED vars
  BY <1>4 DEF vars
<1> QED
  BY <1>1, <1>2, <1>3, <1>4 DEF Next

(* The pool implements ResourcePool: no connection has two holders. *)
THEOREM PoolImplementsResourcePool == Spec => AllocatesExclusively
<1>1. Init => Resource!Init
  BY DEF Init, Resource!Init
<1>2. PoolInv /\ [Next]_vars => [Resource!Next]_held
  BY PoolRefines
<1> QED
  BY <1>1, <1>2, PoolInvariant, PTL DEF Spec, AllocatesExclusively, Resource!Spec

=============================================================================
