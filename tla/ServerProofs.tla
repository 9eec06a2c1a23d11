---------------------------- MODULE ServerProofs ----------------------------
(***************************************************************************)
(* The safety properties of the server's connections, workers and          *)
(* accounts, for any connections, workers, users, tokens and requests.     *)
(***************************************************************************)
EXTENDS Server, FiniteSetTheorems, TLAPS

\* The connections that wait for a worker are those in ready, each once; a
\* worker handles a connection of its own; a stream is read or written.
Scheduled ==
    /\ \A c \in Conns : ops[c] = IF pc[c] \in {"reading", "writing"} THEN 1 ELSE 0
    /\ IsInjective(ready) /\ ToSet(ready) = {c \in Conns : pc[c] \in Due}
    /\ \A w \in Workers : worker[w] # Idle => pc[worker[w]] \in Handling
    /\ \A w, v \in Workers : worker[w] = worker[v] => w = v \/ worker[w] = Idle

\* The queue notifier's maps.
QueueData == [responser : [Users -> Conns \cup {None}], waiting : [Users -> {None, 1}]]

\* A connection has a request from its arrival to its answer.
Requested ==
    /\ qn \in QueueData
    /\ \A c \in Conns : pc[c] \in {"arrived", "parked"} \cup Handling => request[c] \in Requests

\* A login has drawn a token of its own, that nobody was sent.
Drawn ==
    /\ \A c \in Conns : drawn[c] # None <=> pc[c] \in {"store", "check"}
    /\ \A c, d \in Conns : drawn[c] = drawn[d] => c = d \/ drawn[c] = None
    /\ \A c \in Conns : pc[c] = "store" => tokens[drawn[c]] = None
    /\ \A c \in Conns : pc[c] = "check" => tokens[drawn[c]] = request[c].login

\* A token that was sent is known to Redis, as that of the user it was sent to.
Issued ==
    /\ \A t \in Tokens : issued[t] # {} => tokens[t] # None /\ issued[t] = {tokens[t]}
    /\ \A c \in Conns : pc[c] \in {"arrived", "handle"} => Holds(request[c].token)

\* The inductive invariant.
ServerInv == /\ TypeOK /\ Scheduled /\ Requested /\ Drawn /\ Issued /\ ActsAsOwner
             /\ ParkedIsSubscribed

-----------------------------------------------------------------------------
(* The queue of completion handlers.                                        *)

\* A completion goes to the end of the queue.
LEMMA AppendOnce ==
    ASSUME NEW s \in Seq(Conns), NEW c \in Conns, IsInjective(s), c \notin ToSet(s)
    PROVE  /\ Append(s, c) \in Seq(Conns) /\ IsInjective(Append(s, c))
           /\ ToSet(Append(s, c)) = ToSet(s) \cup {c}
<1> DEFINE a == Append(s, c)
<1>1. /\ a \in Seq(Conns) /\ DOMAIN a = 1..(Len(s) + 1) /\ DOMAIN s = 1..Len(s) /\ Len(s) \in Nat
      /\ a[Len(s) + 1] = c /\ \A i \in 1..Len(s) : a[i] = s[i]
  OBVIOUS
<1> HIDE DEF a
<1>2. \A i \in 1..Len(s) : s[i] # c
  BY <1>1 DEF ToSet
<1>3. ASSUME NEW i \in DOMAIN a, NEW j \in DOMAIN a, a[i] = a[j]
      PROVE  i = j
  <2>1. i \in 1..Len(s) \/ i = Len(s) + 1
    BY <1>1
  <2>2. j \in 1..Len(s) \/ j = Len(s) + 1
    BY <1>1
  <2> QED BY <1>1, <1>2, <1>3, <2>1, <2>2 DEF IsInjective
<1>4. ToSet(a) = ToSet(s) \cup {c}
  <2>1. \A i \in DOMAIN a : i \in DOMAIN s \/ a[i] = c
    BY <1>1
  <2>2. \A i \in DOMAIN s : i \in DOMAIN a /\ a[i] = s[i]
    BY <1>1
  <2>3. Len(s) + 1 \in DOMAIN a
    BY <1>1
  <2> QED BY <1>1, <2>1, <2>2, <2>3 DEF ToSet
<1> QED BY <1>1, <1>3, <1>4 DEF IsInjective, a

\* A worker takes the first.
LEMMA TailOnce ==
    ASSUME NEW s \in Seq(Conns), s # <<>>, IsInjective(s)
    PROVE  /\ Head(s) \in Conns /\ Tail(s) \in Seq(Conns) /\ IsInjective(Tail(s))
           /\ ToSet(Tail(s)) = ToSet(s) \ {Head(s)} /\ Head(s) \in ToSet(s)
<1> DEFINE t == Tail(s)
<1>1. /\ Len(s) \in Nat /\ Len(s) >= 1 /\ DOMAIN s = 1..Len(s)
      /\ Head(s) = s[1] /\ Head(s) \in Conns
      /\ t \in Seq(Conns) /\ DOMAIN t = 1..(Len(s) - 1)
      /\ \A i \in 1..(Len(s) - 1) : t[i] = s[i + 1]
  OBVIOUS
<1> HIDE DEF t
<1>2. ASSUME NEW i \in DOMAIN t, NEW j \in DOMAIN t, t[i] = t[j]
      PROVE  i = j
  <2>1. i + 1 \in DOMAIN s /\ j + 1 \in DOMAIN s /\ s[i + 1] = s[j + 1] /\ i \in Nat /\ j \in Nat
    BY <1>1, <1>2
  <2>2. i + 1 = j + 1
    BY <2>1 DEF IsInjective
  <2> QED BY <2>1, <2>2
<1>3. 1 \in DOMAIN s
  BY <1>1
<1>4. ASSUME NEW x \in ToSet(t) PROVE x \in ToSet(s) /\ x # Head(s)
  <2>1. PICK i \in DOMAIN t : x = t[i]
    BY <1>4 DEF ToSet
  <2>2. i + 1 \in DOMAIN s /\ x = s[i + 1] /\ i + 1 # 1
    BY <1>1, <2>1
  <2> QED BY <1>1, <1>3, <2>2 DEF ToSet, IsInjective
<1>5. ASSUME NEW x \in ToSet(s), x # Head(s) PROVE x \in ToSet(t)
  <2>1. PICK i \in DOMAIN s : x = s[i]
    BY <1>5 DEF ToSet
  <2>2. i - 1 \in DOMAIN t /\ t[i - 1] = s[(i - 1) + 1] /\ (i - 1) + 1 = i
    BY <1>1, <1>5, <2>1
  <2> QED BY <2>1, <2>2 DEF ToSet
<1>6. Head(s) \in ToSet(s)
  BY <1>1, <1>3 DEF ToSet
<1> QED BY <1>1, <1>2, <1>4, <1>5, <1>6 DEF IsInjective, t

-----------------------------------------------------------------------------
(* What the steps do to connections, workers and streams.                   *)

\* A completion becomes due: of an operation, or of an accept.
LEMMA DueSchedules ==
    ASSUME TypeOK, Scheduled, NEW c \in Conns, NEW to \in Due, pc[c] \notin Due \cup Handling,
           pc' = [pc EXCEPT ![c] = to], ready' = Append(ready, c),
           ops' = [ops EXCEPT ![c] = 0], UNCHANGED worker
    PROVE  Scheduled' /\ ready' \in Seq(Conns)
<1>1. c \notin ToSet(ready)
  BY DEF Scheduled
<1>2. /\ ready' \in Seq(Conns) /\ IsInjective(ready') /\ ToSet(ready') = ToSet(ready) \cup {c}
  BY <1>1, AppendOnce DEF TypeOK, Scheduled
<1>3. ToSet(ready') = {d \in Conns : pc'[d] \in Due}
  BY <1>2 DEF TypeOK, Scheduled
<1>4. \A d \in Conns : ops'[d] = IF pc'[d] \in {"reading", "writing"} THEN 1 ELSE 0
  BY DEF TypeOK, Scheduled, Due
<1>5. \A w \in Workers : worker'[w] # Idle => pc'[worker'[w]] \in Handling
  BY DEF TypeOK, Scheduled
<1> QED BY <1>2, <1>3, <1>4, <1>5 DEF Scheduled

\* A handler goes on.
LEMMA GoingOnSchedules ==
    ASSUME TypeOK, Scheduled, NEW c \in Conns, NEW to \in Handling, pc[c] \in Handling,
           pc' = [pc EXCEPT ![c] = to], UNCHANGED <<ready, ops, worker>>
    PROVE  Scheduled'
<1>1. {d \in Conns : pc'[d] \in Due} = {d \in Conns : pc[d] \in Due}
  BY DEF TypeOK, Due, Handling
<1>2. \A d \in Conns : ops'[d] = IF pc'[d] \in {"reading", "writing"} THEN 1 ELSE 0
  BY DEF TypeOK, Scheduled, Handling
<1>3. \A w \in Workers : worker'[w] # Idle => pc'[worker'[w]] \in Handling
  BY DEF TypeOK, Scheduled
<1> QED BY <1>1, <1>2, <1>3 DEF Scheduled

\* The handler of worker w, for connection c, answers the connections in A,
\* parked ones and perhaps c, which is parked otherwise, and returns.
Returns(w, c, A) ==
    /\ A \subseteq {d \in Conns : d = c \/ pc[d] = "parked"}
    /\ pc' = [d \in Conns |-> IF d \in A THEN "writing" ELSE IF d = c THEN "parked" ELSE pc[d]]
    /\ ops' = [d \in Conns |-> IF d \in A THEN ops[d] + 1 ELSE ops[d]]
    /\ worker' = [worker EXCEPT ![w] = Idle]

\* A handler that returns leaves its worker to others.
LEMMA ReturnSchedules ==
    ASSUME TypeOK, Scheduled, NEW w \in Workers, NEW A, worker[w] # Idle,
           Returns(w, worker[w], A), UNCHANGED ready
    PROVE  Scheduled'
<1> DEFINE c == worker[w]
<1>1. c \in Conns /\ pc[c] \in Handling
  BY DEF TypeOK, Scheduled
<1>2. \A d \in A : d \in Conns /\ (d = c \/ pc[d] = "parked")
  BY DEF Returns
<1>3. {d \in Conns : pc'[d] \in Due} = {d \in Conns : pc[d] \in Due}
  BY <1>1, <1>2 DEF Returns, Due, Handling
<1>4. \A d \in Conns : ops'[d] = IF pc'[d] \in {"reading", "writing"} THEN 1 ELSE 0
  BY <1>1, <1>2 DEF Returns, Scheduled, Handling
<1>5. ASSUME NEW v \in Workers, worker'[v] # Idle PROVE pc'[worker'[v]] \in Handling
  <2>1. v # w /\ worker'[v] = worker[v] /\ worker[v] # c
    BY <1>5 DEF Returns, TypeOK, Scheduled
  <2>2. pc[worker[v]] \in Handling /\ worker[v] \in Conns
    BY <1>5, <2>1 DEF TypeOK, Scheduled
  <2>3. worker[v] \notin A
    BY <1>2, <2>1, <2>2 DEF Handling
  <2>4. pc'[worker[v]] = pc[worker[v]]
    BY <2>1, <2>2, <2>3 DEF Returns
  <2> QED BY <2>1, <2>2, <2>4
<1>6. \A u, v \in Workers : worker'[u] = worker'[v] => u = v \/ worker'[u] = Idle
  BY DEF Returns, TypeOK, Scheduled
<1> QED BY <1>3, <1>4, <1>5, <1>6 DEF Scheduled

\* A worker takes a connection that is due.
LEMMA DispatchSchedules ==
    ASSUME TypeOK, Scheduled, NEW w \in Workers, Dispatch(w)
    PROVE  Scheduled' /\ TypeOK'
<1> DEFINE c == Head(ready)
<1>1. /\ worker[w] = Idle /\ ready # <<>> /\ ready' = Tail(ready)
      /\ UNCHANGED <<accepting, acting, drawn, qn, match, users, tokens, issued>>
  BY DEF Dispatch, accounts
<1>2. /\ c \in Conns /\ ready' \in Seq(Conns) /\ IsInjective(ready')
      /\ ToSet(ready') = ToSet(ready) \ {c} /\ c \in ToSet(ready)
  BY <1>1, TailOnce DEF TypeOK, Scheduled
<1>3. pc[c] \in Due /\ ops[c] = 0
  BY <1>2 DEF Scheduled, Due
<1>4. \A v \in Workers : worker[v] # c
  BY <1>2, <1>3, IdleAssumption DEF Scheduled, Due, Handling
<1> HIDE DEF c
<1>5. ASSUME NEW to \in PC \ Due, pc' = [pc EXCEPT ![c] = to]
      PROVE  ToSet(ready') = {d \in Conns : pc'[d] \in Due} /\ pc' \in [Conns -> PC]
  BY <1>2, <1>5 DEF TypeOK, Scheduled
<1>6. CASE /\ pc' = [pc EXCEPT ![c] = "reading"] /\ ops' = [ops EXCEPT ![c] = @ + 1]
           /\ request' = [request EXCEPT ![c] = None] /\ UNCHANGED worker
  <2>1. "reading" \in PC \ Due
    BY DEF PC, Due
  <2>2. \A d \in Conns : ops'[d] = IF pc'[d] \in {"reading", "writing"} THEN 1 ELSE 0
    BY <1>2, <1>3, <1>6 DEF TypeOK, Scheduled
  <2>3. \A v \in Workers : worker'[v] # Idle => pc'[worker'[v]] \in Handling
    BY <1>4, <1>6 DEF TypeOK, Scheduled
  <2>4. ops' \in [Conns -> Nat] /\ request' \in [Conns -> Requests \cup {None}]
    BY <1>2, <1>6 DEF TypeOK
  <2>5. TypeOK'
    BY <1>1, <1>2, <1>5, <1>6, <2>1, <2>4 DEF TypeOK
  <2>6. Scheduled'
    BY <1>2, <1>5, <1>6, <2>1, <2>2, <2>3 DEF Scheduled
  <2> QED BY <2>5, <2>6
<1>7. CASE /\ pc' = [pc EXCEPT ![c] = "closed"] /\ request' = [request EXCEPT ![c] = None]
           /\ UNCHANGED <<worker, ops>>
  <2>1. "closed" \in PC \ Due
    BY DEF PC, Due
  <2>2. \A d \in Conns : ops'[d] = IF pc'[d] \in {"reading", "writing"} THEN 1 ELSE 0
    BY <1>2, <1>3, <1>7 DEF TypeOK, Scheduled
  <2>3. \A v \in Workers : worker'[v] # Idle => pc'[worker'[v]] \in Handling
    BY <1>4, <1>7 DEF TypeOK, Scheduled
  <2>4. request' \in [Conns -> Requests \cup {None}]
    BY <1>7 DEF TypeOK
  <2> QED BY <1>1, <1>2, <1>5, <1>7, <2>1, <2>2, <2>3, <2>4 DEF TypeOK, Scheduled
<1>8. CASE /\ pc' = [pc EXCEPT ![c] = "handle"] /\ worker' = [worker EXCEPT ![w] = c]
           /\ UNCHANGED <<ops, request>>
  <2>1. "handle" \in PC \ Due /\ "handle" \in Handling
    BY DEF PC, Due, Handling
  <2>2. \A d \in Conns : ops'[d] = IF pc'[d] \in {"reading", "writing"} THEN 1 ELSE 0
    BY <1>2, <1>3, <1>8 DEF TypeOK, Scheduled
  <2>3. \A v \in Workers : worker'[v] # Idle => pc'[worker'[v]] \in Handling
    BY <1>2, <1>4, <1>8, <2>1 DEF TypeOK, Scheduled
  <2>4. \A u, v \in Workers : worker'[u] = worker'[v] => u = v \/ worker'[u] = Idle
    BY <1>4, <1>8 DEF TypeOK, Scheduled
  <2>5. worker' \in [Workers -> Conns \cup {Idle}]
    BY <1>2, <1>8 DEF TypeOK
  <2> QED BY <1>1, <1>2, <1>5, <1>8, <2>1, <2>2, <2>3, <2>4, <2>5 DEF TypeOK, Scheduled
<1> QED BY <1>6, <1>7, <1>8 DEF Dispatch, c

-----------------------------------------------------------------------------
(* The owners of tokens and polls.                                          *)

\* A connection that has no request that is handled.
Outside == PC \ ({"parked"} \cup Handling)

\* What the network does, and a worker that starts: a request comes with a
\* token its client holds, and keeps it.
LEMMA OutsideKeeps ==
    ASSUME ServerInv, NEW c \in Conns, NEW to \in Outside \cup {"handle"},
           NEW req \in Requests \cup {None},
           pc[c] \in Outside, pc' = [pc EXCEPT ![c] = to], request' = [request EXCEPT ![c] = req],
           UNCHANGED <<acting, drawn, qn, tokens, issued>>,
           to \in {"arrived", "handle"} => req \in Requests /\ Holds(req.token)
    PROVE  Requested' /\ Drawn' /\ Issued' /\ ActsAsOwner' /\ ParkedIsSubscribed'
<1> USE DEF ServerInv
<1>1. /\ \A d \in Conns \ {c} : pc'[d] = pc[d] /\ request'[d] = request[d]
      /\ pc'[c] = to /\ request'[c] = req
  BY DEF TypeOK
<1>2. Requested'
  BY <1>1 DEF Requested, Outside, Handling
<1>3. Drawn'
  <2>1. \A d \in Conns : pc'[d] \in {"store", "check"} =>
                            d # c /\ pc[d] = pc'[d] /\ request'[d] = request[d]
    BY <1>1 DEF Outside, Handling
  <2>2. \A d \in Conns : drawn[d] # None => d # c
    BY DEF Drawn, Outside, Handling
  <2> QED BY <1>1, <2>1, <2>2 DEF Drawn
<1>4. Issued'
  <2>1. ASSUME NEW d \in Conns, pc'[d] \in {"arrived", "handle"} PROVE Holds(request'[d].token)
    BY <1>1, <2>1 DEF Issued
  <2> QED BY <2>1 DEF Issued, Holds
<1>5. ActsAsOwner'
  <2>1. \A d \in Conns : pc'[d] \in {"function", "timer", "played", "parked"} =>
                            d # c /\ pc[d] = pc'[d] /\ request'[d] = request[d]
    BY <1>1 DEF Outside, Handling
  <2> QED BY <2>1 DEF ActsAsOwner
<1>6. ParkedIsSubscribed'
  BY <1>1 DEF ParkedIsSubscribed, Outside, Handling
<1> QED BY <1>2, <1>3, <1>4, <1>5, <1>6

\* A handler that returns leaves the tokens, but for one it may have sent to
\* the user Redis has for it, and the polls of those it did not answer.
LeavesOthers(c, A) ==
    /\ c \notin A => pc[c] = "function"
    /\ UNCHANGED <<request, tokens>>
    /\ \A d \in Conns : pc'[d] # "writing" => acting'[d] = acting[d]
    /\ drawn' = [drawn EXCEPT ![c] = None]
    /\ \A t \in Tokens : \/ issued'[t] = issued[t]
                         \/ issued'[t] = issued[t] \cup {tokens[t]} /\ tokens[t] # None
    /\ qn' \in QueueData
    /\ \A v \in Users, d \in Conns :
          qn'.responser[v] = d <=> /\ d \notin A
                                   /\ \/ d = c /\ acting[d] = v
                                      \/ d # c /\ qn.responser[v] = d

\* So each token, and each poll, stays its owner's.
LEMMA ReturnKeeps ==
    ASSUME ServerInv, NEW w \in Workers, worker[w] # Idle, NEW A, Returns(w, worker[w], A),
           LeavesOthers(worker[w], A)
    PROVE  Requested' /\ Drawn' /\ Issued' /\ ActsAsOwner' /\ ParkedIsSubscribed'
<1> DEFINE c == worker[w]
<1> USE DEF ServerInv, LeavesOthers
<1>1. c \in Conns /\ pc[c] \in Handling
  BY DEF TypeOK, Scheduled
<1>2. \A d \in A : d \in Conns /\ (d = c \/ pc[d] = "parked")
  BY DEF Returns
<1>3. /\ \A d \in A : pc'[d] = "writing"
      /\ c \notin A => pc'[c] = "parked"
      /\ \A d \in Conns \ A : d # c => pc'[d] = pc[d]
  BY <1>1, <1>2 DEF Returns
<1>4. /\ \A d \in Conns \ {c} : drawn'[d] = drawn[d]
      /\ drawn'[c] = None
  BY <1>1 DEF TypeOK
<1> HIDE DEF c
<1>5. Requested'
  <2>1. \A d \in Conns : pc'[d] \in {"arrived", "parked"} \cup Handling =>
                            pc[d] \in {"arrived", "parked"} \cup Handling
    BY <1>1, <1>3 DEF Handling
  <2> QED BY <2>1 DEF Requested
<1>6. Drawn'
  <2>1. \A d \in Conns : pc'[d] \in {"store", "check"} <=> d # c /\ pc[d] \in {"store", "check"}
    BY <1>1, <1>2, <1>3
  <2>2. \A d \in Conns : pc'[d] \in {"store", "check"} => pc'[d] = pc[d]
    BY <1>1, <1>2, <1>3
  <2> QED BY <1>1, <1>4, <2>1, <2>2 DEF Drawn
<1>7. Issued'
  <2>1. \A d \in Conns : pc'[d] \in {"arrived", "handle"} => pc[d] = pc'[d]
    BY <1>1, <1>3
  <2>2. \A t \in Tokens : issued[t] # {} => issued'[t] # {}
    OBVIOUS
  <2>3. \A t \in Tokens : issued'[t] # {} => tokens[t] # None /\ issued'[t] = {tokens[t]}
    BY DEF Issued
  <2> QED BY <2>1, <2>2, <2>3 DEF Issued, Holds
<1>8. ActsAsOwner'
  <2>1. \A d \in Conns : pc'[d] \in {"function", "timer", "played", "parked"} =>
           /\ pc[d] \in {"function", "timer", "played", "parked"}
           /\ acting'[d] = acting[d]
    BY <1>1, <1>3 DEF c
  <2>2. \A t \in Tokens : \A u : issued[t] = {u} => issued'[t] = {u}
    BY DEF Issued
  <2>3. ASSUME NEW d \in Conns, pc'[d] \in {"function", "timer", "played", "parked"},
               request'[d].path \in Protected
        PROVE  request'[d].token \in Tokens /\ issued'[request'[d].token] = {acting'[d]}
    <3>1. request'[d] = request[d]
      OBVIOUS
    <3>2. request[d].token \in Tokens /\ issued[request[d].token] = {acting[d]}
      BY <2>1, <2>3, <3>1 DEF ActsAsOwner
    <3> QED BY <2>1, <2>2, <2>3, <3>1, <3>2
  <2> QED BY <2>3 DEF ActsAsOwner
<1>9. ParkedIsSubscribed'
  <2>1. ASSUME NEW d \in Conns, NEW v \in Users
        PROVE  qn'.responser[v] = d <=> pc'[d] = "parked" /\ acting'[d] = v
    <3>1. CASE d \in A
      BY <1>3, <3>1
    <3>2. CASE d = c /\ d \notin A
      BY <1>3, <3>2 DEF c
    <3>3. CASE d # c /\ d \notin A
      BY <1>3, <3>3 DEF c, ParkedIsSubscribed
    <3> QED BY <3>1, <3>2, <3>3
  <2> QED BY <2>1 DEF ParkedIsSubscribed
<1> QED BY <1>5, <1>6, <1>7, <1>8, <1>9

-----------------------------------------------------------------------------
(* The steps.                                                               *)

\* A completion becomes due, perhaps with a request that came.
LEMMA CompletionKeeps ==
    ASSUME ServerInv, NEW c \in Conns, NEW to \in Due, NEW req \in Requests \cup {None},
           pc[c] \in {"closed", "reading", "writing"},
           pc' = [pc EXCEPT ![c] = to], ops' = [ops EXCEPT ![c] = 0],
           ready' = Append(ready, c), request' = [request EXCEPT ![c] = req],
           to = "arrived" => req \in Requests /\ Holds(req.token),
           accepting' \in BOOLEAN,
           UNCHANGED <<worker, acting, drawn, qn, match, users, tokens, issued>>
    PROVE  ServerInv'
<1>1. pc[c] \notin Due \cup Handling /\ pc[c] \in Outside
  BY DEF Due, Handling, Outside, PC
<1>2. Scheduled' /\ ready' \in Seq(Conns)
  BY <1>1, DueSchedules DEF ServerInv
<1>3. to \in Outside \cup {"handle"} /\ to \in PC /\ to # "handle"
  BY DEF Due, Handling, Outside, PC
<1>4. Requested' /\ Drawn' /\ Issued' /\ ActsAsOwner' /\ ParkedIsSubscribed'
  BY <1>1, <1>3, OutsideKeeps
<1>5. TypeOK'
  <2>1. TypeOK
    BY DEF ServerInv
  <2>2. pc' \in [Conns -> PC] /\ ops' \in [Conns -> Nat]
    BY <1>3, <2>1 DEF TypeOK
  <2>3. request' \in [Conns -> Requests \cup {None}]
    BY <2>1 DEF TypeOK
  <2> QED BY <1>2, <2>1, <2>2, <2>3 DEF TypeOK
<1> QED BY <1>2, <1>4, <1>5 DEF ServerInv

\* An accept, a read or a write ends.
LEMMA NetworkKeeps ==
    ASSUME ServerInv, NEW c \in Conns,
           Connect(c) \/ EndOfStream(c) \/ Written(c) \/ \E r \in Requests : SendRequest(c, r)
    PROVE  ServerInv'
<1> USE DEF ServerInv
<1>1. request = [request EXCEPT ![c] = request[c]] /\ request[c] \in Requests \cup {None}
  BY DEF TypeOK
<1>2. /\ pc[c] = "closed" => ops = [ops EXCEPT ![c] = 0]
      /\ pc[c] \in {"reading", "writing"} => [ops EXCEPT ![c] = @ - 1] = [ops EXCEPT ![c] = 0]
  <2>1. /\ pc[c] = "closed" => ops[c] = 0
        /\ pc[c] \in {"reading", "writing"} => ops[c] = 1
    BY DEF Scheduled
  <2>2. ops \in [Conns -> Nat]
    BY DEF TypeOK
  <2>3. CASE pc[c] = "closed"
    BY <2>1, <2>2, <2>3
  <2>4. CASE pc[c] \in {"reading", "writing"}
    <3>1. ops[c] - 1 = 0
      BY <2>1, <2>4
    <3> QED BY <2>4, <3>1
  <2> QED BY <2>3, <2>4
<1>3. accepting \in BOOLEAN
  BY DEF TypeOK
<1>4. CASE Connect(c)
  <2>1. CASE pc' = [pc EXCEPT ![c] = "accepted"] /\ ready' = Append(ready, c) /\ UNCHANGED accepting
    <3>1. /\ pc[c] = "closed" /\ "accepted" \in Due /\ "accepted" # "arrived"
          /\ UNCHANGED <<worker, ops, request, acting, drawn, qn, match, users, tokens, issued>>
      BY <1>4 DEF Connect, accounts, Due
    <3>2. request' = [request EXCEPT ![c] = request[c]] /\ ops' = [ops EXCEPT ![c] = 0]
      BY <1>1, <1>2, <3>1
    <3> QED BY <1>1, <1>3, <2>1, <3>1, <3>2, CompletionKeeps
  <2>2. CASE accepting' = FALSE /\ UNCHANGED <<pc, ready>>
    <3>1. UNCHANGED <<ready, worker, pc, ops, request, acting, drawn, qn, match, users, tokens, issued>>
      BY <1>4, <2>2 DEF Connect, accounts
    <3>2. TypeOK'
      BY <2>2, <3>1 DEF TypeOK
    <3>3. Scheduled' /\ Requested' /\ Drawn' /\ Issued' /\ ActsAsOwner' /\ ParkedIsSubscribed'
      BY <3>1 DEF Scheduled, Requested, Drawn, Issued, Holds, ActsAsOwner, ParkedIsSubscribed
    <3> QED BY <3>2, <3>3
  <2> QED BY <1>4, <2>1, <2>2 DEF Connect
<1>5. CASE EndOfStream(c)
  <2>1. /\ pc[c] = "reading" /\ "end" \in Due /\ "end" # "arrived"
        /\ pc' = [pc EXCEPT ![c] = "end"] /\ ops' = [ops EXCEPT ![c] = @ - 1]
        /\ ready' = Append(ready, c)
        /\ UNCHANGED <<accepting, worker, request, acting, drawn, qn, match, users, tokens, issued>>
    BY <1>5 DEF EndOfStream, Completes, accounts, Due
  <2>2. request' = [request EXCEPT ![c] = request[c]] /\ ops' = [ops EXCEPT ![c] = 0]
    BY <1>1, <1>2, <2>1
  <2> QED BY <1>1, <1>3, <2>1, <2>2, CompletionKeeps
<1>6. CASE Written(c)
  <2>1. PICK to \in {"written", "last"} : Completes(c, to)
    BY <1>6 DEF Written
  <2>2. /\ pc[c] = "writing" /\ to \in Due /\ to # "arrived"
        /\ pc' = [pc EXCEPT ![c] = to] /\ ops' = [ops EXCEPT ![c] = @ - 1]
        /\ ready' = Append(ready, c)
        /\ UNCHANGED <<accepting, worker, request, acting, drawn, qn, match, users, tokens, issued>>
    BY <1>6, <2>1 DEF Written, Completes, accounts, Due
  <2>3. request' = [request EXCEPT ![c] = request[c]] /\ ops' = [ops EXCEPT ![c] = 0]
    BY <1>1, <1>2, <2>2
  <2> QED BY <1>1, <1>3, <2>2, <2>3, CompletionKeeps
<1>7. ASSUME NEW r \in Requests, SendRequest(c, r) PROVE ServerInv'
  <2>1. /\ pc[c] = "reading" /\ "arrived" \in Due /\ Holds(r.token)
        /\ pc' = [pc EXCEPT ![c] = "arrived"] /\ ops' = [ops EXCEPT ![c] = @ - 1]
        /\ ready' = Append(ready, c) /\ request' = [request EXCEPT ![c] = r]
        /\ UNCHANGED <<accepting, worker, acting, drawn, qn, match, users, tokens, issued>>
    BY <1>7 DEF SendRequest, Completes, accounts, Due
  <2>2. ops' = [ops EXCEPT ![c] = 0] /\ pc[c] \in {"closed", "reading", "writing"}
    BY <1>2, <2>1
  <2> QED BY <1>3, <2>1, <2>2, CompletionKeeps
<1> QED BY <1>4, <1>5, <1>6, <1>7

\* A worker starts with a connection.
LEMMA DispatchKeeps ==
    ASSUME ServerInv, NEW w \in Workers, Dispatch(w)
    PROVE  ServerInv'
<1> DEFINE c == Head(ready)
<1> USE DEF ServerInv
<1>1. TypeOK' /\ Scheduled'
  BY DispatchSchedules
<1>2. c \in Conns
  BY TailOnce DEF Dispatch, TypeOK, Scheduled
<1>3. UNCHANGED <<acting, drawn, qn, tokens, issued>>
  BY DEF Dispatch, accounts
<1>4. request = [request EXCEPT ![c] = request[c]] /\ request[c] \in Requests \cup {None}
  BY <1>2 DEF TypeOK
<1>5. PICK to \in {"reading", "closed", "handle"}, req \in Requests \cup {None} :
         /\ pc' = [pc EXCEPT ![c] = to] /\ request' = [request EXCEPT ![c] = req]
         /\ pc[c] \in Outside
         /\ to = "handle" => pc[c] = "arrived" /\ req = request[c]
  <2>1. CASE /\ pc[c] \in {"accepted", "written"}
             /\ pc' = [pc EXCEPT ![c] = "reading"] /\ request' = [request EXCEPT ![c] = None]
    BY <2>1 DEF Outside, Handling, PC, Due
  <2>2. CASE /\ pc[c] \in {"end", "last"}
             /\ pc' = [pc EXCEPT ![c] = "closed"] /\ request' = [request EXCEPT ![c] = None]
    BY <2>2 DEF Outside, Handling, PC, Due
  <2>3. CASE /\ pc[c] = "arrived"
             /\ pc' = [pc EXCEPT ![c] = "handle"] /\ UNCHANGED request
    BY <1>4, <2>3 DEF Outside, Handling, PC, Due
  <2> QED BY <2>1, <2>2, <2>3 DEF Dispatch
<1> HIDE DEF c
<1>6. to \in {"arrived", "handle"} => req \in Requests /\ Holds(req.token)
  BY <1>2, <1>5 DEF Requested, Issued
<1>7. to \in Outside \cup {"handle"}
  BY DEF Outside, Handling, PC, Due
<1>8. Requested' /\ Drawn' /\ Issued' /\ ActsAsOwner' /\ ParkedIsSubscribed'
  BY <1>2, <1>3, <1>5, <1>6, <1>7, OutsideKeeps
<1> QED BY <1>1, <1>8

\* A function that answers its own request and returns.
LEMMA ReplyKeeps ==
    ASSUME ServerInv, NEW w \in Workers, worker[w] # Idle, Reply(w, worker[w]),
           UNCHANGED <<accepting, ready, request, qn, tokens>>,
           match' \in Conns \cup {None}, users' \in [Users -> Passwords \cup {None}],
           issued' \in [Tokens -> SUBSET Users],
           \A t \in Tokens : \/ issued'[t] = issued[t]
                             \/ issued'[t] = issued[t] \cup {tokens[t]} /\ tokens[t] # None
    PROVE  ServerInv'
<1> DEFINE c == worker[w]
<1> USE DEF ServerInv
<1>1. c \in Conns /\ pc[c] \in Handling
  BY DEF TypeOK, Scheduled
<1>2. /\ Write({[conn |-> c]}, pc) /\ worker' = [worker EXCEPT ![w] = Idle]
      /\ acting' = [acting EXCEPT ![c] = None] /\ drawn' = [drawn EXCEPT ![c] = None]
  BY DEF Reply, Free
<1> HIDE DEF c
<1>3. {d \in Conns : (\E a \in {[conn |-> c]} : a.conn = d) /\ pc[d] # "closed"} = {c}
  BY <1>1 DEF Handling
<1>4. Returns(w, c, {c})
  <2>1. /\ pc' = [d \in Conns |-> IF d \in {c} THEN "writing" ELSE pc[d]]
        /\ ops' = [d \in Conns |-> IF d \in {c} THEN ops[d] + 1 ELSE ops[d]]
    BY <1>2, <1>3 DEF Write
  <2>2. pc' = [d \in Conns |-> IF d \in {c} THEN "writing" ELSE IF d = c THEN "parked" ELSE pc[d]]
    BY <2>1
  <2> QED BY <1>1, <1>2, <2>1, <2>2 DEF Returns
<1>5. Scheduled'
  BY <1>4, ReturnSchedules DEF c
<1>6. /\ \A d \in Conns : pc'[d] # "writing" => acting'[d] = acting[d]
      /\ \A v \in Users, d \in Conns :
            qn'.responser[v] = d <=> d \notin {c} /\ \/ d = c /\ acting[d] = v
                                                     \/ d # c /\ qn.responser[v] = d
  <2>1. \A d \in Conns : pc'[d] # "writing" => acting'[d] = acting[d]
    BY <1>1, <1>2, <1>4 DEF Returns, TypeOK
  <2>2. \A v \in Users : qn.responser[v] # c
    BY <1>1 DEF ParkedIsSubscribed, Handling
  <2> QED BY <2>1, <2>2
<1>7. qn' \in QueueData
  BY DEF Requested
<1>8. Requested' /\ Drawn' /\ Issued' /\ ActsAsOwner' /\ ParkedIsSubscribed'
  <2>1. LeavesOthers(c, {c})
    BY <1>2, <1>6, <1>7 DEF LeavesOthers
  <2> HIDE DEF ServerInv
  <2> QED BY <1>4, <2>1, ReturnKeeps DEF c
<1>9. TypeOK'
  <2>1. pc' \in [Conns -> PC] /\ ops' \in [Conns -> Nat]
    BY <1>4 DEF Returns, PC, TypeOK
  <2>2. worker' \in [Workers -> Conns \cup {Idle}]
    BY <1>2 DEF TypeOK
  <2>3. acting' \in [Conns -> Users \cup {None}] /\ drawn' \in [Conns -> Tokens \cup {None}]
    BY <1>2 DEF TypeOK
  <2> QED BY <2>1, <2>2, <2>3 DEF TypeOK
<1> QED BY <1>5, <1>8, <1>9

\* The connections in A are answered by told and others, the handler's own and
\* parked ones; they have no poll afterwards, and the others keep theirs.
Answered(c, A, told, others) ==
    /\ A \in SUBSET {d \in Conns : d = c \/ pc[d] = "parked"}
    /\ \A d \in Conns : d \in A <=> \E a \in told.answers \cup others : a.conn = d
    /\ told.q \in QueueData
    /\ \A v \in Users, d \in Conns :
          told.q.responser[v] = d <=>
             /\ d \notin A
             /\ \/ d = c /\ acting[d] = v
                \/ d # c /\ qn.responser[v] = d

\* A function that has the queue notifier answer polls and returns.
LEMMA TellsKeeps ==
    ASSUME ServerInv, NEW w \in Workers, worker[w] # Idle, pc[worker[w]] = "function",
           NEW A, NEW told, NEW others, Answered(worker[w], A, told, others),
           Tells(w, worker[w], told, others),
           UNCHANGED <<accepting, ready, request, drawn, match, users, tokens, issued>>
    PROVE  ServerInv'
<1> DEFINE c == worker[w]
<1> USE DEF ServerInv, Answered
<1>1. c \in Conns
  BY DEF TypeOK
<1>2. /\ Write(told.answers \cup others, [pc EXCEPT ![c] = "parked"])
      /\ worker' = [worker EXCEPT ![w] = Idle] /\ qn' = told.q
      /\ acting' = [d \in Conns |-> IF pc'[d] = "writing" THEN None ELSE acting[d]]
  BY DEF Tells, Free
<1>3. {d \in Conns : (\E a \in told.answers \cup others : a.conn = d) /\ pc[d] # "closed"} = A
  OBVIOUS
<1> HIDE DEF c
<1>4. Returns(w, c, A)
  <2>1. /\ pc' = [d \in Conns |-> IF d \in A THEN "writing" ELSE [pc EXCEPT ![c] = "parked"][d]]
        /\ ops' = [d \in Conns |-> IF d \in A THEN ops[d] + 1 ELSE ops[d]]
    BY <1>2, <1>3 DEF Write
  <2>2. \A d \in Conns : [pc EXCEPT ![c] = "parked"][d] = IF d = c THEN "parked" ELSE pc[d]
    BY DEF TypeOK
  <2>3. pc' = [d \in Conns |-> IF d \in A THEN "writing" ELSE IF d = c THEN "parked" ELSE pc[d]]
    BY <2>1, <2>2
  <2> QED BY <1>2, <2>1, <2>3 DEF Returns, c
<1>5. Scheduled'
  BY <1>4, ReturnSchedules DEF c
<1>6. drawn' = [drawn EXCEPT ![c] = None]
  <2>1. drawn[c] = None
    BY <1>1 DEF Drawn, c
  <2> QED BY <1>1, <2>1 DEF TypeOK
<1>7. \A d \in Conns : pc'[d] # "writing" => acting'[d] = acting[d]
  BY <1>2
<1>8. Requested' /\ Drawn' /\ Issued' /\ ActsAsOwner' /\ ParkedIsSubscribed'
  <2>1. /\ qn' \in QueueData
        /\ \A v \in Users, d \in Conns :
              qn'.responser[v] = d <=>
                 /\ d \notin A
                 /\ \/ d = c /\ acting[d] = v
                    \/ d # c /\ qn.responser[v] = d
    BY <1>2 DEF c
  <2>2. LeavesOthers(c, A)
    BY <1>6, <1>7, <2>1 DEF LeavesOthers, c
  <2> HIDE DEF ServerInv
  <2> QED BY <1>4, <2>2, ReturnKeeps DEF c
<1>9. TypeOK'
  <2>1. pc' \in [Conns -> PC] /\ ops' \in [Conns -> Nat]
    BY <1>4 DEF Returns, PC, TypeOK
  <2>2. worker' \in [Workers -> Conns \cup {Idle}] /\ acting' \in [Conns -> Users \cup {None}]
    BY <1>2 DEF TypeOK
  <2>3. qn'.responser \in [Users -> Conns \cup {None}]
    BY <1>2 DEF QueueData
  <2> QED BY <2>1, <2>2, <2>3 DEF TypeOK
<1> QED BY <1>5, <1>8, <1>9

\* A handler that goes on keeps its request, and the others' users and polls.
LEMMA GoesOnKeeps ==
    ASSUME ServerInv, NEW c \in Conns, NEW to \in Handling, pc[c] \in Handling,
           pc' = [pc EXCEPT ![c] = to],
           UNCHANGED <<accepting, ready, ops, worker, request, qn, users, issued>>,
           acting' \in [Conns -> Users \cup {None}],
           \A d \in Conns \ {c} : acting'[d] = acting[d]
    PROVE  Scheduled' /\ Requested' /\ ParkedIsSubscribed' /\ pc' \in [Conns -> PC]
<1> USE DEF ServerInv
<1>1. Scheduled'
  BY GoingOnSchedules
<1>2. pc' \in [Conns -> PC] /\ pc'[c] = to /\ \A d \in Conns \ {c} : pc'[d] = pc[d]
  BY DEF TypeOK, PC
<1>3. Requested'
  BY <1>2 DEF Requested
<1>4. ParkedIsSubscribed'
  BY <1>2 DEF ParkedIsSubscribed, Handling
<1> QED BY <1>1, <1>2, <1>3, <1>4

\* The functions that answer at once, and the answer of a login and of a move.
LEMMA RepliesKeep ==
    ASSUME ServerInv, NEW w \in Workers, worker[w] # Idle, UNCHANGED <<accepting, ready>>,
           \/ HandleRequest(w, worker[w]) /\ Reply(w, worker[w])
           \/ ApiRegister(w, worker[w]) \/ Reading(w, worker[w]) \/ Check(w, worker[w])
           \/ ApiLogin(w, worker[w]) /\ Reply(w, worker[w])
           \/ ApiMove(w, worker[w]) /\ Reply(w, worker[w])
           \/ Played(w, worker[w])
    PROVE  ServerInv'
<1> DEFINE c == worker[w]
<1>1. TypeOK /\ Scheduled /\ Requested /\ Drawn
  BY DEF ServerInv
<1>2. c \in Conns /\ pc[c] \in Handling /\ request[c] \in Requests
  BY <1>1 DEF TypeOK, Scheduled, Requested
<1>3. request[c].login \in Users /\ request[c].password \in Passwords
  BY <1>2, RequestsAssumption
<1>4. /\ match \in Conns \cup {None} /\ users \in [Users -> Passwords \cup {None}]
      /\ tokens \in [Tokens -> Users \cup {None}] /\ issued \in [Tokens -> SUBSET Users]
  BY <1>1 DEF TypeOK
<1> HIDE DEF c
<1>5. ASSUME Reply(w, c), UNCHANGED <<request, qn, users, tokens, issued>>,
             match' \in Conns \cup {None}
      PROVE  ServerInv'
  BY <1>4, <1>5, ReplyKeeps DEF c
<1>6. CASE HandleRequest(w, c) /\ Reply(w, c)
  BY <1>4, <1>5, <1>6 DEF HandleRequest, accounts
<1>7. CASE Reading(w, c)
  BY <1>4, <1>5, <1>7 DEF Reading, accounts
<1>8. CASE ApiLogin(w, c) /\ Reply(w, c)
  BY <1>4, <1>5, <1>8 DEF ApiLogin, accounts
<1>9. CASE ApiMove(w, c) /\ Reply(w, c)
  BY <1>2, <1>4, <1>5, <1>9 DEF ApiMove, accounts
<1>10. CASE Played(w, c)
  BY <1>4, <1>5, <1>10 DEF Played, accounts
<1>11. CASE ApiRegister(w, c)
  <2>1. users' \in [Users -> Passwords \cup {None}]
    BY <1>3, <1>4, <1>11 DEF ApiRegister, AddLine
  <2>2. Reply(w, c) /\ UNCHANGED <<request, qn, match, tokens, issued>>
    BY <1>11 DEF ApiRegister
  <2> QED BY <1>4, <2>1, <2>2, ReplyKeeps DEF c
<1>12. CASE Check(w, c)
  <2>1. Reply(w, c) /\ UNCHANGED <<request, qn, match, users, tokens>>
    BY <1>12 DEF Check
  <2>2. drawn[c] \in Tokens /\ tokens[drawn[c]] = request[c].login
    BY <1>1, <1>2, <1>12 DEF Check, Drawn, TypeOK
  <2>3. issued' = [issued EXCEPT ![drawn[c]] = @ \cup {request[c].login}]
    BY <1>12, <2>2 DEF Check
  <2>4. request[c].login # None
    BY <1>3, IdleAssumption
  <2>5. issued' \in [Tokens -> SUBSET Users]
    BY <1>3, <1>4, <2>3
  <2>6. \A t \in Tokens : \/ issued'[t] = issued[t]
                          \/ issued'[t] = issued[t] \cup {tokens[t]} /\ tokens[t] # None
    BY <1>4, <2>2, <2>3, <2>4
  <2> QED BY <1>4, <2>1, <2>5, <2>6, ReplyKeeps DEF c
<1> QED BY <1>6, <1>7, <1>8, <1>9, <1>10, <1>11, <1>12 DEF c

\* Notify with a session id ends the user's poll.
LEMMA NotifyFoundFields ==
    ASSUME NEW q \in QueueData, NEW u \in Users
    PROVE  LET told == NotifyFound(q, u, 1)
           IN  /\ told.q \in QueueData
               /\ told.q.responser = [q.responser EXCEPT ![u] = None]
               /\ \A d \in Conns : (\E a \in told.answers : a.conn = d) <=> q.responser[u] = d
<1> DEFINE told == NotifyFound(q, u, 1)
<1>1. CASE q.responser[u] # None
  <2>1. /\ told.q = [q EXCEPT !.responser[u] = None]
        /\ told.answers = {[conn |-> q.responser[u], code |-> "ok", sid |-> 1]}
    BY <1>1 DEF NotifyFound, Told
  <2> HIDE DEF told
  <2>2. told.q \in QueueData /\ told.q.responser = [q.responser EXCEPT ![u] = None]
    BY <2>1 DEF QueueData
  <2>3. \A d \in Conns : (\E a \in told.answers : a.conn = d) <=> q.responser[u] = d
    BY <2>1
  <2> QED BY <2>2, <2>3 DEF told
<1>2. CASE q.responser[u] = None
  <2>1. /\ told.q = [q EXCEPT !.waiting[u] = IF @ = None THEN 1 ELSE @]
        /\ told.answers = {}
    BY <1>2 DEF NotifyFound, Told
  <2> HIDE DEF told
  <2>2. told.q \in QueueData /\ told.q.responser = q.responser
    BY <2>1 DEF QueueData
  <2>3. q.responser = [q.responser EXCEPT ![u] = None]
    BY <1>2 DEF QueueData
  <2>4. \A d \in Conns : ~(\E a \in told.answers : a.conn = d) /\ q.responser[u] # d
    BY <1>2, <2>1, NoneAssumption
  <2> QED BY <2>2, <2>3, <2>4 DEF told
<1> QED BY <1>1, <1>2

\* Subscribe closes the user's poll, and answers the new one or keeps it.
LEMMA SubscribePollFields ==
    ASSUME NEW q \in QueueData, NEW u \in Users, NEW c \in Conns
    PROVE  LET told == SubscribePoll(q, u, c)
               kept == q.waiting[u] # None
           IN  /\ told.q \in QueueData
               /\ told.q.responser = [q.responser EXCEPT ![u] = IF kept THEN None ELSE c]
               /\ \A d \in Conns : (\E a \in told.answers : a.conn = d)
                                      <=> q.responser[u] = d \/ (d = c /\ kept)
<1> DEFINE told == SubscribePoll(q, u, c)
           closed == IF q.responser[u] = None THEN {}
                     ELSE {[conn |-> q.responser[u], code |-> "poll_closed", sid |-> None]}
           open == [q EXCEPT !.responser[u] = c]
           found == NotifyFound(open, u, q.waiting[u])
<1>1. \A d \in Conns : (\E a \in closed : a.conn = d) <=> q.responser[u] = d
  <2>1. CASE q.responser[u] = None
    BY <2>1, NoneAssumption
  <2>2. CASE q.responser[u] # None
    <3>1. closed = {[conn |-> q.responser[u], code |-> "poll_closed", sid |-> None]}
      BY <2>2
    <3> HIDE DEF closed
    <3> QED BY <3>1
  <2> QED BY <2>1, <2>2
<1>2. open \in QueueData /\ open.responser = [q.responser EXCEPT ![u] = c] /\ open.waiting = q.waiting
  BY DEF QueueData
<1>3. CASE q.waiting[u] = None
  <2>1. told.q = open /\ told.answers = closed
    BY <1>3 DEF SubscribePoll, Told
  <2> HIDE DEF told, open, closed
  <2> QED BY <1>1, <1>2, <1>3, <2>1 DEF told
<1>4. CASE q.waiting[u] # None
  <2>1. /\ told.q = [found.q EXCEPT !.waiting[u] = None]
        /\ told.answers = closed \cup found.answers
    BY <1>4 DEF SubscribePoll, Told
  <2>2. q.waiting[u] = 1
    BY <1>4 DEF QueueData
  <2>3. /\ found.q \in QueueData
        /\ found.q.responser = [open.responser EXCEPT ![u] = None]
        /\ \A d \in Conns : (\E a \in found.answers : a.conn = d) <=> open.responser[u] = d
    <3>1. found = NotifyFound(open, u, 1)
      BY <2>2
    <3> HIDE DEF found, open
    <3>2. open \in QueueData
      BY <1>2
    <3>3. /\ NotifyFound(open, u, 1).q \in QueueData
          /\ NotifyFound(open, u, 1).q.responser = [open.responser EXCEPT ![u] = None]
          /\ \A d \in Conns : (\E a \in NotifyFound(open, u, 1).answers : a.conn = d)
                                 <=> open.responser[u] = d
      BY <3>2, NotifyFoundFields
    <3> QED BY <3>1, <3>3
  <2> HIDE DEF told, open, closed, found
  <2>4. open.responser[u] = c
    BY <1>2 DEF QueueData
  <2>5. [open.responser EXCEPT ![u] = None] = [q.responser EXCEPT ![u] = None]
    BY <1>2 DEF QueueData
  <2>6. told.q \in QueueData /\ told.q.responser = found.q.responser
    BY <2>1, <2>3 DEF QueueData
  <2>7. \A d \in Conns : (\E a \in told.answers : a.conn = d) <=> q.responser[u] = d \/ d = c
    BY <1>1, <2>1, <2>3, <2>4
  <2> QED BY <1>4, <2>3, <2>5, <2>6, <2>7 DEF told
<1> QED BY <1>3, <1>4

\* wait_for_opponent parks its connection as its user's poll.
LEMMA WaitKeeps ==
    ASSUME ServerInv, NEW w \in Workers, worker[w] # Idle, UNCHANGED <<accepting, ready>>,
           ApiWaitForOpponent(w, worker[w])
    PROVE  ServerInv'
<1> DEFINE c == worker[w]
           u == acting[c]
           told == SubscribePoll(qn, u, c)
           kept == qn.waiting[u] # None
           A == {d \in Conns : qn.responser[u] = d \/ (d = c /\ kept)}
<1>1. /\ c \in Conns /\ pc[c] = "function" /\ request[c].path = "wait_for_opponent"
      /\ qn \in QueueData /\ Tells(w, c, told, {})
      /\ UNCHANGED <<request, drawn, match, users, tokens, issued>>
  BY DEF ServerInv, TypeOK, Requested, ApiWaitForOpponent, Calls, accounts
<1>2. u \in Users
  <2>1. request[c].token \in Tokens /\ issued[request[c].token] = {u}
    BY <1>1 DEF ServerInv, ActsAsOwner, Protected
  <2>2. u \in issued[request[c].token] /\ issued[request[c].token] \in SUBSET Users
    BY <2>1 DEF ServerInv, TypeOK
  <2> QED BY <2>2
<1>3. \A d \in Conns, v \in Users : qn.responser[v] = d <=> pc[d] = "parked" /\ acting[d] = v
  BY DEF ServerInv, ParkedIsSubscribed
<1>4. /\ told.q \in QueueData
      /\ told.q.responser = [qn.responser EXCEPT ![u] = IF kept THEN None ELSE c]
      /\ \A d \in Conns : (\E a \in told.answers : a.conn = d)
                             <=> qn.responser[u] = d \/ (d = c /\ kept)
  BY <1>1, <1>2, SubscribePollFields
<1> HIDE DEF told, kept, c, u
<1>5. A \in SUBSET {d \in Conns : d = c \/ pc[d] = "parked"}
  BY <1>2, <1>3
<1>6. ASSUME NEW v \in Users, NEW d \in Conns
      PROVE  told.q.responser[v] = d <=>
                /\ d \notin A
                /\ \/ d = c /\ acting[d] = v
                   \/ d # c /\ qn.responser[v] = d
  <2>1. told.q.responser[v] = IF v = u THEN (IF kept THEN None ELSE c) ELSE qn.responser[v]
    BY <1>1, <1>4 DEF QueueData
  <2>2. \A x \in Users : qn.responser[x] # c
    BY <1>1, <1>3
  <2>3. CASE v = u
    BY <1>1, <1>2, <1>3, <2>1, <2>2, <2>3, NoneAssumption DEF u
  <2>4. CASE v # u
    BY <1>1, <1>2, <1>3, <2>1, <2>2, <2>4 DEF u
  <2> QED BY <2>3, <2>4
<1>7. \A d \in Conns : d \in A <=> \E a \in told.answers \cup {} : a.conn = d
  BY <1>4
<1> HIDE DEF A
<1>8. Answered(c, A, told, {})
  BY <1>4, <1>5, <1>6, <1>7 DEF Answered
<1> QED BY <1>1, <1>8, TellsKeeps DEF c

\* enqueue answers its own request and, when an opponent is found, the
\* opponent's poll.
LEMMA EnqueueKeeps ==
    ASSUME ServerInv, NEW w \in Workers, worker[w] # Idle, UNCHANGED <<accepting, ready>>,
           ApiEnqueue(w, worker[w])
    PROVE  ServerInv'
<1> DEFINE c == worker[w]
           others == {[conn |-> c]}
<1>1. /\ c \in Conns /\ pc[c] = "function" /\ qn \in QueueData
      /\ UNCHANGED <<request, drawn, match, users, tokens, issued>>
  BY DEF ServerInv, TypeOK, Requested, ApiEnqueue, Calls, accounts
<1>2. PICK told \in {Told(qn, {})} \cup {NotifyFound(qn, u, 1) : u \in Users} :
         Tells(w, c, told, others)
  BY DEF ApiEnqueue
<1>3. \A d \in Conns, v \in Users : qn.responser[v] = d <=> pc[d] = "parked" /\ acting[d] = v
  BY DEF ServerInv, ParkedIsSubscribed
<1> HIDE DEF c
<1>4. \A d \in Conns : (\E a \in others : a.conn = d) <=> d = c
  OBVIOUS
<1> HIDE DEF others
<1>5. \A v \in Users : qn.responser[v] # c
  BY <1>1, <1>3
<1>6. CASE told = Told(qn, {})
  <2>1. told.q = qn /\ told.answers = {}
    BY <1>6 DEF Told
  <2> DEFINE A == {c}
  <2>2. A \in SUBSET {d \in Conns : d = c \/ pc[d] = "parked"}
    BY <1>1
  <2>3. \A d \in Conns : d \in A <=> \E a \in told.answers \cup others : a.conn = d
    BY <1>4, <2>1
  <2>4. \A v \in Users, d \in Conns :
           told.q.responser[v] = d <=>
              /\ d \notin A
              /\ \/ d = c /\ acting[d] = v
                 \/ d # c /\ qn.responser[v] = d
    BY <1>5, <2>1
  <2>5. told.q \in QueueData
    BY <1>1, <2>1
  <2> HIDE DEF A
  <2>6. Answered(c, A, told, others)
    BY <2>2, <2>3, <2>4, <2>5 DEF Answered
  <2> QED BY <1>1, <1>2, <2>6, TellsKeeps DEF c
<1>7. ASSUME NEW u \in Users, told = NotifyFound(qn, u, 1) PROVE ServerInv'
  <2>1. /\ told.q \in QueueData
        /\ told.q.responser = [qn.responser EXCEPT ![u] = None]
        /\ \A d \in Conns : (\E a \in told.answers : a.conn = d) <=> qn.responser[u] = d
    BY <1>1, <1>7, NotifyFoundFields
  <2> DEFINE A == {d \in Conns : d = c \/ qn.responser[u] = d}
  <2>2. A \in SUBSET {d \in Conns : d = c \/ pc[d] = "parked"}
    BY <1>1, <1>3
  <2>3. \A d \in Conns : d \in A <=> \E a \in told.answers \cup others : a.conn = d
    BY <1>4, <2>1
  <2>4. ASSUME NEW v \in Users, NEW d \in Conns
        PROVE  told.q.responser[v] = d <=>
                  /\ d \notin A
                  /\ \/ d = c /\ acting[d] = v
                     \/ d # c /\ qn.responser[v] = d
    <3>1. told.q.responser[v] = IF v = u THEN None ELSE qn.responser[v]
      BY <1>1, <2>1 DEF QueueData
    <3> QED BY <1>3, <1>5, <3>1, NoneAssumption
  <2> HIDE DEF A
  <2>5. Answered(c, A, told, others)
    BY <2>1, <2>2, <2>3, <2>4 DEF Answered
  <2> QED BY <1>1, <1>2, <2>5, TellsKeeps DEF c
<1> QED BY <1>6, <1>7

\* A handler that goes on: a function is called for the owner of the token, a
\* login draws and stores a token, a move waits for its timer.
LEMMA GoingOnKeeps ==
    ASSUME ServerInv, NEW c \in Conns, pc[c] \in Handling,
           UNCHANGED <<accepting, ready, worker>>,
           \/ \E w \in Workers :
                 \/ HandleRequest(w, c) /\ GoesOn(w, c, "function")
                 \/ ApiLogin(w, c) /\ GoesOn(w, c, "store")
                 \/ Store(w, c)
                 \/ ApiMove(w, c) /\ GoesOn(w, c, "timer")
           \/ Timer(c)
    PROVE  ServerInv'
<1> USE DEF ServerInv
<1>1. /\ "function" \in Handling /\ "store" \in Handling /\ "check" \in Handling
      /\ "timer" \in Handling /\ "played" \in Handling
  BY DEF Handling
<1>2. ASSUME NEW w \in Workers, HandleRequest(w, c), GoesOn(w, c, "function") PROVE ServerInv'
  <2> DEFINE r == request[c]
             author == Executor[r.path].author
  <2>1. /\ pc[c] = "handle" /\ pc' = [pc EXCEPT ![c] = "function"]
        /\ UNCHANGED <<request, qn, match, users, tokens, issued>>
    BY <1>2 DEF HandleRequest, GoesOn, accounts
  <2>2. pc'[c] = "function"
    BY <2>1 DEF TypeOK
  <2>3. /\ Handle(r, Known) = "ok" /\ UNCHANGED <<ops, drawn>>
        /\ acting' = [acting EXCEPT ![c] = IF author THEN tokens[r.token] ELSE None]
    <3>1. \/ Reply(w, c)
          \/ /\ Handle(r, Known) = "ok" /\ UNCHANGED <<ops, drawn>>
             /\ acting' = [acting EXCEPT ![c] = IF author THEN tokens[r.token] ELSE None]
      BY <1>2 DEF HandleRequest, HandleApiError
    <3>2. ~Reply(w, c)
      <4>1. c \in {d \in Conns : (\E a \in {[conn |-> c]} : a.conn = d) /\ pc[d] # "closed"}
        BY <2>1
      <4>2. Reply(w, c) => pc'[c] = "writing"
        BY <4>1 DEF Reply, Write
      <4> QED BY <2>2, <4>2
    <3> QED BY <3>1, <3>2
  <2>4. author => r.token \in Known
    BY <2>3 DEF Handle, Execute, MatchAuthorization
  <2>5. \A t \in Known : t \in Tokens /\ tokens[t] \in Users
    BY DEF Known, TypeOK
  <2>6. acting' \in [Conns -> Users \cup {None}]
    BY <2>3, <2>4, <2>5 DEF TypeOK
  <2>7. Scheduled' /\ Requested' /\ ParkedIsSubscribed' /\ pc' \in [Conns -> PC]
    BY <1>1, <2>1, <2>3, <2>6, GoesOnKeeps DEF TypeOK
  <2>8. TypeOK'
    BY <2>1, <2>3, <2>6, <2>7 DEF TypeOK
  <2>9. Drawn' /\ Issued'
    BY <2>1, <2>3 DEF TypeOK, Drawn, Issued, Holds
  <2>10. ASSUME author PROVE r.token \in Tokens /\ issued[r.token] = {acting'[c]}
    <3>1. r.token \in Tokens /\ acting'[c] = tokens[r.token]
      BY <2>3, <2>4, <2>5, <2>10 DEF TypeOK
    <3>2. issued[r.token] # {}
      BY <2>1, <3>1 DEF Issued, Holds
    <3> QED BY <3>1, <3>2 DEF Issued
  <2>11. ActsAsOwner'
    <3>1. r.path \in Protected => author
      BY ProtectedAssumption
    <3>2. \A d \in Conns \ {c} : pc'[d] = pc[d] /\ acting'[d] = acting[d]
      BY <2>1, <2>3 DEF TypeOK
    <3> HIDE DEF author
    <3> QED BY <2>1, <2>10, <3>1, <3>2 DEF ActsAsOwner
  <2> QED BY <2>7, <2>8, <2>9, <2>11
<1>3. ASSUME NEW w \in Workers, ApiLogin(w, c), GoesOn(w, c, "store") PROVE ServerInv'
  <2>1. /\ pc[c] = "function" /\ request[c].path = "login" /\ pc' = [pc EXCEPT ![c] = "store"]
        /\ UNCHANGED <<request, qn, match, users, tokens, issued>>
    BY <1>3 DEF ApiLogin, Calls, GoesOn, accounts
  <2>2. pc'[c] = "store"
    BY <2>1 DEF TypeOK
  <2>3. \E t \in Draw(c) : drawn' = [drawn EXCEPT ![c] = t] /\ UNCHANGED <<ops, acting>>
    <3>1. c \in {d \in Conns : (\E a \in {[conn |-> c]} : a.conn = d) /\ pc[d] # "closed"}
      BY <2>1
    <3>2. Reply(w, c) => pc'[c] = "writing"
      BY <3>1 DEF Reply, Write
    <3> QED BY <1>3, <2>2, <3>2 DEF ApiLogin
  <2>4. PICK t \in Draw(c) : drawn' = [drawn EXCEPT ![c] = t]
    BY <2>3
  <2>5. /\ t \in Tokens /\ tokens[t] = None /\ t # None /\ \A o \in Conns \ {c} : drawn[o] # t
        /\ UNCHANGED <<ops, acting>>
    BY <2>3, IdleAssumption DEF Draw
  <2>6. Scheduled' /\ Requested' /\ ParkedIsSubscribed' /\ pc' \in [Conns -> PC]
    BY <1>1, <2>1, <2>5, GoesOnKeeps DEF TypeOK
  <2>7. TypeOK'
    BY <2>1, <2>4, <2>5, <2>6 DEF TypeOK
  <2>8. drawn'[c] = t /\ \A d \in Conns \ {c} : drawn'[d] = drawn[d] /\ pc'[d] = pc[d]
    BY <2>1, <2>4 DEF TypeOK
  <2>9. Drawn'
    BY <2>1, <2>2, <2>5, <2>8 DEF Drawn
  <2>10. Issued'
    BY <2>1, <2>2, <2>8 DEF Issued, Holds
  <2>11. ActsAsOwner'
    BY <2>1, <2>2, <2>5, <2>8 DEF ActsAsOwner
  <2> QED BY <2>6, <2>7, <2>9, <2>10, <2>11
<1>4. ASSUME NEW w \in Workers, Store(w, c) PROVE ServerInv'
  <2>1. /\ pc[c] = "store" /\ pc' = [pc EXCEPT ![c] = "check"]
        /\ tokens' = [tokens EXCEPT ![drawn[c]] = request[c].login]
        /\ UNCHANGED <<ops, request, acting, drawn, qn, match, users, issued>>
    BY <1>4 DEF Store, GoesOn
  <2>2. pc'[c] = "check" /\ \A d \in Conns \ {c} : pc'[d] = pc[d]
    BY <2>1 DEF TypeOK
  <2>3. Scheduled' /\ Requested' /\ ParkedIsSubscribed' /\ pc' \in [Conns -> PC]
    BY <1>1, <2>1, GoesOnKeeps DEF TypeOK
  <2>4. request[c].login \in Users
    BY <2>1, RequestsAssumption DEF Requested, Handling
  <2>5. drawn[c] \in Tokens /\ tokens[drawn[c]] = None
    BY <2>1 DEF Drawn, TypeOK
  <2>6. TypeOK'
    BY <2>1, <2>3, <2>4 DEF TypeOK
  <2>7. tokens'[drawn[c]] = request[c].login /\ \A t \in Tokens \ {drawn[c]} : tokens'[t] = tokens[t]
    BY <2>1, <2>5 DEF TypeOK
  <2>8. Drawn'
    <3>1. \A d \in Conns \ {c} : drawn[d] # None => drawn[d] # drawn[c] /\ drawn[d] \in Tokens
      BY <2>5, IdleAssumption DEF Drawn, TypeOK
    <3> QED BY <2>1, <2>2, <2>7, <3>1 DEF Drawn
  <2>9. Issued'
    BY <2>1, <2>2, <2>5, <2>7 DEF Issued, Holds
  <2>10. ActsAsOwner'
    BY <2>1, <2>2 DEF ActsAsOwner
  <2> QED BY <2>3, <2>6, <2>8, <2>9, <2>10
<1>5. ASSUME pc[c] = "function" \/ pc[c] = "timer", NEW to \in {"timer", "played"},
             pc' = [pc EXCEPT ![c] = to], match' \in Conns \cup {None},
             UNCHANGED <<ops, request, acting, drawn, qn, users, tokens, issued>>
      PROVE  ServerInv'
  <2>1. pc'[c] = to /\ \A d \in Conns \ {c} : pc'[d] = pc[d]
    BY <1>5 DEF TypeOK
  <2>2. Scheduled' /\ Requested' /\ ParkedIsSubscribed' /\ pc' \in [Conns -> PC]
    BY <1>1, <1>5, GoesOnKeeps DEF TypeOK
  <2>3. TypeOK'
    BY <1>5, <2>2 DEF TypeOK
  <2>4. Drawn'
    BY <1>5, <2>1 DEF Drawn
  <2>5. Issued'
    BY <1>5, <2>1 DEF Issued, Holds
  <2>6. ActsAsOwner'
    BY <1>5, <2>1 DEF ActsAsOwner
  <2> QED BY <2>2, <2>3, <2>4, <2>5, <2>6
<1>6. ASSUME NEW w \in Workers, ApiMove(w, c), GoesOn(w, c, "timer") PROVE ServerInv'
  <2>1. /\ pc[c] = "function" /\ pc' = [pc EXCEPT ![c] = "timer"]
        /\ UNCHANGED <<request, qn, users, tokens, issued>>
    BY <1>6 DEF ApiMove, Calls, GoesOn, accounts
  <2>2. match' = c /\ UNCHANGED <<ops, acting, drawn>>
    <3>1. c \in {d \in Conns : (\E a \in {[conn |-> c]} : a.conn = d) /\ pc[d] # "closed"}
      BY <2>1
    <3>2. Reply(w, c) => pc'[c] = "writing"
      BY <3>1 DEF Reply, Write
    <3>3. pc'[c] = "timer"
      BY <2>1 DEF TypeOK
    <3> QED BY <1>6, <3>2, <3>3 DEF ApiMove
  <2> QED BY <1>5, <2>1, <2>2
<1>7. CASE Timer(c)
  <2>1. match \in Conns \cup {None}
    BY DEF TypeOK
  <2> QED BY <1>5, <1>7, <2>1 DEF Timer, accounts
<1> HIDE DEF ServerInv
<1> QED BY <1>2, <1>3, <1>4, <1>6, <1>7

-----------------------------------------------------------------------------
(* The invariant.                                                           *)

\* It holds before the first client connects.
LEMMA ServerInvInit ==
    ASSUME Init
    PROVE  ServerInv
<1> USE DEF Init
<1>1. qn \in QueueData /\ \A u \in Users : qn.responser[u] = None
  BY DEF NobodyWaits, QueueData
<1>2. TypeOK
  BY <1>1 DEF TypeOK, PC, QueueData
<1>3. Scheduled
  <2>1. DOMAIN ready = {}
    OBVIOUS
  <2>2. {c \in Conns : pc[c] \in Due} = {}
    BY DEF Due
  <2>3. \A c \in Conns : ops[c] = 0 /\ pc[c] \notin {"reading", "writing"}
    OBVIOUS
  <2>4. \A w \in Workers : worker[w] = Idle
    OBVIOUS
  <2> QED BY <2>1, <2>2, <2>3, <2>4 DEF Scheduled, IsInjective, ToSet
<1>4. Requested
  BY <1>1 DEF Requested, Handling
<1>5. Drawn
  BY DEF Drawn
<1>6. Issued
  BY DEF Issued, Holds
<1>7. ActsAsOwner
  BY DEF ActsAsOwner
<1>8. ParkedIsSubscribed
  BY <1>1, NoneAssumption DEF ParkedIsSubscribed
<1> QED BY <1>2, <1>3, <1>4, <1>5, <1>6, <1>7, <1>8 DEF ServerInv

\* A worker's step: a handler that returns, or one that goes on.
LEMMA WorkKeeps ==
    ASSUME ServerInv, NEW w \in Workers, Work(w)
    PROVE  ServerInv'
<1> DEFINE c == worker[w]
<1>1. c # Idle /\ Function(w, c) /\ UNCHANGED <<accepting, ready>>
  BY DEF Work
<1>2. c \in Conns /\ pc[c] \in Handling
  BY <1>1 DEF ServerInv, TypeOK, Scheduled
<1>3. \/ HandleRequest(w, c) /\ Reply(w, c)
      \/ ApiRegister(w, c) \/ Reading(w, c) \/ Check(w, c)
      \/ ApiLogin(w, c) /\ Reply(w, c)
      \/ ApiMove(w, c) /\ Reply(w, c)
      \/ Played(w, c)
      => ServerInv'
  BY <1>1, RepliesKeep
<1>4. \/ HandleRequest(w, c) /\ GoesOn(w, c, "function")
      \/ ApiLogin(w, c) /\ GoesOn(w, c, "store")
      \/ Store(w, c)
      \/ ApiMove(w, c) /\ GoesOn(w, c, "timer")
      => ServerInv'
  <2>1. ASSUME \/ HandleRequest(w, c) /\ GoesOn(w, c, "function")
               \/ ApiLogin(w, c) /\ GoesOn(w, c, "store")
               \/ Store(w, c)
               \/ ApiMove(w, c) /\ GoesOn(w, c, "timer")
        PROVE  UNCHANGED worker
    BY <2>1 DEF GoesOn, Store
  <2> HIDE DEF c
  <2> QED BY <1>1, <1>2, <2>1, GoingOnKeeps
<1>5. ApiWaitForOpponent(w, c) => ServerInv'
  BY <1>1, WaitKeeps
<1>6. ApiEnqueue(w, c) => ServerInv'
  BY <1>1, EnqueueKeeps
<1> HIDE DEF c
<1>7. HandleRequest(w, c) => Reply(w, c) \/ GoesOn(w, c, "function")
  BY DEF HandleRequest, HandleApiError
<1>8. ApiLogin(w, c) => Reply(w, c) \/ GoesOn(w, c, "store")
  BY DEF ApiLogin
<1>9. ApiMove(w, c) => Reply(w, c) \/ GoesOn(w, c, "timer")
  BY DEF ApiMove
<1> QED BY <1>1, <1>3, <1>4, <1>5, <1>6, <1>7, <1>8, <1>9 DEF Function

\* Every step keeps it.
LEMMA ServerInvNext ==
    ASSUME ServerInv, [Next]_vars
    PROVE  ServerInv'
<1>1. ASSUME NEW c \in Conns,
             Connect(c) \/ EndOfStream(c) \/ Written(c) \/ \E r \in Requests : SendRequest(c, r)
      PROVE  ServerInv'
  BY <1>1, NetworkKeeps
<1>2. ASSUME NEW c \in Conns, Timer(c) PROVE ServerInv'
  <2>1. pc[c] \in Handling /\ UNCHANGED <<accepting, ready, worker>>
    BY <1>2 DEF Timer, Handling
  <2> QED BY <1>2, <2>1, GoingOnKeeps
<1>3. ASSUME NEW w \in Workers, Dispatch(w) PROVE ServerInv'
  BY <1>3, DispatchKeeps
<1>4. ASSUME NEW w \in Workers, Work(w) PROVE ServerInv'
  BY <1>4, WorkKeeps
<1>5. ASSUME UNCHANGED vars PROVE ServerInv'
  <2>1. UNCHANGED <<accepting, ready, worker, pc, ops, request, acting, drawn, qn, match,
                    users, tokens, issued>>
    BY <1>5 DEF vars, accounts
  <2> QED BY <2>1 DEF ServerInv, TypeOK, Scheduled, Requested, Drawn, Issued, Holds, ActsAsOwner,
                      ParkedIsSubscribed
<1> QED BY <1>1, <1>2, <1>3, <1>4, <1>5 DEF Next

\* The connections that wait for a worker are in the io_context's queue, each
\* once, no two workers share one, and tokens, answers and polls go to their
\* owners, in every state of the server (initializer.cpp:22, session.cpp:43,
\* token_manager_redis.cpp:8, queue_notifier.cpp:22).
THEOREM ServerInvariant == Spec => []ServerInv
<1>1. Init => ServerInv
  BY ServerInvInit
<1>2. ServerInv /\ [Next]_vars => ServerInv'
  BY ServerInvNext
<1> QED BY <1>1, <1>2, PTL DEF Spec

\* Every field keeps its type, whatever the clients send and in whatever order
\* the workers handle it.
THEOREM ServerTyped == Spec => []TypeOK
<1>1. ServerInv => TypeOK
  BY DEF ServerInv
<1> QED BY <1>1, ServerInvariant, PTL

\* A stream is never written while it is read or written, and none of its
\* completions is handled twice, although polls are answered from other
\* connections' workers (Session::Write, session.hpp:28).
THEOREM OneOperationAtATime == Spec => []OneOperation
<1>1. ServerInv => OneOperation
  <2> SUFFICES ASSUME ServerInv PROVE OneOperation
    OBVIOUS
  <2> USE DEF ServerInv
  <2>1. ASSUME NEW c \in Conns
        PROVE  Cardinality({i \in DOMAIN ready : ready[i] = c}) = IF pc[c] \in Due THEN 1 ELSE 0
    <3> DEFINE at == {i \in DOMAIN ready : ready[i] = c}
    <3>1. CASE pc[c] \in Due
      <4>1. c \in ToSet(ready)
        BY <3>1 DEF Scheduled
      <4>2. PICK i \in DOMAIN ready : ready[i] = c
        BY <4>1 DEF ToSet
      <4>3. at = {i}
        BY <4>2 DEF Scheduled, IsInjective
      <4> QED BY <3>1, <4>3, FS_Singleton
    <3>2. CASE pc[c] \notin Due
      <4>1. c \notin ToSet(ready)
        BY <3>2 DEF Scheduled
      <4>2. at = {}
        BY <4>1 DEF ToSet
      <4> QED BY <3>2, <4>2, FS_EmptySet
    <3> QED BY <3>1, <3>2
  <2> QED BY <2>1 DEF OneOperation, Scheduled
<1> QED BY <1>1, ServerInvariant, PTL

\* A protected function runs for the one user its request's token was sent to:
\* logins that cross each other never share a token (GenerateToken,
\* token_manager_redis.cpp:8, and MatchAuthorization, api_function_executor.cpp:35).
THEOREM FunctionsActForOwners == Spec => []ActsAsOwner
<1>1. ServerInv => ActsAsOwner
  BY DEF ServerInv
<1> QED BY <1>1, ServerInvariant, PTL

\* The connections that wait for an opponent are the notifier's responsers: an
\* opponent that is found is told to the poll of the user it was found for
\* (QueueNotifier::Subscribe and Notify, queue_notifier.cpp:22).
THEOREM ParkedArePolls == Spec => []ParkedIsSubscribed
<1>1. ServerInv => ParkedIsSubscribed
  BY DEF ServerInv
<1> QED BY <1>1, ServerInvariant, PTL

=============================================================================
