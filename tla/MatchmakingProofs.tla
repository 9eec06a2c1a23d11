------------------------- MODULE MatchmakingProofs --------------------------
(***************************************************************************)
(* What matchmaking keeps, for any clients, polls and users, any number of *)
(* enqueues, and restarts at any point: no pair is left in the queue, and  *)
(* an announced match is told to a poll or kept for one.                   *)
(***************************************************************************)
EXTENDS Matchmaking, FiniteSetTheorems, SequenceTheorems, TLAPS

\* The steps of a balancing, and those from the push to the first pop.
Balancing == {"length", "pop1", "remove1", "pop2", "remove2", "create", "lookup", "notify1",
              "notify2"}
Unpaired == {"add", "lock", "length", "pop1"}
Between == {k \in Clients : pc[k] \in Unpaired}

\* One balancing at a time, the one that holds the mutex.
OneBalancing ==
    \A k \in Clients : pc[k] \in Balancing <=> balancer = k

\* How many players a balancing at step p has popped.
Popped(p, players) ==
    /\ p \in {"length", "pop1"} => players = <<>>
    /\ p = "remove1" => Len(players) = 1
    /\ p = "pop2" => Len(players) <= 1
    /\ p = "remove2" => Len(players) >= 1
    /\ p \in {"lookup", "notify1", "notify2"} => Len(players) = 2
PoppedSoFar == /\ balancer = None => hand = <<>>
               /\ \A k \in Clients : Popped(pc[k], hand)

\* Every player in the queue but one has an enqueue that has yet to pair it, or
\* had one that a restart cut short.
Pairing == Len(queue) <= 1 + stranded + Cardinality(Between)

\* A poll is on a connection of its user.
PollsAreOwn ==
    \A u \in Users : qn.responser[u] # None => UserOf[qn.responser[u]] = u

\* The inductive invariant.
MatchmakingInv == /\ TypeOK /\ OneBalancing /\ PoppedSoFar /\ Pairing /\ KeptOrOpen
                  /\ PollsAreOwn

-----------------------------------------------------------------------------
(* How often a user is in the queue, or in the balancer's hands.            *)

\* A user is in a sequence a number of times.
LEMMA TimesType ==
    ASSUME NEW u, NEW s \in Seq(Users)
    PROVE  /\ IsFiniteSet({i \in DOMAIN s : s[i] = u}) /\ Times(u, s) \in Nat
           /\ Times(u, <<>>) = 0
<1>1. Len(s) \in Nat /\ DOMAIN s = 1..Len(s)
  OBVIOUS
<1>2. {i \in DOMAIN s : s[i] = u} \in SUBSET (1..Len(s))
  BY <1>1
<1>3. IsFiniteSet({i \in DOMAIN s : s[i] = u})
  <2>1. IsFiniteSet(1..Len(s))
    BY <1>1, FS_Interval
  <2> QED BY <1>2, <2>1, FS_Subset
<1>4. {i \in DOMAIN <<>> : <<>>[i] = u} = {}
  OBVIOUS
<1> QED BY <1>3, <1>4, FS_CardinalityType, FS_EmptySet DEF Times

\* The last of a sequence adds a time or none.
LEMMA TimesLast ==
    ASSUME NEW u, NEW s \in Seq(Users), NEW x \in Users
    PROVE  /\ x = u => Times(u, s \o <<x>>) = Times(u, s) + 1
           /\ x # u => Times(u, s \o <<x>>) = Times(u, s)
<1> DEFINE t == s \o <<x>>
           in == {i \in DOMAIN s : s[i] = u}
<1>1. /\ Len(s) \in Nat /\ DOMAIN s = 1..Len(s) /\ DOMAIN t = 1..(Len(s) + 1)
      /\ t[Len(s) + 1] = x /\ \A i \in 1..Len(s) : t[i] = s[i]
  OBVIOUS
<1>2. IsFiniteSet(in) /\ Len(s) + 1 \notin in
  <2>1. IsFiniteSet(in)
    BY TimesType
  <2>2. Len(s) + 1 \notin DOMAIN s
    BY <1>1
  <2> QED BY <2>1, <2>2
<1> HIDE DEF t
<1>3. ASSUME x = u PROVE Times(u, t) = Times(u, s) + 1
  <2>1. {i \in DOMAIN t : t[i] = u} = in \cup {Len(s) + 1}
    BY <1>1, <1>3
  <2> QED BY <1>2, <2>1, FS_AddElement DEF Times
<1>4. ASSUME x # u PROVE Times(u, t) = Times(u, s)
  <2>1. {i \in DOMAIN t : t[i] = u} = in
    BY <1>1, <1>4
  <2> QED BY <2>1 DEF Times
<1> QED BY <1>3, <1>4 DEF t

\* So does the first, which shifts the others.
LEMMA TimesFirst ==
    ASSUME NEW u, NEW s \in Seq(Users), NEW x \in Users
    PROVE  /\ x = u => Times(u, <<x>> \o s) = Times(u, s) + 1
           /\ x # u => Times(u, <<x>> \o s) = Times(u, s)
<1> DEFINE t == <<x>> \o s
           in == {i \in DOMAIN s : s[i] = u}
           shifted == {j \in 2..(Len(s) + 1) : t[j] = u}
           shift == [i \in in |-> i + 1]
<1>1. /\ Len(s) \in Nat /\ DOMAIN s = 1..Len(s) /\ DOMAIN t = 1..(Len(s) + 1)
      /\ t[1] = x /\ \A i \in 1..Len(s) : t[i + 1] = s[i]
  OBVIOUS
<1>2. IsFiniteSet(in)
  BY TimesType
<1> HIDE DEF t
<1>3. shift \in Bijection(in, shifted)
  <2>1. \A i \in in : i \in Nat /\ i + 1 \in shifted
    BY <1>1
  <2>2. \A j \in shifted : j \in Nat /\ j - 1 \in in /\ (j - 1) + 1 = j
    <3>1. ASSUME NEW j \in shifted PROVE j \in Nat /\ j - 1 \in in /\ (j - 1) + 1 = j
      <4>1. j - 1 \in 1..Len(s) /\ (j - 1) + 1 = j /\ j \in Nat
        BY <1>1
      <4>2. t[(j - 1) + 1] = s[j - 1]
        BY <1>1, <4>1
      <4> QED BY <1>1, <4>1, <4>2
    <3> QED BY <3>1
  <2> HIDE DEF in, shifted
  <2>3. shift \in [in -> shifted]
    BY <2>1
  <2>4. \A i, j \in in : shift[i] = shift[j] => i = j
    BY <2>1
  <2>5. \A j \in shifted : \E i \in in : shift[i] = j
    BY <2>2
  <2> QED BY <2>3, <2>4, <2>5 DEF Bijection, Injection, Surjection, IsInjective
<1>4. IsFiniteSet(shifted) /\ Cardinality(shifted) = Cardinality(in)
  BY <1>2, <1>3, FS_Bijection DEF ExistsBijection
<1>5. 1 \notin shifted
  BY <1>1
<1>6. ASSUME x = u PROVE Times(u, t) = Times(u, s) + 1
  <2>1. {i \in DOMAIN t : t[i] = u} = shifted \cup {1}
    BY <1>1, <1>6
  <2> QED BY <1>4, <1>5, <2>1, FS_AddElement DEF Times
<1>7. ASSUME x # u PROVE Times(u, t) = Times(u, s)
  <2>1. {i \in DOMAIN t : t[i] = u} = shifted
    BY <1>1, <1>7
  <2> QED BY <1>4, <2>1 DEF Times
<1> QED BY <1>6, <1>7 DEF t

-----------------------------------------------------------------------------
(* What the steps of one client do to the mutex, the popped players and the *)
(* queue.                                                                   *)

\* The client goes on to another step.
Moves(k, from, to) == pc[k] = from /\ pc' = [pc EXCEPT ![k] = to]

\* The enqueues between push and pairing are finitely many.
LEMMA BetweenFinite ==
    ASSUME NEW S \in SUBSET Clients
    PROVE  IsFiniteSet(S) /\ Cardinality(S) \in Nat
<1>1. IsFiniteSet(S)
  BY FS_Subset, ClientsAssumption
<1> QED BY <1>1, FS_CardinalityType

\* A client that pushes joins them, one that pops leaves them.
LEMMA BetweenMoves ==
    ASSUME TypeOK, NEW k \in Clients, NEW from, NEW to \in PC, Moves(k, from, to)
    PROVE  /\ (from \in Unpaired <=> to \in Unpaired) => Between' = Between
           /\ from \notin Unpaired /\ to \in Unpaired
                => Cardinality(Between') = Cardinality(Between) + 1
           /\ from \in Unpaired /\ to \notin Unpaired
                => Cardinality(Between') = Cardinality(Between) - 1
<1>1. \A j \in Clients : pc'[j] = IF j = k THEN to ELSE pc[j]
  BY DEF TypeOK, Moves
<1>2. pc[k] = from
  BY DEF Moves
<1>3. Between \in SUBSET Clients
  BY DEF Between
<1>4. IsFiniteSet(Between) /\ Cardinality(Between) \in Nat
  BY <1>3, BetweenFinite
<1>5. (from \in Unpaired <=> to \in Unpaired) => Between' = Between
  BY <1>1, <1>2 DEF Between
<1>6. ASSUME from \notin Unpaired, to \in Unpaired
      PROVE  Cardinality(Between') = Cardinality(Between) + 1
  <2>1. Between' = Between \cup {k} /\ k \notin Between
    BY <1>1, <1>2, <1>6 DEF Between
  <2> QED BY <1>4, <2>1, FS_AddElement
<1>7. ASSUME from \in Unpaired, to \notin Unpaired
      PROVE  Cardinality(Between') = Cardinality(Between) - 1
  <2>1. Between' = Between \ {k} /\ k \in Between
    BY <1>1, <1>2, <1>7 DEF Between
  <2> QED BY <1>4, <2>1, FS_RemoveElement
<1> QED BY <1>5, <1>6, <1>7

\* The mutex is taken, kept or released with the balancing.
LEMMA MutexKeeps ==
    ASSUME MatchmakingInv, NEW k \in Clients, NEW from, NEW to \in PC, Moves(k, from, to),
           \/ (from \in Balancing <=> to \in Balancing) /\ UNCHANGED balancer
           \/ from \notin Balancing /\ to \in Balancing /\ balancer = None /\ balancer' = k
           \/ from \in Balancing /\ to \notin Balancing /\ balancer' = None
    PROVE  /\ OneBalancing' /\ pc' \in [Clients -> PC] /\ balancer' \in Clients \cup {None}
           /\ from \in Balancing => balancer = k
<1> USE DEF MatchmakingInv
<1>1. /\ \A j \in Clients : pc'[j] = IF j = k THEN to ELSE pc[j]
      /\ pc[k] = from /\ pc' \in [Clients -> PC]
  BY DEF TypeOK, Moves
<1>2. balancer' \in Clients \cup {None}
  BY DEF TypeOK
<1>3. OneBalancing'
  BY <1>1, ClientsAssumption DEF OneBalancing
<1> QED BY <1>1, <1>2, <1>3 DEF OneBalancing

\* Who has the mutex pops, nobody else has popped players.
LEMMA HandKeeps ==
    ASSUME MatchmakingInv, NEW k \in Clients, NEW from, NEW to \in PC, Moves(k, from, to),
           from \in Balancing => balancer = k, from \in Balancing \/ UNCHANGED hand,
           balancer' = None => hand' = <<>>, Popped(to, hand')
    PROVE  PoppedSoFar'
<1> USE DEF MatchmakingInv
<1>1. \A j \in Clients : pc'[j] = IF j = k THEN to ELSE pc[j]
  BY DEF TypeOK, Moves
<1>2. ASSUME NEW j \in Clients, j # k PROVE Popped(pc[j], hand')
  <2>1. CASE UNCHANGED hand
    BY <2>1 DEF PoppedSoFar
  <2>2. CASE from \in Balancing
    <3>1. pc[j] \notin Balancing
      BY <1>2, <2>2 DEF OneBalancing
    <3> QED BY <3>1 DEF Popped, Balancing
  <2> QED BY <2>1, <2>2
<1> QED BY <1>1, <1>2 DEF PoppedSoFar

\* A push adds a player and an enqueue that has to pair it; an enqueue ends
\* when the queue is short or with a player less in it.
LEMMA PairingKeeps ==
    ASSUME MatchmakingInv, NEW k \in Clients, NEW from, NEW to \in PC, Moves(k, from, to),
           queue' \in Seq(Users), UNCHANGED stranded,
           (from \in Unpaired <=> to \in Unpaired) => Len(queue') <= Len(queue),
           from \notin Unpaired /\ to \in Unpaired => Len(queue') <= Len(queue) + 1,
           from \in Unpaired /\ to \notin Unpaired
              => Len(queue') <= 1 \/ Len(queue') <= Len(queue) - 1
    PROVE  Pairing'
<1> USE DEF MatchmakingInv
<1>1. TypeOK /\ Len(queue) \in Nat /\ Len(queue') \in Nat /\ stranded \in Nat
  BY DEF TypeOK
<1>2. Cardinality(Between) \in Nat /\ Cardinality(Between') \in Nat
  BY BetweenFinite DEF Between
<1>3. Len(queue) <= 1 + stranded + Cardinality(Between)
  BY DEF Pairing
<1> HIDE DEF MatchmakingInv
<1>4. /\ (from \in Unpaired <=> to \in Unpaired) => Between' = Between
      /\ from \notin Unpaired /\ to \in Unpaired
           => Cardinality(Between') = Cardinality(Between) + 1
      /\ from \in Unpaired /\ to \notin Unpaired
           => Cardinality(Between') = Cardinality(Between) - 1
  BY <1>1, BetweenMoves
<1>5. Len(queue') <= 1 + stranded' + Cardinality(Between')
  BY <1>1, <1>2, <1>3, <1>4
<1> QED BY <1>5 DEF Pairing

\* The polls are left alone.
LEMMA PollsKept ==
    ASSUME MatchmakingInv, UNCHANGED <<qn, owed>>
    PROVE  KeptOrOpen' /\ PollsAreOwn'
  BY DEF MatchmakingInv, KeptOrOpen, PollsAreOwn

-----------------------------------------------------------------------------
(* The steps of an enqueue.                                                 *)

\* What a step of a request may do to the mutex, the popped players and the
\* queue.
TakesTurn(k, from, to) ==
    /\ \/ (from \in Balancing <=> to \in Balancing) /\ UNCHANGED balancer
       \/ from \notin Balancing /\ to \in Balancing /\ balancer = None /\ balancer' = k
       \/ from \in Balancing /\ to \notin Balancing /\ balancer' = None
    /\ from \in Balancing \/ UNCHANGED hand
    /\ hand' \in Seq(Users) /\ Len(hand') <= 2
    /\ balancer' = None => hand' = <<>>
    /\ Popped(to, hand')
PairsUp(from, to) ==
    /\ queue' \in Seq(Users)
    /\ (from \in Unpaired <=> to \in Unpaired) => Len(queue') <= Len(queue)
    /\ from \notin Unpaired /\ to \in Unpaired => Len(queue') <= Len(queue) + 1
    /\ from \in Unpaired /\ to \notin Unpaired
         => Len(queue') <= 1 \/ Len(queue') <= Len(queue) - 1

\* The types of what other components read.
Session == [stage : {"blank", "live", "erased"}, players : Users \X Users]
Typed ==
    /\ queued \subseteq Users /\ sessions \in Seq(Session)
    /\ requests \in 0..MaxRequests /\ pushed \in [Users -> Nat] /\ crashed \in BOOLEAN

\* A step of a request that announces nothing keeps the invariant.
LEMMA RequestKeeps ==
    ASSUME MatchmakingInv, NEW k \in Clients, NEW from, NEW to \in PC, Moves(k, from, to),
           UNCHANGED <<qn, owed, lost, stranded, restarts>>,
           Typed', TakesTurn(k, from, to), PairsUp(from, to)
    PROVE  MatchmakingInv'
<1> USE DEF TakesTurn, PairsUp
<1>1. /\ OneBalancing' /\ pc' \in [Clients -> PC] /\ balancer' \in Clients \cup {None}
      /\ from \in Balancing => balancer = k
  BY MutexKeeps
<1>2. PoppedSoFar'
  BY <1>1, HandKeeps
<1>3. Pairing'
  BY PairingKeeps
<1>4. KeptOrOpen' /\ PollsAreOwn'
  BY PollsKept
<1>5. TypeOK'
  <2>1. TypeOK
    BY DEF MatchmakingInv
  <2>2. /\ qn' \in [responser : [Users -> Conns \cup {None}], waiting : [Users -> Nat \cup {None}]]
        /\ owed' \in [Conns -> Int] /\ restarts' \in 0..MaxRestarts /\ stranded' \in Nat
        /\ lost' \in [Users -> Nat]
    BY <2>1 DEF TypeOK
  <2> QED BY <1>1, <2>2 DEF TypeOK, Typed, Session
<1> QED BY <1>1, <1>2, <1>3, <1>4, <1>5 DEF MatchmakingInv

\* The fields that the steps keep.
LEMMA Fields ==
    ASSUME MatchmakingInv
    PROVE  /\ Typed /\ queue \in Seq(Users) /\ Len(queue) \in Nat
           /\ hand \in Seq(Users) /\ Len(hand) \in Nat /\ Len(hand) <= 2
           /\ balancer = None => hand = <<>>
           /\ \A k \in Clients : /\ UserOf[k] \in Users /\ Popped(pc[k], hand)
                                 /\ pc[k] \in Balancing <=> balancer = k
<1>1. \A k \in Clients : UserOf[k] \in Users
  BY UserOfAssumption
<1>2. TypeOK /\ PoppedSoFar /\ OneBalancing
  BY DEF MatchmakingInv
<1>3. Typed /\ queue \in Seq(Users) /\ hand \in Seq(Users) /\ Len(hand) <= 2
  BY <1>2 DEF TypeOK, Typed, Session
<1> QED BY <1>1, <1>2, <1>3 DEF PoppedSoFar, OneBalancing

\* Up to the mutex.
LEMMA AskKeeps ==
    ASSUME MatchmakingInv, NEW k \in Clients,
           StartEnqueue(k) \/ IsMember(k) \/ Push(k) \/ Add(k) \/ Lock(k)
    PROVE  MatchmakingInv'
<1>1. /\ Typed /\ queue \in Seq(Users) /\ Len(queue) \in Nat
      /\ hand \in Seq(Users) /\ Len(hand) <= 2
      /\ balancer = None => hand = <<>>
      /\ UserOf[k] \in Users
  BY Fields
<1>2. requests' = requests \/ (requests < MaxRequests /\ requests' = requests + 1)
  <2>1. StartEnqueue(k) => requests < MaxRequests /\ requests' = requests + 1
    BY DEF StartEnqueue
  <2>2. IsMember(k) \/ Push(k) \/ Add(k) \/ Lock(k) => requests' = requests
    BY DEF IsMember, Push, Add, Lock, history
  <2> QED BY <2>1, <2>2
<1>3. requests' \in 0..MaxRequests
  <2>1. MaxRequests \in Nat /\ requests \in 0..MaxRequests
    BY <1>1, BoundsAssumption DEF Typed
  <2> QED BY <1>2, <2>1
<1>4. UNCHANGED <<qn, owed, lost, stranded, restarts, hand, sessions>>
  BY DEF StartEnqueue, IsMember, Push, Add, Lock, redisVars, history
<1>5. crashed' \in BOOLEAN
  <2>1. crashed' = crashed \/ crashed' = TRUE
    BY DEF StartEnqueue, IsMember, Push, Add, Lock
  <2> QED BY <1>1, <2>1 DEF Typed
<1>6. ASSUME NEW from \in {"idle", "member", "push", "add"},
             NEW to \in {"idle", "member", "push", "add", "lock"},
             Moves(k, from, to), UNCHANGED balancer,
             queued' \subseteq Users, pushed' \in [Users -> Nat], PairsUp(from, to)
      PROVE  MatchmakingInv'
  <2>1. from \notin Balancing /\ to \notin Balancing /\ to \in PC
    BY DEF Balancing, PC
  <2>2. TakesTurn(k, from, to)
    BY <1>1, <1>4, <1>6, <2>1 DEF TakesTurn, Popped
  <2>3. Typed'
    BY <1>1, <1>3, <1>4, <1>5, <1>6 DEF Typed
  <2> QED BY <1>4, <1>6, <2>1, <2>2, <2>3, RequestKeeps
<1>7. CASE StartEnqueue(k) \/ IsMember(k)
  <2>1. PICK from \in {"idle", "member"}, to \in {"idle", "member", "push"} : Goto(k, from, to)
    BY <1>7 DEF StartEnqueue, IsMember
  <2>2. UNCHANGED <<queue, queued, pushed, balancer>>
    BY <1>7 DEF StartEnqueue, IsMember, redisVars, history
  <2>3. queued' \subseteq Users /\ pushed' \in [Users -> Nat]
    BY <1>1, <2>2 DEF Typed
  <2>4. PairsUp(from, to)
    BY <1>1, <2>2 DEF PairsUp, Unpaired
  <2>5. Moves(k, from, to)
    BY <2>1 DEF Goto, Moves
  <2> QED BY <1>6, <2>2, <2>3, <2>4, <2>5
<1>8. CASE Push(k)
  <2>1. queue' \in Seq(Users) /\ Len(queue') = Len(queue) + 1
    BY <1>1, <1>8 DEF Push
  <2>2. pushed' \in [Users -> Nat] /\ queued' \subseteq Users
    BY <1>1, <1>8 DEF Push, Typed
  <2>3. UNCHANGED balancer /\ Moves(k, "push", "add")
    BY <1>8 DEF Push, Goto, Moves
  <2>4. PairsUp("push", "add")
    BY <1>1, <2>1 DEF PairsUp, Unpaired
  <2> QED BY <1>6, <2>2, <2>3, <2>4
<1>9. CASE Add(k)
  <2>1. /\ queued' = queued \cup {UserOf[k]} /\ UNCHANGED <<queue, pushed, balancer>>
        /\ Moves(k, "add", "lock")
    BY <1>9 DEF Add, history, Goto, Moves
  <2>2. pushed' \in [Users -> Nat] /\ queued' \subseteq Users
    BY <1>1, <2>1 DEF Typed
  <2>3. PairsUp("add", "lock")
    BY <1>1, <2>1 DEF PairsUp, Unpaired
  <2> QED BY <1>6, <2>1, <2>2, <2>3
<1>10. CASE Lock(k)
  <2>1. /\ UNCHANGED <<queue, queued, pushed>> /\ Moves(k, "lock", "length")
        /\ balancer = None /\ balancer' = k
    BY <1>10 DEF Lock, redisVars, history, Goto, Moves
  <2>2. /\ "lock" \in Unpaired /\ "length" \in Unpaired /\ "lock" \notin Balancing
        /\ "length" \in Balancing /\ "length" \in PC
    BY DEF Unpaired, Balancing, PC
  <2>3. Typed'
    BY <1>1, <1>3, <1>4, <1>5, <2>1 DEF Typed
  <2>4. TakesTurn(k, "lock", "length")
    BY <1>1, <1>4, <2>1, <2>2, ClientsAssumption DEF TakesTurn, Popped
  <2>5. PairsUp("lock", "length")
    BY <1>1, <2>1, <2>2 DEF PairsUp
  <2> QED BY <1>4, <2>1, <2>2, <2>3, <2>4, <2>5, RequestKeeps
<1> QED BY <1>7, <1>8, <1>9, <1>10

-----------------------------------------------------------------------------
(* The steps of a balancing.                                                *)

\* llen: a queue with fewer than two players ends the balancing.
LEMMA LengthKeeps ==
    ASSUME MatchmakingInv, NEW k \in Clients, Length(k)
    PROVE  MatchmakingInv'
<1>1. /\ Typed /\ queue \in Seq(Users) /\ Len(queue) \in Nat
      /\ hand \in Seq(Users) /\ Len(hand) <= 2
  BY Fields
<1>2. UNCHANGED <<queue, queued, sessions, qn, owed, requests, restarts, pushed, lost, stranded,
                  crashed>>
  BY DEF Length, redisVars, history
<1>3. Typed'
  BY <1>1, <1>2 DEF Typed
<1>4. /\ "length" \in Unpaired /\ "length" \in Balancing /\ "idle" \in PC /\ "pop1" \in PC
      /\ "idle" \notin Unpaired /\ "idle" \notin Balancing
      /\ "pop1" \in Unpaired /\ "pop1" \in Balancing
  BY DEF Unpaired, Balancing, PC
<1>5. CASE Len(queue) < 2 /\ Return(k, "length")
  <2>1. Moves(k, "length", "idle") /\ balancer' = None /\ hand' = <<>>
    BY <1>5 DEF Return, Goto, Moves
  <2>2. TakesTurn(k, "length", "idle")
    BY <1>4, <2>1 DEF TakesTurn, Popped
  <2>3. PairsUp("length", "idle")
    BY <1>1, <1>2, <1>4, <1>5 DEF PairsUp
  <2> QED BY <1>2, <1>3, <1>4, <2>1, <2>2, <2>3, RequestKeeps
<1>6. CASE Len(queue) >= 2 /\ Goto(k, "length", "pop1") /\ UNCHANGED <<balancer, hand>>
  <2>1. Moves(k, "length", "pop1") /\ UNCHANGED <<balancer, hand>>
    BY <1>6 DEF Goto, Moves
  <2>2. hand = <<>> /\ balancer = k /\ k # None
    BY <1>4, <2>1, Fields, ClientsAssumption DEF Moves, Popped
  <2>3. TakesTurn(k, "length", "pop1")
    BY <1>1, <1>4, <2>1, <2>2 DEF TakesTurn, Popped
  <2>4. PairsUp("length", "pop1")
    BY <1>1, <1>2, <1>4 DEF PairsUp
  <2> QED BY <1>2, <1>3, <1>4, <2>1, <2>3, <2>4, RequestKeeps
<1> QED BY <1>5, <1>6 DEF Length

\* rpop takes the player who was pushed first, if there is one.
LEMMA PopFields ==
    ASSUME MatchmakingInv, NEW k \in Clients, Pop(k), hand \in Seq(Users), Len(hand) <= 1
    PROVE  /\ queue' \in Seq(Users) /\ hand' \in Seq(Users)
           /\ queue = <<>> => queue' = <<>> /\ hand' = hand
           /\ queue # <<>> => Len(queue') = Len(queue) - 1 /\ Len(hand') = Len(hand) + 1
<1>1. queue \in Seq(Users) /\ Len(queue) \in Nat
  BY Fields
<1>2. CASE queue = <<>>
  BY <1>1, <1>2 DEF Pop
<1>3. CASE queue # <<>>
  <2>1. Len(queue) > 0 /\ queue[Len(queue)] \in Users
    BY <1>1, <1>3
  <2>2. hand' = hand \o <<queue[Len(queue)]>> /\ queue' = SubSeq(queue, 1, Len(queue) - 1)
    BY <1>3 DEF Pop, Last, Front
  <2>3. hand' \in Seq(Users) /\ Len(hand') = Len(hand) + 1
    BY <2>1, <2>2
  <2>4. queue' \in Seq(Users) /\ Len(queue') = Len(queue) - 1
    BY <1>1, <2>1, <2>2
  <2> QED BY <1>3, <2>3, <2>4
<1> QED BY <1>2, <1>3

\* rpop.
LEMMA PopKeeps ==
    ASSUME MatchmakingInv, NEW k \in Clients, Pop(k)
    PROVE  MatchmakingInv'
<1>1. UNCHANGED <<queued, sessions, qn, owed, balancer, requests, restarts, pushed, lost, stranded,
                  crashed>>
  BY DEF Pop, history
<1>2. Typed'
  BY <1>1, Fields DEF Typed
<1>3. /\ pc[k] \in Balancing => balancer = k /\ k # None
      /\ Popped(pc[k], hand) /\ hand \in Seq(Users) /\ Len(queue) \in Nat
  BY Fields, ClientsAssumption
<1>4. Moves(k, "pop1", IF queue = <<>> THEN "pop2" ELSE "remove1")
      \/ Moves(k, "pop2", IF queue = <<>> THEN "create" ELSE "remove2")
  BY DEF Pop, Goto, Moves
<1>5. PICK from \in {"pop1", "pop2"}, to \in {"pop2", "create", "remove1", "remove2"} :
         /\ Moves(k, from, to)
         /\ from = "pop1" => to = IF queue = <<>> THEN "pop2" ELSE "remove1"
         /\ from = "pop2" => to = IF queue = <<>> THEN "create" ELSE "remove2"
  BY <1>4
<1>6. /\ from \in Balancing /\ to \in Balancing /\ to \in PC /\ to \notin Unpaired
      /\ from \in Unpaired <=> from = "pop1"
  BY DEF Balancing, PC, Unpaired
<1>7. /\ balancer = k /\ k # None /\ hand \in Seq(Users) /\ Len(hand) \in Nat
      /\ from = "pop1" => hand = <<>>
      /\ from = "pop2" => Len(hand) <= 1
  BY <1>3, <1>5, <1>6 DEF Moves, Popped
<1>8. Len(hand) <= 1
  BY <1>7
<1>9. /\ queue' \in Seq(Users) /\ hand' \in Seq(Users)
      /\ queue = <<>> => queue' = <<>> /\ hand' = hand
      /\ queue # <<>> => Len(queue') = Len(queue) - 1 /\ Len(hand') = Len(hand) + 1
  BY <1>7, <1>8, PopFields
<1>10. TakesTurn(k, from, to)
  <2>1. hand' \in Seq(Users) /\ Len(hand') <= 2
    BY <1>7, <1>8, <1>9
  <2>2. Popped(to, hand')
    <3>1. CASE from = "pop1"
      <4>1. hand = <<>> /\ Len(hand) = 0
        BY <1>7, <3>1
      <4> QED BY <1>5, <1>9, <3>1, <4>1 DEF Popped
    <3>2. CASE from = "pop2"
      BY <1>5, <1>7, <1>9, <3>2 DEF Popped
    <3> QED BY <3>1, <3>2
  <2> QED BY <1>1, <1>6, <1>7, <2>1, <2>2 DEF TakesTurn
<1>11. PairsUp(from, to)
  <2>1. Len(queue') <= Len(queue) /\ (Len(queue') <= 1 \/ Len(queue') <= Len(queue) - 1)
    BY <1>3, <1>9
  <2> QED BY <1>6, <1>9, <2>1 DEF PairsUp
<1> QED BY <1>1, <1>2, <1>5, <1>6, <1>10, <1>11, RequestKeeps

\* srem.
LEMMA UnlistKeeps ==
    ASSUME MatchmakingInv, NEW k \in Clients, Unlist(k)
    PROVE  MatchmakingInv'
<1>1. UNCHANGED <<queue, sessions, qn, balancer, hand, owed, requests, restarts, pushed, lost,
                  stranded, crashed>>
  BY DEF Unlist, history
<1>2. Typed'
  BY <1>1, Fields DEF Typed, Unlist
<1>3. /\ pc[k] \in Balancing => balancer = k /\ k # None
      /\ Popped(pc[k], hand) /\ hand \in Seq(Users) /\ Len(hand) <= 2
      /\ queue \in Seq(Users) /\ Len(queue) \in Nat
  BY Fields, ClientsAssumption
<1>4. PICK from \in {"remove1", "remove2"}, to \in {"pop2", "create"} :
         Moves(k, from, to) /\ (from = "remove1" <=> to = "pop2")
  BY DEF Unlist, Goto, Moves
<1>5. /\ from \in Balancing /\ to \in Balancing /\ to \in PC /\ to \notin Unpaired
      /\ from \notin Unpaired
  BY DEF Balancing, PC, Unpaired
<1>6. balancer = k /\ k # None /\ (to = "pop2" => Len(hand) <= 1)
  BY <1>3, <1>4, <1>5 DEF Moves, Popped
<1>7. TakesTurn(k, from, to)
  BY <1>1, <1>3, <1>4, <1>5, <1>6 DEF TakesTurn, Popped
<1>8. PairsUp(from, to)
  BY <1>1, <1>3, <1>5 DEF PairsUp
<1> QED BY <1>1, <1>2, <1>4, <1>5, <1>7, <1>8, RequestKeeps

\* Two popped players are a match's.
LEMMA PairOf ==
    ASSUME NEW h \in Seq(Users), Len(h) = 2
    PROVE  h \in Users \X Users
<1>1. h[1] \in Users /\ h[2] \in Users
  <2>1. 1 \in 1..Len(h) /\ 2 \in 1..Len(h)
    OBVIOUS
  <2> QED BY <2>1, ElementOfSeq
<1>2. h = <<h[1], h[2]>>
  <2>1. /\ <<h[1], h[2]>> \in Seq(Users) /\ Len(<<h[1], h[2]>>) = Len(h)
        /\ \A i \in 1..Len(h) : h[i] = <<h[1], h[2]>>[i]
    BY <1>1
  <2> QED BY <2>1, SeqEqual
<1> QED BY <1>1, <1>2

\* A match that goes to another stage is one of the sessions still.
LEMMA StageOf ==
    ASSUME NEW list \in Seq(Session), NEW s, NEW stage \in {"blank", "live", "erased"}
    PROVE  [list EXCEPT ![s].stage = stage] \in Seq(Session)
<1> DEFINE changed == [list EXCEPT ![s].stage = stage]
<1>1. CASE s \in 1..Len(list)
  <2>1. list[s] \in Session
    BY <1>1, ElementOfSeq
  <2>2. [list[s] EXCEPT !.stage = stage] \in Session
    BY <2>1 DEF Session
  <2>3. [list EXCEPT ![s] = [list[s] EXCEPT !.stage = stage]] \in Seq(Session)
    BY <1>1, <2>2, ExceptSeq
  <2> QED BY <2>3
<1>2. CASE s \notin 1..Len(list)
  <2>1. DOMAIN list = 1..Len(list)
    BY LenProperties
  <2>2. changed = list
    BY <1>2, <2>1, LenProperties
  <2> QED BY <2>2
<1> QED BY <1>1, <1>2

\* It keeps its players.
LEMMA StagePlayers ==
    ASSUME NEW list \in Seq(Session), NEW s, NEW stage
    PROVE  /\ DOMAIN [list EXCEPT ![s].stage = stage] = DOMAIN list
           /\ \A t \in DOMAIN list : [list EXCEPT ![s].stage = stage][t].players = list[t].players
<1>1. \A t \in DOMAIN list : list[t] \in Session
  BY LenProperties, ElementOfSeq
<1> QED BY <1>1 DEF Session

\* CreateSession, which may give up at either point, with the mutex.
LEMMA CreateKeeps ==
    ASSUME MatchmakingInv, NEW k \in Clients, Emplace(k) \/ Lookup(k)
    PROVE  MatchmakingInv'
<1>1. UNCHANGED <<queue, queued, qn, owed, requests, restarts, pushed, lost, stranded, crashed>>
  BY DEF Emplace, Lookup, redisVars, history
<1>2. /\ Typed /\ queue \in Seq(Users) /\ Len(queue) \in Nat
      /\ hand \in Seq(Users) /\ Len(hand) <= 2
      /\ pc[k] \in Balancing => balancer = k /\ k # None
      /\ Popped(pc[k], hand)
  BY Fields, ClientsAssumption
<1>3. sessions' \in Seq(Session)
  <2>1. sessions \in Seq(Session)
    BY <1>2 DEF Typed
  <2>2. CASE UNCHANGED sessions
    BY <2>1, <2>2
  <2>3. CASE /\ Len(hand) = 2
             /\ sessions' = Append(sessions, [stage |-> "blank", players |-> hand])
    <3>1. hand \in Users \X Users
      BY <1>2, <2>3, PairOf
    <3>2. [stage |-> "blank", players |-> hand] \in Session
      BY <3>1 DEF Session
    <3> QED BY <2>1, <2>3, <3>2
  <2>4. CASE sessions' = [sessions EXCEPT ![Sid].stage = "live"]
    BY <2>1, <2>4, StageOf
  <2> QED BY <2>2, <2>3, <2>4 DEF Emplace, Lookup
<1>4. Typed'
  BY <1>1, <1>2, <1>3 DEF Typed
<1>5. PICK from \in {"create", "lookup"}, to \in {"idle", "lookup", "notify1"} :
         /\ Moves(k, from, to)
         /\ \/ to = "idle" /\ balancer' = None /\ hand' = <<>>
            \/ to # "idle" /\ UNCHANGED <<balancer, hand>> /\ (from = "create" => Len(hand) = 2)
  BY DEF Emplace, Lookup, Return, Goto, Moves
<1>6. /\ from \in Balancing /\ to \in PC /\ to \notin Unpaired /\ from \notin Unpaired
      /\ to \in Balancing <=> to # "idle"
  BY DEF Balancing, PC, Unpaired
<1>7. balancer = k /\ k # None /\ Popped(from, hand)
  BY <1>2, <1>5, <1>6 DEF Moves
<1>8. TakesTurn(k, from, to)
  <2>1. CASE to = "idle"
    BY <1>5, <1>6, <2>1 DEF TakesTurn, Popped
  <2>2. CASE to # "idle"
    BY <1>2, <1>5, <1>6, <1>7, <2>2 DEF TakesTurn, Popped
  <2> QED BY <2>1, <2>2
<1>9. PairsUp(from, to)
  BY <1>1, <1>2, <1>6 DEF PairsUp
<1> QED BY <1>1, <1>4, <1>5, <1>6, <1>8, <1>9, RequestKeeps

-----------------------------------------------------------------------------
(* The polls.                                                               *)
QueueData == [responser : [Users -> Conns \cup {None}], waiting : [Users -> Nat \cup {None}]]

\* How many answers go to a connection: none of none, and one of one.
Count(answers, c) == Cardinality({a \in answers : a.conn = c})
\* Nobody is answered by nothing, and one connection by one answer.
LEMMA CountAnswers ==
    ASSUME NEW c, NEW d, NEW code, NEW sid
    PROVE  /\ Count({}, c) = 0
           /\ c = d => Count({[conn |-> d, code |-> code, sid |-> sid]}, c) = 1
           /\ c # d => Count({[conn |-> d, code |-> code, sid |-> sid]}, c) = 0
<1> DEFINE r == [conn |-> d, code |-> code, sid |-> sid]
<1>1. {a \in {} : a.conn = c} = {} /\ (c # d => {a \in {r} : a.conn = c} = {})
  OBVIOUS
<1>2. c = d => {a \in {r} : a.conn = c} = {r}
  OBVIOUS
<1>3. Cardinality({}) = 0 /\ Cardinality({r}) = 1
  BY FS_EmptySet, FS_Singleton
<1> QED BY <1>1, <1>2, <1>3 DEF Count

\* What the responsers' run does to the answers that are owed.
LEMMA AnswerFields ==
    ASSUME NEW told, NEW asked, Answer(told, asked)
    PROVE  /\ qn' = told.q
           /\ owed' = [c \in Conns |-> owed[c] + (IF c \in asked THEN 1 ELSE 0)
                                        - Count(told.answers, c)]
  BY DEF Answer, Quantify, Count

\* What a notifier's method keeps: the maps' types, and what a poll is owed.
PollsKeep == /\ qn' \in QueueData /\ owed' \in [Conns -> Int]
             /\ KeptOrOpen' /\ PollsAreOwn'

\* Each connection's user, and what it is owed.
LEMMA PollFields ==
    ASSUME MatchmakingInv
    PROVE  /\ qn \in QueueData /\ owed \in [Conns -> Int]
           /\ \A c \in Conns : /\ UserOf[c] \in Users
                               /\ owed[c] = 1 \/ owed[c] = 0
                               /\ owed[c] = 1 <=> qn.responser[UserOf[c]] = c
           /\ \A u \in Users : /\ qn.responser[u] # None
                                    => qn.responser[u] \in Conns /\ UserOf[qn.responser[u]] = u
                               /\ qn.waiting[u] = None \/ qn.responser[u] = None
<1>1. \A c \in Conns : UserOf[c] \in Users
  BY UserOfAssumption
<1>2. TypeOK /\ KeptOrOpen /\ PollsAreOwn
  BY DEF MatchmakingInv
<1>3. qn \in QueueData /\ owed \in [Conns -> Int]
  BY <1>2 DEF TypeOK, QueueData
<1>4. \A u \in Users : qn.responser[u] \in Conns \cup {None}
  BY <1>3 DEF QueueData
<1> QED BY <1>1, <1>2, <1>3, <1>4 DEF KeptOrOpen, PollsAreOwn

\* An open poll is answered and closed, or the id is kept for the next.
LEMMA NotifyKeeps ==
    ASSUME MatchmakingInv, NEW u \in Users, NEW sid \in Nat, Answer(NotifyFound(qn, u, sid), {})
    PROVE  PollsKeep
<1>1. /\ qn \in QueueData /\ owed \in [Conns -> Int]
      /\ \A c \in Conns : /\ UserOf[c] \in Users
                          /\ owed[c] = 1 \/ owed[c] = 0
                          /\ owed[c] = 1 <=> qn.responser[UserOf[c]] = c
      /\ \A v \in Users : /\ qn.responser[v] # None
                               => qn.responser[v] \in Conns /\ UserOf[qn.responser[v]] = v
                          /\ qn.waiting[v] = None \/ qn.responser[v] = None
  BY PollFields
<1>2. CASE qn.responser[u] # None
  <2> DEFINE d == qn.responser[u]
             r == [conn |-> d, code |-> "ok", sid |-> sid]
  <2>1. NotifyFound(qn, u, sid) = [q |-> [qn EXCEPT !.responser[u] = None], answers |-> {r}]
    BY <1>2 DEF NotifyFound, Told
  <2>2. /\ qn' = [qn EXCEPT !.responser[u] = None]
        /\ owed' = [c \in Conns |-> owed[c] + 0 - Count({r}, c)]
    <3> DEFINE told == NotifyFound(qn, u, sid)
    <3>1. told.q = [qn EXCEPT !.responser[u] = None] /\ told.answers = {r}
      BY <2>1
    <3> HIDE DEF told, r
    <3>2. /\ qn' = told.q
          /\ owed' = [c \in Conns |-> owed[c] + (IF c \in {} THEN 1 ELSE 0)
                                       - Count(told.answers, c)]
      BY AnswerFields DEF told
    <3> QED BY <3>1, <3>2
  <2>3. owed' \in [Conns -> Int] /\ \A c \in Conns : owed'[c] = IF c = d THEN owed[c] - 1 ELSE owed[c]
    <3>1. \A c \in Conns : /\ c = d => Count({r}, c) = 1
                           /\ c # d => Count({r}, c) = 0
      BY CountAnswers
    <3> HIDE DEF d, r
    <3>2. owed' = [c \in Conns |-> owed[c] + 0 - Count({r}, c)]
      BY <2>2
    <3>3. owed \in [Conns -> Int]
      BY <1>1
    <3>4. ASSUME NEW c \in Conns
          PROVE  /\ owed'[c] \in Int
                 /\ c = d => owed'[c] = owed[c] - 1
                 /\ c # d => owed'[c] = owed[c]
      <4>1. owed'[c] = owed[c] + 0 - Count({r}, c) /\ owed[c] \in Int
        BY <3>2, <3>3
      <4>2. CASE c = d
        <5>1. Count({r}, c) = 1
          BY <3>1, <4>2
        <5> QED BY <4>1, <4>2, <5>1
      <4>3. CASE c # d
        <5>1. Count({r}, c) = 0
          BY <3>1, <4>3
        <5> QED BY <4>1, <4>3, <5>1
      <4> QED BY <4>2, <4>3
    <3> QED BY <3>2, <3>4
  <2>6. /\ qn' \in QueueData /\ qn'.waiting = qn.waiting
        /\ \A v \in Users : qn'.responser[v] = IF v = u THEN None ELSE qn.responser[v]
    <3>1. qn \in QueueData /\ qn' = [qn EXCEPT !.responser[u] = None]
      BY <1>1, <2>2
    <3> QED BY <3>1 DEF QueueData
  <2>7. PollsAreOwn'
    BY <1>1, <2>6 DEF PollsAreOwn
  <2>8. KeptOrOpen'
    <3>1. ASSUME NEW v \in Users, NEW c \in Conns, UserOf[c] = v
          PROVE  owed'[c] = IF qn'.responser[v] = c THEN 1 ELSE 0
      <4>1. CASE v = u
        BY <1>1, <1>2, <2>3, <2>6, <3>1, <4>1, NoneAssumption
      <4>2. CASE v # u
        <5>1. c # d
          BY <1>1, <1>2, <3>1, <4>2
        <5> QED BY <1>1, <2>3, <2>6, <3>1, <4>2, <5>1
      <4> QED BY <4>1, <4>2
    <3>2. \A v \in Users : qn'.waiting[v] = None \/ qn'.responser[v] = None
      BY <1>1, <2>6
    <3> QED BY <3>1, <3>2 DEF KeptOrOpen
  <2> QED BY <2>3, <2>6, <2>7, <2>8 DEF PollsKeep
<1>3. CASE qn.responser[u] = None
  <2> DEFINE kept == IF qn.waiting[u] = None THEN sid ELSE qn.waiting[u]
  <2>1. NotifyFound(qn, u, sid) = [q |-> [qn EXCEPT !.waiting[u] = kept], answers |-> {}]
    BY <1>3 DEF NotifyFound, Told
  <2>2. /\ qn' = [qn EXCEPT !.waiting[u] = kept]
        /\ owed' = [c \in Conns |-> owed[c] + 0 - Count({}, c)]
    <3> DEFINE told == NotifyFound(qn, u, sid)
    <3>1. told.q = [qn EXCEPT !.waiting[u] = kept] /\ told.answers = {}
      BY <2>1
    <3> HIDE DEF told, kept
    <3>2. /\ qn' = told.q
          /\ owed' = [c \in Conns |-> owed[c] + (IF c \in {} THEN 1 ELSE 0)
                                       - Count(told.answers, c)]
      BY AnswerFields DEF told
    <3> QED BY <3>1, <3>2
  <2>3. \A c \in Conns : Count({}, c) = 0
    BY CountAnswers
  <2>4. owed' = owed
    <3>1. \A c \in Conns : owed[c] + 0 - Count({}, c) = owed[c]
      BY <1>1, <2>3
    <3> QED BY <1>1, <2>2, <3>1
  <2>5. kept \in Nat \cup {None}
    BY <1>1 DEF QueueData
  <2> HIDE DEF kept
  <2>6. /\ qn' \in QueueData /\ qn'.responser = qn.responser
        /\ \A v \in Users : qn'.waiting[v] = IF v = u THEN kept ELSE qn.waiting[v]
    BY <1>1, <2>2, <2>5 DEF QueueData
  <2>7. PollsAreOwn'
    BY <1>1, <2>6 DEF PollsAreOwn
  <2>8. KeptOrOpen'
    BY <1>1, <1>3, <2>4, <2>6 DEF KeptOrOpen
  <2> QED BY <1>1, <2>4, <2>6, <2>7, <2>8 DEF PollsKeep
<1> QED BY <1>2, <1>3

\* A poll closes its user's other one, and is answered what was kept, or open.
LEMMA SubscribeKeeps ==
    ASSUME MatchmakingInv, NEW c \in Conns, WaitForOpponent(c)
    PROVE  PollsKeep
<1> DEFINE u == UserOf[c]
           told == SubscribePoll(qn, u, c)
           d == qn.responser[u]
           r == [conn |-> d, code |-> "poll_closed", sid |-> None]
           open == [qn EXCEPT !.responser[u] = c]
           closed == IF d = None THEN {} ELSE {r}
<1>1. /\ qn \in QueueData /\ owed \in [Conns -> Int]
      /\ \A x \in Conns : /\ UserOf[x] \in Users
                          /\ owed[x] = 1 \/ owed[x] = 0
                          /\ owed[x] = 1 <=> qn.responser[UserOf[x]] = x
      /\ \A v \in Users : /\ qn.responser[v] # None
                               => qn.responser[v] \in Conns /\ UserOf[qn.responser[v]] = v
                          /\ qn.waiting[v] = None \/ qn.responser[v] = None
  BY PollFields
<1>2. u \in Users /\ owed[c] = 0 /\ d # c /\ c # None
  BY <1>1, NoneAssumption DEF WaitForOpponent
<1>3. Answer(told, {c})
  BY DEF WaitForOpponent
<1> HIDE DEF told
<1>4. qn' = told.q
  BY <1>3, AnswerFields
<1>5. owed' = [x \in Conns |-> owed[x] + (IF x \in {c} THEN 1 ELSE 0) - Count(told.answers, x)]
  BY <1>3, AnswerFields
<1>6. ASSUME NEW x \in Conns, NEW n \in Nat, Count(told.answers, x) = n
      PROVE  owed'[x] = owed[x] + (IF x = c THEN 1 ELSE 0) - n
  BY <1>1, <1>5, <1>6
<1>7. /\ open \in QueueData /\ open.waiting = qn.waiting
      /\ \A v \in Users : open.responser[v] = IF v = u THEN c ELSE qn.responser[v]
  <2>1. qn \in QueueData
    BY <1>1
  <2> HIDE DEF u
  <2> QED BY <2>1 DEF QueueData
<1>8. CASE qn.waiting[u] = None
  <2>1. told.q = open /\ told.answers = closed
    BY <1>8 DEF SubscribePoll, Told, told
  <2>2. ASSUME NEW x \in Conns
        PROVE  /\ owed'[x] \in Int
               /\ x = c => owed'[x] = 1
               /\ x # c /\ x = d => owed'[x] = 0
               /\ x # c /\ x # d => owed'[x] = owed[x]
    <3>1. /\ d = None \/ x # d => Count(closed, x) = 0
          /\ d # None /\ x = d => Count(closed, x) = 1
      <4>1. Count({}, x) = 0 /\ (x = d => Count({r}, x) = 1) /\ (x # d => Count({r}, x) = 0)
        BY CountAnswers
      <4> HIDE DEF r, d
      <4> QED BY <4>1
    <3>2. d # None /\ x = d => owed[x] = 1
      BY <1>1, <1>2
    <3>3. owed[x] \in Int /\ (x = d => x # None)
      BY <1>1, NoneAssumption
    <3> HIDE DEF closed, d
    <3>4. CASE x # d
      <4>1. owed'[x] = owed[x] + (IF x = c THEN 1 ELSE 0) - 0
        BY <1>6, <2>1, <3>1, <3>4
      <4> QED BY <1>2, <3>3, <3>4, <4>1
    <3>5. CASE x = d
      <4>1. owed'[x] = owed[x] + (IF x = c THEN 1 ELSE 0) - 1
        BY <1>6, <2>1, <3>1, <3>3, <3>5
      <4> QED BY <1>2, <3>2, <3>3, <3>5, <4>1
    <3> QED BY <3>4, <3>5
  <2>3. owed' \in [Conns -> Int]
    BY <1>5, <2>2
  <2>4. /\ qn' \in QueueData /\ qn'.waiting = qn.waiting
        /\ \A v \in Users : qn'.responser[v] = IF v = u THEN c ELSE qn.responser[v]
    BY <1>4, <1>7, <2>1
  <2> HIDE DEF open, closed, r
  <2>5. PollsAreOwn'
    BY <1>1, <2>4 DEF PollsAreOwn
  <2>6. KeptOrOpen'
    <3>1. ASSUME NEW v \in Users, NEW x \in Conns, UserOf[x] = v
          PROVE  owed'[x] = IF qn'.responser[v] = x THEN 1 ELSE 0
      <4>1. CASE v = u
        <5>1. owed[x] = 1 <=> d = x
          BY <1>1, <3>1, <4>1
        <5> QED BY <1>1, <2>2, <2>4, <3>1, <4>1, <5>1
      <4>2. CASE v # u
        <5>1. x # d /\ x # c
          BY <1>1, <3>1, <4>2, NoneAssumption
        <5> QED BY <1>1, <2>2, <2>4, <3>1, <4>2, <5>1
      <4> QED BY <4>1, <4>2
    <3>2. \A v \in Users : qn'.waiting[v] = None \/ qn'.responser[v] = None
      BY <1>1, <1>8, <2>4
    <3> QED BY <3>1, <3>2 DEF KeptOrOpen
  <2> QED BY <2>3, <2>4, <2>5, <2>6 DEF PollsKeep
<1>9. CASE qn.waiting[u] # None
  <2> DEFINE found == NotifyFound(open, u, qn.waiting[u])
             a == [conn |-> c, code |-> "ok", sid |-> qn.waiting[u]]
  <2>1. d = None
    BY <1>1, <1>2, <1>9
  <2>2. told.q = [found.q EXCEPT !.waiting[u] = None] /\ told.answers = closed \cup found.answers
    BY <1>9 DEF SubscribePoll, Told, told
  <2>3. open.responser[u] = c
    BY <1>2, <1>7
  <2>4. found.q = [open EXCEPT !.responser[u] = None] /\ found.answers = {a}
    <3> HIDE DEF open, u
    <3>1. found = Told([open EXCEPT !.responser[u] = None],
                       {[conn |-> open.responser[u], code |-> "ok", sid |-> qn.waiting[u]]})
      BY <1>2, <2>3 DEF NotifyFound
    <3> QED BY <2>3, <3>1 DEF Told
  <2> HIDE DEF found, a
  <2>5. told.answers = {a}
    BY <2>1, <2>2, <2>4
  <2>6. /\ qn' \in QueueData
        /\ \A v \in Users : /\ qn'.waiting[v] = IF v = u THEN None ELSE qn.waiting[v]
                            /\ qn'.responser[v] = IF v = u THEN None ELSE qn.responser[v]
    <3> HIDE DEF open, u
    <3>1. /\ found.q \in QueueData /\ found.q.waiting = qn.waiting
          /\ \A v \in Users : found.q.responser[v] = IF v = u THEN None ELSE qn.responser[v]
      <4>1. found.q \in QueueData /\ found.q.waiting = open.waiting
        BY <1>7, <2>4 DEF QueueData
      <4>2. \A v \in Users : found.q.responser[v] = IF v = u THEN None ELSE open.responser[v]
        BY <1>7, <2>4 DEF QueueData
      <4> QED BY <1>7, <4>1, <4>2
    <3>2. qn' = [found.q EXCEPT !.waiting[u] = None]
      BY <1>4, <2>2
    <3>3. qn' \in QueueData /\ qn'.responser = found.q.responser
      BY <3>1, <3>2 DEF QueueData
    <3>4. \A v \in Users : qn'.waiting[v] = IF v = u THEN None ELSE found.q.waiting[v]
      BY <3>1, <3>2 DEF QueueData
    <3> QED BY <3>1, <3>3, <3>4
  <2> HIDE DEF open, closed, r
  <2>7. ASSUME NEW x \in Conns PROVE owed'[x] = owed[x]
    <3>1. /\ x = c => Count({a}, x) = 1
          /\ x # c => Count({a}, x) = 0
      BY CountAnswers DEF a
    <3>2. owed[x] \in Int
      BY <1>1
    <3>3. CASE x = c
      <4>1. owed'[x] = owed[x] + 1 - 1
        BY <1>6, <2>5, <3>1, <3>3
      <4> QED BY <3>2, <4>1
    <3>4. CASE x # c
      <4>1. owed'[x] = owed[x] + 0 - 0
        BY <1>6, <2>5, <3>1, <3>4
      <4> QED BY <3>2, <4>1
    <3> QED BY <3>3, <3>4
  <2>8. owed' = owed
    BY <1>1, <1>5, <2>7
  <2>9. PollsAreOwn'
    BY <1>1, <2>6 DEF PollsAreOwn
  <2>10. KeptOrOpen'
    BY <1>1, <1>9, <2>1, <2>6, <2>8 DEF KeptOrOpen
  <2> QED BY <1>1, <2>6, <2>8, <2>9, <2>10 DEF PollsKeep
<1> QED BY <1>8, <1>9

-----------------------------------------------------------------------------
(* The steps that announce, poll, finish a match or restart the server.     *)

\* The balancing tells both players, and releases the mutex with the second.
LEMMA AnnounceKeeps ==
    ASSUME MatchmakingInv, NEW k \in Clients, Announce(k)
    PROVE  MatchmakingInv'
<1>1. UNCHANGED <<queue, queued, sessions, requests, restarts, pushed, lost, stranded, crashed>>
  BY DEF Announce, redisVars, history
<1>2. /\ Typed /\ queue \in Seq(Users) /\ Len(queue) \in Nat
      /\ hand \in Seq(Users) /\ Len(hand) <= 2
      /\ pc[k] \in Balancing => balancer = k /\ k # None
      /\ Popped(pc[k], hand)
  BY Fields, ClientsAssumption
<1>3. PICK from \in {"notify1", "notify2"}, to \in {"notify2", "idle"} :
         /\ Moves(k, from, to)
         /\ \/ to = "idle" /\ balancer' = None /\ hand' = <<>>
            \/ to = "notify2" /\ UNCHANGED <<balancer, hand>>
  BY DEF Announce, Moves
<1>4. /\ from \in Balancing /\ to \in PC /\ to \notin Unpaired /\ from \notin Unpaired
      /\ to \in Balancing <=> to = "notify2"
  BY DEF Balancing, PC, Unpaired
<1>5. balancer = k /\ k # None /\ Len(hand) = 2
  BY <1>2, <1>3, <1>4 DEF Moves, Popped
<1>6. PollsKeep
  <2>1. PICK i \in {1, 2} : Answer(NotifyFound(qn, hand[i], Sid), {})
    BY DEF Announce
  <2>2. hand[i] \in Users
    <3>1. hand \in Seq(Users) /\ Len(hand) = 2 /\ i \in 1..2
      BY <1>2, <1>5
    <3> QED BY <3>1, ElementOfSeq
  <2>3. Sid \in Nat
    BY <1>2, LenProperties DEF Typed, Sid
  <2> QED BY <2>1, <2>2, <2>3, NotifyKeeps
<1>7. TakesTurn(k, from, to)
  <2>1. CASE to = "idle"
    BY <1>3, <1>4, <2>1 DEF TakesTurn, Popped
  <2>2. CASE to = "notify2"
    BY <1>2, <1>3, <1>4, <1>5, <2>2 DEF TakesTurn, Popped
  <2> QED BY <2>1, <2>2
<1>8. PairsUp(from, to)
  BY <1>1, <1>2, <1>4 DEF PairsUp
<1>9. OneBalancing' /\ pc' \in [Clients -> PC] /\ balancer' \in Clients \cup {None}
  <2>1. \/ (from \in Balancing <=> to \in Balancing) /\ UNCHANGED balancer
        \/ from \notin Balancing /\ to \in Balancing /\ balancer = None /\ balancer' = k
        \/ from \in Balancing /\ to \notin Balancing /\ balancer' = None
    BY <1>7 DEF TakesTurn
  <2> QED BY <1>3, <1>4, <2>1, MutexKeeps
<1>10. PoppedSoFar'
  <2>1. (balancer' = None => hand' = <<>>) /\ Popped(to, hand')
    BY <1>7 DEF TakesTurn
  <2> QED BY <1>3, <1>4, <1>5, <2>1, HandKeeps
<1>11. Pairing'
  BY <1>1, <1>3, <1>4, <1>8, PairingKeeps DEF PairsUp
<1>12. TypeOK'
  <2>1. TypeOK
    BY DEF MatchmakingInv
  <2>2. /\ restarts' \in 0..MaxRestarts /\ stranded' \in Nat /\ lost' \in [Users -> Nat]
        /\ queue' \in Seq(Users) /\ queued' \subseteq Users /\ sessions' \in Seq(Session)
        /\ requests' \in 0..MaxRequests /\ pushed' \in [Users -> Nat] /\ crashed' \in BOOLEAN
    BY <1>1, <2>1 DEF TypeOK, Session
  <2>3. hand' \in Seq(Users) /\ Len(hand') <= 2
    BY <1>7 DEF TakesTurn
  <2> QED BY <1>6, <1>9, <2>2, <2>3 DEF TypeOK, PollsKeep, QueueData, Session
<1> QED BY <1>6, <1>9, <1>10, <1>11, <1>12 DEF MatchmakingInv, PollsKeep

\* A poll that comes changes nothing else; a match that ends changes no poll.
LEMMA OthersKeep ==
    ASSUME MatchmakingInv,
           \/ \E c \in Conns : WaitForOpponent(c)
           \/ \E s \in DOMAIN sessions : FinishSession(s)
           \/ UNCHANGED vars
    PROVE  MatchmakingInv'
<1>1. UNCHANGED <<queue, queued, balancer, hand, pc, requests, restarts, pushed, lost, stranded,
                  crashed>>
  BY DEF WaitForOpponent, FinishSession, vars, redisVars, history
<1>2. PollsKeep
  <2>1. ASSUME UNCHANGED <<qn, owed>> PROVE PollsKeep
    BY <2>1, PollsKept, PollFields DEF PollsKeep
  <2>2. (\E c \in Conns : WaitForOpponent(c)) \/ UNCHANGED <<qn, owed>>
    BY DEF FinishSession, vars
  <2> QED BY <2>1, <2>2, SubscribeKeeps
<1>3. sessions' \in Seq(Session)
  <2>1. sessions \in Seq(Session)
    BY Fields DEF Typed
  <2>2. CASE UNCHANGED sessions
    BY <2>1, <2>2
  <2>3. ASSUME NEW s, sessions' = [sessions EXCEPT ![s].stage = "erased"]
        PROVE  sessions' \in Seq(Session)
    BY <2>1, <2>3, StageOf
  <2>4. UNCHANGED sessions \/ \E s : sessions' = [sessions EXCEPT ![s].stage = "erased"]
    BY DEF WaitForOpponent, FinishSession, vars
  <2> QED BY <2>2, <2>3, <2>4
<1>4. TypeOK /\ OneBalancing /\ PoppedSoFar /\ Pairing
  BY DEF MatchmakingInv
<1>5. TypeOK'
  BY <1>1, <1>2, <1>3, <1>4 DEF TypeOK, PollsKeep, QueueData, Session
<1>6. OneBalancing' /\ PoppedSoFar' /\ Pairing'
  <2>1. Between' = Between
    BY <1>1 DEF Between
  <2> QED BY <1>1, <1>4, <2>1 DEF OneBalancing, PoppedSoFar, Pairing
<1> QED BY <1>2, <1>5, <1>6 DEF MatchmakingInv, PollsKeep

\* A restart ends every request; those between push and pairing are stranded.
LEMMA RestartKeeps ==
    ASSUME MatchmakingInv, Restart
    PROVE  MatchmakingInv'
<1>1. TypeOK /\ Pairing
  BY DEF MatchmakingInv
<1>2. /\ balancer' = None /\ hand' = <<>> /\ pc' = [k \in Clients |-> "idle"]
      /\ owed' = [c \in Conns |-> 0] /\ qn' = NobodyWaits /\ crashed' = FALSE
      /\ UNCHANGED <<queue, queued, requests, pushed>>
      /\ stranded' = stranded + Cardinality(Between)
  BY DEF Restart, redisVars, Between, Unpaired
<1>3. OneBalancing'
  BY <1>2, ClientsAssumption DEF OneBalancing, Balancing
<1>4. PoppedSoFar'
  BY <1>2 DEF PoppedSoFar, Popped
<1>5. Cardinality(Between) \in Nat /\ stranded \in Nat /\ Len(queue) \in Nat
  BY <1>1, BetweenFinite DEF Between, TypeOK
<1>6. Pairing'
  <2>1. Between' = {}
    BY <1>2 DEF Between, Unpaired
  <2>2. Cardinality(Between') = 0
    BY <2>1, FS_EmptySet
  <2>3. Len(queue) <= 1 + stranded + Cardinality(Between)
    BY <1>1 DEF Pairing
  <2>4. Len(queue') <= 1 + stranded' + 0
    BY <1>2, <1>5, <2>3
  <2> QED BY <2>2, <2>4 DEF Pairing
<1>7. qn' \in QueueData /\ \A u \in Users : qn'.responser[u] = None /\ qn'.waiting[u] = None
  BY <1>2 DEF NobodyWaits, QueueData
<1>8. KeptOrOpen' /\ PollsAreOwn'
  <2>1. \A c \in Conns : owed'[c] = 0 /\ c # None
    BY <1>2, NoneAssumption
  <2> QED BY <1>7, <2>1 DEF KeptOrOpen, PollsAreOwn
<1>9. sessions' \in Seq(Session)
  <2>1. sessions \in Seq(Session)
    BY Fields DEF Typed
  <2>2. /\ Len(sessions) \in Nat /\ DOMAIN sessions = 1..Len(sessions)
        /\ \A s \in 1..Len(sessions) : sessions[s] \in Session
    BY <2>1, LenProperties, ElementOfSeq
  <2>3. sessions' = [s \in 1..Len(sessions) |-> [sessions[s] EXCEPT !.stage = "erased"]]
    BY <2>2 DEF Restart
  <2>4. \A s \in 1..Len(sessions) : [sessions[s] EXCEPT !.stage = "erased"] \in Session
    BY <2>2 DEF Session
  <2>5. sessions' \in [1..Len(sessions) -> Session]
    BY <2>3, <2>4
  <2> QED BY <2>2, <2>5
<1>10. lost' \in [Users -> Nat]
  <2>1. ASSUME NEW u \in Users PROVE Times(u, InHand) \in Nat
    <3>1. InHand = <<>> \/ InHand = hand
      BY DEF InHand
    <3>2. hand \in Seq(Users) /\ <<>> \in Seq(Users)
      BY <1>1, EmptySeq DEF TypeOK
    <3>3. InHand \in Seq(Users)
      BY <3>1, <3>2
    <3> QED BY <3>3, TimesType
  <2>2. lost \in [Users -> Nat] /\ lost' = [u \in Users |-> lost[u] + Times(u, InHand)]
    BY <1>1 DEF TypeOK, Restart
  <2> QED BY <2>1, <2>2
<1>11. restarts' \in 0..MaxRestarts
  BY <1>1, BoundsAssumption DEF Restart, TypeOK
<1>12. TypeOK'
  <2>1. /\ queue' \in Seq(Users) /\ queued' \subseteq Users /\ requests' \in 0..MaxRequests
        /\ pushed' \in [Users -> Nat]
    BY <1>1, <1>2 DEF TypeOK
  <2>2. /\ hand' \in Seq(Users) /\ Len(hand') <= 2 /\ pc' \in [Clients -> PC]
        /\ owed' \in [Conns -> Int] /\ balancer' \in Clients \cup {None} /\ crashed' \in BOOLEAN
    <3>1. hand' = <<>>
      BY <1>2
    <3>2. hand' \in Seq(Users) /\ Len(hand') <= 2
      BY <3>1
    <3>3. pc' \in [Clients -> PC]
      BY <1>2 DEF PC
    <3>4. owed' \in [Conns -> Int]
      BY <1>2
    <3>5. balancer' \in Clients \cup {None} /\ crashed' \in BOOLEAN
      BY <1>2, Zenon
    <3> QED BY <3>2, <3>3, <3>4, <3>5
  <2>3. stranded' \in Nat
    BY <1>2, <1>5
  <2>4. /\ sessions' \in Seq([stage : {"blank", "live", "erased"}, players : Users \X Users])
        /\ qn' \in [responser : [Users -> Conns \cup {None}], waiting : [Users -> Nat \cup {None}]]
    BY <1>7, <1>9 DEF QueueData, Session
  <2> QED BY <1>10, <1>11, <2>1, <2>2, <2>3, <2>4 DEF TypeOK
<1> QED BY <1>3, <1>4, <1>6, <1>8, <1>12 DEF MatchmakingInv

-----------------------------------------------------------------------------
(* The invariant.                                                           *)

\* It holds before the first request.
LEMMA MatchmakingInit ==
    ASSUME Init
    PROVE  MatchmakingInv
<1> USE DEF Init
<1>1. qn \in QueueData /\ \A u \in Users : qn.responser[u] = None /\ qn.waiting[u] = None
  BY DEF NobodyWaits, QueueData
<1>2. TypeOK
  <2>1. queue \in Seq(Users) /\ hand \in Seq(Users) /\ Len(hand) <= 2 /\ sessions \in Seq(Session)
    OBVIOUS
  <2>2. requests \in 0..MaxRequests /\ restarts \in 0..MaxRestarts
    BY BoundsAssumption
  <2>3. pc \in [Clients -> PC]
    BY DEF PC
  <2>4. qn \in [responser : [Users -> Conns \cup {None}], waiting : [Users -> Nat \cup {None}]]
    BY <1>1 DEF QueueData
  <2>5. /\ owed \in [Conns -> Int] /\ stranded \in Nat
        /\ pushed \in [Users -> Nat] /\ lost \in [Users -> Nat]
    OBVIOUS
  <2>6. balancer \in Clients \cup {None} /\ crashed \in BOOLEAN /\ queued \subseteq Users
    BY Zenon
  <2>7. sessions \in Seq([stage : {"blank", "live", "erased"}, players : Users \X Users])
    OBVIOUS
  <2> QED BY <2>1, <2>2, <2>3, <2>4, <2>5, <2>6, <2>7 DEF TypeOK
<1>3. OneBalancing
  BY ClientsAssumption DEF OneBalancing, Balancing
<1>4. PoppedSoFar
  BY DEF PoppedSoFar, Popped
<1>5. Pairing
  <2>1. Between = {}
    BY DEF Between, Unpaired
  <2> QED BY <2>1, FS_EmptySet DEF Pairing
<1>6. KeptOrOpen /\ PollsAreOwn
  <2>1. \A c \in Conns : owed[c] = 0 /\ c # None
    BY NoneAssumption
  <2> QED BY <1>1, <2>1 DEF KeptOrOpen, PollsAreOwn
<1> QED BY <1>2, <1>3, <1>4, <1>5, <1>6 DEF MatchmakingInv

\* Every step keeps it.
LEMMA MatchmakingNext ==
    ASSUME MatchmakingInv, [Next]_vars
    PROVE  MatchmakingInv'
<1>1. ASSUME NEW k \in Clients, StartEnqueue(k) \/ Step(k) PROVE MatchmakingInv'
  BY <1>1, AskKeeps, LengthKeeps, PopKeeps, UnlistKeeps, CreateKeeps, AnnounceKeeps DEF Step
<1>2. ASSUME \/ \E c \in Conns : WaitForOpponent(c)
             \/ \E s \in DOMAIN sessions : FinishSession(s)
             \/ UNCHANGED vars
      PROVE  MatchmakingInv'
  BY <1>2, OthersKeep
<1>3. ASSUME Restart PROVE MatchmakingInv'
  BY <1>3, RestartKeeps
<1> QED BY <1>1, <1>2, <1>3 DEF Next

\* One balancing at a time, whose popped players it still has; the queue is as
\* long as the enqueues under way account for; polls are answered once
\* (matchmaking_balancer.cpp:8 and :23, queue_notifier.cpp:22).
THEOREM MatchmakingInvariant == Spec => []MatchmakingInv
<1>1. Init => MatchmakingInv
  BY MatchmakingInit
<1>2. MatchmakingInv /\ [Next]_vars => MatchmakingInv'
  BY MatchmakingNext
<1> QED BY <1>1, <1>2, PTL DEF Spec

\* Every field keeps its type, across restarts and lookups that fail.
THEOREM MatchmakingTyped == Spec => []TypeOK
<1>1. MatchmakingInv => TypeOK
  BY DEF MatchmakingInv
<1> QED BY <1>1, MatchmakingInvariant, PTL

\* A found match is kept for a user only while the user has no open poll, and a
\* poll is owed one answer as long as it is open (queue_notifier.cpp:22-48).
THEOREM PollsOwedOnce == Spec => []KeptOrOpen
<1>1. MatchmakingInv => KeptOrOpen
  BY DEF MatchmakingInv
<1> QED BY <1>1, MatchmakingInvariant, PTL

\* When no enqueue is under way no two players wait in the queue, but for those
\* of enqueues that restarts cut short (matchmaking_balancer.cpp:10).
THEOREM NobodyLeftInPairs == Spec => []NoPairLeft
<1>1. MatchmakingInv => NoPairLeft
  <2> SUFFICES ASSUME MatchmakingInv, Quiet PROVE Len(queue) <= 1 + stranded
    BY DEF NoPairLeft
  <2>1. Between = {}
    BY DEF Between, Quiet, Unpaired
  <2>2. Cardinality(Between) = 0
    BY <2>1, FS_EmptySet
  <2>3. Len(queue) <= 1 + stranded + 0 /\ stranded \in Nat
    BY <2>2 DEF MatchmakingInv, Pairing, TypeOK
  <2> QED BY <2>3
<1> QED BY <1>1, MatchmakingInvariant, PTL

-----------------------------------------------------------------------------
(* Every push leads to one place.                                           *)

\* A balancing finds the pair it has seen in the queue: nobody else pops.
EnoughAt(p, list, players) ==
    /\ p = "pop1" => Len(list) >= 2
    /\ p \in {"remove1", "pop2"} => Len(list) >= 1 /\ Len(players) = 1
    /\ p \in {"remove2", "create"} => Len(players) = 2
Enough == \A k \in Clients : EnoughAt(pc[k], queue, hand)

PushInv == MatchmakingInv /\ Enough /\ EveryPushCounts

\* The steps at which the popped players are in a match.
Placed == {"lookup", "notify1", "notify2"}

\* Whose steps change what is in the balancer's hands.
LEMMA Hands ==
    ASSUME MatchmakingInv, NEW k \in Clients, NEW from, NEW to \in PC, Moves(k, from, to)
    PROVE  /\ from \notin Placed /\ to \notin Placed /\ hand' = hand => InHand' = InHand
           /\ from \in Balancing /\ from \in Placed => InHand = <<>>
           /\ from \in Balancing /\ from \notin Placed => InHand = hand
           /\ to \in Placed => InHand' = <<>>
           /\ from \in Balancing /\ to \notin Placed => InHand' = hand'
<1>1. /\ \A j \in Clients : pc'[j] = IF j = k THEN to ELSE pc[j]
      /\ pc[k] = from
  BY DEF Moves, MatchmakingInv, TypeOK
<1>2. from \in Balancing => \A j \in Clients : j # k => pc[j] \notin Placed
  BY <1>1 DEF MatchmakingInv, OneBalancing, Balancing, Placed
<1>3. /\ (\E j \in Clients : pc[j] \in Placed) => InHand = <<>>
      /\ ~(\E j \in Clients : pc[j] \in Placed) => InHand = hand
      /\ (\E j \in Clients : pc'[j] \in Placed) => InHand' = <<>>
      /\ ~(\E j \in Clients : pc'[j] \in Placed) => InHand' = hand'
  BY DEF InHand, Placed
<1>4. from \notin Placed /\ to \notin Placed
        => ((\E j \in Clients : pc[j] \in Placed) <=> (\E j \in Clients : pc'[j] \in Placed))
  BY <1>1
<1>5. from \in Balancing /\ to \notin Placed => \A j \in Clients : pc'[j] \notin Placed
  BY <1>1, <1>2
<1>6. from \in Balancing /\ from \notin Placed => \A j \in Clients : pc[j] \notin Placed
  BY <1>1, <1>2
<1>7. to \in Placed => InHand' = <<>>
  BY <1>1, <1>3
<1>8. from \in Placed => InHand = <<>>
  BY <1>1, <1>3
<1>9. from \notin Placed /\ to \notin Placed /\ hand' = hand => InHand' = InHand
  BY <1>3, <1>4
<1> QED BY <1>3, <1>5, <1>6, <1>7, <1>8, <1>9

\* A user's places in matches; a match adds those of its two players.
Seats(list, u) == {seat \in (DOMAIN list) \X {1, 2} : list[seat[1]].players[seat[2]] = u}

\* A user sits in finitely many matches.
LEMMA SeatsFinite ==
    ASSUME NEW list \in Seq(Session), NEW u
    PROVE  IsFiniteSet(Seats(list, u)) /\ Cardinality(Seats(list, u)) \in Nat
<1>1. DOMAIN list = 1..Len(list) /\ Len(list) \in Nat
  BY LenProperties
<1>2. IsFiniteSet(DOMAIN list)
  BY <1>1, FS_Interval
<1>3. IsFiniteSet({1, 2})
  <2>1. {1, 2} = {1} \cup {2}
    OBVIOUS
  <2>2. IsFiniteSet({1})
    BY FS_Singleton
  <2>3. IsFiniteSet({1} \cup {2})
    BY <2>2, FS_AddElement
  <2> QED BY <2>1, <2>3
<1>4. IsFiniteSet((DOMAIN list) \X {1, 2})
  BY <1>2, <1>3, FS_Product
<1>5. Seats(list, u) \in SUBSET ((DOMAIN list) \X {1, 2})
  BY DEF Seats
<1>6. IsFiniteSet(Seats(list, u))
  BY <1>4, <1>5, FS_Subset
<1> QED BY <1>6, FS_CardinalityType

\* A new match seats its two players once each, and nobody else.
LEMMA SeatsAdded ==
    ASSUME NEW list \in Seq(Session), NEW h \in Seq(Users), Len(h) = 2, NEW u
    PROVE  Cardinality(Seats(Append(list, [stage |-> "blank", players |-> h]), u))
              = Cardinality(Seats(list, u)) + Times(u, h)
<1> DEFINE m == [stage |-> "blank", players |-> h]
           new == Append(list, m)
           n == Len(list) + 1
           old == Seats(list, u)
           one == IF h[1] = u THEN old \cup {<<n, 1>>} ELSE old
           two == IF h[2] = u THEN one \cup {<<n, 2>>} ELSE one
<1>1. h[1] \in Users /\ h[2] \in Users /\ h = (<<>> \o <<h[1]>>) \o <<h[2]>>
  <2>1. h[1] \in Users /\ h[2] \in Users
    <3>1. 1 \in 1..Len(h) /\ 2 \in 1..Len(h)
      OBVIOUS
    <3> QED BY <3>1, ElementOfSeq
  <2>2. ASSUME NEW x \in Users PROVE <<x>> \in Seq(Users)
    OBVIOUS
  <2>3. <<>> \o <<h[1]>> = <<h[1]>>
    BY <2>1, <2>2, ConcatEmptySeq
  <2>4. <<h[1]>> \o <<h[2]>> \in Seq(Users) /\ Len(<<h[1]>> \o <<h[2]>>) = 2
        /\ \A i \in 1..2 : (<<h[1]>> \o <<h[2]>>)[i] = h[i]
    BY <2>1, <2>2
  <2>5. h = <<h[1]>> \o <<h[2]>>
    BY <2>4, SeqEqual
  <2> QED BY <2>1, <2>3, <2>5
<1>2. Times(u, h) = (IF h[1] = u THEN 1 ELSE 0) + (IF h[2] = u THEN 1 ELSE 0)
  <2> DEFINE t == <<>> \o <<h[1]>>
  <2>1. <<>> \in Seq(Users) /\ t \in Seq(Users)
    BY <1>1
  <2>2. Times(u, <<>>) = 0
    BY <2>1, TimesType
  <2>3. /\ h[1] = u => Times(u, t) = Times(u, <<>>) + 1
        /\ h[1] # u => Times(u, t) = Times(u, <<>>)
    <3>1. <<>> \in Seq(Users) /\ h[1] \in Users
      BY <1>1, <2>1
    <3> QED BY <3>1, TimesLast
  <2> HIDE DEF t
  <2>4. /\ h[2] = u => Times(u, t \o <<h[2]>>) = Times(u, t) + 1
        /\ h[2] # u => Times(u, t \o <<h[2]>>) = Times(u, t)
    <3>1. t \in Seq(Users) /\ h[2] \in Users
      BY <1>1, <2>1
    <3> QED BY <3>1, TimesLast
  <2>5. h = t \o <<h[2]>>
    BY <1>1 DEF t
  <2>6. Times(u, t) = IF h[1] = u THEN 1 ELSE 0
    BY <2>2, <2>3
  <2>7. Times(u, h) = Times(u, t \o <<h[2]>>)
    BY <2>5
  <2> QED BY <2>4, <2>6, <2>7
<1>3. /\ DOMAIN list = 1..Len(list) /\ Len(list) \in Nat
      /\ DOMAIN new = 1..n /\ new[n] = m /\ \A i \in 1..Len(list) : new[i] = list[i]
  <2>1. m \in [stage : {"blank", "live", "erased"}, players : Seq(Users)]
    OBVIOUS
  <2> HIDE DEF m
  <2> QED OBVIOUS
<1>4. IsFiniteSet(old) /\ Cardinality(old) \in Nat
  BY SeatsFinite
<1>5. <<n, 1>> \notin old /\ <<n, 2>> \notin one
  <2>1. \A i : <<n, i>> \notin old
    BY <1>3 DEF Seats
  <2> QED BY <2>1
<1>6. IsFiniteSet(one) /\ Cardinality(one) = Cardinality(old) + (IF h[1] = u THEN 1 ELSE 0)
  BY <1>4, <1>5, FS_AddElement
<1>7. Cardinality(two) = Cardinality(one) + (IF h[2] = u THEN 1 ELSE 0)
  <2> HIDE DEF one
  <2>1. Cardinality(one) \in Nat /\ IsFiniteSet(one)
    BY <1>6, FS_CardinalityType
  <2>2. Cardinality(one \cup {<<n, 2>>}) = Cardinality(one) + 1
    BY <1>5, <2>1, FS_AddElement
  <2> QED BY <2>1, <2>2
<1>8. Seats(new, u) = two
  <2>1. m.players = h
    OBVIOUS
  <2> HIDE DEF new, m
  <2>2. ASSUME NEW i \in 1..n, NEW j \in {1, 2}
        PROVE  <<i, j>> \in Seats(new, u) <=> <<i, j>> \in two
    <3>1. CASE i = n
      <4>1. <<i, j>> \in Seats(new, u) <=> h[j] = u
        BY <1>3, <2>1, <3>1 DEF Seats
      <4>2. <<i, j>> \in two <=> h[j] = u
        <5>1. <<i, j>> \notin old
          BY <1>3, <3>1 DEF Seats
        <5> HIDE DEF old
        <5> QED BY <3>1, <5>1
      <4> QED BY <4>1, <4>2
    <3>2. CASE i # n
      <4>1. i \in 1..Len(list)
        BY <1>3, <3>2
      <4>2. <<i, j>> \in Seats(new, u) <=> <<i, j>> \in old
        BY <1>3, <4>1 DEF Seats
      <4> HIDE DEF old
      <4>3. <<i, j>> \in two <=> <<i, j>> \in old
        BY <3>2
      <4> QED BY <4>2, <4>3
    <3> QED BY <3>1, <3>2
  <2>3. Seats(new, u) \subseteq (1..n) \X {1, 2} /\ two \subseteq (1..n) \X {1, 2}
    <3>1. Seats(new, u) \subseteq (1..n) \X {1, 2}
      BY <1>3 DEF Seats
    <3>2. old \subseteq (1..n) \X {1, 2}
      BY <1>3 DEF Seats
    <3>3. n \in 1..n
      BY <1>3
    <3> HIDE DEF old, n
    <3> QED BY <3>1, <3>2, <3>3
  <2>4. ASSUME NEW S, NEW T, NEW N, S \subseteq N \X {1, 2}, T \subseteq N \X {1, 2},
               \A i \in N, j \in {1, 2} : <<i, j>> \in S <=> <<i, j>> \in T
        PROVE  S = T
    <3>1. ASSUME NEW p \in N \X {1, 2} PROVE p \in S <=> p \in T
      <4>1. PICK i \in N, j \in {1, 2} : p = <<i, j>>
        OBVIOUS
      <4> QED BY <2>4, <4>1
    <3> QED BY <2>4, <3>1
  <2> HIDE DEF n, two
  <2> QED BY <2>2, <2>3, <2>4
<1> HIDE DEF new, old, one, two, m
<1>9. Cardinality(Seats(new, u)) = Cardinality(old) + Times(u, h)
  BY <1>2, <1>4, <1>6, <1>7, <1>8
<1> QED BY <1>9 DEF new, m, old

\* Nobody pops from under a balancing.
LEMMA EnoughFor ==
    ASSUME MatchmakingInv, Enough, NEW k \in Clients, NEW from, NEW to \in PC, Moves(k, from, to),
           \/ from \in Balancing
           \/ Len(queue') \in Nat /\ Len(queue') >= Len(queue) /\ UNCHANGED hand,
           EnoughAt(to, queue', hand')
    PROVE  Enough'
<1>1. /\ \A j \in Clients : pc'[j] = IF j = k THEN to ELSE pc[j]
      /\ pc[k] = from
  BY DEF Moves, MatchmakingInv, TypeOK
<1>2. Len(queue) \in Nat
  BY DEF MatchmakingInv, TypeOK
<1>3. ASSUME NEW j \in Clients, j # k PROVE EnoughAt(pc[j], queue', hand')
  <2>1. CASE from \in Balancing
    <3>1. pc[j] \notin Balancing
      BY <1>1, <1>3, <2>1 DEF MatchmakingInv, OneBalancing
    <3> QED BY <3>1 DEF EnoughAt, Balancing
  <2>2. CASE Len(queue') \in Nat /\ Len(queue') >= Len(queue) /\ UNCHANGED hand
    BY <1>2, <2>2 DEF Enough, EnoughAt
  <2> QED BY <2>1, <2>2
<1> QED BY <1>1, <1>3 DEF Enough

\* The numbers a push is accounted for with.
LEMMA PushFields ==
    ASSUME PushInv, NEW u \in Users
    PROVE  /\ pushed[u] \in Nat /\ lost[u] \in Nat
           /\ Times(u, queue) \in Nat /\ Times(u, hand) \in Nat /\ Times(u, InHand) \in Nat
           /\ Times(u, <<>>) = 0 /\ Matched(u) \in Nat
           /\ pushed[u] = Times(u, queue) + Times(u, InHand) + lost[u] + Matched(u)
<1>1. TypeOK /\ EveryPushCounts
  BY DEF PushInv, MatchmakingInv
<1>2. queue \in Seq(Users) /\ hand \in Seq(Users) /\ sessions \in Seq(Session)
  BY <1>1 DEF TypeOK, Session
<1>3. InHand = <<>> \/ InHand = hand
  BY DEF InHand
<1>4. Times(u, queue) \in Nat /\ Times(u, hand) \in Nat /\ Times(u, <<>>) = 0
  BY <1>2, TimesType
<1>5. Matched(u) \in Nat
  BY <1>2, SeatsFinite DEF Matched, Seats
<1>6. pushed[u] \in Nat /\ lost[u] \in Nat
  BY <1>1 DEF TypeOK
<1>7. Times(u, InHand) \in Nat
  BY <1>3, <1>4
<1> QED BY <1>1, <1>4, <1>5, <1>6, <1>7 DEF EveryPushCounts

\* Steps that pop, place and lose nobody.
LEMMA NothingCounts ==
    ASSUME PushInv, UNCHANGED <<queue, lost, pushed>>, InHand' = InHand,
           DOMAIN sessions' = DOMAIN sessions,
           \A s \in DOMAIN sessions : sessions'[s].players = sessions[s].players
    PROVE  EveryPushCounts'
<1>1. ASSUME NEW u \in Users
      PROVE  pushed'[u] = Times(u, queue') + Times(u, InHand') + lost'[u] + Matched(u)'
  <2>1. pushed[u] = Times(u, queue) + Times(u, InHand) + lost[u] + Matched(u)
    BY PushFields
  <2>2. {seat \in (DOMAIN sessions') \X {1, 2} : sessions'[seat[1]].players[seat[2]] = u}
           = {seat \in (DOMAIN sessions) \X {1, 2} : sessions[seat[1]].players[seat[2]] = u}
    OBVIOUS
  <2>3. Matched(u)' = Matched(u)
    BY <2>2 DEF Matched
  <2> QED BY <2>1, <2>3
<1> QED BY <1>1 DEF EveryPushCounts

\* A request on its way to the mutex: a push is one more in the queue.
LEMMA AskCounts ==
    ASSUME PushInv, NEW k \in Clients,
           StartEnqueue(k) \/ IsMember(k) \/ Push(k) \/ Add(k) \/ Lock(k)
    PROVE  Enough' /\ EveryPushCounts'
<1>1. MatchmakingInv /\ Enough /\ queue \in Seq(Users) /\ Len(queue) \in Nat /\ UserOf[k] \in Users
  BY Fields DEF PushInv
<1>2. UNCHANGED <<hand, lost, sessions>>
  BY DEF StartEnqueue, IsMember, Push, Add, Lock, history
<1>3. PICK from \in PC, to \in {"idle", "member", "push", "add", "lock", "length"} :
         Moves(k, from, to) /\ from \notin Placed
  BY DEF StartEnqueue, IsMember, Push, Add, Lock, Goto, Moves, PC, Placed
<1>4. to \in PC /\ to \notin Placed /\ EnoughAt(to, queue', hand')
  BY DEF PC, Placed, EnoughAt
<1>5. InHand' = InHand
  BY <1>1, <1>2, <1>3, <1>4, Hands
<1>6. CASE Push(k)
  <2> DEFINE v == UserOf[k]
  <2>1. queue' = <<v>> \o queue /\ pushed' = [pushed EXCEPT ![v] = @ + 1]
    BY <1>6 DEF Push
  <2>2. Len(queue') = Len(queue) + 1
    BY <1>1, <2>1
  <2>3. Enough'
    BY <1>1, <1>2, <1>3, <1>4, <2>2, EnoughFor
  <2> HIDE DEF v
  <2>4. ASSUME NEW u \in Users
        PROVE  pushed'[u] = Times(u, queue') + Times(u, InHand') + lost'[u] + Matched(u)'
    <3>1. /\ pushed[u] \in Nat /\ lost[u] \in Nat
          /\ Times(u, queue) \in Nat /\ Times(u, InHand) \in Nat /\ Matched(u) \in Nat
          /\ pushed[u] = Times(u, queue) + Times(u, InHand) + lost[u] + Matched(u)
      BY PushFields
    <3>2. /\ v = u => Times(u, <<v>> \o queue) = Times(u, queue) + 1
          /\ v # u => Times(u, <<v>> \o queue) = Times(u, queue)
      BY <1>1, TimesFirst DEF v
    <3>3. /\ v = u => pushed'[u] = pushed[u] + 1
          /\ v # u => pushed'[u] = pushed[u]
      BY <1>1, <2>1 DEF PushInv, MatchmakingInv, TypeOK
    <3>4. Matched(u)' = Matched(u) /\ lost'[u] = lost[u]
      BY <1>2 DEF Matched
    <3>5. /\ v = u => Times(u, queue') = Times(u, queue) + 1
          /\ v # u => Times(u, queue') = Times(u, queue)
      BY <2>1, <3>2
    <3> HIDE DEF v
    <3> QED BY <1>5, <3>1, <3>3, <3>4, <3>5
  <2> QED BY <2>3, <2>4 DEF EveryPushCounts
<1>7. CASE StartEnqueue(k) \/ IsMember(k) \/ Add(k) \/ Lock(k)
  <2>1. UNCHANGED <<queue, pushed>>
    BY <1>7 DEF StartEnqueue, IsMember, Add, Lock, redisVars, history
  <2>2. Enough'
    BY <1>1, <1>2, <1>3, <1>4, <2>1, EnoughFor
  <2>3. EveryPushCounts'
    BY <1>2, <1>5, <2>1, NothingCounts
  <2> QED BY <2>2, <2>3
<1> QED BY <1>6, <1>7

\* A pop moves a user from the queue to the hands.
LEMMA PopCounts ==
    ASSUME PushInv, NEW k \in Clients, Pop(k)
    PROVE  Enough' /\ EveryPushCounts'
<1>1. /\ MatchmakingInv /\ Enough /\ queue \in Seq(Users) /\ Len(queue) \in Nat
      /\ hand \in Seq(Users) /\ Len(hand) \in Nat
  BY Fields DEF PushInv
<1>2. Moves(k, "pop1", IF queue = <<>> THEN "pop2" ELSE "remove1")
      \/ Moves(k, "pop2", IF queue = <<>> THEN "create" ELSE "remove2")
  BY DEF Pop, Goto, Moves
<1>3. queue # <<>> /\ Len(queue) >= 1
  <2>1. CASE pc[k] = "pop1"
    BY <1>1, <2>1 DEF Enough, EnoughAt
  <2>2. CASE pc[k] = "pop2"
    BY <1>1, <2>2 DEF Enough, EnoughAt
  <2> QED BY <1>2, <2>1, <2>2 DEF Moves
<1>4. PICK from \in {"pop1", "pop2"}, to \in {"remove1", "remove2"} :
         Moves(k, from, to) /\ (from = "pop1" <=> to = "remove1")
  BY <1>2, <1>3
<1>5. /\ from \in Balancing /\ from \notin Placed /\ to \in PC /\ to \notin Placed
      /\ pc[k] = from
  BY <1>4 DEF Balancing, Placed, PC, Moves
<1>6. /\ from = "pop1" => Len(hand) = 0 /\ Len(queue) >= 2
      /\ from = "pop2" => Len(hand) = 1
  <2>1. Popped(pc[k], hand) /\ EnoughAt(pc[k], queue, hand)
    BY <1>1, Fields DEF Enough
  <2>2. Len(<<>>) = 0
    OBVIOUS
  <2> QED BY <1>5, <2>1, <2>2 DEF Popped, EnoughAt
<1> DEFINE x == queue[Len(queue)]
           rest == SubSeq(queue, 1, Len(queue) - 1)
<1>7. x \in Users /\ rest \in Seq(Users) /\ Len(rest) = Len(queue) - 1
  <2>1. Len(queue) \in 1..Len(queue) /\ Len(queue) - 1 \in 0..Len(queue)
    BY <1>1, <1>3
  <2>2. x \in Users
    BY <1>1, <2>1, ElementOfSeq
  <2>3. rest \in Seq(Users) /\ Len(rest) = Len(queue) - 1
    <3> DEFINE n == Len(queue) - 1
    <3>1. n \in Nat /\ n <= Len(queue)
      BY <1>1, <1>3
    <3> HIDE DEF n
    <3>2. \A i \in 1..n : queue[i] \in Users
      BY <1>1, <3>1, ElementOfSeq
    <3>3. SubSeq(queue, 1, n) \in Seq(Users) /\ Len(SubSeq(queue, 1, n)) = n
      BY <1>1, <3>1, <3>2, SubSeqProperties
    <3> QED BY <3>3 DEF n
  <2> QED BY <2>2, <2>3
<1>8. hand' = hand \o <<x>> /\ queue' = rest
  BY <1>3 DEF Pop, Last, Front
<1>9. queue = rest \o <<x>>
  <2>1. /\ rest \o <<x>> \in Seq(Users) /\ Len(rest \o <<x>>) = Len(queue)
        /\ \A i \in 1..Len(queue) : (rest \o <<x>>)[i] = queue[i]
    BY <1>1, <1>3
  <2> QED BY <1>1, <2>1, SeqEqual
<1> HIDE DEF x, rest
<1>10. Len(hand') = Len(hand) + 1
  BY <1>1, <1>7, <1>8
<1>11. Enough'
  <2>1. EnoughAt(to, queue', hand')
    <3>1. Len(queue') = Len(queue) - 1
      BY <1>7, <1>8
    <3>2. CASE from = "pop1"
      <4>1. to = "remove1" /\ Len(hand) = 0 /\ Len(queue) >= 2
        BY <1>4, <1>6, <3>2
      <4> QED BY <1>1, <1>10, <3>1, <4>1 DEF EnoughAt
    <3>3. CASE from = "pop2"
      <4>1. to = "remove2" /\ Len(hand) = 1
        BY <1>4, <1>6, <3>3
      <4> QED BY <1>1, <1>10, <4>1 DEF EnoughAt
    <3> QED BY <1>4, <3>2, <3>3
  <2> QED BY <1>1, <1>4, <1>5, <2>1, EnoughFor
<1>12. InHand = hand /\ InHand' = hand'
  BY <1>1, <1>4, <1>5, Hands
<1>13. UNCHANGED <<pushed, lost, sessions>>
  BY DEF Pop, history
<1>14. ASSUME NEW u \in Users
       PROVE  pushed'[u] = Times(u, queue') + Times(u, InHand') + lost'[u] + Matched(u)'
  <2>1. /\ pushed[u] \in Nat /\ lost[u] \in Nat
        /\ Times(u, queue) \in Nat /\ Times(u, hand) \in Nat /\ Matched(u) \in Nat
        /\ pushed[u] = Times(u, queue) + Times(u, InHand) + lost[u] + Matched(u)
    BY PushFields
  <2>2. /\ x = u => Times(u, hand \o <<x>>) = Times(u, hand) + 1
        /\ x # u => Times(u, hand \o <<x>>) = Times(u, hand)
    BY <1>1, <1>7, TimesLast
  <2>3. /\ x = u => Times(u, rest \o <<x>>) = Times(u, rest) + 1
        /\ x # u => Times(u, rest \o <<x>>) = Times(u, rest)
    BY <1>7, TimesLast
  <2>4. Times(u, rest) \in Nat
    BY <1>7, TimesType
  <2>5. Times(u, queue) = Times(u, rest \o <<x>>)
    BY <1>9
  <2>6. Times(u, InHand) = Times(u, hand) /\ Times(u, InHand') = Times(u, hand \o <<x>>)
        /\ Times(u, queue') = Times(u, rest)
    BY <1>8, <1>12
  <2>7. Matched(u)' = Matched(u) /\ lost'[u] = lost[u] /\ pushed'[u] = pushed[u]
    BY <1>13 DEF Matched
  <2> QED BY <2>1, <2>2, <2>3, <2>4, <2>5, <2>6, <2>7
<1> QED BY <1>11, <1>14 DEF EveryPushCounts

\* The other steps of a balancing: the pair goes from the hands to a match.
LEMMA BalanceCounts ==
    ASSUME PushInv, NEW k \in Clients, Length(k) \/ Unlist(k) \/ Emplace(k) \/ Lookup(k) \/ Announce(k)
    PROVE  Enough' /\ EveryPushCounts'
<1>1. /\ MatchmakingInv /\ Enough /\ queue \in Seq(Users) /\ Len(queue) \in Nat
      /\ hand \in Seq(Users) /\ sessions \in Seq(Session)
      /\ Popped(pc[k], hand) /\ EnoughAt(pc[k], queue, hand)
  BY Fields DEF PushInv, Enough, Typed
<1>2. UNCHANGED <<queue, pushed, lost>>
  BY DEF Length, Unlist, Emplace, Lookup, Announce, redisVars, history
<1>3. CASE Length(k)
  <2>1. PICK to \in {"idle", "pop1"} : /\ Moves(k, "length", to)
                                       /\ to = "pop1" => hand' = hand /\ Len(queue) >= 2
                                       /\ to = "idle" => hand' = <<>>
    BY <1>3 DEF Length, Return, Goto, Moves
  <2>2. hand = <<>> /\ hand' = hand
    BY <1>1, <2>1 DEF Popped, Moves
  <2>3. "length" \in Balancing /\ "length" \notin Placed /\ to \in PC /\ to \notin Placed
    BY DEF Balancing, PC, Placed
  <2>4. EnoughAt(to, queue', hand')
    BY <1>2, <2>1 DEF EnoughAt
  <2>5. Enough'
    BY <1>1, <2>1, <2>3, <2>4, EnoughFor
  <2>6. InHand' = InHand
    BY <1>1, <2>1, <2>2, <2>3, Hands
  <2> QED BY <1>2, <1>3, <2>5, <2>6, NothingCounts DEF Length
<1>4. CASE Unlist(k)
  <2>1. PICK from \in {"remove1", "remove2"}, to \in {"pop2", "create"} :
           Moves(k, from, to) /\ (from = "remove1" <=> to = "pop2")
    BY <1>4 DEF Unlist, Goto, Moves
  <2>2. UNCHANGED <<hand, sessions>>
    BY <1>4 DEF Unlist
  <2>3. from \in Balancing /\ from \notin Placed /\ to \in PC /\ to \notin Placed /\ pc[k] = from
    BY <2>1 DEF Balancing, PC, Placed, Moves
  <2>4. EnoughAt(to, queue', hand')
    BY <1>1, <1>2, <2>1, <2>2, <2>3 DEF EnoughAt
  <2>5. Enough'
    BY <1>1, <2>1, <2>3, <2>4, EnoughFor
  <2>6. InHand' = InHand
    BY <1>1, <2>1, <2>2, <2>3, Hands
  <2> QED BY <1>2, <2>2, <2>5, <2>6, NothingCounts
<1>5. CASE Emplace(k)
  <2>1. pc[k] = "create" /\ Len(hand) = 2
    BY <1>1, <1>5 DEF Emplace, Return, Goto, EnoughAt
  <2>2. /\ Moves(k, "create", "lookup")
        /\ sessions' = Append(sessions, [stage |-> "blank", players |-> hand])
    BY <1>5, <2>1 DEF Emplace, Goto, Moves
  <2>3. "create" \in Balancing /\ "create" \notin Placed /\ "lookup" \in PC /\ "lookup" \in Placed
    BY DEF Balancing, PC, Placed
  <2>4. EnoughAt("lookup", queue', hand')
    BY DEF EnoughAt
  <2>5. Enough'
    BY <1>1, <2>2, <2>3, <2>4, EnoughFor
  <2>6. InHand = hand /\ InHand' = <<>>
    BY <1>1, <2>2, <2>3, Hands
  <2>7. ASSUME NEW u \in Users
        PROVE  pushed'[u] = Times(u, queue') + Times(u, InHand') + lost'[u] + Matched(u)'
    <3>1. /\ pushed[u] \in Nat /\ lost[u] \in Nat
          /\ Times(u, queue) \in Nat /\ Times(u, hand) \in Nat /\ Matched(u) \in Nat
          /\ Times(u, <<>>) = 0
          /\ pushed[u] = Times(u, queue) + Times(u, InHand) + lost[u] + Matched(u)
      BY PushFields
    <3>2. Cardinality(Seats(Append(sessions, [stage |-> "blank", players |-> hand]), u))
             = Cardinality(Seats(sessions, u)) + Times(u, hand)
      BY <1>1, <2>1, SeatsAdded
    <3>3. Matched(u) = Cardinality(Seats(sessions, u))
          /\ Matched(u)' = Cardinality(Seats(sessions', u))
      BY DEF Matched, Seats
    <3>4. Matched(u)' = Matched(u) + Times(u, hand)
      BY <2>2, <3>2, <3>3
    <3> QED BY <1>2, <2>6, <3>1, <3>4
  <2> QED BY <2>5, <2>7 DEF EveryPushCounts
<1>6. CASE Lookup(k) \/ Announce(k)
  <2>1. PICK from \in {"lookup", "notify1", "notify2"}, to \in {"idle", "notify1", "notify2"} :
           Moves(k, from, to) /\ (to = "idle" => hand' = <<>>)
    BY <1>6 DEF Lookup, Announce, Return, Goto, Moves
  <2>2. /\ from \in Balancing /\ from \in Placed /\ to \in PC
        /\ to \in Placed <=> to # "idle"
    BY DEF Balancing, PC, Placed
  <2>3. EnoughAt(to, queue', hand')
    BY DEF EnoughAt
  <2>4. Enough'
    BY <1>1, <2>1, <2>2, <2>3, EnoughFor
  <2>5. InHand' = InHand
    BY <1>1, <2>1, <2>2, Hands
  <2>6. /\ DOMAIN sessions' = DOMAIN sessions
        /\ \A s \in DOMAIN sessions : sessions'[s].players = sessions[s].players
    <3>1. UNCHANGED sessions \/ sessions' = [sessions EXCEPT ![Sid].stage = "live"]
      BY <1>6 DEF Lookup, Announce
    <3>2. CASE sessions' = [sessions EXCEPT ![Sid].stage = "live"]
      <4>1. /\ DOMAIN [sessions EXCEPT ![Sid].stage = "live"] = DOMAIN sessions
            /\ \A s \in DOMAIN sessions :
                  [sessions EXCEPT ![Sid].stage = "live"][s].players = sessions[s].players
        BY <1>1, StagePlayers
      <4> DEFINE staged == [sessions EXCEPT ![Sid].stage = "live"]
      <4>2. sessions' = staged /\ DOMAIN staged = DOMAIN sessions
            /\ \A s \in DOMAIN sessions : staged[s].players = sessions[s].players
        BY <3>2, <4>1
      <4> HIDE DEF staged
      <4> QED BY <4>2
    <3> QED BY <3>1, <3>2
  <2> QED BY <1>2, <2>4, <2>5, <2>6, NothingCounts
<1> QED BY <1>3, <1>4, <1>5, <1>6

\* Polls and ends of matches pop nobody; a restart loses who is in the hands.
LEMMA OthersCount ==
    ASSUME PushInv,
           \/ \E c \in Conns : WaitForOpponent(c)
           \/ \E s \in DOMAIN sessions : FinishSession(s)
           \/ Restart
           \/ UNCHANGED vars
    PROVE  Enough' /\ EveryPushCounts'
<1>1. MatchmakingInv /\ Enough /\ sessions \in Seq(Session)
  BY Fields DEF PushInv, Typed
<1>2. CASE Restart
  <2>1. /\ pc' = [k \in Clients |-> "idle"] /\ hand' = <<>> /\ UNCHANGED <<queue, pushed>>
        /\ lost' = [u \in Users |-> lost[u] + Times(u, InHand)]
        /\ sessions' = [s \in DOMAIN sessions |-> [sessions[s] EXCEPT !.stage = "erased"]]
    BY <1>2 DEF Restart, redisVars
  <2>2. Enough' /\ InHand' = <<>>
    BY <2>1 DEF Enough, EnoughAt, InHand
  <2>3. ASSUME NEW u \in Users
        PROVE  pushed'[u] = Times(u, queue') + Times(u, InHand') + lost'[u] + Matched(u)'
    <3>1. /\ pushed[u] \in Nat /\ lost[u] \in Nat
          /\ Times(u, queue) \in Nat /\ Times(u, InHand) \in Nat /\ Matched(u) \in Nat
          /\ Times(u, <<>>) = 0
          /\ pushed[u] = Times(u, queue) + Times(u, InHand) + lost[u] + Matched(u)
      BY PushFields
    <3>2. \A s \in DOMAIN sessions : sessions'[s].players = sessions[s].players
      <4>1. \A s \in DOMAIN sessions : sessions[s] \in Session
        BY <1>1, LenProperties, ElementOfSeq
      <4> QED BY <2>1, <4>1 DEF Session
    <3>3. Matched(u)' = Matched(u)
      <4>1. {seat \in (DOMAIN sessions') \X {1, 2} : sessions'[seat[1]].players[seat[2]] = u}
               = {seat \in (DOMAIN sessions) \X {1, 2} : sessions[seat[1]].players[seat[2]] = u}
        BY <2>1, <3>2
      <4> QED BY <4>1 DEF Matched
    <3>4. lost'[u] = lost[u] + Times(u, InHand)
      BY <2>1
    <3> QED BY <2>1, <2>2, <3>1, <3>3, <3>4
  <2> QED BY <2>2, <2>3 DEF EveryPushCounts
<1>3. CASE \/ \E c \in Conns : WaitForOpponent(c)
           \/ \E s \in DOMAIN sessions : FinishSession(s)
           \/ UNCHANGED vars
  <2>1. UNCHANGED <<queue, hand, pc, pushed, lost>>
    BY <1>3 DEF WaitForOpponent, FinishSession, vars, redisVars, history
  <2>2. Enough' /\ InHand' = InHand
    BY <1>1, <2>1 DEF Enough, InHand
  <2>3. /\ DOMAIN sessions' = DOMAIN sessions
        /\ \A s \in DOMAIN sessions : sessions'[s].players = sessions[s].players
    <3>1. UNCHANGED sessions \/ \E s : sessions' = [sessions EXCEPT ![s].stage = "erased"]
      BY <1>3 DEF WaitForOpponent, FinishSession, vars
    <3>2. ASSUME NEW m, sessions' = [sessions EXCEPT ![m].stage = "erased"]
          PROVE  /\ DOMAIN sessions' = DOMAIN sessions
                 /\ \A s \in DOMAIN sessions : sessions'[s].players = sessions[s].players
      <4> DEFINE staged == [sessions EXCEPT ![m].stage = "erased"]
      <4>1. /\ DOMAIN staged = DOMAIN sessions
            /\ \A s \in DOMAIN sessions : staged[s].players = sessions[s].players
        BY <1>1, StagePlayers
      <4>2. sessions' = staged
        BY <3>2
      <4> HIDE DEF staged
      <4> QED BY <4>1, <4>2
    <3> QED BY <3>1, <3>2
  <2> QED BY <2>1, <2>2, <2>3, NothingCounts
<1> QED BY <1>2, <1>3

\* The pair that a balancing saw is the pair that it pops, and each push is in
\* one place.
LEMMA PushNext ==
    ASSUME PushInv, [Next]_vars
    PROVE  PushInv'
<1>1. MatchmakingInv'
  BY MatchmakingNext DEF PushInv
<1>2. ASSUME NEW k \in Clients, StartEnqueue(k) \/ Step(k) PROVE Enough' /\ EveryPushCounts'
  BY <1>2, AskCounts, PopCounts, BalanceCounts DEF Step
<1>3. Enough' /\ EveryPushCounts'
  BY <1>2, OthersCount DEF Next
<1> QED BY <1>1, <1>3 DEF PushInv

\* Every push of a user leads to one place, the queue, the balancer's hands, a
\* match or a restart: no player is paired twice and none is popped for nothing
\* (MatchmakingBalancer::Ballance, matchmaking_balancer.cpp:8-21).
THEOREM PushesCount == Spec => []EveryPushCounts
<1>1. Init => PushInv
  <2> SUFFICES ASSUME Init PROVE PushInv
    OBVIOUS
  <2>1. MatchmakingInv
    BY MatchmakingInit
  <2>2. Enough
    BY DEF Init, Enough, EnoughAt
  <2>3. ASSUME NEW u \in Users
        PROVE  pushed[u] = Times(u, queue) + Times(u, InHand) + lost[u] + Matched(u)
    <3>1. queue = <<>> /\ InHand = <<>> /\ sessions = <<>> /\ pushed[u] = 0 /\ lost[u] = 0
      BY DEF Init, InHand
    <3>2. Times(u, <<>>) = 0
      <4>1. <<>> \in Seq(Users)
        OBVIOUS
      <4> QED BY <4>1, TimesType
    <3>3. Matched(u) = 0
      <4>1. DOMAIN sessions = {}
        BY <3>1
      <4>2. {seat \in (DOMAIN sessions) \X {1, 2} : sessions[seat[1]].players[seat[2]] = u} = {}
        BY <4>1
      <4> QED BY <4>2, FS_EmptySet DEF Matched
    <3> QED BY <3>1, <3>2, <3>3
  <2> QED BY <2>1, <2>2, <2>3 DEF PushInv, EveryPushCounts
<1>2. PushInv /\ [Next]_vars => PushInv'
  BY PushNext
<1>3. PushInv => EveryPushCounts
  BY DEF PushInv
<1> QED BY <1>1, <1>2, <1>3, PTL DEF Spec

=============================================================================
