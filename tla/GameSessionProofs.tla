------------------------- MODULE GameSessionProofs --------------------------
(***************************************************************************)
(* What a match keeps, for any posted states, targets and lists of objects *)
(* of any length.                                                          *)
(***************************************************************************)
EXTENDS GameSession, FiniteSetTheorems, SequenceTheorems, WellFoundedInduction, TLAPS

-----------------------------------------------------------------------------
(* Folds. A fold is a function that some CHOOSE picks; natural numbers are  *)
(* well-founded, and that is enough to show that there is one and that all  *)
(* of its values are in a set that its operator does not leave.             *)

\* A set of numbers has a least one.
LEMMA Least ==
    ASSUME NEW T \in SUBSET Nat, T # {}
    PROVE  \E n \in T : \A m \in T : n <= m
<1> DEFINE Less == OpToRel(<, Nat)
<1>1. IsWellFoundedOn(Less, Nat)
  BY NatLessThanWellFounded
<1>2. \A m, n \in Nat : m < n => <<m, n>> \in Less
  BY DEF OpToRel
<1> HIDE DEF Less
<1>3. PICK n \in T : \A m \in T : ~(<<m, n>> \in Less)
  BY <1>1, WFMin
<1>4. ASSUME NEW m \in T PROVE n <= m
  <2>1. ~(<<m, n>> \in Less) /\ m \in Nat /\ n \in Nat
    BY <1>3
  <2>2. ~(m < n)
    BY <1>2, <2>1, Zenon
  <2> QED BY <2>1, <2>2
<1> QED BY <1>4

\* Induction: a set of numbers that has the first and with each the next one.
LEMMA Chain ==
    ASSUME NEW T \in SUBSET Nat, 0 \in T, \A n \in T : n + 1 \in T
    PROVE  T = Nat
<1> DEFINE U == Nat \ T
<1>1. SUFFICES ASSUME U # {} PROVE FALSE
  OBVIOUS
<1>2. PICK n \in U : \A m \in U : n <= m
  BY <1>1, Least
<1>3. n # 0 /\ n - 1 \in Nat /\ n - 1 \notin U
  BY <1>2
<1>4. (n - 1) + 1 \in T
  BY <1>3
<1> QED BY <1>3, <1>4

\* The largest of some first numbers.
LEMMA MaxOf ==
    ASSUME NEW k \in Nat, NEW s \in SUBSET (1..(k + 1)), k + 1 \in s
    PROVE  Max(s) = k + 1 /\ s \ {k + 1} \in SUBSET (1..k)
<1>1. \A x \in s : x \in Int /\ k + 1 >= x
  OBVIOUS
<1>2. \A x \in s : (\A y \in s : x >= y) => x = k + 1
  BY <1>1
<1>3. Max(s) = k + 1
  BY <1>1, <1>2 DEF Max
<1> QED BY <1>3

\* The largest of some first numbers is one of them.
LEMMA MaxIn ==
    ASSUME NEW n \in Nat, NEW s \in SUBSET (1..n), s # {}
    PROVE  Max(s) \in s /\ \A x \in s : Max(s) >= x
<1> DEFINE T == {n - x : x \in s}
<1>1. T \in SUBSET Nat /\ T # {}
  <2>1. \A x \in s : n - x \in Nat
    OBVIOUS
  <2> QED BY <2>1
<1>2. PICK m \in T : \A k \in T : m <= k
  BY <1>1, Least
<1>3. PICK x \in s : m = n - x
  BY <1>2
<1>4. ASSUME NEW y \in s PROVE x >= y
  <2>1. n - x <= n - y
    BY <1>2, <1>3
  <2>2. x \in Int /\ y \in Int
    OBVIOUS
  <2> QED BY <2>1, <2>2
<1> QED BY <1>4 DEF Max

\* The function that a fold by G of some first numbers is defined by.
IsFold(f, A, n, base, G) ==
    /\ f \in [SUBSET (1..n) -> A]
    /\ \A s \in SUBSET (1..n) : f[s] = IF s = {} THEN base ELSE G[Max(s)][f[s \ {Max(s)}]]

\* G does not leave the set.
Closed(G, A, n) == \A a \in A, i \in 1..n : G[i][a] \in A

\* There is one when G stays in a set.
LEMMA FoldExists ==
    ASSUME NEW A, NEW base \in A, NEW n \in Nat, NEW G, Closed(G, A, n)
    PROVE  \E f : IsFold(f, A, n, base, G)
<1> DEFINE T == {k \in Nat : k <= n => \E f : IsFold(f, A, k, base, G)}
<1>1. 0 \in T
  <2> DEFINE f == [s \in SUBSET (1..0) |-> base]
  <2>1. \A s \in SUBSET (1..0) : s = {}
    OBVIOUS
  <2>2. IsFold(f, A, 0, base, G)
    BY <2>1 DEF IsFold
  <2> QED BY <2>2
<1>2. ASSUME NEW k \in T PROVE k + 1 \in T
  <2>1. SUFFICES ASSUME k + 1 <= n PROVE \E f : IsFold(f, A, k + 1, base, G)
    OBVIOUS
  <2>2. k <= n /\ k + 1 \in 1..n
    BY <2>1
  <2>3. PICK f : IsFold(f, A, k, base, G)
    BY <2>2
  <2> DEFINE more == [s \in SUBSET (1..(k + 1)) |->
                        IF k + 1 \in s THEN G[k + 1][f[s \ {k + 1}]] ELSE f[s]]
  <2>4. ASSUME NEW s \in SUBSET (1..(k + 1))
        PROVE  more[s] \in A /\ more[s] = IF s = {} THEN base ELSE G[Max(s)][more[s \ {Max(s)}]]
    <3>1. CASE k + 1 \in s
      <4>1. Max(s) = k + 1 /\ s \ {k + 1} \in SUBSET (1..k)
        BY <3>1, MaxOf
      <4>2. s \ {k + 1} \in SUBSET (1..(k + 1)) /\ k + 1 \notin s \ {k + 1}
        OBVIOUS
      <4>3. more[s \ {k + 1}] = f[s \ {k + 1}]
        BY <4>2
      <4>4. f[s \ {k + 1}] \in A
        BY <2>3, <4>1 DEF IsFold
      <4>5. more[s] = G[k + 1][f[s \ {k + 1}]]
        BY <3>1
      <4> QED BY <2>2, <3>1, <4>1, <4>3, <4>4, <4>5 DEF Closed
    <3>2. CASE k + 1 \notin s
      <4>1. s \in SUBSET (1..k)
        BY <3>2
      <4>2. more[s] = f[s]
        BY <3>2
      <4>3. s \ {Max(s)} \in SUBSET (1..(k + 1)) /\ k + 1 \notin s \ {Max(s)}
        BY <3>2
      <4>4. more[s \ {Max(s)}] = f[s \ {Max(s)}]
        BY <4>3
      <4> HIDE DEF more
      <4>5. f[s] \in A /\ f[s] = IF s = {} THEN base ELSE G[Max(s)][f[s \ {Max(s)}]]
        BY <2>3, <4>1 DEF IsFold
      <4> QED BY <4>2, <4>4, <4>5
    <3> QED BY <3>1, <3>2
  <2>5. IsFold(more, A, k + 1, base, G)
    BY <2>4 DEF IsFold
  <2> QED BY <2>5
<1> HIDE DEF T
<1>3. T = Nat
  BY <1>1, <1>2, Chain DEF T
<1>4. n \in T /\ n <= n
  BY <1>3
<1> QED BY <1>4 DEF T

\* A function that goes on with G while it is in the set: the form in which the
\* definition of a fold is found.
Follows(f, A, n, base, G) ==
    /\ f = [s \in SUBSET (1..n) |-> f[s]]
    /\ f[{}] = base
    /\ \A s \in SUBSET (1..n) :
          s # {} /\ f[s \ {Max(s)}] \in A => f[s] = G[Max(s)][f[s \ {Max(s)}]]

\* It stays in the set.
LEMMA FoldStays ==
    ASSUME NEW A, NEW base \in A, NEW n \in Nat, NEW G, NEW f,
           Closed(G, A, n), Follows(f, A, n, base, G)
    PROVE  IsFold(f, A, n, base, G)
<1> DEFINE P(k) == k <= n => \A s \in SUBSET (1..k) : f[s] \in A
           T == {k \in Nat : P(k)}
<1>1. P(0)
  <2>1. \A s \in SUBSET (1..0) : s = {}
    OBVIOUS
  <2> QED BY <2>1 DEF Follows
<1>2. ASSUME NEW k \in Nat, P(k), k + 1 <= n, NEW s \in SUBSET (1..(k + 1))
      PROVE  f[s] \in A
  <2>1. k <= n /\ k + 1 \in 1..n
    BY <1>2
  <2>2. \A r \in SUBSET (1..k) : f[r] \in A
    BY <1>2, <2>1
  <2>3. CASE k + 1 \in s
    <3>1. Max(s) = k + 1 /\ s \ {k + 1} \in SUBSET (1..k)
      BY <2>3, MaxOf
    <3>2. s \in SUBSET (1..n) /\ s # {}
      BY <1>2, <2>3
    <3>3. f[s] = G[k + 1][f[s \ {k + 1}]] /\ f[s \ {k + 1}] \in A
      BY <2>2, <3>1, <3>2 DEF Follows
    <3> QED BY <2>1, <3>3 DEF Closed
  <2>4. CASE k + 1 \notin s
    <3>1. s \in SUBSET (1..k)
      BY <2>4
    <3> QED BY <2>2, <3>1
  <2> QED BY <2>3, <2>4
<1>3. \A k \in Nat : P(k) => P(k + 1)
  BY <1>2
<1> HIDE DEF P
<1>4. 0 \in T /\ \A k \in T : k + 1 \in T
  BY <1>1, <1>3
<1>5. P(n)
  <2> HIDE DEF T
  <2>1. T \in SUBSET Nat
    BY DEF T
  <2>2. T = Nat
    BY <1>4, <2>1, Chain
  <2>3. n \in T
    BY <2>2
  <2> QED BY <2>3 DEF T
<1>6. \A s \in SUBSET (1..n) : f[s] \in A
  BY <1>5 DEF P
<1>7. \A s \in SUBSET (1..n) : s # {} => f[s] = G[Max(s)][f[s \ {Max(s)}]]
  <2> TAKE s \in SUBSET (1..n)
  <2>1. s \ {Max(s)} \in SUBSET (1..n)
    OBVIOUS
  <2> QED BY <1>6, <2>1 DEF Follows
<1>8. f \in [SUBSET (1..n) -> A]
  BY <1>6 DEF Follows
<1> QED BY <1>7, <1>8 DEF IsFold, Follows

\* Where a fold of the first numbers is: if a step leads from each set of a
\* row to the next one, it ends in the last one.
LEMMA FoldReaches ==
    ASSUME NEW A, NEW base, NEW n \in Nat, NEW G, NEW f, IsFold(f, A, n, base, G),
           NEW B, base \in B[0],
           \A k \in 1..n, a \in A : a \in B[k - 1] => G[k][a] \in B[k]
    PROVE  f[1..n] \in B[n]
<1> DEFINE T == {k \in Nat : k <= n => f[1..k] \in B[k]}
<1>1. 0 \in T
  <2>1. 1..0 = {} /\ {} \in SUBSET (1..n)
    OBVIOUS
  <2> QED BY <2>1 DEF IsFold
<1>2. ASSUME NEW k \in T PROVE k + 1 \in T
  <2>1. SUFFICES ASSUME k + 1 <= n PROVE f[1..(k + 1)] \in B[k + 1]
    OBVIOUS
  <2>2. /\ k \in Nat /\ k <= n /\ k + 1 \in 1..n /\ (k + 1) - 1 = k
        /\ 1..(k + 1) \in SUBSET (1..n) /\ 1..k \in SUBSET (1..n) /\ 1..(k + 1) # {}
        /\ k + 1 \in 1..(k + 1) /\ (1..(k + 1)) \ {k + 1} = 1..k
    <3>1. k \in Nat /\ k <= n /\ k + 1 \in 1..n /\ (k + 1) - 1 = k /\ k + 1 \in 1..(k + 1)
      BY <2>1
    <3>2. \A i \in 1..(k + 1) : i \in 1..n /\ (i = k + 1 \/ i \in 1..k)
      BY <2>1, <3>1
    <3>3. \A i \in 1..k : i \in 1..n /\ i \in 1..(k + 1) /\ i # k + 1
      BY <2>1, <3>1
    <3> QED BY <3>1, <3>2, <3>3
  <2>3. Max(1..(k + 1)) = k + 1
    BY <2>2, MaxOf
  <2>4. f[1..(k + 1)] = G[k + 1][f[1..k]] /\ f[1..k] \in A
    BY <2>2, <2>3 DEF IsFold
  <2>5. f[1..k] \in B[k]
    BY <2>2
  <2> QED BY <2>2, <2>4, <2>5
<1> HIDE DEF T
<1>3. T = Nat
  BY <1>1, <1>2, Chain DEF T
<1>4. n \in T /\ n <= n
  BY <1>3
<1> QED BY <1>4 DEF T

-----------------------------------------------------------------------------
(* What a sweep keeps of the world w0 it began with.                        *)

\* The fields that a kind does not have are as its constructor left them.
Canonical(o) == /\ o.kind = "bomb" => o.dir = "up" /\ o.shots = 0
                /\ o.kind = "bullet" => o.ticks = 0 /\ o.shots = 0
Canonicals == {o \in Objects : Canonical(o)}
Elements == [node : Nat \ {0}, obj : Canonicals]
Worlds == [players : [Player -> Int \X Int], nextId : Nat, board : Seq(Player), log : Logs,
           list : Seq(Elements), fresh : Nat \ {0}, prev : Nat, it : Nat, running : BOOLEAN,
           ub : BOOLEAN]

TickKinds == {"bomb_ticking", "bomb_explode", "gun_waiting", "gun_shot", "gun_destroy",
              "bullet_fly", "bullet_interaction", "bullet_destroy"}

\* A log that went on with events of objects.
GoesOn(old, new) ==
    /\ new \in Logs
    /\ Len(old.value) <= Len(new.value)
    /\ \A i \in DOMAIN old.value : new.value[i] = old.value[i]
    /\ \A i \in DOMAIN new.value :
          i > Len(old.value) => new.value[i].event.kind \in TickKinds

\* The cells under objects.
Cells(w) == {w.list[i].obj.pos : i \in DOMAIN w.list}

\* From w to u: the players stay, the log goes on, no result is taken back,
\* and an object is only where one was or at `more'.
Kept(w, u, more) ==
    /\ u \in Worlds
    /\ u.players = w.players
    /\ GoesOn(w.log, u.log)
    /\ u.board = <<>> => w.board = <<>>
    /\ Cells(u) \subseteq Cells(w) \cup more

\* The iterators and the flag of the loop stay.
SameLoop(w, u) == u.prev = w.prev /\ u.it = w.it /\ u.running = w.running

\* A world is kept by doing nothing, and by one step after the other.
LEMMA KeptSame ==
    ASSUME NEW w \in Worlds, NEW more
    PROVE  Kept(w, w, more)
<1>1. w.log \in Logs /\ w.log.value \in Seq(Events)
  BY DEF Worlds, Logs
<1>2. Len(w.log.value) \in Nat /\ DOMAIN w.log.value = 1..Len(w.log.value)
  BY <1>1
<1>3. GoesOn(w.log, w.log)
  BY <1>1, <1>2 DEF GoesOn
<1> QED BY <1>3 DEF Kept

\* One piece of work after another: Kept is transitive.
LEMMA KeptOn ==
    ASSUME NEW v \in Worlds, NEW w, NEW u, NEW more, Kept(v, w, more), Kept(w, u, more)
    PROVE  Kept(v, u, more)
<1>1. /\ v.log.value \in Seq(Events) /\ w.log.value \in Seq(Events)
      /\ u.log.value \in Seq(Events) /\ u \in Worlds
  BY DEF Kept, Worlds, Logs, GoesOn
<1>2. GoesOn(v.log, w.log) /\ GoesOn(w.log, u.log)
  BY DEF Kept
<1>3. GoesOn(v.log, u.log)
  BY <1>1, <1>2 DEF GoesOn
<1> QED BY <1>1, <1>3 DEF Kept

\* Events of objects are added.
LEMMA EmitKept ==
    ASSUME NEW w \in Worlds, NEW kind \in TickKinds, NEW id \in Nat, NEW more
    PROVE  Kept(w, Emit(w, kind, id), more) /\ SameLoop(w, Emit(w, kind, id))
           /\ Emit(w, kind, id).list = w.list
<1> DEFINE l == AddEvent(w.log, [kind |-> kind, actor |-> id])
           e == [move |-> w.log.move, event |-> [kind |-> kind, actor |-> id]]
<1>1. /\ w.log \in Logs /\ w.log.value \in Seq(Events) /\ w.log.from \in Seq(Nat)
      /\ w.log.move \in Nat /\ Len(w.log.value) \in Nat
      /\ DOMAIN w.log.value = 1..Len(w.log.value)
  BY DEF Worlds, Logs
<1>2. e \in Events
  BY <1>1 DEF Events, TickKinds, EventKinds
<1>3. l.value = Append(w.log.value, e) /\ l \in Logs
  <2>1. l = [w.log EXCEPT !.value = Append(w.log.value, e),
                          !.from = IF OpensMove(w.log) THEN Append(w.log.from, Len(w.log.value))
                                   ELSE w.log.from]
    BY <1>1 DEF AddEvent, Logs
  <2> HIDE DEF l, e
  <2>2. Append(w.log.value, e) \in Seq(Events) /\ Append(w.log.from, Len(w.log.value)) \in Seq(Nat)
    BY <1>1, <1>2
  <2>3. l.value = Append(w.log.value, e) /\ l.from \in Seq(Nat)
    BY <1>1, <2>1, <2>2 DEF Logs
  <2>4. l \in Logs
    BY <1>1, <2>1, <2>2 DEF Logs
  <2> QED BY <2>3, <2>4
<1>4. GoesOn(w.log, l)
  <2>1. e.event.kind \in TickKinds
    OBVIOUS
  <2> HIDE DEF l, e
  <2> QED BY <1>1, <1>2, <1>3, <2>1 DEF GoesOn
<1> DEFINE u == Emit(w, kind, id)
<1>5. u = [w EXCEPT !.log = l]
  BY DEF Emit
<1> HIDE DEF l, u
<1>6. u \in Worlds
  BY <1>3, <1>5 DEF Worlds
<1>7. u.log = l /\ u.players = w.players /\ u.board = w.board /\ u.list = w.list /\ SameLoop(w, u)
  BY <1>5 DEF SameLoop, Worlds
<1>8. Cells(u) = Cells(w)
  BY <1>7 DEF Cells
<1> QED BY <1>4, <1>6, <1>7, <1>8 DEF Kept, u

\* An element is where its node is.
LEMMA AtNode ==
    ASSUME NEW w \in Worlds, NEW node, IsIn(w, node)
    PROVE  /\ At(w, node) \in DOMAIN w.list /\ w.list[At(w, node)].node = node
           /\ At(w, node) \in 1..Len(w.list) /\ w.list[At(w, node)] \in Elements
           /\ node \in Nat \ {0}
<1>1. At(w, node) \in DOMAIN w.list /\ w.list[At(w, node)].node = node
  BY DEF IsIn, At
<1>2. w.list \in Seq(Elements)
  BY DEF Worlds
<1>3. w.list[At(w, node)] \in Elements
  BY <1>1, <1>2
<1> QED BY <1>1, <1>2, <1>3 DEF Elements

\* An object is moved or counts.
LEMMA PutKept ==
    ASSUME NEW w \in Worlds, NEW node, IsIn(w, node), NEW o \in Canonicals
    PROVE  /\ Kept(w, Put(w, node, o), {o.pos}) /\ SameLoop(w, Put(w, node, o))
           /\ IsIn(Put(w, node, o), node) /\ At(Put(w, node, o), node) = At(w, node)
           /\ Put(w, node, o).list[At(w, node)].obj = o
<1> DEFINE i == At(w, node)
           u == Put(w, node, o)
<1>1. /\ i \in DOMAIN w.list /\ w.list[i] \in Elements /\ w.list[i].node = node
      /\ w.list \in Seq(Elements)
  BY AtNode DEF Worlds
<1>2. u = [w EXCEPT !.list = [w.list EXCEPT ![i].obj = o]]
  BY DEF Put, Worlds
<1>3. [w.list[i] EXCEPT !.obj = o] \in Elements
  BY <1>1 DEF Elements
<1>4. u.list = [w.list EXCEPT ![i] = [w.list[i] EXCEPT !.obj = o]] /\ u.list \in Seq(Elements)
  BY <1>1, <1>2, <1>3 DEF Worlds
<1>5. u \in Worlds
  BY <1>2, <1>4 DEF Worlds
<1>6. \A j \in DOMAIN u.list : u.list[j].node = w.list[j].node /\ j \in DOMAIN w.list
  BY <1>1, <1>4 DEF Elements
<1>7. At(u, node) = i /\ IsIn(u, node)
  <2>1. DOMAIN u.list = DOMAIN w.list
    BY <1>4
  <2> QED BY <1>1, <1>6, <2>1 DEF At, IsIn
<1>8. u.list[i].obj = o
  BY <1>1, <1>4 DEF Elements
<1>9. Cells(u) \subseteq Cells(w) \cup {o.pos}
  <2>1. ASSUME NEW j \in DOMAIN u.list PROVE u.list[j].obj.pos \in Cells(w) \cup {o.pos}
    BY <1>1, <1>4, <1>6, <1>8 DEF Cells
  <2> QED BY <2>1 DEF Cells
<1>10. u.players = w.players /\ u.log = w.log /\ u.board = w.board /\ SameLoop(w, u)
  BY <1>2 DEF SameLoop, Worlds
<1> HIDE DEF u
<1>11. Kept(w, u, {o.pos})
  BY <1>5, <1>9, <1>10, KeptSame DEF Kept
<1> QED BY <1>7, <1>8, <1>10, <1>11 DEF u

\* An element leaves the list.
LEMMA RemoveKept ==
    ASSUME NEW w \in Worlds, NEW id, NEW more
    PROVE  Kept(w, RemoveObject(w, id), more) /\ SameLoop(w, RemoveObject(w, id))
<1> DEFINE same == {i \in DOMAIN w.list : w.list[i].obj.id = id}
           k == CHOOSE i \in same : \A j \in same : i <= j
           u == RemoveObject(w, id)
<1>1. w.list \in Seq(Elements) /\ DOMAIN w.list = 1..Len(w.list) /\ Len(w.list) \in Nat
  BY DEF Worlds
<1>2. CASE same = {}
  <2>1. u = [w EXCEPT !.ub = TRUE]
    BY <1>2 DEF RemoveObject
  <2>2. u \in Worlds /\ u.list = w.list
    BY <2>1 DEF Worlds
  <2>3. u.players = w.players /\ u.log = w.log /\ u.board = w.board /\ SameLoop(w, u)
    BY <2>1 DEF SameLoop, Worlds
  <2>4. Cells(u) = Cells(w)
    BY <2>2 DEF Cells
  <2> QED BY <2>2, <2>3, <2>4, KeptSame DEF Kept
<1>3. CASE same # {}
  <2>1. u = [w EXCEPT !.list = RemoveAt(w.list, k)]
    BY <1>3 DEF RemoveObject, Worlds
  <2>2. k \in same
    <3>1. same \in SUBSET Nat
      BY <1>1
    <3>2. \E i \in same : \A j \in same : i <= j
      BY <1>3, <3>1, Least
    <3> QED BY <3>2
  <2> HIDE DEF k
  <2>3. k \in 1..Len(w.list)
    BY <1>1, <2>2
  <2> DEFINE a == SubSeq(w.list, 1, k - 1)
             b == SubSeq(w.list, k + 1, Len(w.list))
  <2>4. /\ a \in Seq(Elements) /\ Len(a) = k - 1
        /\ \A i \in 1..(k - 1) : a[i] = w.list[i]
    BY <1>1, <2>3
  <2>5. /\ b \in Seq(Elements) /\ Len(b) = Len(w.list) - k
        /\ \A i \in 1..(Len(w.list) - k) : b[i] = w.list[k + i]
    BY <1>1, <2>3
  <2> HIDE DEF a, b
  <2>6. u.list = a \o b
    BY <2>1 DEF RemoveAt, a, b, Worlds
  <2>7. a \o b \in Seq(Elements)
    BY <2>4, <2>5
  <2>8. u \in Worlds
    BY <2>1, <2>6, <2>7 DEF Worlds
  <2>9. ASSUME NEW i \in DOMAIN u.list
        PROVE  \E j \in DOMAIN w.list : u.list[i] = w.list[j]
    <3>1. i \in 1..(Len(a) + Len(b))
      BY <2>4, <2>5, <2>6
    <3>2. CASE i <= k - 1
      <4>1. u.list[i] = w.list[i] /\ i \in DOMAIN w.list
        BY <1>1, <2>3, <2>4, <2>5, <2>6, <3>1, <3>2
      <4> QED BY <4>1
    <3>3. CASE ~(i <= k - 1)
      <4>1. i \in Int /\ i - (k - 1) \in 1..(Len(w.list) - k)
        BY <1>1, <2>3, <2>4, <2>5, <3>1, <3>3
      <4>2. u.list[i] = b[i - (k - 1)]
        BY <2>3, <2>4, <2>5, <2>6, <3>1, <3>3
      <4>3. u.list[i] = w.list[k + (i - (k - 1))] /\ k + (i - (k - 1)) \in DOMAIN w.list
        BY <1>1, <2>3, <2>5, <4>1, <4>2
      <4> QED BY <4>3
    <3> QED BY <3>2, <3>3
  <2>10. Cells(u) \subseteq Cells(w)
    BY <2>9 DEF Cells
  <2>11. u.players = w.players /\ u.log = w.log /\ u.board = w.board /\ SameLoop(w, u)
    BY <2>1 DEF SameLoop, Worlds
  <2> QED BY <2>8, <2>10, <2>11, KeptSame DEF Kept
<1> QED BY <1>2, <1>3

-----------------------------------------------------------------------------
(* One object is ticked.                                                    *)

\* A player's death is a result.
LEMMA DieKept ==
    ASSUME NEW w \in Worlds, NEW p, NEW more
    PROVE  /\ Kept(w, Die(w, p), more) /\ SameLoop(w, Die(w, p)) /\ Die(w, p).board # <<>>
           /\ Die(w, p).list = w.list
<1> DEFINE u == Die(w, p)
<1>1. w.board \in Seq(Player)
  BY DEF Worlds
<1>2. PICK r \in {<<1, 2>>, <<2, 1>>} : u = [w EXCEPT !.board = w.board \o r]
  <2>1. \/ u = [w EXCEPT !.board = w.board \o <<1, 2>>]
        \/ u = [w EXCEPT !.board = w.board \o <<2, 1>>]
    BY DEF Die, Finish
  <2> HIDE DEF u
  <2> QED BY <2>1
<1> HIDE DEF u
<1>3. r \in Seq(Player) /\ Len(r) = 2
  <2>1. <<1, 2>> \in Seq(Player) /\ <<2, 1>> \in Seq(Player)
    BY DEF Player
  <2> QED BY <2>1
<1>4. w.board \o r \in Seq(Player) /\ w.board \o r # <<>>
  BY <1>1, <1>3
<1>5. u \in Worlds /\ u.board # <<>>
  BY <1>2, <1>4 DEF Worlds
<1>6. u.log = w.log /\ u.players = w.players /\ u.list = w.list /\ SameLoop(w, u)
  BY <1>2 DEF SameLoop, Worlds
<1>7. Cells(u) = Cells(w)
  BY <1>6 DEF Cells
<1> QED BY <1>5, <1>6, <1>7, KeptSame DEF Kept, u

\* IPlaceable::Explode only makes players die who stand in the blast.
LEMMA ExplodeKept ==
    ASSUME NEW w \in Worlds, NEW pos, NEW more
    PROVE  Kept(w, Explode(w, pos), more) /\ SameLoop(w, Explode(w, pos))
<1>1. \/ Explode(w, pos) = w
      \/ \E p : Explode(w, pos) = Die(w, p)
  BY DEF Explode
<1> QED BY <1>1, KeptSame, DieKept DEF SameLoop

\* What the object at the iterator is.
LEMMA Ticking ==
    ASSUME NEW w \in Worlds, NEW node, IsIn(w, node)
    PROVE  LET o == w.list[At(w, node)].obj
           IN  o \in Canonicals /\ o.id \in Nat /\ o.pos \in Cells(w) /\ o.ticks \in Int
               /\ o.shots \in Int /\ o.pos \in Int \X Int /\ o.dir \in Direction
<1> DEFINE e == w.list[At(w, node)]
<1>1. e \in Elements /\ At(w, node) \in DOMAIN w.list
  BY AtNode
<1>2. e.obj.pos \in Cells(w)
  BY <1>1 DEF Cells
<1> HIDE DEF e
<1>3. e.obj \in Canonicals
  BY <1>1 DEF Elements
<1> QED BY <1>2, <1>3 DEF Canonicals, Objects, e

\* An object that appeared on an object's cell took no new cell.
LEMMA KeptLess ==
    ASSUME NEW w, NEW u, NEW pos \in Cells(w), Kept(w, u, {pos})
    PROVE  Kept(w, u, {})
BY DEF Kept

\* SameLoop is transitive.
LEMMA LoopOn ==
    ASSUME NEW v, NEW w, NEW u, SameLoop(v, w), SameLoop(w, u)
    PROVE  SameLoop(v, u)
BY DEF SameLoop

\* A bomb's tick takes no cell: it counts, or explodes and is removed.
LEMMA TickBombKept ==
    ASSUME NEW w \in Worlds, NEW node, IsIn(w, node), w.list[At(w, node)].obj.kind = "bomb"
    PROVE  LET u == TickBomb(w, node, w.list[At(w, node)].obj)
           IN  Kept(w, u, {}) /\ SameLoop(w, u)
<1> DEFINE o == w.list[At(w, node)].obj
           c == [o EXCEPT !.ticks = @ - 1]
           counted == Put(w, node, c)
           exploded == Explode(counted, o.pos)
           removed == RemoveObject(exploded, o.id)
           u == TickBomb(w, node, o)
<1>1. o \in Canonicals /\ o.id \in Nat /\ o.pos \in Cells(w) /\ o.ticks \in Int /\ o.kind = "bomb"
  BY Ticking
<1> HIDE DEF o
<1>2. c \in Canonicals /\ c.pos = o.pos
  BY <1>1 DEF Canonicals, Canonical, Objects
<1> HIDE DEF c
<1>3. /\ Kept(w, counted, {o.pos}) /\ SameLoop(w, counted) /\ counted \in Worlds
  <2>1. Kept(w, counted, {o.pos}) /\ SameLoop(w, counted)
    BY <1>2, PutKept
  <2> QED BY <2>1 DEF Kept
<1> HIDE DEF counted
<1>4. Kept(counted, exploded, {o.pos}) /\ SameLoop(counted, exploded) /\ exploded \in Worlds
  BY <1>3, ExplodeKept DEF Kept
<1> HIDE DEF exploded
<1>5. Kept(exploded, removed, {o.pos}) /\ SameLoop(exploded, removed) /\ removed \in Worlds
  BY <1>4, RemoveKept DEF Kept
<1> HIDE DEF removed
<1>6. Kept(w, removed, {o.pos}) /\ SameLoop(w, removed)
  BY <1>3, <1>4, <1>5, KeptOn, LoopOn
<1>7. u \in {Emit(counted, "bomb_ticking", o.id), Emit(removed, "bomb_explode", o.id)}
  BY DEF TickBomb, counted, exploded, removed, c
<1> HIDE DEF u
<1>8. Kept(w, u, {o.pos}) /\ SameLoop(w, u)
  <2>1. "bomb_ticking" \in TickKinds /\ "bomb_explode" \in TickKinds
    BY DEF TickKinds
  <2>2. CASE u = Emit(counted, "bomb_ticking", o.id)
    <3>1. Kept(counted, u, {o.pos}) /\ SameLoop(counted, u)
      BY <1>1, <1>3, <2>1, <2>2, EmitKept
    <3> QED BY <1>3, <3>1, KeptOn, LoopOn
  <2>3. CASE u = Emit(removed, "bomb_explode", o.id)
    <3>1. Kept(removed, u, {o.pos}) /\ SameLoop(removed, u)
      BY <1>1, <1>5, <2>1, <2>3, EmitKept
    <3> QED BY <1>6, <3>1, KeptOn, LoopOn
  <2> QED BY <1>7, <2>2, <2>3
<1> QED BY <1>1, <1>8, KeptLess DEF o, u

\* A bullet is appended.
LEMMA ShotKept ==
    ASSUME NEW w \in Worlds, NEW pos \in Int \X Int, NEW d \in Direction
    PROVE  LET u == [w EXCEPT
                       !.list = Append(@, [node |-> w.fresh, obj |-> Bullet(pos, d, w.nextId)]),
                       !.fresh = @ + 1,
                       !.nextId = @ + 1]
           IN  Kept(w, u, {pos}) /\ SameLoop(w, u)
<1> DEFINE b == Bullet(pos, d, w.nextId)
           e == [node |-> w.fresh, obj |-> b]
           u == [w EXCEPT !.list = Append(@, e), !.fresh = @ + 1, !.nextId = @ + 1]
<1>1. /\ w.list \in Seq(Elements) /\ w.fresh \in Nat \ {0} /\ w.nextId \in Nat
      /\ Len(w.list) \in Nat /\ DOMAIN w.list = 1..Len(w.list)
  BY DEF Worlds
<1>2. b \in Canonicals /\ b.pos = pos
  BY <1>1 DEF Bullet, Canonicals, Canonical, Objects
<1> HIDE DEF b
<1>3. e \in Elements /\ e.obj.pos = pos
  BY <1>1, <1>2 DEF Elements
<1> HIDE DEF e
<1>4. Append(w.list, e) \in Seq(Elements) /\ w.fresh + 1 \in Nat \ {0} /\ w.nextId + 1 \in Nat
  BY <1>1, <1>3
<1>5. u \in Worlds /\ u.list = Append(w.list, e)
  BY <1>4 DEF Worlds
<1>6. u.log = w.log /\ u.players = w.players /\ u.board = w.board /\ SameLoop(w, u)
  BY DEF SameLoop, Worlds
<1> HIDE DEF u
<1>7. Cells(u) \subseteq Cells(w) \cup {pos}
  <2>1. ASSUME NEW j \in DOMAIN u.list PROVE u.list[j].obj.pos \in Cells(w) \cup {pos}
    <3>1. j \in 1..(Len(w.list) + 1)
      BY <1>1, <1>3, <1>5
    <3>2. CASE j = Len(w.list) + 1
      BY <1>1, <1>3, <1>5, <3>2
    <3>3. CASE j # Len(w.list) + 1
      <4>1. j \in DOMAIN w.list /\ u.list[j] = w.list[j]
        BY <1>1, <1>3, <1>5, <3>1, <3>3
      <4> QED BY <4>1 DEF Cells
    <3> QED BY <3>2, <3>3
  <2> QED BY <2>1 DEF Cells
<1>8. Kept(w, u, {pos})
  BY <1>5, <1>6, <1>7, KeptSame DEF Kept
<1> QED BY <1>6, <1>8 DEF u, e, b

\* A gun's tick takes no cell but its own: its bullet begins where it stands.
LEMMA TickGunKept ==
    ASSUME NEW w \in Worlds, NEW node, IsIn(w, node), w.list[At(w, node)].obj.kind = "gun"
    PROVE  LET u == TickGun(w, node, w.list[At(w, node)].obj)
           IN  Kept(w, u, {}) /\ SameLoop(w, u)
<1> DEFINE o == w.list[At(w, node)].obj
           c == [o EXCEPT !.ticks = @ - 1]
           r == [o EXCEPT !.ticks = GunCooldown, !.shots = @ - 1]
           waiting == Put(w, node, c)
           reset == Put(w, node, r)
           shot == [reset EXCEPT
                    !.list = Append(@, [node |-> w.fresh, obj |-> Bullet(o.pos, o.dir, w.nextId)]),
                    !.fresh = @ + 1,
                    !.nextId = @ + 1]
           removed == RemoveObject(shot, o.id)
           told == Emit(removed, "gun_shot", o.id)
           u == TickGun(w, node, o)
<1>1. /\ o \in Canonicals /\ o.id \in Nat /\ o.pos \in Cells(w) /\ o.ticks \in Int
      /\ o.shots \in Int /\ o.kind = "gun" /\ o.pos \in Int \X Int /\ o.dir \in Direction
  BY Ticking
<1> HIDE DEF o
<1>2. c \in Canonicals /\ c.pos = o.pos /\ r \in Canonicals /\ r.pos = o.pos
  <2>1. c \in Canonicals /\ c.pos = o.pos
    BY <1>1 DEF Canonicals, Canonical, Objects
  <2>2. r \in Objects
    <3> DEFINE t == [o EXCEPT !.ticks = GunCooldown]
    <3>1. t \in Objects
      BY <1>1 DEF Canonicals, Objects, GunCooldown
    <3>2. r = [t EXCEPT !.shots = o.shots - 1]
      OBVIOUS
    <3> HIDE DEF t, r
    <3> QED BY <1>1, <3>1, <3>2 DEF Objects
  <2>3. r.kind = "gun" /\ r.pos = o.pos
    BY <1>1 DEF Canonicals, Objects
  <2>4. r \in Canonicals
    BY <2>2, <2>3 DEF Canonicals, Canonical
  <2> QED BY <2>1, <2>3, <2>4
<1> HIDE DEF c, r
<1>3. /\ Kept(w, waiting, {o.pos}) /\ SameLoop(w, waiting) /\ waiting \in Worlds
      /\ Kept(w, reset, {o.pos}) /\ SameLoop(w, reset) /\ reset \in Worlds
  <2>1. Kept(w, waiting, {o.pos}) /\ SameLoop(w, waiting)
    BY <1>2, PutKept
  <2>2. Kept(w, reset, {o.pos}) /\ SameLoop(w, reset)
    BY <1>2, PutKept
  <2> QED BY <2>1, <2>2 DEF Kept
<1>4. reset.fresh = w.fresh /\ reset.nextId = w.nextId
  BY DEF Put, Worlds
<1> HIDE DEF waiting, reset
<1>5. Kept(reset, shot, {o.pos}) /\ SameLoop(reset, shot) /\ shot \in Worlds
  <2>1. shot = [reset EXCEPT
                  !.list = Append(@, [node |-> reset.fresh, obj |-> Bullet(o.pos, o.dir, reset.nextId)]),
                  !.fresh = @ + 1,
                  !.nextId = @ + 1]
    BY <1>4
  <2> HIDE DEF shot
  <2>2. Kept(reset, shot, {o.pos}) /\ SameLoop(reset, shot)
    BY <1>1, <1>3, <2>1, ShotKept
  <2> QED BY <2>2 DEF Kept
<1>6. u \in {Emit(waiting, "gun_waiting", o.id), Emit(shot, "gun_shot", o.id),
             Emit(told, "gun_destroy", o.id)}
  BY DEF TickGun, waiting, reset, c, r
<1> HIDE DEF shot, u
<1>7. Kept(shot, removed, {o.pos}) /\ SameLoop(shot, removed) /\ removed \in Worlds
  BY <1>5, RemoveKept DEF Kept
<1> HIDE DEF removed
<1>8. "gun_waiting" \in TickKinds /\ "gun_shot" \in TickKinds /\ "gun_destroy" \in TickKinds
  BY DEF TickKinds
<1>9. Kept(removed, told, {o.pos}) /\ SameLoop(removed, told) /\ told \in Worlds
  BY <1>1, <1>7, <1>8, EmitKept DEF Kept
<1> HIDE DEF told
<1>10. Kept(w, shot, {o.pos}) /\ SameLoop(w, shot) /\ Kept(w, removed, {o.pos}) /\ SameLoop(w, removed)
  BY <1>3, <1>5, <1>7, KeptOn, LoopOn
<1>11. Kept(w, told, {o.pos}) /\ SameLoop(w, told)
  BY <1>9, <1>10, KeptOn, LoopOn
<1>12. Kept(w, u, {o.pos}) /\ SameLoop(w, u)
  <2>1. CASE u = Emit(waiting, "gun_waiting", o.id)
    <3>1. Kept(waiting, u, {o.pos}) /\ SameLoop(waiting, u)
      BY <1>1, <1>3, <1>8, <2>1, EmitKept
    <3> QED BY <1>3, <3>1, KeptOn, LoopOn
  <2>2. CASE u = Emit(shot, "gun_shot", o.id)
    <3>1. Kept(shot, u, {o.pos}) /\ SameLoop(shot, u)
      BY <1>1, <1>5, <1>8, <2>2, EmitKept
    <3> QED BY <1>10, <3>1, KeptOn, LoopOn
  <2>3. CASE u = Emit(told, "gun_destroy", o.id)
    <3>1. Kept(told, u, {o.pos}) /\ SameLoop(told, u)
      BY <1>1, <1>8, <1>9, <2>3, EmitKept
    <3> QED BY <1>11, <3>1, KeptOn, LoopOn
  <2> QED BY <1>6, <2>1, <2>2, <2>3
<1> QED BY <1>1, <1>12, KeptLess DEF o, u

-----------------------------------------------------------------------------
(* The folds of a tick do not leave a set that their steps do not leave.    *)

\* Interact stays in a set that each of its events stays in.
LEMMA InteractStays ==
    ASSUME NEW A, NEW w \in A, NEW hits \in Nat, NEW id,
           \A u \in A : Emit(u, "bullet_interaction", id) \in A
    PROVE  Interact(w, hits, id) \in A
<1> DEFINE n == hits
           Op(u, i) == Emit(u, "bullet_interaction", id)
           G == [i \in 1..n |-> [u \in A |-> Op(u, i)]]
           Def(f) == f = [s \in SUBSET (1..n) |->
                            IF s = {} THEN w ELSE Op(f[s \ {Max(s)}], Max(s))]
           h == CHOOSE f : Def(f)
<1>1. n \in Nat
  OBVIOUS
<1>2. Interact(w, hits, id) = h[1..n]
  BY <1>1 DEF Interact, FoldLeft, MapThenFoldSet
<1>3. \A u \in A, i \in 1..n : Op(u, i) \in A
  OBVIOUS
<1> HIDE DEF n, Op
<1>4. Closed(G, A, n)
  BY <1>3 DEF Closed
<1>5. PICK f : IsFold(f, A, n, w, G)
  BY <1>1, <1>4, FoldExists
<1>6. \A s \in SUBSET (1..n) : s # {} => Max(s) \in 1..n
  BY <1>1, MaxIn
<1>7. Def(f)
  <2>1. f \in [SUBSET (1..n) -> A]
    BY <1>5 DEF IsFold
  <2>2. \A s \in SUBSET (1..n) : f[s] \in A /\ f[s \ {Max(s)}] \in A
    BY <2>1
  <2>3. \A s \in SUBSET (1..n) : f[s] = IF s = {} THEN w ELSE Op(f[s \ {Max(s)}], Max(s))
    BY <1>5, <1>6, <2>2 DEF IsFold
  <2> QED BY <2>1, <2>3
<1>8. Def(h)
  BY <1>7, Zenon
<1> HIDE DEF h
<1>9. Follows(h, A, n, w, G)
  <2>1. h = [s \in SUBSET (1..n) |-> h[s]] /\ h[{}] = w
    BY <1>8
  <2>2. ASSUME NEW s \in SUBSET (1..n), s # {}, h[s \ {Max(s)}] \in A
        PROVE  h[s] = G[Max(s)][h[s \ {Max(s)}]]
    BY <1>6, <1>8, <2>2
  <2> QED BY <2>1, <2>2 DEF Follows
<1>10. h \in [SUBSET (1..n) -> A]
  BY <1>1, <1>4, <1>9, FoldStays DEF IsFold
<1>11. \A s \in SUBSET (1..n) : h[s] \in A
  BY <1>10
<1>12. 1..n \in SUBSET (1..n)
  OBVIOUS
<1> QED BY <1>2, <1>11, <1>12, Zenon

\* Strike stays in a set that removals stay in.
LEMMA StrikeStays ==
    ASSUME NEW A, NEW w \in A, w.list \in Seq(Elements), NEW pos, NEW id,
           \A u \in A, i \in DOMAIN w.list :
              w.list[i].obj.kind = "bullet" => RemoveObject(u, w.list[i].obj.id) \in A
    PROVE  Strike(w, pos, id) \in A
<1> DEFINE n == Len(w.list)
           Op(u, i) == IF w.list[i].obj.kind = "bullet" /\ Collides(w.list[i], pos, id)
                       THEN RemoveObject(u, w.list[i].obj.id) ELSE u
           G == [i \in 1..n |-> [u \in A |-> Op(u, i)]]
           Def(f) == f = [s \in SUBSET (1..n) |->
                            IF s = {} THEN w ELSE Op(f[s \ {Max(s)}], Max(s))]
           h == CHOOSE f : Def(f)
<1>1. n \in Nat /\ DOMAIN w.list = 1..n
  OBVIOUS
<1>2. Strike(w, pos, id) = h[1..n]
  BY <1>1 DEF Strike, FoldLeft, MapThenFoldSet
<1>3. \A u \in A, i \in 1..n : Op(u, i) \in A
  OBVIOUS
<1> HIDE DEF n, Op
<1>4. Closed(G, A, n)
  BY <1>3 DEF Closed
<1>5. PICK f : IsFold(f, A, n, w, G)
  BY <1>1, <1>4, FoldExists
<1>6. \A s \in SUBSET (1..n) : s # {} => Max(s) \in 1..n
  BY <1>1, MaxIn
<1>7. Def(f)
  <2>1. f \in [SUBSET (1..n) -> A]
    BY <1>5 DEF IsFold
  <2>2. \A s \in SUBSET (1..n) : f[s] \in A /\ f[s \ {Max(s)}] \in A
    BY <2>1
  <2>3. \A s \in SUBSET (1..n) : f[s] = IF s = {} THEN w ELSE Op(f[s \ {Max(s)}], Max(s))
    BY <1>5, <1>6, <2>2 DEF IsFold
  <2> QED BY <2>1, <2>3
<1>8. Def(h)
  BY <1>7, Zenon
<1> HIDE DEF h
<1>9. Follows(h, A, n, w, G)
  <2>1. h = [s \in SUBSET (1..n) |-> h[s]] /\ h[{}] = w
    BY <1>8
  <2>2. ASSUME NEW s \in SUBSET (1..n), s # {}, h[s \ {Max(s)}] \in A
        PROVE  h[s] = G[Max(s)][h[s \ {Max(s)}]]
    BY <1>6, <1>8, <2>2
  <2> QED BY <2>1, <2>2 DEF Follows
<1>10. h \in [SUBSET (1..n) -> A]
  BY <1>1, <1>4, <1>9, FoldStays DEF IsFold
<1>11. \A s \in SUBSET (1..n) : h[s] \in A
  BY <1>10
<1>12. 1..n \in SUBSET (1..n)
  OBVIOUS
<1> QED BY <1>2, <1>11, <1>12, Zenon

\* The number of what a bullet meets is a number.
LEMMA CollisionsNat ==
    ASSUME NEW w \in Worlds, NEW pos, NEW id
    PROVE  /\ Collisions(w, pos, id) \in Nat
           /\ \A p \in Player : w.players[p] = pos => Collisions(w, pos, id) # 0
           /\ pos \in DOMAIN state.walls => Collisions(w, pos, id) # 0
<1> DEFINE a == {i \in DOMAIN w.list : Collides(w.list[i], pos, id)}
           b == {p \in Player : w.players[p] = pos}
           c == IF pos \in DOMAIN state.walls THEN 1 ELSE 0
<1>1. IsFiniteSet(1..Len(w.list)) /\ DOMAIN w.list = 1..Len(w.list)
  <2>1. w.list \in Seq(Elements)
    BY DEF Worlds
  <2>2. Len(w.list) \in Nat /\ 1 \in Int
    BY <2>1
  <2> QED BY <2>1, <2>2, FS_Interval
<1>2. IsFiniteSet(a) /\ Cardinality(a) \in Nat
  BY <1>1, FS_Subset, FS_CardinalityType
<1>3. IsFiniteSet(b) /\ Cardinality(b) \in Nat
  <2>0. 1 \in Int /\ 2 \in Int
    OBVIOUS
  <2>1. IsFiniteSet(1..2)
    BY <2>0, FS_Interval, Zenon
  <2>2. b \subseteq 1..2
    BY DEF Player
  <2> QED BY <2>1, <2>2, FS_Subset, FS_CardinalityType
<1>4. Collisions(w, pos, id) = Cardinality(a) + Cardinality(b) + c
  BY DEF Collisions
<1>5. c \in Nat
  OBVIOUS
<1>6. \A p \in Player : w.players[p] = pos => Cardinality(b) # 0
  BY <1>3, FS_EmptySet
<1>7. pos \in DOMAIN state.walls => c = 1
  OBVIOUS
<1> HIDE DEF a, b, c
<1> DEFINE k == Collisions(w, pos, id)
           ca == Cardinality(a)
           cb == Cardinality(b)
<1>8. ca \in Nat /\ cb \in Nat /\ k = ca + cb + c
  BY <1>2, <1>3, <1>4
<1> HIDE DEF ca, cb, k
<1>9. k \in Nat /\ (cb # 0 => k # 0) /\ (c = 1 => k # 0)
  BY <1>5, <1>8
<1> QED BY <1>6, <1>7, <1>9 DEF k, cb

\* No player on the map is under an object.
Clear(w) == w.board = <<>> =>
    \A p \in Player : OnMap(state, w.players[p]) => w.players[p] \notin Cells(w)

\* What a whole tick keeps.
Swept(w, u) ==
    /\ u \in Worlds
    /\ u.players = w.players
    /\ GoesOn(w.log, u.log)
    /\ u.board = <<>> => w.board = <<>>
    /\ Clear(w) => Clear(u)

\* What takes no new cell is part of a sweep.
LEMMA KeptSwept ==
    ASSUME NEW w, NEW u, Kept(w, u, {})
    PROVE  Swept(w, u)
BY DEF Kept, Swept, Clear

\* Kill takes no cell, and a player on the cell has lost.
LEMMA KillKept ==
    ASSUME NEW w \in Worlds, NEW p, NEW pos, NEW more
    PROVE  LET u == Kill(w, p, pos)
           IN  /\ Kept(w, u, more) /\ SameLoop(w, u)
               /\ u.board = <<>> => w.players[p] # pos
<1>1. CASE w.players[p] = pos
  BY <1>1, DieKept DEF Kill
<1>2. CASE w.players[p] # pos
  BY <1>2, KeptSame DEF Kill, SameLoop
<1> QED BY <1>1, <1>2

\* The removal of the bullets on a cell takes no cell.
LEMMA StrikeKept ==
    ASSUME NEW w \in Worlds, NEW pos, NEW id, NEW more
    PROVE  Kept(w, Strike(w, pos, id), more) /\ SameLoop(w, Strike(w, pos, id))
<1> DEFINE A == {u \in Worlds : Kept(w, u, more) /\ SameLoop(w, u)}
<1>1. w \in A
  BY KeptSame DEF SameLoop
<1>2. ASSUME NEW u \in A, NEW j PROVE RemoveObject(u, j) \in A
  <2>1. Kept(u, RemoveObject(u, j), more) /\ SameLoop(u, RemoveObject(u, j))
    BY RemoveKept
  <2>2. RemoveObject(u, j) \in Worlds
    BY <2>1 DEF Kept
  <2> QED BY <2>1, <2>2, KeptOn, LoopOn
<1>3. w.list \in Seq(Elements)
  BY DEF Worlds
<1>4. Strike(w, pos, id) \in A
  <2> HIDE DEF A
  <2> QED BY <1>1, <1>2, <1>3, StrikeStays
<1> QED BY <1>4

\* The events of a collision take no cell.
LEMMA InteractKept ==
    ASSUME NEW w \in Worlds, NEW hits \in Nat, NEW id \in Nat, NEW more
    PROVE  Kept(w, Interact(w, hits, id), more) /\ SameLoop(w, Interact(w, hits, id))
<1> DEFINE A == {u \in Worlds : Kept(w, u, more) /\ SameLoop(w, u)}
<1>1. w \in A
  BY KeptSame DEF SameLoop
<1>2. ASSUME NEW u \in A PROVE Emit(u, "bullet_interaction", id) \in A
  <2> DEFINE v == Emit(u, "bullet_interaction", id)
  <2>1. "bullet_interaction" \in TickKinds
    BY DEF TickKinds
  <2>2. Kept(u, v, more) /\ SameLoop(u, v)
    BY <2>1, EmitKept
  <2> HIDE DEF v
  <2>3. v \in Worlds
    BY <2>2 DEF Kept
  <2>4. Kept(w, v, more) /\ SameLoop(w, v)
    BY <2>2, KeptOn, LoopOn
  <2> QED BY <2>3, <2>4 DEF v
<1>3. Interact(w, hits, id) \in A
  <2> HIDE DEF A
  <2> QED BY <1>1, <1>2, InteractStays
<1> QED BY <1>3

\* A bullet moves only to a cell that nothing and nobody is on; else it goes.
LEMMA TickBulletSwept ==
    ASSUME NEW w \in Worlds, NEW node, IsIn(w, node), w.list[At(w, node)].obj.kind = "bullet"
    PROVE  LET u == TickBullet(w, node, w.list[At(w, node)].obj)
           IN  Swept(w, u) /\ SameLoop(w, u)
<1> DEFINE o == w.list[At(w, node)].obj
           pos == NextCell(o.pos, o.dir)
           b == [o EXCEPT !.pos = pos]
           flown == Put(w, node, b)
           hits == Collisions(flown, pos, o.id)
           struck == Strike(flown, pos, o.id)
           first == Kill(struck, 1, pos)
           killed == Kill(first, 2, pos)
           removed == RemoveObject(killed, o.id)
           told == Interact(removed, hits, o.id)
           lost == RemoveObject(flown, o.id)
           u == TickBullet(w, node, o)
<1>1. o \in Canonicals /\ o.id \in Nat /\ o.kind = "bullet" /\ o.pos \in Int \X Int /\ o.dir \in Direction
  BY Ticking
<1> HIDE DEF o
<1>2. pos \in Int \X Int
  BY <1>1 DEF NextCell, Step, Direction
<1>3. u = IF ~OnMap(state, pos) THEN Emit(lost, "bullet_destroy", o.id)
          ELSE IF hits = 0 THEN Emit(flown, "bullet_fly", o.id)
          ELSE Emit(told, "bullet_destroy", o.id)
  BY DEF TickBullet
<1> HIDE DEF pos, u
<1>4. b \in Canonicals /\ b.pos = pos
  BY <1>1, <1>2 DEF Canonicals, Canonical, Objects
<1> HIDE DEF b
<1>5. Kept(w, flown, {pos}) /\ SameLoop(w, flown)
  BY <1>4, PutKept
<1> HIDE DEF flown
<1>6. flown \in Worlds
  BY <1>5 DEF Kept
<1>7. hits \in Nat /\ \A p \in Player : flown.players[p] = pos => hits # 0
  BY <1>6, CollisionsNat
<1> HIDE DEF hits
<1>8. Kept(flown, lost, {pos}) /\ SameLoop(flown, lost)
  BY <1>6, RemoveKept
<1>9. Kept(flown, struck, {pos}) /\ SameLoop(flown, struck)
  BY <1>6, StrikeKept
<1> HIDE DEF lost, struck
<1>10. lost \in Worlds /\ struck \in Worlds
  BY <1>8, <1>9 DEF Kept
<1>11. Kept(struck, first, {pos}) /\ SameLoop(struck, first) /\ (first.board = <<>> => struck.players[1] # pos)
  BY <1>10, KillKept
<1> HIDE DEF first
<1>12. first \in Worlds
  BY <1>11 DEF Kept
<1>13. Kept(first, killed, {pos}) /\ SameLoop(first, killed) /\ (killed.board = <<>> => first.players[2] # pos)
  BY <1>12, KillKept
<1> HIDE DEF killed
<1>14. killed \in Worlds
  BY <1>13 DEF Kept
<1>15. Kept(killed, removed, {pos}) /\ SameLoop(killed, removed)
  BY <1>14, RemoveKept
<1> HIDE DEF removed
<1>16. removed \in Worlds
  BY <1>15 DEF Kept
<1>17. Kept(removed, told, {pos}) /\ SameLoop(removed, told)
  BY <1>1, <1>7, <1>16, InteractKept
<1> HIDE DEF told
<1>18. told \in Worlds
  BY <1>17 DEF Kept
<1>19. "bullet_destroy" \in TickKinds /\ "bullet_fly" \in TickKinds
  BY DEF TickKinds
<1>20. ASSUME Kept(w, u, {pos}), OnMap(state, pos) /\ u.board = <<>> => \A p \in Player : w.players[p] # pos
       PROVE  Swept(w, u)
  <2>1. Clear(w) => Clear(u)
    BY <1>20 DEF Clear, Kept
  <2> QED BY <1>20, <2>1 DEF Kept, Swept
<1>21. CASE ~OnMap(state, pos)
  <2>1. u = Emit(lost, "bullet_destroy", o.id)
    BY <1>3, <1>21
  <2>2. Kept(lost, u, {pos}) /\ SameLoop(lost, u)
    BY <1>1, <1>10, <1>19, <2>1, EmitKept
  <2>3. Kept(w, u, {pos}) /\ SameLoop(w, u)
    <3>1. Kept(w, lost, {pos}) /\ SameLoop(w, lost)
      BY <1>5, <1>8, KeptOn, LoopOn
    <3> QED BY <2>2, <3>1, KeptOn, LoopOn
  <2> QED BY <1>20, <1>21, <2>3 DEF o, u
<1>22. CASE OnMap(state, pos) /\ hits = 0
  <2>1. u = Emit(flown, "bullet_fly", o.id)
    BY <1>3, <1>22
  <2>2. Kept(flown, u, {pos}) /\ SameLoop(flown, u)
    BY <1>1, <1>6, <1>19, <2>1, EmitKept
  <2>3. Kept(w, u, {pos}) /\ SameLoop(w, u)
    BY <1>5, <2>2, KeptOn, LoopOn
  <2>4. \A p \in Player : w.players[p] # pos
    BY <1>5, <1>7, <1>22 DEF Kept
  <2> QED BY <1>20, <2>3, <2>4 DEF o, u
<1>23. CASE OnMap(state, pos) /\ hits # 0
  <2>1. u = Emit(told, "bullet_destroy", o.id)
    BY <1>3, <1>23
  <2>2. Kept(told, u, {pos}) /\ SameLoop(told, u)
    BY <1>1, <1>18, <1>19, <2>1, EmitKept
  <2>3. Kept(w, struck, {pos}) /\ SameLoop(w, struck)
    BY <1>5, <1>9, KeptOn, LoopOn
  <2>4. Kept(w, first, {pos}) /\ SameLoop(w, first)
    BY <1>11, <2>3, KeptOn, LoopOn
  <2>5. Kept(w, killed, {pos}) /\ SameLoop(w, killed)
    BY <1>13, <2>4, KeptOn, LoopOn
  <2>6. Kept(w, removed, {pos}) /\ SameLoop(w, removed)
    BY <1>15, <2>5, KeptOn, LoopOn
  <2>7. Kept(w, told, {pos}) /\ SameLoop(w, told)
    BY <1>17, <2>6, KeptOn, LoopOn
  <2>8. Kept(w, u, {pos}) /\ SameLoop(w, u)
    BY <2>2, <2>7, KeptOn, LoopOn
  <2>9. u.board = <<>> => \A p \in Player : w.players[p] # pos
    <3> SUFFICES ASSUME u.board = <<>> PROVE \A p \in Player : w.players[p] # pos
      OBVIOUS
    <3>1. killed.board = <<>> /\ first.board = <<>>
      BY <1>13, <1>15, <1>17, <2>2 DEF Kept
    <3>2. struck.players[1] # pos /\ first.players[2] # pos
      BY <1>11, <1>13, <3>1
    <3>3. struck.players = w.players /\ first.players = w.players
      BY <2>3, <2>4 DEF Kept
    <3> QED BY <3>2, <3>3 DEF Player
  <2> QED BY <1>20, <2>8, <2>9 DEF o, u
<1> QED BY <1>21, <1>22, <1>23 DEF o, u

\* One tick.
LEMMA UpdateSwept ==
    ASSUME NEW w \in Worlds, NEW node, IsIn(w, node)
    PROVE  Swept(w, UpdateTick(w, node)) /\ SameLoop(w, UpdateTick(w, node))
<1> DEFINE o == w.list[At(w, node)].obj
<1>1. o.kind \in {"bomb", "gun", "bullet"}
  BY Ticking DEF Canonicals, Objects
<1>2. CASE o.kind = "bomb"
  BY <1>2, TickBombKept, KeptSwept DEF UpdateTick
<1>3. CASE o.kind = "gun"
  BY <1>3, TickGunKept, KeptSwept DEF UpdateTick
<1>4. CASE o.kind = "bullet"
  BY <1>4, TickBulletSwept DEF UpdateTick
<1> QED BY <1>1, <1>2, <1>3, <1>4

-----------------------------------------------------------------------------
(* The loops of a tick.                                                     *)

\* The rounds of the first loop stay in a set that one round stays in, and go
\* along a row of sets if each of them does.
LEMMA FirstReaches ==
    ASSUME NEW A, NEW b \in A, NEW k \in Nat, NEW B, b \in B[0],
           \A u \in A : FirstRound(u) \in A,
           \A j \in 1..k, u \in A : u \in B[j - 1] => FirstRound(u) \in B[j]
    PROVE  FoldLeft(LAMBDA u, i : FirstRound(u), b, [i \in 1..k |-> i]) \in A \cap B[k]
<1> DEFINE n == k
           Op(u, i) == FirstRound(u)
           G == [i \in 1..n |-> [u \in A |-> Op(u, i)]]
           Def(f) == f = [s \in SUBSET (1..n) |->
                            IF s = {} THEN b ELSE Op(f[s \ {Max(s)}], Max(s))]
           h == CHOOSE f : Def(f)
<1>1. n \in Nat
  OBVIOUS
<1>2. FoldLeft(LAMBDA u, i : FirstRound(u), b, [i \in 1..k |-> i]) = h[1..n]
  BY <1>1 DEF FoldLeft, MapThenFoldSet
<1>3. /\ \A u \in A, i \in 1..n : Op(u, i) \in A
      /\ \A i \in 1..n, u \in A : u \in B[i - 1] => Op(u, i) \in B[i]
  OBVIOUS
<1> HIDE DEF Op
<1>4. Closed(G, A, n)
  BY <1>3 DEF Closed
<1>5. PICK f : IsFold(f, A, n, b, G)
  BY <1>1, <1>4, FoldExists
<1>6. \A s \in SUBSET (1..n) : s # {} => Max(s) \in 1..n
  BY <1>1, MaxIn
<1>7. Def(f)
  <2>1. f \in [SUBSET (1..n) -> A]
    BY <1>5 DEF IsFold
  <2>2. \A s \in SUBSET (1..n) : f[s] \in A /\ f[s \ {Max(s)}] \in A
    BY <2>1
  <2>3. \A s \in SUBSET (1..n) : f[s] = IF s = {} THEN b ELSE Op(f[s \ {Max(s)}], Max(s))
    BY <1>5, <1>6, <2>2 DEF IsFold
  <2> QED BY <2>1, <2>3
<1>8. Def(h)
  BY <1>7, Zenon
<1> HIDE DEF h
<1>9. Follows(h, A, n, b, G)
  <2>1. h = [s \in SUBSET (1..n) |-> h[s]] /\ h[{}] = b
    BY <1>8
  <2>2. ASSUME NEW s \in SUBSET (1..n), s # {}, h[s \ {Max(s)}] \in A
        PROVE  h[s] = G[Max(s)][h[s \ {Max(s)}]]
    BY <1>6, <1>8, <2>2
  <2> QED BY <2>1, <2>2 DEF Follows
<1>10. IsFold(h, A, n, b, G)
  BY <1>1, <1>4, <1>9, FoldStays
<1>11. h[1..n] \in A
  <2>1. \A s \in SUBSET (1..n) : h[s] \in A
    BY <1>10 DEF IsFold
  <2>2. 1..n \in SUBSET (1..n)
    OBVIOUS
  <2> QED BY <2>1, <2>2, Zenon
<1>12. h[1..n] \in B[n]
  <2>1. \A j \in 1..n, u \in A : u \in B[j - 1] => G[j][u] \in B[j]
    BY <1>3
  <2> HIDE DEF G, n
  <2> QED BY <1>1, <1>10, <2>1, FoldReaches
<1>13. h[1..n] \in A \cap B[k]
  BY <1>11, <1>12
<1> QED BY <1>2, <1>13, Zenon

\* They stay in a set that one round stays in.
LEMMA FirstStays ==
    ASSUME NEW A, NEW b \in A, NEW k \in Nat,
           \A u \in A : FirstRound(u) \in A
    PROVE  FoldLeft(LAMBDA u, i : FirstRound(u), b, [i \in 1..k |-> i]) \in A
<1> DEFINE B == [j \in 0..k |-> A]
<1>1. \A j \in 0..k : B[j] = A
  OBVIOUS
<1>2. 0 \in 0..k /\ \A j \in 1..k : j \in 0..k /\ j - 1 \in 0..k
  OBVIOUS
<1> HIDE DEF B
<1>3. b \in B[0] /\ \A j \in 1..k, u \in A : u \in B[j - 1] => FirstRound(u) \in B[j]
  BY <1>1, <1>2
<1> QED BY <1>3, FirstReaches

\* The same for the second loop.
LEMMA NextReaches ==
    ASSUME NEW A, NEW b \in A, NEW k \in Nat, NEW B, b \in B[0],
           \A u \in A : NextRound(u) \in A,
           \A j \in 1..k, u \in A : u \in B[j - 1] => NextRound(u) \in B[j]
    PROVE  FoldLeft(LAMBDA u, i : NextRound(u), b, [i \in 1..k |-> i]) \in A \cap B[k]
<1> DEFINE n == k
           Op(u, i) == NextRound(u)
           G == [i \in 1..n |-> [u \in A |-> Op(u, i)]]
           Def(f) == f = [s \in SUBSET (1..n) |->
                            IF s = {} THEN b ELSE Op(f[s \ {Max(s)}], Max(s))]
           h == CHOOSE f : Def(f)
<1>1. n \in Nat
  OBVIOUS
<1>2. FoldLeft(LAMBDA u, i : NextRound(u), b, [i \in 1..k |-> i]) = h[1..n]
  BY <1>1 DEF FoldLeft, MapThenFoldSet
<1>3. /\ \A u \in A, i \in 1..n : Op(u, i) \in A
      /\ \A i \in 1..n, u \in A : u \in B[i - 1] => Op(u, i) \in B[i]
  OBVIOUS
<1> HIDE DEF Op
<1>4. Closed(G, A, n)
  BY <1>3 DEF Closed
<1>5. PICK f : IsFold(f, A, n, b, G)
  BY <1>1, <1>4, FoldExists
<1>6. \A s \in SUBSET (1..n) : s # {} => Max(s) \in 1..n
  BY <1>1, MaxIn
<1>7. Def(f)
  <2>1. f \in [SUBSET (1..n) -> A]
    BY <1>5 DEF IsFold
  <2>2. \A s \in SUBSET (1..n) : f[s] \in A /\ f[s \ {Max(s)}] \in A
    BY <2>1
  <2>3. \A s \in SUBSET (1..n) : f[s] = IF s = {} THEN b ELSE Op(f[s \ {Max(s)}], Max(s))
    BY <1>5, <1>6, <2>2 DEF IsFold
  <2> QED BY <2>1, <2>3
<1>8. Def(h)
  BY <1>7, Zenon
<1> HIDE DEF h
<1>9. Follows(h, A, n, b, G)
  <2>1. h = [s \in SUBSET (1..n) |-> h[s]] /\ h[{}] = b
    BY <1>8
  <2>2. ASSUME NEW s \in SUBSET (1..n), s # {}, h[s \ {Max(s)}] \in A
        PROVE  h[s] = G[Max(s)][h[s \ {Max(s)}]]
    BY <1>6, <1>8, <2>2
  <2> QED BY <2>1, <2>2 DEF Follows
<1>10. IsFold(h, A, n, b, G)
  BY <1>1, <1>4, <1>9, FoldStays
<1>11. h[1..n] \in A
  <2>1. \A s \in SUBSET (1..n) : h[s] \in A
    BY <1>10 DEF IsFold
  <2>2. 1..n \in SUBSET (1..n)
    OBVIOUS
  <2> QED BY <2>1, <2>2, Zenon
<1>12. h[1..n] \in B[n]
  <2>1. \A j \in 1..n, u \in A : u \in B[j - 1] => G[j][u] \in B[j]
    BY <1>3
  <2> HIDE DEF G, n
  <2> QED BY <1>1, <1>10, <2>1, FoldReaches
<1>13. h[1..n] \in A \cap B[k]
  BY <1>11, <1>12
<1> QED BY <1>2, <1>13, Zenon

\* The second loop stays in a set that one of its rounds stays in.
LEMMA NextStays ==
    ASSUME NEW A, NEW b \in A, NEW k \in Nat,
           \A u \in A : NextRound(u) \in A
    PROVE  FoldLeft(LAMBDA u, i : NextRound(u), b, [i \in 1..k |-> i]) \in A
<1> DEFINE B == [j \in 0..k |-> A]
<1>1. \A j \in 0..k : B[j] = A
  OBVIOUS
<1>2. 0 \in 0..k /\ \A j \in 1..k : j \in 0..k /\ j - 1 \in 0..k
  OBVIOUS
<1> HIDE DEF B
<1>3. b \in B[0] /\ \A j \in 1..k, u \in A : u \in B[j - 1] => NextRound(u) \in B[j]
  BY <1>1, <1>2
<1> QED BY <1>3, NextReaches

\* One part of a sweep after another: Swept is transitive.
LEMMA SweptOn ==
    ASSUME NEW v \in Worlds, NEW w, NEW u, Swept(v, w), Swept(w, u)
    PROVE  Swept(v, u)
<1>1. /\ v.log.value \in Seq(Events) /\ w.log.value \in Seq(Events)
      /\ u.log.value \in Seq(Events) /\ u \in Worlds
  BY DEF Swept, Worlds, Logs, GoesOn
<1>2. GoesOn(v.log, w.log) /\ GoesOn(w.log, u.log)
  BY DEF Swept
<1>3. GoesOn(v.log, u.log)
  BY <1>1, <1>2 DEF GoesOn
<1> QED BY <1>1, <1>3 DEF Swept

\* The iterators are not a part of it.
LEMMA SweptLoop ==
    ASSUME NEW w \in Worlds, NEW u \in Worlds, u.players = w.players, u.log = w.log,
           u.board = w.board, u.list = w.list
    PROVE  Swept(w, u)
<1>1. Cells(u) = Cells(w)
  BY DEF Cells
<1>2. GoesOn(w.log, w.log)
  BY KeptSame DEF Kept
<1> QED BY <1>1, <1>2 DEF Swept, Clear

\* The first element is in the list, and so is the one after an element.
LEMMA BeginIn ==
    ASSUME NEW w \in Worlds, w.list # <<>>
    PROVE  IsIn(w, Begin(w)) /\ Begin(w) \in Nat
<1>1. w.list \in Seq(Elements) /\ 1 \in DOMAIN w.list
  BY DEF Worlds
<1>2. w.list[1] \in Elements
  BY <1>1
<1> QED BY <1>1, <1>2 DEF Begin, IsIn, Elements

\* The iterator goes to an element of the list or to its end.
LEMMA AfterIn ==
    ASSUME NEW w \in Worlds, NEW node, IsIn(w, node)
    PROVE  /\ NodeAfter(w, node) \in Nat
           /\ NodeAfter(w, node) # 0 => IsIn(w, NodeAfter(w, node))
<1> DEFINE i == At(w, node)
<1>1. w.list \in Seq(Elements) /\ i \in 1..Len(w.list) /\ Len(w.list) \in Nat
  <2>1. w.list \in Seq(Elements)
    BY DEF Worlds
  <2>2. i \in DOMAIN w.list
    BY AtNode
  <2> QED BY <2>1, <2>2, LenProperties, Zenon
<1>2. CASE i = Len(w.list)
  BY <1>2 DEF NodeAfter
<1>3. CASE i # Len(w.list)
  <2>1. i + 1 \in DOMAIN w.list /\ w.list[i + 1] \in Elements
    BY <1>1, <1>3
  <2>2. NodeAfter(w, node) = w.list[i + 1].node
    BY <1>3 DEF NodeAfter
  <2> QED BY <2>1, <2>2 DEF IsIn, Elements
<1> QED BY <1>2, <1>3

\* A round of the first loop is part of a sweep.
LEMMA FirstRoundSwept ==
    ASSUME NEW w \in Worlds, w.running => w.list # <<>>
    PROVE  LET u == FirstRound(w) IN Swept(w, u) /\ (u.running => u.list # <<>>)
<1> DEFINE v == UpdateTick(w, Begin(w))
           u == FirstUpdated(Begin(w), v)
<1>1. CASE ~w.running
  BY <1>1, SweptLoop DEF FirstRound
<1>2. CASE w.running
  <2>1. IsIn(w, Begin(w)) /\ Begin(w) \in Nat
    BY <1>2, BeginIn
  <2>2. Swept(w, v)
    BY <2>1, UpdateSwept
  <2>3. FirstRound(w) = u
    BY <1>2 DEF FirstRound
  <2> HIDE DEF v
  <2>4. v \in Worlds
    BY <2>2 DEF Swept
  <2> DEFINE more == v.board = <<>> /\ Begin(w) # Begin(v) /\ v.list # <<>>
  <2>5. u = [v EXCEPT !.prev = Begin(w), !.running = more]
    BY DEF FirstUpdated
  <2>6. more \in BOOLEAN /\ (more => v.list # <<>>)
    OBVIOUS
  <2> HIDE DEF u, more
  <2>7. u \in Worlds /\ u.list = v.list /\ u.running = more
    BY <2>1, <2>4, <2>5, <2>6 DEF Worlds
  <2>8. u.players = v.players /\ u.log = v.log /\ u.board = v.board
    BY <2>5 DEF Worlds
  <2>9. Swept(v, u)
    BY <2>4, <2>7, <2>8, SweptLoop
  <2> QED BY <2>2, <2>3, <2>6, <2>7, <2>9, SweptOn
<1> QED BY <1>1, <1>2 DEF Worlds

\* A round of the second loop is part of a sweep.
LEMMA NextRoundSwept ==
    ASSUME NEW w \in Worlds, w.running /\ w.it # 0 => IsIn(w, w.it)
    PROVE  LET u == NextRound(w) IN Swept(w, u) /\ (u.running /\ u.it # 0 => IsIn(u, u.it))
<1> DEFINE v == UpdateTick(w, w.it)
           u == NextRound(w)
<1>1. CASE ~w.running \/ w.board # <<>> \/ w.it = 0
  <2>1. u = [w EXCEPT !.running = FALSE]
    BY <1>1 DEF NextRound
  <2> HIDE DEF u
  <2>2. u \in Worlds /\ u.running = FALSE
    BY <2>1 DEF Worlds
  <2>3. u.players = w.players /\ u.log = w.log /\ u.board = w.board /\ u.list = w.list
    BY <2>1 DEF Worlds
  <2> QED BY <2>2, <2>3, SweptLoop DEF u
<1>2. CASE ~(~w.running \/ w.board # <<>> \/ w.it = 0)
  <2>1. IsIn(w, w.it)
    BY <1>2
  <2>2. Swept(w, v) /\ SameLoop(w, v)
    BY <2>1, UpdateSwept
  <2>3. u = NextUpdated(w.it, NodeAfter(w, w.it), v)
    BY <1>2 DEF NextRound
  <2> HIDE DEF v, u
  <2>4. v \in Worlds /\ w.it # 0 /\ w.it \in Nat
    BY <1>2, <2>2 DEF Swept, Worlds
  <2>5. CASE ~IsIn(v, v.prev)
    <3>1. u = [v EXCEPT !.ub = TRUE, !.running = FALSE]
      BY <2>3, <2>5 DEF NextUpdated
    <3>2. u \in Worlds /\ u.running = FALSE
      BY <2>4, <3>1 DEF Worlds
    <3>3. u.players = v.players /\ u.log = v.log /\ u.board = v.board /\ u.list = v.list
      BY <3>1 DEF Worlds
    <3>4. Swept(v, u)
      BY <2>4, <3>2, <3>3, SweptLoop
    <3> QED BY <2>2, <3>2, <3>4, SweptOn DEF u
  <2>6. CASE IsIn(v, v.prev) /\ NodeAfter(v, v.prev) # w.it
    <3> DEFINE m == NodeAfter(v, v.prev)
    <3>1. m \in Nat /\ (m # 0 => IsIn(v, m))
      BY <2>4, <2>6, AfterIn
    <3>2. u = [v EXCEPT !.it = m]
      BY <2>3, <2>6 DEF NextUpdated
    <3> HIDE DEF m
    <3>3. u \in Worlds /\ u.it = m /\ u.list = v.list
      BY <2>4, <3>1, <3>2 DEF Worlds
    <3>4. u.players = v.players /\ u.log = v.log /\ u.board = v.board
      BY <3>2 DEF Worlds
    <3>5. Swept(v, u)
      BY <2>4, <3>3, <3>4, SweptLoop
    <3>6. u.it # 0 => IsIn(u, u.it)
      BY <3>1, <3>3 DEF IsIn
    <3> QED BY <2>2, <3>5, <3>6, SweptOn DEF u
  <2>7. CASE IsIn(v, v.prev) /\ NodeAfter(v, v.prev) = w.it
    <3> DEFINE m == NodeAfter(v, w.it)
    <3>1. IsIn(v, w.it)
      BY <2>4, <2>7, AfterIn
    <3>2. m \in Nat /\ (m # 0 => IsIn(v, m))
      BY <2>4, <3>1, AfterIn
    <3>3. u = [v EXCEPT !.prev = w.it, !.it = m]
      BY <2>3, <2>7 DEF NextUpdated
    <3> HIDE DEF m
    <3>4. u \in Worlds /\ u.it = m /\ u.list = v.list
      BY <2>4, <3>2, <3>3 DEF Worlds
    <3>5. u.players = v.players /\ u.log = v.log /\ u.board = v.board
      BY <3>3 DEF Worlds
    <3>6. Swept(v, u)
      BY <2>4, <3>4, <3>5, SweptLoop
    <3>7. u.it # 0 => IsIn(u, u.it)
      BY <3>2, <3>4 DEF IsIn
    <3> QED BY <2>2, <3>6, <3>7, SweptOn DEF u
  <2> QED BY <2>5, <2>6, <2>7
<1> QED BY <1>1, <1>2

\* The whole first loop is.
LEMMA FirstLoopSwept ==
    ASSUME NEW w \in Worlds
    PROVE  Swept(w, FirstLoop(w))
<1> DEFINE A == {u \in Worlds : Swept(w, u) /\ (u.running => u.list # <<>>)}
           b == [w EXCEPT !.running = w.list # <<>>]
           k == 2 * Len(w.list)
<1>1. b \in Worlds /\ b.list = w.list /\ b.running = (w.list # <<>>)
  BY DEF Worlds
<1>2. b.players = w.players /\ b.log = w.log /\ b.board = w.board
  BY DEF Worlds
<1>3. k \in Nat
  <2>1. w.list \in Seq(Elements)
    BY DEF Worlds
  <2> QED BY <2>1
<1>4. FirstLoop(w) = FoldLeft(LAMBDA u, i : FirstRound(u), b, [i \in 1..k |-> i])
  BY DEF FirstLoop, Rounds
<1> HIDE DEF b, k
<1>5. b \in A
  BY <1>1, <1>2, SweptLoop
<1>6. ASSUME NEW u \in A PROVE FirstRound(u) \in A
  <2> DEFINE v == FirstRound(u)
  <2>1. Swept(u, v) /\ (v.running => v.list # <<>>)
    BY FirstRoundSwept
  <2> HIDE DEF v
  <2>2. v \in Worlds
    BY <2>1 DEF Swept
  <2>3. Swept(w, v)
    BY <2>1, SweptOn
  <2> QED BY <2>1, <2>2, <2>3 DEF v
<1>7. FoldLeft(LAMBDA u, i : FirstRound(u), b, [i \in 1..k |-> i]) \in A
  <2> HIDE DEF A
  <2> QED BY <1>3, <1>5, <1>6, FirstStays
<1> QED BY <1>4, <1>7

\* And the whole second loop.
LEMMA SecondLoopSwept ==
    ASSUME NEW w \in Worlds
    PROVE  Swept(w, SecondLoop(w))
<1>1. CASE w.list = <<>>
  BY <1>1, SweptLoop DEF SecondLoop
<1>2. CASE w.list # <<>>
  <2> DEFINE A == {u \in Worlds : Swept(w, u) /\ (u.running /\ u.it # 0 => IsIn(u, u.it))}
             m == NodeAfter(w, Begin(w))
             b == [w EXCEPT !.it = m, !.running = TRUE]
             k == 2 * Len(w.list)
  <2>1. m \in Nat /\ (m # 0 => IsIn(w, m))
    BY <1>2, BeginIn, AfterIn
  <2>2. k \in Nat
    <3>1. w.list \in Seq(Elements)
      BY DEF Worlds
    <3> QED BY <3>1
  <2>3. SecondLoop(w) = FoldLeft(LAMBDA u, i : NextRound(u), b, [i \in 1..k |-> i])
    BY <1>2 DEF SecondLoop, Rounds
  <2> HIDE DEF m, k
  <2>4. b \in Worlds /\ b.list = w.list /\ b.it = m
    BY <2>1 DEF Worlds
  <2>5. b.players = w.players /\ b.log = w.log /\ b.board = w.board
    BY DEF Worlds
  <2> HIDE DEF b
  <2>6. b \in A
    <3>1. b.it # 0 => IsIn(b, b.it)
      BY <2>1, <2>4 DEF IsIn
    <3> QED BY <2>4, <2>5, <3>1, SweptLoop
  <2>7. ASSUME NEW u \in A PROVE NextRound(u) \in A
    <3> DEFINE v == NextRound(u)
    <3>1. Swept(u, v) /\ (v.running /\ v.it # 0 => IsIn(v, v.it))
      BY NextRoundSwept
    <3> HIDE DEF v
    <3>2. v \in Worlds
      BY <3>1 DEF Swept
    <3>3. Swept(w, v)
      BY <3>1, SweptOn
    <3> QED BY <3>1, <3>2, <3>3 DEF v
  <2>8. FoldLeft(LAMBDA u, i : NextRound(u), b, [i \in 1..k |-> i]) \in A
    <3> HIDE DEF A
    <3> QED BY <2>2, <2>6, <2>7, NextStays
  <2> QED BY <2>3, <2>8
<1> QED BY <1>1, <1>2

\* The whole sweep.
LEMMA SweepSwept ==
    ASSUME NEW w \in Worlds
    PROVE  Swept(w, Sweep(w))
<1>1. Swept(w, FirstLoop(w)) /\ FirstLoop(w) \in Worlds
  BY FirstLoopSwept DEF Swept
<1>2. Swept(FirstLoop(w), SecondLoop(FirstLoop(w)))
  BY <1>1, SecondLoopSwept
<1> QED BY <1>1, <1>2, SweptOn DEF Sweep

-----------------------------------------------------------------------------
(* What is shown and posted.                                                *)

\* An object that is written and read is of its type, where it was, and the
\* same one when the fields that its kind does not have are.
LEMMA ObjectRead ==
    ASSUME NEW o \in Objects
    PROVE  LET r == FromJson(ToJson(o))
           IN  r \in Canonicals /\ r.pos = o.pos /\ (Canonical(o) => r = o)
<1> DEFINE j == ToJson(o)
           r == FromJson(j)
<1>1. /\ o.id \in Nat /\ o.pos \in Int \X Int /\ o.ticks \in Int /\ o.shots \in Int
      /\ o.dir \in Direction /\ o.kind \in {"bomb", "gun", "bullet"} /\ "up" \in Direction
      /\ o = [kind |-> o.kind, pos |-> o.pos, dir |-> o.dir, ticks |-> o.ticks,
              shots |-> o.shots, id |-> o.id]
  BY DEF Objects, Direction
<1>2. CASE o.kind = "bomb"
  <2>1. j = [type |-> "bomb", actor_id |-> o.id, position |-> o.pos, ticks_left |-> o.ticks]
    BY <1>2 DEF ToJson
  <2> HIDE DEF j
  <2>2. r = [kind |-> "bomb", pos |-> o.pos, dir |-> "up", ticks |-> o.ticks, shots |-> 0, id |-> o.id]
    BY <2>1 DEF FromJson, Bomb
  <2>3. r \in Canonicals /\ r.pos = o.pos
    BY <1>1, <2>2 DEF Canonicals, Canonical, Objects
  <2>4. Canonical(o) => r = o
    BY <1>1, <1>2, <2>2 DEF Canonical
  <2> QED BY <2>3, <2>4 DEF j
<1>3. CASE o.kind = "gun"
  <2>1. j = [type |-> "gun", actor_id |-> o.id, position |-> o.pos, direction |-> o.dir,
             ticks_to_shot |-> o.ticks, shots_left |-> o.shots]
    BY <1>3 DEF ToJson
  <2> HIDE DEF j
  <2>2. r = [kind |-> "gun", pos |-> o.pos, dir |-> o.dir, ticks |-> o.ticks, shots |-> o.shots,
             id |-> o.id]
    BY <2>1 DEF FromJson, Gun
  <2>3. r \in Canonicals /\ r.pos = o.pos
    BY <1>1, <2>2 DEF Canonicals, Canonical, Objects
  <2>4. r = o
    BY <1>1, <1>3, <2>2
  <2> QED BY <2>3, <2>4 DEF j
<1>4. CASE o.kind = "bullet"
  <2>1. j = [type |-> "bullet", actor_id |-> o.id, position |-> o.pos, direction |-> o.dir]
    BY <1>4 DEF ToJson
  <2> HIDE DEF j
  <2>2. r = [kind |-> "bullet", pos |-> o.pos, dir |-> o.dir, ticks |-> 0, shots |-> 0, id |-> o.id]
    BY <2>1 DEF FromJson, Bullet
  <2>3. r \in Canonicals /\ r.pos = o.pos
    BY <1>1, <2>2 DEF Canonicals, Canonical, Objects
  <2>4. Canonical(o) => r = o
    BY <1>1, <1>4, <2>2 DEF Canonical
  <2> QED BY <2>3, <2>4 DEF j
<1> QED BY <1>1, <1>2, <1>3, <1>4

\* The objects of a state are as they are written and read.
Plain(s) == \A i \in DOMAIN s.objects : Canonical(s.objects[i])

\* What SetState reads of a state that was shown is a state a match can be in.
LEMMA StateRead ==
    ASSUME NEW s, StateLike(s)
    PROVE  LET r == Posted(Shown(s))
           IN  /\ StateLike(r) /\ Plain(r)
               /\ Apart(s) => Apart(r)
               /\ Plain(s) => r = s
<1> DEFINE js == [i \in DOMAIN s.objects |-> ToJson(s.objects[i])]
           rs == [i \in DOMAIN js |-> FromJson(js[i])]
           r == Posted(Shown(s))
<1>1. /\ s \in [players : [Player -> Int \X Int], objects : Seq(Objects), walls : {s.walls},
                turn : Player, move : Nat, size : Nat \X Nat]
      /\ DOMAIN s.walls \subseteq Int \X Int
  BY DEF StateLike
<1>2. s.objects \in Seq(Objects)
  BY <1>1
<1>3. /\ DOMAIN rs = DOMAIN s.objects
      /\ \A i \in DOMAIN s.objects : rs[i] = FromJson(ToJson(s.objects[i]))
  OBVIOUS
<1>4. r = [s EXCEPT !.objects = rs]
  <2>1. Shown(s) = [s EXCEPT !.objects = js]
    BY DEF Shown
  <2> HIDE DEF js
  <2> DEFINE t == Shown(s)
  <2>2. t.objects = js
    BY <1>1, <2>1
  <2>3. r = [t EXCEPT !.objects = rs]
    BY <2>2 DEF Posted
  <2> HIDE DEF rs
  <2> QED BY <1>1, <2>1, <2>3
<1> HIDE DEF js, rs, r
<1>5. \A i \in DOMAIN s.objects : /\ s.objects[i] \in Objects
                                  /\ rs[i] \in Canonicals /\ rs[i].pos = s.objects[i].pos
                                  /\ Canonical(s.objects[i]) => rs[i] = s.objects[i]
  BY <1>2, <1>3, ObjectRead
<1>6. rs \in Seq(Objects)
  <2>1. DOMAIN rs = 1..Len(s.objects) /\ Len(s.objects) \in Nat
    BY <1>2, <1>3
  <2>2. \A i \in 1..Len(s.objects) : rs[i] \in Objects
    BY <1>3, <1>5, <2>1 DEF Canonicals
  <2>3. rs = [i \in 1..Len(s.objects) |-> rs[i]]
    BY <2>1 DEF rs
  <2> QED BY <2>1, <2>2, <2>3
<1>7. /\ r.objects = rs /\ r.players = s.players /\ r.walls = s.walls /\ r.size = s.size
      /\ r \in [players : [Player -> Int \X Int], objects : Seq(Objects), walls : {r.walls},
                turn : Player, move : Nat, size : Nat \X Nat]
  BY <1>1, <1>4, <1>6
<1>8. StateLike(r)
  BY <1>1, <1>7 DEF StateLike
<1>9. Plain(r)
  BY <1>3, <1>5, <1>7 DEF Plain, Canonicals
<1>10. Apart(s) => Apart(r)
  BY <1>3, <1>5, <1>7 DEF Apart, OnMap
<1>11. ASSUME Plain(s) PROVE r = s
  <2>1. rs = s.objects
    <3>1. s.objects = [i \in DOMAIN s.objects |-> s.objects[i]]
      BY <1>2
    <3>2. \A i \in DOMAIN s.objects : rs[i] = s.objects[i]
      BY <1>5, <1>11 DEF Plain
    <3>3. rs = [i \in DOMAIN s.objects |-> rs[i]]
      BY <1>3 DEF rs
    <3> QED BY <3>1, <3>2, <3>3
  <2> QED BY <1>1, <1>4, <2>1
<1> QED BY <1>8, <1>9, <1>10, <1>11 DEF r

-----------------------------------------------------------------------------
(* A move, up to the sweep and after it.                                    *)

\* Every move that can be read from a body has the fields' types.
LEMMA MovesTyped ==
    ASSUME NEW md \in Moves
    PROVE  md.type \in MoveTypes /\ md.pos \in Int \X Int /\ md.dir \in Direction
<1>1. PICK body \in Bodies : md = MoveFrom(body)
  BY DEF Moves
<1>2. md.type \in MoveTypes
  BY <1>1 DEF MoveFrom, MoveTypes
<1>3. "position" \in DOMAIN body => body.position \in Targets
  BY DEF Bodies
<1>4. md.pos = <<0, 0>> \/ md.pos \in Targets
  BY <1>1, <1>3 DEF MoveFrom
<1>5. md.pos \in Int \X Int
  BY <1>4, TargetsAssumption
<1>6. md.dir \in Direction
  BY <1>1 DEF MoveFrom, Direction
<1> QED BY <1>2, <1>5, <1>6

\* What the builder sets and leaves.
Products == [dependent : BOOLEAN, spread : {"none", "axial", "square"},
             forbids : SUBSET {"object", "player", "wall"}, distance : Nat]

\* A call to the builder sets what it is for and leaves the rest.
LEMMA BuilderSets ==
    ASSUME NEW v \in Products
    PROVE  /\ \A x \in {"axial", "square"} :
                 LET u == SetCellSpread(v, x)
                 IN  u \in Products /\ u.dependent = v.dependent /\ u.forbids = v.forbids /\ u.spread = x
           /\ \A x \in SUBSET {"object", "player", "wall"} :
                 LET u == SetCellRestrictor(v, x)
                 IN  u \in Products /\ u.dependent = v.dependent /\ u.forbids = x /\ u.spread = v.spread
           /\ \A x \in Nat :
                 LET u == SetDistanceValidator(v, x)
                 IN  u \in Products /\ u.dependent = v.dependent /\ u.forbids = v.forbids
                     /\ u.spread = v.spread
<1>1. ASSUME NEW x \in {"axial", "square"}
      PROVE  LET u == SetCellSpread(v, x)
             IN  u \in Products /\ u.dependent = v.dependent /\ u.forbids = v.forbids /\ u.spread = x
  BY DEF SetCellSpread, Products
<1>2. ASSUME NEW x \in SUBSET {"object", "player", "wall"}
      PROVE  LET u == SetCellRestrictor(v, x)
             IN  u \in Products /\ u.dependent = v.dependent /\ u.forbids = x /\ u.spread = v.spread
  BY DEF SetCellRestrictor, Products
<1>3. ASSUME NEW x \in Nat
      PROVE  LET u == SetDistanceValidator(v, x)
             IN  u \in Products /\ u.dependent = v.dependent /\ u.forbids = v.forbids
                 /\ u.spread = v.spread
  BY DEF SetDistanceValidator, Products
<1> QED BY <1>1, <1>2, <1>3

\* What passes the validator of its type.
LEMMA AllowedMove ==
    ASSUME NEW p \in Player, NEW md \in Moves, Allowed(p, md), md.type # "resign"
    PROVE  /\ state.turn = p
           /\ \A i \in DOMAIN state.objects : state.objects[i].pos # md.pos
           /\ \A q \in DOMAIN state.players : state.players[q] # md.pos
           /\ md.pos \notin DOMAIN state.walls
<1> DEFINE all == {"object", "player", "wall"}
           Placing(v) == v \in Products /\ v.dependent = Unset.dependent /\ v.forbids = all
           made == MakeTargetedToCell(Unset)
<1>1. Placing(made)
  <2>1. Unset \in Products
    BY DEF Unset, Products
  <2> DEFINE r == SetCellRestrictor(Unset, all)
  <2>2. Placing(r)
    BY <2>1, BuilderSets
  <2>3. made = SetDistanceValidator(r, 1)
    BY DEF MakeTargetedToCell
  <2> HIDE DEF r, made
  <2> QED BY <2>2, <2>3, BuilderSets
<1>2. /\ InitApi.walk = SetDistanceValidator(SetCellSpread(made, "axial"), 1)
      /\ InitApi.place_bomb = SetDistanceValidator(SetCellSpread(made, "square"), 1)
      /\ InitApi.place_gun = SetDistanceValidator(SetCellSpread(made, "square"), 1)
  BY DEF InitApi, GetProduct, BuildWalk, BuildPlaceBomb, BuildPlaceGun, BombPlaceRadius, GunPlaceRadius
<1> HIDE DEF made
<1>3. ASSUME NEW x \in {"axial", "square"}
      PROVE  LET v == SetDistanceValidator(SetCellSpread(made, x), 1)
             IN  Placing(v) /\ v.spread # "none"
  <2> DEFINE u == SetCellSpread(made, x)
  <2>1. Placing(u) /\ u.spread # "none"
    BY <1>1, BuilderSets
  <2> HIDE DEF u
  <2>2. Placing(SetDistanceValidator(u, 1)) /\ SetDistanceValidator(u, 1).spread # "none"
    BY <2>1, BuilderSets
  <2> QED BY <2>2 DEF u
<1>4. md.type \in {"walk", "place_bomb", "place_gun"}
  BY MovesTyped DEF MoveTypes
<1> DEFINE v == InitApi[md.type]
<1>5. Placing(v) /\ v.spread # "none"
  BY <1>2, <1>3, <1>4
<1> HIDE DEF v
<1>6. v.dependent /\ v.forbids = all /\ v.spread # "none"
  BY <1>5 DEF Unset
<1>7. Validate(v, state, p, md.pos) = "ok"
  BY DEF Allowed, v
<1>8. state.turn = p /\ CellRestrictor(all, state, md.pos)
  BY <1>6, <1>7 DEF Validate
<1> QED BY <1>8 DEF CellRestrictor

\* The world that the sweep begins with: the log has the move's event at its
\* end, and nothing is over a player on the map that was not before.
LEMMA MovedWorld ==
    ASSUME TypeOK, Plain(state), NEW p \in Player, NEW md \in Moves, Allowed(p, md)
    PROVE  LET w == Moved(p, md)
           IN  /\ w \in Worlds
               /\ w.log.value = Append(log.value, [move |-> state.move + 1,
                                         event |-> [kind |-> md.type, actor |-> ActorId(p)]])
               /\ w.board = <<>> => scoreboard = <<>> /\ md.type # "resign"
               /\ w.players = IF md.type = "walk" THEN [state.players EXCEPT ![p] = md.pos]
                              ELSE state.players
               /\ Cells(w) \subseteq {state.objects[i].pos : i \in DOMAIN state.objects}
                                      \cup (IF md.type = "walk" THEN {} ELSE {md.pos})
<1> DEFINE placed == IF md.type = "place_bomb" THEN <<Bomb(md.pos, idCounter)>>
                     ELSE IF md.type = "place_gun" THEN <<Gun(md.pos, md.dir, idCounter)>>
                     ELSE <<>>
           players == IF md.type = "walk" THEN [state.players EXCEPT ![p] = md.pos]
                      ELSE state.players
           board == IF md.type = "resign" THEN Finish(scoreboard, p # 1) ELSE scoreboard
           e == [kind |-> md.type, actor |-> ActorId(p)]
           l0 == SetMoveNumber(log, state.move + 1)
           l == AddEvent(l0, e)
           objects == state.objects \o placed
           nextId == idCounter + Len(placed)
           list == [i \in DOMAIN objects |-> [node |-> i, obj |-> objects[i]]]
           w == Moved(p, md)
<1>1. /\ state.players \in [Player -> Int \X Int] /\ state.objects \in Seq(Objects)
      /\ state.move \in Nat /\ idCounter \in Nat /\ scoreboard \in Seq(Player) /\ log \in Logs
  BY DEF TypeOK, StateLike
<1>2. md.type \in MoveTypes /\ md.pos \in Int \X Int /\ md.dir \in Direction
  BY MovesTyped
<1>3. placed \in Seq(Canonicals) /\ Len(placed) \in Nat /\ (Len(placed) # 0 => md.type # "walk")
      /\ \A i \in 1..Len(placed) : placed[i].pos = md.pos
  <2>1. Bomb(md.pos, idCounter) \in Canonicals /\ Bomb(md.pos, idCounter).pos = md.pos
    BY <1>1, <1>2 DEF Bomb, BombTicksLeft, Canonicals, Canonical, Objects, Direction
  <2>2. Gun(md.pos, md.dir, idCounter) \in Canonicals /\ Gun(md.pos, md.dir, idCounter).pos = md.pos
    BY <1>1, <1>2 DEF Gun, GunCooldown, GunShots, Canonicals, Canonical, Objects
  <2>3. CASE md.type = "place_bomb"
    BY <2>1, <2>3
  <2>4. CASE md.type = "place_gun"
    BY <2>2, <2>4
  <2>5. CASE md.type # "place_bomb" /\ md.type # "place_gun"
    BY <2>5
  <2> QED BY <2>3, <2>4, <2>5
<1>4. state.objects \in Seq(Canonicals)
  <2>1. \A i \in 1..Len(state.objects) : state.objects[i] \in Canonicals
    BY <1>1 DEF Plain, Canonicals
  <2> QED BY <1>1, <2>1
<1>5. players \in [Player -> Int \X Int]
  BY <1>1, <1>2
<1>6. board \in Seq(Player) /\ (board = <<>> => scoreboard = <<>> /\ md.type # "resign")
  <2>1. <<1, 2>> \in Seq(Player) /\ <<2, 1>> \in Seq(Player)
    BY DEF Player
  <2>2. PICK r : r \in Seq(Player) /\ Len(r) = 2 /\ Finish(scoreboard, p # 1) = scoreboard \o r
    BY <2>1 DEF Finish
  <2>3. scoreboard \o r \in Seq(Player) /\ scoreboard \o r # <<>>
    BY <1>1, <2>2
  <2> QED BY <1>1, <2>2, <2>3
<1>7. w = World(players, objects, nextId, board, l)
  BY DEF Moved
<1>8. l \in Logs /\ l.value = Append(log.value, [move |-> state.move + 1, event |-> e])
  <2> DEFINE x == [move |-> state.move + 1, event |-> e]
  <2>1. e.kind \in EventKinds /\ e.actor \in Nat /\ x \in Events
    BY <1>1, <1>2 DEF Events, EventKinds, MoveTypes, ActorId, Player
  <2>2. l0 = [value |-> log.value, from |-> log.from, move |-> state.move + 1]
    <3>1. log = [value |-> log.value, from |-> log.from, move |-> log.move]
      BY <1>1 DEF Logs
    <3>2. l0 = [log EXCEPT !.move = state.move + 1]
      BY DEF SetMoveNumber
    <3> HIDE DEF l0
    <3> QED BY <3>1, <3>2
  <2>3. l = [l0 EXCEPT !.value = Append(l0.value, [move |-> l0.move, event |-> e]),
                       !.from = IF OpensMove(l0) THEN Append(l0.from, Len(l0.value)) ELSE l0.from]
    BY <2>2 DEF AddEvent
  <2>4. /\ l0.value = log.value /\ l0.from = log.from /\ l0.move = state.move + 1
        /\ [move |-> l0.move, event |-> e] = x /\ l0 \in Logs
    BY <1>1, <2>2 DEF Logs
  <2> HIDE DEF l, l0, x, e
  <2>5. log.value \in Seq(Events) /\ log.from \in Seq(Nat) /\ Len(log.value) \in Nat
    BY <1>1 DEF Logs
  <2>6. Append(log.value, x) \in Seq(Events) /\ Append(log.from, Len(log.value)) \in Seq(Nat)
    BY <2>1, <2>5
  <2>7. l.value = Append(log.value, x) /\ l \in Logs
    BY <2>3, <2>4, <2>5, <2>6 DEF Logs
  <2> QED BY <2>7 DEF x
<1> HIDE DEF placed, players, board, l, l0
<1>9. objects \in Seq(Canonicals) /\ Len(objects) = Len(state.objects) + Len(placed)
      /\ Len(objects) \in Nat /\ DOMAIN objects = 1..Len(objects) /\ nextId \in Nat
  BY <1>1, <1>3, <1>4
<1>10. \A i \in DOMAIN objects : \/ i \in DOMAIN state.objects /\ objects[i] = state.objects[i]
                                 \/ Len(placed) # 0 /\ objects[i].pos = md.pos
  <2> TAKE i \in DOMAIN objects
  <2>1. i \in 1..(Len(state.objects) + Len(placed))
    BY <1>9
  <2>2. CASE i <= Len(state.objects)
    BY <1>1, <1>3, <1>4, <2>1, <2>2
  <2>3. CASE ~(i <= Len(state.objects))
    <3>1. i - Len(state.objects) \in 1..Len(placed) /\ objects[i] = placed[i - Len(state.objects)]
      BY <1>1, <1>3, <1>4, <2>1, <2>3
    <3> QED BY <1>3, <3>1
  <2> QED BY <2>2, <2>3
<1> HIDE DEF objects, nextId
<1>11. list \in Seq(Elements)
  <2>1. \A i \in 1..Len(objects) : [node |-> i, obj |-> objects[i]] \in Elements
    <3> TAKE i \in 1..Len(objects)
    <3>1. objects[i] \in Canonicals
      BY <1>9
    <3> QED BY <3>1 DEF Elements
  <2> QED BY <1>9, <2>1
<1>12. /\ w \in Worlds /\ w.log = l /\ w.board = board /\ w.players = players /\ w.list = list
  <2>1. w = [players |-> players, nextId |-> nextId, board |-> board, log |-> l, list |-> list,
             fresh |-> Len(objects) + 1, prev |-> 0, it |-> 0, running |-> FALSE, ub |-> FALSE]
    BY <1>7 DEF World
  <2>2. Len(objects) + 1 \in Nat \ {0}
    BY <1>9
  <2> HIDE DEF list, w
  <2> QED BY <1>5, <1>6, <1>8, <1>9, <1>11, <2>1, <2>2 DEF Worlds
<1> HIDE DEF w
<1>13. ASSUME NEW i \in DOMAIN w.list
       PROVE  w.list[i].obj.pos \in {state.objects[j].pos : j \in DOMAIN state.objects}
                                      \cup (IF md.type = "walk" THEN {} ELSE {md.pos})
  <2>1. i \in DOMAIN objects /\ w.list[i].obj = objects[i]
    BY <1>9, <1>12
  <2> QED BY <1>3, <1>10, <2>1
<1>14. Cells(w) \subseteq {state.objects[j].pos : j \in DOMAIN state.objects}
                            \cup (IF md.type = "walk" THEN {} ELSE {md.pos})
  BY <1>13 DEF Cells
<1> QED BY <1>6, <1>8, <1>12, <1>14 DEF w, players

-----------------------------------------------------------------------------
(* The invariant: the types, the objects as they are written and read, the  *)
(* players apart and the turn passed.                                       *)

MatchInv == TypeOK /\ Plain(state) /\ PlayersApart /\ TurnPasses

\* The last own move of a log.
LastOwnOf(l) ==
    LET own == {i \in DOMAIN l : l[i].event.kind \in {"walk", "place_bomb", "place_gun"}}
    IN  l[CHOOSE i \in own : \A j \in own : j <= i]

\* The last event of a move's own is that move's when only ticks follow it.
LEMMA LastOwn ==
    ASSUME NEW old \in Seq(Events), NEW e \in Events, NEW l \in Seq(Events),
           e.event.kind \in {"walk", "place_bomb", "place_gun"},
           Len(old) + 1 <= Len(l), l[Len(old) + 1] = e,
           \A i \in DOMAIN l : i > Len(old) + 1 => l[i].event.kind \in TickKinds
    PROVE  LastOwnOf(l) = e
<1> DEFINE own == {i \in DOMAIN l : l[i].event.kind \in {"walk", "place_bomb", "place_gun"}}
           n == Len(old) + 1
<1>1. n \in Nat /\ n \in DOMAIN l /\ DOMAIN l \subseteq Nat
  BY LenProperties
<1>2. n \in own
  BY <1>1
<1>3. \A j \in own : j <= n
  <2> TAKE j \in own
  <2>1. ~(l[j].event.kind \in TickKinds) /\ j \in Nat /\ j \in DOMAIN l
    BY <1>1 DEF TickKinds
  <2> QED BY <1>1, <2>1
<1>4. \A i \in own : (\A j \in own : j <= i) => i = n
  BY <1>1, <1>2, <1>3
<1> HIDE DEF own, n
<1>5. (CHOOSE i \in own : \A j \in own : j <= i) = n
  BY <1>2, <1>3, <1>4
<1> QED BY <1>5 DEF own, n, LastOwnOf

\* A move.
LEMMA MoveInv ==
    ASSUME MatchInv, NEW p \in Player, NEW md \in Moves, ApiMove(p, md)
    PROVE  MatchInv'
<1> DEFINE w0 == Moved(p, md)
           w == Sweep(w0)
           over == w.board # <<>>
           objects == [i \in DOMAIN w.list |-> w.list[i].obj]
           ev == [move |-> state.move + 1, event |-> [kind |-> md.type, actor |-> ActorId(p)]]
           under == IF md.type = "walk" THEN {} ELSE {md.pos}
<1>1. /\ TypeOK /\ Plain(state) /\ PlayersApart /\ phase = "idle" /\ Allowed(p, md)
      /\ AfterMove(w) /\ expired' = expired
  BY DEF MatchInv, ApiMove
<1>2. /\ StateLike(state) /\ state.turn \in Player /\ state.move \in Nat /\ idCounter \in Nat
      /\ expired \in BOOLEAN /\ log \in Logs /\ log.value \in Seq(Events)
      /\ state \in [players : [Player -> Int \X Int], objects : Seq(Objects), walls : {state.walls},
                    turn : Player, move : Nat, size : Nat \X Nat]
      /\ DOMAIN state.walls \subseteq Int \X Int
  BY <1>1 DEF TypeOK, StateLike, Logs
<1>3. md.type \in MoveTypes /\ md.pos \in Int \X Int
  BY MovesTyped
<1>4. /\ w0 \in Worlds /\ w0.log.value = Append(log.value, ev)
      /\ w0.board = <<>> => scoreboard = <<>> /\ md.type # "resign"
      /\ w0.players = IF md.type = "walk" THEN [state.players EXCEPT ![p] = md.pos]
                      ELSE state.players
      /\ Cells(w0) \subseteq {state.objects[i].pos : i \in DOMAIN state.objects} \cup under
  BY <1>1, MovedWorld
<1> HIDE DEF w0, under, ev
<1>5. Swept(w0, w)
  BY <1>4, SweepSwept
<1> HIDE DEF w
<1>6. /\ w \in Worlds /\ w.players = w0.players /\ GoesOn(w0.log, w.log)
      /\ w.board = <<>> => w0.board = <<>>
      /\ Clear(w0) => Clear(w)
  BY <1>5 DEF Swept
<1>7. /\ w.players \in [Player -> Int \X Int] /\ w.nextId \in Nat /\ w.board \in Seq(Player)
      /\ w.log \in Logs /\ w.list \in Seq(Elements) /\ w.ub \in BOOLEAN
  BY <1>6 DEF Worlds
<1>8. objects \in Seq(Objects) /\ DOMAIN objects = DOMAIN w.list
      /\ \A i \in DOMAIN objects : /\ Canonical(objects[i])
                                   /\ objects[i].pos \in Cells(w)
  <2>1. \A i \in 1..Len(w.list) : w.list[i].obj \in Canonicals
    <3> TAKE i \in 1..Len(w.list)
    <3>1. w.list[i] \in Elements
      BY <1>7
    <3> QED BY <3>1 DEF Elements
  <2>2. DOMAIN w.list = 1..Len(w.list) /\ Len(w.list) \in Nat
    BY <1>7
  <2>3. objects \in Seq(Objects)
    BY <2>1, <2>2 DEF Canonicals
  <2>4. \A i \in DOMAIN objects : objects[i] = w.list[i].obj /\ i \in DOMAIN w.list
    OBVIOUS
  <2> HIDE DEF objects
  <2> QED BY <2>1, <2>2, <2>3, <2>4 DEF Canonicals, Cells, objects
<1>9. /\ state' = [state EXCEPT !.players = w.players, !.move = @ + 1, !.objects = objects,
                                !.turn = IF over THEN @ ELSE Other(@)]
      /\ idCounter' = w.nextId /\ scoreboard' = w.board
      /\ log' = (IF over THEN AddEvent(w.log, [kind |-> "player_won", actor |-> ActorId(w.board[1])])
                 ELSE w.log)
      /\ timer' = (IF over THEN -1 ELSE state.move + 1)
      /\ phase' \in {"crashed", "played", "waiting"}
  BY <1>1 DEF AfterMove
<1> HIDE DEF objects
<1> DEFINE turn == IF over THEN state.turn ELSE Other(state.turn)
<1>10. turn \in Player /\ state.move + 1 \in Nat
  BY <1>2 DEF Other, Player
<1> HIDE DEF turn
<1>11. state' = [players |-> w.players, objects |-> objects, walls |-> state.walls,
                 turn |-> turn, move |-> state.move + 1, size |-> state.size]
  BY <1>2, <1>9 DEF turn
<1>12. StateLike(state') /\ state'.walls = state.walls /\ state'.size = state.size
  BY <1>2, <1>7, <1>8, <1>10, <1>11 DEF StateLike
<1>13. log' \in Logs
  <2>1. CASE ~over
    BY <1>7, <1>9, <2>1
  <2>2. CASE over
    <3>1. w.board[1] \in Player
      BY <1>7, <2>2
    <3> DEFINE e == [move |-> w.log.move, event |-> [kind |-> "player_won", actor |-> ActorId(w.board[1])]]
               l == w.log
    <3>2. e \in Events
      BY <1>7, <3>1 DEF Events, EventKinds, ActorId, Player, Logs
    <3>3. log' = [l EXCEPT !.value = Append(l.value, e),
                           !.from = IF OpensMove(l) THEN Append(l.from, Len(l.value)) ELSE l.from]
      BY <1>9, <2>2 DEF AddEvent
    <3>4. l \in Logs /\ l.value \in Seq(Events) /\ l.from \in Seq(Nat) /\ Len(l.value) \in Nat
      BY <1>7 DEF Logs
    <3> HIDE DEF e, l
    <3>5. Append(l.value, e) \in Seq(Events) /\ Append(l.from, Len(l.value)) \in Seq(Nat)
      BY <3>2, <3>4
    <3> QED BY <3>3, <3>4, <3>5 DEF Logs
  <2> QED BY <2>1, <2>2
<1>14. TypeOK'
  BY <1>1, <1>2, <1>7, <1>9, <1>10, <1>12, <1>13 DEF TypeOK
<1>15. Plain(state)'
  BY <1>8, <1>11 DEF Plain
<1>16. ASSUME scoreboard' = <<>> PROVE Apart(state')
  <2>1. w.board = <<>> /\ w0.board = <<>> /\ scoreboard = <<>> /\ md.type # "resign"
    BY <1>4, <1>6, <1>9, <1>16
  <2>2. Apart(state)
    BY <1>1, <2>1 DEF PlayersApart
  <2>3. /\ \A i \in DOMAIN state.objects : state.objects[i].pos # md.pos
        /\ \A q \in Player : state.players[q] # md.pos
        /\ md.pos \notin DOMAIN state.walls
    BY <1>1, <1>2, <2>1, AllowedMove
  <2>4. \A q \in Player : \/ w0.players[q] = state.players[q]
                          \/ md.type = "walk" /\ q = p /\ w0.players[q] = md.pos
    <3> TAKE q \in Player
    <3>1. /\ w0.players = IF md.type = "walk" THEN [state.players EXCEPT ![p] = md.pos]
                          ELSE state.players
          /\ q \in DOMAIN state.players
      BY <1>2, <1>4
    <3>2. CASE md.type = "walk" /\ q = p
      BY <3>1, <3>2
    <3>3. CASE md.type = "walk" /\ q # p
      BY <3>1, <3>3
    <3>4. CASE md.type # "walk"
      BY <3>1, <3>4
    <3> QED BY <3>2, <3>3, <3>4
  <2>5. Clear(w0)
    <3> SUFFICES ASSUME NEW q \in Player, OnMap(state, w0.players[q]),
                        w0.players[q] \in Cells(w0)
                 PROVE  FALSE
      BY DEF Clear
    <3>1. CASE w0.players[q] = state.players[q]
      <4>1. w0.players[q] \notin {state.objects[i].pos : i \in DOMAIN state.objects}
        BY <2>2, <3>1 DEF Apart
      <4> QED BY <1>4, <2>3, <3>1, <4>1 DEF under
    <3>2. CASE md.type = "walk" /\ w0.players[q] = md.pos
      BY <1>4, <2>3, <3>2 DEF under
    <3> QED BY <2>4, <3>1, <3>2
  <2>6. \A q \in Player : OnMap(state, w.players[q]) => w.players[q] \notin Cells(w)
    BY <1>6, <2>1, <2>5 DEF Clear
  <2>7. state'.players = w0.players /\ state'.objects = objects
    BY <1>6, <1>11
  <2>8. \A q \in Player : OnMap(state', state'.players[q]) =>
           \A i \in DOMAIN state'.objects : state'.objects[i].pos # state'.players[q]
    BY <1>6, <1>8, <1>12, <2>6, <2>7 DEF OnMap
  <2>9. \A q \in Player : state'.players[q] \notin DOMAIN state'.walls
    BY <1>12, <2>2, <2>3, <2>4, <2>7 DEF Apart
  <2>10. state'.players[1] # state'.players[2]
    BY <2>2, <2>3, <2>4, <2>7 DEF Apart, Player
  <2> QED BY <2>8, <2>9, <2>10 DEF Apart
<1>17. PlayersApart'
  BY <1>16 DEF PlayersApart
<1>18. TurnPasses'
  <2>1. SUFFICES ASSUME scoreboard' = <<>>
                 PROVE  LastOwnOf(log'.value).event.actor # ActorId(state'.turn)
    BY DEF TurnPasses, LastOwnOf
  <2>2. ~over /\ log' = w.log /\ md.type # "resign"
    BY <1>4, <1>6, <1>9, <2>1
  <2>3. /\ ev \in Events /\ ev.event.kind \in {"walk", "place_bomb", "place_gun"}
        /\ ev.event.actor = ActorId(p)
    BY <1>2, <1>3, <2>2 DEF ev, Events, EventKinds, MoveTypes, ActorId, Player
  <2>4. w.log.value \in Seq(Events) /\ w0.log.value \in Seq(Events)
    BY <1>4, <1>6 DEF Worlds, Logs
  <2>5. /\ Len(w0.log.value) = Len(log.value) + 1 /\ Len(w0.log.value) \in DOMAIN w0.log.value
        /\ w0.log.value[Len(log.value) + 1] = ev
    BY <1>2, <1>4, <2>3
  <2>6. /\ Len(log.value) + 1 <= Len(w.log.value) /\ w.log.value[Len(log.value) + 1] = ev
        /\ \A i \in DOMAIN w.log.value : i > Len(log.value) + 1 => w.log.value[i].event.kind \in TickKinds
    BY <1>6, <2>5 DEF GoesOn
  <2>7. LastOwnOf(w.log.value) = ev
    BY <1>2, <2>3, <2>4, <2>6, LastOwn
  <2>8. state'.turn = Other(p)
    BY <1>1, <1>11, <2>2, AllowedMove DEF turn
  <2>9. ActorId(p) # ActorId(Other(p))
    BY DEF ActorId, Other, Player
  <2> QED BY <2>2, <2>3, <2>7, <2>8, <2>9
<1> QED BY <1>14, <1>15, <1>17, <1>18 DEF MatchInv

\* A state is posted.
LEMMA PostInv ==
    ASSUME MatchInv, NEW s, StateLike(s), Apart(s) \/ s = state, SetState(Shown(s))
    PROVE  MatchInv'
<1> DEFINE r == Posted(Shown(s))
<1>1. StateLike(r) /\ Plain(r) /\ (Apart(s) => Apart(r))
  BY StateRead
<1>2. state' = r /\ log' = Cleared /\ idCounter' = 2
      /\ expired' = (expired \/ scoreboard # <<>>)
      /\ scoreboard' = scoreboard /\ timer' = timer /\ phase' = phase
  BY DEF SetState
<1> HIDE DEF r
<1>3. Cleared \in Logs /\ Cleared.value = <<>>
  BY DEF Cleared, Logs
<1>4. TypeOK'
  BY <1>1, <1>2, <1>3 DEF MatchInv, TypeOK
<1>5. PlayersApart'
  BY <1>1, <1>2 DEF MatchInv, PlayersApart
<1>6. TurnPasses'
  <2>1. DOMAIN log'.value = {}
    BY <1>2, <1>3
  <2> QED BY <2>1 DEF TurnPasses
<1>7. Plain(state)'
  BY <1>1, <1>2
<1> QED BY <1>4, <1>5, <1>6, <1>7 DEF MatchInv

\* The timer runs out.
LEMMA AbortInv ==
    ASSUME MatchInv, TimerAbort
    PROVE  MatchInv'
<1>1. TypeOK /\ Plain(state) /\ PlayersApart
  BY DEF MatchInv
<1>2. UNCHANGED <<state, idCounter, expired>> /\ timer' = -1 /\ phase' = "played" /\ phase = "waiting"
  BY DEF TimerAbort
<1>3. CASE UNCHANGED <<log, scoreboard>>
  <2>1. TypeOK' /\ PlayersApart' /\ Plain(state)'
    BY <1>1, <1>2, <1>3 DEF TypeOK, PlayersApart
  <2>2. TurnPasses'
    BY <1>2 DEF TurnPasses
  <2> QED BY <2>1, <2>2 DEF MatchInv
<1>4. CASE /\ log' = AddEvent(log, [kind |-> "time_is_up", actor |-> ActorId(state.turn)])
           /\ scoreboard' = Finish(scoreboard, TRUE)
  <2> DEFINE e == [move |-> log.move, event |-> [kind |-> "time_is_up", actor |-> ActorId(state.turn)]]
  <2>1. /\ log \in Logs /\ log.value \in Seq(Events) /\ log.from \in Seq(Nat)
        /\ Len(log.value) \in Nat /\ state.turn \in Player /\ scoreboard \in Seq(Player)
    BY <1>1 DEF TypeOK, StateLike, Logs
  <2>2. e \in Events
    BY <2>1 DEF Events, EventKinds, ActorId, Player, Logs
  <2>3. log' = [log EXCEPT !.value = Append(log.value, e),
                           !.from = IF OpensMove(log) THEN Append(log.from, Len(log.value))
                                    ELSE log.from]
    BY <1>4 DEF AddEvent
  <2> HIDE DEF e
  <2>4. Append(log.value, e) \in Seq(Events) /\ Append(log.from, Len(log.value)) \in Seq(Nat)
    BY <2>1, <2>2
  <2>5. log' \in Logs
    BY <2>1, <2>3, <2>4 DEF Logs
  <2>6. scoreboard' \in Seq(Player) /\ scoreboard' # <<>>
    <3>1. <<1, 2>> \in Seq(Player) /\ Len(<<1, 2>>) = 2 /\ scoreboard' = scoreboard \o <<1, 2>>
      BY <1>4 DEF Finish, Player
    <3> QED BY <2>1, <3>1
  <2>7. TypeOK'
    BY <1>1, <1>2, <2>5, <2>6 DEF TypeOK
  <2>8. PlayersApart' /\ TurnPasses' /\ Plain(state)'
    BY <1>1, <1>2, <2>6 DEF PlayersApart, TurnPasses
  <2> QED BY <2>7, <2>8 DEF MatchInv
<1> QED BY <1>3, <1>4 DEF TimerAbort

\* CheckStatus preserves the invariant.
LEMMA CheckInv ==
    ASSUME MatchInv, CheckStatus
    PROVE  MatchInv'
<1>1. UNCHANGED <<state, idCounter, scoreboard, log, expired, timer>>
      /\ phase' \in {"idle", "crashed", "erased"} /\ phase = "played"
  BY DEF CheckStatus
<1>2. TypeOK' /\ Plain(state)' /\ PlayersApart' /\ TurnPasses'
  BY <1>1 DEF MatchInv, TypeOK, PlayersApart, TurnPasses
<1> QED BY <1>2 DEF MatchInv

\* The invariant holds initially.
LEMMA InitInv == Init => MatchInv
<1> SUFFICES ASSUME Init PROVE MatchInv
  OBVIOUS
<1>1. /\ state = [players |-> <<<<4, 1>>, <<3, 6>>>>, objects |-> <<>>, walls |-> Walls8,
                  turn |-> 1, move |-> 0, size |-> <<8, 8>>]
      /\ idCounter = 10 /\ scoreboard = <<>> /\ log = Cleared /\ expired = FALSE /\ timer = -1
      /\ phase = "idle"
  BY DEF Init
<1>2. DOMAIN Walls8 = {WallCells[i] : i \in 1..8}
  BY DEF Walls8, ToSet, WallCells
<1>3. DOMAIN Walls8 = {<<0, 2>>, <<3, 2>>, <<4, 3>>, <<6, 3>>, <<1, 4>>, <<3, 4>>, <<4, 5>>, <<7, 5>>}
  BY <1>2 DEF WallCells
<1>4. StateLike(state)
  BY <1>1, <1>3 DEF StateLike, Player
<1>5. Cleared \in Logs /\ Cleared.value = <<>>
  BY DEF Cleared, Logs
<1>6. TypeOK
  <2>1. idCounter \in Nat /\ scoreboard \in Seq(Player) /\ timer \in Nat \cup {-1}
    BY <1>1
  <2>2. log \in Logs /\ expired \in BOOLEAN
    BY <1>1, <1>5
  <2>3. phase \in {"idle", "waiting", "played", "erased", "crashed"}
    BY <1>1
  <2> QED BY <1>4, <2>1, <2>2, <2>3 DEF TypeOK
<1>7. Apart(state)
  BY <1>1, <1>3 DEF Apart, Player
<1>8. Plain(state)
  BY <1>1 DEF Plain
<1>9. TurnPasses
  BY <1>1 DEF TurnPasses
<1> QED BY <1>6, <1>7, <1>8, <1>9 DEF MatchInv, PlayersApart

-----------------------------------------------------------------------------
(* The order of the list. Its elements are in the order of their nodes, so  *)
(* that what a tick does can be said of their set.                          *)

InOrder(list) == \A i, j \in DOMAIN list : i < j => list[i].node < list[j].node
Tidy == {w \in Worlds : /\ InOrder(w.list)
                        /\ \A i \in DOMAIN w.list : w.list[i].node < w.fresh
                        /\ Len(w.board) # 1}

Elems(w) == {w.list[i] : i \in DOMAIN w.list}
Nodes(w) == {e.node : e \in Elems(w)}

\* No two elements have the same id, and none one that is still to be given.
Unique(w) == /\ \A d, e \in Elems(w) : d.obj.id = e.obj.id => d = e
             /\ \A e \in Elems(w) : e.obj.id < w.nextId

\* A tidy list and its indices.
LEMMA TidyList ==
    ASSUME NEW w \in Tidy
    PROVE  /\ w \in Worlds /\ InOrder(w.list) /\ w.list \in Seq(Elements)
           /\ DOMAIN w.list = 1..Len(w.list) /\ Len(w.list) \in Nat
           /\ w.fresh \in Nat \ {0} /\ w.nextId \in Nat
           /\ \A i \in DOMAIN w.list : /\ w.list[i] \in Elements /\ i \in Nat
                                       /\ w.list[i] \in Elems(w) /\ w.list[i].node \in Nodes(w)
                                       /\ w.list[i].node \in Nat \ {0} /\ w.list[i].node < w.fresh
<1>1. /\ w \in Worlds /\ InOrder(w.list) /\ \A i \in DOMAIN w.list : w.list[i].node < w.fresh
      /\ w.list \in Seq(Elements) /\ w.fresh \in Nat \ {0} /\ w.nextId \in Nat
  BY DEF Tidy, Worlds
<1>2. DOMAIN w.list = 1..Len(w.list) /\ Len(w.list) \in Nat
  BY <1>1
<1>3. \A i \in DOMAIN w.list : w.list[i] \in Elements /\ i \in Nat
  BY <1>1, <1>2
<1>4. \A i \in DOMAIN w.list : w.list[i] \in Elems(w) /\ w.list[i].node \in Nodes(w)
  BY DEF Elems, Nodes
<1>5. \A i \in DOMAIN w.list : w.list[i].node \in Nat \ {0}
  BY <1>3 DEF Elements
<1> QED BY <1>1, <1>2, <1>3, <1>4, <1>5

\* An element is at one place of the list, under its node.
LEMMA ElemAt ==
    ASSUME NEW w \in Tidy, NEW e \in Elems(w)
    PROVE  /\ At(w, e.node) \in DOMAIN w.list /\ w.list[At(w, e.node)] = e
           /\ e \in Elements /\ e.node < w.fresh /\ e.node \in Nodes(w) /\ IsIn(w, e.node)
<1>1. PICK i \in DOMAIN w.list : e = w.list[i]
  BY DEF Elems
<1>2. ASSUME NEW j \in DOMAIN w.list, w.list[j].node = e.node PROVE j = i
  <2>1. i \in Nat /\ j \in Nat /\ w.list[i].node \in Nat
    BY TidyList
  <2>2. ~(i < j) /\ ~(j < i)
    BY <1>1, <1>2, <2>1, TidyList DEF InOrder
  <2> QED BY <2>1, <2>2
<1>3. At(w, e.node) = i
  BY <1>1, <1>2 DEF At
<1> QED BY <1>1, <1>3, TidyList DEF IsIn

\* Each node has one element.
LEMMA NodeElem ==
    ASSUME NEW w \in Tidy
    PROVE  /\ \A n \in Nodes(w) : \E e \in Elems(w) : e.node = n
           /\ Nodes(w) \in SUBSET (Nat \ {0}) /\ \A n \in Nodes(w) : n < w.fresh
           /\ \A d, e \in Elems(w) : d.node = e.node => d = e
           /\ \A n : IsIn(w, n) <=> n \in Nodes(w)
<1>1. \A e \in Elems(w) : e \in Elements /\ e.node < w.fresh /\ w.list[At(w, e.node)] = e
  BY ElemAt
<1>2. \A n : IsIn(w, n) <=> n \in Nodes(w)
  BY DEF IsIn, Nodes, Elems
<1> QED BY <1>1, <1>2 DEF Nodes, Elements

\* The first element has the least node.
LEMMA FirstNode ==
    ASSUME NEW w \in Tidy
    PROVE  /\ w.list = <<>> => Begin(w) = 0 /\ Nodes(w) = {}
           /\ w.list # <<>> => Begin(w) \in Nodes(w)
           /\ \A n \in Nodes(w) : Begin(w) <= n
           /\ Begin(w) \in Nat
<1>1. CASE w.list = <<>>
  BY <1>1 DEF Begin, Nodes, Elems
<1>2. CASE w.list # <<>>
  <2>1. Begin(w) = w.list[1].node /\ 1 \in DOMAIN w.list
    BY <1>2, TidyList DEF Begin
  <2>2. Begin(w) \in Nodes(w) /\ Begin(w) \in Nat
    BY <2>1, TidyList
  <2>3. ASSUME NEW n \in Nodes(w) PROVE Begin(w) <= n
    <3>1. PICK j \in DOMAIN w.list : n = w.list[j].node
      BY DEF Nodes, Elems
    <3>2. j = 1 \/ 1 < j
      BY TidyList
    <3>3. CASE j = 1
      BY <2>1, <2>2, <3>1, <3>3
    <3>4. CASE 1 < j
      <4>1. w.list[1].node < w.list[j].node
        BY <2>1, <3>4, TidyList DEF InOrder
      <4> QED BY <2>1, <3>1, <4>1, TidyList
    <3> QED BY <3>2, <3>3, <3>4
  <2> QED BY <1>2, <2>2, <2>3
<1> QED BY <1>1, <1>2

\* The next element has the next node.
LEMMA NextNode ==
    ASSUME NEW w \in Tidy, NEW n \in Nodes(w)
    PROVE  LET m == NodeAfter(w, n)
           IN  \/ m = 0 /\ \A k \in Nodes(w) : k <= n
               \/ m \in Nodes(w) /\ n < m /\ \A k \in Nodes(w) : k <= n \/ m <= k
<1>1. PICK e \in Elems(w) : e.node = n
  BY DEF Nodes
<1> DEFINE i == At(w, n)
<1>2. i \in DOMAIN w.list /\ w.list[i] = e /\ i \in 1..Len(w.list) /\ n \in Nat
  BY <1>1, ElemAt, TidyList
<1>3. \A k \in Nodes(w) : \E j \in DOMAIN w.list : k = w.list[j].node
  BY DEF Nodes, Elems
<1>4. CASE i = Len(w.list)
  <2>1. NodeAfter(w, n) = 0
    BY <1>4 DEF NodeAfter
  <2>2. ASSUME NEW k \in Nodes(w) PROVE k <= n
    <3>1. PICK j \in DOMAIN w.list : k = w.list[j].node
      BY <1>3
    <3>2. j = i \/ j < i
      BY <1>4, TidyList
    <3>3. j < i => k < n
      BY <1>1, <1>2, <3>1 , TidyList DEF InOrder
    <3> QED BY <1>1, <1>2, <3>1, <3>2, <3>3, TidyList
  <2> QED BY <2>1, <2>2
<1>5. CASE i # Len(w.list)
  <2>1. NodeAfter(w, n) = w.list[i + 1].node /\ i + 1 \in DOMAIN w.list /\ i < i + 1
    BY <1>2, <1>5, TidyList DEF NodeAfter
  <2>2. NodeAfter(w, n) \in Nodes(w) /\ n < NodeAfter(w, n)
    BY <1>1, <1>2, <2>1, TidyList DEF InOrder
  <2>3. ASSUME NEW k \in Nodes(w) PROVE k <= n \/ NodeAfter(w, n) <= k
    <3>1. PICK j \in DOMAIN w.list : k = w.list[j].node
      BY <1>3
    <3>2. j = i \/ j < i \/ j = i + 1 \/ i + 1 < j
      BY <1>2, TidyList
    <3>3. j < i => k < n
      BY <1>1, <1>2, <3>1, TidyList DEF InOrder
    <3>4. i + 1 < j => NodeAfter(w, n) < k
      BY <2>1, <3>1, TidyList DEF InOrder
    <3>5. k \in Nat /\ NodeAfter(w, n) \in Nat
      BY <2>2, NodeElem
    <3> QED BY <1>1, <1>2, <2>1, <3>1, <3>2, <3>3, <3>4, <3>5
  <2> QED BY <2>2, <2>3
<1> QED BY <1>4, <1>5

-----------------------------------------------------------------------------
(* What the pieces of a tick do to the elements.                            *)

\* Only the log, the board, the iterators and the flags changed.
SameList(w, u) == /\ u.players = w.players /\ u.list = w.list
                  /\ u.fresh = w.fresh /\ u.nextId = w.nextId

\* Elements left, and nothing else but the log and the flags changed.
Thinned(w, u) == /\ u \in Tidy /\ u.players = w.players /\ u.board = w.board
                 /\ u.fresh = w.fresh /\ u.nextId = w.nextId
                 /\ Elems(u) \subseteq Elems(w)

\* The same list is as tidy.
LEMMA TidySame ==
    ASSUME NEW w \in Tidy, NEW u \in Worlds, SameList(w, u), Len(u.board) # 1
    PROVE  /\ u \in Tidy /\ Elems(u) = Elems(w) /\ Nodes(u) = Nodes(w)
           /\ Unique(w) => Unique(u)
BY DEF Tidy, SameList, Elems, Nodes, Unique

\* Thinned is transitive and keeps the ids apart.
LEMMA ThinnedOn ==
    ASSUME NEW v, NEW w, NEW u, Thinned(v, w), Thinned(w, u)
    PROVE  Thinned(v, u) /\ (Unique(v) => Unique(w))
BY DEF Thinned, Unique

\* list::erase of the first element with the id.
LEMMA Erased ==
    ASSUME NEW w \in Worlds, NEW id, {i \in DOMAIN w.list : w.list[i].obj.id = id} # {}
    PROVE  LET u == RemoveObject(w, id)
           IN  \E k \in DOMAIN w.list :
                  /\ w.list[k].obj.id = id
                  /\ u = [w EXCEPT !.list = RemoveAt(w.list, k)]
                  /\ u \in Worlds /\ Len(u.list) = Len(w.list) - 1
                  /\ \A i \in DOMAIN u.list : u.list[i] = w.list[IF i < k THEN i ELSE i + 1]
<1> DEFINE same == {i \in DOMAIN w.list : w.list[i].obj.id = id}
           k == CHOOSE i \in same : \A j \in same : i <= j
           u == RemoveObject(w, id)
<1>1. w.list \in Seq(Elements) /\ DOMAIN w.list = 1..Len(w.list) /\ Len(w.list) \in Nat
  BY DEF Worlds
<1>2. u = [w EXCEPT !.list = RemoveAt(w.list, k)]
  BY DEF RemoveObject, Worlds
<1>3. k \in same
  <2>1. same \in SUBSET Nat
    BY <1>1
  <2>2. \E i \in same : \A j \in same : i <= j
    BY <2>1, Least
  <2> QED BY <2>2
<1> HIDE DEF k
<1>4. k \in 1..Len(w.list)
  BY <1>1, <1>3
<1> DEFINE a == SubSeq(w.list, 1, k - 1)
           b == SubSeq(w.list, k + 1, Len(w.list))
<1>5. /\ a \in Seq(Elements) /\ Len(a) = k - 1
      /\ \A i \in 1..(k - 1) : a[i] = w.list[i]
  BY <1>1, <1>4
<1>6. /\ b \in Seq(Elements) /\ Len(b) = Len(w.list) - k
      /\ \A i \in 1..(Len(w.list) - k) : b[i] = w.list[k + i]
  BY <1>1, <1>4
<1> HIDE DEF a, b
<1>7. u.list = a \o b
  BY <1>2 DEF RemoveAt, a, b, Worlds
<1>8. a \o b \in Seq(Elements) /\ Len(a \o b) = Len(w.list) - 1
  BY <1>4, <1>5, <1>6
<1> HIDE DEF u
<1>9. u \in Worlds
  BY <1>2, <1>7, <1>8 DEF Worlds
<1>10. ASSUME NEW i \in DOMAIN u.list
       PROVE  u.list[i] = w.list[IF i < k THEN i ELSE i + 1]
  <2>1. i \in 1..(Len(a) + Len(b))
    BY <1>5, <1>6, <1>7
  <2>2. CASE i < k
    BY <1>4, <1>5, <1>6, <1>7, <2>1, <2>2
  <2>3. CASE ~(i < k)
    <3>1. i \in Int /\ i - (k - 1) \in 1..(Len(w.list) - k) /\ k + (i - (k - 1)) = i + 1
      BY <1>1, <1>4, <1>5, <1>6, <2>1, <2>3
    <3>2. u.list[i] = b[i - (k - 1)]
      BY <1>4, <1>5, <1>6, <1>7, <2>1, <2>3
    <3> QED BY <1>6, <2>3, <3>1, <3>2
  <2> QED BY <2>2, <2>3
<1> QED BY <1>2, <1>3, <1>7, <1>8, <1>9, <1>10 DEF u

\* Session::RemoveObject removes one element with the id, if there is one.
LEMMA RemoveThin ==
    ASSUME NEW w \in Tidy, NEW id
    PROVE  LET u == RemoveObject(w, id)
           IN  /\ Thinned(w, u)
               /\ \A e \in Elems(w) : e \in Elems(u) \/ e.obj.id = id
               /\ Unique(w) => \A e \in Elems(u) : e.obj.id # id
<1> DEFINE u == RemoveObject(w, id)
           same == {i \in DOMAIN w.list : w.list[i].obj.id = id}
<1>1. w \in Worlds /\ Len(w.board) # 1
  BY DEF Tidy
<1>2. CASE same = {}
  <2>1. u = [w EXCEPT !.ub = TRUE]
    BY <1>2 DEF RemoveObject
  <2> HIDE DEF u
  <2>2. u \in Worlds /\ SameList(w, u) /\ u.board = w.board
    BY <1>1, <2>1 DEF Worlds, SameList
  <2>3. u \in Tidy /\ Elems(u) = Elems(w)
    BY <1>1, <2>2, TidySame
  <2>4. \A e \in Elems(w) : e.obj.id # id
    BY <1>2 DEF Elems
  <2> QED BY <2>2, <2>3, <2>4 DEF Thinned, SameList, u
<1>3. CASE same # {}
  <2>1. PICK k \in DOMAIN w.list :
                  /\ w.list[k].obj.id = id
                  /\ u = [w EXCEPT !.list = RemoveAt(w.list, k)]
                  /\ u \in Worlds /\ Len(u.list) = Len(w.list) - 1
                  /\ \A i \in DOMAIN u.list : u.list[i] = w.list[IF i < k THEN i ELSE i + 1]
    BY <1>1, <1>3, Erased
  <2> HIDE DEF u
  <2> DEFINE from(i) == IF i < k THEN i ELSE i + 1
  <2>2. /\ w.list \in Seq(Elements) /\ DOMAIN w.list = 1..Len(w.list) /\ Len(w.list) \in Nat
        /\ DOMAIN u.list = 1..(Len(w.list) - 1)
    BY <2>1, TidyList DEF Worlds
  <2>3. \A i \in DOMAIN u.list : from(i) \in DOMAIN w.list /\ from(i) # k /\ u.list[i] = w.list[from(i)]
    BY <2>1, <2>2
  <2>4. \A i, j \in DOMAIN u.list : i < j => from(i) < from(j)
    BY <2>1, <2>2
  <2>5. \A j \in DOMAIN w.list : j = k \/ \E i \in DOMAIN u.list : from(i) = j
    <3>1. SUFFICES ASSUME NEW j \in DOMAIN w.list, j # k
                   PROVE  \E i \in DOMAIN u.list : from(i) = j
      OBVIOUS
    <3>2. CASE j < k
      <4>1. j \in DOMAIN u.list /\ from(j) = j
        BY <2>1, <2>2, <3>2
      <4> QED BY <4>1
    <3>3. CASE k < j
      <4>1. j - 1 \in DOMAIN u.list /\ from(j - 1) = j
        BY <2>1, <2>2, <3>3
      <4> QED BY <4>1
    <3> QED BY <2>1, <2>2, <3>1, <3>2, <3>3
  <2> HIDE DEF from
  <2>6. u.players = w.players /\ u.board = w.board /\ u.fresh = w.fresh /\ u.nextId = w.nextId
    BY <2>1 DEF Worlds
  <2>7. u \in Tidy
    <3>1. InOrder(u.list)
      BY <2>3, <2>4, TidyList DEF InOrder
    <3>2. \A i \in DOMAIN u.list : u.list[i].node < u.fresh
      BY <2>3, <2>6, TidyList
    <3> QED BY <1>1, <2>1, <2>6, <3>1, <3>2 DEF Tidy
  <2>8. Elems(u) \subseteq Elems(w)
    BY <2>3 DEF Elems
  <2>9. ASSUME NEW e \in Elems(w) PROVE e \in Elems(u) \/ e.obj.id = id
    <3>1. PICK j \in DOMAIN w.list : e = w.list[j]
      BY DEF Elems
    <3>2. j = k \/ \E i \in DOMAIN u.list : u.list[i] = e
      BY <2>3, <2>5, <3>1
    <3> QED BY <2>1, <3>1, <3>2 DEF Elems
  <2>10. ASSUME Unique(w), NEW e \in Elems(u) PROVE e.obj.id # id
    <3>1. PICK i \in DOMAIN u.list : e = u.list[i]
      BY DEF Elems
    <3>2. e = w.list[from(i)] /\ from(i) \in DOMAIN w.list /\ from(i) # k
      BY <2>3, <3>1
    <3>3. e.node # w.list[k].node
      <4>1. from(i) < k \/ k < from(i)
        BY <2>1, <2>2, <3>2
      <4>2. e.node < w.list[k].node \/ w.list[k].node < e.node
        BY <2>1, <3>2, <4>1, TidyList DEF InOrder
      <4> QED BY <2>1, <3>2, <4>2, TidyList
    <3>4. w.list[k] \in Elems(w) /\ e \in Elems(w)
      BY <2>1, <3>2 DEF Elems
    <3> QED BY <2>1, <2>10, <3>3, <3>4 DEF Unique
  <2> QED BY <2>6, <2>7, <2>8, <2>9, <2>10 DEF Thinned, u
<1> QED BY <1>2, <1>3

\* An object is moved or counts.
LEMMA PutElems ==
    ASSUME NEW w \in Tidy, NEW e \in Elems(w), NEW o \in Canonicals
    PROVE  LET u == Put(w, e.node, o)
               d == [node |-> e.node, obj |-> o]
           IN  /\ u \in Tidy /\ u.players = w.players /\ u.board = w.board
               /\ u.fresh = w.fresh /\ u.nextId = w.nextId
               /\ Elems(u) = (Elems(w) \ {e}) \cup {d}
               /\ Unique(w) /\ o.id = e.obj.id => Unique(u)
<1> DEFINE n == e.node
           i == At(w, n)
           u == Put(w, n, o)
           d == [node |-> n, obj |-> o]
<1>1. i \in DOMAIN w.list /\ w.list[i] = e /\ e \in Elements /\ n < w.fresh /\ IsIn(w, n)
  BY ElemAt
<1>2. u = [w EXCEPT !.list = [w.list EXCEPT ![i].obj = o]]
  BY DEF Put, Tidy, Worlds
<1>3. [w.list[i] EXCEPT !.obj = o] = d /\ d \in Elements
  BY <1>1 DEF Elements
<1>4. u.list = [w.list EXCEPT ![i] = d] /\ DOMAIN u.list = DOMAIN w.list
  BY <1>1, <1>2, <1>3 DEF Tidy, Worlds
<1>5. u \in Worlds
  <2>1. Kept(w, u, {o.pos})
    BY <1>1, PutKept, TidyList
  <2> QED BY <2>1 DEF Kept
<1>6. u.players = w.players /\ u.board = w.board /\ u.fresh = w.fresh /\ u.nextId = w.nextId
  BY <1>2 DEF Tidy, Worlds
<1> HIDE DEF u
<1>7. \A j \in DOMAIN w.list : u.list[j] = IF j = i THEN d ELSE w.list[j]
  BY <1>4
<1>8. \A j \in DOMAIN w.list : u.list[j].node = w.list[j].node
  BY <1>1, <1>7
<1>9. u \in Tidy
  BY <1>4, <1>5, <1>6, <1>8, TidyList DEF Tidy, InOrder
<1>10. \A j \in DOMAIN w.list : w.list[j] = e => j = i
  BY <1>1, ElemAt, TidyList DEF InOrder
<1>11. Elems(u) = (Elems(w) \ {e}) \cup {d}
  <2>1. \A j \in DOMAIN w.list : u.list[j] \in (Elems(w) \ {e}) \cup {d}
    BY <1>7, <1>10 DEF Elems
  <2>2. \A x \in Elems(w) \ {e} : x \in Elems(u)
    BY <1>1, <1>4, <1>7 DEF Elems
  <2>3. d \in Elems(u)
    BY <1>1, <1>4, <1>7 DEF Elems
  <2> QED BY <1>4, <2>1, <2>2, <2>3 DEF Elems
<1>12. Unique(w) /\ o.id = e.obj.id => Unique(u)
  BY <1>6, <1>11 DEF Unique
<1> QED BY <1>6, <1>9, <1>11, <1>12 DEF u

-----------------------------------------------------------------------------
(* Who loses, and what a tick makes of the list.                            *)

\* The object's own tick reaches the cell.
Hits(o, pos) ==
    \/ o.kind = "bomb" /\ o.ticks = 1 /\ Within(o.pos, pos, BombExplodeRadius) /\ OnMap(state, pos)
    \/ o.kind = "bullet" /\ NextCell(o.pos, o.dir) = pos

\* A result stands, and a new one is lost by a player that the object hits.
Blames(w, u, o) ==
    /\ w.board # <<>> => u.board # <<>> /\ u.board[2] = w.board[2]
    /\ w.board = <<>> /\ u.board # <<>> =>
          u.board[2] \in Player /\ Hits(o, w.players[u.board[2]])

\* Events change neither the list nor the board.
LEMMA EmitSame ==
    ASSUME NEW w \in Tidy, NEW kind \in TickKinds, NEW id \in Nat
    PROVE  LET u == Emit(w, kind, id)
           IN  u \in Tidy /\ SameList(w, u) /\ u.board = w.board
<1> DEFINE u == Emit(w, kind, id)
<1>1. w \in Worlds /\ Len(w.board) # 1
  BY DEF Tidy
<1>2. u \in Worlds
  BY <1>1, EmitKept DEF Kept
<1>3. SameList(w, u) /\ u.board = w.board
  BY <1>1 DEF Emit, SameList, Worlds
<1> QED BY <1>1, <1>2, <1>3, TidySame

\* The player that dies is the loser, unless the match is over.
LEMMA DieBlames ==
    ASSUME NEW w \in Tidy, NEW p \in Player, NEW o, Hits(o, w.players[p])
    PROVE  LET u == Die(w, p)
           IN  u \in Tidy /\ SameList(w, u) /\ Blames(w, u, o)
<1> DEFINE u == Die(w, p)
           r == IF p = 2 THEN <<1, 2>> ELSE <<2, 1>>
<1>1. w \in Worlds /\ Len(w.board) # 1 /\ w.board \in Seq(Player) /\ Len(w.board) \in Nat
  BY DEF Tidy, Worlds
<1>2. u = [w EXCEPT !.board = w.board \o r]
  <2>1. p = 1 \/ p = 2
    BY DEF Player
  <2>2. (ActorId(p) = 1) <=> (p = 2)
    BY <2>1 DEF ActorId
  <2> QED BY <2>2 DEF Die, Finish
<1>3. r \in Seq(Player) /\ Len(r) = 2 /\ r[2] = p
  <2>1. <<1, 2>> \in Seq(Player) /\ <<2, 1>> \in Seq(Player)
    BY DEF Player
  <2>2. p = 1 \/ p = 2
    BY DEF Player
  <2> QED BY <2>1, <2>2
<1> HIDE DEF r
<1>4. /\ Len(w.board \o r) = Len(w.board) + 2
      /\ Len(w.board) = 0 => (w.board \o r)[2] = p
      /\ Len(w.board) >= 2 => (w.board \o r)[2] = w.board[2]
  <2> DEFINE b == w.board
  <2>1. b \in Seq(Player) /\ Len(b) \in Nat
    BY <1>1
  <2> HIDE DEF b
  <2>2. /\ Len(b \o r) = Len(b) + Len(r)
        /\ \A i \in 1..Len(b) + Len(r) :
              (b \o r)[i] = IF i <= Len(b) THEN b[i] ELSE r[i - Len(b)]
    BY <1>3, <2>1, ConcatProperties, Zenon
  <2> DEFINE c == b \o r
  <2> HIDE DEF c
  <2>3. Len(c) = Len(b) + 2 /\ (Len(b) = 0 => c[2] = r[2]) /\ (Len(b) >= 2 => c[2] = b[2])
    BY <1>3, <2>1, <2>2 DEF c
  <2> QED BY <1>3, <2>3 DEF b, c
<1>5. u \in Worlds /\ u.board = w.board \o r /\ SameList(w, u)
  <2>1. u \in Worlds
    BY <1>1, DieKept DEF Kept
  <2> QED BY <1>1, <1>2, <2>1 DEF Worlds, SameList
<1> HIDE DEF u
<1>6. Len(u.board) # 1 /\ u.board # <<>>
  BY <1>1, <1>4, <1>5
<1>7. u \in Tidy
  BY <1>5, <1>6, TidySame
<1>8. w.board = <<>> \/ Len(w.board) >= 2
  <2>1. w.board # <<>> => Len(w.board) \in Nat \ {0}
    BY <1>1, EmptySeq, Zenon
  <2>2. \A n \in Nat \ {0} : n # 1 => n >= 2
    OBVIOUS
  <2> QED BY <1>1, <2>1, <2>2, Zenon
<1>9. w.board = <<>> => u.board[2] = p
  BY <1>4, <1>5
<1>10. w.board # <<>> => u.board[2] = w.board[2]
  BY <1>4, <1>5, <1>8
<1>11. Blames(w, u, o)
  BY <1>6, <1>9, <1>10 DEF Blames
<1> QED BY <1>5, <1>7, <1>11 DEF u

\* One after the other.
LEMMA BlamesOn ==
    ASSUME NEW v, NEW w, NEW u, NEW o, Blames(v, w, o), Blames(w, u, o), w.players = v.players
    PROVE  Blames(v, u, o)
BY DEF Blames

\* The first player in the blast.
LEMMA ExplodeBlames ==
    ASSUME NEW w \in Tidy, NEW o, o.kind = "bomb", o.ticks = 1
    PROVE  LET u == Explode(w, o.pos)
           IN  u \in Tidy /\ SameList(w, u) /\ Blames(w, u, o)
<1> DEFINE hit == {p \in Player : /\ OnMap(state, w.players[p])
                                  /\ Within(o.pos, w.players[p], BombExplodeRadius)}
           Before(a, b) == a[1] < b[1] \/ (a[1] = b[1] /\ a[2] <= b[2])
           Earlier(p, q) == /\ Before(w.players[p], w.players[q])
                            /\ w.players[p] = w.players[q] => p <= q
           first == CHOOSE p \in hit : \A q \in hit : Earlier(p, q)
           u == Explode(w, o.pos)
<1>1. CASE hit = {}
  <2>1. u = w
    BY <1>1 DEF Explode
  <2> QED BY <2>1 DEF SameList, Blames
<1>2. CASE hit # {}
  <2>1. u = Die(w, first)
    BY <1>2 DEF Explode
  <2>2. first \in hit
    <3>1. \A p \in Player : w.players[p][1] \in Int /\ w.players[p][2] \in Int
      BY DEF Tidy, Worlds
    <3>2. \A p \in Player : Earlier(p, p)
      BY <3>1 DEF Player
    <3>3. Earlier(1, 2) \/ Earlier(2, 1)
      BY <3>1 DEF Player
    <3>4. \E p \in hit : \A q \in hit : Earlier(p, q)
      <4> HIDE DEF Earlier
      <4>1. hit \subseteq {1, 2}
        BY DEF Player
      <4>2. CASE hit = {1}
        BY <3>2, <4>2 DEF Player
      <4>3. CASE hit = {2}
        BY <3>2, <4>3 DEF Player
      <4>4. CASE hit = {1, 2}
        BY <3>2, <3>3, <4>4 DEF Player
      <4> HIDE DEF hit
      <4> QED BY <1>2, <4>1, <4>2, <4>3, <4>4
    <3> HIDE DEF Earlier, hit
    <3> QED BY <3>4
  <2>3. first \in Player /\ Hits(o, w.players[first])
    <3> HIDE DEF first
    <3> QED BY <2>2 DEF Hits
  <2> HIDE DEF first, u
  <2>4. Die(w, first) \in Tidy /\ SameList(w, Die(w, first)) /\ Blames(w, Die(w, first), o)
    BY <2>3, DieBlames
  <2> QED BY <2>1, <2>4 DEF u
<1> QED BY <1>1, <1>2

\* A player on the cell that a bullet flies to.
LEMMA KillBlames ==
    ASSUME NEW w \in Tidy, NEW p \in Player, NEW o, o.kind = "bullet"
    PROVE  LET u == Kill(w, p, NextCell(o.pos, o.dir))
           IN  u \in Tidy /\ SameList(w, u) /\ Blames(w, u, o)
<1> DEFINE pos == NextCell(o.pos, o.dir)
<1>1. CASE w.players[p] = pos
  <2>1. Hits(o, w.players[p])
    BY <1>1 DEF Hits
  <2> QED BY <1>1, <2>1, DieBlames DEF Kill
<1>2. CASE w.players[p] # pos
  BY <1>2 DEF Kill, SameList, Blames
<1> QED BY <1>1, <1>2

\* The bullet that a gun's tick appends.
Shot(w, e, d) == /\ e.obj.kind = "gun" /\ e.obj.ticks = 1
                 /\ d = [node |-> w.fresh, obj |-> Bullet(e.obj.pos, e.obj.dir, w.nextId)]

Free(pos) == OnMap(state, pos) /\ pos \notin DOMAIN state.walls

\* The element as its tick leaves it.
Older(e) == [node |-> e.node, obj |-> Aged(e.obj)]

\* When ids are unique, a tick removes nothing by mistake: only bullets, and
\* the element itself when its time has come.
Orderly(w, e, u) ==
    /\ Unique(u)
    /\ \A d \in Elems(w) \ {e} : d \in Elems(u) \/ d.obj.kind = "bullet"
    /\ e.node \in Nodes(u) \/ MayGo(e.obj)
    /\ (e.node \in Nodes(u) /\ e.obj.kind = "bullet") => Free(NextCell(e.obj.pos, e.obj.dir))

\* The tick of an element: it ages or goes, the others stay as they are or go,
\* and a gun may have shot.
Ticked(w, e, u) ==
    /\ u \in Tidy /\ u.players = w.players /\ w.fresh <= u.fresh /\ w.nextId <= u.nextId
    /\ \A d \in Elems(u) : d \in Elems(w) \ {e} \/ d = Older(e) \/ Shot(w, e, d)
    /\ Blames(w, u, e.obj)
    /\ Unique(w) => Orderly(w, e, u)

\* The object of an element.
LEMMA ElemObj ==
    ASSUME NEW w \in Tidy, NEW e \in Elems(w)
    PROVE  LET o == e.obj
           IN  /\ w.list[At(w, e.node)].obj = o
               /\ o \in Canonicals /\ o.id \in Nat /\ o.ticks \in Int /\ o.shots \in Int
               /\ o.pos \in Int \X Int /\ o.dir \in Direction
               /\ o.kind \in {"bomb", "gun", "bullet"}
BY ElemAt DEF Elements, Canonicals, Objects

\* Bomb::UpdateTick.
LEMMA BombTicked ==
    ASSUME NEW w \in Tidy, NEW e \in Elems(w), e.obj.kind = "bomb"
    PROVE  Ticked(w, e, TickBomb(w, e.node, e.obj))
<1> DEFINE o == e.obj
           c == [o EXCEPT !.ticks = @ - 1]
           d == [node |-> e.node, obj |-> c]
           counted == Put(w, e.node, c)
           exploded == Explode(counted, o.pos)
           removed == RemoveObject(exploded, o.id)
           u == TickBomb(w, e.node, o)
<1>1. o \in Canonicals /\ o.id \in Nat /\ o.ticks \in Int /\ o.kind = "bomb"
  BY ElemObj
<1>2. c \in Canonicals /\ c.id = o.id /\ d = Older(e)
  <2>1. c \in Canonicals /\ c.id = o.id
    BY <1>1 DEF Canonicals, Canonical, Objects
  <2>2. c = Aged(o)
    BY <1>1 DEF Aged
  <2> QED BY <2>1, <2>2 DEF Older
<1> HIDE DEF c
<1>3. /\ counted \in Tidy /\ counted.players = w.players /\ counted.board = w.board
      /\ counted.fresh = w.fresh /\ counted.nextId = w.nextId
      /\ Elems(counted) = (Elems(w) \ {e}) \cup {d}
      /\ Unique(w) => Unique(counted)
  BY <1>2, PutElems
<1> HIDE DEF counted
<1>4. CASE o.ticks # 1
  <2>1. u = Emit(counted, "bomb_ticking", o.id)
    BY <1>4 DEF TickBomb, counted, c
  <2> HIDE DEF u
  <2>2. u \in Tidy /\ SameList(counted, u) /\ u.board = counted.board
    BY <1>1, <1>3, <2>1, EmitSame DEF TickKinds
  <2>3. Elems(u) = Elems(counted) /\ (Unique(counted) => Unique(u))
    BY <1>3, <2>2, TidySame DEF Tidy
  <2>4. e.node \in Nodes(u)
    <3>1. d \in Elems(u) /\ d.node = e.node
      BY <1>3, <2>3
    <3> HIDE DEF d
    <3> QED BY <3>1 DEF Nodes
  <2>5. Unique(w) => Orderly(w, e, u)
    BY <1>1, <1>3, <2>3, <2>4 DEF Orderly
  <2>6. Blames(w, u, o)
    BY <1>3, <2>2 DEF Blames
  <2>7. u.players = w.players /\ w.fresh <= u.fresh /\ w.nextId <= u.nextId
    BY <1>3, <2>2, TidyList DEF SameList
  <2> QED BY <1>2, <1>3, <2>2, <2>3, <2>5, <2>6, <2>7 DEF Ticked, u
<1>5. CASE o.ticks = 1
  <2>1. u = Emit(removed, "bomb_explode", o.id)
    BY <1>5 DEF TickBomb, counted, c
  <2>2. exploded \in Tidy /\ SameList(counted, exploded) /\ Blames(counted, exploded, o)
    BY <1>1, <1>3, <1>5, ExplodeBlames
  <2> HIDE DEF exploded
  <2>3. Elems(exploded) = Elems(counted) /\ (Unique(counted) => Unique(exploded))
    BY <1>3, <2>2, TidySame DEF Tidy
  <2>4. /\ Thinned(exploded, removed)
        /\ \A x \in Elems(exploded) : x \in Elems(removed) \/ x.obj.id = o.id
    BY <2>2, RemoveThin
  <2> HIDE DEF removed, u
  <2>5. removed \in Tidy
    BY <2>4 DEF Thinned
  <2>6. u \in Tidy /\ SameList(removed, u) /\ u.board = removed.board
    BY <1>1, <2>1, <2>5, EmitSame DEF TickKinds
  <2>7. Elems(u) = Elems(removed) /\ (Unique(removed) => Unique(u))
    BY <2>5, <2>6, TidySame DEF Tidy
  <2>8. Unique(exploded) => Unique(removed)
    BY <2>4 DEF Thinned, Unique
  <2>9. Unique(w) => \A x \in Elems(w) \ {e} : x \in Elems(u)
    BY <1>3, <2>3, <2>4, <2>7 DEF Unique
  <2>10. MayGo(o)
    BY <1>1, <1>5 DEF MayGo
  <2>11. Unique(w) => Orderly(w, e, u)
    BY <1>1, <1>3, <2>3, <2>7, <2>8, <2>9, <2>10 DEF Orderly
  <2>12. Blames(w, u, o)
    BY <1>3, <2>2, <2>4, <2>6 DEF Blames, Thinned
  <2>13. u.players = w.players /\ w.fresh <= u.fresh /\ w.nextId <= u.nextId
    BY <1>3, <2>2, <2>4, <2>6, TidyList DEF SameList, Thinned
  <2>14. Elems(u) \subseteq (Elems(w) \ {e}) \cup {d}
    BY <1>3, <2>3, <2>4, <2>7 DEF Thinned
  <2> QED BY <1>2, <2>6, <2>11, <2>12, <2>13, <2>14 DEF Ticked, u
<1> QED BY <1>4, <1>5

\* A bullet joins the list.
LEMMA ShotElems ==
    ASSUME NEW w \in Tidy, NEW pos \in Int \X Int, NEW dir \in Direction
    PROVE  LET b == [node |-> w.fresh, obj |-> Bullet(pos, dir, w.nextId)]
               u == [w EXCEPT !.list = Append(@, b), !.fresh = @ + 1, !.nextId = @ + 1]
           IN  /\ u \in Tidy /\ u.players = w.players /\ u.board = w.board
               /\ u.fresh = w.fresh + 1 /\ u.nextId = w.nextId + 1
               /\ Elems(u) = Elems(w) \cup {b}
               /\ Unique(w) => Unique(u)
<1> DEFINE b == [node |-> w.fresh, obj |-> Bullet(pos, dir, w.nextId)]
           u == [w EXCEPT !.list = Append(@, b), !.fresh = @ + 1, !.nextId = @ + 1]
<1>1. w \in Worlds /\ u \in Worlds
  <2>1. w \in Worlds
    BY DEF Tidy
  <2>2. Kept(w, u, {pos})
    BY <2>1, ShotKept
  <2> QED BY <2>1, <2>2 DEF Kept
<1>2. b.node = w.fresh /\ b.obj.id = w.nextId
  BY DEF Bullet
<1>3. /\ u.players = w.players /\ u.board = w.board
      /\ u.fresh = w.fresh + 1 /\ u.nextId = w.nextId + 1 /\ u.list = Append(w.list, b)
  BY <1>1 DEF Worlds
<1> DEFINE n == Len(w.list) + 1
<1> HIDE DEF b, u
<1>4. /\ DOMAIN u.list = 1..n /\ n \in Nat /\ u.list[n] = b /\ DOMAIN w.list = 1..(n - 1)
      /\ \A i \in DOMAIN w.list : u.list[i] = w.list[i]
  BY <1>3, TidyList
<1> HIDE DEF n
<1>5. \A i \in DOMAIN u.list : i = n \/ (i \in DOMAIN w.list /\ i < n)
  <2>1. \A m \in Nat : \A i \in 1..m : i = m \/ (i \in 1..(m - 1) /\ i < m)
    OBVIOUS
  <2> QED BY <1>4, <2>1
<1>6. u \in Tidy
  <2>1. InOrder(u.list)
    <3>1. SUFFICES ASSUME NEW i \in DOMAIN u.list, NEW j \in DOMAIN u.list, i < j
                   PROVE  u.list[i].node < u.list[j].node
      BY DEF InOrder
    <3>2. i \in DOMAIN w.list /\ u.list[i] = w.list[i]
      BY <1>4, <1>5, <3>1
    <3>3. CASE j = n
      BY <1>2, <1>4, <3>2, <3>3, TidyList
    <3>4. CASE j # n
      BY <1>4, <1>5, <3>1, <3>2, <3>4, TidyList DEF InOrder
    <3> QED BY <3>3, <3>4
  <2>2. ASSUME NEW i \in DOMAIN u.list PROVE u.list[i].node < u.fresh
    <3>1. u.fresh = w.fresh + 1 /\ w.fresh \in Nat
      BY <1>3, TidyList
    <3>2. CASE i = n
      BY <1>2, <1>4, <3>1, <3>2
    <3>3. CASE i # n
      <4>1. u.list[i] = w.list[i] /\ i \in DOMAIN w.list
        BY <1>4, <1>5, <3>3
      <4> QED BY <3>1, <4>1, TidyList
    <3> QED BY <3>2, <3>3
  <2> QED BY <1>1, <1>3, <2>1, <2>2 DEF Tidy
<1>7. Elems(u) = Elems(w) \cup {b}
  <2>1. \A i \in DOMAIN u.list : u.list[i] \in Elems(w) \cup {b}
    BY <1>4, <1>5 DEF Elems
  <2>2. \A i \in DOMAIN w.list : w.list[i] \in Elems(u)
    <3>1. \A i \in DOMAIN w.list : i \in DOMAIN u.list
      BY <1>4
    <3> QED BY <1>4, <3>1 DEF Elems
  <2>3. b \in Elems(u)
    <3>1. n \in DOMAIN u.list
      BY <1>4, TidyList DEF n
    <3> QED BY <1>4, <3>1 DEF Elems
  <2> QED BY <2>1, <2>2, <2>3 DEF Elems
<1>8. ASSUME Unique(w) PROVE Unique(u)
  <2>1. w.nextId \in Nat /\ \A e \in Elems(w) : e.obj.id < w.nextId /\ e.obj.id \in Nat
    BY <1>8, ElemObj, TidyList DEF Unique
  <2>2. \A e \in Elems(u) : e.obj.id < u.nextId
    BY <1>2, <1>3, <1>7, <2>1
  <2>3. \A d, e \in Elems(u) : d.obj.id = e.obj.id => d = e
    BY <1>2, <1>7, <1>8, <2>1 DEF Unique
  <2> QED BY <2>2, <2>3 DEF Unique
<1> QED BY <1>3, <1>6, <1>7, <1>8 DEF b, u

\* Gun::UpdateTick.
LEMMA GunTicked ==
    ASSUME NEW w \in Tidy, NEW e \in Elems(w), e.obj.kind = "gun"
    PROVE  Ticked(w, e, TickGun(w, e.node, e.obj))
<1> DEFINE o == e.obj
           c == Aged(o)
           d == [node |-> e.node, obj |-> c]
           aged == Put(w, e.node, c)
           b == [node |-> aged.fresh, obj |-> Bullet(o.pos, o.dir, aged.nextId)]
           shot == [aged EXCEPT !.list = Append(@, b), !.fresh = @ + 1, !.nextId = @ + 1]
           removed == RemoveObject(shot, o.id)
           told == Emit(removed, "gun_shot", o.id)
           u == TickGun(w, e.node, o)
<1>1. /\ o \in Canonicals /\ o.id \in Nat /\ o.ticks \in Int /\ o.shots \in Int /\ o.kind = "gun"
      /\ o.pos \in Int \X Int /\ o.dir \in Direction
  BY ElemObj
<1>2. /\ o.ticks # 1 => c = [o EXCEPT !.ticks = @ - 1]
      /\ o.ticks = 1 => c = [o EXCEPT !.ticks = GunCooldown, !.shots = @ - 1]
  BY <1>1 DEF Aged
<1>3. c \in Canonicals /\ c.id = o.id /\ d = Older(e)
  <2>1. CASE o.ticks # 1
    BY <1>1, <1>2, <2>1 DEF Canonicals, Canonical, Objects, Older
  <2>2. CASE o.ticks = 1
    <3> DEFINE t == [o EXCEPT !.ticks = GunCooldown]
    <3>1. t \in Objects /\ t.kind = "gun" /\ t.id = o.id
      BY <1>1 DEF Canonicals, Objects, GunCooldown
    <3>2. c = [t EXCEPT !.shots = o.shots - 1]
      BY <1>2, <2>2
    <3> HIDE DEF t, c
    <3>3. c \in Objects /\ c.kind = "gun" /\ c.id = o.id
      BY <1>1, <3>1, <3>2 DEF Objects
    <3> QED BY <3>3 DEF Canonicals, Canonical, Older, c
  <2> QED BY <2>1, <2>2
<1> HIDE DEF c
<1>4. /\ aged \in Tidy /\ aged.players = w.players /\ aged.board = w.board
      /\ aged.fresh = w.fresh /\ aged.nextId = w.nextId
      /\ Elems(aged) = (Elems(w) \ {e}) \cup {d}
      /\ Unique(w) => Unique(aged)
  BY <1>3, PutElems
<1>5. u = IF o.ticks # 1 THEN Emit(aged, "gun_waiting", o.id)
          ELSE IF o.shots # 1 THEN Emit(shot, "gun_shot", o.id)
          ELSE Emit(told, "gun_destroy", o.id)
  <2>1. CASE o.ticks # 1
    BY <1>2, <2>1 DEF TickGun
  <2>2. CASE o.ticks = 1
    <3> DEFINE reset == Put(w, e.node, [o EXCEPT !.ticks = GunCooldown, !.shots = @ - 1])
    <3>1. reset = aged /\ aged.fresh = w.fresh /\ aged.nextId = w.nextId
      BY <1>2, <1>4, <2>2
    <3>2. u = LET s == [reset EXCEPT
                    !.list = Append(@, [node |-> w.fresh, obj |-> Bullet(o.pos, o.dir, w.nextId)]),
                    !.fresh = @ + 1,
                    !.nextId = @ + 1]
              IN  IF o.shots # 1 THEN Emit(s, "gun_shot", o.id)
                  ELSE Emit(Emit(RemoveObject(s, o.id), "gun_shot", o.id), "gun_destroy", o.id)
      BY <2>2 DEF TickGun
    <3> HIDE DEF reset, aged, u
    <3> QED BY <2>2, <3>1, <3>2
  <2> QED BY <2>1, <2>2
<1> HIDE DEF aged, u
<1>6. /\ shot \in Tidy /\ shot.players = w.players /\ shot.board = w.board
      /\ shot.fresh = w.fresh + 1 /\ shot.nextId = w.nextId + 1
      /\ Elems(shot) = Elems(aged) \cup {b}
      /\ Unique(w) => Unique(shot)
  <2>1. o.pos \in Int \X Int /\ o.dir \in Direction /\ aged \in Tidy
    BY <1>1, <1>4
  <2>2. /\ shot \in Tidy /\ shot.players = aged.players /\ shot.board = aged.board
        /\ shot.fresh = aged.fresh + 1 /\ shot.nextId = aged.nextId + 1
        /\ Elems(shot) = Elems(aged) \cup {b}
        /\ Unique(aged) => Unique(shot)
    BY <2>1, ShotElems, Zenon
  <2> HIDE DEF shot, b
  <2> QED BY <1>4, <2>2
<1>7. o.ticks = 1 => Shot(w, e, b)
  BY <1>1, <1>4 DEF Shot
<1> HIDE DEF shot, b
<1>8. d.node = e.node
  OBVIOUS
<1> HIDE DEF d
<1>9. e.node \in Nodes(w) /\ w.fresh \in Nat /\ w.nextId \in Nat
  BY TidyList, ElemAt
<1>10. "gun_waiting" \in TickKinds /\ "gun_shot" \in TickKinds /\ "gun_destroy" \in TickKinds
  BY DEF TickKinds
<1>11. CASE o.ticks # 1
  <2>1. u \in Tidy /\ SameList(aged, u) /\ u.board = aged.board
    BY <1>1, <1>4, <1>5, <1>10, <1>11, EmitSame
  <2>2. Elems(u) = Elems(aged) /\ (Unique(aged) => Unique(u))
    BY <1>4, <2>1, TidySame DEF Tidy
  <2>3. e.node \in Nodes(u)
    BY <1>4, <1>8, <2>2 DEF Nodes
  <2>4. Unique(w) => Orderly(w, e, u)
    BY <1>1, <1>4, <2>2, <2>3 DEF Orderly
  <2>5. Blames(w, u, o)
    BY <1>4, <2>1 DEF Blames
  <2>6. u.players = w.players /\ w.fresh <= u.fresh /\ w.nextId <= u.nextId
    BY <1>4, <1>9, <2>1 DEF SameList
  <2> QED BY <1>3, <1>4, <2>1, <2>2, <2>4, <2>5, <2>6 DEF Ticked, u
<1>12. CASE o.ticks = 1 /\ o.shots # 1
  <2>1. u \in Tidy /\ SameList(shot, u) /\ u.board = shot.board
    BY <1>1, <1>5, <1>6, <1>10, <1>12, EmitSame
  <2>2. Elems(u) = Elems(shot) /\ (Unique(shot) => Unique(u))
    BY <1>6, <2>1, TidySame DEF Tidy
  <2>3. e.node \in Nodes(u)
    BY <1>4, <1>6, <1>8, <2>2 DEF Nodes
  <2>4. Unique(w) => Orderly(w, e, u)
    BY <1>1, <1>4, <1>6, <2>2, <2>3 DEF Orderly
  <2>5. Blames(w, u, o)
    BY <1>6, <2>1 DEF Blames
  <2>6. u.players = w.players /\ w.fresh <= u.fresh /\ w.nextId <= u.nextId
    BY <1>6, <1>9, <2>1 DEF SameList
  <2> QED BY <1>3, <1>4, <1>6, <1>7, <1>12, <2>1, <2>2, <2>4, <2>5, <2>6 DEF Ticked, u
<1>13. CASE o.ticks = 1 /\ o.shots = 1
  <2>1. /\ Thinned(shot, removed)
        /\ \A x \in Elems(shot) : x \in Elems(removed) \/ x.obj.id = o.id
    BY <1>6, RemoveThin
  <2> HIDE DEF removed
  <2>2. removed \in Tidy
    BY <2>1 DEF Thinned
  <2>3. told \in Tidy /\ SameList(removed, told) /\ told.board = removed.board
    BY <1>1, <1>10, <2>2, EmitSame
  <2> HIDE DEF told
  <2>4. u \in Tidy /\ SameList(told, u) /\ u.board = told.board
    BY <1>1, <1>5, <1>10, <1>13, <2>3, EmitSame
  <2>5. Elems(u) = Elems(removed) /\ (Unique(removed) => Unique(u))
    <3>1. Elems(told) = Elems(removed) /\ (Unique(removed) => Unique(told))
      BY <2>2, <2>3, TidySame DEF Tidy
    <3>2. Elems(u) = Elems(told) /\ (Unique(told) => Unique(u))
      BY <2>3, <2>4, TidySame DEF Tidy
    <3> QED BY <3>1, <3>2
  <2>6. Unique(shot) => Unique(removed)
    BY <2>1 DEF Thinned, Unique
  <2>7. Unique(w) => \A x \in Elems(w) \ {e} : x \in Elems(u)
    BY <1>4, <1>6, <2>1, <2>5 DEF Unique
  <2>8. MayGo(o)
    BY <1>1, <1>13 DEF MayGo
  <2>9. Unique(w) => Orderly(w, e, u)
    BY <1>1, <1>6, <2>5, <2>6, <2>7, <2>8 DEF Orderly
  <2>10. Blames(w, u, o)
    BY <1>6, <2>1, <2>3, <2>4 DEF Blames, Thinned
  <2>11. u.players = w.players /\ w.fresh <= u.fresh /\ w.nextId <= u.nextId
    BY <1>6, <1>9, <2>1, <2>3, <2>4 DEF SameList, Thinned
  <2>12. Elems(u) \subseteq ((Elems(w) \ {e}) \cup {d}) \cup {b}
    BY <1>4, <1>6, <2>1, <2>5 DEF Thinned
  <2> QED BY <1>3, <1>7, <1>13, <2>4, <2>9, <2>10, <2>11, <2>12 DEF Ticked, u
<1> QED BY <1>11, <1>12, <1>13 DEF u

\* The bullets on a cell are removed, and nothing else when ids are unique.
LEMMA StrikeThin ==
    ASSUME NEW w \in Tidy, NEW pos, NEW id
    PROVE  LET u == Strike(w, pos, id)
           IN  /\ Thinned(w, u)
               /\ Unique(w) => \A x \in Elems(w) : x \in Elems(u) \/ x.obj.kind = "bullet"
<1> DEFINE Spared(u) == Unique(w) => \A x \in Elems(w) : x \in Elems(u) \/ x.obj.kind = "bullet"
           A == {u \in Tidy : Thinned(w, u) /\ Spared(u)}
<1>1. w \in A
  BY DEF Thinned
<1>2. ASSUME NEW u \in A, NEW i \in DOMAIN w.list, w.list[i].obj.kind = "bullet"
      PROVE  RemoveObject(u, w.list[i].obj.id) \in A
  <2> DEFINE b == w.list[i]
             v == RemoveObject(u, b.obj.id)
  <2>1. b \in Elems(w) /\ b.obj.kind = "bullet"
    BY <1>2 DEF Elems
  <2>2. Thinned(u, v) /\ \A x \in Elems(u) : x \in Elems(v) \/ x.obj.id = b.obj.id
    BY RemoveThin
  <2> HIDE DEF b, v
  <2>3. Thinned(w, v)
    BY <2>2, ThinnedOn
  <2>4. Spared(v)
    BY <2>1, <2>2 DEF Unique
  <2> QED BY <2>3, <2>4 DEF Thinned, b, v
<1>3. w.list \in Seq(Elements)
  BY TidyList
<1>4. Strike(w, pos, id) \in A
  <2> HIDE DEF A
  <2> QED BY <1>1, <1>2, <1>3, StrikeStays
<1> QED BY <1>4

\* The events of a collision change neither the list nor the board.
LEMMA InteractSame ==
    ASSUME NEW w \in Tidy, NEW hits \in Nat, NEW id \in Nat
    PROVE  LET u == Interact(w, hits, id)
           IN  u \in Tidy /\ SameList(w, u) /\ u.board = w.board
<1> DEFINE A == {u \in Tidy : SameList(w, u) /\ u.board = w.board}
<1>1. w \in A
  BY DEF SameList
<1>2. ASSUME NEW u \in A PROVE Emit(u, "bullet_interaction", id) \in A
  <2> DEFINE v == Emit(u, "bullet_interaction", id)
  <2>1. "bullet_interaction" \in TickKinds
    BY DEF TickKinds
  <2>2. v \in Tidy /\ SameList(u, v) /\ v.board = u.board
    BY <2>1, EmitSame
  <2> HIDE DEF v
  <2> QED BY <2>2 DEF SameList, v
<1>3. Interact(w, hits, id) \in A
  <2> HIDE DEF A
  <2> QED BY <1>1, <1>2, InteractStays
<1> QED BY <1>3

\* Bullet::UpdateTick.
LEMMA BulletTicked ==
    ASSUME NEW w \in Tidy, NEW e \in Elems(w), e.obj.kind = "bullet"
    PROVE  Ticked(w, e, TickBullet(w, e.node, e.obj))
<1> DEFINE o == e.obj
           pos == NextCell(o.pos, o.dir)
           c == [o EXCEPT !.pos = pos]
           d == [node |-> e.node, obj |-> c]
           flown == Put(w, e.node, c)
           hits == Collisions(flown, pos, o.id)
           struck == Strike(flown, pos, o.id)
           first == Kill(struck, 1, pos)
           killed == Kill(first, 2, pos)
           removed == RemoveObject(killed, o.id)
           told == Interact(removed, hits, o.id)
           u == TickBullet(w, e.node, o)
<1>1. /\ o \in Canonicals /\ o.id \in Nat /\ o.kind = "bullet" /\ o.pos \in Int \X Int
      /\ o.dir \in Direction
  BY ElemObj
<1>2. c \in Canonicals /\ c.id = o.id /\ d = Older(e)
  <2>1. pos \in Int \X Int
    BY <1>1 DEF NextCell, Step, Direction
  <2> HIDE DEF pos
  <2>2. c \in Canonicals /\ c.id = o.id
    BY <1>1, <2>1 DEF Canonicals, Canonical, Objects
  <2>3. c = Aged(o)
    BY <1>1 DEF Aged, pos
  <2> QED BY <2>2, <2>3 DEF Older
<1>3. /\ flown \in Tidy /\ flown.players = w.players /\ flown.board = w.board
      /\ flown.fresh = w.fresh /\ flown.nextId = w.nextId
      /\ Elems(flown) = (Elems(w) \ {e}) \cup {d}
      /\ Unique(w) => Unique(flown)
  <2> HIDE DEF c, pos
  <2> QED BY <1>2, PutElems
<1>4. d.node = e.node /\ d.obj.id = o.id
  <2> HIDE DEF c, pos
  <2> QED BY <1>2
<1>5. u = IF ~OnMap(state, pos) THEN Emit(RemoveObject(flown, o.id), "bullet_destroy", o.id)
          ELSE IF hits = 0 THEN Emit(flown, "bullet_fly", o.id)
          ELSE Emit(told, "bullet_destroy", o.id)
  BY DEF TickBullet
<1>6. hits \in Nat /\ (hits = 0 => pos \notin DOMAIN state.walls)
  <2>1. flown \in Worlds
    BY <1>3 DEF Tidy
  <2> HIDE DEF flown, pos
  <2> QED BY <2>1, CollisionsNat
<1>7. /\ e.node \in Nodes(w) /\ w.fresh \in Nat /\ w.nextId \in Nat /\ MayGo(o)
      /\ "bullet_destroy" \in TickKinds /\ "bullet_fly" \in TickKinds
  BY <1>1, TidyList, ElemAt DEF MayGo, TickKinds
<1> HIDE DEF flown, hits, c, u, d
\* The bullet leaves the list.
<1>8. ASSUME NEW v \in Tidy, NEW x \in Tidy, Thinned(flown, v),
             Unique(flown) => \A y \in Elems(flown) : y \in Elems(v) \/ y.obj.kind = "bullet",
             SameList(RemoveObject(x, o.id), u), SameList(v, x), u \in Tidy,
             Blames(w, u, o)
      PROVE  Ticked(w, e, u)
  <2> DEFINE r == RemoveObject(x, o.id)
  <2>1. Elems(x) = Elems(v) /\ (Unique(v) => Unique(x))
    BY <1>8, TidySame DEF Tidy
  <2>2. /\ Thinned(x, r)
        /\ \A y \in Elems(x) : y \in Elems(r) \/ y.obj.id = o.id
        /\ Unique(x) => \A y \in Elems(r) : y.obj.id # o.id
    BY RemoveThin
  <2> HIDE DEF r
  <2>3. r \in Tidy /\ (Unique(x) => Unique(r))
    BY <2>2 DEF Thinned, Unique
  <2>4. Elems(u) = Elems(r) /\ (Unique(r) => Unique(u))
    BY <1>8, <2>3, TidySame DEF r, Tidy
  <2>5. Unique(flown) => Unique(v)
    BY <1>8 DEF Thinned, Unique
  <2>6. Elems(u) \subseteq (Elems(w) \ {e}) \cup {d}
    BY <1>3, <1>8, <2>1, <2>2, <2>4 DEF Thinned
  <2>7. Unique(w) => \A y \in Elems(w) \ {e} : y \in Elems(u) \/ y.obj.kind = "bullet"
    BY <1>3, <1>8, <2>1, <2>2, <2>4 DEF Unique
  <2>8. Unique(w) => e.node \notin Nodes(u)
    <3>1. SUFFICES ASSUME Unique(w), NEW y \in Elems(u), y.node = e.node PROVE FALSE
      BY DEF Nodes
    <3>2. y.obj.id # o.id /\ y \in Elems(flown)
      BY <1>3, <1>8, <2>1, <2>2, <2>4, <2>5, <3>1 DEF Thinned
    <3>3. y = d
      BY <1>3, <1>4, <3>1, <3>2, NodeElem
    <3> QED BY <1>4, <3>2, <3>3
  <2>9. Unique(w) => Orderly(w, e, u)
    BY <1>3, <1>7, <2>1, <2>3, <2>4, <2>5, <2>7, <2>8 DEF Orderly
  <2>10. u.players = w.players /\ w.fresh <= u.fresh /\ w.nextId <= u.nextId
    BY <1>3, <1>7, <1>8, <2>2 DEF Thinned, SameList, r
  <2> QED BY <1>2, <1>8, <2>6, <2>9, <2>10 DEF Ticked
<1>9. CASE ~OnMap(state, pos)
  <2> DEFINE r == RemoveObject(flown, o.id)
  <2>1. Thinned(flown, r)
    BY <1>3, RemoveThin
  <2> HIDE DEF r
  <2>2. r \in Tidy
    BY <2>1 DEF Thinned
  <2>3. u \in Tidy /\ SameList(r, u) /\ u.board = r.board
    BY <1>1, <1>5, <1>7, <1>9, <2>2, EmitSame DEF r
  <2>4. Blames(w, u, o)
    BY <1>3, <2>1, <2>3 DEF Blames, Thinned
  <2>5. Thinned(flown, flown) /\ SameList(flown, flown)
    BY <1>3 DEF Thinned, SameList
  <2> QED BY <1>3, <1>8, <2>3, <2>4, <2>5 DEF r, u
<1>10. CASE OnMap(state, pos) /\ hits = 0
  <2>1. u \in Tidy /\ SameList(flown, u) /\ u.board = flown.board
    BY <1>1, <1>3, <1>5, <1>7, <1>10, EmitSame
  <2>2. Elems(u) = Elems(flown) /\ (Unique(flown) => Unique(u))
    BY <1>3, <2>1, TidySame DEF Tidy
  <2>3. e.node \in Nodes(u)
    BY <1>3, <1>4, <2>2 DEF Nodes
  <2>4. Free(pos)
    BY <1>6, <1>10 DEF Free
  <2>5. Unique(w) => Orderly(w, e, u)
    BY <1>3, <2>2, <2>3, <2>4 DEF Orderly
  <2>6. Blames(w, u, o)
    BY <1>3, <2>1 DEF Blames
  <2>7. u.players = w.players /\ w.fresh <= u.fresh /\ w.nextId <= u.nextId
    BY <1>3, <1>7, <2>1 DEF SameList
  <2> QED BY <1>2, <1>3, <2>1, <2>2, <2>5, <2>6, <2>7 DEF Ticked, u
<1>11. CASE OnMap(state, pos) /\ hits # 0
  <2>1. /\ Thinned(flown, struck)
        /\ Unique(flown) => \A y \in Elems(flown) : y \in Elems(struck) \/ y.obj.kind = "bullet"
    BY <1>3, StrikeThin
  <2> HIDE DEF struck
  <2>2. struck \in Tidy
    BY <2>1 DEF Thinned
  <2>3. first \in Tidy /\ SameList(struck, first) /\ Blames(struck, first, o)
    BY <1>1, <2>2, KillBlames DEF Player
  <2> HIDE DEF first
  <2>4. killed \in Tidy /\ SameList(first, killed) /\ Blames(first, killed, o)
    BY <1>1, <2>3, KillBlames DEF Player
  <2> HIDE DEF killed
  <2>5. Thinned(killed, removed)
    BY <2>4, RemoveThin
  <2> HIDE DEF removed
  <2>6. removed \in Tidy
    BY <2>5 DEF Thinned
  <2>7. told \in Tidy /\ SameList(removed, told) /\ told.board = removed.board
    BY <1>1, <1>6, <2>6, InteractSame
  <2> HIDE DEF told
  <2>8. u \in Tidy /\ SameList(told, u) /\ u.board = told.board
    BY <1>1, <1>5, <1>7, <1>11, <2>7, EmitSame
  <2>9. SameList(removed, u) /\ SameList(struck, killed)
    BY <2>3, <2>4, <2>7, <2>8 DEF SameList
  <2>10. Blames(struck, killed, o)
    BY <2>3, <2>4, BlamesOn DEF SameList
  <2>11. Blames(w, u, o)
    BY <1>3, <2>1, <2>5, <2>7, <2>8, <2>10 DEF Blames, Thinned
  <2> QED BY <1>8, <2>1, <2>2, <2>4, <2>8, <2>9, <2>11 DEF removed, u
<1> QED BY <1>9, <1>10, <1>11 DEF u

\* One tick.
LEMMA UpdateTicked ==
    ASSUME NEW w \in Tidy, NEW e \in Elems(w)
    PROVE  Ticked(w, e, UpdateTick(w, e.node))
<1> DEFINE o == e.obj
<1>1. o.kind \in {"bomb", "gun", "bullet"} /\ w.list[At(w, e.node)].obj = o
  BY ElemObj
<1>2. CASE o.kind = "bomb"
  BY <1>1, <1>2, BombTicked DEF UpdateTick
<1>3. CASE o.kind = "gun"
  BY <1>1, <1>3, GunTicked DEF UpdateTick
<1>4. CASE o.kind = "bullet"
  BY <1>1, <1>4, BulletTicked DEF UpdateTick
<1> QED BY <1>1, <1>2, <1>3, <1>4

-----------------------------------------------------------------------------
(* A sweep that began with the world v, halfway: the elements in front of a *)
(* frontier have been ticked once, the ones behind it have not.             *)

\* An element that no tick has changed: one of v's, or a bullet that one of
\* v's guns has shot.
Untouched(v, d) ==
    \/ d \in Elems(v)
    \/ /\ d.node >= v.fresh /\ d.obj.id >= v.nextId
       /\ \E g \in Elems(v) : /\ g.obj.kind = "gun" /\ g.obj.ticks = 1
                              /\ d.obj = Bullet(g.obj.pos, g.obj.dir, d.obj.id)
Touched(v, d) == \E x \in Elements : Untouched(v, x) /\ d = Older(x)

\* A result stands, and a new one is lost by a player whom one of v's objects
\* could reach.
Judged(v, w) ==
    /\ v.board # <<>> => w.board # <<>> /\ w.board[2] = v.board[2]
    /\ v.board = <<>> /\ w.board # <<>> =>
          /\ w.board[2] \in Player
          /\ \E x \in Elems(v) : Reaches(x.obj, v.players[w.board[2]])

\* What holds of a sweep when v's ids are unique.
Lawful(v, w, f) ==
    /\ Unique(w)
    /\ \A x \in Elems(v) : x.node \in Nodes(w) \/ MayGo(x.obj)
    /\ \A d \in Elems(w) : d.node < f /\ d.obj.kind = "bullet" => Free(d.obj.pos)

Halfway(v, w, f) ==
    /\ w \in Tidy /\ w.players = v.players
    /\ v.fresh <= w.fresh /\ v.nextId <= w.nextId
    /\ \A d \in Elems(w) : IF d.node < f THEN Touched(v, d) ELSE Untouched(v, d)
    /\ Judged(v, w)
    /\ Unique(v) => Lawful(v, w, f)

\* An object that ages keeps its kind and its id, and a bullet flies on.
LEMMA AgedKind ==
    ASSUME NEW o \in Canonicals
    PROVE  /\ Aged(o).kind = o.kind /\ Aged(o).id = o.id
           /\ o.kind = "bullet" => Aged(o).pos = NextCell(o.pos, o.dir)
           /\ o.kind # "bullet" /\ o.ticks # 1 => Aged(o).ticks = o.ticks - 1
<1>1. o \in Objects
  BY DEF Canonicals
<1>2. CASE o.kind = "bullet"
  BY <1>1, <1>2 DEF Aged, Objects
<1>3. CASE o.kind = "gun" /\ o.ticks = 1
  BY <1>1, <1>3 DEF Aged, Objects
<1>4. CASE o.kind # "bullet" /\ ~(o.kind = "gun" /\ o.ticks = 1)
  BY <1>1, <1>4 DEF Aged, Objects
<1> QED BY <1>2, <1>3, <1>4

\* Before the sweep.
LEMMA StartHalfway ==
    ASSUME NEW v \in Tidy
    PROVE  Halfway(v, v, 0)
<1>1. \A d \in Elems(v) : d.node \in Nat /\ ~(d.node < 0) /\ d.node \in Nodes(v)
  BY ElemAt DEF Elements
<1>2. Unique(v) => Lawful(v, v, 0)
  BY <1>1 DEF Lawful
<1>3. Judged(v, v)
  BY DEF Judged
<1>4. v.fresh <= v.fresh /\ v.nextId <= v.nextId
  BY TidyList
<1> QED BY <1>1, <1>2, <1>3, <1>4 DEF Halfway, Untouched

\* The frontier is anywhere between two elements.
LEMMA ShiftHalfway ==
    ASSUME NEW v, NEW w, NEW f, NEW g, Halfway(v, w, f),
           \A n \in Nodes(w) : n < f <=> n < g
    PROVE  Halfway(v, w, g)
<1>1. \A d \in Elems(w) : d.node < f <=> d.node < g
  BY DEF Nodes
<1> QED BY <1>1 DEF Halfway, Lawful

\* The iterators are not a part of it.
LEMMA LoopHalfway ==
    ASSUME NEW v, NEW w, NEW f, Halfway(v, w, f),
           NEW u \in Worlds, SameList(w, u), u.board = w.board
    PROVE  Halfway(v, u, f) /\ u \in Tidy /\ Nodes(u) = Nodes(w)
<1>1. w \in Tidy /\ Len(u.board) # 1
  BY DEF Halfway, Tidy
<1>2. u \in Tidy /\ Elems(u) = Elems(w) /\ Nodes(u) = Nodes(w) /\ (Unique(w) => Unique(u))
  BY <1>1, TidySame
<1>3. u.players = w.players /\ u.fresh = w.fresh /\ u.nextId = w.nextId
  BY DEF SameList
<1> QED BY <1>2, <1>3 DEF Halfway, Lawful, Judged

\* An element of the list has its node, and its kind, from v or from a gun.
LEMMA WhoIsWho ==
    ASSUME NEW v \in Tidy, NEW d, NEW x \in Elems(v), d.node = x.node,
           \/ Untouched(v, d) /\ d \in Elements
           \/ Touched(v, d)
    PROVE  /\ d.obj.kind = x.obj.kind /\ d.obj.id = x.obj.id
           /\ Untouched(v, d) /\ d \in Elements => d = x
<1>1. ASSUME NEW y \in Elements, Untouched(v, y), y.node = x.node PROVE y = x
  <2>1. x.node < v.fresh /\ v.fresh \in Nat /\ x.node \in Nat
    BY ElemAt, TidyList DEF Elements
  <2>2. y \in Elems(v)
    BY <1>1, <2>1 DEF Untouched
  <2> QED BY <1>1, <2>2, NodeElem
<1>2. CASE Untouched(v, d) /\ d \in Elements
  BY <1>1, <1>2
<1>3. CASE Touched(v, d)
  <2>1. PICK y \in Elements : Untouched(v, y) /\ d = Older(y)
    BY <1>3 DEF Touched
  <2>2. y.node = d.node /\ d.obj = Aged(y.obj)
    BY <2>1 DEF Older
  <2>3. y = x
    BY <1>1, <2>1, <2>2
  <2>4. y.obj \in Canonicals
    BY DEF Elements
  <2> QED BY <1>1, <2>2, <2>3, <2>4, AgedKind
<1> QED BY <1>2, <1>3

\* The element behind the frontier is ticked.
LEMMA TickHalfway ==
    ASSUME NEW v \in Tidy, NEW w, NEW f \in Nat, Halfway(v, w, f), NEW e \in Elems(w), f <= e.node,
           \A n \in Nodes(w) : n < f \/ e.node <= n,
           NEW u, Ticked(w, e, u)
    PROVE  Halfway(v, u, e.node + 1)
<1> DEFINE g == e.node + 1
<1>1. w \in Tidy /\ u \in Tidy /\ v \in Worlds /\ w \in Worlds
  BY DEF Halfway, Ticked, Tidy
<1>2. /\ e \in Elements /\ e.node \in Nat /\ e.node < w.fresh /\ w.fresh \in Nat
      /\ e.obj \in Canonicals /\ e.obj.id \in Nat /\ w.nextId \in Nat /\ v.fresh \in Nat
      /\ v.nextId \in Nat /\ u.fresh \in Nat /\ u.nextId \in Nat
  BY <1>1, ElemAt, ElemObj, TidyList DEF Elements
<1>3. Untouched(v, e) /\ (e \in Elems(v) \/ e.obj.kind = "bullet")
  <2>1. ~(e.node < f)
    BY <1>2
  <2>2. Untouched(v, e)
    BY <2>1 DEF Halfway
  <2>3. \A pos, dir, id : Bullet(pos, dir, id).kind = "bullet"
    BY DEF Bullet
  <2>4. e \in Elems(v) \/ e.obj.kind = "bullet"
    BY <2>2, <2>3 DEF Untouched
  <2> QED BY <2>2, <2>4
<1>4. /\ w.players = v.players /\ v.fresh <= w.fresh /\ v.nextId <= w.nextId
      /\ \A d \in Elems(w) : IF d.node < f THEN Touched(v, d) ELSE Untouched(v, d)
      /\ Judged(v, w) /\ (Unique(v) => Lawful(v, w, f))
  BY DEF Halfway
<1>5. /\ u.players = w.players /\ w.fresh <= u.fresh /\ w.nextId <= u.nextId
      /\ \A d \in Elems(u) : d \in Elems(w) \ {e} \/ d = Older(e) \/ Shot(w, e, d)
      /\ Blames(w, u, e.obj) /\ (Unique(w) => Orderly(w, e, u))
  BY DEF Ticked
<1>6. v.fresh <= u.fresh /\ v.nextId <= u.nextId
  BY <1>2, <1>4, <1>5
\* The elements that were there.
<1>7. ASSUME NEW d \in Elems(w) \ {e}
      PROVE  IF d.node < g THEN Touched(v, d) /\ d.node < f ELSE Untouched(v, d)
  <2>1. d.node \in Nodes(w) /\ d.node \in Nat /\ d.node # e.node
    BY <1>1, ElemAt, NodeElem DEF Elements
  <2>2. d.node < f \/ e.node <= d.node
    BY <2>1
  <2>3. CASE d.node < f
    <3>1. Touched(v, d)
      BY <1>4, <2>3
    <3>2. d.node < g
      BY <1>2, <2>1, <2>3
    <3> QED BY <2>3, <3>1, <3>2
  <2>4. CASE ~(d.node < f)
    <3>1. Untouched(v, d) /\ ~(d.node < g)
      BY <1>2, <1>4, <2>1, <2>2, <2>4
    <3> QED BY <3>1
  <2> QED BY <2>3, <2>4
\* The element as it is now.
<1>8. e.node < g /\ Touched(v, Older(e)) /\ Older(e).node = e.node
  <2>1. Touched(v, Older(e))
    BY <1>2, <1>3 DEF Touched
  <2> QED BY <1>2, <2>1 DEF Older
\* The bullet of a gun.
<1>9. ASSUME NEW d, Shot(w, e, d) PROVE Untouched(v, d) /\ ~(d.node < g)
  <2>1. /\ e.obj.kind = "gun" /\ e.obj.ticks = 1 /\ d.node = w.fresh
        /\ d.obj = Bullet(e.obj.pos, e.obj.dir, w.nextId)
    BY <1>9 DEF Shot
  <2>2. e \in Elems(v)
    BY <1>3, <2>1
  <2>3. d.obj.id = w.nextId
    BY <2>1 DEF Bullet
  <2>4. d.node >= v.fresh /\ d.obj.id >= v.nextId /\ ~(d.node < g)
    BY <1>2, <1>4, <2>1, <2>3
  <2> QED BY <2>1, <2>2, <2>3, <2>4 DEF Untouched
<1>10. \A d \in Elems(u) : IF d.node < g THEN Touched(v, d) ELSE Untouched(v, d)
  <2> HIDE DEF g
  <2> QED BY <1>5, <1>7, <1>8, <1>9
\* Who has lost.
<1>11. \A pos : Hits(e.obj, pos) => \E x \in Elems(v) : Reaches(x.obj, pos)
  <2> TAKE pos
  <2>1. CASE e \in Elems(v)
    BY <2>1 DEF Hits, Reaches
  <2>2. CASE e \notin Elems(v)
    <3>1. PICK x \in Elems(v) : /\ x.obj.kind = "gun" /\ x.obj.ticks = 1
                                /\ e.obj = Bullet(x.obj.pos, x.obj.dir, e.obj.id)
      BY <1>3, <2>2 DEF Untouched
    <3>2. e.obj.kind = "bullet" /\ e.obj.pos = x.obj.pos /\ e.obj.dir = x.obj.dir
      BY <3>1 DEF Bullet
    <3>3. Hits(e.obj, pos) => Reaches(x.obj, pos)
      BY <3>1, <3>2 DEF Hits, Reaches
    <3> QED BY <3>3
  <2> QED BY <2>1, <2>2
<1>12. Judged(v, u)
  BY <1>4, <1>5, <1>11 DEF Judged, Blames
\* What holds when ids are unique.
<1>13. ASSUME Unique(v) PROVE Lawful(v, u, g)
  <2>1. Lawful(v, w, f) /\ Orderly(w, e, u)
    BY <1>4, <1>5, <1>13 DEF Lawful
  <2>2. ASSUME NEW x \in Elems(v) PROVE x.node \in Nodes(u) \/ MayGo(x.obj)
    <3>1. SUFFICES ASSUME x.node \in Nodes(w) PROVE x.node \in Nodes(u) \/ MayGo(x.obj)
      BY <2>1 DEF Lawful
    <3>2. PICK y \in Elems(w) : y.node = x.node
      BY <3>1 DEF Nodes
    <3>3. CASE y = e
      <4>1. e = x
        BY <1>2, <1>3, <3>2, <3>3, WhoIsWho
      <4> QED BY <2>1, <4>1 DEF Orderly
    <3>4. CASE y # e
      <4>1. CASE y \in Elems(u)
        BY <3>2, <4>1 DEF Nodes
      <4>2. CASE y.obj.kind = "bullet"
        <5>1. y \in Elements
          BY <1>1, ElemAt
        <5>2. Untouched(v, y) \/ Touched(v, y)
          BY <1>4
        <5>3. x.obj.kind = "bullet"
          BY <3>2, <4>2, <5>1, <5>2, WhoIsWho
        <5> QED BY <5>3 DEF MayGo
      <4> QED BY <2>1, <3>4, <4>1, <4>2 DEF Orderly
    <3> QED BY <3>3, <3>4
  <2>3. ASSUME NEW d \in Elems(u), d.node < g, d.obj.kind = "bullet" PROVE Free(d.obj.pos)
    <3>1. CASE d \in Elems(w) \ {e}
      <4>1. d.node < f
        BY <1>7, <2>3, <3>1
      <4> QED BY <2>1, <2>3, <3>1, <4>1 DEF Lawful
    <3>2. CASE d = Older(e)
      <4>1. d.node = e.node /\ d.obj = Aged(e.obj)
        BY <3>2 DEF Older
      <4>2. e.obj.kind = "bullet" /\ d.obj.pos = NextCell(e.obj.pos, e.obj.dir)
        BY <1>2, <2>3, <4>1, AgedKind
      <4>3. e.node \in Nodes(u)
        BY <4>1 DEF Nodes
      <4> QED BY <2>1, <4>2, <4>3 DEF Orderly
    <3>3. CASE Shot(w, e, d)
      BY <1>9, <2>3, <3>3
    <3> QED BY <1>5, <3>1, <3>2, <3>3
  <2>4. Unique(u)
    BY <2>1 DEF Orderly
  <2> QED BY <2>2, <2>3, <2>4 DEF Lawful
<1> HIDE DEF g
<1>14. u.players = v.players
  BY <1>4, <1>5
<1> QED BY <1>1, <1>6, <1>10, <1>12, <1>13, <1>14 DEF Halfway, g

-----------------------------------------------------------------------------
(* How many rounds a sweep may still take: one for each element that is not *)
(* ticked yet, and one for a bullet that each of those that were there may  *)
(* shoot.                                                                   *)

Behind(w, f) == {n \in Nodes(w) : f <= n}
Left(v, w, f) == Cardinality(Behind(w, f)) + Cardinality({n \in Behind(w, f) : n < v.fresh})

\* A list has no more nodes than elements.
LEMMA NodesCount ==
    ASSUME NEW w \in Tidy
    PROVE  IsFiniteSet(Nodes(w)) /\ Cardinality(Nodes(w)) <= Len(w.list)
<1> DEFINE g == [i \in DOMAIN w.list |-> w.list[i].node]
           m == Len(w.list)
<1>1. m \in Nat /\ DOMAIN w.list = 1..m
  BY TidyList
<1>2. g \in Surjection(DOMAIN w.list, Nodes(w))
  BY DEF Surjection, Nodes, Elems
<1>3. IsFiniteSet(1..m) /\ Cardinality(1..m) = m
  <2>1. 1 \in Int /\ m \in Int
    BY <1>1
  <2>2. Cardinality(1..m) = IF 1 > m THEN 0 ELSE m - 1 + 1
    BY <2>1, FS_Interval, Zenon
  <2>3. (IF 1 > m THEN 0 ELSE m - 1 + 1) = m
    BY <1>1
  <2>4. IsFiniteSet(1..m)
    BY <2>1, FS_Interval, Zenon
  <2> QED BY <2>2, <2>3, <2>4
<1> HIDE DEF g
<1>4. IsFiniteSet(Nodes(w)) /\ Cardinality(Nodes(w)) <= Cardinality(DOMAIN w.list)
  <2>1. IsFiniteSet(DOMAIN w.list)
    BY <1>1, <1>3
  <2> QED BY <1>2, <2>1, FS_Surjection
<1> HIDE DEF m
<1> QED BY <1>1, <1>3, <1>4 DEF m

\* The count is a number, and at first at most twice the elements.
LEMMA LeftNat ==
    ASSUME NEW v, NEW w \in Tidy, NEW f
    PROVE  /\ IsFiniteSet(Behind(w, f)) /\ IsFiniteSet({n \in Behind(w, f) : n < v.fresh})
           /\ Cardinality(Behind(w, f)) \in Nat
           /\ Cardinality({n \in Behind(w, f) : n < v.fresh}) \in Nat
           /\ Left(v, w, f) \in Nat /\ Left(v, w, f) <= 2 * Len(w.list)
<1> DEFINE a == Behind(w, f)
           b == {n \in Behind(w, f) : n < v.fresh}
           ca == Cardinality(a)
           cb == Cardinality(b)
           cn == Cardinality(Nodes(w))
           m == Len(w.list)
<1>1. m \in Nat /\ IsFiniteSet(Nodes(w)) /\ cn <= m
  BY NodesCount, TidyList
<1>2. a \in SUBSET Nodes(w) /\ b \in SUBSET Nodes(w)
  BY DEF Behind
<1>3. Left(v, w, f) = ca + cb
  BY DEF Left
<1> HIDE DEF a, b
<1>4. IsFiniteSet(a) /\ ca <= cn /\ IsFiniteSet(b) /\ cb <= cn
  BY <1>1, <1>2, FS_Subset
<1>5. ca \in Nat /\ cb \in Nat /\ cn \in Nat
  BY <1>1, <1>4, FS_CardinalityType
<1> HIDE DEF ca, cb, cn, m
<1>6. ca + cb \in Nat /\ ca + cb <= 2 * m
  BY <1>1, <1>4, <1>5
<1> QED BY <1>3, <1>4, <1>5, <1>6 DEF a, b, ca, cb, m

\* A tick takes one round.
LEMMA TickLess ==
    ASSUME NEW v \in Tidy, NEW w, NEW f \in Nat, Halfway(v, w, f), NEW e \in Elems(w), f <= e.node,
           NEW u, Ticked(w, e, u)
    PROVE  Left(v, u, e.node + 1) < Left(v, w, f)
<1> DEFINE c == v.fresh
           x == e.node
           a == Behind(w, f)
           b == {n \in a : n < c}
           d == Behind(u, x + 1)
           k == {n \in d : n < c}
<1>1. w \in Tidy /\ u \in Tidy /\ x \in Nat /\ x \in Nodes(w) /\ w.fresh \in Nat /\ c \in Nat
      /\ c <= w.fresh
  BY ElemAt, TidyList DEF Halfway, Ticked, Elements
<1>2. /\ IsFiniteSet(a) /\ IsFiniteSet(b) /\ IsFiniteSet(d) /\ IsFiniteSet(k)
      /\ Cardinality(a) \in Nat /\ Cardinality(b) \in Nat
      /\ Cardinality(d) \in Nat /\ Cardinality(k) \in Nat
      /\ Left(v, w, f) = Cardinality(a) + Cardinality(b)
      /\ Left(v, u, x + 1) = Cardinality(d) + Cardinality(k)
  BY <1>1, LeftNat DEF Left
<1>3. \A n \in Nodes(u) : n \in Nodes(w) \/ (n = w.fresh /\ x < c)
  <2> TAKE n \in Nodes(u)
  <2>1. PICK y \in Elems(u) : n = y.node
    BY DEF Nodes
  <2>2. CASE y \in Elems(w)
    BY <2>1, <2>2 DEF Nodes
  <2>3. CASE y = Older(e)
    BY <1>1, <2>1, <2>3 DEF Older
  <2>4. CASE Shot(w, e, y)
    <3>1. n = w.fresh /\ e.obj.kind = "gun"
      BY <2>1, <2>4 DEF Shot
    <3>2. Untouched(v, e)
      <4>1. ~(e.node < f)
        BY <1>1
      <4> QED BY <4>1 DEF Halfway
    <3>3. e \in Elems(v)
      <4>1. \A pos, dir, id : Bullet(pos, dir, id).kind = "bullet"
        BY DEF Bullet
      <4> QED BY <3>1, <3>2, <4>1 DEF Untouched
    <3>4. x < v.fresh
      BY <3>3, ElemAt
    <3> QED BY <1>1, <3>1, <3>4
  <2> QED BY <2>1, <2>2, <2>3, <2>4 DEF Ticked
<1>4. Nodes(w) \subseteq Nat /\ Nodes(u) \subseteq Nat /\ w.fresh \notin Nodes(w)
  <2>1. Nodes(w) \in SUBSET (Nat \ {0}) /\ \A n \in Nodes(w) : n < w.fresh
    BY <1>1, NodeElem
  <2>2. Nodes(u) \in SUBSET (Nat \ {0})
    BY <1>1, NodeElem
  <2> QED BY <1>1, <2>1, <2>2
<1>5. x \in a /\ d \subseteq (a \ {x}) \cup {w.fresh}
  <2>1. x \in a
    BY <1>1 DEF Behind
  <2>2. ASSUME NEW n \in d, n # w.fresh PROVE n \in a \ {x}
    <3>1. n \in Nodes(u) /\ x + 1 <= n
      BY DEF Behind
    <3>2. n \in Nodes(w) /\ n \in Nat
      BY <1>3, <1>4, <2>2, <3>1
    <3>3. f <= n /\ n # x
      BY <1>1, <3>1, <3>2
    <3> QED BY <3>2, <3>3 DEF Behind
  <2> QED BY <2>1, <2>2
<1>6. k \subseteq b \ {x}
  <2> SUFFICES ASSUME NEW n \in k PROVE n \in b \ {x}
    OBVIOUS
  <2>1. n \in d /\ n < c /\ n \in Nat
    BY <1>4 DEF Behind
  <2>2. n # w.fresh
    BY <1>1, <2>1
  <2> QED BY <1>5, <2>1, <2>2
<1> DEFINE ca == Cardinality(a)
           cb == Cardinality(b)
           cd == Cardinality(d)
           ck == Cardinality(k)
<1>7. /\ ca \in Nat /\ cb \in Nat /\ cd \in Nat /\ ck \in Nat
      /\ Left(v, w, f) = ca + cb /\ Left(v, u, x + 1) = cd + ck
  BY <1>2
<1>8. /\ IsFiniteSet(a \ {x}) /\ Cardinality(a \ {x}) = ca - 1
      /\ IsFiniteSet(b \ {x}) /\ Cardinality(b \ {x}) = (IF x \in b THEN cb - 1 ELSE cb)
  <2> HIDE DEF a, b
  <2> QED BY <1>2, <1>5, FS_RemoveElement
<1>9. ck <= Cardinality(b \ {x})
  <2> HIDE DEF b, k
  <2> QED BY <1>6, <1>8, FS_Subset
<1>10. CASE x < c
  <2>1. x \in b
    BY <1>5, <1>10
  <2> DEFINE r == (a \ {x}) \cup {w.fresh}
  <2>2. IsFiniteSet(r) /\ (Cardinality(r) = ca - 1 \/ Cardinality(r) = (ca - 1) + 1)
    <3> DEFINE s == a \ {x}
    <3> HIDE DEF a, s, ca
    <3>1. IsFiniteSet(s) /\ Cardinality(s) = ca - 1
      BY <1>8 DEF s
    <3>2. /\ IsFiniteSet(s \cup {w.fresh})
          /\ Cardinality(s \cup {w.fresh}) =
                IF w.fresh \in s THEN Cardinality(s) ELSE Cardinality(s) + 1
      BY <3>1, FS_AddElement
    <3> QED BY <3>1, <3>2 DEF s
  <2>3. cd <= Cardinality(r)
    <3> HIDE DEF r, d
    <3>1. d \in SUBSET r
      BY <1>5 DEF r
    <3> QED BY <2>2, <3>1, FS_Subset
  <2> DEFINE cr == Cardinality(r)
             cx == Cardinality(b \ {x})
  <2>4. cx = cb - 1 /\ ck <= cx /\ cd <= cr /\ (cr = ca - 1 \/ cr = (ca - 1) + 1)
    BY <1>8, <1>9, <2>1, <2>2, <2>3
  <2> HIDE DEF a, b, d, k, ca, cb, cd, ck, cr, cx
  <2>5. cd + ck < ca + cb
    BY <1>7, <2>4
  <2> QED BY <1>7, <2>5
<1>11. CASE ~(x < c)
  <2>1. x \notin b
    BY <1>11
  <2>2. d \subseteq a \ {x}
    <3> SUFFICES ASSUME NEW n \in d PROVE n \in a \ {x}
      OBVIOUS
    <3>1. n # w.fresh
      BY <1>3, <1>4, <1>11 DEF Behind
    <3> QED BY <1>5, <3>1
  <2>3. cd <= Cardinality(a \ {x})
    <3> HIDE DEF a, d
    <3> QED BY <1>8, <2>2, FS_Subset
  <2> DEFINE cr == Cardinality(a \ {x})
             cx == Cardinality(b \ {x})
  <2>4. cx = cb /\ ck <= cx /\ cd <= cr /\ cr = ca - 1
    BY <1>8, <1>9, <2>1, <2>3
  <2> HIDE DEF a, b, d, k, ca, cb, cd, ck, cr, cx
  <2>5. cd + ck < ca + cb
    BY <1>7, <2>4
  <2> QED BY <1>7, <2>5
<1> QED BY <1>10, <1>11

\* The frontier is anywhere between two elements.
LEMMA ShiftLeft ==
    ASSUME NEW v, NEW w \in Tidy, NEW f \in Nat, NEW g \in Nat,
           \A n \in Nodes(w) : n < f <=> n < g
    PROVE  Left(v, w, f) = Left(v, w, g)
<1>1. \A n \in Nodes(w) : n \in Nat
  BY NodeElem
<1>2. Behind(w, f) = Behind(w, g)
  BY <1>1 DEF Behind
<1> QED BY <1>2 DEF Left

\* None are left behind the frontier.
LEMMA NoneLeft ==
    ASSUME NEW v, NEW w \in Tidy, NEW f \in Nat, Left(v, w, f) <= 0
    PROVE  \A n \in Nodes(w) : n < f
<1> DEFINE h == Behind(w, f)
           ch == Cardinality(h)
           cn == Cardinality({n \in h : n < v.fresh})
<1>1. IsFiniteSet(h) /\ ch \in Nat /\ cn \in Nat /\ Left(v, w, f) = ch + cn
  BY LeftNat DEF Left
<1>2. ch = 0
  <2> HIDE DEF ch, cn
  <2> QED BY <1>1
<1>3. h = {}
  <2> HIDE DEF h
  <2> QED BY <1>1, <1>2, FS_EmptySet
<1>4. \A n \in Nodes(w) : n \in Nat
  BY NodeElem
<1> QED BY <1>3, <1>4 DEF Behind

-----------------------------------------------------------------------------
(* The two loops. While the first one runs, the frontier is in front of the *)
(* first element; while the second one runs, it is behind prev.             *)

FirstAt(v, u) == u.list # <<>> /\ Halfway(v, u, Begin(u))
FirstDone(v, u) ==
    \E f \in Nat : /\ Halfway(v, u, f)
                   /\ u.board = <<>> /\ u.list # <<>> => u.prev = Begin(u) /\ f = Begin(u) + 1
FirstSteps(v) == {u \in Tidy : IF u.running THEN FirstAt(v, u) ELSE FirstDone(v, u)}

\* No tick adds an element but at the end.
LEMMA TickedNodes ==
    ASSUME NEW w \in Tidy, NEW e \in Elems(w), NEW u, Ticked(w, e, u)
    PROVE  \A n \in Nodes(u) : n \in Nodes(w) \/ n = w.fresh
<1> TAKE n \in Nodes(u)
<1>1. PICK y \in Elems(u) : n = y.node
  BY DEF Nodes
<1>2. CASE y \in Elems(w)
  BY <1>1, <1>2 DEF Nodes
<1>3. CASE y = Older(e)
  <2>1. n = e.node
    BY <1>1, <1>3 DEF Older
  <2> QED BY <2>1 DEF Nodes
<1>4. CASE Shot(w, e, y)
  BY <1>1, <1>4 DEF Shot
<1> QED BY <1>2, <1>3, <1>4 DEF Ticked

\* A round of the first loop.
LEMMA FirstRoundHalfway ==
    ASSUME NEW v \in Tidy, NEW w \in FirstSteps(v)
    PROVE  LET u == FirstRound(w)
           IN  /\ u \in FirstSteps(v)
               /\ u.running => w.running /\ Left(v, u, Begin(u)) < Left(v, w, Begin(w))
<1> DEFINE x == Begin(w)
           t == UpdateTick(w, x)
           u == FirstUpdated(x, t)
<1>1. CASE ~w.running
  BY <1>1 DEF FirstRound
<1>2. CASE w.running
  <2>1. w \in Tidy /\ w.list # <<>> /\ Halfway(v, w, x)
    BY <1>2 DEF FirstSteps, FirstAt
  <2>2. x \in Nodes(w) /\ x \in Nat /\ \A n \in Nodes(w) : x <= n
    BY <2>1, FirstNode
  <2>3. PICK e \in Elems(w) : e.node = x
    BY <2>2 DEF Nodes
  <2>4. Ticked(w, e, t)
    BY <2>1, <2>3, UpdateTicked
  <2>5. FirstRound(w) = u
    BY <1>2 DEF FirstRound
  <2> HIDE DEF t, x
  <2>6. /\ t \in Tidy /\ t \in Worlds /\ Halfway(v, t, x + 1)
        /\ Left(v, t, x + 1) < Left(v, w, x)
    <3>1. x <= e.node /\ \A n \in Nodes(w) : n < x \/ e.node <= n
      BY <2>2, <2>3
    <3>2. Halfway(v, t, x + 1)
      BY <2>1, <2>2, <2>3, <2>4, <3>1, TickHalfway
    <3>3. Left(v, t, x + 1) < Left(v, w, x)
      BY <2>1, <2>2, <2>3, <2>4, <3>1, TickLess
    <3> QED BY <2>4, <3>2, <3>3 DEF Ticked, Tidy
  <2> DEFINE more == t.board = <<>> /\ x # Begin(t) /\ t.list # <<>>
  <2>7. u = [t EXCEPT !.prev = x, !.running = more]
    BY DEF FirstUpdated
  <2>8. more \in BOOLEAN
    OBVIOUS
  <2> HIDE DEF u, more
  <2>9. /\ u \in Worlds /\ SameList(t, u) /\ u.board = t.board /\ u.prev = x
        /\ u.running = more
    BY <2>2, <2>6, <2>7, <2>8 DEF Worlds, SameList
  <2>10. Halfway(v, u, x + 1) /\ u \in Tidy /\ Nodes(u) = Nodes(t)
    BY <2>6, <2>9, LoopHalfway
  <2>11. u.list = t.list /\ Begin(u) = Begin(t) /\ Left(v, u, x + 1) = Left(v, t, x + 1)
    BY <2>9, <2>10 DEF SameList, Begin, Left, Behind
  <2>12. CASE ~more
    <3>1. u.board = <<>> /\ u.list # <<>> => u.prev = Begin(u)
      BY <2>9, <2>11, <2>12 DEF more
    <3>2. FirstDone(v, u)
      BY <2>2, <2>9, <2>10, <2>11, <3>1 DEF FirstDone
    <3> QED BY <2>5, <2>9, <2>10, <2>12, <3>2 DEF FirstSteps
  <2>13. CASE more
    <3>1. u.list # <<>> /\ x # Begin(u)
      BY <2>11, <2>13 DEF more
    <3>2. Begin(u) \in Nodes(u) /\ Begin(u) \in Nat /\ \A n \in Nodes(u) : Begin(u) <= n
      BY <2>10, <3>1, FirstNode
    <3>3. Begin(u) \in Nodes(w) \/ Begin(u) = w.fresh
      BY <2>1, <2>4, <2>10, <3>2, TickedNodes
    <3>4. x < Begin(u)
      <4>1. x < w.fresh /\ w.fresh \in Nat
        BY <2>1, <2>2, NodeElem, TidyList
      <4> QED BY <2>2, <3>1, <3>2, <3>3, <4>1
    <3>5. \A n \in Nodes(u) : n < x + 1 <=> n < Begin(u)
      <4>1. \A n \in Nodes(u) : n \in Nat
        BY <2>10, NodeElem
      <4> QED BY <2>2, <3>2, <3>4, <4>1
    <3>6. Halfway(v, u, Begin(u))
      BY <2>10, <3>5, ShiftHalfway
    <3>7. Left(v, u, Begin(u)) = Left(v, u, x + 1)
      BY <2>2, <2>10, <3>2, <3>5, ShiftLeft
    <3>8. u \in FirstSteps(v)
      BY <2>9, <2>10, <2>13, <3>1, <3>6 DEF FirstSteps, FirstAt
    <3> QED BY <1>2, <2>5, <2>6, <2>11, <3>7, <3>8 DEF x
  <2> QED BY <2>12, <2>13
<1>3. w.running \in BOOLEAN
  BY DEF FirstSteps, Tidy, Worlds
<1> QED BY <1>1, <1>2

\* The first loop ends behind the first element.
LEMMA FirstLoopHalfway ==
    ASSUME NEW v \in Tidy
    PROVE  FirstLoop(v) \in Tidy /\ FirstDone(v, FirstLoop(v))
<1> DEFINE k == 2 * Len(v.list)
           b == [v EXCEPT !.running = v.list # <<>>]
           A == FirstSteps(v)
           B == [i \in 0..k |-> {u \in A : u.running => Left(v, u, Begin(u)) <= k - i}]
           r == FoldLeft(LAMBDA u, i : FirstRound(u), b, [i \in 1..k |-> i])
<1>1. k \in Nat
  BY TidyList
<1>2. FirstLoop(v) = r
  BY DEF FirstLoop, Rounds
<1>3. /\ b \in Worlds /\ SameList(v, b) /\ b.board = v.board /\ b.list = v.list
      /\ b.running = (v.list # <<>>)
  BY DEF Tidy, Worlds, SameList
<1> HIDE DEF b
<1>4. Halfway(v, b, 0) /\ b \in Tidy
  BY <1>3, StartHalfway, LoopHalfway
<1>5. b \in A
  <2>1. CASE v.list # <<>>
    <3>1. Begin(b) \in Nat /\ \A n \in Nodes(b) : Begin(b) <= n /\ n \in Nat
      BY <1>4, FirstNode, NodeElem
    <3>2. \A n \in Nodes(b) : n < 0 <=> n < Begin(b)
      BY <3>1
    <3>3. Halfway(v, b, Begin(b))
      BY <1>4, <3>2, ShiftHalfway
    <3> QED BY <1>3, <1>4, <2>1, <3>3 DEF FirstSteps, FirstAt
  <2>2. CASE v.list = <<>>
    <3>1. FirstDone(v, b)
      BY <1>3, <1>4, <2>2 DEF FirstDone
    <3> QED BY <1>3, <1>4, <2>2, <3>1 DEF FirstSteps
  <2> QED BY <2>1, <2>2
<1>6. b \in B[0]
  <2>1. Left(v, b, Begin(b)) <= 2 * Len(b.list)
    BY <1>4, LeftNat
  <2>2. Left(v, b, Begin(b)) <= k - 0
    BY <1>1, <1>3, <2>1
  <2> QED BY <1>1, <1>5, <2>2
<1>7. \A u \in A : FirstRound(u) \in A
  BY FirstRoundHalfway
<1>8. ASSUME NEW j \in 1..k, NEW u \in A, u \in B[j - 1] PROVE FirstRound(u) \in B[j]
  <2> DEFINE t == FirstRound(u)
             left(x) == Left(v, x, Begin(x))
  <2>1. t \in A /\ (t.running => u.running /\ left(t) < left(u))
    BY FirstRoundHalfway
  <2>2. j \in 0..k /\ j - 1 \in 0..k /\ j \in Nat
    BY <1>1
  <2>3. u.running => left(u) <= k - (j - 1)
    BY <1>8, <2>2
  <2> HIDE DEF t, A
  <2>4. left(t) \in Nat /\ left(u) \in Nat
    BY <2>1, LeftNat DEF A, FirstSteps
  <2> HIDE DEF left, k
  <2>5. t.running => left(t) <= k - j
    BY <1>1, <2>1, <2>2, <2>3, <2>4
  <2> QED BY <2>1, <2>2, <2>5 DEF left, t
<1>9. r \in A \cap B[k]
  <2> HIDE DEF A, B, k
  <2> QED BY <1>1, <1>5, <1>6, <1>7, <1>8, FirstReaches
<1> HIDE DEF r
<1>10. r \in A /\ (r.running => Left(v, r, Begin(r)) <= 0)
  <2>1. k \in 0..k /\ k - k = 0
    BY <1>1
  <2> HIDE DEF k
  <2> QED BY <1>9, <2>1
<1>11. ~r.running
  <2> SUFFICES ASSUME r.running PROVE FALSE
    OBVIOUS
  <2>1. r \in Tidy /\ r.list # <<>>
    BY <1>10 DEF FirstSteps, FirstAt
  <2>2. Begin(r) \in Nodes(r) /\ Begin(r) \in Nat
    BY <2>1, FirstNode
  <2>3. Begin(r) < Begin(r)
    BY <1>10, <2>1, <2>2, NoneLeft
  <2> QED BY <2>2, <2>3
<1> QED BY <1>2, <1>10, <1>11 DEF FirstSteps

\* While the second loop runs, with the board empty, and once it is over.
NextAt(v, u) == u.prev \in Nodes(u) /\ u.it = NodeAfter(u, u.prev) /\ Halfway(v, u, u.prev + 1)
NextDone(v, u) ==
    \E f \in Nat : /\ Halfway(v, u, f)
                   /\ u.board = <<>> /\ ~u.ub => \A n \in Nodes(u) : n < f
NextSteps(v) == {u \in Tidy : IF u.running /\ u.board = <<>> THEN NextAt(v, u) ELSE NextDone(v, u)}

\* A round of the second loop.
LEMMA NextRoundHalfway ==
    ASSUME NEW v \in Tidy, NEW w \in NextSteps(v)
    PROVE  LET u == NextRound(w)
           IN  /\ u \in NextSteps(v)
               /\ u.running /\ u.board = <<>> =>
                    /\ w.running /\ w.board = <<>>
                    /\ Left(v, u, u.prev + 1) < Left(v, w, w.prev + 1)
<1> DEFINE x == w.it
           p == w.prev
           t == UpdateTick(w, x)
           u == NextRound(w)
<1>1. w \in Tidy /\ w \in Worlds /\ w.running \in BOOLEAN
  BY DEF NextSteps, Tidy, Worlds
<1>2. CASE ~w.running \/ w.board # <<>> \/ w.it = 0
  <2>1. u = [w EXCEPT !.running = FALSE]
    BY <1>2 DEF NextRound
  <2> HIDE DEF u
  <2>2. /\ u \in Worlds /\ SameList(w, u) /\ u.board = w.board /\ u.running = FALSE /\ u.ub = w.ub
    BY <1>1, <2>1 DEF Worlds, SameList
  <2>3. NextDone(v, w)
    <3>1. CASE w.running /\ w.board = <<>>
      <4>1. p \in Nodes(w) /\ p \in Nat /\ NodeAfter(w, p) = 0 /\ Halfway(v, w, p + 1)
        BY <1>1, <1>2, <3>1, NodeElem DEF NextSteps, NextAt
      <4>2. \A n \in Nodes(w) : n \in Nat /\ n <= p
        BY <1>1, <4>1, NextNode, NodeElem
      <4>3. p + 1 \in Nat /\ \A n \in Nodes(w) : n < p + 1
        BY <4>1, <4>2
      <4> QED BY <4>1, <4>3 DEF NextDone
    <3>2. CASE ~(w.running /\ w.board = <<>>)
      BY <3>2 DEF NextSteps
    <3> QED BY <3>1, <3>2
  <2>4. PICK f \in Nat : Halfway(v, w, f) /\ (w.board = <<>> /\ ~w.ub => \A n \in Nodes(w) : n < f)
    BY <2>3 DEF NextDone
  <2>5. Halfway(v, u, f) /\ u \in Tidy /\ Nodes(u) = Nodes(w)
    BY <2>2, <2>4, LoopHalfway
  <2>6. NextDone(v, u)
    BY <2>2, <2>4, <2>5 DEF NextDone
  <2> QED BY <2>2, <2>5, <2>6 DEF NextSteps, u
<1>3. CASE w.running /\ w.board = <<>> /\ w.it # 0
  <2>1. p \in Nodes(w) /\ p \in Nat /\ x = NodeAfter(w, p) /\ Halfway(v, w, p + 1) /\ x # 0
    BY <1>1, <1>3, NodeElem DEF NextSteps, NextAt
  <2>2. /\ x \in Nodes(w) /\ x \in Nat /\ p < x
        /\ \A n \in Nodes(w) : n \in Nat /\ (n <= p \/ x <= n)
    BY <1>1, <2>1, NextNode, NodeElem
  <2>3. PICK e \in Elems(w) : e.node = x
    BY <2>2 DEF Nodes
  <2>4. Ticked(w, e, t) /\ SameLoop(w, t)
    <3>1. IsIn(w, x)
      BY <1>1, <2>3, ElemAt
    <3> QED BY <1>1, <2>3, <3>1, UpdateTicked, UpdateSwept
  <2>5. u = NextUpdated(x, NodeAfter(w, x), t)
    BY <1>3 DEF NextRound
  <2> HIDE DEF t, u
  <2>6. /\ t \in Tidy /\ t \in Worlds /\ t.prev = p /\ Halfway(v, t, x + 1)
        /\ Left(v, t, x + 1) < Left(v, w, p + 1)
    <3>1. p + 1 \in Nat /\ p + 1 <= e.node /\ \A n \in Nodes(w) : n < p + 1 \/ e.node <= n
      BY <2>1, <2>2, <2>3
    <3>2. Halfway(v, t, x + 1)
      BY <1>1, <2>1, <2>3, <2>4, <3>1, TickHalfway
    <3>3. Left(v, t, x + 1) < Left(v, w, p + 1)
      BY <1>1, <2>1, <2>3, <2>4, <3>1, TickLess
    <3> QED BY <2>4, <3>2, <3>3 DEF Ticked, Tidy, SameLoop
  <2>7. \A n \in Nodes(t) : n \in Nat /\ (n <= p \/ x <= n)
    <3> TAKE n \in Nodes(t)
    <3>1. n \in Nodes(w) \/ n = w.fresh
      BY <1>1, <2>4, TickedNodes
    <3>2. x < w.fresh /\ w.fresh \in Nat
      BY <1>1, <2>2, NodeElem, TidyList
    <3> QED BY <2>2, <3>1, <3>2
  <2>8. CASE ~IsIn(t, p)
    <3>1. u = [t EXCEPT !.ub = TRUE, !.running = FALSE]
      BY <2>5, <2>6, <2>8 DEF NextUpdated
    <3>2. u \in Worlds /\ SameList(t, u) /\ u.board = t.board /\ u.running = FALSE /\ u.ub
      BY <2>6, <3>1 DEF Worlds, SameList
    <3>3. Halfway(v, u, x + 1) /\ u \in Tidy
      BY <2>6, <3>2, LoopHalfway
    <3>4. NextDone(v, u)
      BY <2>2, <3>2, <3>3 DEF NextDone
    <3> QED BY <3>2, <3>3, <3>4 DEF NextSteps, u
  <2>9. CASE IsIn(t, p) /\ NodeAfter(t, p) # x
    <3> DEFINE m == NodeAfter(t, p)
    <3>1. p \in Nodes(t) /\ m \in Nat
      BY <2>6, <2>9, NodeElem, AfterIn
    <3>2. u = [t EXCEPT !.it = m]
      BY <2>5, <2>6, <2>9 DEF NextUpdated
    <3> HIDE DEF m
    <3>3. /\ u \in Worlds /\ SameList(t, u) /\ u.board = t.board /\ u.running = t.running
          /\ u.prev = p /\ u.it = m
      BY <2>6, <3>1, <3>2 DEF Worlds, SameList
    <3>4. Halfway(v, u, x + 1) /\ u \in Tidy /\ Nodes(u) = Nodes(t)
      BY <2>6, <3>3, LoopHalfway
    <3>5. \A n \in Nodes(t) : n < x + 1 <=> n < p + 1
      <4>1. x \notin Nodes(t)
        <5>1. \/ m = 0 /\ \A n \in Nodes(t) : n <= p
              \/ m \in Nodes(t) /\ p < m /\ \A n \in Nodes(t) : n <= p \/ m <= n
          BY <2>6, <3>1, NextNode DEF m
        <5>2. m # x
          BY <2>9 DEF m
        <5> QED BY <2>1, <2>2, <2>7, <3>1, <5>1, <5>2
      <4>2. \A n \in Nodes(t) : n # x
        BY <4>1
      <4> QED BY <2>1, <2>2, <2>7, <4>2
    <3>6. Halfway(v, u, p + 1)
      BY <3>4, <3>5, ShiftHalfway
    <3>7. u.list = t.list /\ m = NodeAfter(u, p)
      BY <3>3 DEF SameList, NodeAfter, At, m
    <3>8. u \in NextSteps(v)
      <4>1. CASE u.running /\ u.board = <<>>
        BY <3>1, <3>3, <3>4, <3>6, <3>7, <4>1 DEF NextSteps, NextAt
      <4>2. CASE u.board # <<>>
        BY <2>1, <3>4, <3>6, <4>2 DEF NextSteps, NextDone
      <4>3. u.running
        BY <1>3, <2>4, <3>3 DEF SameLoop
      <4> QED BY <4>1, <4>2, <4>3
    <3>9. Left(v, u, p + 1) < Left(v, w, p + 1)
      <4>1. Left(v, u, p + 1) = Left(v, u, x + 1)
        BY <2>1, <2>2, <3>4, <3>5, ShiftLeft
      <4>2. Left(v, u, x + 1) = Left(v, t, x + 1)
        BY <3>4 DEF Left, Behind
      <4> QED BY <2>6, <4>1, <4>2
    <3> QED BY <1>3, <3>3, <3>8, <3>9 DEF u
  <2>10. CASE IsIn(t, p) /\ NodeAfter(t, p) = x
    <3> DEFINE m == NodeAfter(t, x)
    <3>1. x \in Nodes(t) /\ m \in Nat
      <4>1. IsIn(t, x)
        BY <2>1, <2>6, <2>10, AfterIn
      <4> QED BY <2>6, <4>1, NodeElem, AfterIn
    <3>2. u = [t EXCEPT !.prev = x, !.it = m]
      BY <2>5, <2>6, <2>10 DEF NextUpdated
    <3> HIDE DEF m
    <3>3. /\ u \in Worlds /\ SameList(t, u) /\ u.board = t.board /\ u.running = t.running
          /\ u.prev = x /\ u.it = m
      BY <2>2, <2>6, <3>1, <3>2 DEF Worlds, SameList
    <3>4. Halfway(v, u, x + 1) /\ u \in Tidy /\ Nodes(u) = Nodes(t)
      BY <2>6, <3>3, LoopHalfway
    <3>5. u.list = t.list /\ m = NodeAfter(u, x)
      BY <3>3 DEF SameList, NodeAfter, At, m
    <3>6. u \in NextSteps(v)
      <4>1. CASE u.running /\ u.board = <<>>
        BY <3>1, <3>3, <3>4, <3>5, <4>1 DEF NextSteps, NextAt
      <4>2. CASE u.board # <<>>
        BY <2>2, <3>4, <4>2 DEF NextSteps, NextDone
      <4>3. u.running
        BY <1>3, <2>4, <3>3 DEF SameLoop
      <4> QED BY <4>1, <4>2, <4>3
    <3>7. Left(v, u, x + 1) < Left(v, w, p + 1)
      <4>1. Left(v, u, x + 1) = Left(v, t, x + 1)
        BY <3>4 DEF Left, Behind
      <4> QED BY <2>6, <4>1
    <3> QED BY <1>3, <3>3, <3>6, <3>7 DEF u
  <2> QED BY <2>8, <2>9, <2>10
<1> QED BY <1>1, <1>2, <1>3

\* The second loop ends behind the last element, unless it fails or the match
\* is over.
LEMMA SecondLoopHalfway ==
    ASSUME NEW v \in Tidy, NEW w \in Tidy, FirstDone(v, w)
    PROVE  SecondLoop(w) \in Tidy /\ NextDone(v, SecondLoop(w))
<1> DEFINE k == 2 * Len(w.list)
           first == Begin(w)
           b == [w EXCEPT !.it = NodeAfter(w, first), !.running = TRUE]
           A == NextSteps(v)
           B == [i \in 0..k |->
                   {u \in A : u.running /\ u.board = <<>> => Left(v, u, u.prev + 1) <= k - i}]
           r == FoldLeft(LAMBDA u, i : NextRound(u), b, [i \in 1..k |-> i])
<1>0. PICK f \in Nat : /\ Halfway(v, w, f)
                       /\ w.board = <<>> /\ w.list # <<>> => w.prev = first /\ f = first + 1
  BY DEF FirstDone
<1>1. CASE w.list = <<>>
  <2>1. Nodes(w) = {} /\ SecondLoop(w) = w
    BY <1>1, FirstNode DEF SecondLoop
  <2> QED BY <1>0, <2>1 DEF NextDone
<1>2. CASE w.list # <<>>
  <2>1. k \in Nat
    BY TidyList
  <2>2. SecondLoop(w) = r
    BY <1>2 DEF SecondLoop, Rounds
  <2>3. first \in Nodes(w) /\ NodeAfter(w, first) \in Nat /\ w \in Worlds
    BY <1>2, FirstNode, NodeElem, AfterIn DEF Tidy
  <2>4. /\ b \in Worlds /\ SameList(w, b) /\ b.board = w.board /\ b.list = w.list
        /\ b.prev = w.prev /\ b.it = NodeAfter(w, first) /\ b.running
    <3> DEFINE m == NodeAfter(w, first)
    <3> HIDE DEF m
    <3>1. /\ [w EXCEPT !.it = m, !.running = TRUE] \in Worlds
          /\ SameList(w, [w EXCEPT !.it = m, !.running = TRUE])
          /\ [w EXCEPT !.it = m, !.running = TRUE].board = w.board
          /\ [w EXCEPT !.it = m, !.running = TRUE].prev = w.prev
          /\ [w EXCEPT !.it = m, !.running = TRUE].it = m
          /\ [w EXCEPT !.it = m, !.running = TRUE].running
      BY <2>3 DEF Worlds, SameList, m
    <3> QED BY <3>1 DEF m, SameList
  <2> HIDE DEF b
  <2>5. Halfway(v, b, f) /\ b \in Tidy /\ Nodes(b) = Nodes(w)
    BY <1>0, <2>4, LoopHalfway
  <2>6. b \in A
    <3>1. CASE b.board = <<>>
      <4>1. b.prev = first /\ f = first + 1
        BY <1>0, <1>2, <2>4, <3>1
      <4>2. NodeAfter(b, first) = NodeAfter(w, first)
        BY <2>4 DEF NodeAfter, At
      <4> QED BY <2>3, <2>4, <2>5, <3>1, <4>1, <4>2 DEF NextSteps, NextAt
    <3>2. CASE b.board # <<>>
      BY <2>5, <3>2 DEF NextSteps, NextDone
    <3> QED BY <3>1, <3>2
  <2>7. b \in B[0]
    <3>1. Left(v, b, b.prev + 1) <= 2 * Len(b.list)
      BY <2>5, LeftNat
    <3>2. Left(v, b, b.prev + 1) <= k - 0
      BY <2>1, <2>4, <3>1
    <3> QED BY <2>1, <2>6, <3>2
  <2>8. \A u \in A : NextRound(u) \in A
    BY NextRoundHalfway
  <2>9. ASSUME NEW j \in 1..k, NEW u \in A, u \in B[j - 1] PROVE NextRound(u) \in B[j]
    <3> DEFINE t == NextRound(u)
               left(x) == Left(v, x, x.prev + 1)
               on(x) == x.running /\ x.board = <<>>
    <3>1. t \in A /\ (on(t) => on(u) /\ left(t) < left(u))
      BY NextRoundHalfway
    <3>2. j \in 0..k /\ j - 1 \in 0..k /\ j \in Nat
      BY <2>1
    <3>3. on(u) => left(u) <= k - (j - 1)
      BY <2>9, <3>2
    <3> HIDE DEF t, A
    <3>4. left(t) \in Nat /\ left(u) \in Nat
      BY <3>1, LeftNat DEF A, NextSteps
    <3> HIDE DEF left, k, on
    <3>5. on(t) => left(t) <= k - j
      BY <2>1, <3>1, <3>2, <3>3, <3>4
    <3> QED BY <3>1, <3>2, <3>5 DEF left, on, t
  <2>10. r \in A \cap B[k]
    <3> HIDE DEF A, B, k
    <3> QED BY <2>1, <2>6, <2>7, <2>8, <2>9, NextReaches
  <2> HIDE DEF r
  <2>11. r \in A /\ (r.running /\ r.board = <<>> => Left(v, r, r.prev + 1) <= 0)
    <3>1. k \in 0..k /\ k - k = 0
      BY <2>1
    <3> HIDE DEF k
    <3> QED BY <2>10, <3>1
  <2>12. r \in Tidy
    BY <2>11 DEF NextSteps
  <2>13. NextDone(v, r)
    <3>1. CASE r.running /\ r.board = <<>>
      <4>1. r.prev + 1 \in Nat /\ Halfway(v, r, r.prev + 1)
        BY <2>11, <2>12, <3>1 DEF NextSteps, NextAt, Tidy, Worlds
      <4>2. \A n \in Nodes(r) : n < r.prev + 1
        BY <2>11, <2>12, <3>1, <4>1, NoneLeft
      <4> QED BY <4>1, <4>2 DEF NextDone
    <3>2. CASE ~(r.running /\ r.board = <<>>)
      BY <2>11, <3>2 DEF NextSteps
    <3> QED BY <3>1, <3>2
  <2> QED BY <2>2, <2>12, <2>13
<1> QED BY <1>1, <1>2

\* The whole sweep: every element was ticked once, unless it failed or the
\* match is over.
LEMMA SweepHalfway ==
    ASSUME NEW v \in Tidy
    PROVE  Sweep(v) \in Tidy /\ NextDone(v, Sweep(v))
BY FirstLoopHalfway, SecondLoopHalfway DEF Sweep

-----------------------------------------------------------------------------
(* What a move does to the objects and who loses by it.                     *)

\* The world that the sweep begins with has the field's objects, and behind
\* them the one that the move has placed.
LEMMA MovedTidy ==
    ASSUME TypeOK, Plain(state), scoreboard = <<>>, NEW p \in Player, NEW md \in Moves,
           Allowed(p, md)
    PROVE  LET w == Moved(p, md)
           IN  /\ w \in Tidy /\ idCounter <= w.nextId
               /\ \A i \in DOMAIN state.objects :
                     [node |-> i, obj |-> state.objects[i]] \in Elems(w)
               /\ \A e \in Elems(w) :
                     \/ \E i \in DOMAIN state.objects :
                           e = [node |-> i, obj |-> state.objects[i]]
                     \/ /\ e.obj.id = idCounter /\ idCounter < w.nextId
                        /\ \/ e.obj.kind = "bomb" /\ e.obj.ticks = BombTicksLeft
                           \/ e.obj.kind = "gun" /\ e.obj.ticks = GunCooldown
               /\ IdsUnique(state, idCounter) => Unique(w)
               /\ w.board = <<>> \/ (md.type = "resign" /\ w.board[2] = p)
<1> DEFINE placed == IF md.type = "place_bomb" THEN <<Bomb(md.pos, idCounter)>>
                     ELSE IF md.type = "place_gun" THEN <<Gun(md.pos, md.dir, idCounter)>>
                     ELSE <<>>
           objects == state.objects \o placed
           n == Len(state.objects)
           m == Len(placed)
           w == Moved(p, md)
           Placed(o) == /\ o.id = idCounter
                        /\ \/ o.kind = "bomb" /\ o.ticks = BombTicksLeft
                           \/ o.kind = "gun" /\ o.ticks = GunCooldown
<1>1. w \in Worlds
  BY MovedWorld
<1>2. state.objects \in Seq(Objects) /\ idCounter \in Nat
  BY DEF TypeOK, StateLike
<1>3. /\ w.list = [i \in DOMAIN objects |-> [node |-> i, obj |-> objects[i]]]
      /\ w.fresh = Len(objects) + 1 /\ w.nextId = idCounter + m
      /\ w.board = IF md.type = "resign" THEN Finish(scoreboard, p # 1) ELSE scoreboard
  BY DEF Moved, World
<1>4. placed \in Seq(Objects) /\ m \in {0, 1} /\ (m = 1 => Placed(placed[1]))
  <2>0. md.pos \in Int \X Int /\ md.dir \in Direction
    BY MovesTyped
  <2>1. /\ Placed(Bomb(md.pos, idCounter)) /\ Placed(Gun(md.pos, md.dir, idCounter))
        /\ Bomb(md.pos, idCounter) \in Objects /\ Gun(md.pos, md.dir, idCounter) \in Objects
    BY <1>2, <2>0 DEF Bomb, Gun, BombTicksLeft, GunCooldown, GunShots, Objects, Direction
  <2> HIDE DEF Placed
  <2>2. CASE md.type = "place_bomb"
    BY <2>1, <2>2
  <2>3. CASE md.type = "place_gun"
    BY <2>1, <2>3
  <2>4. CASE md.type # "place_bomb" /\ md.type # "place_gun"
    BY <2>4
  <2> QED BY <2>2, <2>3, <2>4
<1> HIDE DEF placed, Placed, w
<1>5. n \in Nat /\ DOMAIN state.objects = 1..n
  BY <1>2
<1>6. /\ Len(objects) = n + m /\ DOMAIN objects = 1..(n + m)
      /\ \A i \in 1..n : objects[i] = state.objects[i]
      /\ m = 1 => objects[n + 1] = placed[1]
  <2>1. /\ Len(objects) = n + m
        /\ \A i \in 1..(n + m) : objects[i] = IF i <= n THEN state.objects[i] ELSE placed[i - n]
    BY <1>2, <1>4, ConcatProperties, Zenon
  <2>2. DOMAIN objects = 1..(n + m)
    BY <1>2, <1>4
  <2> HIDE DEF objects, n, m
  <2>3. \A i \in 1..n : objects[i] = state.objects[i]
    BY <1>4, <1>5, <2>1
  <2>4. m = 1 => objects[n + 1] = placed[1]
    BY <1>4, <1>5, <2>1
  <2> QED BY <2>1, <2>2, <2>3, <2>4
<1> HIDE DEF objects, n, m
<1>7. /\ DOMAIN w.list = 1..(n + m) /\ w.fresh = n + m + 1 /\ w.nextId = idCounter + m
      /\ \A i \in 1..(n + m) : w.list[i] = [node |-> i, obj |-> objects[i]]
  BY <1>3, <1>6
<1>8. w.board = <<>> \/ (md.type = "resign" /\ Len(w.board) = 2 /\ w.board[2] = p)
  <2>1. CASE md.type = "resign"
    <3>1. w.board = <<>> \o (IF p # 1 THEN <<1, 2>> ELSE <<2, 1>>)
      BY <1>3, <2>1 DEF Finish
    <3>2. <<>> \o <<1, 2>> = <<1, 2>> /\ <<>> \o <<2, 1>> = <<2, 1>>
      OBVIOUS
    <3>3. CASE p = 1
      <4>1. w.board = <<2, 1>>
        BY <3>1, <3>2, <3>3
      <4> QED BY <2>1, <3>3, <4>1
    <3>4. CASE p = 2
      <4>1. w.board = <<1, 2>>
        BY <3>1, <3>2, <3>4
      <4> QED BY <2>1, <3>4, <4>1
    <3> QED BY <3>3, <3>4 DEF Player
  <2>2. CASE md.type # "resign"
    BY <1>3, <2>2
  <2> QED BY <2>1, <2>2
<1>9. w \in Tidy
  <2>0. ASSUME NEW i \in DOMAIN w.list PROVE w.list[i].node = i /\ i \in 1..(n + m)
    <3>1. i \in 1..(n + m)
      BY <1>7
    <3>2. w.list[i] = [node |-> i, obj |-> objects[i]]
      BY <1>7, <3>1
    <3> QED BY <3>1, <3>2
  <2>1. InOrder(w.list)
    <3>1. SUFFICES ASSUME NEW i \in DOMAIN w.list, NEW j \in DOMAIN w.list, i < j
                   PROVE  w.list[i].node < w.list[j].node
      BY DEF InOrder
    <3>2. w.list[i].node = i /\ w.list[j].node = j
      BY <2>0
    <3> QED BY <3>1, <3>2
  <2>2. \A i \in DOMAIN w.list : w.list[i].node < w.fresh
    <3>1. \A i \in 1..(n + m) : i < n + m + 1
      BY <1>4, <1>5
    <3> QED BY <1>7, <2>0, <3>1
  <2>3. Len(w.board) # 1
    BY <1>8
  <2> QED BY <1>1, <2>1, <2>2, <2>3 DEF Tidy
<1>10. \A i \in DOMAIN state.objects : [node |-> i, obj |-> state.objects[i]] \in Elems(w)
  <2> TAKE i \in DOMAIN state.objects
  <2>1. i \in DOMAIN w.list /\ w.list[i] = [node |-> i, obj |-> state.objects[i]]
    BY <1>4, <1>5, <1>6, <1>7
  <2> QED BY <2>1 DEF Elems
<1>11. ASSUME NEW e \in Elems(w)
       PROVE  \/ \E i \in DOMAIN state.objects : e = [node |-> i, obj |-> state.objects[i]]
              \/ m = 1 /\ e = [node |-> n + 1, obj |-> placed[1]]
  <2>1. PICK i \in 1..(n + m) : e = [node |-> i, obj |-> objects[i]]
    BY <1>7 DEF Elems
  <2>2. i \in 1..n \/ (m = 1 /\ i = n + 1)
    BY <1>4, <1>5, <2>1
  <2> QED BY <1>5, <1>6, <2>1, <2>2
<1>12. m = 1 => idCounter < w.nextId
  BY <1>2, <1>7
<1>13. ASSUME IdsUnique(state, idCounter) PROVE Unique(w)
  <2> DEFINE Old(e) == \E i \in DOMAIN state.objects : e = [node |-> i, obj |-> state.objects[i]]
             New(e) == m = 1 /\ e = [node |-> n + 1, obj |-> placed[1]]
  <2>1. \A e \in Elems(w) : Old(e) \/ New(e)
    BY <1>11
  <2>2. \A e : Old(e) => e.obj.id < idCounter
    BY <1>13 DEF IdsUnique
  <2>3. \A e : New(e) => e.obj.id = idCounter
    BY <1>4 DEF Placed
  <2>4. \A d, e : Old(d) /\ Old(e) /\ d.obj.id = e.obj.id => d = e
    BY <1>13 DEF IdsUnique
  <2>5. \A d, e : New(d) /\ New(e) => d = e
    OBVIOUS
  <2> HIDE DEF Old, New
  <2>6. \A d, e \in Elems(w) : d.obj.id = e.obj.id => d = e
    BY <1>2, <2>1, <2>2, <2>3, <2>4, <2>5
  <2>7. \A e \in Elems(w) : e.obj.id < w.nextId
    <3> TAKE e \in Elems(w)
    <3>1. CASE Old(e)
      <4>1. e.obj.id < idCounter /\ e.obj.id \in Nat
        BY <1>9, <2>2, <3>1, ElemObj
      <4> QED BY <1>2, <1>4, <1>7, <4>1
    <3>2. CASE New(e)
      BY <1>12, <2>3, <3>2 DEF New
    <3> QED BY <2>1, <3>1, <3>2
  <2> QED BY <2>6, <2>7 DEF Unique
<1>14. \A e \in Elems(w) :
          \/ \E i \in DOMAIN state.objects : e = [node |-> i, obj |-> state.objects[i]]
          \/ Placed(e.obj) /\ idCounter < w.nextId
  BY <1>4, <1>11, <1>12
<1>15. idCounter <= w.nextId
  BY <1>2, <1>4, <1>7
<1> QED BY <1>8, <1>9, <1>10, <1>13, <1>14, <1>15 DEF w, Placed

\* What a move's sweep leaves is the state after it.
LEMMA MoveLeaves ==
    ASSUME MatchInv, NEW p \in Player, NEW md \in Moves, ApiMove(p, md)
    PROVE  LET v == Moved(p, md)
               w == Sweep(v)
           IN  /\ Swept(v, w) /\ Allowed(p, md) /\ phase = "idle"
               /\ state'.players = v.players /\ state'.move = state.move + 1
               /\ state'.objects = [i \in DOMAIN w.list |-> w.list[i].obj]
               /\ idCounter' = w.nextId /\ scoreboard' = w.board
               /\ w.board # <<>> => \E e : log'.value = Append(w.log.value, e)
               /\ phase' = "waiting" => w.board = <<>> /\ ~w.ub
<1> DEFINE v == Moved(p, md)
           w == Sweep(v)
           over == w.board # <<>>
<1>1. TypeOK /\ Plain(state) /\ Allowed(p, md) /\ AfterMove(w) /\ phase = "idle"
  BY DEF MatchInv, ApiMove
<1>2. v \in Worlds
  BY <1>1, MovedWorld
<1> HIDE DEF v
<1>3. Swept(v, w)
  BY <1>2, SweepSwept
<1> HIDE DEF w
<1>4. w.players = v.players /\ w \in Worlds
  BY <1>3 DEF Swept
<1>5. /\ state' = [state EXCEPT !.players = w.players, !.move = @ + 1,
                                !.objects = [i \in DOMAIN w.list |-> w.list[i].obj],
                                !.turn = IF over THEN @ ELSE Other(@)]
      /\ idCounter' = w.nextId /\ scoreboard' = w.board
      /\ log' = (IF over THEN AddEvent(w.log, [kind |-> "player_won", actor |-> ActorId(w.board[1])])
                 ELSE w.log)
      /\ phase' = (IF w.ub \/ (over /\ expired) THEN "crashed"
                   ELSE IF over THEN "played" ELSE "waiting")
  BY <1>1 DEF AfterMove
<1>6. state'.players = w.players /\ state'.move = state.move + 1
      /\ state'.objects = [i \in DOMAIN w.list |-> w.list[i].obj]
  <2>1. state \in [players : [Player -> Int \X Int], objects : Seq(Objects), walls : {state.walls},
                   turn : Player, move : Nat, size : Nat \X Nat]
    BY <1>1 DEF TypeOK, StateLike
  <2> DEFINE objects == [i \in DOMAIN w.list |-> w.list[i].obj]
             turn == IF over THEN state.turn ELSE Other(state.turn)
  <2>2. state' = [state EXCEPT !.players = w.players, !.move = @ + 1, !.objects = objects,
                               !.turn = turn]
    BY <1>5
  <2> HIDE DEF objects, turn
  <2>3. state'.players = w.players /\ state'.move = state.move + 1 /\ state'.objects = objects
    BY <2>1, <2>2
  <2> QED BY <2>3 DEF objects
<1>7. over => \E e : log'.value = Append(w.log.value, e)
  <2>1. SUFFICES ASSUME over PROVE \E e : log'.value = Append(w.log.value, e)
    OBVIOUS
  <2> DEFINE e == [move |-> w.log.move, event |-> [kind |-> "player_won", actor |-> ActorId(w.board[1])]]
             l == w.log
  <2>2. log' = [l EXCEPT !.value = Append(l.value, e),
                         !.from = IF OpensMove(l) THEN Append(l.from, Len(l.value)) ELSE l.from]
    BY <1>5, <2>1 DEF AddEvent
  <2>3. l \in Logs
    BY <1>4 DEF Worlds
  <2> HIDE DEF e, l
  <2>4. log'.value = Append(l.value, e)
    BY <2>2, <2>3 DEF Logs
  <2> QED BY <2>4 DEF l
<1>8. phase' = "waiting" => w.board = <<>> /\ ~w.ub
  BY <1>5
<1> QED BY <1>1, <1>3, <1>4, <1>5, <1>6, <1>7, <1>8 DEF v, w

\* Who loses by a move.
LEMMA MoveLoses ==
    ASSUME MatchInv, NEW p \in Player, NEW md \in Moves, ApiMove(p, md),
           scoreboard = <<>>, scoreboard' # <<>>
    PROVE  LET loser == scoreboard'[2] IN
           \/ \E i \in DOMAIN log'.value :
                 log'.value[i] = [move |-> state'.move,
                                  event |-> [kind |-> "resign", actor |-> ActorId(loser)]]
           \/ \E i \in DOMAIN state.objects : Reaches(state.objects[i], state'.players[loser])
<1> DEFINE v == Moved(p, md)
           w == Sweep(v)
           loser == scoreboard'[2]
<1>1. /\ Swept(v, w) /\ Allowed(p, md)
      /\ state'.players = v.players /\ state'.move = state.move + 1
      /\ scoreboard' = w.board
      /\ w.board # <<>> => \E e : log'.value = Append(w.log.value, e)
  BY MoveLeaves
<1>2. TypeOK /\ Plain(state) /\ log \in Logs
  BY DEF MatchInv, TypeOK
<1>3. v.log.value = Append(log.value, [move |-> state.move + 1,
                                       event |-> [kind |-> md.type, actor |-> ActorId(p)]])
  BY <1>1, <1>2, MovedWorld
<1>4. /\ v \in Tidy
      /\ \A e \in Elems(v) :
            \/ \E i \in DOMAIN state.objects : e = [node |-> i, obj |-> state.objects[i]]
            \/ /\ e.obj.id = idCounter /\ idCounter < v.nextId
               /\ \/ e.obj.kind = "bomb" /\ e.obj.ticks = BombTicksLeft
                  \/ e.obj.kind = "gun" /\ e.obj.ticks = GunCooldown
      /\ v.board = <<>> \/ (md.type = "resign" /\ v.board[2] = p)
  BY <1>1, <1>2, MovedTidy
<1> HIDE DEF v
<1>5. Judged(v, w)
  BY <1>4, SweepHalfway DEF NextDone, Halfway
<1> HIDE DEF w
<1>6. CASE v.board # <<>>
  <2> DEFINE ev == [move |-> state.move + 1, event |-> [kind |-> "resign", actor |-> ActorId(loser)]]
             i == Len(log.value) + 1
  <2>1. loser = p /\ md.type = "resign"
    BY <1>1, <1>4, <1>5, <1>6 DEF Judged
  <2>2. v.log.value = Append(log.value, ev)
    BY <1>3, <2>1
  <2> HIDE DEF ev, loser
  <2>3. log.value \in Seq(Events) /\ GoesOn(v.log, w.log) /\ w.log.value \in Seq(Events)
    BY <1>1, <1>2 DEF Logs, Swept, GoesOn
  <2>4. i \in Nat /\ Len(v.log.value) = i /\ i \in DOMAIN v.log.value /\ v.log.value[i] = ev
    BY <2>2, <2>3
  <2>5. i \in 1..Len(w.log.value) /\ w.log.value[i] = ev
    BY <2>3, <2>4 DEF GoesOn
  <2> HIDE DEF i
  <2>6. PICK e : log'.value = Append(w.log.value, e)
    BY <1>1
  <2>7. i \in DOMAIN log'.value /\ log'.value[i] = ev
    BY <2>3, <2>4, <2>5, <2>6
  <2> QED BY <1>1, <2>7 DEF ev, loser
<1>7. CASE v.board = <<>>
  <2>1. PICK x \in Elems(v) : Reaches(x.obj, v.players[loser])
    BY <1>1, <1>5, <1>7 DEF Judged
  <2>2. CASE \E i \in DOMAIN state.objects : x = [node |-> i, obj |-> state.objects[i]]
    <3>1. PICK i \in DOMAIN state.objects : x = [node |-> i, obj |-> state.objects[i]]
      BY <2>2
    <3>2. x.obj = state.objects[i]
      BY <3>1
    <3> QED BY <1>1, <2>1, <3>2
  <2>3. CASE \/ x.obj.kind = "bomb" /\ x.obj.ticks = BombTicksLeft
             \/ x.obj.kind = "gun" /\ x.obj.ticks = GunCooldown
    BY <2>1, <2>3 DEF Reaches, BombTicksLeft, GunCooldown
  <2> QED BY <1>4, <2>2, <2>3
<1> QED BY <1>6, <1>7

\* A move that lets the match go on ages every object once.
LEMMA MoveAges ==
    ASSUME MatchInv, NEW p \in Player, NEW md \in Moves, ApiMove(p, md),
           phase' = "waiting", IdsUnique(state, idCounter)
    PROVE  /\ IdsUnique(state', idCounter')
           /\ \A i \in DOMAIN state.objects :
                 LET o == state.objects[i]
                     left == {j \in DOMAIN state'.objects : state'.objects[j].id = o.id}
                 IN  IF left = {} THEN MayGo(o)
                     ELSE \A j \in left : state'.objects[j] = Aged(o)
           /\ \A j \in DOMAIN state'.objects :
                 LET new == state'.objects[j] IN
                 new.id >= idCounter /\ new.kind # "bullet" =>
                     new.ticks = (IF new.kind = "bomb" THEN BombTicksLeft ELSE GunCooldown) - 1
           /\ \A j \in DOMAIN state'.objects :
                 LET b == state'.objects[j] IN
                 b.kind = "bullet" => OnMap(state, b.pos) /\ b.pos \notin DOMAIN state.walls
<1> DEFINE v == Moved(p, md)
           w == Sweep(v)
<1>1. /\ Swept(v, w) /\ Allowed(p, md)
      /\ state'.objects = [i \in DOMAIN w.list |-> w.list[i].obj]
      /\ idCounter' = w.nextId /\ w.board = <<>> /\ ~w.ub
  BY MoveLeaves
<1>2. TypeOK /\ Plain(state) /\ idCounter \in Nat
  BY DEF MatchInv, TypeOK
<1>3. scoreboard = <<>>
  BY <1>1, <1>2, MovedWorld DEF Swept
<1>4. /\ v \in Tidy /\ idCounter <= v.nextId
      /\ \A i \in DOMAIN state.objects : [node |-> i, obj |-> state.objects[i]] \in Elems(v)
      /\ \A e \in Elems(v) :
            \/ \E i \in DOMAIN state.objects : e = [node |-> i, obj |-> state.objects[i]]
            \/ /\ e.obj.id = idCounter /\ idCounter < v.nextId
               /\ \/ e.obj.kind = "bomb" /\ e.obj.ticks = BombTicksLeft
                  \/ e.obj.kind = "gun" /\ e.obj.ticks = GunCooldown
      /\ Unique(v)
  BY <1>1, <1>2, <1>3, MovedTidy
<1> HIDE DEF v
<1>5. w \in Tidy /\ NextDone(v, w)
  BY <1>4, SweepHalfway
<1> HIDE DEF w
<1>6. PICK f \in Nat : Halfway(v, w, f) /\ \A n \in Nodes(w) : n < f
  BY <1>1, <1>5 DEF NextDone
<1>7. Lawful(v, w, f) /\ \A e \in Elems(w) : e.node < f /\ Touched(v, e)
  BY <1>4, <1>6 DEF Halfway, Nodes
<1>8. DOMAIN state'.objects = DOMAIN w.list
      /\ \A j \in DOMAIN w.list : state'.objects[j] = w.list[j].obj /\ w.list[j] \in Elems(w)
  BY <1>1 DEF Elems
<1>9. v.nextId \in Nat /\ w.nextId \in Nat
  BY <1>4, <1>5, TidyList
\* Where an object comes from.
<1>10. ASSUME NEW e \in Elems(w)
       PROVE  \E x \in Elements :
                 /\ x \in Elems(v) \/ (x.obj.kind = "bullet" /\ x.obj.id >= v.nextId)
                 /\ e.node = x.node /\ e.obj = Aged(x.obj) /\ x.obj \in Canonicals
                 /\ e.obj.kind = x.obj.kind /\ e.obj.id = x.obj.id /\ x.obj.id \in Nat
  <2>1. PICK x \in Elements : Untouched(v, x) /\ e = Older(x)
    BY <1>7 DEF Touched
  <2>2. x.obj \in Canonicals /\ x.obj.id \in Nat
    BY DEF Elements, Canonicals, Objects
  <2>3. e.node = x.node /\ e.obj = Aged(x.obj)
    BY <2>1 DEF Older
  <2>4. x \in Elems(v) \/ (x.obj.kind = "bullet" /\ x.obj.id >= v.nextId)
    <3>1. \A pos, dir, id : Bullet(pos, dir, id).kind = "bullet"
      BY DEF Bullet
    <3> QED BY <2>1, <3>1 DEF Untouched
  <2> QED BY <2>2, <2>3, <2>4, AgedKind
<1>11. IdsUnique(state', idCounter')
  <2>1. ASSUME NEW i \in DOMAIN w.list, NEW j \in DOMAIN w.list, w.list[i] = w.list[j]
        PROVE  i = j
    <3>1. i \in Nat /\ j \in Nat /\ w.list[i].node \in Nat /\ InOrder(w.list)
      BY <1>5, TidyList
    <3>2. ~(i < j) /\ ~(j < i)
      BY <2>1, <3>1 DEF InOrder
    <3> QED BY <3>1, <3>2
  <2>2. \A i, j \in DOMAIN w.list : w.list[i].obj.id = w.list[j].obj.id => i = j
    BY <1>7, <1>8, <2>1 DEF Lawful, Unique
  <2>3. \A i \in DOMAIN w.list : w.list[i].obj.id < w.nextId
    BY <1>7, <1>8 DEF Lawful, Unique
  <2> QED BY <1>1, <1>8, <2>2, <2>3 DEF IdsUnique
<1>12. ASSUME NEW i \in DOMAIN state.objects
       PROVE  LET o == state.objects[i]
                  left == {j \in DOMAIN state'.objects : state'.objects[j].id = o.id}
              IN  IF left = {} THEN MayGo(o)
                  ELSE \A j \in left : state'.objects[j] = Aged(o)
  <2> DEFINE o == state.objects[i]
             x0 == [node |-> i, obj |-> o]
             left == {j \in DOMAIN state'.objects : state'.objects[j].id = o.id}
  <2>1. x0 \in Elems(v) /\ x0.obj = o /\ o.id < idCounter
    BY <1>4 DEF IdsUnique
  <2> HIDE DEF x0
  <2>2. left = {} => MayGo(o)
    <3>1. SUFFICES ASSUME x0.node \in Nodes(w) PROVE left # {}
      BY <1>7, <2>1 DEF Lawful
    <3>2. PICK e \in Elems(w) : e.node = x0.node
      BY <3>1 DEF Nodes
    <3>3. e.obj.id = o.id
      BY <1>4, <1>7, <2>1, <3>2, WhoIsWho
    <3>4. PICK j \in DOMAIN w.list : e = w.list[j]
      BY DEF Elems
    <3> QED BY <1>8, <3>3, <3>4
  <2>3. ASSUME NEW j \in left PROVE state'.objects[j] = Aged(o)
    <3> DEFINE e == w.list[j]
    <3>1. e \in Elems(w) /\ state'.objects[j] = e.obj /\ e.obj.id = o.id
      BY <1>8
    <3> HIDE DEF e
    <3>2. PICK x \in Elements :
                 /\ x \in Elems(v) \/ (x.obj.kind = "bullet" /\ x.obj.id >= v.nextId)
                 /\ e.obj = Aged(x.obj) /\ e.obj.id = x.obj.id /\ x.obj.id \in Nat
      BY <1>10, <3>1
    <3>3. x \in Elems(v)
      BY <1>2, <1>4, <1>9, <2>1, <3>1, <3>2
    <3>4. x = x0
      BY <1>4, <2>1, <3>1, <3>2, <3>3 DEF Unique
    <3> QED BY <2>1, <3>1, <3>2, <3>4
  <2> HIDE DEF left, o
  <2> QED BY <2>2, <2>3 DEF left, o
<1>13. ASSUME NEW j \in DOMAIN state'.objects
       PROVE  LET new == state'.objects[j] IN
              /\ new.id >= idCounter /\ new.kind # "bullet" =>
                     new.ticks = (IF new.kind = "bomb" THEN BombTicksLeft ELSE GunCooldown) - 1
              /\ new.kind = "bullet" => OnMap(state, new.pos) /\ new.pos \notin DOMAIN state.walls
  <2> DEFINE e == w.list[j]
             new == e.obj
  <2>1. e \in Elems(w) /\ state'.objects[j] = new
    BY <1>8
  <2> HIDE DEF e
  <2>2. new.kind = "bullet" => Free(new.pos)
    BY <1>7, <2>1 DEF Lawful
  <2>3. ASSUME new.id >= idCounter, new.kind # "bullet"
        PROVE  new.ticks = (IF new.kind = "bomb" THEN BombTicksLeft ELSE GunCooldown) - 1
    <3>1. PICK x \in Elements :
                 /\ x \in Elems(v) \/ (x.obj.kind = "bullet" /\ x.obj.id >= v.nextId)
                 /\ new = Aged(x.obj) /\ x.obj \in Canonicals /\ new.kind = x.obj.kind
                 /\ new.id = x.obj.id /\ x.obj.id \in Nat
      BY <1>10, <2>1
    <3>2. x \in Elems(v)
      BY <2>3, <3>1
    <3>3. ~\E i \in DOMAIN state.objects : x = [node |-> i, obj |-> state.objects[i]]
      <4>1. \A i \in DOMAIN state.objects : state.objects[i].id < idCounter
        BY DEF IdsUnique
      <4>2. ~(x.obj.id < idCounter)
        BY <1>2, <2>3, <3>1
      <4> QED BY <4>1, <4>2
    <3>4. \/ x.obj.kind = "bomb" /\ x.obj.ticks = BombTicksLeft
          \/ x.obj.kind = "gun" /\ x.obj.ticks = GunCooldown
      BY <1>4, <3>2, <3>3
    <3>5. new.ticks = x.obj.ticks - 1
      <4>1. x.obj.ticks # 1
        BY <3>4 DEF BombTicksLeft, GunCooldown
      <4> QED BY <2>3, <3>1, <4>1, AgedKind
    <3> QED BY <3>1, <3>4, <3>5
  <2> QED BY <2>1, <2>2, <2>3 DEF Free
<1> QED BY <1>11, <1>12, <1>13

-----------------------------------------------------------------------------
(* The theorems.                                                           *)

\* The invariant of every match.
THEOREM MatchInvariant == Spec => []MatchInv
<1>1. MatchInv /\ [Next]_vars => MatchInv'
  <2> SUFFICES ASSUME MatchInv, [Next]_vars PROVE MatchInv'
    OBVIOUS
  <2>1. ASSUME NEW p \in Player, NEW md \in Moves, ApiMove(p, md) PROVE MatchInv'
    BY <2>1, MoveInv
  <2>2. CASE TimerAbort
    BY <2>2, AbortInv
  <2>3. CASE CheckStatus
    BY <2>3, CheckInv
  <2>4. ASSUME NEW s \in Payloads, SetState(Shown(s)) PROVE MatchInv'
    BY <2>4, PayloadsAssumption, PostInv
  <2>5. CASE SetState(Shown(state))
    BY <2>5, PostInv DEF MatchInv, TypeOK
  <2>6. CASE UNCHANGED vars
    BY <2>6 DEF vars, MatchInv, TypeOK, PlayersApart, TurnPasses
  <2> QED BY <2>1, <2>2, <2>3, <2>4, <2>5, <2>6 DEF Next
<1> QED BY <1>1, InitInv, PTL DEF Spec

\* The match's fields are of their types.
THEOREM MatchTyped == Spec => []TypeOK
<1>1. MatchInv => TypeOK
  BY DEF MatchInv
<1> QED BY <1>1, MatchInvariant, PTL

\* The players of a match that goes on are apart from each other, from the
\* walls and, on the map, from the objects.
THEOREM PlayersStayApart == Spec => []PlayersApart
<1>1. MatchInv => PlayersApart
  BY DEF MatchInv
<1> QED BY <1>1, MatchInvariant, PTL

\* The turn passes with each move.
THEOREM TurnAlternates == Spec => []TurnPasses
<1>1. MatchInv => TurnPasses
  BY DEF MatchInv
<1> QED BY <1>1, MatchInvariant, PTL

\* What is shown and posted back is the state it was.
THEOREM StateRoundTrip == Spec => []RoundTrip
<1>1. MatchInv => RoundTrip
  BY StateRead DEF MatchInv, TypeOK, RoundTrip
<1> QED BY <1>1, MatchInvariant, PTL

\* Who loses by a step: the player who resigned, or one whom an object of the
\* field could reach.
THEOREM LoserFate == Spec => LoserWasHit
<1> DEFINE Fate == phase = "idle" /\ scoreboard = <<>> /\ scoreboard' # <<>> =>
             LET loser == scoreboard'[2] IN
             \/ \E i \in DOMAIN log'.value :
                   log'.value[i] = [move |-> state'.move,
                                    event |-> [kind |-> "resign", actor |-> ActorId(loser)]]
             \/ \E i \in DOMAIN state.objects :
                   Reaches(state.objects[i], state'.players[loser])
<1>1. ASSUME MatchInv, Next PROVE Fate
  <2>1. ASSUME NEW p \in Player, NEW md \in Moves, ApiMove(p, md) PROVE Fate
    BY <1>1, <2>1, MoveLoses
  <2>2. CASE TimerAbort
    BY <2>2 DEF TimerAbort
  <2>3. CASE CheckStatus
    BY <2>3 DEF CheckStatus
  <2>4. ASSUME NEW s, SetState(s) PROVE Fate
    BY <2>4 DEF SetState
  <2> HIDE DEF Fate
  <2> QED BY <1>1, <2>1, <2>2, <2>3, <2>4 DEF Next
<1>2. MatchInv /\ [Next]_vars => [Fate]_vars
  BY <1>1
<1> QED BY <1>2, MatchInvariant, PTL DEF Spec, LoserWasHit

\* A move that lets the match go on ticks every object of the field once.
THEOREM AgeOnce == Spec => AgesOnce
<1> DEFINE Ages == phase = "idle" /\ phase' = "waiting" /\ IdsUnique(state, idCounter) =>
             /\ IdsUnique(state', idCounter')
             /\ \A i \in DOMAIN state.objects :
                   LET o == state.objects[i]
                       left == {j \in DOMAIN state'.objects : state'.objects[j].id = o.id}
                   IN  IF left = {} THEN MayGo(o)
                       ELSE \A j \in left : state'.objects[j] = Aged(o)
             /\ \A j \in DOMAIN state'.objects :
                   LET new == state'.objects[j] IN
                   new.id >= idCounter /\ new.kind # "bullet" =>
                       new.ticks = (IF new.kind = "bomb" THEN BombTicksLeft ELSE GunCooldown) - 1
             /\ \A j \in DOMAIN state'.objects :
                   LET b == state'.objects[j] IN
                   b.kind = "bullet" => OnMap(state, b.pos) /\ b.pos \notin DOMAIN state.walls
<1>1. ASSUME MatchInv, Next PROVE Ages
  <2>1. ASSUME NEW p \in Player, NEW md \in Moves, ApiMove(p, md) PROVE Ages
    BY <1>1, <2>1, MoveAges
  <2>2. CASE TimerAbort
    BY <2>2 DEF TimerAbort
  <2>3. CASE CheckStatus
    BY <2>3 DEF CheckStatus
  <2>4. ASSUME NEW s, SetState(s) PROVE Ages
    BY <2>4 DEF SetState
  <2> HIDE DEF Ages
  <2> QED BY <1>1, <2>1, <2>2, <2>3, <2>4 DEF Next
<1>2. MatchInv /\ [Next]_vars => [Ages]_vars
  BY <1>1
<1> QED BY <1>2, MatchInvariant, PTL DEF Spec, AgesOnce
=============================================================================
