--------------------------- MODULE EventLogProofs ---------------------------
(***************************************************************************)
(* Proofs about EventLog, for every set of events, setters and payload     *)
(* numbers and every bound: what a poll is sent is exact whenever no       *)
(* SetState stands between its two writes.                                 *)
(***************************************************************************)
EXTENDS EventLog, TLAPS

\* The moves of the list never decrease.
Ordered ==
    \A i, j \in 1..Len(log.value) : i <= j => log.value[i].move <= log.value[j].move

\* Every entry of the index has an event behind it.
Entered == \A k \in 1..Len(log.from) : log.from[k] < Len(log.value)

\* The index has an entry for every move up to the last event's.
Complete ==
    IF log.value = <<>> THEN log.from = <<>> ELSE Len(log.from) + Shift = LastMove(log)

\* The move before the next one the list may get.
Latest == IF log.value = <<>> THEN base ELSE LastMove(log)

\* Between moves: the list is either untouched since the last SetState, or
\* its last event is of the current move.
Quiet ==
    /\ moveNumber = Latest
    /\ IF log.value = <<>> THEN log = Cleared ELSE log.move = LastMove(log)

\* After StampMove: the next event opens the next move.
Opened == log.move = moveNumber /\ moveNumber = 1 + Latest

Stage ==
    /\ pc \in {"idle", "emitting", "timer", "aborting"} => Quiet
    /\ pc = "counted" => moveNumber = 1 + Latest
    /\ pc = "begun" => Quiet \/ Opened

\* The inductive invariant. What a SetState leaves undone between its writes,
\* the last of those that cross makes good: it clears the list.
IndexInv ==
    /\ TypeOK
    /\ Settled => Ordered /\ Entered /\ Complete /\ EntriesCut /\ Stage

-----------------------------------------------------------------------------
\* What Clear leaves is an event list.
LEMMA ClearedType == Cleared \in [value : Seq(Entry), from : Seq(Nat), move : Nat]
  BY DEF Cleared

(* What the proofs use of the sequence operators. *)
LEMMA EntrySeq ==
  ASSUME NEW s \in Seq(Entry)
  PROVE  /\ Len(s) \in Nat
         /\ s = <<>> <=> Len(s) = 0
         /\ s # <<>> => Len(s) \in 1..Len(s)
         /\ \A i \in 1..Len(s) : s[i] \in Entry /\ s[i].move \in Nat
<1>1. Len(s) \in Nat /\ \A i \in 1..Len(s) : s[i] \in Entry
  OBVIOUS
<1>2. \A x \in Entry : x.move \in Nat
  BY DEF Entry
<1>3. s = <<>> <=> Len(s) = 0
  OBVIOUS
<1> QED BY <1>1, <1>2, <1>3

\* Lists of events, and of moves' beginnings, grow at the end.
LEMMA EntryAppend ==
  ASSUME NEW s \in Seq(Entry), NEW x \in Entry
  PROVE  /\ Append(s, x) \in Seq(Entry)
         /\ Append(s, x) # <<>>
         /\ Len(Append(s, x)) = Len(s) + 1
         /\ Append(s, x)[Len(s) + 1].move = x.move
         /\ \A i \in 1..Len(s) : Append(s, x)[i].move = s[i].move
<1>1. /\ Append(s, x) \in Seq(Entry) /\ Append(s, x) # <<>>
      /\ Len(Append(s, x)) = Len(s) + 1
      /\ Append(s, x)[Len(s) + 1] = x
  OBVIOUS
<1>2. \A i \in 1..Len(s) : Append(s, x)[i] = s[i]
  OBVIOUS
<1> QED BY <1>1, <1>2

\* The last event's move is a number, and that of an empty list is 0.
LEMMA LastMoveType ==
  ASSUME TypeOK
  PROVE  /\ log.value \in Seq(Entry) /\ log.from \in Seq(Nat) /\ log.move \in Nat
         /\ LastMove(log) \in Nat
<1>1. log.value \in Seq(Entry) /\ log.from \in Seq(Nat) /\ log.move \in Nat
  BY DEF TypeOK
<1>2. log.value # <<>> => log.value[Len(log.value)] \in Entry
  BY <1>1, EntrySeq
<1> QED BY <1>1, <1>2 DEF LastMove, Entry

\* What AddEvent leaves.
LEMMA AddEventType ==
  ASSUME TypeOK, NEW e \in Events, log' = AddEvent(log, e)
  PROVE  /\ log'.value = Append(log.value, [move |-> log.move, event |-> e])
         /\ log'.from = IF OpensMove(log) THEN Append(log.from, Len(log.value)) ELSE log.from
         /\ log'.move = log.move
         /\ log' \in [value : Seq(Entry), from : Seq(Nat), move : Nat]
<1> DEFINE new == [move |-> log.move, event |-> e]
           value == Append(log.value, new)
           from == IF OpensMove(log) THEN Append(log.from, Len(log.value)) ELSE log.from
<1>1. /\ log \in [value : Seq(Entry), from : Seq(Nat), move : Nat]
      /\ log.value \in Seq(Entry) /\ log.from \in Seq(Nat) /\ log.move \in Nat
      /\ Len(log.value) \in Nat /\ new \in Entry
  BY DEF TypeOK, Entry
<1>2. log' = [value |-> value, from |-> from, move |-> log.move]
  BY <1>1 DEF AddEvent
<1> HIDE DEF new
<1>3. value \in Seq(Entry) /\ from \in Seq(Nat)
  BY <1>1
<1> HIDE DEF value, from
<1>4. log' \in [value : Seq(Entry), from : Seq(Nat), move : Nat]
  BY <1>1, <1>2, <1>3
<1> QED BY <1>2, <1>4 DEF value, from, new

(* Appending an event that AddEvent accepts keeps the list ordered and the   *)
(* index exact: an entry is added precisely when a new move starts.          *)
LEMMA AddEventKeepsIndex ==
  ASSUME TypeOK, Ordered, Entered, Complete, EntriesCut,
         NEW e \in Events,
         ~Throws(log),
         log.value = <<>> => log.move = base + 1,
         log.value # <<>> => log.move \in {LastMove(log), LastMove(log) + 1},
         log' = AddEvent(log, e),
         base' = base
  PROVE  /\ log' \in [value : Seq(Entry), from : Seq(Nat), move : Nat]
         /\ Ordered' /\ Entered' /\ Complete' /\ EntriesCut'
         /\ log'.value # <<>>
         /\ log'.move = log.move
         /\ LastMove(log)' = log.move
<1> DEFINE new == [move |-> log.move, event |-> e]
           L == Len(log.value)
<1>1. /\ log.value \in Seq(Entry) /\ log.from \in Seq(Nat) /\ log.move \in Nat
      /\ base \in Nat \cup {-1} /\ L \in Nat /\ Len(log.from) \in Nat
      /\ new \in Entry
  BY DEF TypeOK, Entry
<1>2. /\ log'.value = Append(log.value, new)
      /\ log'.from = IF OpensMove(log) THEN Append(log.from, L) ELSE log.from
      /\ log'.move = log.move
      /\ log' \in [value : Seq(Entry), from : Seq(Nat), move : Nat]
  BY AddEventType
<1>n. new.move = log.move
  OBVIOUS
<1> HIDE DEF new
<1>3. /\ Len(log'.value) = L + 1
      /\ log'.value # <<>>
      /\ log'.value[L + 1].move = log.move
      /\ \A i \in 1..L : log'.value[i].move = log.value[i].move
  <2>1. new \in Entry /\ log.value \in Seq(Entry)
    BY <1>1
  <2>2. /\ Append(log.value, new) # <<>>
        /\ Len(Append(log.value, new)) = L + 1
        /\ Append(log.value, new)[L + 1].move = new.move
        /\ \A i \in 1..L : Append(log.value, new)[i].move = log.value[i].move
    BY <2>1, EntryAppend, Zenon
  <2>3. log'.value = Append(log.value, new)
    BY <1>2
  <2> QED BY <2>2, <2>3, <1>n, Zenon
<1>a. /\ log.value = <<>> <=> L = 0
      /\ \A i \in 1..L : log.value[i].move \in Nat
  BY <1>1, EntrySeq
<1>4. LastMove(log)' = log.move
  BY <1>1, <1>3 DEF LastMove
<1>b. LastMove(log) = IF L = 0 THEN 0 ELSE log.value[L].move
  BY <1>a DEF LastMove
<1>5. \A i \in 1..L : log.value[i].move \in Nat /\ log.value[i].move <= LastMove(log)
  <2> SUFFICES ASSUME NEW i \in 1..L
               PROVE  log.value[i].move \in Nat /\ log.value[i].move <= LastMove(log)
    OBVIOUS
  <2>1. L \in 1..L /\ L # 0 /\ i <= L
    BY <1>1
  <2>2. log.value[i].move <= log.value[L].move
    BY <2>1 DEF Ordered
  <2> QED BY <2>1, <2>2, <1>a, <1>b
<1>6. LastMove(log) \in Nat /\ LastMove(log) <= log.move
  <2>1. LastMove(log) \in Nat
    BY LastMoveType
  <2>2. L = 0 => LastMove(log) = 0
    BY <1>b
  <2>3. L # 0 => log.move = LastMove(log) \/ log.move = LastMove(log) + 1
    BY <1>a
  <2> QED BY <2>1, <2>2, <2>3, <1>1
<1>7. Ordered'
  <2> SUFFICES ASSUME NEW i \in 1..(L + 1), NEW j \in 1..(L + 1), i <= j
               PROVE  log'.value[i].move <= log'.value[j].move
    BY <1>3 DEF Ordered
  <2>1. CASE j = L + 1 /\ i = L + 1
    BY <2>1, <1>1, <1>3
  <2>2. CASE j = L + 1 /\ i \in 1..L
    <3>1. log'.value[i].move = log.value[i].move /\ log'.value[j].move = log.move
      BY <2>2, <1>3
    <3>2. log.value[i].move <= LastMove(log) /\ log.value[i].move \in Nat
      BY <2>2, <1>5
    <3> HIDE DEF L
    <3> QED BY <3>1, <3>2, <1>6, <1>1
  <2>3. CASE j \in 1..L
    <3>1. i \in 1..L
      BY <2>3, <1>1
    <3>2. log'.value[i].move = log.value[i].move /\ log'.value[j].move = log.value[j].move
      BY <2>3, <3>1, <1>3
    <3> QED BY <2>3, <3>1, <3>2 DEF Ordered
  <2> QED BY <2>1, <2>2, <2>3, <1>1
<1>c. /\ log'.from \in Seq(Nat)
      /\ Len(log'.from) = IF OpensMove(log) THEN Len(log.from) + 1 ELSE Len(log.from)
      /\ \A k \in 1..Len(log.from) : log'.from[k] = log.from[k]
      /\ OpensMove(log) => log'.from[Len(log.from) + 1] = L
  <2>1. CASE OpensMove(log)
    <3>1. log'.from = Append(log.from, L)
      BY <2>1, <1>2
    <3> QED BY <2>1, <3>1, <1>1
  <2>2. CASE ~OpensMove(log)
    BY <2>2, <1>1, <1>2
  <2> QED BY <2>1, <2>2
<1>8. Entered'
  <2> SUFFICES ASSUME NEW k \in 1..Len(log'.from) PROVE log'.from[k] < L + 1
    BY <1>3 DEF Entered
  <2>1. CASE k \in 1..Len(log.from)
    <3>1. log.from[k] < L
      BY <2>1 DEF Entered
    <3>2. log'.from[k] = log.from[k]
      BY <2>1, <1>c
    <3>3. log.from[k] \in Nat
      BY <2>1, <1>1
    <3> QED BY <3>1, <3>2, <3>3, <1>1
  <2>2. CASE ~(k \in 1..Len(log.from))
    BY <2>2, <1>1, <1>c
  <2> QED BY <2>1, <2>2
<1>9. Shift \in Nat /\ Shift' = Shift /\ (base = 0 => Shift = 0) /\ (base # 0 => Shift = base + 1)
  <2>1. Shift = IF base = 0 THEN 0 ELSE base + 1
    BY DEF Shift
  <2>2. Shift' = IF base' = 0 THEN 0 ELSE base' + 1
    BY DEF Shift
  <2> QED BY <2>1, <2>2, <1>1
<1>10. Len(log.from) + Shift = IF OpensMove(log) THEN log.move - 1 ELSE log.move
  <2>1. CASE L = 0
    <3>1. Len(log.from) = 0 /\ LastMove(log) = 0 /\ log.move = base + 1
      BY <2>1, <1>a, <1>b DEF Complete
    <3>2. OpensMove(log) <=> base = 0
      BY <3>1, <1>1 DEF OpensMove
    <3> QED BY <3>1, <3>2, <1>9, <1>1
  <2>2. CASE L # 0
    <3>1. Len(log.from) + Shift = LastMove(log)
      BY <2>2, <1>a DEF Complete
    <3>2. log.move = LastMove(log) \/ log.move = LastMove(log) + 1
      BY <2>2, <1>a
    <3>3. OpensMove(log) <=> log.move = LastMove(log) + 1
      BY DEF OpensMove
    <3> QED BY <3>1, <3>2, <3>3, <1>1, <1>6
  <2> QED BY <2>1, <2>2
<1>12. Complete'
  <2>1. Len(log'.from) + Shift = log.move
    <3> DEFINE N == Len(log.from)
               N2 == Len(log'.from)
    <3>1. N2 = IF OpensMove(log) THEN N + 1 ELSE N
      BY <1>c
    <3>2. N + Shift = IF OpensMove(log) THEN log.move - 1 ELSE log.move
      BY <1>10
    <3>3. N \in Nat /\ Shift \in Nat /\ log.move \in Nat
      BY <1>1, <1>9
    <3> HIDE DEF N, N2
    <3>4. N2 + Shift = log.move
      BY <3>1, <3>2, <3>3
    <3> QED BY <3>4 DEF N2
  <2> QED BY <2>1, <1>3, <1>4, <1>9 DEF Complete
<1>13. EntriesCut'
  <2> SUFFICES ASSUME NEW k \in 1..Len(log'.from)
               PROVE  /\ log'.from[k] \in 0..(L + 1)
                      /\ \A i \in 1..(L + 1) :
                            i > log'.from[k] <=> log'.value[i].move >= k + Shift
    BY <1>3, <1>9 DEF EntriesCut, CutAt
  <2>1. CASE k \in 1..Len(log.from)
    <3>1. log'.from[k] = log.from[k] /\ log.from[k] < L /\ log.from[k] \in 0..L
      BY <2>1, <1>1, <1>c DEF Entered, EntriesCut, CutAt
    <3>2. \A i \in 1..L : i > log.from[k] <=> log.value[i].move >= k + Shift
      BY <2>1 DEF EntriesCut, CutAt
    <3>3. L > log.from[k] /\ L \in 1..L
      BY <3>1, <1>1
    <3>4. log.move >= k + Shift
      <4>1. log.value[L].move >= k + Shift
        BY <3>2, <3>3
      <4>2. log.value[L].move <= LastMove(log) /\ log.value[L].move \in Nat
        BY <3>3, <1>5
      <4> DEFINE m == log.value[L].move
      <4>3. k \in Nat /\ Shift \in Nat /\ log.move \in Nat
        BY <2>1, <1>1, <1>9
      <4> HIDE DEF m
      <4> QED BY <4>1, <4>2, <4>3, <1>6 DEF m
    <3>5. \A i \in 1..L : i > log'.from[k] <=> log'.value[i].move >= k + Shift
      BY <3>1, <3>2, <1>3
    <3>6. L + 1 > log'.from[k] /\ log'.from[k] \in 0..(L + 1)
      BY <3>1, <1>1
    <3>7. log'.value[L + 1].move >= k + Shift
      BY <3>4, <1>3
    <3>8. \A i \in 1..(L + 1) : i \in 1..L \/ i = L + 1
      BY <1>1
    <3> QED BY <3>5, <3>6, <3>7, <3>8
  <2>2. CASE ~(k \in 1..Len(log.from))
    <3>1. OpensMove(log) /\ k = Len(log.from) + 1 /\ log'.from[k] = L
      BY <2>2, <1>1, <1>c
    <3>2. log.move = k + Shift /\ log.move = LastMove(log) + 1
      <4> DEFINE N == Len(log.from)
      <4>1. log.move = LastMove(log) + 1
        BY <3>1 DEF OpensMove
      <4>2. N + Shift = log.move - 1 /\ k = N + 1
        BY <3>1, <1>10
      <4>3. N \in Nat /\ Shift \in Nat /\ log.move \in Nat
        BY <1>1, <1>9
      <4> HIDE DEF N
      <4> QED BY <4>1, <4>2, <4>3
    <3>3. \A i \in 1..L : ~(i > L) /\ ~(log'.value[i].move >= k + Shift)
      <4> SUFFICES ASSUME NEW i \in 1..L PROVE ~(i > L) /\ ~(log'.value[i].move >= k + Shift)
        OBVIOUS
      <4>1. log'.value[i].move = log.value[i].move /\ log.value[i].move <= LastMove(log)
            /\ log.value[i].move \in Nat
        BY <1>3, <1>5
      <4> QED BY <4>1, <3>2, <1>6, <1>1
    <3>4. L + 1 > L /\ log'.value[L + 1].move >= k + Shift
      BY <3>2, <1>1, <1>3
    <3> QED BY <3>1, <3>3, <3>4, <1>1
  <2> QED BY <2>1, <2>2
<1> QED BY <1>2, <1>3, <1>4, <1>7, <1>8, <1>12, <1>13

\* The empty list of a new match is indexed.
LEMMA InitIndexInv == Init => IndexInv
<1> SUFFICES ASSUME Init PROVE IndexInv
  OBVIOUS
<1>1. /\ log = Cleared /\ moveNumber = 0 /\ captured = 0 /\ base = 0 /\ pc = "idle"
      /\ setter = [s \in Setters |-> "idle"]
  BY DEF Init
<1>2. Cleared.value = <<>> /\ Cleared.from = <<>> /\ Cleared.move = 0
  BY DEF Cleared
<1>3. TypeOK
  BY <1>1, ClearedType DEF TypeOK, PC, SetterPC
<1> QED
  BY <1>1, <1>2, <1>3
     DEF IndexInv, Ordered, Entered, Complete, EntriesCut, Stage, Quiet, Latest

\* What the list says of its moves stays while the list and its base do.
LEMMA SameList ==
  ASSUME log'.value = log.value, log'.from = log.from, base' = base
  PROVE  /\ Ordered' = Ordered /\ Entered' = Entered /\ Complete' = Complete
         /\ EntriesCut' = EntriesCut /\ Latest' = Latest /\ LastMove(log)' = LastMove(log)
<1>1. LastMove(log)' = LastMove(log) /\ Shift' = Shift
  BY DEF LastMove, Shift
<1> QED BY <1>1 DEF Ordered, Entered, Complete, EntriesCut, CutAt, Latest

\* An event of a move, or of its timer, on a list that is in order.
LEMMA EventKeepsIndex ==
  ASSUME IndexInv, Settled, NEW e \in Events, ~Throws(log), log' = AddEvent(log, e),
         pc \in {"begun", "emitting", "aborting"}, base' = base, moveNumber' = moveNumber
  PROVE  Ordered' /\ Entered' /\ Complete' /\ EntriesCut' /\ Quiet'
<1>0. TypeOK /\ Ordered /\ Entered /\ Complete /\ EntriesCut /\ Stage
  BY DEF IndexInv
<1>1. /\ LastMove(log) \in Nat /\ log.move \in Nat /\ moveNumber \in Nat
      /\ base \in Nat \cup {-1}
  BY <1>0, LastMoveType DEF TypeOK
<1>2. ~(log = Cleared)
  BY DEF Throws, Cleared
<1>3. Quiet \/ Opened
  BY <1>0 DEF Stage
<1>4. /\ log.value = <<>> => log.move = base + 1
      /\ log.value # <<>> => log.move \in {LastMove(log), LastMove(log) + 1}
      /\ moveNumber = log.move
  BY <1>1, <1>2, <1>3 DEF Quiet, Opened, Latest
<1>5. /\ Ordered' /\ Entered' /\ Complete' /\ EntriesCut'
      /\ log'.value # <<>> /\ log'.move = log.move /\ LastMove(log)' = log.move
  BY <1>0, <1>4, AddEventKeepsIndex
<1>6. Quiet'
  BY <1>4, <1>5 DEF Quiet, Latest
<1> QED BY <1>5, <1>6

\* Every write of a move, of the timer or of SetState keeps the index.
LEMMA NextIndexInv == IndexInv /\ [Next]_vars => IndexInv'
<1> SUFFICES ASSUME IndexInv, [Next]_vars PROVE IndexInv'
  OBVIOUS
<1> USE DEF IndexInv
<1>0. /\ LastMove(log) \in Nat /\ base \in Nat \cup {-1}
      /\ log \in [value : Seq(Entry), from : Seq(Nat), move : Nat]
      /\ log.value \in Seq(Entry) /\ log.from \in Seq(Nat) /\ log.move \in Nat
      /\ moveNumber \in Nat /\ captured \in Nat /\ pc \in PC
  BY LastMoveType DEF TypeOK
<1>s. setter' = setter => Settled' = Settled
  BY DEF Settled
<1>l. Latest \in Nat \cup {-1}
  BY <1>0 DEF Latest
<1>1. CASE CountMove
  <2>1. /\ pc = "idle" /\ pc' = "counted" /\ moveNumber' = moveNumber + 1
        /\ log' = log /\ UNCHANGED <<captured, setter, base>>
    BY <1>1 DEF CountMove
  <2>2. TypeOK'
    BY <2>1, <1>0 DEF TypeOK, PC
  <2>3. /\ Ordered' = Ordered /\ Entered' = Entered /\ Complete' = Complete
        /\ EntriesCut' = EntriesCut /\ Latest' = Latest
    BY <2>1, SameList
  <2>4. Settled => Stage'
    BY <2>1, <2>3, <1>0 DEF Stage, Quiet
  <2> QED BY <2>1, <2>2, <2>3, <2>4, <1>s
<1>2. CASE StampMove
  <2>1. /\ pc = "counted" /\ pc' = "begun" /\ log' = [log EXCEPT !.move = moveNumber]
        /\ UNCHANGED <<moveNumber, captured, setter, base>>
    BY <1>2 DEF StampMove, SetMoveNumber
  <2>2. /\ log'.value = log.value /\ log'.from = log.from /\ log'.move = moveNumber
        /\ log' \in [value : Seq(Entry), from : Seq(Nat), move : Nat]
    BY <2>1, <1>0
  <2>3. TypeOK'
    BY <2>1, <2>2, <1>0 DEF TypeOK, PC
  <2>4. /\ Ordered' = Ordered /\ Entered' = Entered /\ Complete' = Complete
        /\ EntriesCut' = EntriesCut /\ Latest' = Latest
    BY <2>1, <2>2, SameList
  <2>5. Settled => Stage'
    BY <2>1, <2>2, <2>4 DEF Stage, Opened
  <2> QED BY <2>1, <2>3, <2>4, <2>5, <1>s
<1>3. ASSUME NEW e \in Events, Report(e) PROVE IndexInv'
  <2>0. UNCHANGED <<moveNumber, captured, setter, base>> /\ pc \in {"begun", "emitting"}
    BY <1>3 DEF Report
  <2>1. CASE Throws(log)
    <3>1. log' = log /\ pc' = "crashed"
      BY <1>3, <2>1 DEF Report
    <3>2. TypeOK' /\ Stage'
      BY <2>0, <3>1, <1>0 DEF TypeOK, PC, Stage
    <3>3. /\ Ordered' = Ordered /\ Entered' = Entered /\ Complete' = Complete
          /\ EntriesCut' = EntriesCut
      BY <2>0, <3>1, SameList
    <3> QED BY <2>0, <3>2, <3>3, <1>s
  <2>2. CASE ~Throws(log)
    <3>1. log' = AddEvent(log, e) /\ pc' = "emitting"
      BY <1>3, <2>2 DEF Report
    <3>2. TypeOK'
      BY <2>0, <3>1, <1>0, AddEventType DEF TypeOK, PC
    <3>3. Settled => Ordered' /\ Entered' /\ Complete' /\ EntriesCut' /\ Quiet'
      BY <2>0, <2>2, <3>1, EventKeepsIndex
    <3>4. Settled => Stage'
      BY <3>1, <3>3 DEF Stage
    <3> QED BY <2>0, <3>2, <3>3, <3>4, <1>s
  <2> QED BY <2>1, <2>2
<1>4. CASE ReturnFinished \/ StartTimer \/ TimerExpires
  <2>1. /\ UNCHANGED <<log, moveNumber, setter, base>>
        /\ pc \in {"emitting", "timer"} /\ pc' \in {"idle", "timer", "aborting"}
        /\ captured' \in {captured, moveNumber}
    BY <1>4 DEF ReturnFinished, StartTimer, TimerExpires
  <2>2. TypeOK'
    BY <2>1, <1>0 DEF TypeOK, PC
  <2>3. /\ Ordered' = Ordered /\ Entered' = Entered /\ Complete' = Complete
        /\ EntriesCut' = EntriesCut /\ Latest' = Latest /\ LastMove(log)' = LastMove(log)
    BY <2>1, SameList
  <2>4. Settled => Stage'
    BY <2>1, <2>3 DEF Stage, Quiet
  <2> QED BY <2>1, <2>2, <2>3, <2>4, <1>s
<1>5. ASSUME NEW e \in Events, TimerAbort(e) PROVE IndexInv'
  <2>0. pc = "aborting" /\ pc' = "idle" /\ UNCHANGED <<moveNumber, captured, setter, base>>
    BY <1>5 DEF TimerAbort
  <2>1. CASE Throws(log)
    <3>1. log' = log
      BY <1>5, <2>1 DEF TimerAbort
    <3>2. TypeOK'
      BY <2>0, <3>1, <1>0 DEF TypeOK, PC
    <3>3. /\ Ordered' = Ordered /\ Entered' = Entered /\ Complete' = Complete
          /\ EntriesCut' = EntriesCut /\ Latest' = Latest /\ LastMove(log)' = LastMove(log)
      BY <2>0, <3>1, SameList
    <3>4. Settled => Stage'
      BY <2>0, <3>1, <3>3 DEF Stage, Quiet
    <3> QED BY <2>0, <3>2, <3>3, <3>4, <1>s
  <2>2. CASE ~Throws(log)
    <3>1. log' = AddEvent(log, e)
      BY <1>5, <2>2 DEF TimerAbort
    <3>2. TypeOK'
      BY <2>0, <3>1, <1>0, AddEventType DEF TypeOK, PC
    <3>3. Settled => Ordered' /\ Entered' /\ Complete' /\ EntriesCut' /\ Quiet'
      BY <2>0, <2>2, <3>1, EventKeepsIndex
    <3>4. Settled => Stage'
      BY <2>0, <3>3 DEF Stage
    <3> QED BY <2>0, <3>2, <3>3, <3>4, <1>s
  <2> QED BY <2>1, <2>2
<1>6. ASSUME NEW s \in Setters, NEW n \in PayloadMoves, ReplaceState(s, n) PROVE IndexInv'
  <2>1. /\ moveNumber' = n /\ n \in Nat /\ UNCHANGED <<log, captured, pc, base>>
        /\ setter' = [setter EXCEPT ![s] = "replaced"]
    BY <1>6, PayloadAssumption DEF ReplaceState
  <2>2. TypeOK'
    BY <2>1, <1>0 DEF TypeOK, SetterPC
  <2>3. ~Settled'
    BY <2>1 DEF TypeOK, Settled
  <2> QED BY <2>2, <2>3
<1>7. ASSUME NEW s \in Setters, ClearList(s) PROVE IndexInv'
  <2>1. /\ log' = Cleared /\ base' = Started /\ UNCHANGED <<moveNumber, captured, pc>>
        /\ setter' = [setter EXCEPT ![s] = "idle"]
    BY <1>7 DEF ClearList
  <2>2. log'.value = <<>> /\ log'.from = <<>>
    BY <2>1 DEF Cleared
  <2>3. Started \in Nat \cup {-1}
    BY <1>0 DEF Started
  <2>4. TypeOK'
    BY <2>1, <2>3, <1>0, ClearedType DEF TypeOK, SetterPC
  <2>5. Ordered' /\ Entered' /\ Complete' /\ EntriesCut'
    BY <2>2 DEF Ordered, Entered, Complete, EntriesCut
  <2>6. Latest' = Started
    BY <2>1, <2>2 DEF Latest
  <2>7. Stage'
    BY <2>1, <2>2, <2>6, <1>0 DEF Stage, Quiet, Started
  <2> QED BY <2>4, <2>5, <2>7
<1>8. CASE UNCHANGED vars
  <2>1. UNCHANGED <<log, moveNumber, captured, pc, setter, base>>
    BY <1>8 DEF vars
  <2>2. TypeOK'
    BY <2>1 DEF TypeOK
  <2>3. /\ Ordered' = Ordered /\ Entered' = Entered /\ Complete' = Complete
        /\ EntriesCut' = EntriesCut /\ Latest' = Latest /\ LastMove(log)' = LastMove(log)
    BY <2>1, SameList
  <2>4. Stage => Stage'
    BY <2>1, <2>3 DEF Stage, Quiet, Opened
  <2> QED BY <2>1, <2>2, <2>3, <2>4, <1>s
<1> QED BY <1>1, <1>2, <1>3, <1>4, <1>5, <1>6, <1>7, <1>8 DEF Next

(* The inductive invariant holds of every state of every behaviour. *)
THEOREM IndexInvariant == Spec => []IndexInv
  BY InitIndexInv, NextIndexInv, PTL DEF Spec

(* The list, its index and the numbers keep their types. *)
THEOREM TypeCorrect == Spec => []TypeOK
<1>1. IndexInv => TypeOK
  BY DEF IndexInv
<1> QED BY <1>1, IndexInvariant, PTL

(* Every entry of from_move_ cuts the list at the first event of its move,   *)
(* unless a SetState stands between its writes.                              *)
THEOREM IndexCutsTheList == Spec => []IndexCuts
<1>1. IndexInv => IndexCuts
  BY DEF IndexInv, IndexCuts
<1> QED BY <1>1, IndexInvariant, PTL

(* AddEvent throws under a move only if a SetState crossed it: one stands     *)
(* between its writes, or the list was cleared after the move's stamp.        *)
THEOREM ThrowNeedsSetState == Spec => []ThrowsOnlyIfCleared
<1>1. IndexInv => ThrowsOnlyIfCleared
  <2> SUFFICES ASSUME IndexInv, pc \in {"begun", "emitting"}, Throws(log), Settled
               PROVE  log = Cleared
    BY DEF ThrowsOnlyIfCleared
  <2>1. /\ LastMove(log) \in Nat /\ base \in Nat \cup {-1} /\ log.move \in Nat
        /\ log \in [value : Seq(Entry), from : Seq(Nat), move : Nat]
    BY LastMoveType DEF IndexInv, TypeOK
  <2>2. (Quiet \/ Opened) /\ Complete
    BY DEF IndexInv, Stage
  <2>3. CASE log.value = <<>>
    <3>1. log.move = 0
      BY <2>1, <2>3 DEF Throws
    <3>2. log.from = <<>>
      BY <2>2, <2>3 DEF Complete
    <3> QED BY <2>1, <2>3, <3>1, <3>2 DEF Cleared
  <2>4. CASE log.value # <<>>
    BY <2>1, <2>2, <2>4 DEF Quiet, Opened, Latest, Throws
  <2> QED BY <2>3, <2>4
<1> QED BY <1>1, IndexInvariant, PTL

(* A poll is sent the events of the move it names and of the later ones, all *)
(* of them and no others, counted from the move the list starts after, when  *)
(* no SetState stands between its writes.                                    *)
THEOREM PollsAreExact == Spec => []FromMoveExact
<1>1. IndexInv => FromMoveExact
  <2> SUFFICES ASSUME IndexInv, Settled, NEW n \in 1..(MaxMove + 1)
               PROVE  /\ FromMove(log, n)
                            = SubSeq(log.value, Len(log.value) - Len(FromMove(log, n)) + 1,
                                     Len(log.value))
                      /\ CutAt(Len(log.value) - Len(FromMove(log, n)), n + Shift)
    BY DEF FromMoveExact
  <2> DEFINE L == Len(log.value)
             d == L - Len(FromMove(log, n))
  <2>1. /\ log.value \in Seq(Entry) /\ log.from \in Seq(Nat) /\ L \in Nat
        /\ n \in Nat /\ n >= 1 /\ Len(log.from) \in Nat
    BY BoundAssumption DEF IndexInv, TypeOK
  <2>2. Shift \in Nat
    BY DEF Shift, IndexInv, TypeOK
  <2>3. CASE n > Len(log.from)
    <3>1. FromMove(log, n) = <<>> /\ Len(FromMove(log, n)) = 0
      BY <2>1, <2>3 DEF FromMove
    <3>2. SubSeq(log.value, L + 1, L) = <<>>
      BY <2>1
    <3>3. \A i \in 1..L : ~(i > L) /\ ~(log.value[i].move >= n + Shift)
      <4> SUFFICES ASSUME NEW i \in 1..L PROVE ~(i > L) /\ ~(log.value[i].move >= n + Shift)
        OBVIOUS
      <4> DEFINE m == log.value[i].move
                 N == Len(log.from)
      <4>1. L \in 1..L /\ L # 0 /\ i <= L
        BY <2>1
      <4>2. log.value # <<>>
        BY <4>1, <2>1, EntrySeq
      <4>3. N + Shift = LastMove(log) /\ LastMove(log) = log.value[L].move
        BY <4>2 DEF IndexInv, Complete, LastMove
      <4>4. m <= log.value[L].move
        BY <4>1 DEF IndexInv, Ordered
      <4>5. m \in Nat /\ N \in Nat /\ n > N
        BY <2>1, <2>3, EntrySeq
      <4> HIDE DEF m, N
      <4>6. ~(m >= n + Shift)
        BY <4>3, <4>4, <4>5, <2>1, <2>2
      <4> QED BY <4>1, <4>6, <2>1 DEF m
    <3>4. d = L
      BY <3>1, <2>1
    <3>5. CutAt(L, n + Shift)
      BY <3>3, <2>1 DEF CutAt
    <3> HIDE DEF d
    <3>6. FromMove(log, n) = SubSeq(log.value, d + 1, L) /\ CutAt(d, n + Shift)
      BY <3>1, <3>2, <3>4, <3>5
    <3> QED BY <3>6 DEF d
  <2>4. CASE n \in 1..Len(log.from)
    <3>1. CutAt(log.from[n], n + Shift)
      BY <2>1, <2>2, <2>4 DEF IndexInv, EntriesCut
    <3>2. log.from[n] \in 0..L
      BY <3>1 DEF CutAt
    <3>3. FromMove(log, n) = SubSeq(log.value, log.from[n] + 1, L)
      <4>1. ~(n < 1) /\ ~(n > Len(log.from))
        BY <2>1, <2>4
      <4> QED BY <4>1, Zenon DEF FromMove
    <3> DEFINE f == log.from[n]
    <3>4. Len(SubSeq(log.value, f + 1, L)) = L - f
      <4>1. f \in Nat /\ f <= L
        BY <3>2, <2>1
      <4> HIDE DEF f
      <4> QED BY <2>1, <4>1
    <3>5. d = f
      <4>1. f \in Nat /\ f <= L
        BY <3>2, <2>1
      <4>2. Len(FromMove(log, n)) = L - f
        BY <3>3, <3>4
      <4> HIDE DEF f
      <4> QED BY <2>1, <4>1, <4>2
    <3>6. CutAt(f, n + Shift) /\ FromMove(log, n) = SubSeq(log.value, f + 1, L)
      BY <3>1, <3>3
    <3> HIDE DEF d, f
    <3>7. FromMove(log, n) = SubSeq(log.value, d + 1, L) /\ CutAt(d, n + Shift)
      BY <3>5, <3>6
    <3> QED BY <3>7 DEF d
  <2>5. n > Len(log.from) \/ n \in 1..Len(log.from)
    BY <2>1
  <2> QED BY <2>3, <2>4, <2>5, Zenon
<1> QED BY <1>1, IndexInvariant, PTL

=============================================================================
