------------------------- MODULE GameManagerProofs --------------------------
(***************************************************************************)
(* The safety properties of a match and its subscribers, for any users,    *)
(* connections, movers and number of moves, and the refinement of          *)
(* UpdateMailbox by the notifier.                                          *)
(***************************************************************************)
EXTENDS GameManager, FiniteSetTheorems, TLAPS

\* The subscribers were told that the match is over, by the move that erases it.
Ended == ~session \/ \E m \in Movers : pc[m] = "erase"

\* Where the move that ends the match stands once the match is erased.
Ending == {"unlock"} \cup Leaving

\* While there is a match, all moves use the first mutex, and have it while they
\* are between lock and unlock. Only such a move erases the match, once, after
\* it recorded the result; it alone is about to end the mutex then.
Exclusive ==
    /\ session => placed = "first" /\ \A m \in Movers : pc[m] \in Locked => owner["first"] = m
    /\ placed = "first" => \A m \in Movers : mine[m] = "first"
    /\ \A m \in Movers : pc[m] \in Locked \ {"move", "unlock"} => session
    /\ \A m \in Movers : pc[m] \in Ending => ~session
    /\ \A m, o \in Movers : pc[m] \in Ending /\ pc[o] \in Ending => m = o
    /\ \A m \in Movers : pc[m] \in {"unsubscribe", "erase"} => lines = 1
    /\ lines = 0 \/ (lines = 1 /\ (~session \/ \E m \in Movers : pc[m] \in {"unsubscribe", "erase"}))
    /\ ~session => lines = 1

\* A move that has been accepted counts, and no user has seen more than that.
Counted ==
    /\ \A m \in Movers : pc[m] \in Locked \ {"move"} => version # 0
    /\ ~session => version # 0
    /\ \A u \in Users : seen[u] <= version

\* The notifier's data for the match.
Kept ==
    /\ since = -1 <=> creator # "done"
    /\ notifier.known => creator = "done" /\ {P1, P2} \subseteq Subscribed(notifier)
    /\ ~notifier.known => Subscribed(notifier) = {} /\ notifier.waiting = {}
    /\ \A u \in Users, c \in Conns : notifier.responser[u] = c => UserOf[c] = u
    /\ notifier.waiting \cap Polling(notifier) = {}
    /\ notifier.closing # {} => notifier.waiting = {} /\ Ended

\* Of subscribers who were there before the first move: they are dropped only
\* at the end, and each was told the last move or will be.
Informed ==
    since = 0 =>
       /\ notifier.known <=> ~Ended
       /\ notifier.known /\ (\A m \in Movers : pc[m] # "notify") =>
             \A u \in Subscribed(notifier) : u \in notifier.waiting \/ seen[u] = version
       /\ ~notifier.known => \A u \in {P1, P2} \ notifier.closing : seen[u] = version

\* The inductive invariant.
MatchInv == TypeOK /\ Exclusive /\ Counted /\ Kept /\ AnsweredOnce /\ Informed

-----------------------------------------------------------------------------
(* Lemmas about the notifier's methods.                                     *)

NotifierData == [known : BOOLEAN, responser : [Users -> Conns \cup {Absent, Nullopt}],
                 waiting : SUBSET Users, closing : SUBSET Users]

\* Subscribe adds a user without an open poll, and changes nobody else.
LEMMA SubscribeFields ==
    ASSUME NEW n \in NotifierData, NEW u \in Users
    PROVE  LET s == Subscribe(n, u)
           IN  /\ s \in NotifierData /\ s.known /\ s.waiting = n.waiting /\ s.closing = n.closing
               /\ \A v \in Users : v # u => s.responser[v] = n.responser[v]
               /\ s.responser[u] = IF n.responser[u] = Absent THEN Nullopt ELSE n.responser[u]
BY ConnsAssumption DEF Subscribe, NotifierData

\* Subscribing opens no poll.
LEMMA SubscribeSets ==
    ASSUME NEW n \in NotifierData, NEW u \in Users
    PROVE  /\ Subscribed(Subscribe(n, u)) = Subscribed(n) \cup {u}
           /\ Polling(Subscribe(n, u)) = Polling(n)
           /\ \A v \in Users, c \in Conns :
                 Subscribe(n, u).responser[v] = c <=> n.responser[v] = c
<1> DEFINE s == Subscribe(n, u)
<1>1. /\ \A v \in Users : v # u => s.responser[v] = n.responser[v]
      /\ s.responser[u] = IF n.responser[u] = Absent THEN Nullopt ELSE n.responser[u]
  BY SubscribeFields
<1> HIDE DEF s
<1>2. Subscribed(s) = Subscribed(n) \cup {u}
  BY <1>1, ConnsAssumption DEF Subscribed
<1>3. Polling(s) = Polling(n)
  BY <1>1, ConnsAssumption DEF Polling
<1>4. \A v \in Users, c \in Conns : s.responser[v] = c <=> n.responser[v] = c
  BY <1>1, ConnsAssumption
<1> QED BY <1>2, <1>3, <1>4 DEF s

\* SessionCreated subscribes both players.
LEMMA SessionCreatedFields ==
    ASSUME NEW n \in NotifierData
    PROVE  LET s == SessionCreated(n, P1, P2)
           IN  /\ s \in NotifierData /\ s.known /\ s.waiting = n.waiting /\ s.closing = n.closing
               /\ Subscribed(s) = Subscribed(n) \cup {P1, P2} /\ Polling(s) = Polling(n)
               /\ \A v \in Users, c \in Conns : s.responser[v] = c <=> n.responser[v] = c
<1> DEFINE f == Subscribe(n, P1)
           s == Subscribe(f, P2)
<1>1. P1 \in Users /\ P2 \in Users
  BY PlayersAssumption
<1>2. f \in NotifierData /\ f.waiting = n.waiting /\ f.closing = n.closing
  BY <1>1, SubscribeFields
<1>3. /\ Subscribed(f) = Subscribed(n) \cup {P1} /\ Polling(f) = Polling(n)
      /\ \A v \in Users, c \in Conns : f.responser[v] = c <=> n.responser[v] = c
  BY <1>1, SubscribeSets
<1> HIDE DEF f
<1>4. s \in NotifierData /\ s.known /\ s.waiting = f.waiting /\ s.closing = f.closing
  BY <1>1, <1>2, SubscribeFields
<1>5. /\ Subscribed(s) = Subscribed(f) \cup {P2} /\ Polling(s) = Polling(f)
      /\ \A v \in Users, c \in Conns : s.responser[v] = c <=> f.responser[v] = c
  BY <1>1, <1>2, SubscribeSets
<1> HIDE DEF s
<1>6. SessionCreated(n, P1, P2) = s
  BY DEF SessionCreated, s, f
<1> QED BY <1>2, <1>3, <1>4, <1>5, <1>6

\* Notify answers all open polls and keeps the happening for the others.
LEMMA NotifyFields ==
    ASSUME NEW n \in NotifierData
    PROVE  LET r == Notify(n)
           IN  /\ r.n \in NotifierData /\ r.n.known = n.known /\ r.n.closing = n.closing
               /\ ~n.known => r.n = n /\ r.answers = {}
               /\ n.known => /\ r.answers = Answers(n, "ok") /\ Polling(r.n) = {}
                             /\ Subscribed(r.n) = Subscribed(n)
                             /\ r.n.waiting = n.waiting \cup (Subscribed(n) \ Polling(n))
<1> DEFINE r == Notify(n)
           resp == [u \in Users |-> IF u \in Polling(n) THEN Nullopt ELSE n.responser[u]]
           wait == n.waiting \cup (Subscribed(n) \ Polling(n))
<1>1. CASE ~n.known
  <2>1. r = Result(n, {}, FALSE)
    BY <1>1 DEF Notify
  <2> QED BY <1>1, <2>1 DEF Result
<1>2. CASE n.known
  <2>1. r.n = [n EXCEPT !.responser = resp, !.waiting = wait] /\ r.answers = Answers(n, "ok")
    BY <1>2 DEF Notify, Result
  <2>2. /\ resp \in [Users -> Conns \cup {Absent, Nullopt}]
        /\ wait \in SUBSET Users
    BY DEF NotifierData, Subscribed
  <2> HIDE DEF resp, wait
  <2>3. /\ r.n \in NotifierData /\ r.n.responser = resp /\ r.n.waiting = wait
        /\ r.n.known = n.known /\ r.n.closing = n.closing
    BY <2>1, <2>2 DEF NotifierData
  <2> HIDE DEF r
  <2>4. Polling(r.n) = {}
    BY <2>3, ConnsAssumption DEF Polling, resp
  <2>5. Subscribed(r.n) = Subscribed(n)
    BY <2>3, ConnsAssumption DEF Subscribed, Polling, resp
  <2> QED BY <1>2, <2>1, <2>3, <2>4, <2>5 DEF r, wait
<1> QED BY <1>1, <1>2

\* Unsubscribe closes all open polls, and remembers who has to be told.
LEMMA UnsubscribeFields ==
    ASSUME NEW n \in NotifierData
    PROVE  LET r == Unsubscribe(n)
           IN  /\ r.n \in NotifierData /\ ~r.n.known
               /\ ~n.known => r.n = n /\ r.answers = {}
               /\ n.known => /\ r.answers = Answers(n, "not_relevant")
                             /\ Subscribed(r.n) = {} /\ Polling(r.n) = {} /\ r.n.waiting = {}
                             /\ r.n.closing = n.closing \cup n.waiting
<1> DEFINE r == Unsubscribe(n)
<1>1. CASE ~n.known
  <2>1. r = Result(n, {}, FALSE)
    BY <1>1 DEF Unsubscribe
  <2> QED BY <1>1, <2>1 DEF Result
<1>2. CASE n.known
  <2>1. /\ r.n = [NoSubscribers EXCEPT !.closing = n.closing \cup n.waiting]
        /\ r.answers = Answers(n, "not_relevant")
    BY <1>2 DEF Unsubscribe, Result
  <2>2. n.closing \cup n.waiting \in SUBSET Users
    BY DEF NotifierData
  <2>3. /\ r.n.known = FALSE /\ r.n.responser = [u \in Users |-> Absent] /\ r.n.waiting = {}
        /\ r.n.closing = n.closing \cup n.waiting /\ r.n \in NotifierData
    BY <2>1, <2>2 DEF NotifierData, NoSubscribers
  <2> HIDE DEF r
  <2>4. Subscribed(r.n) = {} /\ Polling(r.n) = {}
    BY <2>3, ConnsAssumption DEF Subscribed, Polling
  <2> QED BY <1>2, <2>1, <2>3, <2>4 DEF r
<1> QED BY <1>1, <1>2

\* A poll that comes after the end of the match, or before its subscribers.
LEMMA ChangePollWithout ==
    ASSUME NEW n \in NotifierData, NEW u \in Users, NEW c \in Conns, NEW events \in BOOLEAN
    PROVE  LET r == ChangePoll(n, u, c, events)
           IN  /\ u \in n.closing =>
                     /\ r.found /\ r.n \in NotifierData /\ r.answers = {[conn |-> c, status |-> "ok"]}
                     /\ r.n.known = n.known /\ r.n.responser = n.responser
                     /\ r.n.waiting = n.waiting /\ r.n.closing = n.closing \ {u}
               /\ u \notin n.closing /\ ~n.known => ~r.found /\ r.n = n /\ r.answers = {}
<1> DEFINE r == ChangePoll(n, u, c, events)
<1>1. CASE u \in n.closing
  <2>1. /\ r.n = [n EXCEPT !.closing = n.closing \ {u}] /\ r.found
        /\ r.answers = {[conn |-> c, status |-> "ok"]}
    BY <1>1 DEF ChangePoll, Result
  <2>2. /\ r.n \in NotifierData /\ r.n.known = n.known /\ r.n.responser = n.responser
        /\ r.n.waiting = n.waiting /\ r.n.closing = n.closing \ {u}
    BY <2>1 DEF NotifierData
  <2> QED BY <1>1, <2>1, <2>2
<1>2. CASE u \notin n.closing /\ ~n.known
  <2>1. r = Result(n, {}, FALSE)
    BY <1>2 DEF ChangePoll
  <2> QED BY <1>2, <2>1 DEF Result
<1>3. CASE u \notin n.closing /\ n.known
  BY <1>3
<1> QED BY <1>1, <1>2, <1>3

\* A poll of a user who has not been told the last move is answered.
LEMMA ChangePollWaiting ==
    ASSUME NEW n \in NotifierData, NEW u \in Users, NEW c \in Conns, NEW events \in BOOLEAN,
           n.known, u \in n.waiting \ n.closing
    PROVE  LET r == ChangePoll(n, u, c, events)
           IN  /\ r.found /\ r.n \in NotifierData /\ r.n.known
               /\ r.answers = {[conn |-> c, status |-> IF events THEN "ok" ELSE "not_relevant"]}
               /\ r.n.waiting = n.waiting \ {u} /\ r.n.closing = n.closing
               /\ Subscribed(r.n) = Subscribed(n) \cup {u} /\ Polling(r.n) = Polling(n)
               /\ \A v \in Users, d \in Conns : r.n.responser[v] = d <=> n.responser[v] = d
<1> DEFINE r == ChangePoll(n, u, c, events)
           s == Subscribe(n, u)
<1>1. /\ s \in NotifierData /\ s.known /\ s.waiting = n.waiting /\ s.closing = n.closing
  BY SubscribeFields
<1>2. /\ Subscribed(s) = Subscribed(n) \cup {u} /\ Polling(s) = Polling(n)
      /\ \A v \in Users, d \in Conns : s.responser[v] = d <=> n.responser[v] = d
  BY SubscribeSets
<1>3. /\ r.n = [s EXCEPT !.waiting = @ \ {u}] /\ r.found
      /\ r.answers = {[conn |-> c, status |-> IF events THEN "ok" ELSE "not_relevant"]}
  BY DEF ChangePoll, Result
<1> HIDE DEF s, r
<1>4. /\ r.n \in NotifierData /\ r.n.known = s.known /\ r.n.responser = s.responser
      /\ r.n.waiting = s.waiting \ {u} /\ r.n.closing = s.closing
  BY <1>1, <1>3 DEF NotifierData
<1>5. Subscribed(r.n) = Subscribed(s) /\ Polling(r.n) = Polling(s)
  BY <1>4 DEF Subscribed, Polling
<1> QED BY <1>1, <1>2, <1>3, <1>4, <1>5 DEF r

\* Any other poll is kept open, and closes the one before it.
LEMMA ChangePollOpens ==
    ASSUME NEW n \in NotifierData, NEW u \in Users, NEW c \in Conns, NEW events \in BOOLEAN,
           n.known, u \notin n.waiting, u \notin n.closing
    PROVE  LET r == ChangePoll(n, u, c, events)
           IN  /\ r.found /\ r.n \in NotifierData /\ r.n.known
               /\ n.responser[u] \in Conns =>
                     r.answers = {[conn |-> n.responser[u], status |-> "poll_closed"]}
               /\ n.responser[u] \notin Conns => r.answers = {}
               /\ r.n.waiting = n.waiting /\ r.n.closing = n.closing
               /\ Subscribed(r.n) = Subscribed(n) \cup {u} /\ Polling(r.n) = Polling(n) \cup {u}
               /\ r.n.responser[u] = c
               /\ \A v \in Users : v # u => r.n.responser[v] = n.responser[v]
<1> DEFINE r == ChangePoll(n, u, c, events)
           s == Subscribe(n, u)
<1>1. /\ s \in NotifierData /\ s.known /\ s.waiting = n.waiting /\ s.closing = n.closing
      /\ \A v \in Users : v # u => s.responser[v] = n.responser[v]
      /\ s.responser[u] = IF n.responser[u] = Absent THEN Nullopt ELSE n.responser[u]
  BY SubscribeFields
<1>2. Subscribed(s) = Subscribed(n) \cup {u} /\ Polling(s) = Polling(n)
  BY SubscribeSets
<1> DEFINE resp == [s.responser EXCEPT ![u] = c]
<1>3. /\ r.n = [s EXCEPT !.responser = resp] /\ r.found
      /\ r.answers = IF s.responser[u] \in Conns
                     THEN {[conn |-> s.responser[u], status |-> "poll_closed"]} ELSE {}
  BY DEF ChangePoll, Result
<1> HIDE DEF s, r
<1>4. /\ resp \in [Users -> Conns \cup {Absent, Nullopt}]
      /\ resp[u] = c /\ \A v \in Users : v # u => resp[v] = s.responser[v]
  BY <1>1 DEF NotifierData
<1> HIDE DEF resp
<1>5. /\ r.n.known = s.known /\ r.n.responser = resp
      /\ r.n.waiting = s.waiting /\ r.n.closing = s.closing /\ r.n \in NotifierData
      /\ r.n.responser[u] = c /\ \A v \in Users : v # u => r.n.responser[v] = s.responser[v]
  BY <1>1, <1>3, <1>4 DEF NotifierData
<1>6. Subscribed(r.n) = Subscribed(s) \cup {u} /\ Polling(r.n) = Polling(s) \cup {u}
  <2>1. Subscribed(r.n) = Subscribed(s) \cup {u}
    BY <1>5, ConnsAssumption DEF Subscribed
  <2>2. Polling(r.n) = Polling(s) \cup {u}
    BY <1>5 DEF Polling
  <2> QED BY <2>1, <2>2
<1>7. /\ n.responser[u] \in Conns =>
            r.answers = {[conn |-> n.responser[u], status |-> "poll_closed"]}
      /\ n.responser[u] \notin Conns => r.answers = {}
  BY <1>1, <1>3, ConnsAssumption
<1> QED BY <1>1, <1>2, <1>3, <1>5, <1>6, <1>7 DEF r

\* Answers of which no connection gets two count one for each that gets one.
LEMMA AnsweredOnCounts ==
    ASSUME NEW answers, NEW c, \A a, b \in answers : a.conn = b.conn => a = b
    PROVE  AnsweredOn(c, answers) = IF \E a \in answers : a.conn = c THEN 1 ELSE 0
<1> DEFINE on == {a \in answers : a.conn = c}
<1>1. CASE \E a \in answers : a.conn = c
  <2>1. PICK a \in answers : a.conn = c
    BY <1>1
  <2>2. on = {a}
    BY <2>1
  <2> QED BY <1>1, <2>2, FS_Singleton DEF AnsweredOn
<1>2. CASE ~\E a \in answers : a.conn = c
  <2>1. on = {}
    BY <1>2
  <2> QED BY <1>2, <2>1, FS_EmptySet DEF AnsweredOn
<1> QED BY <1>1, <1>2

\* Notify and Unsubscribe answer the open polls, each once.
LEMMA AnswersFields ==
    ASSUME NEW n \in NotifierData, NEW status,
           \A u \in Users, c \in Conns : n.responser[u] = c => UserOf[c] = u
    PROVE  /\ \A a, b \in Answers(n, status) : a.conn = b.conn => a = b
           /\ \A a \in Answers(n, status) :
                 a.conn \in Conns /\ a.status = status /\ UserOf[a.conn] \in Polling(n)
           /\ \A c \in Conns :
                 (\E a \in Answers(n, status) : a.conn = c) <=> n.responser[UserOf[c]] = c
<1>1. \A a \in Answers(n, status) : \E u \in Polling(n) :
         a = [conn |-> n.responser[u], status |-> status]
  BY DEF Answers
<1>2. \A u \in Polling(n) : u \in Users /\ n.responser[u] \in Conns /\ UserOf[n.responser[u]] = u
  BY DEF Polling
<1>3. \A a \in Answers(n, status) :
         a.conn \in Conns /\ a.status = status /\ UserOf[a.conn] \in Polling(n)
  BY <1>1, <1>2
<1>4. \A a, b \in Answers(n, status) : a.conn = b.conn => a = b
  BY <1>1, <1>2
<1>5. ASSUME NEW c \in Conns, n.responser[UserOf[c]] = c
      PROVE  \E a \in Answers(n, status) : a.conn = c
  <2>1. UserOf[c] \in Polling(n)
    BY <1>5, UserOfAssumption DEF Polling
  <2> DEFINE a == [conn |-> n.responser[UserOf[c]], status |-> status]
  <2>2. a \in Answers(n, status) /\ a.conn = c
    BY <1>5, <2>1 DEF Answers
  <2> QED BY <2>2
<1>6. ASSUME NEW c \in Conns, NEW a \in Answers(n, status), a.conn = c
      PROVE  n.responser[UserOf[c]] = c
  BY <1>1, <1>2, <1>6
<1> QED BY <1>3, <1>4, <1>5, <1>6

-----------------------------------------------------------------------------
(* The steps of a move.                                                     *)

\* A mover's steps keep the mutex exclusive and the result unique.
LEMMA ExclusiveStep ==
    ASSUME TypeOK, Exclusive, NEW m \in Movers, StartMove(m) \/ MoveStep(m)
    PROVE  Exclusive'
<1> USE NoMoverAssumption
    DEF TypeOK, Exclusive, Locked, Leaving, Ending, Mutexes, Goto, Unlock, gmVars, mutexVars
<1>1. CASE StartMove(m)
  BY <1>1 DEF StartMove
<1>2. CASE Contains(m)
  BY <1>2 DEF Contains
<1>3. CASE At(m)
  BY <1>3 DEF At
<1>4. CASE Lock(m)
  BY <1>4 DEF Lock
<1>5. CASE Move(m)
  <2>0. UNCHANGED <<session, lines, placed, mine>>
    BY <1>5 DEF Move
  <2>1. CASE Goto(m, "move", "move") /\ UNCHANGED mutexVars
    BY <2>0, <2>1
  <2>2. CASE Unlock(m, "move")
    BY <2>0, <2>2
  <2>3. CASE session /\ Goto(m, "move", "notify") /\ UNCHANGED mutexVars
    BY <2>0, <2>3
  <2> QED BY <1>5, <2>1, <2>2, <2>3 DEF Move
<1>6. CASE NotifyMove(m)
  BY <1>6 DEF NotifyMove
<1>7. CASE GetResults(m)
  BY <1>7 DEF GetResults
<1>8. CASE Record(m)
  <2>1. CASE Unlock(m, "record") /\ UNCHANGED <<lines, row>>
    BY <1>8, <2>1 DEF Record
  <2>2. CASE Goto(m, "record", "unsubscribe") /\ lines' = lines + 1 /\ UNCHANGED mutexVars
    <3>1. session /\ lines = 0 /\ session' = session
      BY <1>8, <2>2 DEF Record
    <3>2. pc' = [pc EXCEPT ![m] = "unsubscribe"] /\ lines' = 1 /\ UNCHANGED <<placed, owner, mine>>
          /\ owner["first"] = m
      BY <2>2, <3>1
    <3> QED BY <3>1, <3>2
  <2> QED BY <1>8, <2>1, <2>2 DEF Record, AddLine
<1>9. CASE UnsubscribeAll(m)
  BY <1>9 DEF UnsubscribeAll
<1>10. CASE Erase(m)
  BY <1>10 DEF Erase
<1>11. CASE FindMutex(m)
  BY <1>11 DEF FindMutex
<1>12. CASE UnlockEarly(m)
  BY <1>12 DEF UnlockEarly
<1>13. CASE DestroyMutex(m)
  BY <1>13 DEF DestroyMutex
<1>14. CASE ReleaseDestroyed(m)
  BY <1>14 DEF ReleaseDestroyed
<1>15. CASE DefineMove(m)
  BY <1>15 DEF DefineMove
<1> QED BY <1>1, <1>2, <1>3, <1>4, <1>5, <1>6, <1>7, <1>8, <1>9, <1>10, <1>11, <1>12, <1>13, <1>14,
           <1>15 DEF MoveStep

\* What is left of the match by a step of nobody's move.
LEMMA ExclusiveElse ==
    ASSUME Exclusive, UNCHANGED <<session, placed, owner, mine, lines, pc>>
    PROVE  Exclusive'
BY DEF Exclusive

\* Responsers that run, each of them once, count down what is owed and tell
\* the users of the connections they answer.
LEMMA AnswerStep ==
    ASSUME TypeOK, NEW result, NEW asked, Answer(result, asked),
           \A a, b \in result.answers : a.conn = b.conn => a = b,
           \A a \in result.answers :
              a.conn \in Conns /\ a.status \in {"ok", "poll_closed", "not_relevant"}
    PROVE  /\ notifier' = result.n
           /\ owed' \in [Conns -> Int]
           /\ \A c \in Conns :
                 owed'[c] = owed[c] + (IF c \in asked THEN 1 ELSE 0)
                              - (IF \E a \in result.answers : a.conn = c THEN 1 ELSE 0)
           /\ seen' \in [Users -> Nat] /\ \A u \in Users : seen'[u] \in {seen[u], version}
           /\ \A a \in result.answers : a.status = "ok" => seen'[UserOf[a.conn]] = version
           /\ \A u \in Users \ {P1, P2} :
                 notifier.responser[u] = Absent /\ result.n.responser[u] # Absent
                    => seen'[u] = version
           /\ sent' \subseteq [conn : Conns,
                               status : {"ok", "poll_closed", "finished", "wrong_session"}]
           /\ \A b \in sent' : \E a \in result.answers :
                 a.conn = b.conn /\ (a.status = b.status \/ a.status = "not_relevant")
<1>1. ASSUME NEW c \in Conns
      PROVE  owed'[c] = owed[c] + (IF c \in asked THEN 1 ELSE 0)
                          - (IF \E a \in result.answers : a.conn = c THEN 1 ELSE 0)
  <2>1. AnsweredOn(c, result.answers) = IF \E a \in result.answers : a.conn = c THEN 1 ELSE 0
    BY AnsweredOnCounts
  <2> QED BY <2>1 DEF Answer
<1>2. owed' \in [Conns -> Int]
  <2>1. \A c \in Conns : owed'[c] \in Int
    BY <1>1 DEF TypeOK
  <2> QED BY <2>1 DEF Answer
<1>3. notifier' = result.n /\ sent' = {Reply(a) : a \in result.answers}
  BY DEF Answer
<1>4. /\ seen' \in [Users -> Nat] /\ \A u \in Users : seen'[u] \in {seen[u], version}
      /\ \A a \in result.answers : a.status = "ok" => seen'[UserOf[a.conn]] = version
      /\ \A u \in Users \ {P1, P2} :
            notifier.responser[u] = Absent /\ result.n.responser[u] # Absent
               => seen'[u] = version
  BY UserOfAssumption DEF Answer, TypeOK
<1>5. \A b \in sent' : \E a \in result.answers : b = Reply(a)
  BY <1>3
<1>6. \A a \in result.answers :
         /\ Reply(a).conn = a.conn /\ Reply(a).status \in {"ok", "poll_closed", "finished", "wrong_session"}
         /\ Reply(a).status = a.status \/ a.status = "not_relevant"
         /\ Reply(a) \in [conn : Conns, status : {"ok", "poll_closed", "finished", "wrong_session"}]
  BY DEF Reply, GetPublicLine
<1> QED BY <1>1, <1>2, <1>3, <1>4, <1>5, <1>6

\* The notifier's Notify in a move.
LEMMA NotifyStep ==
    ASSUME TypeOK, Kept, NEW m \in Movers, NotifyMove(m)
    PROVE  LET n == notifier
               n1 == notifier'
           IN  /\ n1 \in NotifierData /\ n1.known = n.known /\ n1.closing = n.closing
               /\ ~n.known => n1 = n
               /\ n.known => /\ Polling(n1) = {} /\ Subscribed(n1) = Subscribed(n)
                             /\ n1.waiting = n.waiting \cup (Subscribed(n) \ Polling(n))
                             /\ \A u \in Polling(n) : seen'[u] = version
               /\ owed' \in [Conns -> Int]
               /\ \A c \in Conns : owed'[c] = owed[c] - (IF n.responser[UserOf[c]] = c /\ n.known THEN 1 ELSE 0)
               /\ seen' \in [Users -> Nat] /\ \A u \in Users : seen'[u] \in {seen[u], version}
               /\ sent' \subseteq [conn : Conns,
                                   status : {"ok", "poll_closed", "finished", "wrong_session"}]
               /\ \A b \in sent' : b.status = "ok"
<1> DEFINE r == Notify(notifier)
<1>1. notifier \in NotifierData /\ Answer(r, {})
  BY DEF TypeOK, NotifierData, NotifyMove
<1>2. /\ r.n \in NotifierData /\ r.n.known = notifier.known /\ r.n.closing = notifier.closing
      /\ ~notifier.known => r.n = notifier /\ r.answers = {}
      /\ notifier.known => /\ r.answers = Answers(notifier, "ok") /\ Polling(r.n) = {}
                           /\ Subscribed(r.n) = Subscribed(notifier)
                           /\ r.n.waiting = notifier.waiting \cup (Subscribed(notifier) \ Polling(notifier))
  BY <1>1, NotifyFields
<1>3. /\ \A a, b \in Answers(notifier, "ok") : a.conn = b.conn => a = b
      /\ \A a \in Answers(notifier, "ok") :
            a.conn \in Conns /\ a.status = "ok" /\ UserOf[a.conn] \in Polling(notifier)
      /\ \A c \in Conns :
            (\E a \in Answers(notifier, "ok") : a.conn = c) <=> notifier.responser[UserOf[c]] = c
  BY <1>1, AnswersFields DEF Kept
<1> HIDE DEF r
<1>4. /\ notifier' = r.n
      /\ owed' \in [Conns -> Int]
      /\ \A c \in Conns :
            owed'[c] = owed[c] + (IF c \in {} THEN 1 ELSE 0)
                         - (IF \E a \in r.answers : a.conn = c THEN 1 ELSE 0)
      /\ seen' \in [Users -> Nat] /\ \A u \in Users : seen'[u] \in {seen[u], version}
      /\ \A a \in r.answers : a.status = "ok" => seen'[UserOf[a.conn]] = version
      /\ sent' \subseteq [conn : Conns,
                          status : {"ok", "poll_closed", "finished", "wrong_session"}]
      /\ \A b \in sent' : \E a \in r.answers :
            a.conn = b.conn /\ (a.status = b.status \/ a.status = "not_relevant")
  <2>1. /\ \A a, b \in r.answers : a.conn = b.conn => a = b
        /\ \A a \in r.answers :
              a.conn \in Conns /\ a.status \in {"ok", "poll_closed", "not_relevant"}
    BY <1>2, <1>3
  <2> QED BY <1>1, <2>1, AnswerStep
<1>5. ASSUME NEW c \in Conns
      PROVE  owed'[c] = owed[c] - (IF notifier.responser[UserOf[c]] = c /\ notifier.known THEN 1 ELSE 0)
  <2>1. (\E a \in r.answers : a.conn = c) <=> notifier.responser[UserOf[c]] = c /\ notifier.known
    BY <1>2, <1>3
  <2>2. owed[c] \in Int
    BY DEF TypeOK
  <2> QED BY <1>4, <2>1, <2>2
<1>6. \A b \in sent' : b.status = "ok"
  BY <1>2, <1>3, <1>4
<1>7. ASSUME notifier.known, NEW u \in Polling(notifier)
      PROVE  seen'[u] = version
  <2>1. notifier.responser[u] \in Conns /\ u \in Users
    BY DEF Polling
  <2>2. UserOf[notifier.responser[u]] = u
    BY <2>1 DEF Kept
  <2>3. PICK a \in r.answers : a.conn = notifier.responser[u]
    BY <1>2, <1>3, <1>7, <2>1, <2>2
  <2>4. a.status = "ok"
    BY <1>2, <1>3, <1>7
  <2> QED BY <1>4, <2>2, <2>3, <2>4
<1> QED BY <1>2, <1>4, <1>5, <1>6, <1>7

\* The notifier's Unsubscribe at the end of a match.
LEMMA UnsubscribeStep ==
    ASSUME TypeOK, Kept, NEW m \in Movers, UnsubscribeAll(m)
    PROVE  LET n == notifier
               n1 == notifier'
           IN  /\ n1 \in NotifierData /\ ~n1.known
               /\ ~n.known => n1 = n
               /\ n.known => /\ Polling(n1) = {} /\ Subscribed(n1) = {} /\ n1.waiting = {}
                             /\ n1.closing = n.closing \cup n.waiting
               /\ owed' \in [Conns -> Int]
               /\ \A c \in Conns : owed'[c] = owed[c] - (IF n.responser[UserOf[c]] = c /\ n.known THEN 1 ELSE 0)
               /\ seen' = seen
               /\ sent' \subseteq [conn : Conns,
                                   status : {"ok", "poll_closed", "finished", "wrong_session"}]
               /\ \A b \in sent' : UserOf[b.conn] \in Polling(n)
<1> DEFINE r == Unsubscribe(notifier)
<1>1. notifier \in NotifierData /\ Answer(r, {})
  BY DEF TypeOK, NotifierData, UnsubscribeAll
<1>2. /\ r.n \in NotifierData /\ ~r.n.known
      /\ ~notifier.known => r.n = notifier /\ r.answers = {}
      /\ notifier.known => /\ r.answers = Answers(notifier, "not_relevant")
                           /\ Subscribed(r.n) = {} /\ Polling(r.n) = {} /\ r.n.waiting = {}
                           /\ r.n.closing = notifier.closing \cup notifier.waiting
  BY <1>1, UnsubscribeFields
<1>3. /\ \A a, b \in Answers(notifier, "not_relevant") : a.conn = b.conn => a = b
      /\ \A a \in Answers(notifier, "not_relevant") :
            a.conn \in Conns /\ a.status = "not_relevant" /\ UserOf[a.conn] \in Polling(notifier)
      /\ \A c \in Conns :
            (\E a \in Answers(notifier, "not_relevant") : a.conn = c)
               <=> notifier.responser[UserOf[c]] = c
  BY <1>1, AnswersFields DEF Kept
<1>4. r.answers = {} \/ (notifier.known /\ r.answers = Answers(notifier, "not_relevant"))
  BY <1>2
<1>5. Subscribed(r.n) = {}
  BY <1>2 DEF Kept
<1> HIDE DEF r
<1>6. /\ notifier' = r.n
      /\ owed' \in [Conns -> Int]
      /\ \A c \in Conns :
            owed'[c] = owed[c] + (IF c \in {} THEN 1 ELSE 0)
                         - (IF \E a \in r.answers : a.conn = c THEN 1 ELSE 0)
      /\ sent' \subseteq [conn : Conns,
                          status : {"ok", "poll_closed", "finished", "wrong_session"}]
      /\ \A b \in sent' : \E a \in r.answers :
            a.conn = b.conn /\ (a.status = b.status \/ a.status = "not_relevant")
  <2>1. /\ \A a, b \in r.answers : a.conn = b.conn => a = b
        /\ \A a \in r.answers :
              a.conn \in Conns /\ a.status \in {"ok", "poll_closed", "not_relevant"}
    BY <1>3, <1>4
  <2> QED BY <1>1, <2>1, AnswerStep
<1>7. ASSUME NEW c \in Conns
      PROVE  owed'[c] = owed[c] - (IF notifier.responser[UserOf[c]] = c /\ notifier.known THEN 1 ELSE 0)
  <2>1. (\E a \in r.answers : a.conn = c) <=> notifier.responser[UserOf[c]] = c /\ notifier.known
    BY <1>2, <1>3
  <2>2. owed[c] \in Int
    BY DEF TypeOK
  <2> QED BY <1>6, <2>1, <2>2
<1>8. \A b \in sent' : UserOf[b.conn] \in Polling(notifier)
  BY <1>3, <1>4, <1>6
<1>9. seen' = seen
  <2>1. \A u \in Users : r.n.responser[u] = Absent
    BY <1>5 DEF Subscribed
  <2>2. \A a \in r.answers : a.status # "ok"
    BY <1>3, <1>4
  <2>3. \A u \in Users : ~(\/ \E a \in r.answers : a.status = "ok" /\ UserOf[a.conn] = u
                           \/ /\ notifier.responser[u] = Absent
                              /\ r.n.responser[u] # Absent
                              /\ u \notin {P1, P2})
    BY <2>1, <2>2
  <2>4. seen' = [u \in Users |-> seen[u]]
    BY <1>1, <2>3 DEF Answer
  <2> QED BY <2>4 DEF TypeOK
<1> QED BY <1>2, <1>6, <1>7, <1>8, <1>9

\* The four ways of a poll. Its user has still to be told the end of the match,
PollToldEnd(c) ==
    LET u == UserOf[c]
    IN  /\ u \in notifier.closing
        /\ notifier'.closing = notifier.closing \ {u} /\ notifier'.waiting = notifier.waiting
        /\ notifier'.responser = notifier.responser
        /\ owed'[c] = owed[c] /\ seen'[u] = version
        /\ \A b \in sent' : b.status = "ok"

\* there are no subscribers,
PollRefused(c) ==
    /\ ~notifier.known /\ UserOf[c] \notin notifier.closing /\ notifier' = notifier
    /\ owed'[c] = owed[c] + 1 /\ sent' = {}

\* its user has still to be told the last move,
PollTold(c) ==
    LET u == UserOf[c]
    IN  /\ notifier.known /\ u \in notifier.waiting \ notifier.closing
        /\ notifier'.closing = notifier.closing /\ notifier'.waiting = notifier.waiting \ {u}
        /\ Subscribed(notifier') = Subscribed(notifier) \cup {u}
        /\ Polling(notifier') = Polling(notifier)
        /\ \A v \in Users, d \in Conns : notifier'.responser[v] = d <=> notifier.responser[v] = d
        /\ owed'[c] = owed[c]
        /\ session => seen'[u] = version /\ \A b \in sent' : b.status = "ok"

\* or it is kept open and closes the user's poll before.
PollOpened(c) ==
    LET u == UserOf[c]
    IN  /\ notifier.known /\ u \notin notifier.waiting \cup notifier.closing
        /\ notifier'.closing = notifier.closing /\ notifier'.waiting = notifier.waiting
        /\ Subscribed(notifier') = Subscribed(notifier) \cup {u}
        /\ Polling(notifier') = Polling(notifier) \cup {u}
        /\ notifier'.responser[u] = c
        /\ \A v \in Users : v # u => notifier'.responser[v] = notifier.responser[v]
        /\ owed'[c] = owed[c] + 1 - (IF notifier.responser[u] = c THEN 1 ELSE 0)
        /\ \A b \in sent' : b.status = "poll_closed"

\* What a poll sends: an answer to itself, or the answer of the poll it closes.
LEMMA PollResult ==
    ASSUME NEW n \in NotifierData, NEW u \in Users, NEW c \in Conns, NEW events \in BOOLEAN
    PROVE  LET r == ChangePoll(n, u, c, events)
               closes == n.known /\ u \notin n.waiting \cup n.closing
           IN  /\ r.n \in NotifierData /\ r.n.known = n.known
               /\ r.found <=> n.known \/ u \in n.closing
               /\ \A a \in r.answers :
                     a.conn \in Conns /\ a.status \in {"ok", "poll_closed", "not_relevant"}
               /\ \A a, b \in r.answers : a.conn = b.conn => a = b
               /\ \A a \in r.answers : a.status = "poll_closed" \/ a.conn = c
               /\ \A d \in Conns \ {c} :
                     (\E a \in r.answers : a.conn = d) <=> closes /\ n.responser[u] = d
<1> DEFINE r == ChangePoll(n, u, c, events)
<1>1. CASE u \in n.closing
  <2>1. /\ r.found /\ r.n \in NotifierData /\ r.n.known = n.known
        /\ r.answers = {[conn |-> c, status |-> "ok"]}
    BY <1>1, ChangePollWithout
  <2> HIDE DEF r
  <2> QED BY <1>1, <2>1 DEF r
<1>2. CASE u \notin n.closing /\ ~n.known
  <2>1. ~r.found /\ r.n = n /\ r.answers = {}
    BY <1>2, ChangePollWithout
  <2> HIDE DEF r
  <2> QED BY <1>2, <2>1 DEF r
<1>3. CASE n.known /\ u \in n.waiting \ n.closing
  <2>1. /\ r.found /\ r.n \in NotifierData /\ r.n.known
        /\ r.answers = {[conn |-> c, status |-> IF events THEN "ok" ELSE "not_relevant"]}
    BY <1>3, ChangePollWaiting
  <2> HIDE DEF r
  <2> QED BY <1>3, <2>1 DEF r
<1>4. CASE n.known /\ u \notin n.waiting \cup n.closing
  <2>1. /\ r.found /\ r.n \in NotifierData /\ r.n.known
        /\ n.responser[u] \in Conns =>
              r.answers = {[conn |-> n.responser[u], status |-> "poll_closed"]}
        /\ n.responser[u] \notin Conns => r.answers = {}
    <3>1. n.known /\ u \notin n.waiting /\ u \notin n.closing
      BY <1>4
    <3> QED BY <3>1, ChangePollOpens
  <2> HIDE DEF r
  <2>2. CASE n.responser[u] \in Conns
    <3>1. r.answers = {[conn |-> n.responser[u], status |-> "poll_closed"]}
      BY <2>1, <2>2
    <3> QED BY <1>4, <2>1, <2>2, <3>1 DEF r
  <2>3. CASE n.responser[u] \notin Conns
    <3>1. r.answers = {}
      BY <2>1, <2>3
    <3> QED BY <1>4, <2>1, <2>3, <3>1 DEF r
  <2> QED BY <2>2, <2>3
<1> QED BY <1>1, <1>2, <1>3, <1>4

\* Nobody else's answer counts but that of the poll a poll closes.
LEMMA PollStep ==
    ASSUME TypeOK, NEW c \in Conns, Poll(c)
    PROVE  LET n == notifier
               u == UserOf[c]
               r == ChangePoll(notifier, UserOf[c], c, session)
           IN  /\ u \in Users /\ n \in NotifierData /\ notifier' = r.n /\ notifier' \in NotifierData
               /\ notifier'.known = n.known
               /\ owed' \in [Conns -> Int]
               /\ \A d \in Conns \ {c} :
                     owed'[d] = owed[d]
                        - (IF n.known /\ u \notin n.waiting \cup n.closing /\ n.responser[u] = d
                           THEN 1 ELSE 0)
               /\ owed'[c] = owed[c] + 1 - (IF \E a \in r.answers : a.conn = c THEN 1 ELSE 0)
               /\ seen' \in [Users -> Nat] /\ \A v \in Users : seen'[v] \in {seen[v], version}
               /\ \A a \in r.answers : a.status = "ok" => seen'[UserOf[a.conn]] = version
               /\ \A v \in Users \ {P1, P2} :
                     n.responser[v] = Absent /\ notifier'.responser[v] # Absent => seen'[v] = version
               /\ sent' \subseteq [conn : Conns,
                                   status : {"ok", "poll_closed", "finished", "wrong_session"}]
               /\ refused' = IF n.known \/ u \in n.closing THEN refused ELSE refused \cup {c}
               /\ \A b \in sent' : b.status = "poll_closed" \/ b.conn = c
               /\ \A b \in sent' : \E a \in r.answers :
                     a.conn = b.conn /\ (a.status = b.status \/ a.status = "not_relevant")
<1> DEFINE n == notifier
           u == UserOf[c]
           r == ChangePoll(notifier, UserOf[c], c, session)
<1>1. /\ n \in NotifierData /\ u \in Users /\ session \in BOOLEAN /\ Answer(r, {c})
      /\ refused' = IF r.found THEN refused ELSE refused \cup {c}
      /\ \A d \in Conns : owed[d] \in Int
  BY UserOfAssumption DEF TypeOK, NotifierData, Poll
<1>2. /\ r.n \in NotifierData /\ r.n.known = n.known
      /\ r.found <=> n.known \/ u \in n.closing
      /\ \A a \in r.answers :
            a.conn \in Conns /\ a.status \in {"ok", "poll_closed", "not_relevant"}
      /\ \A a, b \in r.answers : a.conn = b.conn => a = b
      /\ \A a \in r.answers : a.status = "poll_closed" \/ a.conn = c
      /\ \A d \in Conns \ {c} :
            (\E a \in r.answers : a.conn = d)
               <=> n.known /\ u \notin n.waiting \cup n.closing /\ n.responser[u] = d
  BY <1>1, PollResult
<1> HIDE DEF r
<1>3. /\ notifier' = r.n
      /\ owed' \in [Conns -> Int]
      /\ \A d \in Conns :
            owed'[d] = owed[d] + (IF d \in {c} THEN 1 ELSE 0)
                         - (IF \E a \in r.answers : a.conn = d THEN 1 ELSE 0)
      /\ seen' \in [Users -> Nat] /\ \A v \in Users : seen'[v] \in {seen[v], version}
      /\ \A a \in r.answers : a.status = "ok" => seen'[UserOf[a.conn]] = version
      /\ \A v \in Users \ {P1, P2} :
            notifier.responser[v] = Absent /\ r.n.responser[v] # Absent
               => seen'[v] = version
      /\ sent' \subseteq [conn : Conns,
                          status : {"ok", "poll_closed", "finished", "wrong_session"}]
      /\ \A b \in sent' : \E a \in r.answers :
            a.conn = b.conn /\ (a.status = b.status \/ a.status = "not_relevant")
  BY <1>1, <1>2, AnswerStep
<1>4. \A b \in sent' : b.status = "poll_closed" \/ b.conn = c
  BY <1>2, <1>3
<1>5. \A d \in Conns \ {c} :
         owed'[d] = owed[d]
            - (IF n.known /\ u \notin n.waiting \cup n.closing /\ n.responser[u] = d
               THEN 1 ELSE 0)
  BY <1>1, <1>2, <1>3
<1>6. owed'[c] = owed[c] + 1 - (IF \E a \in r.answers : a.conn = c THEN 1 ELSE 0)
  BY <1>3
<1>7. refused' = IF n.known \/ u \in n.closing THEN refused ELSE refused \cup {c}
  BY <1>1, <1>2
<1>8. /\ notifier' \in NotifierData /\ notifier'.known = n.known
      /\ \A v \in Users \ {P1, P2} :
            notifier.responser[v] = Absent /\ notifier'.responser[v] # Absent => seen'[v] = version
  BY <1>2, <1>3
<1>9. n \in NotifierData /\ u \in Users
  BY <1>1
<1> QED BY <1>3, <1>4, <1>5, <1>6, <1>7, <1>8, <1>9 DEF r

\* A poll takes one of the four ways.
LEMMA PollWays ==
    ASSUME TypeOK, NEW c \in Conns, Poll(c)
    PROVE  PollToldEnd(c) \/ PollRefused(c) \/ PollTold(c) \/ PollOpened(c)
<1> DEFINE n == notifier
           u == UserOf[c]
           r == ChangePoll(notifier, UserOf[c], c, session)
<1>1. /\ n \in NotifierData /\ u \in Users /\ session \in BOOLEAN /\ owed[c] \in Int
      /\ notifier' = r.n
      /\ owed'[c] = owed[c] + 1 - (IF \E a \in r.answers : a.conn = c THEN 1 ELSE 0)
      /\ \A a \in r.answers : a.status = "ok" => seen'[UserOf[a.conn]] = version
      /\ \A b \in sent' : \E a \in r.answers :
            a.conn = b.conn /\ (a.status = b.status \/ a.status = "not_relevant")
  BY PollStep DEF TypeOK
<1>2. CASE u \in n.closing
  <2>1. /\ r.answers = {[conn |-> c, status |-> "ok"]}
        /\ r.n.responser = n.responser /\ r.n.waiting = n.waiting /\ r.n.closing = n.closing \ {u}
    BY <1>1, <1>2, ChangePollWithout
  <2> HIDE DEF r
  <2> QED BY <1>1, <1>2, <2>1 DEF PollToldEnd
<1>3. CASE u \notin n.closing /\ ~n.known
  <2>1. r.n = n /\ r.answers = {}
    BY <1>1, <1>3, ChangePollWithout
  <2> HIDE DEF r
  <2> QED BY <1>1, <1>3, <2>1 DEF PollRefused
<1>4. CASE n.known /\ u \in n.waiting \ n.closing
  <2>1. /\ r.answers = {[conn |-> c, status |-> IF session THEN "ok" ELSE "not_relevant"]}
        /\ r.n.waiting = n.waiting \ {u} /\ r.n.closing = n.closing
        /\ Subscribed(r.n) = Subscribed(n) \cup {u} /\ Polling(r.n) = Polling(n)
        /\ \A v \in Users, d \in Conns : r.n.responser[v] = d <=> n.responser[v] = d
    <3>1. n \in NotifierData /\ u \in Users /\ session \in BOOLEAN
      BY <1>1
    <3> QED BY <1>4, <3>1, ChangePollWaiting
  <2> HIDE DEF r
  <2>2. owed'[c] = owed[c]
    BY <1>1, <2>1
  <2>3. session => seen'[u] = version /\ \A b \in sent' : b.status = "ok"
    BY <1>1, <2>1
  <2> QED BY <1>1, <1>4, <2>1, <2>2, <2>3 DEF PollTold
<1>5. CASE n.known /\ u \notin n.waiting \cup n.closing
  <2>1. /\ n.responser[u] \in Conns =>
              r.answers = {[conn |-> n.responser[u], status |-> "poll_closed"]}
        /\ n.responser[u] \notin Conns => r.answers = {}
        /\ r.n.waiting = n.waiting /\ r.n.closing = n.closing
        /\ Subscribed(r.n) = Subscribed(n) \cup {u} /\ Polling(r.n) = Polling(n) \cup {u}
        /\ r.n.responser[u] = c
        /\ \A v \in Users : v # u => r.n.responser[v] = n.responser[v]
    <3>1. n.known /\ u \notin n.waiting /\ u \notin n.closing
      BY <1>5
    <3>2. n \in NotifierData /\ u \in Users /\ session \in BOOLEAN
      BY <1>1
    <3> QED BY <3>1, <3>2, ChangePollOpens
  <2> HIDE DEF r
  <2>2. (\E a \in r.answers : a.conn = c) <=> n.responser[u] = c
    <3>1. CASE n.responser[u] \in Conns
      <4>1. PICK a \in r.answers : a.conn = n.responser[u] /\ r.answers = {a}
        BY <2>1, <3>1
      <4> QED BY <4>1
    <3>2. CASE n.responser[u] \notin Conns
      BY <2>1, <3>2
    <3> QED BY <3>1, <3>2
  <2>3. \A a \in r.answers : a.status = "poll_closed"
    <3>1. CASE n.responser[u] \in Conns
      BY <2>1, <3>1
    <3>2. CASE n.responser[u] \notin Conns
      BY <2>1, <3>2
    <3> QED BY <3>1, <3>2
  <2>4. \A b \in sent' : b.status = "poll_closed"
    BY <1>1, <2>3
  <2>5. owed'[c] = owed[c] + 1 - (IF n.responser[u] = c THEN 1 ELSE 0)
    BY <1>1, <2>2
  <2>6. notifier' = r.n
    BY <1>1
  <2>7. /\ notifier.known /\ u \notin notifier.waiting \cup notifier.closing
    BY <1>5
  <2>8. /\ notifier'.closing = notifier.closing /\ notifier'.waiting = notifier.waiting
        /\ Subscribed(notifier') = Subscribed(notifier) \cup {u}
    BY <2>1, <2>6
  <2>9. Polling(notifier') = Polling(notifier) \cup {u}
    BY <2>1, <2>6
  <2>10. notifier'.responser[u] = c
    BY <2>1, <2>6
  <2>11. \A v \in Users : v # u => notifier'.responser[v] = notifier.responser[v]
    BY <2>1, <2>6
  <2> QED BY <2>4, <2>5, <2>7, <2>8, <2>9, <2>10, <2>11, Zenon DEF PollOpened
<1> QED BY <1>2, <1>3, <1>4, <1>5

\* A user's poll is open or the user is told by what a mover's other steps do:
\* nothing. Only the end of the match ends it, and a version is news.
Quiet(m) == \/ StartMove(m) \/ Contains(m) \/ At(m) \/ FindMutex(m) \/ Lock(m) \/ Move(m)
            \/ GetResults(m) \/ Record(m) \/ Erase(m) \/ UnlockEarly(m) \/ DestroyMutex(m)
            \/ ReleaseDestroyed(m) \/ DefineMove(m)

\* A mover's steps but those that tell the subscribers leave these alone.
LEMMA QuietStep ==
    ASSUME TypeOK, Exclusive, Counted, NEW m \in Movers, Quiet(m)
    PROVE  /\ TypeOK' /\ Counted'
           /\ UNCHANGED <<pollVars, creator>>
           /\ Ended' <=> Ended
           /\ \/ /\ version' = version
                 /\ (\A o \in Movers : pc'[o] # "notify") => \A o \in Movers : pc[o] # "notify"
              \/ ~Ended /\ pc'[m] = "notify"
<1> USE NoMoverAssumption, MaxVersionAssumption
    DEF TypeOK, Exclusive, Counted, Ended, Locked, Entering, Leaving, Ending, Mutexes, PC, Goto, Unlock,
        gmVars, mutexVars, pollVars
<1>1. CASE StartMove(m)
  BY <1>1 DEF StartMove
<1>2. CASE Contains(m)
  BY <1>2 DEF Contains
<1>3. CASE At(m)
  BY <1>3 DEF At
<1>4. CASE Lock(m)
  BY <1>4 DEF Lock
<1>5. CASE Move(m)
  <2>0. pc[m] = "move" /\ UNCHANGED <<session, lines, row, creator, pollVars>> /\ sent' = {}
    BY <1>5 DEF Move
  <2>1. CASE Goto(m, "move", "move") /\ crashed' = TRUE /\ UNCHANGED <<version, over, mutexVars>>
    BY <2>0, <2>1
  <2>2. CASE Unlock(m, "move") /\ UNCHANGED <<version, over, crashed>>
    BY <2>0, <2>2
  <2>3. CASE /\ session
             /\ version < MaxVersion
             /\ Goto(m, "move", "notify")
             /\ version' = version + 1
             /\ over' \in {over, TRUE}
             /\ UNCHANGED <<mutexVars, crashed>>
    <3>1. pc' = [pc EXCEPT ![m] = "notify"] /\ pc'[m] = "notify"
      BY <2>3
    <3>2. ~Ended /\ ~Ended'
      BY <2>0, <2>3, <3>1
    <3>3. TypeOK'
      <4>1. version' \in 0..MaxVersion
        BY <2>3
      <4>0. over' \in BOOLEAN
        BY <2>3, Zenon
      <4>2. pc' \in [Movers -> PC]
        BY <3>1
      <4> QED BY <2>0, <2>3, <4>0, <4>1, <4>2
    <3>4. Counted'
      BY <2>0, <2>3, <3>1
    <3> QED BY <2>0, <3>1, <3>2, <3>3, <3>4
  <2> QED BY <1>5, <2>1, <2>2, <2>3 DEF Move
<1>6. CASE GetResults(m)
  BY <1>6 DEF GetResults
<1>7. CASE Record(m)
  <2>0. pc[m] = "record" /\ UNCHANGED <<creator, session, version, over, pollVars, crashed>> /\ sent' = {}
    BY <1>7 DEF Record
  <2>1. CASE Unlock(m, "record") /\ UNCHANGED <<lines, row>>
    BY <2>0, <2>1
  <2>2. CASE Goto(m, "record", "unsubscribe") /\ AddLine /\ UNCHANGED mutexVars
    <3>1. pc' = [pc EXCEPT ![m] = "unsubscribe"] /\ version # 0
      BY <2>0, <2>2
    <3>2. lines' \in Nat /\ row' \in BOOLEAN
      <4>1. lines' \in Nat
        BY <2>2 DEF AddLine
      <4>2. row' \in BOOLEAN
        BY <2>2, Zenon DEF AddLine
      <4> QED BY <4>1, <4>2
    <3>3. TypeOK'
      BY <2>0, <2>2, <3>1, <3>2
    <3>4. Counted'
      BY <2>0, <3>1
    <3>5. Ended' <=> Ended
      BY <2>0, <3>1
    <3> QED BY <2>0, <3>1, <3>3, <3>4, <3>5
  <2> QED BY <1>7, <2>1, <2>2 DEF Record
<1>8. CASE Erase(m)
  BY <1>8 DEF Erase
<1>9. CASE FindMutex(m)
  BY <1>9 DEF FindMutex
<1>10. CASE UnlockEarly(m)
  BY <1>10 DEF UnlockEarly
<1>11. CASE DestroyMutex(m)
  BY <1>11 DEF DestroyMutex
<1>12. CASE ReleaseDestroyed(m)
  BY <1>12 DEF ReleaseDestroyed
<1>13. CASE DefineMove(m)
  BY <1>13 DEF DefineMove
<1> QED BY <1>1, <1>2, <1>3, <1>4, <1>5, <1>6, <1>7, <1>8, <1>9, <1>10, <1>11, <1>12, <1>13 DEF Quiet

\* The invariant survives a mover's steps that tell the subscribers nothing: a
\* move is accepted only before the end, and its Notify is still to come.
LEMMA QuietKeeps ==
    ASSUME MatchInv, NEW m \in Movers, Quiet(m)
    PROVE  MatchInv'
<1>1. /\ TypeOK' /\ Counted'
      /\ UNCHANGED <<notifier, owed, refused, seen, since, creator>>
      /\ Ended' <=> Ended
      /\ \/ /\ version' = version
            /\ (\A o \in Movers : pc'[o] # "notify") => \A o \in Movers : pc[o] # "notify"
         \/ ~Ended /\ pc'[m] = "notify"
  BY QuietStep DEF MatchInv, pollVars
<1>2. Exclusive'
  BY ExclusiveStep DEF MatchInv, Quiet, MoveStep
<1>3. Kept'
  BY <1>1 DEF MatchInv, Kept, Subscribed, Polling
<1>4. AnsweredOnce'
  BY <1>1 DEF MatchInv, AnsweredOnce
<1>5. Informed'
  <2>1. CASE /\ version' = version
             /\ (\A o \in Movers : pc'[o] # "notify") => \A o \in Movers : pc[o] # "notify"
    BY <1>1, <2>1 DEF MatchInv, Informed, Subscribed
  <2>2. CASE ~Ended /\ pc'[m] = "notify"
    BY <1>1, <2>2 DEF MatchInv, Informed
  <2> QED BY <1>1, <2>1, <2>2
<1> QED BY <1>1, <1>2, <1>3, <1>4, <1>5 DEF MatchInv

\* Notify tells those who poll, and the others later; the match is not over,
\* for the mover has its mutex.
LEMMA NotifyKeeps ==
    ASSUME MatchInv, NEW m \in Movers, NotifyMove(m)
    PROVE  MatchInv'
<1> DEFINE n == notifier
           n1 == notifier'
<1> USE DEF MatchInv
<1>1. /\ n1 \in NotifierData /\ n1.known = n.known /\ n1.closing = n.closing
      /\ ~n.known => n1 = n
      /\ n.known => /\ Polling(n1) = {} /\ Subscribed(n1) = Subscribed(n)
                    /\ n1.waiting = n.waiting \cup (Subscribed(n) \ Polling(n))
                    /\ \A u \in Polling(n) : seen'[u] = version
      /\ owed' \in [Conns -> Int]
      /\ \A c \in Conns : owed'[c] = owed[c] - (IF n.responser[UserOf[c]] = c /\ n.known THEN 1 ELSE 0)
      /\ seen' \in [Users -> Nat] /\ \A u \in Users : seen'[u] \in {seen[u], version}
      /\ sent' \subseteq [conn : Conns,
                          status : {"ok", "poll_closed", "finished", "wrong_session"}]
  BY NotifyStep
<1>2. /\ pc[m] = "notify" /\ pc' = [pc EXCEPT ![m] = "results"]
      /\ UNCHANGED <<gmVars, refused, since, crashed>>
  BY DEF NotifyMove
<1>3. Exclusive' /\ pc[m] \in Locked \ {"move", "unlock"}
  BY <1>2, ExclusiveStep DEF MoveStep, Locked
<1>4. ~Ended /\ ~Ended'
  BY <1>2, <1>3 DEF Ended, Exclusive, TypeOK, Locked, gmVars
<1>5. TypeOK'
  BY <1>1, <1>2 DEF TypeOK, NotifierData, gmVars, mutexVars, PC, Locked
<1>6. Counted'
  BY <1>1, <1>2, <1>3 DEF Counted, TypeOK, gmVars, Locked
<1> HIDE DEF n, n1
<1>7. \A u \in Users : n1.responser[u] \notin Conns
  BY <1>1, ConnsAssumption DEF Polling, Subscribed, Kept, n, n1
<1>8. Polling(n1) = {}
  BY <1>7 DEF Polling
<1>9. AnsweredOnce'
  <2>1. ASSUME NEW c \in Conns
        PROVE  /\ owed'[c] \in {0, 1} /\ (owed'[c] = 1 <=> c \in refused)
               /\ n1.responser[UserOf[c]] # c
    <3>1. n.responser[UserOf[c]] = c => n.known
      BY UserOfAssumption, ConnsAssumption DEF Kept, n, Subscribed
    <3>2. /\ owed[c] \in {0, 1}
          /\ owed[c] = 1 <=> c \in refused \/ n.responser[UserOf[c]] = c
          /\ ~(c \in refused /\ n.responser[UserOf[c]] = c)
      BY DEF AnsweredOnce, n
    <3> QED BY <1>1, <1>7, <3>1, <3>2, UserOfAssumption
  <2> QED BY <1>2, <2>1 DEF AnsweredOnce, n1
<1>10. Kept'
  <2>1. n.closing = {}
    BY <1>4 DEF Kept, n
  <2> QED BY <1>1, <1>2, <1>7, <1>8, <2>1 DEF Kept, gmVars, n, n1
<1>11. Informed'
  <2>1. ASSUME since = 0 PROVE n1.known
    BY <1>1, <1>4, <2>1 DEF Informed, n
  <2>2. ASSUME since = 0, NEW u \in Subscribed(n1) PROVE u \in n1.waiting \/ seen'[u] = version
    BY <1>1, <2>1, <2>2
  <2> QED BY <1>2, <1>4, <2>1, <2>2 DEF Informed, n1, gmVars
<1> QED BY <1>3, <1>5, <1>6, <1>9, <1>10, <1>11

\* Unsubscribe keeps in closing whom the last move has not been told yet.
LEMMA EndKeeps ==
    ASSUME MatchInv, NEW m \in Movers, UnsubscribeAll(m)
    PROVE  MatchInv'
<1> DEFINE n == notifier
           n1 == notifier'
<1> USE DEF MatchInv
<1>1. /\ n1 \in NotifierData /\ ~n1.known
      /\ ~n.known => n1 = n
      /\ n.known => /\ Polling(n1) = {} /\ Subscribed(n1) = {} /\ n1.waiting = {}
                    /\ n1.closing = n.closing \cup n.waiting
      /\ owed' \in [Conns -> Int]
      /\ \A c \in Conns : owed'[c] = owed[c] - (IF n.responser[UserOf[c]] = c /\ n.known THEN 1 ELSE 0)
      /\ seen' = seen
      /\ sent' \subseteq [conn : Conns,
                          status : {"ok", "poll_closed", "finished", "wrong_session"}]
  BY UnsubscribeStep
<1>2. /\ pc[m] = "unsubscribe" /\ pc' = [pc EXCEPT ![m] = "erase"]
      /\ UNCHANGED <<gmVars, refused, since, crashed>>
  BY DEF UnsubscribeAll
<1>3. Exclusive' /\ pc[m] \in Locked \ {"move", "unlock"}
  BY <1>2, ExclusiveStep DEF MoveStep, Locked
<1>4. ~Ended /\ Ended' /\ \A o \in Movers : pc[o] # "notify"
  BY <1>2, <1>3 DEF Ended, Exclusive, TypeOK, Locked, gmVars
<1>5. TypeOK'
  BY <1>1, <1>2 DEF TypeOK, NotifierData, gmVars, mutexVars, PC, Locked
<1>6. Counted'
  BY <1>1, <1>2, <1>3 DEF Counted, TypeOK, gmVars, Locked
<1> HIDE DEF n, n1
<1>7. Subscribed(n1) = {} /\ n1.waiting = {}
  BY <1>1 DEF Kept, n
<1>8. \A u \in Users : n1.responser[u] = Absent
  BY <1>7 DEF Subscribed
<1>9. Polling(n1) = {}
  BY <1>8, ConnsAssumption DEF Polling
<1>10. AnsweredOnce'
  <2>1. ASSUME NEW c \in Conns
        PROVE  /\ owed'[c] \in {0, 1} /\ (owed'[c] = 1 <=> c \in refused)
               /\ n1.responser[UserOf[c]] # c
    <3>1. n.responser[UserOf[c]] = c => n.known
      BY UserOfAssumption, ConnsAssumption DEF Kept, n, Subscribed
    <3>2. /\ owed[c] \in {0, 1}
          /\ owed[c] = 1 <=> c \in refused \/ n.responser[UserOf[c]] = c
          /\ ~(c \in refused /\ n.responser[UserOf[c]] = c)
      BY DEF AnsweredOnce, n
    <3> QED BY <1>1, <1>8, <3>1, <3>2, UserOfAssumption, ConnsAssumption
  <2> QED BY <1>2, <2>1 DEF AnsweredOnce, n1
<1>11. Kept'
  BY <1>1, <1>2, <1>4, <1>7, <1>8, <1>9, ConnsAssumption DEF Kept, gmVars, n1
<1>12. Informed'
  <2>1. ASSUME since = 0, NEW u \in {P1, P2} \ n1.closing PROVE seen'[u] = version
    <3>1. n.known
      BY <1>4, <2>1 DEF Informed, n
    <3>2. u \in Subscribed(n) /\ u \notin n.waiting
      BY <1>1, <2>1, <3>1 DEF Kept, n
    <3> QED BY <1>1, <1>4, <2>1, <3>1, <3>2 DEF Informed, n
  <2> QED BY <1>1, <1>2, <1>4, <2>1 DEF Informed, n1, gmVars
<1> QED BY <1>3, <1>5, <1>6, <1>10, <1>11, <1>12

\* CreateSession subscribes the players once. When no move has been accepted by
\* then, none is told late.
LEMMA CreateKeeps ==
    ASSUME MatchInv, Create
    PROVE  MatchInv'
<1> USE DEF MatchInv
<1>1. CASE creator \in {"notify1", "notify2"} /\ NotifyQueue
  <2>1. /\ creator' \in {"notify2", "created"}
        /\ UNCHANGED <<session, version, over, placed, owner, mine, lines, row, pc, notifier, owed,
                       refused, seen, since, crashed>>
        /\ sent' = {}
    BY <1>1 DEF NotifyQueue, mutexVars, pollVars
  <2>2. Ended' <=> Ended
    BY <2>1 DEF Ended
  <2>3. TypeOK'
    BY <2>1 DEF TypeOK
  <2>4. Exclusive' /\ Counted' /\ AnsweredOnce'
    BY <2>1, ExclusiveElse DEF Counted, AnsweredOnce
  <2>5. Kept'
    BY <1>1, <2>1, <2>2 DEF Kept, Subscribed, Polling
  <2>6. Informed'
    BY <2>1, <2>2 DEF Informed, Subscribed
  <2> QED BY <2>3, <2>4, <2>5, <2>6
<1>2. CASE CreateSubscribers
  <2> DEFINE n == notifier
             n1 == notifier'
  <2>1. /\ creator = "created" /\ creator' = "done" /\ since' = version /\ sent' = {}
        /\ n1 = SessionCreated(n, P1, P2)
        /\ UNCHANGED <<session, version, over, placed, owner, mine, lines, row, pc, owed, refused,
                       seen, crashed>>
    BY <1>2 DEF CreateSubscribers, mutexVars
  <2>2. n \in NotifierData
    BY DEF TypeOK, NotifierData
  <2>3. /\ n1 \in NotifierData /\ n1.known /\ n1.waiting = n.waiting /\ n1.closing = n.closing
        /\ Subscribed(n1) = Subscribed(n) \cup {P1, P2} /\ Polling(n1) = Polling(n)
        /\ \A v \in Users, c \in Conns : n1.responser[v] = c <=> n.responser[v] = c
    BY <2>1, <2>2, SessionCreatedFields
  <2>4. Ended' <=> Ended
    BY <2>1 DEF Ended
  <2>5. since = -1 /\ ~n.known /\ Subscribed(n) = {} /\ n.waiting = {}
    BY <2>1 DEF Kept
  <2> HIDE DEF n, n1
  <2>6. TypeOK'
    BY <2>1, <2>3 DEF TypeOK, NotifierData, n1
  <2>7. Exclusive' /\ Counted'
    BY <2>1, ExclusiveElse DEF Counted
  <2>8. AnsweredOnce'
    BY <2>1, <2>3, UserOfAssumption DEF AnsweredOnce, n, n1
  <2>9. Kept'
    <3>1. since' # -1
      BY <2>1 DEF TypeOK
    <3> QED BY <2>1, <2>3, <2>4, <2>5, <3>1 DEF Kept, n, n1
  <2>10. Informed'
    <3> SUFFICES ASSUME since' = 0 PROVE ~Ended' /\ \A u \in Subscribed(n1) : seen'[u] = version'
      BY <2>3, <2>4 DEF Informed, n1
    <3>1. version = 0
      BY <2>1
    <3>2. ~Ended
      BY <3>1 DEF Ended, Counted, Locked
    <3>3. \A u \in Users : seen[u] = 0
      BY <3>1 DEF Counted, TypeOK
    <3> QED BY <2>1, <2>4, <3>1, <3>2, <3>3 DEF Subscribed
  <2> QED BY <2>6, <2>7, <2>8, <2>9, <2>10
<1> QED BY <1>1, <1>2 DEF Create

\* A refused poll gets the answer it is owed.
LEMMA DefinePollKeeps ==
    ASSUME MatchInv, NEW c \in Conns, DefinePoll(c)
    PROVE  MatchInv'
<1> USE DEF MatchInv
<1>1. /\ c \in refused /\ refused' = refused \ {c}
      /\ owed' = [owed EXCEPT ![c] = @ - 1]
      /\ sent' = {[conn |-> c, status |-> GetPublicLine]}
      /\ UNCHANGED <<creator, session, version, over, placed, owner, mine, lines, row, pc, notifier,
                     seen, since, crashed>>
  BY DEF DefinePoll, gmVars, mutexVars
<1>2. Ended' <=> Ended
  BY <1>1 DEF Ended
<1>3. TypeOK'
  <2>1. sent' \subseteq [conn : Conns, status : {"ok", "poll_closed", "finished", "wrong_session"}]
    BY <1>1 DEF GetPublicLine
  <2>2. owed' \in [Conns -> Int] /\ refused' \subseteq Conns
    BY <1>1 DEF TypeOK
  <2> QED BY <1>1, <2>1, <2>2 DEF TypeOK
<1>4. Exclusive' /\ Counted'
  BY <1>1, ExclusiveElse DEF Counted
<1>5. AnsweredOnce'
  <2>1. /\ owed[c] = 1 /\ notifier.responser[UserOf[c]] # c /\ owed'[c] = 0
        /\ \A d \in Conns \ {c} : owed'[d] = owed[d]
    BY <1>1 DEF AnsweredOnce, TypeOK
  <2> QED BY <1>1, <2>1 DEF AnsweredOnce
<1>6. Kept'
  BY <1>1, <1>2 DEF Kept, Subscribed, Polling
<1>7. Informed'
  BY <1>1, <1>2 DEF Informed, Subscribed
<1> QED BY <1>3, <1>4, <1>5, <1>6, <1>7

\* A poll is answered or owed one answer, and is told what it has not been told.
LEMMA PollKeeps ==
    ASSUME MatchInv, NEW c \in Conns, Poll(c)
    PROVE  MatchInv'
<1> DEFINE n == notifier
           n1 == notifier'
           u == UserOf[c]
<1> USE DEF MatchInv
<1>1. /\ u \in Users /\ n \in NotifierData /\ n1 \in NotifierData /\ n1.known = n.known
      /\ owed' \in [Conns -> Int]
      /\ \A d \in Conns \ {c} :
            owed'[d] = owed[d]
               - (IF n.known /\ u \notin n.waiting \cup n.closing /\ n.responser[u] = d
                  THEN 1 ELSE 0)
      /\ seen' \in [Users -> Nat] /\ \A v \in Users : seen'[v] \in {seen[v], version}
      /\ \A v \in Users \ {P1, P2} :
            n.responser[v] = Absent /\ n1.responser[v] # Absent => seen'[v] = version
      /\ sent' \subseteq [conn : Conns,
                          status : {"ok", "poll_closed", "finished", "wrong_session"}]
      /\ refused' = IF n.known \/ u \in n.closing THEN refused ELSE refused \cup {c}
  BY PollStep
<1>2. PollToldEnd(c) \/ PollRefused(c) \/ PollTold(c) \/ PollOpened(c)
  BY PollWays
<1>3. owed[c] = 0 /\ UNCHANGED <<creator, session, version, over, placed, owner, mine, lines, row, pc,
                                    since, crashed>>
  BY DEF Poll, gmVars, mutexVars
<1>4. Ended' <=> Ended
  BY <1>3 DEF Ended
<1>5. TypeOK'
  <2>1. refused' \subseteq Conns
    BY <1>1 DEF TypeOK
  <2> QED BY <1>1, <1>3, <2>1 DEF TypeOK, NotifierData
<1>6. Exclusive'
  BY <1>3, ExclusiveElse
<1>7. Counted'
  BY <1>1, <1>3 DEF Counted, TypeOK
<1>8. c \notin refused /\ n.responser[u] # c
  BY <1>3 DEF AnsweredOnce
<1> HIDE DEF n, n1
<1>9. AnsweredOnce'
  <2>1. CASE PollToldEnd(c) \/ PollTold(c)
    BY <1>1, <2>1, UserOfAssumption DEF PollToldEnd, PollTold, AnsweredOnce, n, n1
  <2>2. CASE PollRefused(c)
    <3>1. n.responser[u] = Absent
      BY <1>1, <2>2 DEF PollRefused, Kept, Subscribed, n
    <3> QED BY <1>1, <1>3, <1>8, <2>2, <3>1 DEF PollRefused, AnsweredOnce, n, n1
  <2>3. CASE PollOpened(c)
    <3>1. /\ refused' = refused /\ owed'[c] = 1 /\ n1.responser[u] = c
          /\ \A d \in Conns \ {c} : owed'[d] = owed[d] - (IF n.responser[u] = d THEN 1 ELSE 0)
          /\ \A v \in Users : v # u => n1.responser[v] = n.responser[v]
      BY <1>1, <1>3, <1>8, <2>3 DEF PollOpened, n, n1
    <3>2. ASSUME NEW d \in Conns \ {c}
          PROVE  /\ owed'[d] \in {0, 1}
                 /\ owed'[d] = 1 <=> d \in refused \/ n1.responser[UserOf[d]] = d
                 /\ ~(d \in refused /\ n1.responser[UserOf[d]] = d)
      <4>1. /\ owed[d] \in {0, 1}
            /\ owed[d] = 1 <=> d \in refused \/ n.responser[UserOf[d]] = d
            /\ ~(d \in refused /\ n.responser[UserOf[d]] = d)
        BY DEF AnsweredOnce, n
      <4>2. n.responser[u] = d => UserOf[d] = u
        BY <1>1 DEF Kept, n
      <4>3. UserOf[d] \in Users
        BY UserOfAssumption
      <4> QED BY <3>1, <4>1, <4>2, <4>3
    <3> QED BY <1>8, <3>1, <3>2 DEF AnsweredOnce, n1
  <2> QED BY <1>2, <2>1, <2>2, <2>3
<1>10. Kept'
  <2>1. CASE PollToldEnd(c)
    BY <1>1, <1>3, <1>4, <2>1 DEF PollToldEnd, Kept, Subscribed, Polling, n, n1
  <2>2. CASE PollRefused(c)
    BY <1>3, <1>4, <2>2 DEF PollRefused, Kept, Subscribed, Polling
  <2>3. CASE PollTold(c)
    BY <1>1, <1>3, <1>4, <2>3 DEF PollTold, Kept, n, n1
  <2>4. CASE PollOpened(c)
    BY <1>1, <1>3, <1>4, <2>4 DEF PollOpened, Kept, n, n1
  <2> QED BY <1>2, <2>1, <2>2, <2>3, <2>4
<1>11. Informed'
  <2> SUFFICES ASSUME since = 0
               PROVE  /\ n1.known <=> ~Ended
                      /\ n1.known /\ (\A m \in Movers : pc[m] # "notify") =>
                            \A v \in Subscribed(n1) : v \in n1.waiting \/ seen'[v] = version
                      /\ ~n1.known => \A v \in {P1, P2} \ n1.closing : seen'[v] = version
    BY <1>3, <1>4 DEF Informed, n1
  <2>1. /\ n.known <=> ~Ended
        /\ n.known /\ (\A m \in Movers : pc[m] # "notify") =>
              \A v \in Subscribed(n) : v \in n.waiting \/ seen[v] = version
        /\ ~n.known => \A v \in {P1, P2} \ n.closing : seen[v] = version
    BY DEF Informed, n
  <2>2. P1 \in Users /\ P2 \in Users
    BY PlayersAssumption
  <2>3. \A v \in Users : seen[v] = version => seen'[v] = version
    BY <1>1
  <2>4. CASE PollToldEnd(c)
    <3>1. ~n.known
      BY <2>1, <2>4 DEF PollToldEnd, Kept, n
    <3> QED BY <1>1, <2>1, <2>2, <2>3, <2>4, <3>1 DEF PollToldEnd, n, n1
  <2>5. CASE PollRefused(c)
    BY <1>1, <2>1, <2>2, <2>3, <2>5 DEF PollRefused, n, n1
  <2>6. CASE PollTold(c)
    <3>1. seen'[u] = version
      BY <2>1, <2>6 DEF PollTold, Ended, n
    <3>2. \A v \in Subscribed(n1) : v = u \/ v \in Subscribed(n)
      BY <2>6 DEF PollTold, n, n1
    <3>3. n.known /\ n1.waiting = n.waiting \ {u}
      BY <2>6 DEF PollTold, n, n1
    <3>4. Subscribed(n) \subseteq Users
      BY DEF Subscribed
    <3> QED BY <1>1, <2>1, <2>3, <3>1, <3>2, <3>3, <3>4
  <2>7. CASE PollOpened(c)
    <3>1. n.known /\ u \notin n.waiting /\ n1.waiting = n.waiting
      BY <2>7 DEF PollOpened, n, n1
    <3>2. \A v \in Subscribed(n1) : v = u \/ v \in Subscribed(n)
      BY <2>7 DEF PollOpened, n, n1
    <3>3. u \notin Subscribed(n) => seen'[u] = version
      <4>1. n1.responser[u] # Absent
        BY <2>7, ConnsAssumption DEF PollOpened, n1
      <4>2. u \notin Subscribed(n) => n.responser[u] = Absent /\ u \notin {P1, P2}
        BY <1>1, <3>1 DEF Subscribed, Kept, n
      <4> QED BY <1>1, <4>1, <4>2
    <3>4. Subscribed(n) \subseteq Users
      BY DEF Subscribed
    <3> QED BY <1>1, <2>1, <2>3, <3>1, <3>2, <3>3, <3>4
  <2> QED BY <1>2, <2>4, <2>5, <2>6, <2>7
<1> QED BY <1>5, <1>6, <1>7, <1>9, <1>10, <1>11

-----------------------------------------------------------------------------
(* The invariant and the properties.                                        *)

\* A match that was just created satisfies it.
LEMMA MatchInvInit == Init => MatchInv
<1> SUFFICES ASSUME Init PROVE MatchInv
  OBVIOUS
<1> USE PlayersAssumption, UserOfAssumption, NoMoverAssumption, ConnsAssumption, MaxVersionAssumption
    DEF Init, NoSubscribers
<1>1. notifier \in NotifierData
  BY DEF NotifierData
<1>2. TypeOK
  <2>1. version \in 0..MaxVersion /\ since \in -1..MaxVersion /\ lines \in Nat
    OBVIOUS
  <2>2. /\ pc \in [Movers -> PC] /\ placed \in Mutexes
        /\ mine \in [Movers -> Mutexes] /\ owner \in [Mutexes -> Movers \cup {NoMover}]
        /\ owed \in [Conns -> Int] /\ seen \in [Users -> Nat]
    BY DEF PC, Mutexes
  <2>3. /\ creator = "notify1" /\ session = TRUE /\ over = FALSE /\ row = FALSE
        /\ refused = {} /\ sent = {} /\ crashed = FALSE
    OBVIOUS
  <2> HIDE DEF Init
  <2> QED BY <1>1, <2>1, <2>2, <2>3 DEF TypeOK, NotifierData
<1>3. Exclusive
  BY DEF Exclusive, Locked, Leaving, Ending
<1>4. Counted
  BY DEF Counted, Locked
<1>5. \A u \in Users : notifier.responser[u] = Absent
  OBVIOUS
<1>6. Subscribed(notifier) = {} /\ Polling(notifier) = {}
  BY <1>5 DEF Subscribed, Polling
<1>7. Kept
  BY <1>5, <1>6 DEF Kept
<1>8. AnsweredOnce
  BY <1>5 DEF AnsweredOnce
<1>9. Informed
  BY DEF Informed
<1> QED BY <1>2, <1>3, <1>4, <1>7, <1>8, <1>9 DEF MatchInv

\* Every step keeps it.
LEMMA MatchInvNext == MatchInv /\ [Next]_vars => MatchInv'
<1> SUFFICES ASSUME MatchInv, [Next]_vars PROVE MatchInv'
  OBVIOUS
<1>1. CASE Create
  BY <1>1, CreateKeeps
<1>2. ASSUME NEW m \in Movers, StartMove(m) \/ MoveStep(m) PROVE MatchInv'
  BY <1>2, QuietKeeps, NotifyKeeps, EndKeeps DEF MoveStep, Quiet
<1>3. ASSUME NEW c \in Conns, Poll(c) \/ DefinePoll(c) PROVE MatchInv'
  BY <1>3, PollKeeps, DefinePollKeeps
<1>4. CASE UNCHANGED vars
  <2>1. /\ UNCHANGED <<creator, session, version, over, placed, owner, mine, lines, row, pc>>
        /\ UNCHANGED <<notifier, owed, refused, seen, since, sent, crashed>>
    BY <1>4 DEF vars, gmVars, mutexVars, pollVars
  <2>2. Ended' <=> Ended
    BY <2>1 DEF Ended
  <2> USE DEF MatchInv
  <2>3. TypeOK'
    BY <2>1 DEF TypeOK
  <2>4. Exclusive' /\ Counted' /\ AnsweredOnce'
    BY <2>1, ExclusiveElse DEF Counted, AnsweredOnce
  <2>5. Kept'
    BY <2>1, <2>2 DEF Kept, Subscribed, Polling
  <2>6. Informed'
    BY <2>1, <2>2 DEF Informed, Subscribed
  <2> QED BY <2>3, <2>4, <2>5, <2>6
<1> QED BY <1>1, <1>2, <1>3, <1>4 DEF Next

\* The invariant of a match holds whatever moves, polls and CreateSession cross
\* each other (game_manager.cpp, session_state_notifier.cpp).
THEOREM MatchInvariant == Spec => []MatchInv
BY MatchInvInit, MatchInvNext, PTL DEF Spec

\* The match's fields stay of their types in every step of the manager, the
\* notifier and the poll and move requests.
THEOREM MatchTyped == Spec => []TypeOK
<1>1. MatchInv => TypeOK
  BY DEF MatchInv
<1> QED BY <1>1, MatchInvariant, PTL

\* session_mutex_ lets one move at a time act on the match (game_manager.cpp:63).
\* Two are behind their locks at once only when the match is erased, while its
\* end unlocks and destroys the mutex (:87-91) and its caller unlocks it again:
\* then at most one of them is more than about to find no match.
THEOREM MovesExclude == Spec => []OneMoveAtATime
<1>1. MatchInv => OneMoveAtATime
  BY NoMoverAssumption DEF MatchInv, Exclusive, Ending, Leaving, Locked, OneMoveAtATime
<1> QED BY <1>1, MatchInvariant, PTL

\* FinishSession records one result at most, however many moves wait for the
\* mutex or failed to look their users up (game_manager.cpp:77).
THEOREM ResultOnce == Spec => []OneResult
<1>1. MatchInv => OneResult
  BY DEF MatchInv, Exclusive, OneResult
<1> QED BY <1>1, MatchInvariant, PTL

\* While the notifier has the subscribers, the session whose events it asks for
\* is there (game_manager.cpp:55, :85-87).
THEOREM EventsThere == Spec => []EventsReachable
<1>1. MatchInv => EventsReachable
  BY DEF MatchInv, Informed, Ended, EventsReachable
<1> QED BY <1>1, MatchInvariant, PTL

\* A poll connection is owed one answer, by the notifier or by the refusal, and
\* gets no second one (session_state_notifier.cpp:33-105).
THEOREM PollsAnsweredOnce == Spec => []AnsweredOnce
<1>1. MatchInv => AnsweredOnce
  BY DEF MatchInv
<1> QED BY <1>1, MatchInvariant, PTL

\* A user whose poll is open knows the last move, or its Notify is still to
\* come (session_state_notifier.cpp:52, :85).
THEOREM UpdatesReachPolls == Spec => []NoLostUpdate
<1>1. ASSUME MatchInv, since = 0, \A m \in Movers : pc[m] # "notify", NEW u \in Polling(notifier)
      PROVE  seen[u] = version
  <2>1. u \in Subscribed(notifier) /\ u \notin notifier.waiting
    BY <1>1, ConnsAssumption DEF MatchInv, Kept, Polling, Subscribed
  <2>2. notifier.known
    BY <1>1, <2>1 DEF MatchInv, Kept
  <2> QED BY <1>1, <2>1, <2>2 DEF MatchInv, Informed
<1>2. MatchInv => NoLostUpdate
  BY <1>1 DEF NoLostUpdate
<1> QED BY <1>2, MatchInvariant, PTL

-----------------------------------------------------------------------------
(* The end of the match, and the refinement.                                *)

\* Of subscribers from before the first move, a poll is told that the match is
\* gone when its player has been told the last move and the result is recorded.
LEMMA GoneIsTold ==
    ASSUME MatchInv, Next, since = 0, NEW c \in Conns \ refused, UserOf[c] \in {P1, P2},
           \/ c \in refused'
           \/ \E a \in sent' : a.conn = c /\ a.status \in {"finished", "wrong_session"}
    PROVE  seen[UserOf[c]] = version /\ lines = 1
<1> DEFINE n == notifier
<1> USE DEF MatchInv
<1>0. Ended => lines = 1
  BY DEF Ended, Exclusive
<1>1. ASSUME NEW d \in Conns, Poll(d) PROVE seen[UserOf[c]] = version /\ lines = 1
  <2>1. /\ refused' = IF n.known \/ UserOf[d] \in n.closing THEN refused ELSE refused \cup {d}
        /\ \A b \in sent' : b.status = "poll_closed" \/ b.conn = d
    BY <1>1, PollStep
  <2>2. PollToldEnd(d) \/ PollRefused(d) \/ PollTold(d) \/ PollOpened(d)
    BY <1>1, PollWays
  <2>3. n.known => session
    BY DEF Informed, Ended
  <2>4. PollRefused(d)
    <3>1. n.known \/ UserOf[d] \in n.closing => refused' = refused
      BY <2>1
    <3>2. PollToldEnd(d) \/ PollTold(d) \/ PollOpened(d) =>
             c \notin refused' /\ \A b \in sent' : b.status \in {"ok", "poll_closed"}
      BY <2>3, <3>1 DEF PollToldEnd, PollTold, PollOpened
    <3> QED BY <2>2, <3>2
  <2>5. ~n.known /\ sent' = {} /\ UserOf[d] \notin n.closing
    BY <2>4 DEF PollRefused
  <2>6. c = d
    BY <2>1, <2>5
  <2> QED BY <1>0, <2>5, <2>6 DEF Informed
<1>2. ASSUME NEW m \in Movers, UnsubscribeAll(m) PROVE seen[UserOf[c]] = version /\ lines = 1
  <2>1. UserOf[c] \in Polling(n)
    BY <1>2, UnsubscribeStep DEF UnsubscribeAll
  <2>2. pc[m] = "unsubscribe"
    BY <1>2 DEF UnsubscribeAll
  <2>3. ~Ended /\ lines = 1 /\ \A o \in Movers : pc[o] # "notify"
    BY <2>2 DEF Ended, Exclusive, Locked
  <2>4. n.known /\ UserOf[c] \in Subscribed(n) /\ UserOf[c] \notin n.waiting
    BY <2>1, <2>3, ConnsAssumption DEF Informed, Kept, Polling, Subscribed
  <2> QED BY <2>3, <2>4 DEF Informed
<1>3. ASSUME NEW m \in Movers, NotifyMove(m) PROVE FALSE
  BY <1>3, NotifyStep DEF NotifyMove
<1>4. ASSUME NEW d \in Conns, DefinePoll(d) PROVE FALSE
  BY <1>4 DEF DefinePoll
<1>5. ASSUME refused' = refused, sent' = {} PROVE FALSE
  BY <1>5
<1>6. CASE Create
  BY <1>5, <1>6 DEF Create, NotifyQueue, CreateSubscribers, pollVars
<1>7. ASSUME NEW m \in Movers, Quiet(m) PROVE FALSE
  BY <1>5, <1>7 DEF Quiet, StartMove, Contains, At, FindMutex, Lock, Move, GetResults, Record, Erase,
                    UnlockEarly, DestroyMutex, ReleaseDestroyed, DefineMove, Goto, Unlock, pollVars
<1> QED BY <1>1, <1>2, <1>3, <1>4, <1>6, <1>7 DEF Next, MoveStep, Quiet

\* Unsubscribe and the refusals come after the last move's Notify and the result
\* (game_manager.cpp:77-87, session_state_notifier.cpp:33).
THEOREM MatchEndsInOrder == Spec => LastMoveFirst
<1>1. MatchInv /\ [Next]_vars =>
         [LET gone == {c \in Conns \ refused :
                         c \in refused' \/ \E a \in sent' : /\ a.conn = c
                                                           /\ a.status \in {"finished", "wrong_session"}}
          IN  since = 0 => \A c \in gone : UserOf[c] \in {P1, P2} =>
                  seen[UserOf[c]] = version /\ lines = 1]_vars
  BY GoneIsTold
<1> QED BY <1>1, MatchInvariant, PTL DEF Spec, LastMoveFirst

\* A mailbox starts empty.
LEMMA MailboxInit == Init => Mailbox!Init
<1> SUFFICES ASSUME Init PROVE Mailbox!Init
  OBVIOUS
<1>1. /\ \A u \in Users : notifier.responser[u] = Absent
      /\ notifier.waiting = {} /\ notifier.closing = {}
  BY DEF Init, NoSubscribers
<1>2. Subscribed(notifier) = {} /\ Polling(notifier) = {}
  BY <1>1, ConnsAssumption DEF Subscribed, Polling
<1> QED BY <1>1, <1>2 DEF Mailbox!Init

\* A poll is one of the mailbox, or no step of it.
LEMMA MailboxPoll ==
    ASSUME MatchInv, NEW c \in Conns, Poll(c)
    PROVE  Mailbox!Poll(UserOf[c]) \/ UNCHANGED Mailbox!vars
<1> DEFINE n == notifier
           n1 == notifier'
           u == UserOf[c]
<1>1. CASE PollToldEnd(c)
  <2>1. n.waiting = {}
    BY <1>1 DEF PollToldEnd, MatchInv, Kept
  <2>2. Subscribed(n1) = Subscribed(n) /\ Polling(n1) = Polling(n)
    BY <1>1 DEF PollToldEnd, Subscribed, Polling
  <2> QED BY <1>1, <2>1, <2>2 DEF PollToldEnd, Mailbox!Poll
<1>2. CASE PollRefused(c)
  BY <1>2 DEF PollRefused, Mailbox!vars
<1>3. CASE PollTold(c)
  BY <1>3 DEF PollTold, Mailbox!Poll
<1>4. CASE PollOpened(c)
  BY <1>4 DEF PollOpened, Mailbox!Poll
<1> QED BY <1>1, <1>2, <1>3, <1>4, PollWays DEF MatchInv

\* Every step of the match maps to a step of the mailbox or to none.
LEMMA MailboxNext == MatchInv /\ [Next]_vars => [Mailbox!Next]_Mailbox!vars
<1> SUFFICES ASSUME MatchInv, [Next]_vars PROVE Mailbox!Next \/ UNCHANGED Mailbox!vars
  OBVIOUS
<1> DEFINE n == notifier
           n1 == notifier'
<1> USE DEF MatchInv
<1>0. n \in NotifierData
  BY DEF TypeOK, NotifierData
<1>1. ASSUME n1 = n PROVE UNCHANGED Mailbox!vars
  BY <1>1 DEF Mailbox!vars
<1>2. CASE CreateSubscribers
  <2>1. n1 = SessionCreated(n, P1, P2)
    BY <1>2 DEF CreateSubscribers
  <2>2. /\ n1.waiting = n.waiting /\ n1.closing = n.closing
        /\ Subscribed(n1) = Subscribed(n) \cup {P1, P2} /\ Polling(n1) = Polling(n)
    BY <1>0, <2>1, SessionCreatedFields
  <2>3. Mailbox!Join({P1, P2})
    BY <2>2 DEF Mailbox!Join
  <2> QED BY <2>3, PlayersAssumption DEF Mailbox!Next
<1>3. ASSUME NEW m \in Movers, NotifyMove(m) PROVE Mailbox!Next \/ UNCHANGED Mailbox!vars
  <2>1. /\ n1.closing = n.closing
        /\ ~n.known => n1 = n
        /\ n.known => /\ Polling(n1) = {} /\ Subscribed(n1) = Subscribed(n)
                      /\ n1.waiting = n.waiting \cup (Subscribed(n) \ Polling(n))
    BY <1>3, NotifyStep
  <2>2. CASE n.known
    <3>1. Mailbox!Happen
      BY <2>1, <2>2 DEF Mailbox!Happen
    <3> QED BY <3>1 DEF Mailbox!Next
  <2> QED BY <1>1, <2>1, <2>2
<1>4. ASSUME NEW m \in Movers, UnsubscribeAll(m) PROVE Mailbox!Next \/ UNCHANGED Mailbox!vars
  <2>1. /\ ~n.known => n1 = n
        /\ n.known => /\ Polling(n1) = {} /\ Subscribed(n1) = {} /\ n1.waiting = {}
                      /\ n1.closing = n.closing \cup n.waiting
    BY <1>4, UnsubscribeStep
  <2>2. CASE n.known
    <3>1. Mailbox!Close
      BY <2>1, <2>2 DEF Mailbox!Close
    <3> QED BY <3>1 DEF Mailbox!Next
  <2> QED BY <1>1, <2>1, <2>2
<1>5. ASSUME NEW c \in Conns, Poll(c) PROVE Mailbox!Next \/ UNCHANGED Mailbox!vars
  <2>1. UserOf[c] \in Users
    BY UserOfAssumption
  <2> QED BY <1>5, <2>1, MailboxPoll DEF Mailbox!Next
<1>6. ASSUME NEW c \in Conns, DefinePoll(c) PROVE UNCHANGED Mailbox!vars
  BY <1>1, <1>6 DEF DefinePoll
<1>7. ASSUME NEW m \in Movers, Quiet(m) PROVE UNCHANGED Mailbox!vars
  BY <1>1, <1>7, QuietStep DEF pollVars
<1>8. CASE NotifyQueue
  BY <1>1, <1>8 DEF NotifyQueue, pollVars
<1>9. CASE UNCHANGED vars
  BY <1>1, <1>9 DEF vars, pollVars
<1> QED BY <1>2, <1>3, <1>4, <1>5, <1>6, <1>7, <1>8, <1>9 DEF Next, Create, MoveStep, Quiet

\* The notifier of a match, its poll_waiting and send_and_close_ taken together,
\* keeps the promise of docs/notification_system.md: who polls is answered, who
\* does not is answered at the next poll, the end of the match included.
THEOREM NotifierKeepsMailbox == Spec => KeepsMailbox
<1>1. Spec => Mailbox!Init /\ [][Mailbox!Next]_Mailbox!vars
  BY MailboxInit, MailboxNext, MatchInvariant, PTL DEF Spec
<1> QED BY <1>1 DEF KeepsMailbox, Mailbox!Spec

=============================================================================
