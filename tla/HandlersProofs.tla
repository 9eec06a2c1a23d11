--------------------------- MODULE HandlersProofs ---------------------------
(***************************************************************************)
(* The handlers are workers of Calls, so what is proved of the locks of    *)
(* any such workers holds of the server's; a request is answered once; and *)
(* a login is confirmed once.                                              *)
(***************************************************************************)
EXTENDS Handlers, CallsProofs

\* Only a target that has a function is dispatched to one.
LEMMA DispatchedHasFunction ==
    ASSUME NEW r, Dispatched(r) = "ok"
    PROVE  Function(r.path) \in Functions
<1>1. r.path \in Paths \cup {"static"}
  BY DEF Dispatched, Handle
<1> QED BY <1>1 DEF Functions

\* A step of the handlers is one of the workers, or leaves them as they are.
LEMMA StepOfCalls == [Next]_vars => [CallsNext]_callVars
<1> SUFFICES ASSUME [Next]_vars
             PROVE  [CallsNext]_callVars
  OBVIOUS
<1>1. ASSUME NEW w \in Workers, NEW r \in Requests, Receive(w, r)
      PROVE  CallsNext
  <2>1. r.about \in Subjects
    BY RequestsAssumption
  <2>2. CASE Dispatched(r) = "ok"
    <3>1. Begin(w, Function(r.path), r.about) /\ Function(r.path) \in Methods
      BY <1>1, <2>2, DispatchedHasFunction, FunctionsAssumption DEF Receive
    <3> QED BY <2>1, <3>1 DEF CallsNext
  <2>3. CASE Dispatched(r) # "ok"
    <3>1. Begin(w, "HandleApiError", r.about) /\ "HandleApiError" \in Methods
      BY <1>1, <2>3, FunctionsAssumption DEF Receive, Functions
    <3> QED BY <2>1, <3>1 DEF CallsNext
  <2> QED BY <2>2, <2>3
<1>2. ASSUME NEW w \in Workers, NEW u, WaitFor(w, u)
      PROVE  CallsNext
  BY <1>2 DEF WaitFor, CallsNext
<1>3. ASSUME NEW w \in Workers, NEW to, DecideNext(w, to)
      PROVE  CallsNext
  BY <1>3 DEF DecideNext, CallsNext
<1>4. ASSUME NEW w \in Workers, CallNext(w)
      PROVE  CallsNext
  BY <1>4 DEF CallNext, CallsNext
<1>5. ASSUME NEW w \in Workers, AnswerNext(w)
      PROVE  CallsNext
  BY <1>5 DEF AnswerNext, CallsNext
<1>6. ASSUME NEW w \in Workers, NEW to, ReturnNext(w, to)
      PROVE  CallsNext
  BY <1>6 DEF ReturnNext, CallsNext
<1>7. ASSUME NEW c \in Connections, Break(c)
      PROVE  UNCHANGED callVars
  BY <1>7 DEF Break
<1>8. ASSUME Terminate
      PROVE  CallsNext
  BY <1>8 DEF Terminate, CallsNext
<1>9. ASSUME UNCHANGED vars
      PROVE  UNCHANGED callVars
  BY <1>9 DEF vars
<1> QED BY <1>1, <1>2, <1>3, <1>4, <1>5, <1>6, <1>7, <1>8, <1>9 DEF Next

\* The handlers implement Calls: every behaviour of the server's requests is
\* one of workers that call methods and hold their locks while they run.
THEOREM HandlersImplementCalls == Spec => CallsSpec
<1>1. Init => CallsInit
  BY DEF Init
<1> QED BY <1>1, StepOfCalls, PTL DEF Spec, CallsSpec

\* While a request is handled some worker can go on: a handler under the mutex
\* of a match or the balancer, that of a notifier, a connection of the pool
\* and the row it inserts never waits in a circle (game_manager.cpp:63,
\* matchmaking_balancer.cpp:23, thread_lock.hpp:9,
\* postgres_connection_pool.cpp:15).
THEOREM HandlersNoDeadlock == Spec => []NoDeadlock
<1> QED BY HandlersImplementCalls, CallsNoDeadlock, PTL

-----------------------------------------------------------------------------
(* Each request is answered once: a method that answers its request returns *)
(* at once, and so do those that left the answer to it.                     *)

\* A frame stands where its program leads.
Reaches(f) == f.at \in TargetsOf(f.method) \cup {"start", "enter", "yes"}

\* Every frame does, and each but the last stands at the call of the next.
Linked(frames) ==
    /\ \A i \in 1..Len(frames) : Reaches(frames[i])
    /\ \A i \in 1..(Len(frames) - 1) :
          Program[frames[i].method][frames[i].at].call = frames[i + 1].method

\* The first frame is that of an API function.
Serves(frames) == frames # <<>> => frames[1].method \in Functions

\* The last frame, or one it left the answer to, has answered.
HasAnswered(frames) ==
    /\ frames # <<>>
    /\ frames[Len(frames)].at = "yes" /\ frames[Len(frames)].method \in Answering

\* The inductive invariant.
Working(w) ==
    /\ Linked(stack[w]) /\ Serves(stack[w])
    /\ request[w] = NoRequest <=> stack[w] = <<>>
    /\ said[w] = IF HasAnswered(stack[w]) THEN 1 ELSE 0
Stored == /\ request \in [Workers -> Requests \cup {NoRequest}]
          /\ said \in [Workers -> Nat]
          /\ broken \subseteq Connections
          /\ table \subseteq Subjects
          /\ told \in [Subjects -> Nat]
WorkersInv == Nested /\ Stored /\ \A w \in Workers : Working(w)

\* Frames of which only the last changes, within its method, stay linked.
LEMMA LinkedOn ==
    ASSUME NEW frames \in Seq(Frames), NEW new, NEW n \in Nat \ {0},
           n = Len(frames), n = Len(new), Linked(frames),
           \A i \in 1..n : i # n => new[i] = frames[i],
           new[n].method = frames[n].method, Reaches(new[n])
    PROVE  Linked(new)
<1>1. n \in 1..n
  OBVIOUS
<1>2. ASSUME NEW i \in 1..n
      PROVE  Reaches(new[i])
  <2>1. CASE i = n
    BY <2>1
  <2>2. CASE i # n
    <3>1. new[i] = frames[i]
      BY <2>2
    <3> QED BY <3>1 DEF Linked
  <2> QED BY <2>1, <2>2
<1>3. ASSUME NEW i \in 1..(n - 1)
      PROVE  Program[new[i].method][new[i].at].call = new[i + 1].method
  <2>1. i \in 1..n /\ i # n /\ i + 1 \in 1..n
    OBVIOUS
  <2>2. new[i] = frames[i]
    BY <2>1
  <2>3. new[i + 1].method = frames[i + 1].method
    <3>1. CASE i + 1 = n
      BY <3>1
    <3>2. CASE i + 1 # n
      BY <2>1, <3>2
    <3> QED BY <3>1, <3>2
  <2>4. Program[frames[i].method][frames[i].at].call = frames[i + 1].method
    BY DEF Linked
  <2> QED BY <2>2, <2>3, <2>4
<1> QED BY <1>2, <1>3 DEF Linked

\* The last frame goes on, to a target of its program or, when it has answered,
\* to its return.
LEMMA LinkedGoneOn ==
    ASSUME NEW frames \in Seq(Frames), frames # <<>>, Linked(frames), Serves(frames),
           NEW to, to \in TargetsOf(frames[Len(frames)].method) \cup {"yes"}
    PROVE  LET new == GoneOn(frames, to)
           IN  /\ new # <<>> /\ Linked(new) /\ Serves(new)
               /\ HasAnswered(new) <=> to = "yes" /\ frames[Len(frames)].method \in Answering
<1> DEFINE n == Len(frames)
           new == GoneOn(frames, to)
<1>1. /\ Len(new) = n /\ n \in 1..n /\ n \in Nat \ {0}
      /\ \A i \in 1..n : i # n => new[i] = frames[i]
      /\ new[n].method = frames[n].method /\ new[n].at = to
  BY GoneOnFrames
<1> HIDE DEF new
<1>2. Reaches(new[n])
  BY <1>1 DEF Reaches
<1>3. Linked(new)
  <2> HIDE DEF n
  <2> QED BY <1>1, <1>2, LinkedOn DEF n
<1>4. new # <<>>
  BY <1>1
<1>5. Serves(new)
  <2>1. frames[1].method \in Functions
    BY DEF Serves
  <2>2. new[1].method = frames[1].method
    <3>1. CASE n = 1
      BY <1>1, <3>1
    <3>2. CASE n # 1
      <4>1. 1 \in 1..n /\ 1 # n
        BY <1>1, <3>2
      <4> QED BY <1>1, <4>1
    <3> QED BY <3>1, <3>2
  <2> QED BY <2>1, <2>2 DEF Serves
<1> QED BY <1>1, <1>3, <1>4, <1>5 DEF HasAnswered, new

\* A call adds a frame that its point calls.
LEMMA LinkedPushed ==
    ASSUME NEW frames \in Seq(Frames), frames # <<>>, Linked(frames), Serves(frames),
           NEW f \in Frames, f.at \in {"start", "enter"},
           LET top == frames[Len(frames)] IN Program[top.method][top.at].call = f.method
    PROVE  LET new == Append(frames, f)
           IN  /\ new # <<>> /\ Linked(new) /\ Serves(new) /\ ~HasAnswered(new)
               /\ new[Len(new)] = f
<1> DEFINE n == Len(frames)
           new == Append(frames, f)
<1>1. /\ n \in Nat \ {0} /\ Len(new) = n + 1 /\ new[n + 1] = f /\ n \in 1..n
      /\ \A i \in 1..n : new[i] = frames[i]
  OBVIOUS
<1>2. new # <<>>
  OBVIOUS
<1> HIDE DEF new
<1>3. ASSUME NEW i \in 1..(n + 1)
      PROVE  Reaches(new[i])
  <2>1. CASE i = n + 1
    BY <1>1, <2>1 DEF Reaches
  <2>2. CASE i # n + 1
    <3>1. i \in 1..n /\ new[i] = frames[i]
      BY <1>1, <2>2
    <3> QED BY <3>1 DEF Linked
  <2> QED BY <2>1, <2>2
<1>4. ASSUME NEW i \in 1..n
      PROVE  Program[new[i].method][new[i].at].call = new[i + 1].method
  <2>1. CASE i = n
    BY <1>1, <2>1
  <2>2. CASE i # n
    <3>1. i \in 1..(n - 1) /\ i + 1 \in 1..n
      BY <1>1, <2>2
    <3>2. new[i] = frames[i] /\ new[i + 1] = frames[i + 1]
      BY <1>1, <3>1
    <3> QED BY <3>1, <3>2 DEF Linked
  <2> QED BY <2>1, <2>2
<1>5. Len(new) - 1 = n
  BY <1>1
<1>6. Linked(new)
  BY <1>1, <1>3, <1>4, <1>5 DEF Linked
<1>7. Serves(new)
  <2>1. 1 \in 1..n
    BY <1>1
  <2> QED BY <1>1, <2>1 DEF Serves
<1>8. new[Len(new)] = f
  BY <1>1
<1>9. ~HasAnswered(new)
  BY <1>8 DEF HasAnswered
<1> QED BY <1>2, <1>6, <1>7, <1>8, <1>9 DEF new

\* The frames before the last stay linked.
LEMMA LinkedPopped ==
    ASSUME NEW frames \in Seq(Frames), Linked(frames), Serves(frames), Len(frames) \in Nat \ {0, 1}
    PROVE  LET new == Popped(frames)
               n == Len(frames)
           IN  /\ new \in Seq(Frames) /\ new # <<>> /\ Linked(new) /\ Serves(new)
               /\ Len(new) = n - 1 /\ new[Len(new)] = frames[n - 1]
<1> DEFINE n == Len(frames)
           new == Popped(frames)
<1>1. /\ new \in Seq(Frames) /\ Len(new) = n - 1
      /\ \A i \in 1..(n - 1) : new[i] = frames[i]
  <2>1. frames # <<>>
    OBVIOUS
  <2> QED BY <2>1, PoppedFrames
<1> HIDE DEF new
<1>2. n - 1 \in 1..(n - 1) /\ 1 \in 1..(n - 1) /\ new # <<>> /\ frames # <<>>
  BY <1>1
<1>3. ASSUME NEW i \in 1..(n - 1)
      PROVE  Reaches(new[i])
  <2>1. i \in 1..n /\ new[i] = frames[i]
    BY <1>1
  <2> QED BY <2>1 DEF Linked
<1>4. ASSUME NEW i \in 1..(n - 1 - 1)
      PROVE  Program[new[i].method][new[i].at].call = new[i + 1].method
  <2>1. i \in 1..(n - 1) /\ i + 1 \in 1..(n - 1)
    OBVIOUS
  <2>2. new[i] = frames[i] /\ new[i + 1] = frames[i + 1]
    BY <1>1, <2>1
  <2> QED BY <2>1, <2>2 DEF Linked
<1>5. Linked(new)
  BY <1>1, <1>3, <1>4 DEF Linked
<1>6. Serves(new)
  <2>1. new[1] = frames[1]
    BY <1>1, <1>2
  <2> QED BY <1>2, <2>1 DEF Serves
<1> QED BY <1>1, <1>2, <1>5, <1>6 DEF new

-----------------------------------------------------------------------------
(* The invariant is inductive.                                              *)

\* What is known of a busy worker: it has not answered unless it returns.
LEMMA OfWorking ==
    ASSUME WorkersInv, NEW w \in Workers, w \in Busy
    PROVE  /\ stack[w] \in Seq(Frames) /\ stack[w] # <<>> /\ Linked(stack[w]) /\ Serves(stack[w])
           /\ Top(w) = stack[w][Len(stack[w])] /\ Top(w) \in Frames /\ Reaches(Top(w))
           /\ request[w] \in Requests /\ about[w] \in Subjects
           /\ said[w] = IF Top(w).at = "yes" /\ Top(w).method \in Answering THEN 1 ELSE 0
<1>1. /\ stack[w] \in Seq(Frames) /\ stack[w] # <<>> /\ Len(stack[w]) \in Nat \ {0}
      /\ Top(w) = stack[w][Len(stack[w])] /\ Top(w) \in Frames /\ about[w] \in Subjects
  BY OfBusy DEF WorkersInv
<1>2. Linked(stack[w]) /\ Serves(stack[w]) /\ request[w] # NoRequest
      /\ said[w] = IF HasAnswered(stack[w]) THEN 1 ELSE 0
  BY <1>1 DEF WorkersInv, Working
<1>3. Reaches(Top(w))
  <2>1. Len(stack[w]) \in 1..Len(stack[w])
    BY <1>1
  <2> QED BY <1>1, <1>2, <2>1 DEF Linked
<1>4. request[w] \in Requests
  BY <1>2 DEF WorkersInv, Stored
<1> QED BY <1>1, <1>2, <1>3, <1>4 DEF HasAnswered

\* A step of one worker keeps the invariant if its new frames, its request and
\* the count of its answers are as the invariant wants them.
LEMMA WorkerKept ==
    ASSUME WorkersInv, NEW w \in Workers, NEW frames,
           stack' = [stack EXCEPT ![w] = frames], Linked(frames), Serves(frames),
           \A v \in Workers : v # w => request'[v] = request[v] /\ said'[v] = said[v],
           request'[w] = NoRequest <=> frames = <<>>,
           said'[w] = IF HasAnswered(frames) THEN 1 ELSE 0
    PROVE  \A v \in Workers : Working(v)'
<1> SUFFICES ASSUME NEW v \in Workers
             PROVE  Working(v)'
  OBVIOUS
<1>1. stack \in [Workers -> Seq(Frames)]
  BY DEF WorkersInv, Nested, TypeInv
<1>2. CASE v = w
  <2>1. stack'[v] = frames
    BY <1>1, <1>2
  <2> QED BY <1>2, <2>1 DEF Working
<1>3. CASE v # w
  <2>1. stack'[v] = stack[v] /\ request'[v] = request[v] /\ said'[v] = said[v]
    BY <1>1, <1>3
  <2> QED BY <2>1 DEF WorkersInv, Working
<1> QED BY <1>2, <1>3

\* A request is taken by a worker that has none.
LEMMA ReceiveWorks ==
    ASSUME WorkersInv, NEW w \in Workers, NEW r \in Requests, Receive(w, r)
    PROVE  Stored' /\ \A v \in Workers : Working(v)'
<1>1. /\ Stored /\ w \notin Busy /\ said' = said /\ UNCHANGED stores
      /\ request' = [request EXCEPT ![w] = r] /\ r # NoRequest /\ r.about \in Subjects
  BY RequestsAssumption DEF Receive, Begin, WorkersInv
<1>2. Stored'
  BY <1>1 DEF Stored, stores
<1>3. PICK m \in Functions : stack' = [stack EXCEPT ![w] = <<Frame(m, r.about)>>]
  BY DispatchedHasFunction DEF Receive, Begin, Functions
<1> DEFINE f == Frame(m, r.about)
           frames == <<f>>
<1>4. f.method = m /\ f.at \in {"start", "enter"}
  BY DEF Frame
<1> HIDE DEF f
<1>5. frames # <<>> /\ Len(frames) = 1 /\ frames[1] = f
  OBVIOUS
<1> HIDE DEF frames
<1>6. Linked(frames) /\ Serves(frames) /\ ~HasAnswered(frames)
  BY <1>4, <1>5 DEF Linked, Serves, HasAnswered, Reaches
<1>7. said[w] = 0
  BY <1>1 DEF WorkersInv, Working, HasAnswered, Busy
<1>8. /\ \A v \in Workers : v # w => request'[v] = request[v] /\ said'[v] = said[v]
      /\ request'[w] = r /\ said'[w] = 0
  BY <1>1, <1>7 DEF Stored
<1>9. stack' = [stack EXCEPT ![w] = frames]
  BY <1>3 DEF frames, f
<1> QED BY <1>1, <1>2, <1>5, <1>6, <1>8, <1>9, WorkerKept

\* The running method goes on without an answer.
LEMMA GoneOnWorks ==
    ASSUME WorkersInv, NEW w \in Workers, w \in Busy, NEW to, to \in TargetsOf(Top(w).method),
           to = "yes" => Top(w).method \notin Answering, said[w] = 0,
           Runs(w, GoneOn(stack[w], to)), UNCHANGED <<request, said>>
    PROVE  \A v \in Workers : Working(v)'
<1>1. /\ stack[w] \in Seq(Frames) /\ stack[w] # <<>> /\ Linked(stack[w]) /\ Serves(stack[w])
      /\ Top(w) = stack[w][Len(stack[w])] /\ request[w] \in Requests
  BY OfWorking
<1> DEFINE new == GoneOn(stack[w], to)
<1>2. new # <<>> /\ Linked(new) /\ Serves(new) /\ ~HasAnswered(new)
  BY <1>1, LinkedGoneOn
<1>3. stack' = [stack EXCEPT ![w] = new]
  BY DEF Runs
<1> HIDE DEF new
<1> QED BY <1>1, <1>2, <1>3, RequestsAssumption, WorkerKept

\* The running method gets what it waited for.
LEMMA WaitForWorks ==
    ASSUME WorkersInv, NEW w \in Workers, NEW u, WaitFor(w, u)
    PROVE  Stored' /\ \A v \in Workers : Working(v)'
<1> DEFINE frames == stack[w]
           n == Len(frames)
           f == [frames[n] EXCEPT !.at = "start", !.has = {u}]
           new == [frames EXCEPT ![n] = f]
<1>1. /\ Stored /\ w \in Busy /\ UNCHANGED <<request, said, stores>>
      /\ stack' = [stack EXCEPT ![w] = new] /\ Top(w).at = "enter"
  BY DEF WorkersInv, WaitFor, Enter, Entering, Runs
<1>2. Stored'
  BY <1>1 DEF Stored, stores
<1>3. /\ frames \in Seq(Frames) /\ frames # <<>> /\ Linked(frames) /\ Serves(frames)
      /\ frames[n] \in Frames /\ request[w] \in Requests /\ said[w] = 0
  BY <1>1, OfWorking
<1>4. n \in Nat \ {0} /\ n \in 1..n /\ f.method = frames[n].method /\ f.at = "start"
  BY <1>3 DEF Frames
<1>5. Len(new) = n /\ new # <<>> /\ new[n] = f /\ \A i \in 1..n : i # n => new[i] = frames[i]
  BY <1>3, <1>4
<1> HIDE DEF f, new
<1>6. Linked(new)
  <2>1. Reaches(new[n])
    BY <1>4, <1>5 DEF Reaches
  <2> HIDE DEF n
  <2> QED BY <1>3, <1>4, <1>5, <2>1, LinkedOn DEF n
<1>7. Serves(new)
  <2>1. new[1].method = frames[1].method
    <3>1. CASE n = 1
      BY <1>4, <1>5, <3>1
    <3>2. CASE n # 1
      <4>1. 1 \in 1..n /\ 1 # n
        BY <1>4, <3>2
      <4> QED BY <1>5, <4>1
    <3> QED BY <3>1, <3>2
  <2> QED BY <1>3, <2>1 DEF Serves
<1>8. ~HasAnswered(new)
  BY <1>4, <1>5 DEF HasAnswered
<1> QED BY <1>1, <1>2, <1>3, <1>5, <1>6, <1>7, <1>8, RequestsAssumption, WorkerKept

\* A test answers nothing, and no method that answers returns by it.
LEMMA DecideWorks ==
    ASSUME WorkersInv, NEW w \in Workers, NEW to, DecideNext(w, to)
    PROVE  Stored' /\ \A v \in Workers : Working(v)'
<1> DEFINE m == Top(w).method
<1>1. /\ Stored /\ w \in Busy /\ UNCHANGED <<request, said, broken, told>>
      /\ Runs(w, GoneOn(stack[w], to))
      /\ Top(w).at \in DOMAIN Program[m] /\ Program[m][Top(w).at].call = "none"
      /\ to \in Program[m][Top(w).at].yes
  BY DEF WorkersInv, DecideNext, Decide, AtPoint, Point
<1>2. m \in Methods /\ about[w] \in Subjects
  BY <1>1, OfWorking DEF Frames
<1>3. to \in TargetsOf(m)
  BY <1>1 DEF TargetsOf
<1>4. to = "yes" => m \notin Answering
  <2>1. "none" \notin Answering
    BY RegisteringAssumption, FunctionsAssumption DEF Answering
  <2> QED BY <1>1, <1>2, <2>1, AnsweringAssumption
<1>5. said[w] = 0
  <2>1. Top(w).at # "yes"
    BY <1>1, <1>2, AnsweringAssumption DEF Results
  <2> QED BY <1>1, <2>1, OfWorking
<1>6. \A v \in Workers : Working(v)'
  BY <1>1, <1>3, <1>4, <1>5, GoneOnWorks
<1>7. table' \subseteq Subjects
  <2>1. table \subseteq Subjects
    BY <1>1 DEF Stored
  <2> QED BY <1>2, <2>1 DEF DecideNext, Inserts
<1> QED BY <1>1, <1>6, <1>7 DEF Stored

\* A call answers nothing.
LEMMA CallWorks ==
    ASSUME WorkersInv, NEW w \in Workers, CallNext(w)
    PROVE  Stored' /\ \A v \in Workers : Working(v)'
<1> DEFINE frames == stack[w]
           top == frames[Len(frames)]
           c == Program[top.method][top.at].call
           f == Frame(c, about[w])
           new == Append(frames, f)
<1>1. /\ Stored /\ w \in Busy /\ UNCHANGED <<request, said, stores>>
      /\ top.at \in DOMAIN Program[top.method] /\ c # "none"
      /\ stack' = [stack EXCEPT ![w] = new]
  BY DEF WorkersInv, CallNext, Enters, AtPoint, Point, Top, Runs
<1>2. /\ frames \in Seq(Frames) /\ frames # <<>> /\ Linked(frames) /\ Serves(frames)
      /\ top \in Frames /\ request[w] \in Requests /\ about[w] \in Subjects
      /\ said[w] = IF top.at = "yes" /\ top.method \in Answering THEN 1 ELSE 0
  BY <1>1, OfWorking
<1>3. top.method \in Methods /\ c \in Methods
  <2>1. top.method \in Methods
    BY <1>2 DEF Frames
  <2> QED BY <1>1, <2>1, ProgramAssumption
<1>4. said[w] = 0
  <2>1. top.at # "yes"
    BY <1>1, <1>3, AnsweringAssumption DEF Results
  <2> QED BY <1>2, <2>1
<1>5. f \in Frames /\ f.method = c
  BY <1>2, <1>3, NewFrame
<1>6. f.at \in {"start", "enter"}
  BY DEF Frame
<1> HIDE DEF f
<1>7. new # <<>> /\ Linked(new) /\ Serves(new) /\ ~HasAnswered(new)
  BY <1>2, <1>5, <1>6, LinkedPushed
<1> HIDE DEF new
<1>8. \A v \in Workers : Working(v)'
  BY <1>1, <1>2, <1>4, <1>7, RequestsAssumption, WorkerKept
<1> QED BY <1>1, <1>8 DEF Stored, stores

\* An answer to the request is its first, and the method that sends it returns.
LEMMA AnswerWorks ==
    ASSUME WorkersInv, NEW w \in Workers, AnswerNext(w)
    PROVE  Stored' /\ \A v \in Workers : Working(v)'
<1> DEFINE frames == stack[w]
           m == Top(w).method
           new == GoneOn(frames, "yes")
<1>1. /\ Stored /\ w \in Busy /\ UNCHANGED <<request, broken, table, about>>
      /\ Top(w).at \notin DOMAIN Program[m] \cup Results \cup {"enter", "throw"}
      /\ stack' = [stack EXCEPT ![w] = new]
      /\ said' = [said EXCEPT ![w] = IF m \in DOMAIN Tells THEN @ ELSE @ + 1]
  BY DEF WorkersInv, AnswerNext, Answer, AtPoint, Runs
<1>2. /\ frames \in Seq(Frames) /\ frames # <<>> /\ Linked(frames) /\ Serves(frames)
      /\ Top(w) = frames[Len(frames)] /\ Top(w) \in Frames /\ Reaches(Top(w))
      /\ request[w] \in Requests /\ about[w] \in Subjects
      /\ said[w] = IF Top(w).at = "yes" /\ m \in Answering THEN 1 ELSE 0
  BY <1>1, OfWorking
<1>3. m \in Methods /\ said[w] = 0
  BY <1>1, <1>2 DEF Frames, Results
<1>4. m \in Answering <=> m \notin DOMAIN Tells
  <2>1. "start" \in DOMAIN Program[m]
    BY <1>3, AnsweringAssumption
  <2>2. Top(w).at \in TargetsOf(m)
    BY <1>1, <1>2, <2>1 DEF Reaches, Results
  <2>3. m \in Answering \cup DOMAIN Tells
    BY <1>1, <1>3, <2>2, AnsweringAssumption
  <2> QED BY <2>3, AnsweringAssumption
<1>5. /\ new # <<>> /\ Linked(new) /\ Serves(new)
      /\ HasAnswered(new) <=> m \in Answering
  BY <1>2, LinkedGoneOn
<1> HIDE DEF new
<1>6. said'[w] = (IF HasAnswered(new) THEN 1 ELSE 0) /\ \A v \in Workers : v # w => said'[v] = said[v]
  <2>1. said \in [Workers -> Nat]
    BY <1>1 DEF Stored
  <2>2. /\ said'[w] = IF m \in DOMAIN Tells THEN 0 ELSE 0 + 1
        /\ \A v \in Workers : v # w => said'[v] = said[v]
    <3> HIDE DEF m
    <3> QED BY <1>1, <1>3, <2>1
  <2>3. CASE m \in Answering
    BY <1>4, <1>5, <2>2, <2>3
  <2>4. CASE m \notin Answering
    BY <1>4, <1>5, <2>2, <2>4
  <2> QED BY <2>3, <2>4
<1>7. \A v \in Workers : Working(v)'
  BY <1>1, <1>2, <1>5, <1>6, RequestsAssumption, WorkerKept
<1>8. said' \in [Workers -> Nat] /\ told' \in [Subjects -> Nat]
  <2>1. said \in [Workers -> Nat] /\ told \in [Subjects -> Nat]
    BY <1>1 DEF Stored
  <2>2. said' \in [Workers -> Nat]
    BY <1>1, <2>1
  <2>3. told' = [told EXCEPT ![about[w]] = @ + 1] \/ told' = told
    BY DEF AnswerNext
  <2>4. told' \in [Subjects -> Nat]
    <3>1. told[about[w]] + 1 \in Nat
      BY <1>2, <2>1
    <3> QED BY <2>1, <2>3, <3>1
  <2> QED BY <2>2, <2>4
<1> QED BY <1>1, <1>7, <1>8 DEF Stored

\* What a method returns decides what its caller has answered.
LEMMA ReturnWorks ==
    ASSUME WorkersInv, NEW w \in Workers, NEW to, ReturnNext(w, to)
    PROVE  Stored' /\ \A v \in Workers : Working(v)'
<1> DEFINE frames == stack[w]
           n == Len(frames)
           top == frames[n]
           rest == Popped(frames)
<1>1. /\ Stored /\ w \in Busy /\ UNCHANGED stores
      /\ to \in Continuations(w) /\ top.at \in Results
      /\ stack' = [stack EXCEPT ![w] = IF n = 1 THEN <<>> ELSE GoneOn(rest, to)]
      /\ IF to = "end" THEN /\ said' = [said EXCEPT ![w] = 0]
                            /\ request' = [request EXCEPT ![w] = NoRequest]
         ELSE UNCHANGED <<request, said>>
  BY DEF WorkersInv, ReturnNext, Return, Continuations, Top, Runs
<1>2. Stored'
  <2>1. request \in [Workers -> Requests \cup {NoRequest}] /\ said \in [Workers -> Nat]
    BY <1>1 DEF Stored
  <2>2. request' \in [Workers -> Requests \cup {NoRequest}] /\ said' \in [Workers -> Nat]
    BY <1>1, <2>1
  <2> QED BY <1>1, <2>2 DEF Stored, stores
<1>3. /\ frames \in Seq(Frames) /\ frames # <<>> /\ Linked(frames) /\ Serves(frames)
      /\ top \in Frames /\ Reaches(top) /\ request[w] \in Requests
      /\ said[w] = IF top.at = "yes" /\ top.method \in Answering THEN 1 ELSE 0
      /\ Ordered(frames, about[w])
  BY <1>1, OfWorking, OfBusy DEF WorkersInv
<1>4. n \in Nat \ {0} /\ n \in 1..n /\ top.method \in Methods
  BY <1>3 DEF Frames
<1>5. CASE n = 1
  <2>1. to = "end" /\ stack' = [stack EXCEPT ![w] = <<>>]
    BY <1>1, <1>5 DEF Continuations
  <2>2. /\ \A v \in Workers : v # w => request'[v] = request[v] /\ said'[v] = said[v]
        /\ request'[w] = NoRequest /\ said'[w] = 0
    BY <1>1, <2>1 DEF Stored
  <2>3. Linked(<<>>) /\ Serves(<<>>) /\ ~HasAnswered(<<>>)
    BY DEF Linked, Serves, HasAnswered
  <2> QED BY <1>2, <2>1, <2>2, <2>3, WorkerKept
<1>6. CASE n # 1
  <2> DEFINE f == frames[n - 1]
             m == f.method
             point == Program[m][f.at]
             new == GoneOn(rest, to)
  <2>1. /\ rest \in Seq(Frames) /\ rest # <<>> /\ Linked(rest) /\ Serves(rest)
        /\ Len(rest) = n - 1 /\ rest[Len(rest)] = f
    BY <1>3, <1>4, <1>6, LinkedPopped
  <2>2. n - 1 \in 1..n /\ n - 1 \in 1..(n - 1) /\ n - 1 < n /\ n - 1 + 1 = n
    <3> HIDE DEF n
    <3> QED BY <1>4, <1>6
  <2>3. f.at \in DOMAIN Program[m] /\ point.call = top.method /\ m \in Methods
    <3>1. f \in Frames
      BY <1>3, <2>2, ElementOfSeq
    <3> QED BY <1>3, <1>4, <2>2, <3>1 DEF Ordered, Before, Linked, Frames
  <2>4. \/ top.at = "yes" /\ to \in point.yes
        \/ top.at = "no" /\ to \in point.no
    BY <1>1, <1>6 DEF Continuations, Caller, Top, Results
  <2> HIDE DEF n, top, rest, f, point
  <2>5. to \in TargetsOf(m)
    BY <2>3, <2>4 DEF TargetsOf, point
  <2>6. to # "end" /\ UNCHANGED <<request, said>>
    BY <1>1, <2>3, <2>5, AnsweringAssumption
  <2>7. stack' = [stack EXCEPT ![w] = new]
    BY <1>1, <1>6
  <2>8. /\ new # <<>> /\ Linked(new) /\ Serves(new)
        /\ HasAnswered(new) <=> to = "yes" /\ m \in Answering
    BY <2>1, <2>5, LinkedGoneOn
  <2> HIDE DEF new, m
  <2>9. top.at = "yes" /\ top.method \in Answering <=> to = "yes" /\ m \in Answering
    <3>1. /\ point.call \in Answering => m \in Answering /\ point.yes = {"yes"}
          /\ m \in Answering /\ point.call \notin Answering => "yes" \notin point.yes
          /\ m \in Answering /\ "yes" \in point.no => "no" \notin TargetsOf(point.call)
      BY <2>3, AnsweringAssumption DEF point, m
    <3>2. top.at = "no" => "no" \in TargetsOf(top.method)
      BY <1>3 DEF Reaches
    <3> QED BY <2>3, <2>4, <3>1, <3>2
  <2>10. said'[w] = IF HasAnswered(new) THEN 1 ELSE 0
    BY <1>3, <2>6, <2>8, <2>9
  <2> QED BY <1>2, <1>3, <2>6, <2>7, <2>8, <2>10, RequestsAssumption, WorkerKept
<1> QED BY <1>5, <1>6

\* No worker has a request at the beginning.
LEMMA WorkersInvInit == Init => WorkersInv
<1> SUFFICES ASSUME Init
             PROVE  WorkersInv
  OBVIOUS
<1>1. Nested
  BY NestedInit DEF Init
<1>2. Stored
  BY DEF Init, Stored
<1>3. ASSUME NEW w \in Workers
      PROVE  Working(w)
  BY DEF Init, CallsInit, Working, Linked, Serves, HasAnswered
<1> QED BY <1>1, <1>2, <1>3 DEF WorkersInv

\* Every step keeps the invariant.
LEMMA WorkersInvNext == WorkersInv /\ [Next]_vars => WorkersInv'
<1> SUFFICES ASSUME WorkersInv, [Next]_vars
             PROVE  WorkersInv'
  OBVIOUS
<1>1. Nested'
  BY StepOfCalls, NestedNext DEF WorkersInv
<1>2. ASSUME NEW w \in Workers,
             \/ \E r \in Requests : Receive(w, r)
             \/ \E u : WaitFor(w, u)
             \/ \E to : DecideNext(w, to) \/ ReturnNext(w, to)
             \/ CallNext(w) \/ AnswerNext(w)
      PROVE  WorkersInv'
  <2>1. Stored' /\ \A v \in Workers : Working(v)'
    BY <1>2, ReceiveWorks, WaitForWorks, DecideWorks, ReturnWorks, CallWorks, AnswerWorks
  <2> QED BY <1>1, <2>1 DEF WorkersInv
<1>3. ASSUME NEW c \in Connections, Break(c)
      PROVE  WorkersInv'
  <2>1. UNCHANGED <<stack, about, request, said, table, told>> /\ broken' = broken \cup {c}
    BY <1>3 DEF Break, callVars
  <2>2. Stored' /\ \A v \in Workers : Working(v)'
    BY <2>1 DEF WorkersInv, Stored, Working
  <2> QED BY <1>1, <2>2 DEF WorkersInv
<1>4. CASE Terminate
  <2>1. /\ \A w \in Workers : stack'[w] = <<>> /\ request'[w] = NoRequest /\ said'[w] = 0
        /\ request' = [w \in Workers |-> NoRequest] /\ said' = [w \in Workers |-> 0]
        /\ broken' = {} /\ UNCHANGED <<table, told>>
    BY <1>4 DEF Terminate, Abort
  <2>2. Stored'
    BY <2>1 DEF WorkersInv, Stored
  <2>3. \A w \in Workers : Working(w)'
    BY <2>1 DEF Working, Linked, Serves, HasAnswered
  <2> QED BY <1>1, <2>2, <2>3 DEF WorkersInv
<1>5. CASE UNCHANGED vars
  <2>1. Stored' /\ \A w \in Workers : Working(w)'
    BY <1>5 DEF vars, callVars, stores, WorkersInv, Stored, Working
  <2> QED BY <1>1, <2>1 DEF WorkersInv
<1> QED BY <1>2, <1>3, <1>4, <1>5 DEF Next

\* Every frame stands where the program of its method leads, at the call of
\* the next, and a request has been answered if and only if its running method
\* returns from an answer (the one `return' of each path of game_handler.cpp).
THEOREM WorkersInvariant == Spec => []WorkersInv
<1> QED BY WorkersInvInit, WorkersInvNext, PTL DEF Spec

\* The frames are those of methods and own what these need; who has frames has
\* a request (api_handler.cpp, postgres_connection_pool.cpp:15).
THEOREM HandlersTyped == Spec => []TypeOK
<1>1. WorkersInv => TypeOK
  <2> SUFFICES ASSUME WorkersInv
               PROVE  TypeOK
    OBVIOUS
  <2>1. ASSUME NEW w \in Workers, NEW i \in DOMAIN stack[w]
        PROVE  /\ stack[w][i].method \in Methods
               /\ stack[w][i].has \subseteq Needs[stack[w][i].method][about[w]]
    <3>1. stack[w] \in Seq(Frames) /\ Owning(stack[w], about[w]) /\ i \in 1..Len(stack[w])
      BY DEF WorkersInv, Nested, TypeInv
    <3>2. stack[w][i] \in Frames
      BY <3>1, ElementOfSeq
    <3> QED BY <3>1, <3>2 DEF Owning, Frames
  <2>2. \A w \in Workers : request[w] = NoRequest <=> w \notin Busy
    BY DEF WorkersInv, Working, Busy
  <2> QED BY <2>1, <2>2 DEF TypeOK, WorkersInv, Nested, TypeInv, Stored
<1> QED BY <1>1, WorkersInvariant, PTL

\* A request is answered or parked once on every way through the handlers, for
\* every number of workers, connections and requests and every program that
\* satisfies the assumptions (game_handler.cpp:100-121, 132-147).
THEOREM RequestsAnsweredOnce == Spec => []OneAnswer
<1>1. WorkersInv => OneAnswer
  <2> SUFFICES ASSUME WorkersInv, NEW w \in Workers
               PROVE  /\ said[w] <= 1
                      /\ Len(stack[w]) = 1 /\ Top(w).at \in Results => said[w] = 1
    BY DEF OneAnswer
  <2>1. said[w] \in {0, 1}
    BY DEF WorkersInv, Working
  <2>2. ASSUME Len(stack[w]) = 1, Top(w).at \in Results
        PROVE  said[w] = 1
    <3>1. stack[w] # <<>> /\ Top(w) = stack[w][1] /\ 1 \in 1..Len(stack[w])
      BY <2>2 DEF Top
    <3>2. w \in Busy
      BY <3>1 DEF Busy
    <3>3. Serves(stack[w]) /\ Reaches(Top(w))
          /\ said[w] = IF Top(w).at = "yes" /\ Top(w).method \in Answering THEN 1 ELSE 0
      BY <3>2, OfWorking
    <3>4. Top(w).method \in Functions
      BY <3>1, <3>3 DEF Serves
    <3>5. Top(w).at = "yes"
      BY <2>2, <3>3, <3>4, AnsweringAssumption DEF Reaches, Results
    <3> QED BY <3>3, <3>4, <3>5 DEF Answering
  <2> QED BY <2>1, <2>2
<1> QED BY <1>1, WorkersInvariant, PTL

-----------------------------------------------------------------------------
(* A login is confirmed once, for every number of workers and connections:  *)
(* with registrations that race for the row, connections that are lost      *)
(* while they commit, and a process that ends before it has answered.       *)

Special == {"Insert", "UserAddLine"}

\* The worker's INSERT has succeeded, which the client has not been told.
ConfirmsAt(m, p) ==
    \/ m \in Special /\ p = "yes"
    \/ m = "ApiRegister" /\ p = "success"
Confirms(f) == ConfirmsAt(f.method, f.at)
Confirming(w) == stack[w] # <<>> /\ Confirms(Top(w))

\* The inductive invariant: a success that is on its way is the only one for
\* its login, and the login is in the table.
Registering ==
    /\ told \in [Subjects -> {0, 1}]
    /\ \A s \in Subjects : told[s] = 1 => s \in table
    /\ \A w \in Workers : Confirming(w) => about[w] \in table /\ told[about[w]] = 0
    /\ \A v, w \in Workers : Confirming(v) /\ Confirming(w) /\ about[v] = about[w] => v = w
RegInv == WorkersInv /\ Registering

-----------------------------------------------------------------------------
(* Steps of one worker.                                                     *)

\* A step that tells nobody and makes no success keeps the promise.
LEMMA RegisteringKept ==
    ASSUME Registering, NEW w \in Workers,
           \A v \in Workers : v # w => stack'[v] = stack[v] /\ about'[v] = about[v],
           Confirming(w)' => Confirming(w) /\ about'[w] = about[w],
           told' = told, table \subseteq table'
    PROVE  Registering'
<1>1. ASSUME NEW v \in Workers, Confirming(v)'
      PROVE  Confirming(v) /\ about'[v] = about[v]
  <2>1. CASE v = w
    BY <1>1, <2>1
  <2>2. CASE v # w
    BY <1>1, <2>2 DEF Confirming, Top
  <2> QED BY <2>1, <2>2
<1>2. \A v \in Workers : Confirming(v)' => about'[v] \in table' /\ told'[about'[v]] = 0
  BY <1>1 DEF Registering
<1>3. \A u, v \in Workers : Confirming(u)' /\ Confirming(v)' /\ about'[u] = about'[v] => u = v
  BY <1>1 DEF Registering
<1> QED BY <1>2, <1>3 DEF Registering

\* A worker whose last frame goes on has a success only if it goes on to one.
LEMMA RunsOn ==
    ASSUME RegInv, NEW w \in Workers, w \in Busy, NEW frames, frames \in Seq(Frames),
           frames # <<>>, NEW to, Runs(w, GoneOn(frames, to))
    PROVE  /\ \A v \in Workers : v # w => stack'[v] = stack[v] /\ about'[v] = about[v]
           /\ about'[w] = about[w]
           /\ Confirming(w)' <=> ConfirmsAt(frames[Len(frames)].method, to)
<1> DEFINE new == GoneOn(frames, to)
           n == Len(frames)
<1>1. /\ Len(new) = n /\ n \in 1..n /\ n \in Nat \ {0}
      /\ new[n].method = frames[n].method /\ new[n].at = to
  BY GoneOnFrames
<1>2. frames[n] \in Frames
  BY <1>1
<1> HIDE DEF new
<1>3. TypeInv /\ Runs(w, new)
  BY DEF RegInv, WorkersInv, Nested, new
<1>4. /\ stack'[w] = new /\ about' = about
      /\ \A v \in Workers : v # w => stack'[v] = stack[v] /\ about'[v] = about[v]
  BY <1>3, RunsOthers
<1>5. new # <<>> /\ Top(w)' = new[n]
  <2>1. Top(w)' = new[n]
    BY <1>1, <1>4 DEF Top
  <2>2. new # <<>>
    BY <1>1
  <2> QED BY <2>1, <2>2
<1>6. Confirming(w)' <=> Confirms(new[n])
  BY <1>4, <1>5 DEF Confirming
<1> QED BY <1>1, <1>4, <1>6 DEF Confirms

\* A frame with which a method begins is no success.
LEMMA BeginsUnconfirmed ==
    ASSUME RegInv, NEW w \in Workers, NEW frames, stack' = [stack EXCEPT ![w] = frames],
           frames # <<>>, frames[Len(frames)].at \in {"start", "enter"}
    PROVE  /\ \A v \in Workers : v # w => stack'[v] = stack[v]
           /\ ~Confirming(w)'
<1>1. stack \in [Workers -> Seq(Frames)]
  BY DEF RegInv, WorkersInv, Nested, TypeInv
<1>2. stack'[w] = frames /\ \A v \in Workers : v # w => stack'[v] = stack[v]
  BY <1>1
<1> QED BY <1>2 DEF Confirming, Confirms, ConfirmsAt, Top

\* The promise is kept when a request is taken, the running method gets what it
\* waited for, or a method is called.
LEMMA BeginKeeps ==
    ASSUME RegInv, NEW w \in Workers,
           \/ \E r \in Requests : Receive(w, r)
           \/ \E u : WaitFor(w, u)
           \/ CallNext(w)
    PROVE  Registering'
<1>1. told' = told /\ table' = table
  BY DEF Receive, WaitFor, CallNext, stores
<1>2. PICK frames : /\ stack' = [stack EXCEPT ![w] = frames]
                    /\ frames # <<>> /\ frames[Len(frames)].at \in {"start", "enter"}
  <2>1. CASE \E r \in Requests : Receive(w, r)
    <3>1. PICK m, s : stack' = [stack EXCEPT ![w] = <<Frame(m, s)>>]
      BY <2>1 DEF Receive, Begin
    <3>2. Frame(m, s).at \in {"start", "enter"}
      BY DEF Frame
    <3>3. <<Frame(m, s)>> # <<>> /\ <<Frame(m, s)>>[Len(<<Frame(m, s)>>)] = Frame(m, s)
      OBVIOUS
    <3> QED BY <3>1, <3>2, <3>3
  <2>2. CASE \E u : WaitFor(w, u)
    <3>1. PICK u : /\ w \in Busy
                   /\ stack' = [stack EXCEPT ![w] =
                         [stack[w] EXCEPT ![Len(stack[w])] = [@ EXCEPT !.at = "start", !.has = {u}]]]
      BY <2>2 DEF WaitFor, Enter, Entering, Runs
    <3>2. stack[w] \in Seq(Frames) /\ stack[w] # <<>>
      BY <3>1, OfWorking DEF RegInv
    <3> DEFINE n == Len(stack[w])
               new == [stack[w] EXCEPT ![n] = [@ EXCEPT !.at = "start", !.has = {u}]]
    <3>3. n \in 1..n /\ stack[w][n] \in Frames
      BY <3>2
    <3>4. Len(new) = n /\ new[n].at = "start" /\ new # <<>>
      BY <3>2, <3>3 DEF Frames
    <3> QED BY <3>1, <3>4
  <2>3. CASE CallNext(w)
    <3>1. PICK m : w \in Busy /\ stack' = [stack EXCEPT ![w] = Append(stack[w], Frame(m, about[w]))]
      BY <2>3 DEF CallNext, Enters, AtPoint, Runs
    <3> DEFINE f == Frame(m, about[w])
               new == Append(stack[w], f)
    <3>2. f.at \in {"start", "enter"} /\ stack[w] \in Seq(Frames)
      BY <3>1, OfWorking DEF Frame, RegInv
    <3> HIDE DEF f
    <3>3. new # <<>> /\ new[Len(new)] = f
      BY <3>2
    <3> QED BY <3>1, <3>2, <3>3 DEF f
  <2> QED BY <2>1, <2>2, <2>3
<1>3. (\A v \in Workers : v # w => stack'[v] = stack[v]) /\ ~Confirming(w)'
  BY <1>2, BeginsUnconfirmed
<1>4. \A v \in Workers : v # w => about'[v] = about[v]
  <2>1. about \in [Workers -> Subjects]
    BY DEF RegInv, WorkersInv, Nested, TypeInv
  <2> QED BY <2>1 DEF Receive, Begin, WaitFor, Enter, CallNext, Enters, Runs
<1> QED BY <1>1, <1>3, <1>4, RegisteringKept DEF RegInv

\* Where a test of the running method leads: to a success of the INSERT only.
LEMMA Decided ==
    ASSUME RegInv, NEW w \in Workers, NEW to, Decide(w, to)
    PROVE  /\ w \in Busy /\ stack[w] # <<>> /\ stack[w] \in Seq(Frames)
           /\ about[w] \in Subjects /\ Runs(w, GoneOn(stack[w], to))
           /\ ConfirmsAt(Top(w).method, to) => Top(w).method = "Insert" /\ to = "yes"
<1> DEFINE m == Top(w).method
<1>1. /\ w \in Busy /\ Runs(w, GoneOn(stack[w], to))
      /\ Top(w).at \in DOMAIN Program[m] /\ Program[m][Top(w).at].call = "none"
      /\ to \in Program[m][Top(w).at].yes
  BY DEF Decide, AtPoint, Point
<1>2. stack[w] # <<>> /\ stack[w] \in Seq(Frames) /\ about[w] \in Subjects
  BY <1>1, OfWorking DEF RegInv
<1>3. ASSUME ConfirmsAt(m, to)
      PROVE  m = "Insert" /\ to = "yes"
  <2>1. \/ m \in Special /\ to = "yes"
        \/ m = "ApiRegister" /\ to = "success"
    BY <1>3 DEF ConfirmsAt
  <2>2. m # "UserAddLine" \/ to # "yes"
    BY <1>1, RegisteringAssumption
  <2>3. m # "ApiRegister" \/ to # "success"
    BY <1>1, RegisteringAssumption
  <2> QED BY <2>1, <2>2, <2>3 DEF Special
<1> QED BY <1>1, <1>2, <1>3

\* It is kept by a test: an INSERT that succeeds is the first of its login.
LEMMA DecideKeeps ==
    ASSUME RegInv, NEW w \in Workers, NEW to, DecideNext(w, to)
    PROVE  Registering'
<1>1. Decide(w, to) /\ told' = told
  BY DEF DecideNext
<1>2. /\ w \in Busy /\ stack[w] # <<>> /\ stack[w] \in Seq(Frames)
      /\ about[w] \in Subjects /\ Runs(w, GoneOn(stack[w], to))
      /\ ConfirmsAt(Top(w).method, to) => Top(w).method = "Insert" /\ to = "yes"
  BY <1>1, Decided
<1>3. /\ \A v \in Workers : v # w => stack'[v] = stack[v] /\ about'[v] = about[v]
      /\ about'[w] = about[w]
      /\ Confirming(w)' <=> ConfirmsAt(Top(w).method, to)
  BY <1>2, RunsOn DEF Top
<1>4. CASE Top(w).method = "Insert" /\ to = "yes"
  <2>1. about[w] \notin table /\ table' = table \cup {about[w]} /\ about[w] \in Subjects
    BY <1>2, <1>4 DEF DecideNext, Inserts
  <2>2. told[about[w]] = 0
    BY <2>1 DEF RegInv, Registering
  <2>3. ASSUME NEW v \in Workers, v # w, Confirming(v)'
        PROVE  Confirming(v) /\ about'[v] = about[v] /\ about[v] # about[w]
    <3>1. Confirming(v)
      BY <1>3, <2>3 DEF Confirming, Top
    <3> QED BY <1>3, <2>1, <2>3, <3>1 DEF RegInv, Registering
  <2>4. \A v \in Workers : Confirming(v)' => about'[v] \in table' /\ told'[about'[v]] = 0
    <3> SUFFICES ASSUME NEW v \in Workers, Confirming(v)'
                 PROVE  about'[v] \in table' /\ told'[about'[v]] = 0
      OBVIOUS
    <3>1. CASE v = w
      BY <1>1, <1>3, <2>1, <2>2, <3>1
    <3>2. CASE v # w
      BY <1>1, <2>1, <2>3, <3>2 DEF RegInv, Registering
    <3> QED BY <3>1, <3>2
  <2>5. \A u, v \in Workers : Confirming(u)' /\ Confirming(v)' /\ about'[u] = about'[v] => u = v
    <3> SUFFICES ASSUME NEW u \in Workers, NEW v \in Workers, Confirming(u)', Confirming(v)',
                        about'[u] = about'[v]
                 PROVE  u = v
      OBVIOUS
    <3>1. CASE u = w \/ v = w
      BY <1>3, <2>3, <3>1
    <3>2. CASE u # w /\ v # w
      BY <2>3, <3>2 DEF RegInv, Registering
    <3> QED BY <3>1, <3>2
  <2>6. told' \in [Subjects -> {0, 1}] /\ \A s \in Subjects : told'[s] = 1 => s \in table'
    BY <1>1, <2>1 DEF RegInv, Registering
  <2> QED BY <2>4, <2>5, <2>6 DEF Registering
<1>5. CASE ~(Top(w).method = "Insert" /\ to = "yes")
  <2>1. ~Confirming(w)'
    BY <1>2, <1>3, <1>5
  <2>2. table \subseteq table'
    BY <1>5 DEF DecideNext, Inserts
  <2> QED BY <1>1, <1>3, <2>1, <2>2, RegisteringKept DEF RegInv
<1> QED BY <1>4, <1>5

\* It is kept by an answer: the one success of a login is told.
LEMMA AnswerKeeps ==
    ASSUME RegInv, NEW w \in Workers, AnswerNext(w)
    PROVE  Registering'
<1>1. /\ w \in Busy /\ Runs(w, GoneOn(stack[w], "yes"))
      /\ Top(w).at \notin DOMAIN Program[Top(w).method] \cup Results \cup {"enter", "throw"}
  BY DEF AnswerNext, Answer, AtPoint
<1>2. /\ stack[w] # <<>> /\ stack[w] \in Seq(Frames) /\ about[w] \in Subjects
      /\ Top(w) = stack[w][Len(stack[w])] /\ Reaches(Top(w))
  BY <1>1, OfWorking DEF RegInv
<1>3. Top(w).method \notin Special
  <2>1. Top(w).at \in TargetsOf(Top(w).method) \cup {"start", "enter", "yes"}
    BY <1>2 DEF Reaches
  <2> QED BY <1>1, <2>1, RegisteringAssumption DEF Special, TargetsOf, Results
<1>4. /\ \A v \in Workers : v # w => stack'[v] = stack[v] /\ about'[v] = about[v]
      /\ about'[w] = about[w]
      /\ Confirming(w)' <=> ConfirmsAt(Top(w).method, "yes")
  BY <1>1, <1>2, RunsOn
<1>5. ~Confirming(w)'
  BY <1>3, <1>4 DEF ConfirmsAt
<1>6. table' = table /\ told' = IF Top(w).method = "ApiRegister" /\ Top(w).at = "success"
                                THEN [told EXCEPT ![about[w]] = @ + 1] ELSE told
  BY DEF AnswerNext
<1>7. CASE Top(w).method = "ApiRegister" /\ Top(w).at = "success"
  <2>1. Confirming(w)
    BY <1>2, <1>7 DEF Confirming, Confirms, ConfirmsAt
  <2>2. about[w] \in table /\ told[about[w]] = 0 /\ told \in [Subjects -> {0, 1}]
    BY <2>1 DEF RegInv, Registering
  <2>3. /\ told'[about[w]] = 1 /\ told' \in [Subjects -> {0, 1}]
        /\ \A s \in Subjects : s # about[w] => told'[s] = told[s]
    BY <1>2, <1>6, <1>7, <2>2
  <2>4. ASSUME NEW v \in Workers, Confirming(v)'
        PROVE  v # w /\ Confirming(v) /\ about'[v] = about[v] /\ about[v] # about[w]
    <3>1. v # w
      BY <1>5, <2>4
    <3>2. Confirming(v) /\ about'[v] = about[v]
      BY <1>4, <2>4, <3>1 DEF Confirming, Top
    <3> QED BY <2>1, <3>1, <3>2 DEF RegInv, Registering
  <2>5. \A v \in Workers : Confirming(v)' => about'[v] \in table' /\ told'[about'[v]] = 0
    <3> SUFFICES ASSUME NEW v \in Workers, Confirming(v)'
                 PROVE  about'[v] \in table' /\ told'[about'[v]] = 0
      OBVIOUS
    <3>1. about[v] \in table /\ told[about[v]] = 0 /\ about[v] \in Subjects
      BY <2>4 DEF RegInv, WorkersInv, Nested, Registering, TypeInv
    <3> QED BY <1>6, <2>3, <2>4, <3>1
  <2>6. \A u, v \in Workers : Confirming(u)' /\ Confirming(v)' /\ about'[u] = about'[v] => u = v
    BY <2>4 DEF RegInv, Registering
  <2>7. \A s \in Subjects : told'[s] = 1 => s \in table'
    BY <1>6, <2>2, <2>3 DEF RegInv, Registering
  <2> QED BY <2>3, <2>5, <2>6, <2>7 DEF Registering
<1>8. CASE ~(Top(w).method = "ApiRegister" /\ Top(w).at = "success")
  <2>1. told' = told /\ table \subseteq table'
    BY <1>6, <1>8
  <2> QED BY <1>4, <1>5, <2>1, RegisteringKept DEF RegInv
<1> QED BY <1>7, <1>8

\* It is kept by a return: a method reports the success of the one it called,
\* and no other.
LEMMA ReturnKeeps ==
    ASSUME RegInv, NEW w \in Workers, NEW to, ReturnNext(w, to)
    PROVE  Registering'
<1> DEFINE frames == stack[w]
           n == Len(frames)
           top == frames[n]
           rest == Popped(frames)
<1>1. /\ TypeInv /\ w \in Busy
      /\ to \in Continuations(w) /\ top.at \in Results
      /\ Runs(w, IF n = 1 THEN <<>> ELSE GoneOn(rest, to))
  BY DEF RegInv, WorkersInv, Nested, ReturnNext, Return, Continuations, Top
<1>2. /\ frames \in Seq(Frames) /\ frames # <<>> /\ Linked(frames) /\ Serves(frames)
      /\ Top(w) = top /\ top \in Frames /\ Ordered(frames, about[w])
  BY <1>1, OfWorking, OfBusy DEF RegInv, WorkersInv
<1>3. n \in Nat \ {0} /\ n \in 1..n
  BY <1>2
<1>4. told' = told /\ table \subseteq table'
  BY DEF ReturnNext, stores
<1>5. CASE n = 1
  <2>1. Runs(w, <<>>)
    BY <1>1, <1>5
  <2>2. /\ stack'[w] = <<>>
        /\ \A v \in Workers : v # w => stack'[v] = stack[v] /\ about'[v] = about[v]
    BY <1>1, <2>1, RunsOthers
  <2>3. ~Confirming(w)'
    BY <2>2 DEF Confirming
  <2> QED BY <1>4, <2>2, <2>3, RegisteringKept DEF RegInv
<1>6. CASE n # 1
  <2> DEFINE f == frames[n - 1]
             m == f.method
             point == Program[m][f.at]
  <2>1. rest \in Seq(Frames) /\ rest # <<>> /\ rest[Len(rest)] = f
    BY <1>2, <1>3, <1>6, LinkedPopped
  <2>2. n - 1 \in 1..n /\ n - 1 \in 1..(n - 1) /\ n - 1 < n /\ n - 1 + 1 = n
    <3> HIDE DEF n
    <3> QED BY <1>3, <1>6
  <2>3. f.at \in DOMAIN Program[m] /\ point.call = top.method
    BY <1>2, <1>3, <2>2 DEF Ordered, Before, Linked
  <2>4. \/ top.at = "yes" /\ to \in point.yes
        \/ top.at = "no" /\ to \in point.no
    BY <1>1, <1>6 DEF Continuations, Caller, Top, Results
  <2>5. Runs(w, GoneOn(rest, to))
    BY <1>1, <1>6
  <2>6. /\ \A v \in Workers : v # w => stack'[v] = stack[v] /\ about'[v] = about[v]
        /\ about'[w] = about[w]
        /\ Confirming(w)' <=> ConfirmsAt(m, to)
    BY <1>1, <2>1, <2>5, RunsOn
  <2>7. top.method # "none"
    BY <1>2, RegisteringAssumption DEF Frames
  <2> HIDE DEF n, top, rest, f, point
  <2>8. ASSUME ConfirmsAt(m, to)
        PROVE  Confirming(w)
    <3>1. \/ m \in Special /\ to = "yes"
          \/ m = "ApiRegister" /\ to = "success"
      BY <2>8 DEF ConfirmsAt
    <3>2. top.method \in Special /\ top.at = "yes"
      BY <2>3, <2>4, <2>7, <3>1, RegisteringAssumption DEF Special, point
    <3> QED BY <1>2, <3>2 DEF Confirming, Confirms, ConfirmsAt
  <2> QED BY <1>4, <2>6, <2>8, RegisteringKept DEF RegInv
<1> QED BY <1>5, <1>6

\* The invariant holds initially.
LEMMA RegInvInit == Init => RegInv
<1> SUFFICES ASSUME Init
             PROVE  RegInv
  OBVIOUS
<1>1. \A w \in Workers : stack[w] = <<>>
  BY DEF Init, CallsInit
<1>2. Registering
  BY <1>1 DEF Registering, Confirming, Init
<1> QED BY <1>2, WorkersInvInit DEF RegInv

\* Every step keeps it.
LEMMA RegInvNext == RegInv /\ [Next]_vars => RegInv'
<1> SUFFICES ASSUME RegInv, [Next]_vars
             PROVE  Registering'
  BY WorkersInvNext DEF RegInv
<1>1. ASSUME NEW w \in Workers,
             \/ \E r \in Requests : Receive(w, r)
             \/ \E u : WaitFor(w, u)
             \/ CallNext(w)
      PROVE  Registering'
  BY <1>1, BeginKeeps
<1>2. ASSUME NEW w \in Workers, NEW to, DecideNext(w, to)
      PROVE  Registering'
  BY <1>2, DecideKeeps
<1>3. ASSUME NEW w \in Workers, AnswerNext(w)
      PROVE  Registering'
  BY <1>3, AnswerKeeps
<1>4. ASSUME NEW w \in Workers, NEW to, ReturnNext(w, to)
      PROVE  Registering'
  BY <1>4, ReturnKeeps
<1>5. ASSUME UNCHANGED <<stack, about, table, told>>
      PROVE  Registering'
  BY <1>5 DEF RegInv, Registering, Confirming, Top
<1>6. ASSUME NEW c \in Connections, Break(c)
      PROVE  Registering'
  BY <1>5, <1>6 DEF Break, callVars
<1>7. ASSUME Terminate
      PROVE  Registering'
  <2>1. (\A w \in Workers : stack'[w] = <<>>) /\ table' = table /\ told' = told
    BY <1>7 DEF Terminate, Abort
  <2> QED BY <2>1 DEF RegInv, Registering, Confirming
<1>8. ASSUME UNCHANGED vars
      PROVE  Registering'
  BY <1>5, <1>8 DEF vars, callVars, stores
<1> QED BY <1>1, <1>2, <1>3, <1>4, <1>6, <1>7, <1>8 DEF Next

\* A registration is confirmed at most once for a login and its account stays,
\* for every number of workers, connections and logins: the unique column
\* (postgresql_tables.md:5) is enough, however registrations race, connections
\* break at the commit and the process ends (user_manager_postgres.cpp:9-23,
\* general_handler.cpp:36-50).
THEOREM LoginConfirmedOnce == Spec => []RegisteredOnce
<1>1. RegInv => RegisteredOnce
  BY DEF RegInv, Registering, RegisteredOnce
<1> QED BY <1>1, RegInvInit, RegInvNext, PTL DEF Spec

=============================================================================
