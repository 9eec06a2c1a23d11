------------------------------- MODULE Calls --------------------------------
(***************************************************************************)
(* Worker threads that run methods which call each other and hold locks    *)
(* while they run: the shape of every request of the server. A method is   *)
(* a small flow graph; what its tests compare is left open, so that a      *)
(* program stands for all that its code can do. What a method locks (a     *)
(* mutex, a connection of the pool) it owns from its entry to its return,  *)
(* as std::lock_guard, Lock<T> and ConnectionWrapper do.                   *)
(***************************************************************************)
EXTENDS Naturals, Sequences

CONSTANTS Workers,   \* the threads
          Subjects,  \* what a request is about: a match, a login
          Methods,   \* the names of the methods
          Program,   \* the points of each method
          Needs,     \* the things one of which a method on a subject owns
          Level      \* where a method stands in the order of the locks

\* A point calls a method and goes on by what it returns, or tests something
\* and goes on to one of several targets. A target is a point of the method,
\* what it returns, "throw", or an answer to a request.
Call(m, yes, no) == [call |-> m, yes |-> yes, no |-> no]
Test(targets) == [call |-> "none", yes |-> targets, no |-> {}]
Results == {"yes", "no"}

\* Methods that contend for something stand at the same level; calls lead up
\* in the order, and strictly up out of a method that owns something.
ASSUME LevelAssumption ==
    /\ Level \in [Methods -> 0..5]
    /\ \A m, n \in Methods, s, t \in Subjects :
          Needs[m][s] \cap Needs[n][t] # {} => Level[m] = Level[n]
ASSUME ProgramAssumption ==
    \A m \in Methods : \A p \in DOMAIN Program[m] :
       LET c == Program[m][p].call
       IN  /\ "enter" \notin Program[m][p].yes \cup Program[m][p].no
           /\ c # "none" => /\ c \in Methods
                            /\ Level[m] <= Level[c]
                            /\ \A s \in Subjects : Needs[m][s] # {} => Level[m] < Level[c]

VARIABLES stack,  \* the frames of a worker, the running method last
          about   \* the subject of its request

callVars == <<stack, about>>

CallsInit == /\ stack = [w \in Workers |-> <<>>]
             /\ about \in [Workers -> Subjects]

-----------------------------------------------------------------------------

Busy == {w \in Workers : stack[w] # <<>>}
Top(w) == stack[w][Len(stack[w])]
Owns(w) == UNION {stack[w][i].has : i \in DOMAIN stack[w]}
Owned == UNION {Owns(w) : w \in Workers}

\* The point the running method stands at.
AtPoint(w) == w \in Busy /\ Top(w).at \in DOMAIN Program[Top(w).method]
Point(w) == Program[Top(w).method][Top(w).at]

\* The running method waits for what it needs; all of it is owned.
Entering(w) == w \in Busy /\ Top(w).at = "enter"
Wanted(w) == Needs[Top(w).method][about[w]]
Blocked(w) == Entering(w) /\ Wanted(w) \subseteq Owned

Frame(m, s) == [method |-> m, at |-> IF Needs[m][s] = {} THEN "start" ELSE "enter", has |-> {}]

\* The frames of w with the last one at `to'.
GoneOn(frames, to) == [frames EXCEPT ![Len(frames)].at = to]

\* Mutant: what the callee locked stays locked until the caller returns (the
\* wrapper or the lock is moved out of the method).
PoppedNotReleased(frames) ==
    LET callee == frames[Len(frames)]
        rest == SubSeq(frames, 1, Len(frames) - 1)
    IN  IF rest = <<>> THEN rest
        ELSE [rest EXCEPT ![Len(rest)].has = @ \cup callee.has]

\* The frames without the last one.
Popped(frames) == SubSeq(frames, 1, Len(frames) - 1)

\* The worker runs `frames' next.
Runs(w, frames) == stack' = [stack EXCEPT ![w] = frames] /\ UNCHANGED about

-----------------------------------------------------------------------------

\* A worker takes a request about s, which method m handles.
Begin(w, m, s) ==
    /\ w \notin Busy
    /\ stack' = [stack EXCEPT ![w] = <<Frame(m, s)>>]
    /\ about' = [about EXCEPT ![w] = s]

\* The method gets what it waited for.
Enter(w, u) ==
    /\ Entering(w)
    /\ u \in Wanted(w) \ Owned
    /\ Runs(w, [stack[w] EXCEPT ![Len(stack[w])] = [@ EXCEPT !.at = "start", !.has = {u}]])

\* A test decides for `to'.
Decide(w, to) ==
    /\ AtPoint(w)
    /\ Point(w).call = "none"
    /\ to \in Point(w).yes
    /\ Runs(w, GoneOn(stack[w], to))

Enters(w) ==
    /\ AtPoint(w)
    /\ Point(w).call # "none"
    /\ Runs(w, Append(stack[w], Frame(Point(w).call, about[w])))

\* Mutant: the method goes on behind an answer, without `return'.
AnswerGoesOn(w) ==
    /\ w \in Busy /\ ~AtPoint(w)
    /\ Top(w).at \notin Results \cup {"enter", "throw"}
    /\ \E to \in {"yes"} \cup DOMAIN Program[Top(w).method] : Runs(w, GoneOn(stack[w], to))

\* An answer is sent, and the method returns.
Answer(w) ==
    /\ w \in Busy /\ ~AtPoint(w)
    /\ Top(w).at \notin Results \cup {"enter", "throw"}
    /\ Runs(w, GoneOn(stack[w], "yes"))

\* Where the caller of a method that returned goes on, "end" without one.
Caller(w) == stack[w][Len(stack[w]) - 1]
Continuations(w) ==
    IF w \notin Busy \/ Top(w).at \notin Results THEN {}
    ELSE IF Len(stack[w]) = 1 THEN {"end"}
    ELSE Program[Caller(w).method][Caller(w).at][Top(w).at]

Return(w, to) ==
    /\ to \in Continuations(w)
    /\ Runs(w, IF Len(stack[w]) = 1 THEN <<>> ELSE GoneOn(Popped(stack[w]), to))

\* An exception nobody catches: std::terminate ends all workers, and the
\* process is started again.
Abort ==
    /\ \E w \in Busy : Top(w).at = "throw"
    /\ stack' = [w \in Workers |-> <<>>]
    /\ UNCHANGED about

CallsNext ==
    \/ \E w \in Workers :
          \/ \E m \in Methods, s \in Subjects : Begin(w, m, s)
          \/ \E u : Enter(w, u)
          \/ \E to : Decide(w, to) \/ Return(w, to)
          \/ Enters(w) \/ Answer(w)
    \/ Abort

CallsSpec == CallsInit /\ [][CallsNext]_callVars

-----------------------------------------------------------------------------
(* While a request is handled, the worker of some request can go on: the
   workers never wait for each other's locks in a circle. *)
NoDeadlock == Busy # {} => \E w \in Busy : ~Blocked(w)

=============================================================================
