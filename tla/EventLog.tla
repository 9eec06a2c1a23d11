------------------------------ MODULE EventLog ------------------------------
(***************************************************************************)
(* The life of a session's event list: what ApiMove, the 5 second timer of *)
(* AfterMove and the debug handler's SetState do to it, step by step.      *)
(*                                                                         *)
(* ApiMove runs under the session's mutex, so one move at a time writes    *)
(* the list. SetState (http_handler/debug_handler.cpp) takes no lock: it   *)
(* replaces the state and then clears the list, and the steps of a move,   *)
(* of its timer and of other SetStates come before, between and after the  *)
(* two. A call of an EventListWrapper method is one step.                  *)
(***************************************************************************)
EXTENDS EventListWrapper

CONSTANTS Events,        \* the events a move may report
          Setters,       \* the requests that call SetState
          PayloadMoves,  \* the move numbers a SetState payload may carry
          MaxMove,       \* bound on the move number
          MaxEvents      \* bound on the length of the list

ASSUME PayloadAssumption == PayloadMoves \subseteq Nat
ASSUME BoundAssumption == MaxMove \in Nat /\ MaxEvents \in Nat

VARIABLES log,         \* events_wrapper_
          moveNumber,  \* state_->move_number
          captured,    \* the move number the running timer was started with
          pc,          \* where the thread that runs ApiMove, or its timer, stands
          setter,      \* where the threads that run SetState stand
          base         \* history: the move number the list starts after

vars == <<log, moveNumber, captured, pc, setter, base>>

Entry == [move : Nat, event : Events]
PC == {"idle", "counted", "begun", "emitting", "timer", "aborting", "crashed"}
SetterPC == {"idle", "replaced"}

Init == /\ log = Cleared
        /\ moveNumber = 0
        /\ captured = 0
        /\ pc = "idle"
        /\ setter = [s \in Setters |-> "idle"]
        /\ base = 0

-----------------------------------------------------------------------------
\* IncreaseMoveNumber, the first call of an accepted move: ++state_->move_number.
CountMove ==
    /\ pc = "idle"
    /\ moveNumber < MaxMove
    /\ moveNumber' = moveNumber + 1
    /\ pc' = "counted"
    /\ UNCHANGED <<log, captured, setter, base>>

\* Mutant: the list is stamped with the number before the one of the move,
\* which an increment in the wrong place would give.
StampBeforeLast ==
    /\ pc = "counted"
    /\ log' = SetMoveNumber(log, moveNumber - 1)
    /\ pc' = "begun"
    /\ UNCHANGED <<moveNumber, captured, setter, base>>

\* Its second line: SetMoveNumber(state_->move_number).
StampMove ==
    /\ pc = "counted"
    /\ log' = SetMoveNumber(log, moveNumber)
    /\ pc' = "begun"
    /\ UNCHANGED <<moveNumber, captured, setter, base>>

\* The move reports an event. The exception AddEvent throws is caught by
\* nobody: the worker thread's std::terminate ends the server.
Report(e) ==
    /\ pc \in {"begun", "emitting"}
    /\ Len(log.value) < MaxEvents
    /\ IF Throws(log)
       THEN /\ pc' = "crashed"
            /\ UNCHANGED log
       ELSE /\ pc' = "emitting"
            /\ log' = AddEvent(log, e)
    /\ UNCHANGED <<moveNumber, captured, setter, base>>

\* The move ended the match: ApiMove returns.
ReturnFinished ==
    /\ pc = "emitting"
    /\ pc' = "idle"
    /\ UNCHANGED <<log, moveNumber, captured, setter, base>>

\* The move did not end the match: AfterMove starts the timer and waits for it.
StartTimer ==
    /\ pc = "emitting"
    /\ captured' = moveNumber
    /\ pc' = "timer"
    /\ UNCHANGED <<log, moveNumber, setter, base>>

\* TimerAbort's test: a state with another number keeps the match going.
TimerExpires ==
    /\ pc = "timer"
    /\ pc' = IF moveNumber = captured THEN "aborting" ELSE "idle"
    /\ UNCHANGED <<log, moveNumber, captured, setter, base>>

\* TimerAbort's event. Its exception stays in the future, which nobody reads.
TimerAbort(e) ==
    /\ pc = "aborting"
    /\ Len(log.value) < MaxEvents
    /\ log' = IF Throws(log) THEN log ELSE AddEvent(log, e)
    /\ pc' = "idle"
    /\ UNCHANGED <<moveNumber, captured, setter, base>>

\* SetState's first write: the state, and with it the move number, is another.
ReplaceState(s, n) ==
    /\ pc # "crashed"
    /\ setter[s] = "idle"
    /\ moveNumber' = n
    /\ setter' = [setter EXCEPT ![s] = "replaced"]
    /\ UNCHANGED <<log, captured, pc, base>>

\* The number of the last move that is not under way between its count and
\* its stamp: what a list that is cleared now starts after.
Started == IF pc = "counted" THEN moveNumber - 1 ELSE moveNumber

\* Mutant: SetState without events_wrapper_->Clear().
ClearNothing(s) ==
    /\ pc # "crashed"
    /\ setter[s] = "replaced"
    /\ base' = Started
    /\ setter' = [setter EXCEPT ![s] = "idle"]
    /\ UNCHANGED <<log, moveNumber, captured, pc>>

\* SetState's second write: the list is cleared, its stamp is 0 and not the
\* new state's number.
ClearList(s) ==
    /\ pc # "crashed"
    /\ setter[s] = "replaced"
    /\ log' = Cleared
    /\ base' = Started
    /\ setter' = [setter EXCEPT ![s] = "idle"]
    /\ UNCHANGED <<moveNumber, captured, pc>>

Next == \/ CountMove
        \/ StampMove
        \/ \E e \in Events : Report(e)
        \/ ReturnFinished
        \/ StartTimer
        \/ TimerExpires
        \/ \E e \in Events : TimerAbort(e)
        \/ \E s \in Setters, n \in PayloadMoves : ReplaceState(s, n)
        \/ \E s \in Setters : ClearList(s)

Spec == Init /\ [][Next]_vars

-----------------------------------------------------------------------------
(* The list, the index and the numbers are of their types. *)
TypeOK ==
    /\ log \in [value : Seq(Entry), from : Seq(Nat), move : Nat]
    /\ moveNumber \in Nat
    /\ captured \in Nat
    /\ pc \in PC
    /\ setter \in [Setters -> SetterPC]
    /\ base \in Nat \cup {-1}

\* No SetState stands between its two writes.
Settled == \A s \in Setters : setter[s] = "idle"

\* A list that starts after a move n > 0 has no entry in from_move_ for its
\* first move, n + 1: the k-th entry belongs to move n + 1 + k.
Shift == IF base = 0 THEN 0 ELSE base + 1

\* The events whose move is at least m are exactly those after the first d.
CutAt(d, m) ==
    /\ d \in 0..Len(log.value)
    /\ \A i \in 1..Len(log.value) : i > d <=> log.value[i].move >= m

(* A poll from move n is sent every event of move n + Shift and later and none
   of an earlier one, whatever moves, timers and SetStates have crossed before:
   of move n itself when the list starts after move 0, as after Init. Promised
   whenever no SetState stands between its writes: in between, moves of the new
   state are appended to the list of the old one (FromMove,
   event_manager.cpp:38, behind every session_state_change). *)
FromMoveExact ==
    Settled =>
        \A n \in 1..(MaxMove + 1) :
            LET s == FromMove(log, n)
                d == Len(log.value) - Len(s)
            IN  /\ s = SubSeq(log.value, d + 1, Len(log.value))
                /\ CutAt(d, n + Shift)

\* Each entry of from_move_ is where its move begins in the list.
EntriesCut == \A k \in 1..Len(log.from) : CutAt(log.from[k], k + Shift)

(* Every entry of from_move_ cuts the list at the first event of one move and
   the entries name consecutive moves, shifted by the move the list starts
   after, unless a SetState stands between its writes (from_move_.push_back,
   event_manager.cpp:22). *)
IndexCuts == Settled => EntriesCut

(* A running move can crash the server only by a SetState that crosses it: one
   that stands between its two writes, so that the move of the new state stamps
   the list of the old one, or one that has cleared the list since the move
   stamped it (event_manager.cpp:18). *)
ThrowsOnlyIfCleared ==
    pc \in {"begun", "emitting"} /\ Throws(log) => log = Cleared \/ ~Settled

=============================================================================
