-------------------------- MODULE EventListWrapper --------------------------
(***************************************************************************)
(* The event list of a session (game_manager/event_manager.cpp): the list  *)
(* of events `value', the numbers `from' at which the players' polls enter *)
(* it (from[k] events precede the first event of the k-th indexed move)    *)
(* and the move number `move' that the next event is stamped with.         *)
(*                                                                         *)
(* The operators are pure: they map a wrapper to the wrapper a method      *)
(* leaves, so that the log can be a variable of whichever module keeps it. *)
(***************************************************************************)
EXTENDS Integers, Sequences

\* A wrapper as it is constructed and as Clear() leaves it.
Cleared == [value |-> <<>>, from |-> <<>>, move |-> 0]

\* The move number of the last event, 0 when there is none.
LastMove(w) == IF w.value = <<>> THEN 0 ELSE w.value[Len(w.value)].move

\* SetMoveNumber(mn).
SetMoveNumber(w, mn) == [w EXCEPT !.move = mn]

\* AddEvent throws std::logic_error when the stamp is below that of the last
\* event, or below 1 for the first one.
Throws(w) == w.move < IF w.value = <<>> THEN 1 ELSE LastMove(w)

\* The event opens the move after the last event's (move 1 in an empty list):
\* the only events that get an entry in from_move_.
OpensMove(w) == w.move = LastMove(w) + 1

\* Mutant of AddEvent: the index gets the number of events after the new one.
AddEventIndexLate(w, e) ==
    [w EXCEPT !.value = Append(@, [move |-> w.move, event |-> e]),
              !.from  = IF OpensMove(w) THEN Append(@, Len(w.value) + 1) ELSE @]

\* AddEvent(e) when it does not throw.
AddEvent(w, e) ==
    [w EXCEPT !.value = Append(@, [move |-> w.move, event |-> e]),
              !.from  = IF OpensMove(w) THEN Append(@, Len(w.value)) ELSE @]

\* FromMove(n): the events a poll that has seen the moves before n is sent.
FromMove(w, n) ==
    IF n < 1 THEN w.value
    ELSE IF n > Len(w.from) THEN <<>>
    ELSE SubSeq(w.value, w.from[n] + 1, Len(w.value))

=============================================================================
