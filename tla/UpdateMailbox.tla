--------------------------- MODULE UpdateMailbox ----------------------------
(***************************************************************************)
(* What the session notifier promises (docs/notification_system.md): a     *)
(* subscriber whose poll is open when something happens is answered, one   *)
(* who has no open poll is answered as soon as it opens one, even when the *)
(* match is over by then, and nobody is answered twice for one happening.  *)
(***************************************************************************)
CONSTANT Users

VARIABLES members,  \* the subscribers
          polling,  \* the subscribers with an open poll
          fresh     \* the users who have not been told the last happening

vars == <<members, polling, fresh>>

Init == members = {} /\ polling = {} /\ fresh = {}

Join(new) ==
    /\ members' = members \cup new
    /\ UNCHANGED <<polling, fresh>>

Happen ==
    /\ fresh' = fresh \cup (members \ polling)
    /\ polling' = {}
    /\ UNCHANGED members

\* A poll takes what is fresh, or opens; a second open poll replaces the first.
Poll(u) ==
    IF u \in fresh
    THEN /\ fresh' = fresh \ {u}
         /\ members' \in {members, members \cup {u}}
         /\ UNCHANGED polling
    ELSE /\ polling' = polling \cup {u}
         /\ members' = members \cup {u}
         /\ UNCHANGED fresh

Close ==
    /\ members' = {}
    /\ polling' = {}
    /\ UNCHANGED fresh

Next == \/ \E new \in SUBSET Users : Join(new)
        \/ Happen
        \/ \E u \in Users : Poll(u)
        \/ Close

Spec == Init /\ [][Next]_vars

=============================================================================
