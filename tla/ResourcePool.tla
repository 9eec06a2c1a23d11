---------------------------- MODULE ResourcePool ----------------------------
(***************************************************************************)
(* What a pool promises its users, whatever it is made of: a resource has  *)
(* at most one holder, and a user has at most one resource.                *)
(***************************************************************************)
CONSTANTS Users, Resources,
          None   \* no resource

VARIABLE held   \* held[u]: the resource u has, or None

TypeOK == held \in [Users -> Resources \cup {None}]

Init == held = [u \in Users |-> None]

Free(r) == \A u \in Users : held[u] # r

Acquire(u, r) ==
    /\ held[u] = None
    /\ Free(r)
    /\ held' = [held EXCEPT ![u] = r]

Release(u) ==
    /\ held[u] # None
    /\ held' = [held EXCEPT ![u] = None]

Next == \E u \in Users : Release(u) \/ \E r \in Resources : Acquire(u, r)

Spec == Init /\ [][Next]_held

=============================================================================
