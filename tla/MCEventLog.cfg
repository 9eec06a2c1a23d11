SPECIFICATION Spec
CONSTANTS
    Events = {e1, e2}
    Setters = {s1, s2}
    PayloadMoves <- MCPayloadMoves
    MaxMove = 4
    MaxEvents = 5
INVARIANTS
    TypeOK
    FromMoveExact
    ThrowsOnlyIfCleared
CHECK_DEADLOCK FALSE
