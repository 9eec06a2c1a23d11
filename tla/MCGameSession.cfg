SPECIFICATION Spec
CONSTANTS
    Payloads <- MCPayloads
    Targets <- MCTargets
    MaxMove = 3
INVARIANTS
    TypeOK
    PlayersApart
    TurnPasses
    RoundTrip
PROPERTIES
    AgesOnce
    LoserWasHit
    MoveReturns
CHECK_DEADLOCK FALSE
