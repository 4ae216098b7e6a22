SPECIFICATION Spec
CONSTANTS
    NumReplicas = 2
    NumIds = 2
    Setups <- AllSetups
    Skew <- OneAhead
INVARIANT CaughtUpAgrees
INVARIANT SettledFairly
PROPERTY ServerMovesForward
PROPERTY EditsAreLater
PROPERTY Converges
