\* An instrument with two timeframes and another with one; four frames with
\* sequences up to three, and a queue of two.
CONSTANTS
    Key <- ThreeKeys
    Nothing = Nothing
    Reset = Reset
    MaxQueueDepth = 2
    MaxSequence = 3
    MaxTurn = 4
    MaxEra = 3
    MaxFallbacks = 1
SPECIFICATION GateSpec
INVARIANTS
    GateTypeOK
    QuietMeansDrawn
    ReleasedInOrder
    NoFrameForgotten
PROPERTIES
    GoingBackIsTraced
    StrayFramesAreTraced
CHECK_DEADLOCK FALSE
