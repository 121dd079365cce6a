\* An instrument with two timeframes and another with one; two refreshes in
\* flight, aborted ones included.
CONSTANTS
    Config <- ThreeConfigs
    None = None
    MaxRequests = 2
SPECIFICATION FairSpec
INVARIANTS
    TypeOK
    RefreshLoopAlive
PROPERTIES
    ForeignDataIsTraced
    ConnectedIsRefreshed
