\* Starts cut anywhere, and shutdowns with requests and handlers under way.
CONSTANTS
    Script <- Files
    MaxRequests = 2
    MaxKills = 5
SPECIFICATION FairSpec
INVARIANTS
    TypeOK
    UpMeansMigrated
PROPERTIES
    SignalEnds
    ComesUp
\* A service whose configuration is refused has nothing left to do.
CHECK_DEADLOCK FALSE
