SPECIFICATION FairSpec
CONSTANTS
    MinTime = 1
    MaxTime = 3
    Times <- MCTimes
    Thresholds <- MCThresholds
    Hystereses <- MCHystereses
    Humidities <- MCHumidities
INVARIANTS
    TypeOK
    FanMatchesRelay
    ManualRunUntimed
PROPERTIES
    SuspendRespected
    AutoRunEnds
