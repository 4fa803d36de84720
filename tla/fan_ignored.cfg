SPECIFICATION Spec
CONSTANTS
    MinTime = 1
    MaxTime = 3
    Times <- MCTimes
    Thresholds <- MCThresholds
    Hystereses <- MCHystereses
    Humidities <- MCHumidities
INVARIANTS
    HumidityWatchedWhenOff
