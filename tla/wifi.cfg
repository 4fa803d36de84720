SPECIFICATION Spec
CONSTANTS
    RxSize = 2
    MaxOwed = 1
    Ids = {0, 1}
    MaxClients = 1
    CountMod = 2
INVARIANTS TypeOK StringsAreThere TableFollows RunningMeansOpen
PROPERTIES OperationsEnd
