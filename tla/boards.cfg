SPECIFICATION Spec
CONSTANTS
    fan = fan
    bell = bell
    kitchen = kitchen
    attic = attic
    Relays = {fan, bell}
    RelayByte <- MCRelayByte
    BadIds = {"bad"}
    Inputs = {kitchen, attic}
    InputByte <- MCInputByte
    Requests <- MCRequests
    BufferSize = 2
    ByteMod = 4
    Values = {0}
INVARIANTS TypeOK BoardAgrees ChangePursued RepliesTrue
