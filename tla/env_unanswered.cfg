SPECIFICATION Spec
CONSTANTS
    SensorsCount = 3
    Timestamps = 3
    env_on_dht_data = env_on_dht_data
    Nobody = 0
    NULL = NULL
    Callbacks <- MCCallbacks
INVARIANTS
    CallbackOfRead
