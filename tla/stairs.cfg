SPECIFICATION FairSpec
CONSTANTS
    p1 = p1
    p2 = p2
    Programs <- MCPrograms
    Defaults <- MCDefaults
    Replacements <- LongPrograms
INVARIANTS
    TypeOK
    StepInProgram
    TimerArmed
PROPERTIES
    ProgramStable
    LightGoesOut
    ImplementsFade
