SPECIFICATION FairSpec
CONSTANTS
    r1 = r1
    r2 = r2
    Programs <- MCPrograms
    Prompts <- MCPrompts
    Waves = 2
    MaxSeqs = 1
INVARIANTS
    WavesDoNotMix
    PStopsLast
PROPERTIES
    RouterEnds
CHECK_DEADLOCK FALSE
