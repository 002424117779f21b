SPECIFICATION MCSpec
CONSTANTS
    bolt = bolt
    vent = vent
    beam = beam
    aura = aura
    orb = orb
    gcd = gcd
    Program <- MCProgram
    Def <- MCDef
    Gcd <- gcd
    Wait = 1
    MaxActiveCasts = 2
    CompletedCastLimit = 1
    MaxCasts = 2
    MaxToken = 3
    Top = 7
    Scale = 2
    Fragment <- MCFragment
    Written <- MCWritten
    Memory <- MCMemory
    State <- MCState
INVARIANTS CastsAreSound 
PROPERTIES CommitsInOrder CastEnds
