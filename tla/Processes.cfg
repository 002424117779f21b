SPECIFICATION FairSpec
CONSTANTS
    Template <- MCTemplate
    Tmpl <- MCTmpl
    Target <- MCTarget
    MaxOwned = 2
    MaxPerTemplate = 1
    MaxCasts = 2
    MaxEntities = 2
    MaxFaults = 1
INVARIANTS ProcessesAreOwned LivesAreWhole
PROPERTIES SpawnIsAtomic ProcessEnds
