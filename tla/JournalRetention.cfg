CONSTANTS
  gun = gun
  song = song
  Program <- Both
  Def <- Rule
  Operation <- Operations
  Registration <- Registrations
  Limit <- Bounds
  Duration = 2
  Lifetime = 2
  StateMutationLimit = 3
  CompletedCastLimit = 1
  MaxActiveCasts = 2
  MaxAbilities = 2
  MaxTick = 3
  MaxCasts = 2
  MaxStep = 2
  MaxChanges = 2
SPECIFICATION Spec
INVARIANT EndedCastsAreBounded
CHECK_DEADLOCK FALSE
