CONSTANTS
  Local = {"i", "j", "e", "t", "result"}
  Horizon = 20
  Top = 63
  Scale = 4
  HalfMore = 6
  Point = 1
  Entity <- MCEntity
  Stats <- MCStats
  Tenacity <- MCTenacity
  Tags <- MCTags
  Status <- MCStatus
  Policy <- MCPolicy
  Profile <- MCProfile
  Unwalkable <- MCUnwalkable
  Application <- MCApplication
  Modification <- MCModification
  Hit <- MCHit
  Grant <- MCGrant
  Step <- MCStep
  Capture <- MCCapture
  Bonus <- MCBonus
  Attribute <- MCAttribute
  Key <- MCKey
  StatePolicy <- MCStatePolicy
  Mutation <- MCMutation
  Being <- MCBeing
  Resource <- MCResource
  Costs <- MCCosts
  Change <- MCChange
  MaxTime = 2
  MaxRecord = 2
  Hero <- MCHero
  Team <- MCTeam
  Template <- MCTemplate
  Spawn <- MCSpawn
  Order <- MCOrder
  MaxClock = 2
  MaxSpawned = 6
  Unit <- MCUnit
  Born <- MCBorn
  Resist <- MCResist
  Catalog <- MCCatalog
  Use <- MCUse
  Edit <- MCEdit
  Blow <- MCBlow
  Bill <- MCBill
  Gift <- MCGift
  MaxNow = 1
  MaxId = 3
  MaxWork = 3
  MaxTick = 2
  MaxSequence = 2
  MaxToken = 1
SPECIFICATION MCSpec
CHECK_DEADLOCK FALSE
INVARIANTS StatusesAgree BooksAreBounded ComponentIsWhole NumbersAreSound SelectionIsSound FlowIsDenoted 
PROPERTIES  OwnedIsSettled
