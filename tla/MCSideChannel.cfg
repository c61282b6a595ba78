SPECIFICATION SideSpec
CONSTANTS
  Capacity = 2
  MaxEvents = 6
INVARIANTS
  SideTypeOK
  NoSlotRace
  CompleteJournal
  NothingUnaccounted
PROPERTIES
  RefinesEventChannel
  ReplayEnds
