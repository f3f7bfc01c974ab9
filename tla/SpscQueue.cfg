SPECIFICATION FairSpec
CONSTANTS
  Slots = 3
  MaxItems = 9
INVARIANTS
  TypeOK
  NoSlotRace
  CheckStaysTrue
  GuessIsBound
PROPERTIES
  RefusedOnlyWhenFull
  ImplementsFifo
  AllConsumed
