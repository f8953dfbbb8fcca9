SPECIFICATION FairSpec
CONSTANTS
  Readings <- Bursts
  Junk = junk
  Poison = poison
  Thresholds <- Lowered
  DefaultDanger = 3
  Length = 3
  Slide = 1
  Delay = 1
  MinBreaches = 2
  Cooldown = 2
  MaxRaw = 4
  MaxOdd = 1
  MaxFaults = 1
INVARIANTS
  TypeOK
  EveryReadingSurvives
  BurstsAreAlerted
  AlertsAreSustained
  CooldownKept
PROPERTIES
  ReadUnlessPoisoned
CHECK_DEADLOCK FALSE
