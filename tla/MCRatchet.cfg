\* Three walks of ten weeks, past every gap the samples have (62 days at most),
\* and every chain of instant edits, of when an event is in force and of what
\* it demands.
SPECIFICATION Spec
CONSTANTS
  x = x  y = y  None = None
  DayMinutes = 4  SearchDays = 80  MaxPerDay = 32
  FirstDays <- MCFirstDays
  WalkDays = 70
  Samples <- MCSamples
  Zones <- MCZones
  Variants <- Forms
  Horizon <- Week
  Creations <- MCCreations
INVARIANTS
  CalendarFollows
  NextStartIsNext
  NeverUncovered
  NeverSoftened
CHECK_DEADLOCK FALSE
