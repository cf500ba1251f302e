\* Three events over a table of two and a queue of one, and writes of the clock.
SPECIFICATION Spec
CONSTANTS
  a = a  b = b  c = c  None = None
  DayMinutes = 4  SearchDays = 8  MaxPerDay = 2
  Events <- EventsABC
  Proposals <- PushesABC
  PassDays = {}
  ClockWrites <- OneJump
  Allowances = {}
  SettleWindows = {0}
  OffTimes = {0, 1}
  StartUtc <- MCStart
  MaxEvents = 2  QueueMax = 1  MaxSpends = 2
  LoosenDelay = 3  FreeHorizon = 4
  SettleDefault = 1  SettleFloor = 1  SettleCeil = 3
  PassBudget = 1  PassWindow = 3
  SaveEvery = 2  MaxReal = 5  MaxWrites = 4  MaxBoots = 1
INVARIANTS
  ActiveEventHeld
  BaselineIsCurrent
  AcceptedMeansApplied
CHECK_DEADLOCK FALSE
