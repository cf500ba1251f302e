\* One event set up, tightened, loosened, cleared and passed, over two days of
\* reboots that lose elapsed time.
SPECIFICATION Spec
CONSTANTS
  a = a  b = b  c = c  None = None
  DayMinutes = 4  SearchDays = 8  MaxPerDay = 2
  Events <- EventsA
  Proposals <- PushesA
  PassDays <- PassMonday
  ClockWrites = {}
  Allowances = {1}
  SettleWindows = {}
  OffTimes = {0}
  StartUtc <- MCStart
  MaxEvents = 2  QueueMax = 2  MaxSpends = 2
  LoosenDelay = 4  FreeHorizon = 4
  SettleDefault = 1  SettleFloor = 1  SettleCeil = 3
  PassBudget = 1  PassWindow = 3
  SaveEvery = 2  MaxReal = 8  MaxWrites = 3  MaxBoots = 2
INVARIANTS
  TypeOK
  OnePendingPerEvent
  QuarantineServed
  PassBudgetHeld
PROPERTY
  PromiseKept
CHECK_DEADLOCK FALSE
