\* A settled event is tightened, then loosened below its baseline.
SPECIFICATION Spec
CONSTANTS
  a = a  b = b  c = c  None = None
  DayMinutes = 4  SearchDays = 8  MaxPerDay = 2
  Events <- EventsA
  Proposals <- PushesA
  PassDays = {}
  ClockWrites = {}
  Allowances = {}
  SettleWindows = {}
  OffTimes = {0}
  StartUtc <- MCStart
  MaxEvents = 2  QueueMax = 2  MaxSpends = 2
  LoosenDelay = 4  FreeHorizon = 4
  SettleDefault = 1  SettleFloor = 1  SettleCeil = 3
  PassBudget = 2  PassWindow = 3
  SaveEvery = 2  MaxReal = 8  MaxWrites = 4  MaxBoots = 0
PROPERTY
  FreeEditKeepsBaseline
CHECK_DEADLOCK FALSE
