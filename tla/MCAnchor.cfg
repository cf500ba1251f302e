SPECIFICATION Spec
CONSTANTS
  Profiles = {"light", "hard"}
  OnTicks = 1
  OffTicks <- Pauses
  Caps = {0, 3}
  BootCap = 3
INVARIANTS
  TypeOK
  LockedInWindow
  
PROPERTIES
  CapEndsAlarm
