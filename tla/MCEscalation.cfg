SPECIFICATION Spec
CONSTANTS
  Events = {lock, fence, quiet}
  Beeping = {lock, fence}
  None = none
  GiveUp = 2
  Buffers = 1
INVARIANTS
  TypeOK
  WantedInWindow
PROPERTIES
  UnwornSounds
  AlarmEnds
