\* Windows in any order, phone and anchor, over a radio that may fall silent
\* for good; under a getAway with a donning grace, the app also deletes the
\* first event and writes at any time, and the watch is put on and off.
SPECIFICATION Spec
CONSTANTS
  Schedules <- Pairs
  Touched <- Handled
  NearDwell = 1  AwayDwell = 2  AbstainMax = 1
  Detect = 1  LostAway = 2  Cooldown = 3
  PollNotMet = 1  PollMet = 2  PollAbstain = 1
  Tolerance = 1
INVARIANTS
  TypeOK
  AwayInTime
  OutputFollowsCondition
PROPERTIES
  ReleaseNeedsEvidence
  AwayIsConcluded
  GraceRunsOut
