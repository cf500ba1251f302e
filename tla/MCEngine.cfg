SPECIFICATION Spec
CONSTANTS
  Stages <- ShortSetUp
INVARIANTS TypeOK NoReferenceLeaks ConfirmedMeansOff
PROPERTIES RangesInTheEnd AnchorReleased
CHECK_DEADLOCK FALSE
