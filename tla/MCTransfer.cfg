SPECIFICATION Spec
CONSTANTS
  Blobs = {"first", "second", "third", "bad", "huge", "longer"}
  Pushes <- Chosen
  Pieces <- Lengths
  Declared <- Promises
  Bad = {"bad"}
  BufMax = 2
  Count <- Counts
  MaxEvents = 2
  Settings = {"on"}
  NoBlob = NoBlob
INVARIANTS
  TypeOK
  NoResurrection
PROPERTIES
  AcceptedIsSaved
  AnswersMatch
  Answered
