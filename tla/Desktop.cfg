SPECIFICATION FairSpec
CONSTANTS
  NoCall = NoCall
  Calls = {c1, c2, c3}
  MaxSessions = 3
INVARIANTS
  TypeOK
  Exclusion
  ServerOwned
  ServerFollowed
PROPERTIES
  UnloadSparesRequests
  RuntimesAreLocked
  CallsReturn
