SPECIFICATION FairSpec
CONSTANTS
  MaxClicks = 2
  Kinds <- AllKinds
  Preference = {TRUE, FALSE}
INVARIANTS
  TypeOK
  FollowsBackEnd
PROPERTY
  ComesToRest
