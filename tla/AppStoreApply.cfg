SPECIFICATION Spec
CONSTANTS
  MaxClicks = 2
  Kinds <- AllKinds
  Preference = {TRUE, FALSE}
PROPERTY AppliedMeansRestarted
