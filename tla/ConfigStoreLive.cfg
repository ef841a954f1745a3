SPECIFICATION FairSpec
CONSTANTS
  CliEdit = CliEdit
  NoConfig = NoConfig
  Edits = {e1, e2}
  Builds = {b1}
  Roles = {"load", "save", "select", "poll", "cli"}
  OldFile = TRUE
PROPERTY
  QueueDrains
