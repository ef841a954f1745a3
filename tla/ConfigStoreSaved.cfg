SPECIFICATION Spec
CONSTANTS
  CliEdit = CliEdit
  NoConfig = NoConfig
  Edits = {e1, e2}
  Builds = {b1, b2}
  Roles = {"load", "save", "start", "select", "uninstall"}
  OldFile = FALSE
INVARIANT
  SavedMeansSaved
