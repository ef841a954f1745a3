SPECIFICATION Spec
CONSTANTS
  Broken = Broken
  None = None
  MaxLeft = 1
  Releases = {b1}
  Pulls = {pr1}
  Commits = {c1, c2}
INVARIANT
  SweepSparesRuntimes
