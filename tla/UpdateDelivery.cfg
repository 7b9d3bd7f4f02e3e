SPECIFICATION MCSpec
CONSTANTS
  Publishers = {p1, p2}
  Releases <- MCReleases
  Absent = Absent
  MaxAttempts = 2
  MaxRuns = 2
  MaxLost = 2
  FirstVersion = 1
  Platforms = {"desktop", "android"}
  MaxIds = 6
  MaxChecks = 2
  MaxCrashes = 1
  MaxPreHandoff = 2
SYMMETRY PublisherSymmetry
CHECK_DEADLOCK FALSE
INVARIANTS VerdictIsFinal AutomaticOnce
PROPERTY ReleasesAreOrderly
