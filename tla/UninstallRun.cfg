SPECIFICATION Spec
CONSTANTS
  x = x  y = y
  Paths <- MCPaths  Hidden <- MCHidden  Digests = {x, y}
  Absent = absent  Symlink = symlink  Directory = directory  Through = through
  Manifests <- MCManifests  Inodes <- MCInodes
  Unreadable = unreadable  NoManifest = nomanifest
  Faults = {"kill", "tar", "rm"}
PROPERTIES DoubtfulStays RemovedIsRecorded ExitTellsTheTruth
