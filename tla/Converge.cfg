SPECIFICATION Spec
CONSTANTS
  v1 = v1  v2 = v2  a1 = a1  a2 = a2
  Files <- MixedFiles  Targets <- MixedTargets  TargetOf <- MixedTargetOf
  TreeTargets <- MixedTrees  WholeTargets <- NoTargets
  Framework = {v1, v2}  Adopter = {a1}
  FilledBytes <- MCFilledBytes  Filled <- MCFilled  Templates <- OneTemplate
  Torn = torn  NoFile = nofile  NoRecord = norecord  NoSnap = nosnap
  SkipSets <- NoSkips
  Tools = {"upgrade", "install", "uninstall", "doctor"}
  Faults = {}
  Rerun = "never"
INVARIANTS CustomizedByAdopter
PROPERTIES PristineConverges
