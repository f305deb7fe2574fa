SPECIFICATION Spec
CONSTANTS
  v1 = v1  v2 = v2  a1 = a1  a2 = a2
  Files <- UnitFiles  Targets <- UnitTargets  TargetOf <- UnitTargetOf
  TreeTargets <- UnitTrees  WholeTargets <- UnitTrees
  Framework = {v1, v2}  Adopter = {a1}
  FilledBytes <- MCFilledBytes  Filled <- MCFilled  Templates <- NoTemplates
  Torn = torn  NoFile = nofile  NoRecord = norecord  NoSnap = nosnap
  SkipSets <- NoSkips
  Tools = {"install", "upgrade", "uninstall", "doctor"}
  Faults = {"crash", "abort", "manifest", "backup", "blocked", "rollback"}
  Rerun = "any"
PROPERTIES InstallPreservesOrRollsBack DoctorRestoresBaseline
