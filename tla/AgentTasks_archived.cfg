SPECIFICATION Spec
CONSTANTS
  t1 = t1
  t2 = t2
  j1 = j1
  o1 = o1
  o2 = o2
  r1 = r1
  r2 = r2
  Task <- OneTask
  Project <- OneProject
  ProjectOf <- InProject
  Mode <- Fresh
  Leftovers <- NewBranch
  ByHand <- OneTask
  Renames <- Nobody
  Run <- TwoRuns
  Op <- OneOp
  Kinds <- SettingsKinds
  AutoLevels <- NoneOrFull
  MaxActive = 1
  NoRun = NoRun
  NoTarget = NoTarget
INVARIANT ArchivedIsDone
