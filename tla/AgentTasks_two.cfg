SPECIFICATION Spec
CONSTANTS
  t1 = t1
  t2 = t2
  j1 = j1
  o1 = o1
  o2 = o2
  r1 = r1
  r2 = r2
  Task <- TwoTasks
  Project <- OneProject
  ProjectOf <- InProject
  Mode <- Mixed
  Leftovers <- OnOriginOnly
  ByHand <- Nobody
  Renames <- OneProject
  Run <- TwoRuns
  Op <- TwoOps
  Kinds <- OwnershipKinds
  AutoLevels <- UpToPush
  MaxActive = 1
  NoRun = NoRun
  NoTarget = NoTarget
SYMMETRY Symmetry
INVARIANTS
  TaskRunAgree
  NoOrphanWorktree
PROPERTIES
  ImplementsRunLease
