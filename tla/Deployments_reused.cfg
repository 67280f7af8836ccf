SPECIFICATION Spec
CONSTANTS
  p1 = p1 p2 = p2 n1 = n1 q1 = q1 q2 = q2
  Project <- OneProject
  Worker <- OneWorker
  Master = Master
  MaxDeployments = 2
  Req <- TwoReqs
  NoDep = NoDep NoNode = NoNode NoProject = NoProject
PROPERTY ReusedIsRunning
