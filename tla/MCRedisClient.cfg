SPECIFICATION FairSpec
CONSTANTS
  Callers = {c1, c2}
  Nodes = {n1}
  Slots = {s1}
  m_bCluster = FALSE
  m_nConnNum = 1
  SerTimeout = 10
  None = None
PROPERTY ExecuteReturns
PROPERTY RequestsSucceedAgain
PROPERTY ClientRecovers
PROPERTY DestructorReturns
