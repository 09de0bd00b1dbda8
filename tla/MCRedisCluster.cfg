SPECIFICATION Spec
CONSTANTS
  Callers = {c1}
  Nodes = {n1, n2}
  Slots = {s1, s2}
  m_bCluster = TRUE
  m_nConnNum = 1
  SerTimeout = 0
  None = None
INVARIANT TypeOK
INVARIANT ServersOutliveRequests
INVARIANT PoolsKept
INVARIANT EffectsBounded
PROPERTY ReloadOnlyUnanswered
