CONSTANTS
  i1 = i1
  i2 = i2
  m1 = m1
  s = s
  t = t
  u = u
  x = x
  Request = {i1, m1, s, u}
  Blocking = {i1, m1, s}
  Class <- MCClass
  Root = {x}
  RootOf <- MCRootOf
  NoRoot = NoRoot
  NoLease = NoLease
  Limit = 1
SPECIFICATION LiveSpec
INVARIANT NeverPassedTwice
PROPERTY EveryWaiterServed
