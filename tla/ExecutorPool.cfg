CONSTANTS
  Actors <- TwoRoots
  Jobs <- PoolJobs
  Info <- PoolInfo
  InitOrder <- TwoOrder
  TotalWorkers = 3
  ReadCap = 1
  ActorCap = 2
  HeavyPermits = 1
  InteractiveReserve = 0
  MaintenanceCap = 1
  BindReserve = 1
  ProviderReserve = 1
  QueueCap = 2
  BatchCap = 2
  MayCancel = {}
  MayDetach = {}
  MayPanic = {}
  MayAge = {}
  MayStick = {}
  MayRecycle = {}
  MayPublish = {}
  MayUnbind = {}
  MayDelete = {}
  MayRemove = {}
  MaxGen = 1
  MaxInc = 1
  MaxPub = 1
SPECIFICATION Spec
CHECK_DEADLOCK FALSE
INVARIANTS TypeOK ReservesHeld
