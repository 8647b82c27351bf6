CONSTANTS
  Actors <- OneRoot
  Jobs <- LiveJobs
  Info <- LiveInfo
  InitOrder <- OneOrder
  TotalWorkers = 4
  ReadCap = 2
  ActorCap = 2
  HeavyPermits = 1
  InteractiveReserve = 1
  MaintenanceCap = 2
  BindReserve = 1
  ProviderReserve = 0
  QueueCap = 2
  BatchCap = 2
  MayCancel = {}
  MayDetach = {}
  MayPanic = {}
  MayAge <- LiveAge
  MayStick = {}
  MayRecycle <- LiveReads
  MayPublish <- OneRoot
  MayUnbind = {}
  MayDelete = {}
  MayRemove = {}
  MaxGen = 1
  MaxInc = 1
  MaxPub = 1
SPECIFICATION FairSpec
CHECK_DEADLOCK FALSE
PROPERTY EveryJobAnswered
