SPECIFICATION Spec
CONSTANTS
  Jobs <- MCJobs
  Info <- MCInfo
INVARIANT Paired
PROPERTY KeepsArrivalOrder AdmitsOldest
CHECK_DEADLOCK FALSE
