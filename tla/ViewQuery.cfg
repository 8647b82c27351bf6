CHECK_DEADLOCK FALSE
CONSTANTS
  a = a
  b = b
  o = o
  Path = {a, o}
  Member = {a}
  NoJob = NoJob
  NoSubmission = NoSubmission
  MaxDisturbances = 1
SPECIFICATION Spec
INVARIANT QueryNamesUnpublished
