CHECK_DEADLOCK FALSE
CONSTANTS
  a = a
  b = b
  o = o
  Path = {a, o}
  Member = {a}
  NoJob = NoJob
  NoSubmission = NoSubmission
  MaxDisturbances = 2
SPECIFICATION LiveSpec
INVARIANTS TypeOK NoEditForgotten NamedUnlessOvertaken
PROPERTIES EveryEditPublished VerificationRepairs
