SPECIFICATION Spec
CONSTANTS
  Vacancies = {1, 2}
  Posting <- Equivalent
  Attempts = {a1, a2}
  Runners = {r1, r2}
  Packages = {p1, p2}
  Documents <- Distinct
  Listings <- Each
  MaxKills = 1
  None = None
CONSTRAINT OneKeyOrOneRunner
SYMMETRY Symmetry
CHECK_DEADLOCK FALSE
INVARIANTS
  SubmissionTypeOK
  ClickedOnce
  ClickIsProvable
  OneAttemptPerPosting
  DeniedIsNotClicked
  NothingIsLeftHalfDone
  CheckpointsFollowArchive
PROPERTIES
  ImplementsApplications
