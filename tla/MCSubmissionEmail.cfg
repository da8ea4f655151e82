SPECIFICATION Spec
CONSTANTS
  Vacancies = {1}
  Posting <- Equivalent
  Attempts = {a1, a2}
  Runners = {r1}
  Packages = {p1, p2}
  Documents <- Distinct
  Listings <- Each
  MaxKills = 0
  None = None
SYMMETRY Symmetry
CHECK_DEADLOCK FALSE
INVARIANT
  ConfirmedIsRecorded
