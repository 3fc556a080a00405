CONSTANTS
  r1 = r1
  r2 = r2
  u1 = u1
  p1 = p1
  Absent = Absent
  None = None
  Runs = {r1, r2}
  Urls = {u1}
  Pages = {p1}
  Contents <- SomeContents
  Weight <- SomeWeights
  Verdicts <- SomeVerdicts
  Dispositions = {"resolved"}
  MaxReviews = 1
  MaxVerifications = 2
  MaxStamps = 3
SPECIFICATION Spec
SYMMETRY RunSymmetry
INVARIANTS InboxReplays SeenIsAnnounced BriefsAgree RowsAgree
PROPERTIES ItemsAreImmutable
CHECK_DEADLOCK FALSE
