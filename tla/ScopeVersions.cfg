\* Two requests at once, two references, four file contents, one edit.
CONSTANTS
  q1 = q1
  q2 = q2
  f1 = f1
  f2 = f2
  why = why
  wide = wide
  one = one
  wild = wild
  less = less
  none = none
  root = root
  None = None
  Rules <- SomeRules
  Parsed <- SomeParsed
  Hosts <- SomeHosts
  Reasons = {why}
  Contents = {wide, one, wild, less}
  Compiled <- SomeCompiled
  Manuals = {none, root}
  RootsOf <- SomeRoots
  NoManual = none
  Refs = {f1, f2}
  Requests = {q1, q2}
  MaxEdits = 1
  MaxVersions = 3
  MaxRuns = 2
SYMMETRY ScopeSymmetry
SPECIFICATION Spec
CHECK_DEADLOCK FALSE
INVARIANTS RunsAreAuthorized VersionsAgree ReferencesLocate RootsAreUseful
