SPECIFICATION Spec
CONSTANTS
  Threads = {t1, t2}
  Sensors = {cam, mic}
  Pattern = any
  MaxGrants = 2
  MaxChecks = 2
INVARIANTS CoverageExact AuditBalanced ClosersCalledOnce ExitEndsAll
PROPERTY AnswersHonest
SYMMETRY Symmetry
