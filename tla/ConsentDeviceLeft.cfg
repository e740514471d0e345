SPECIFICATION Spec
CONSTANTS
  Threads = {t1, t2}
  Sensors = {cam, mic}
  Pattern = any
  MaxGrants = 2
  MaxChecks = 1
INVARIANT DevicesClosedWithGrants
