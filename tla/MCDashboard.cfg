SPECIFICATION PageSpec
CONSTANTS
  Task = {t1, t2}
  Budget = {1}
  RecentLimit = 1
  ListLimit = 2
INVARIANTS
  PageAgrees
