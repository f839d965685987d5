SPECIFICATION Spec
CONSTANTS
  Value <- EndsAndEvery
  Times <- EndTimes
INVARIANTS
  EveryWeekdayRuns
