SPECIFICATION FairSpec
CONSTANTS
  CronJobList <- TwoJobs
  Calendar <- MCCalendar
  MaxMinute = 2
  LastSecond = 1
  MaxSignals = 1
  MaxSetBacks = 0
  SpuriousWakeups = FALSE
  Prompt = TRUE
INVARIANTS
  EveryDueJobRuns
PROPERTIES
  SignalTerminates
