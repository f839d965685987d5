SPECIFICATION Spec
CONSTANTS
  CronJobList <- OneJob
  Calendar <- MCCalendar
  MaxMinute = 1
  LastSecond = 1
  MaxSignals = 2
  MaxSetBacks = 1
  SpuriousWakeups = TRUE
  Prompt = FALSE
INVARIANTS
  TypeOK
  NoLostKill
  CronEndsOnlyWhenKilled
  NoDoubleFire
