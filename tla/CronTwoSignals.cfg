SPECIFICATION FairSpec
CONSTANTS
  CronJobList <- OneJob
  Calendar <- MCCalendar
  MaxMinute = 1
  LastSecond = 1
  MaxSignals = 2
  MaxSetBacks = 0
  SpuriousWakeups = FALSE
  Prompt = FALSE
PROPERTIES
  SignalTerminates
