---------------------------- MODULE MCCronThread ----------------------------
(***************************************************************************)
(* Three minutes over the end of a Saturday, of a month and of a year, and *)
(* two jobs: one for every minute, one for midnight of January 1st.        *)
(***************************************************************************)
EXTENDS CronThread

MCCalendar ==
  [m \in Minute |->
     IF m = 0
     THEN [tm_min |-> 59, tm_hour |-> 23, tm_mday |-> 31, tm_mon |-> 11, tm_wday |-> 6]
     ELSE [tm_min |-> m - 1, tm_hour |-> 0, tm_mday |-> 1, tm_mon |-> 0, tm_wday |-> 0]]

EveryMinute ==
  [f \in Fields |-> SetBit({}, EVERY, Width[f])]

NewYear ==
  Set(Set(Set(Set(EmptyConfig, "Minute", 0), "Hour", 0), "Day", 1), "Month", 1)

TwoJobs == <<EveryMinute, NewYear>>

OneJob == <<EveryMinute>>
=============================================================================
