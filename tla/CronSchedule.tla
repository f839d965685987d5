---------------------------- MODULE CronSchedule ----------------------------
(***************************************************************************)
(* A library builds the CronConfig of a job with the Set and Clear calls,  *)
(* with arguments of the ranges CronConfig.hpp documents, and meant is the *)
(* schedule it means by them.  The module compares when the job runs with  *)
(* what was meant, for every broken-down time.                             *)
(***************************************************************************)
EXTENDS CronConfig, FiniteSets

CONSTANTS
  Value,      \* the arguments used for each field: values of its range, EVERY
  Times       \* the broken-down times looked at

(* CronConfig.hpp:12-16 *)
DocRange ==
  [f \in Fields |->
     CASE f = "Minute" -> 0 .. 59
       [] f = "Hour" -> 0 .. 23
       [] f = "Day" -> 1 .. 31
       [] f = "Month" -> 1 .. 12
       [] f = "DayOfWeek" -> 1 .. 7]

StructTm == [tm_min : 0 .. 59, tm_hour : 0 .. 23, tm_mday : 1 .. 31,
             tm_mon : 0 .. 11, tm_wday : 0 .. 6]

ASSUME ScheduleAssumption ==
  /\ Value \in [Fields -> SUBSET (0 .. 59 \cup {EVERY})]
  /\ \A f \in Fields : Value[f] \subseteq DocRange[f] \cup {EVERY}
  /\ \A t \in Times : t \in StructTm

VARIABLES
  config,   \* the CronConfig
  meant     \* history: the values meant for each field

vars == <<config, meant>>

Init ==
  /\ config = EmptyConfig
  /\ meant = [f \in Fields |-> {}]

(* SetMinute(x), SetHour(x), SetDay(x), SetMonth(x), SetDayOfWeek(x) *)
SetField(f, x) ==
  /\ config' = Set(config, f, x)
  /\ meant' = [meant EXCEPT ![f] = IF x = EVERY THEN DocRange[f] ELSE @ \cup {x}]

(* ClearMinute(x), ...; clearing EVERY shifts by -1, which is undefined. *)
ClearField(f, x) ==
  /\ x # EVERY
  /\ config' = Clear(config, f, x)
  /\ meant' = [meant EXCEPT ![f] = @ \ {x}]

Next == \E f \in Fields : \E x \in Value[f] : SetField(f, x) \/ ClearField(f, x)

Spec == Init /\ [][Next]_vars

-----------------------------------------------------------------------------
(* Properties.                                                             *)

TypeOK ==
  /\ config \in [Fields -> SUBSET (0 .. 63)]
  /\ \A f \in Fields : config[f] \subseteq 0 .. Width[f] - 1
  /\ meant \in [Fields -> SUBSET (0 .. 59)]
  /\ \A f \in Fields : meant[f] \subseteq DocRange[f]

(* Is a job with the schedule m meant to run at t?  The months are counted *)
(* from 1, and a weekday is its number in the week from Monday = 1.        *)
MeantAt(m, t) ==
  /\ t.tm_min \in m["Minute"]
  /\ t.tm_hour \in m["Hour"]
  /\ t.tm_mon + 1 \in m["Month"]
  /\ t.tm_mday \in m["Day"] \/ t.tm_wday \in m["DayOfWeek"]

(* From Monday to Saturday a job runs exactly when it is meant to, after   *)
(* any sequence of Set and Clear calls, EVERY included.                    *)
RunsWhenMeant ==
  \A t \in Times : t.tm_wday # 0 => (WillExecute(config, t) <=> MeantAt(meant, t))

(* CronConfig.hpp:16, "Range: 1 ~ 7": each number names a day of the week, *)
(* so a job for that day alone (and no day of the month) runs on some day. *)
EveryWeekdayRuns ==
  \A d \in DocRange["DayOfWeek"] :
    (/\ meant["DayOfWeek"] = {d}
     /\ \A f \in {"Minute", "Hour", "Month"} : meant[f] = DocRange[f])
    => \E t \in Times : WillExecute(config, t)
=============================================================================
