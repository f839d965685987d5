--------------------------- MODULE MCCronSchedule ---------------------------
(* The ends of every range and EVERY; the times are the ends of the ranges *)
(* of struct tm, one value between, and all the days of the week.          *)
EXTENDS CronSchedule

EndsAndEvery ==
  [f \in Fields |->
     CASE f = "Minute" -> {0, 59, EVERY}
       [] f = "Hour" -> {23, EVERY}
       [] f = "Day" -> {1, 31, EVERY}
       [] f = "Month" -> {1, 12, EVERY}
       [] f = "DayOfWeek" -> {1, 6, 7, EVERY}]

EndTimes == [tm_min : {0, 59}, tm_hour : {0, 23}, tm_mday : {1, 15, 31},
             tm_mon : {0, 11}, tm_wday : 0 .. 6]
=============================================================================
