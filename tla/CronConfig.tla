----------------------------- MODULE CronConfig -----------------------------
(***************************************************************************)
(* class CronConfig of the SDK: five bit masks that say when a cron job is *)
(* due.  A mask is the set of the positions of its 1 bits; Width gives the *)
(* number of bits of each field (uint64_t for the minutes, uint32_t for    *)
(* the others).  Shifts by a position outside the word are undefined in    *)
(* C++; no definition here is applied to one.                              *)
(***************************************************************************)
EXTENDS Integers

EVERY == -1

Fields == {"Minute", "Hour", "Day", "Month", "DayOfWeek"}

Width == [f \in Fields |-> IF f = "Minute" THEN 64 ELSE 32]

EmptyConfig == [f \in Fields |-> {}]

(* Mutants: the other bits are lost; EVERY sets one bit too many. *)
SetBitOnly(mask, pos, width) == IF pos = EVERY THEN 0 .. width - 1 ELSE {pos}

SetBitPast(mask, pos, width) == IF pos = EVERY THEN 0 .. width ELSE mask \cup {pos}

SetBit(mask, pos, width) == IF pos = EVERY THEN 0 .. width - 1 ELSE mask \cup {pos}

GetBit(mask, pos) == pos \in mask

ClearBit(mask, pos) == mask \ {pos}

(* SetMinute, SetHour, SetDay, SetMonth and SetDayOfWeek; ClearMinute, ... *)
Set(config, f, x) == [config EXCEPT ![f] = SetBit(@, x, Width[f])]

Clear(config, f, x) == [config EXCEPT ![f] = ClearBit(@, x)]

(***************************************************************************)
(* The test DoLoop makes for each job.  tm has the ranges of struct tm:    *)
(* tm_mon 0..11 and tm_wday 0..6 with Sunday = 0.                          *)
(***************************************************************************)
WillExecute(config, tm) ==
  /\ GetBit(config["Minute"], tm.tm_min)
  /\ GetBit(config["Hour"], tm.tm_hour)
  /\ GetBit(config["Month"], tm.tm_mon + 1)
  /\ \/ GetBit(config["DayOfWeek"], (tm.tm_wday + 7) % 7)
     \/ GetBit(config["Day"], tm.tm_mday)

=============================================================================
