------------------------- MODULE CronThread_proofs -------------------------
(***************************************************************************)
(* What TLC checks of the cron thread for two minutes and two signals,     *)
(* proved for every calendar, list of jobs and number of signals.          *)
(***************************************************************************)
EXTENDS CronThread, TLAPS

(***************************************************************************)
(* Types.  While DoLoop runs, the buffer names a minute of the run: that   *)
(* bounds what the increment leaves in it.                                 *)
(***************************************************************************)
TypeInv ==
  /\ TypeOK
  /\ cronpc = "doloop" => tm.min \in Minute

LEMMA JobCount == Len(CronJobList) \in Nat
  BY JobsAssumption

LEMMA TypeInit == Init => TypeInv
<1> SUFFICES ASSUME Init
             PROVE  TypeInv
  OBVIOUS
<1>1. 0 \in Minute /\ 0 \in 0 .. MaxMinute + 1 /\ 0 \in Second
  BY BoundsAssumption DEF Minute, Second
<1>2. now \in Time /\ tm \in BrokenDown /\ time_point \in BrokenDown
  BY <1>1 DEF Init, Time, BrokenDown
<1>3. hpc \in [Thread -> {"idle", "lock", "set", "notify"}]
  BY DEF Init
<1>4. job \in 1 .. Len(CronJobList) + 1 /\ sent \in 0 .. MaxSignals /\ setBacks \in 0 .. MaxSetBacks
  BY BoundsAssumption, JobCount DEF Init
<1>5. fired \subseteq (1 .. Len(CronJobList)) \X Minute /\ refired \subseteq fired
  BY DEF Init
<1>6. cronpc \in CronPC /\ cronpc # "doloop" /\ mutex \in Thread \cup {NoOwner}
  BY DEF Init, CronPC, Holding
<1>7. QED
  BY <1>1, <1>2, <1>3, <1>4, <1>5, <1>6 DEF Init, TypeInv, TypeOK

LEMMA TypeStep == TypeInv /\ [Next]_vars => TypeInv'
<1> SUFFICES ASSUME TypeInv, [Next]_vars
             PROVE  TypeInv'
  OBVIOUS
<1> USE BoundsAssumption, JobCount
    DEF TypeInv, TypeOK, Time, Minute, Second, BrokenDown, CronPC, Holding
<1>1. CASE Cron
  <2>1. CASE Lock
    BY <2>1 DEF Lock, CronStep, clockVars, sigVars, Thread
  <2>2. CASE CheckKilled
    BY <2>2 DEF CheckKilled, CronStep, clockVars, sigVars
  <2>3. CASE Localtime
    <3>1. tm' \in BrokenDown /\ tm'.min \in Minute /\ pass' \in Minute
      BY <2>3 DEF Localtime
    <3>2. QED
      BY <2>3, <3>1 DEF Localtime, CronStep, clockVars, sigVars
  <2>4. CASE DoLoop
    <3>1. job' \in 1 .. Len(CronJobList) + 1
      BY <2>4 DEF DoLoop
    <3>2. /\ fired' \subseteq (1 .. Len(CronJobList)) \X Minute
          /\ refired' \subseteq fired'
      <4>1. <<job, tm.min>> \in (1 .. Len(CronJobList)) \X Minute
        BY <2>4 DEF DoLoop, CronStep
      <4>2. CASE Due(job, tm.min)
        BY <2>4, <4>1, <4>2 DEF DoLoop
      <4>3. CASE ~Due(job, tm.min)
        BY <2>4, <4>3 DEF DoLoop
      <4>4. QED
        BY <4>2, <4>3
    <3>3. QED
      BY <2>4, <3>1, <3>2 DEF DoLoop, CronStep, clockVars, sigVars
  <2>5. CASE IncrementMinute
    BY <2>5 DEF IncrementMinute, CronStep, clockVars, sigVars
  <2>6. CASE ZeroSecond
    BY <2>6 DEF ZeroSecond, CronStep, clockVars, sigVars
  <2>7. CASE Mktime
    BY <2>7 DEF Mktime, CronStep, clockVars, sigVars
  <2>8. CASE Wait
    BY <2>8 DEF Wait, CronStep, clockVars, sigVars
  <2>9. CASE Timeout
    BY <2>9 DEF Timeout, CronStep, clockVars, sigVars
  <2>10. CASE Relock
    BY <2>10 DEF Relock, CronStep, clockVars, sigVars, Thread
  <2>11. CASE Exit
    BY <2>11 DEF Exit, CronStep, clockVars, sigVars
  <2>12. QED
    BY <1>1, <2>1, <2>2, <2>3, <2>4, <2>5, <2>6, <2>7, <2>8, <2>9, <2>10, <2>11
    DEF Cron
<1>2. CASE SpuriousWakeup
  BY <1>2 DEF SpuriousWakeup, CronStep, clockVars, sigVars
<1>3. CASE SendSignal
  BY <1>3 DEF SendSignal, clockVars, cronVars
<1>4. ASSUME NEW t \in Thread, Deliver(t)
      PROVE  TypeInv'
  BY <1>4 DEF Deliver, clockVars, cronVars
<1>5. ASSUME NEW t \in Thread, Handler(t)
      PROVE  TypeInv'
  <2>1. CASE HandlerLock(t)
    BY <2>1 DEF HandlerLock, clockVars, cronVars
  <2>2. CASE HandlerSet(t)
    BY <2>2 DEF HandlerSet, clockVars, cronVars
  <2>3. CASE HandlerNotify(t)
    BY <2>3 DEF HandlerNotify, clockVars
  <2>4. QED
    BY <1>5, <2>1, <2>2, <2>3 DEF Handler
<1>6. CASE LogElsewhere
  <2>1. tm' \in BrokenDown /\ (tm.min \in Minute => tm'.min \in Minute)
    <3>1. PICK t \in Time :
             tm' \in {t, [min |-> t.min, sec |-> tm.sec], [min |-> tm.min, sec |-> t.sec]}
      BY <1>6 DEF LogElsewhere
    <3>2. \/ tm' = t
          \/ tm' = [min |-> t.min, sec |-> tm.sec]
          \/ tm' = [min |-> tm.min, sec |-> t.sec]
      BY <3>1
    <3>3. QED
      BY <3>2
  <2>2. QED
    BY <1>6, <2>1 DEF LogElsewhere, clockVars, cronVars, sigVars
<1>7. CASE Tick
  <2>1. now' \in Time
    <3>1. CASE now.sec < LastSecond /\ now' = [min |-> now.min, sec |-> now.sec + 1]
      BY <3>1
    <3>2. CASE now.min < MaxMinute /\ now' = [min |-> now.min + 1, sec |-> 0]
      BY <3>2
    <3>3. QED
      BY <1>7, <3>1, <3>2 DEF Tick
  <2>2. QED
    BY <1>7, <2>1 DEF Tick, cronVars, sigVars
<1>8. CASE SetClockBack
  BY <1>8 DEF SetClockBack, cronVars, sigVars
<1>9. CASE UNCHANGED vars
  BY <1>9 DEF vars
<1>10. QED
  BY <1>1, <1>2, <1>3, <1>4, <1>5, <1>6, <1>7, <1>8, <1>9 DEF Next

(* Every variable of the cron thread keeps its type, for every instance. *)
THEOREM TypeCorrect == Spec => []TypeOK
<1>1. Init => TypeInv
  BY TypeInit
<1>2. TypeInv /\ [Next]_vars => TypeInv'
  BY TypeStep
<1>3. TypeInv => TypeOK
  BY DEF TypeInv
<1>4. QED
  BY <1>1, <1>2, <1>3, PTL DEF Spec

-----------------------------------------------------------------------------
(***************************************************************************)
(* Kills.  The mutex belongs to the thread that is inside its critical     *)
(* section; IsKilled only changes under it, so what the cron thread read   *)
(* at the top of the loop still holds when it goes to sleep.               *)
(***************************************************************************)
MutexInv ==
  /\ mutex = "cron" <=> cronpc \in Holding \/ hpc["cron"] = "set"
  /\ hpc["cron"] = "set" => cronpc \notin Holding
  /\ \A t \in Thread : t # "cron" => (mutex = t <=> hpc[t] = "set")

NotKilledInLoop ==
  cronpc \in Holding \ {"check", "exit"} => ~IsKilled

NotifyInv ==
  \A t \in Thread : hpc[t] = "notify" => IsKilled

(* Why the thread left, or will leave, the do loop. *)
LeaveInv ==
  (\/ cronpc \in {"exit", "done"}
   \/ cronpc = "relock" /\ ~Reached(now, time_point))
  => IsKilled \/ spurious \/ setBacks > 0

KillInv == MutexInv /\ NotKilledInLoop /\ NotifyInv /\ NoLostKill /\ LeaveInv

(* The clock only goes forwards when it ticks. *)
LEMMA TickReached ==
  ASSUME TypeInv, Tick, Reached(now, time_point)
  PROVE  Reached(now, time_point)'
<1> USE BoundsAssumption DEF TypeInv, TypeOK, Time, Minute, Second, BrokenDown, Reached
<1>1. time_point' = time_point
  BY DEF Tick, cronVars
<1>2. CASE now' = [min |-> now.min, sec |-> now.sec + 1]
  BY <1>1, <1>2
<1>3. CASE now' = [min |-> now.min + 1, sec |-> 0]
  BY <1>1, <1>3
<1>4. QED
  BY <1>2, <1>3 DEF Tick

LEMMA KillInit == Init => KillInv
  BY DEF Init, KillInv, MutexInv, NotKilledInLoop, NotifyInv, NoLostKill, LeaveInv,
         Thread, NoOwner, Holding

LEMMA KillStep == TypeInv /\ KillInv /\ [Next]_vars => KillInv'
<1> SUFFICES ASSUME TypeInv, KillInv, [Next]_vars
             PROVE  KillInv'
  OBVIOUS
<1> USE DEF TypeInv, TypeOK, KillInv, MutexInv, NotKilledInLoop, NotifyInv, NoLostKill,
            LeaveInv, Holding, Thread, NoOwner
<1>1. CASE Cron
  <2>1. CASE Lock
    BY <2>1 DEF Lock, CronStep, clockVars, sigVars
  <2>2. CASE CheckKilled
    BY <2>2 DEF CheckKilled, CronStep, clockVars, sigVars
  <2>3. CASE Localtime
    BY <2>3 DEF Localtime, CronStep, clockVars, sigVars
  <2>4. CASE DoLoop
    BY <2>4 DEF DoLoop, CronStep, clockVars, sigVars
  <2>5. CASE IncrementMinute
    BY <2>5 DEF IncrementMinute, CronStep, clockVars, sigVars
  <2>6. CASE ZeroSecond
    BY <2>6 DEF ZeroSecond, CronStep, clockVars, sigVars
  <2>7. CASE Mktime
    BY <2>7 DEF Mktime, CronStep, clockVars, sigVars
  <2>8. CASE Wait
    BY <2>8 DEF Wait, CronStep, clockVars, sigVars
  <2>9. CASE Timeout
    BY <2>9 DEF Timeout, CronStep, clockVars, sigVars, Reached
  <2>10. CASE Relock
    BY <2>10 DEF Relock, CronStep, clockVars, sigVars
  <2>11. CASE Exit
    BY <2>11 DEF Exit, CronStep, clockVars, sigVars
  <2>12. QED
    BY <1>1, <2>1, <2>2, <2>3, <2>4, <2>5, <2>6, <2>7, <2>8, <2>9, <2>10, <2>11
    DEF Cron
<1>2. CASE SpuriousWakeup
  BY <1>2 DEF SpuriousWakeup, CronStep, clockVars, sigVars
<1>3. CASE SendSignal
  BY <1>3 DEF SendSignal, clockVars, cronVars, Reached
<1>4. ASSUME NEW t \in Thread, Deliver(t)
      PROVE  KillInv'
  BY <1>4 DEF Deliver, clockVars, cronVars, Reached
<1>5. ASSUME NEW t \in Thread, Handler(t)
      PROVE  KillInv'
  <2>1. CASE HandlerLock(t)
    BY <2>1 DEF HandlerLock, clockVars, cronVars, Reached
  <2>2. CASE HandlerSet(t)
    BY <2>2 DEF HandlerSet, clockVars, cronVars, Reached
  <2>3. CASE HandlerNotify(t)
    BY <2>3 DEF HandlerNotify, clockVars, Reached
  <2>4. QED
    BY <1>5, <2>1, <2>2, <2>3 DEF Handler
<1>6. CASE LogElsewhere
  BY <1>6 DEF LogElsewhere, clockVars, cronVars, sigVars, Reached
<1>7. CASE Tick
  BY <1>7, TickReached DEF Tick, cronVars, sigVars
<1>8. CASE SetClockBack
  <2>1. setBacks' > 0
    BY <1>8 DEF SetClockBack
  <2>2. QED
    BY <1>8, <2>1 DEF SetClockBack, cronVars, sigVars
<1>9. CASE UNCHANGED vars
  BY <1>9 DEF vars, Reached
<1>10. QED
  BY <1>1, <1>2, <1>3, <1>4, <1>5, <1>6, <1>7, <1>8, <1>9 DEF Next

(* No kill is lost between the test of IsKilled and the wait, with any     *)
(* number of signals, clock changes and spurious wakeups.                  *)
THEOREM NoKillIsLost == Spec => []NoLostKill
<1>1. Init => TypeInv /\ KillInv
  BY TypeInit, KillInit
<1>2. TypeInv /\ KillInv /\ [Next]_vars => (TypeInv /\ KillInv)'
  BY TypeStep, KillStep
<1>3. KillInv => NoLostKill
  BY DEF KillInv
<1>4. QED
  BY <1>1, <1>2, <1>3, PTL DEF Spec

(* The cron thread, and with it the jobs, stops for a kill and otherwise   *)
(* only after a spurious wakeup or a clock set back.                       *)
THEOREM CronEndsForAKill == Spec => []CronEndsOnlyWhenKilled
<1>1. Init => TypeInv /\ KillInv
  BY TypeInit, KillInit
<1>2. TypeInv /\ KillInv /\ [Next]_vars => (TypeInv /\ KillInv)'
  BY TypeStep, KillStep
<1>3. KillInv => CronEndsOnlyWhenKilled
  BY DEF KillInv, LeaveInv, CronEndsOnlyWhenKilled
<1>4. QED
  BY <1>1, <1>2, <1>3, PTL DEF Spec

-----------------------------------------------------------------------------
(***************************************************************************)
(* Passes.  While nobody else writes the buffer and the clock only goes    *)
(* forwards, a pass is for one minute from Localtime to Mktime, and the    *)
(* next one is for a later minute.                                         *)
(***************************************************************************)
PassInv ==
  /\ cronpc = "start" => fired = {} /\ pass = 0
  /\ cronpc \in {"check", "localtime"} =>
       \A f \in fired : f[2] < now.min
  /\ cronpc = "doloop" =>
       /\ tm.min = pass
       /\ \A f \in fired : f[2] < pass \/ (f[2] = pass /\ f[1] < job)
  /\ cronpc \in {"zero", "mktime"} => tm.min = pass + 1
  /\ cronpc = "mktime" => tm.sec = 0
  /\ cronpc \in {"wait", "waiting", "relock"} =>
       time_point = [min |-> pass + 1, sec |-> 0]
  /\ cronpc \in {"zero", "mktime", "wait", "waiting", "relock"} =>
       \A f \in fired : f[2] <= pass
  /\ refired = {}

Undisturbed == ~clobbered /\ setBacks = 0

OnceInv == Undisturbed => PassInv

LEMMA OnceInit == Init => OnceInv
  BY DEF Init, OnceInv, PassInv

LEMMA OnceStep == TypeInv /\ OnceInv /\ [Next]_vars => OnceInv'
<1> SUFFICES ASSUME TypeInv, OnceInv, [Next]_vars, Undisturbed'
             PROVE  PassInv'
  BY DEF OnceInv
<1>0. Undisturbed /\ PassInv
  <2>1. CASE Cron
    BY <2>1 DEF Cron, Lock, CheckKilled, Localtime, DoLoop, IncrementMinute, ZeroSecond,
                Mktime, Wait, Timeout, Relock, Exit, clockVars, Undisturbed, OnceInv
  <2>2. CASE LogElsewhere
    BY <2>2 DEF LogElsewhere, clockVars, Undisturbed, OnceInv
  <2>3. CASE SetClockBack
    BY <2>3 DEF SetClockBack, Undisturbed, OnceInv, TypeInv, TypeOK
  <2>4. CASE Tick \/ UNCHANGED vars \/ SpuriousWakeup \/ SendSignal
    BY <2>4 DEF Tick, SpuriousWakeup, SendSignal, vars, clockVars, Undisturbed, OnceInv
  <2>5. ASSUME NEW t \in Thread, Deliver(t) \/ Handler(t)
        PROVE  Undisturbed /\ PassInv
    BY <2>5 DEF Deliver, Handler, HandlerLock, HandlerSet, HandlerNotify, clockVars,
                Undisturbed, OnceInv
  <2>6. QED
    BY <2>1, <2>2, <2>3, <2>4, <2>5 DEF Next
<1> USE <1>0, BoundsAssumption, JobCount
    DEF TypeInv, TypeOK, Time, Minute, Second, BrokenDown, PassInv, Undisturbed
<1>1. CASE Cron
  <2>1. CASE Lock
    BY <2>1 DEF Lock, CronStep, clockVars
  <2>2. CASE CheckKilled
    BY <2>2 DEF CheckKilled, CronStep, clockVars
  <2>3. CASE Localtime
    BY <2>3 DEF Localtime, CronStep, clockVars
  <2>4. CASE DoLoop
    BY <2>4 DEF DoLoop, CronStep, clockVars
  <2>5. CASE IncrementMinute
    BY <2>5 DEF IncrementMinute, CronStep, clockVars
  <2>6. CASE ZeroSecond
    BY <2>6 DEF ZeroSecond, CronStep, clockVars
  <2>7. CASE Mktime
    BY <2>7 DEF Mktime, CronStep, clockVars
  <2>8. CASE Wait
    BY <2>8 DEF Wait, CronStep, clockVars
  <2>9. CASE Timeout
    BY <2>9 DEF Timeout, CronStep, clockVars
  <2>10. CASE Relock
    BY <2>10 DEF Relock, CronStep, clockVars, Reached
  <2>11. CASE Exit
    BY <2>11 DEF Exit, CronStep, clockVars
  <2>12. QED
    BY <1>1, <2>1, <2>2, <2>3, <2>4, <2>5, <2>6, <2>7, <2>8, <2>9, <2>10, <2>11
    DEF Cron
<1>2. CASE SpuriousWakeup
  BY <1>2 DEF SpuriousWakeup, CronStep, clockVars
<1>3. CASE SendSignal
  BY <1>3 DEF SendSignal, clockVars, cronVars
<1>4. ASSUME NEW t \in Thread, Deliver(t)
      PROVE  PassInv'
  BY <1>4 DEF Deliver, clockVars, cronVars
<1>5. ASSUME NEW t \in Thread, Handler(t)
      PROVE  PassInv'
  <2>1. CASE HandlerLock(t)
    BY <2>1 DEF HandlerLock, clockVars, cronVars
  <2>2. CASE HandlerSet(t)
    BY <2>2 DEF HandlerSet, clockVars, cronVars
  <2>3. CASE HandlerNotify(t)
    BY <2>3 DEF HandlerNotify, clockVars
  <2>4. QED
    BY <1>5, <2>1, <2>2, <2>3 DEF Handler
<1>6. CASE LogElsewhere
  BY <1>6 DEF LogElsewhere, clockVars, cronVars, sigVars
<1>7. CASE Tick
  <2>1. now'.min >= now.min
    BY <1>7 DEF Tick
  <2>2. QED
    BY <1>7, <2>1 DEF Tick, cronVars
<1>8. CASE SetClockBack
  BY <1>8 DEF SetClockBack
<1>9. CASE UNCHANGED vars
  BY <1>9 DEF vars
<1>10. QED
  BY <1>1, <1>2, <1>3, <1>4, <1>5, <1>6, <1>7, <1>8, <1>9 DEF Next

(* A job is started at most once for each minute, for every calendar,      *)
(* while no other localtime() hits a pass and the clock goes forwards.     *)
THEOREM NoJobStartsTwice == Spec => []NoDoubleFire
<1>1. Init => TypeInv /\ OnceInv
  BY TypeInit, OnceInit
<1>2. TypeInv /\ OnceInv /\ [Next]_vars => (TypeInv /\ OnceInv)'
  BY TypeStep, OnceStep
<1>3. OnceInv => NoDoubleFire
  BY DEF OnceInv, PassInv, NoDoubleFire, Undisturbed
<1>4. QED
  BY <1>1, <1>2, <1>3, PTL DEF Spec

-----------------------------------------------------------------------------
(***************************************************************************)
(* Schedule.  When the clock waits for a thread that has work, a pass ends *)
(* in the minute it is for and the next one starts a minute later.         *)
(***************************************************************************)
Regular == Prompt /\ ~spurious /\ ~IsKilled /\ Undisturbed

Started(m) == \A j \in 1 .. Len(CronJobList) : Due(j, m) => <<j, m>> \in fired

StartedBefore(n) == \A m \in Minute : m < n => Started(m)

ScheduleInv ==
  /\ cronpc = "start" => now.min = 0
  /\ cronpc \in {"check", "localtime"} => StartedBefore(now.min)
  /\ cronpc \in {"doloop", "zero", "mktime", "wait"} => now.min = pass
  /\ cronpc = "doloop" =>
       /\ StartedBefore(pass)
       /\ \A j \in 1 .. job - 1 : Due(j, pass) => <<j, pass>> \in fired
  /\ cronpc \in {"zero", "mktime", "wait", "waiting", "relock"} =>
       StartedBefore(pass + 1)
  /\ cronpc = "waiting" => now.min \in {pass, pass + 1}
  /\ cronpc = "relock" => now.min = pass + 1

OnTimeInv == Regular => ScheduleInv

LEMMA OnTimeInit == Init => OnTimeInv
  BY DEF Init, OnTimeInv, ScheduleInv

LEMMA OnTimeStep ==
  TypeInv /\ KillInv /\ OnceInv /\ OnTimeInv /\ [Next]_vars => OnTimeInv'
<1> SUFFICES ASSUME TypeInv, KillInv, OnceInv, OnTimeInv, [Next]_vars, Regular'
             PROVE  ScheduleInv'
  BY DEF OnTimeInv
<1>0. Regular /\ PassInv /\ ScheduleInv
  <2>1. CASE Cron
    BY <2>1 DEF Cron, Lock, CheckKilled, Localtime, DoLoop, IncrementMinute, ZeroSecond,
                Mktime, Wait, Timeout, Relock, Exit, clockVars, Undisturbed, OnceInv,
                Regular, OnTimeInv
  <2>2. CASE LogElsewhere
    BY <2>2 DEF LogElsewhere, clockVars, Undisturbed, OnceInv, Regular, OnTimeInv
  <2>3. CASE SetClockBack
    BY <2>3 DEF SetClockBack, Undisturbed, TypeInv, TypeOK, Regular
  <2>4. CASE Tick \/ UNCHANGED vars \/ SpuriousWakeup \/ SendSignal
    BY <2>4 DEF Tick, SpuriousWakeup, SendSignal, vars, clockVars, Undisturbed, OnceInv,
                Regular, OnTimeInv
  <2>5. ASSUME NEW t \in Thread, Deliver(t) \/ Handler(t)
        PROVE  Regular /\ PassInv /\ ScheduleInv
    BY <2>5 DEF Deliver, Handler, HandlerLock, HandlerSet, HandlerNotify, clockVars,
                Undisturbed, OnceInv, Regular, OnTimeInv
  <2>6. QED
    BY <2>1, <2>2, <2>3, <2>4, <2>5 DEF Next
<1>k. cronpc \notin {"exit", "done"} /\ (cronpc = "relock" => Reached(now, time_point))
  BY <1>0 DEF KillInv, LeaveInv, Regular, Undisturbed
<1> USE <1>0, <1>k, BoundsAssumption, JobCount
    DEF TypeInv, TypeOK, Time, Minute, Second, PassInv, ScheduleInv, StartedBefore, Started
<1>1. CASE Cron
  <2>1. CASE Lock
    BY <2>1 DEF Lock, CronStep, clockVars
  <2>2. CASE CheckKilled
    BY <2>2 DEF CheckKilled, CronStep, clockVars
  <2>3. CASE Localtime
    BY <2>3 DEF Localtime, CronStep, clockVars
  <2>4. CASE DoLoop
    BY <2>4 DEF DoLoop, CronStep, clockVars
  <2>5. CASE IncrementMinute
    BY <2>5 DEF IncrementMinute, CronStep, clockVars
  <2>6. CASE ZeroSecond
    BY <2>6 DEF ZeroSecond, CronStep, clockVars
  <2>7. CASE Mktime
    BY <2>7 DEF Mktime, CronStep, clockVars
  <2>8. CASE Wait
    BY <2>8 DEF Wait, CronStep, clockVars
  <2>9. CASE Timeout
    BY <2>9 DEF Timeout, CronStep, clockVars, Reached
  <2>10. CASE Relock
    BY <2>10 DEF Relock, CronStep, clockVars
  <2>11. CASE Exit
    BY <2>11 DEF Exit, CronStep
  <2>12. QED
    BY <1>1, <2>1, <2>2, <2>3, <2>4, <2>5, <2>6, <2>7, <2>8, <2>9, <2>10, <2>11
    DEF Cron
<1>2. CASE SpuriousWakeup
  BY <1>2 DEF SpuriousWakeup, Regular
<1>3. CASE SendSignal
  BY <1>3 DEF SendSignal, clockVars, cronVars
<1>4. ASSUME NEW t \in Thread, Deliver(t)
      PROVE  ScheduleInv'
  BY <1>4 DEF Deliver, clockVars, cronVars
<1>5. ASSUME NEW t \in Thread, Handler(t)
      PROVE  ScheduleInv'
  <2>1. CASE HandlerLock(t)
    BY <2>1 DEF HandlerLock, clockVars, cronVars
  <2>2. CASE HandlerSet(t)
    BY <2>2 DEF HandlerSet, Regular
  <2>3. CASE HandlerNotify(t)
    BY <2>3 DEF HandlerNotify, KillInv, NotifyInv, Regular
  <2>4. QED
    BY <1>5, <2>1, <2>2, <2>3 DEF Handler
<1>6. CASE LogElsewhere
  BY <1>6 DEF LogElsewhere, clockVars, cronVars, sigVars
<1>7. CASE Tick
  <2>1. cronpc = "waiting" /\ now.min = pass
    BY <1>7 DEF Tick, CronIdle, Regular, Reached
  <2>2. now'.min \in {pass, pass + 1}
    BY <1>7, <2>1 DEF Tick
  <2>3. QED
    BY <1>7, <2>1, <2>2 DEF Tick, cronVars
<1>8. CASE SetClockBack
  BY <1>8 DEF SetClockBack, Regular, Undisturbed
<1>9. CASE UNCHANGED vars
  BY <1>9 DEF vars
<1>10. QED
  BY <1>1, <1>2, <1>3, <1>4, <1>5, <1>6, <1>7, <1>8, <1>9 DEF Next

(* A thread that is scheduled in time starts every job in every minute it  *)
(* is due, for every calendar and every list of jobs.                      *)
THEOREM EveryJobIsStarted == Spec => []EveryDueJobRuns
<1>1. Init => TypeInv /\ KillInv /\ OnceInv /\ OnTimeInv
  BY TypeInit, KillInit, OnceInit, OnTimeInit
<1>2. TypeInv /\ KillInv /\ OnceInv /\ OnTimeInv /\ [Next]_vars
      => (TypeInv /\ KillInv /\ OnceInv /\ OnTimeInv)'
  BY TypeStep, KillStep, OnceStep, OnTimeStep
<1>3. TypeInv /\ KillInv /\ OnTimeInv => EveryDueJobRuns
  <2> SUFFICES ASSUME TypeInv, KillInv, OnTimeInv, Regular,
                      NEW j \in 1 .. Len(CronJobList), NEW m \in Minute,
                      m < now.min, Due(j, m)
               PROVE  <<j, m>> \in fired
    BY DEF EveryDueJobRuns, Regular, Undisturbed
  <2>1. cronpc \notin {"exit", "done"}
    BY DEF KillInv, LeaveInv, Regular, Undisturbed
  <2>2. StartedBefore(now.min)
    BY <2>1, BoundsAssumption
    DEF OnTimeInv, ScheduleInv, StartedBefore, TypeInv, TypeOK, Time, Minute, CronPC, Holding
  <2>3. QED
    BY <2>2 DEF StartedBefore, Started
<1>4. QED
  BY <1>1, <1>2, <1>3, PTL DEF Spec

=============================================================================
