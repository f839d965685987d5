----------------------------- MODULE CronThread -----------------------------
(***************************************************************************)
(* DoCronThread, the thread that starts the cron jobs once a minute, the   *)
(* SIGTERM handler that stops it, and the static struct tm that every      *)
(* localtime() of the process fills in.                                    *)
(*                                                                         *)
(* A time is a pair of a minute since the start of the run and a second of *)
(* that minute; Calendar gives the broken-down fields localtime() computes *)
(* for a minute.  A struct tm is represented by the minute its fields name *)
(* and by tm_sec: adding one to tm_min and normalising with mktime() yields *)
(* the next minute.                                                        *)
(***************************************************************************)
EXTENDS CronConfig, Sequences

CONSTANTS
  CronJobList,      \* the registered jobs: a sequence of configurations
  Calendar,         \* struct tm of every minute of the run
  MaxMinute,        \* bound: the last minute of the run
  LastSecond,       \* the last second of a minute (59)
  MaxSignals,       \* bound: SIGTERMs sent to the process
  MaxSetBacks,      \* bound: how often the system clock is set back
  SpuriousWakeups,  \* whether wait_until may return for no reason
  Prompt            \* whether the thread runs before the clock moves on

Minute == 0 .. MaxMinute
Second == 0 .. LastSecond
Time == [min : Minute, sec : Second]

ASSUME BoundsAssumption ==
  /\ MaxMinute \in Nat
  /\ LastSecond \in Nat
  /\ MaxSignals \in Nat
  /\ MaxSetBacks \in Nat
  /\ SpuriousWakeups \in BOOLEAN
  /\ Prompt \in BOOLEAN

ASSUME JobsAssumption == CronJobList \in Seq([Fields -> SUBSET Nat])

ASSUME CalendarAssumption ==
  Calendar \in [Minute -> [tm_min : 0 .. 59, tm_hour : 0 .. 23, tm_mday : 1 .. 31,
                           tm_mon : 0 .. 11, tm_wday : 0 .. 6]]

VARIABLES
  now,          \* std::chrono::system_clock
  tm,           \* the static buffer behind localtime()
  cronpc,       \* where DoCronThread is
  job,          \* DoLoop: index of the next job
  time_point,   \* when the thread wants to wake up
  mutex,        \* owner of ThreadSleepCVMutex
  IsKilled,
  hpc,          \* where each thread is in GracefulSignalHandler
  sigPending,   \* a SIGTERM is pending for the process
  sent,         \* SIGTERMs sent so far
  setBacks,     \* times the clock was set back so far
  pass,         \* history: the minute the current pass of DoLoop is for
  fired,        \* history: <<job, minute>> of the tasks started
  refired,      \* history: those that were started again
  clobbered,    \* history: another localtime() hit a pass in progress
  spurious      \* history: wait_until returned for no reason

cronVars == <<cronpc, job, time_point, pass, fired, refired>>
sigVars == <<hpc, sigPending, sent>>
clockVars == <<now, setBacks>>
vars == <<now, tm, cronpc, job, time_point, mutex, IsKilled, hpc, sigPending,
          sent, setBacks, pass, fired, refired, clobbered, spurious>>

(* "other" is any further thread: poll thread, HTTP worker, detached task. *)
Thread == {"main", "cron", "other"}
NoOwner == "none"

(* Has the clock t reached the time point tp? *)
Reached(t, tp) == t.min > tp.min \/ (t.min = tp.min /\ t.sec >= tp.sec)

(* Job j is due at the broken-down time of minute m. *)
Due(j, m) == WillExecute(CronJobList[j], Calendar[m])

Init ==
  /\ now = [min |-> 0, sec |-> 0]
  /\ tm = [min |-> 0, sec |-> 0]
  /\ cronpc = "start"
  /\ job = 1
  /\ time_point = [min |-> 0, sec |-> 0]
  /\ mutex = NoOwner
  /\ IsKilled = FALSE
  /\ hpc = [t \in Thread |-> "idle"]
  /\ sigPending = FALSE
  /\ sent = 0
  /\ setBacks = 0
  /\ pass = 0
  /\ fired = {}
  /\ refired = {}
  /\ clobbered = FALSE
  /\ spurious = FALSE

-----------------------------------------------------------------------------
(* DoCronThread.  A step of the thread waits for a handler running on it.  *)

CronStep(from, to) ==
  /\ cronpc = from
  /\ hpc["cron"] = "idle"
  /\ cronpc' = to

(* std::unique_lock<std::mutex> lk(ThreadSleepCVMutex) *)
Lock ==
  /\ CronStep("start", "check")
  /\ mutex = NoOwner
  /\ mutex' = "cron"
  /\ UNCHANGED <<clockVars, sigVars, tm, job, time_point, IsKilled, pass,
                 fired, refired, clobbered, spurious>>

(* Mutant: the break of the do loop is gone. *)
CheckKilledNever ==
  /\ CronStep("check", "localtime")
  /\ UNCHANGED <<clockVars, sigVars, tm, job, time_point, mutex, IsKilled,
                 pass, fired, refired, clobbered, spurious>>

CheckKilled ==
  /\ \/ IsKilled /\ CronStep("check", "exit")
     \/ ~IsKilled /\ CronStep("check", "localtime")
  /\ UNCHANGED <<clockVars, sigVars, tm, job, time_point, mutex, IsKilled,
                 pass, fired, refired, clobbered, spurious>>

Localtime ==
  /\ CronStep("localtime", "doloop")
  /\ tm' = now
  /\ pass' = now.min
  /\ job' = 1
  /\ UNCHANGED <<clockVars, sigVars, time_point, mutex, IsKilled, fired,
                 refired, clobbered, spurious>>

(* One round of DoLoop: start a detached thread for the job if it is due. *)
DoLoop ==
  /\ job <= Len(CronJobList)
  /\ CronStep("doloop", "doloop")
  /\ job' = job + 1
  /\ IF Due(job, tm.min)
     THEN /\ fired' = fired \cup {<<job, tm.min>>}
          /\ refired' = refired \cup (fired \cap {<<job, tm.min>>})
     ELSE UNCHANGED <<fired, refired>>
  /\ UNCHANGED <<clockVars, sigVars, tm, time_point, mutex, IsKilled, pass,
                 clobbered, spurious>>

(* Mutants: tm_min is left alone, or the wrong minute is added. *)
IncrementMinuteForgotten ==
  /\ job > Len(CronJobList)
  /\ CronStep("doloop", "zero")
  /\ UNCHANGED <<clockVars, sigVars, tm, job, time_point, mutex, IsKilled, pass,
                 fired, refired, clobbered, spurious>>

IncrementMinuteTwice ==
  /\ job > Len(CronJobList)
  /\ CronStep("doloop", "zero")
  /\ tm' = [min |-> tm.min + 2, sec |-> tm.sec]
  /\ UNCHANGED <<clockVars, sigVars, job, time_point, mutex, IsKilled, pass,
                 fired, refired, clobbered, spurious>>

(* ++tmptr->tm_min, then tmptr->tm_sec = 0, then mktime(tmptr): three reads *)
(* and writes of the shared buffer.                                        *)
IncrementMinute ==
  /\ job > Len(CronJobList)
  /\ CronStep("doloop", "zero")
  /\ tm' = [min |-> tm.min + 1, sec |-> tm.sec]
  /\ UNCHANGED <<clockVars, sigVars, job, time_point, mutex, IsKilled, pass,
                 fired, refired, clobbered, spurious>>

ZeroSecond ==
  /\ CronStep("zero", "mktime")
  /\ tm' = [min |-> tm.min, sec |-> 0]
  /\ UNCHANGED <<clockVars, sigVars, job, time_point, mutex, IsKilled, pass,
                 fired, refired, clobbered, spurious>>

Mktime ==
  /\ CronStep("mktime", "wait")
  /\ time_point' = tm
  /\ UNCHANGED <<clockVars, sigVars, tm, job, mutex, IsKilled, pass, fired,
                 refired, clobbered, spurious>>

(* wait_until: give up the mutex and sleep, atomically. *)
Wait ==
  /\ CronStep("wait", "waiting")
  /\ mutex' = NoOwner
  /\ UNCHANGED <<clockVars, sigVars, tm, job, time_point, IsKilled, pass,
                 fired, refired, clobbered, spurious>>

Timeout ==
  /\ Reached(now, time_point)
  /\ CronStep("waiting", "relock")
  /\ UNCHANGED <<clockVars, sigVars, tm, job, time_point, mutex, IsKilled,
                 pass, fired, refired, clobbered, spurious>>

SpuriousWakeup ==
  /\ SpuriousWakeups
  /\ CronStep("waiting", "relock")
  /\ spurious' = TRUE
  /\ UNCHANGED <<clockVars, sigVars, tm, job, time_point, mutex, IsKilled,
                 pass, fired, refired, clobbered>>

(* Mutant: the loop goes round on no_timeout. *)
RelockSwapped ==
  /\ mutex = NoOwner
  /\ mutex' = "cron"
  /\ \/ ~Reached(now, time_point) /\ CronStep("relock", "check")
     \/ Reached(now, time_point) /\ CronStep("relock", "exit")
  /\ UNCHANGED <<clockVars, sigVars, tm, job, time_point, IsKilled, pass,
                 fired, refired, clobbered, spurious>>

(* wait_until takes the mutex again and returns timeout iff the clock has  *)
(* reached time_point; only then does the do loop go round.                *)
Relock ==
  /\ mutex = NoOwner
  /\ mutex' = "cron"
  /\ \/ Reached(now, time_point) /\ CronStep("relock", "check")
     \/ ~Reached(now, time_point) /\ CronStep("relock", "exit")
  /\ UNCHANGED <<clockVars, sigVars, tm, job, time_point, IsKilled, pass,
                 fired, refired, clobbered, spurious>>

(* The unique_lock goes out of scope and the thread ends. *)
Exit ==
  /\ CronStep("exit", "done")
  /\ mutex' = NoOwner
  /\ UNCHANGED <<clockVars, sigVars, tm, job, time_point, IsKilled, pass,
                 fired, refired, clobbered, spurious>>

Cron == \/ Lock \/ CheckKilled \/ Localtime \/ DoLoop \/ IncrementMinute
        \/ ZeroSecond \/ Mktime \/ Wait \/ Timeout \/ Relock \/ Exit

-----------------------------------------------------------------------------
(* SIGTERM.                                                                *)

(* A SIGTERM sent while one is pending is merged with it. *)
SendSignal ==
  /\ sent < MaxSignals
  /\ sent' = sent + 1
  /\ sigPending' = TRUE
  /\ UNCHANGED <<clockVars, cronVars, hpc, tm, mutex, IsKilled, clobbered,
                 spurious>>

(* The kernel interrupts the main thread; while that runs the handler, and *)
(* so blocks SIGTERM, it picks any other live thread.                      *)
Deliver(t) ==
  /\ sigPending
  /\ hpc[t] = "idle"
  /\ t # "main" => hpc["main"] # "idle"
  /\ t = "cron" => cronpc # "done"
  /\ sigPending' = FALSE
  /\ hpc' = [hpc EXCEPT ![t] = "lock"]
  /\ UNCHANGED <<clockVars, cronVars, sent, tm, mutex, IsKilled, clobbered,
                 spurious>>

(* Mutant: IsKilled is set without the mutex. *)
HandlerLockFree(t) ==
  /\ hpc[t] = "lock"
  /\ IsKilled' = TRUE
  /\ hpc' = [hpc EXCEPT ![t] = "notify"]
  /\ UNCHANGED <<clockVars, cronVars, sigPending, sent, tm, mutex, clobbered,
                 spurious>>

(* KillDiaoBotDaemon: std::mutex is not recursive, so a thread that already *)
(* owns it blocks for ever.                                                *)
HandlerLock(t) ==
  /\ hpc[t] = "lock"
  /\ mutex = NoOwner
  /\ mutex' = t
  /\ hpc' = [hpc EXCEPT ![t] = "set"]
  /\ UNCHANGED <<clockVars, cronVars, sigPending, sent, tm, IsKilled,
                 clobbered, spurious>>

HandlerSet(t) ==
  /\ hpc[t] = "set"
  /\ IsKilled' = TRUE
  /\ mutex' = NoOwner
  /\ hpc' = [hpc EXCEPT ![t] = "notify"]
  /\ UNCHANGED <<clockVars, cronVars, sigPending, sent, tm, clobbered,
                 spurious>>

(* ThreadSleepCV.notify_all() *)
HandlerNotify(t) ==
  /\ hpc[t] = "notify"
  /\ hpc' = [hpc EXCEPT ![t] = "idle"]
  /\ cronpc' = IF cronpc = "waiting" THEN "relock" ELSE cronpc
  /\ UNCHANGED <<clockVars, sigPending, sent, tm, job, time_point, mutex,
                 IsKilled, pass, fired, refired, clobbered, spurious>>

Handler(t) == HandlerLock(t) \/ HandlerSet(t) \/ HandlerNotify(t)

-----------------------------------------------------------------------------
(* The rest of the process and the clock.                                  *)

(* LOG on another thread calls localtime(), which overwrites the buffer    *)
(* with a time its thread read earlier; a torn write leaves one field.     *)
LogElsewhere ==
  /\ \E t \in Time :
       /\ Reached(now, t)
       /\ tm' \in {t, [min |-> t.min, sec |-> tm.sec], [min |-> tm.min, sec |-> t.sec]}
  /\ clobbered' = (clobbered \/ cronpc \in {"doloop", "zero", "mktime"})
  /\ UNCHANGED <<clockVars, cronVars, sigVars, mutex, IsKilled, spurious>>

(* Under Prompt the clock waits for a thread that has something to do. *)
CronIdle ==
  \/ cronpc = "done"
  \/ cronpc = "waiting" /\ ~Reached(now, time_point)

Tick ==
  /\ Prompt => CronIdle
  /\ \/ now.sec < LastSecond /\ now' = [min |-> now.min, sec |-> now.sec + 1]
     \/ /\ now.sec = LastSecond
        /\ now.min < MaxMinute
        /\ now' = [min |-> now.min + 1, sec |-> 0]
  /\ UNCHANGED <<cronVars, sigVars, tm, mutex, IsKilled, setBacks, clobbered,
                 spurious>>

SetClockBack ==
  /\ setBacks < MaxSetBacks
  /\ setBacks' = setBacks + 1
  /\ now' \in {t \in Time : ~Reached(t, now)}
  /\ UNCHANGED <<cronVars, sigVars, tm, mutex, IsKilled, clobbered, spurious>>

-----------------------------------------------------------------------------
Next ==
  \/ Cron
  \/ SpuriousWakeup
  \/ SendSignal
  \/ \E t \in Thread : Deliver(t) \/ Handler(t)
  \/ LogElsewhere
  \/ Tick
  \/ SetClockBack

(* Every thread that can run eventually runs, and a thread that waits for  *)
(* the mutex gets it if it is free again and again.                        *)
Fairness ==
  /\ WF_vars(Cron)
  /\ SF_vars(Lock)
  /\ SF_vars(Relock)
  /\ \A t \in Thread : /\ SF_vars(HandlerLock(t))
                       /\ WF_vars(HandlerSet(t) \/ HandlerNotify(t))
  /\ WF_vars(\E t \in Thread : Deliver(t))

Spec == Init /\ [][Next]_vars
FairSpec == Spec /\ Fairness

-----------------------------------------------------------------------------
(* Properties.                                                             *)

(* Where the loop of DoCronThread runs with ThreadSleepCVMutex held. *)
Holding == {"check", "localtime", "doloop", "zero", "mktime", "wait", "exit"}
CronPC == Holding \cup {"start", "waiting", "relock", "done"}
BrokenDown == [min : 0 .. MaxMinute + 1, sec : Second]

TypeOK ==
  /\ now \in Time
  /\ tm \in BrokenDown
  /\ cronpc \in CronPC
  /\ job \in 1 .. Len(CronJobList) + 1
  /\ time_point \in BrokenDown
  /\ mutex \in Thread \cup {NoOwner}
  /\ IsKilled \in BOOLEAN
  /\ hpc \in [Thread -> {"idle", "lock", "set", "notify"}]
  /\ sigPending \in BOOLEAN
  /\ sent \in 0 .. MaxSignals
  /\ setBacks \in 0 .. MaxSetBacks
  /\ pass \in Minute
  /\ fired \subseteq (1 .. Len(CronJobList)) \X Minute
  /\ refired \subseteq fired
  /\ clobbered \in BOOLEAN
  /\ spurious \in BOOLEAN

(* A kill is never lost: the thread never sleeps with IsKilled set unless  *)
(* the handler that set it has still to call notify_all (the mutex around  *)
(* the assignment in KillDiaoBotDaemon is there for this).                 *)
NoLostKill ==
  cronpc = "waiting" /\ IsKilled => \E t \in Thread : hpc[t] = "notify"

(* DoCronThread returns only because the daemon was killed, unless         *)
(* wait_until returned early for no reason or the clock went back: the do  *)
(* loop takes every early return for a kill.                               *)
CronEndsOnlyWhenKilled ==
  cronpc \in {"exit", "done"} => IsKilled \/ spurious \/ setBacks > 0

(* No job is started twice for one minute, however late the thread runs,   *)
(* as long as no other thread's localtime() hits a pass of DoLoop and the  *)
(* clock is not set back.                                                  *)
NoDoubleFire == ~clobbered /\ setBacks = 0 => refired = {}

(* When the thread is scheduled promptly, every job due in a past minute   *)
(* was started in that minute, across the ends of hours, days and years.   *)
EveryDueJobRuns ==
  (Prompt /\ ~clobbered /\ ~spurious /\ setBacks = 0 /\ ~IsKilled) =>
    \A j \in 1 .. Len(CronJobList), m \in Minute :
      m < now.min /\ Due(j, m) => <<j, m>> \in fired

(* DaemonUtil.cpp:27, "Signal %d received, terminating...": a SIGTERM ends *)
(* the cron thread, which main waits for.                                  *)
SignalTerminates == sigPending ~> cronpc = "done"

=============================================================================
