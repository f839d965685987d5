------------------------------ MODULE PidFile ------------------------------
(***************************************************************************)
(* How main() starts and stops a daemon: it reads the pid file of the bot, *)
(* probes the process named there, forks, writes the child's pid, runs,    *)
(* and unlinks the file at the end.  Several instances of diaobotd are     *)
(* started with the same configuration, crash, and are started again; pids *)
(* are reused.  Foreground mode touches neither the file nor anything else *)
(* of this module.                                                         *)
(***************************************************************************)
EXTENDS Integers, FiniteSets

CONSTANTS
  Instance,   \* invocations of diaobotd in daemon mode
  Pid,        \* process ids
  Foreign     \* whether processes that are not diaobotd use pids

NoFile == "no file"
Empty == "empty"
NoPid == "no pid"

ASSUME PidAssumption ==
  /\ {NoFile, Empty, NoPid} \cap Pid = {}
  /\ Foreign \in BOOLEAN

VARIABLES
  file,        \* the pid file: NoFile, Empty or the pid it holds
  proc,        \* what runs under each pid
  pc,          \* where each instance is
  got,         \* the pid an instance read from the file
  mypid,       \* the pid of the child an instance forked
  orphan,      \* instances whose open FILE has been unlinked
  overlapped,  \* history: two instances were starting at the same time
  abandoned    \* history: a daemon died without unlinking its file

vars == <<file, proc, pc, got, mypid, orphan, overlapped, abandoned>>

Starting == {"probe", "fork", "open", "write"}
Forked == {"open", "write", "config", "running", "unlink", "finish"}
Owning == {"config", "running", "unlink"}
Ended == {"refused", "failed", "crashed", "stopped"}

Init ==
  /\ file = NoFile
  /\ proc = [p \in Pid |-> "free"]
  /\ pc = [i \in Instance |-> "start"]
  /\ got = [i \in Instance |-> NoPid]
  /\ mypid = [i \in Instance |-> NoPid]
  /\ orphan = {}
  /\ overlapped = FALSE
  /\ abandoned = FALSE

Goto(i, to) == pc' = [pc EXCEPT ![i] = to]

(* ReadFile(pid_file): an empty string if there is no file. *)
ReadPidFile(i) ==
  /\ pc[i] = "start"
  /\ overlapped' = (overlapped \/ \E j \in Instance : pc[j] \in Starting)
  /\ IF file \in {NoFile, Empty}
     THEN Goto(i, "fork") /\ UNCHANGED got
     ELSE Goto(i, "probe") /\ got' = [got EXCEPT ![i] = file]
  /\ UNCHANGED <<file, proc, mypid, orphan, abandoned>>

(* Mutants: the probe is not looked at; a refused start unlinks the file. *)
ProbeIgnored(i) ==
  /\ pc[i] = "probe"
  /\ Goto(i, "fork")
  /\ got' = [got EXCEPT ![i] = NoPid]
  /\ UNCHANGED <<file, proc, mypid, orphan, overlapped, abandoned>>

ProbeUnlinks(i) ==
  /\ pc[i] = "probe"
  /\ \/ proc[got[i]] \in {"free", "foreign"} /\ Goto(i, "fork") /\ UNCHANGED file
     \/ proc[got[i]] # "free" /\ Goto(i, "refused") /\ file' = NoFile
  /\ got' = [got EXCEPT ![i] = NoPid]
  /\ UNCHANGED <<proc, mypid, orphan, overlapped, abandoned>>

(* kill(prev_pid, 0): the start is refused only if it succeeds.  It fails  *)
(* for a pid that is free, and with EPERM for a process of another user;   *)
(* the instances of a bot are one user's.                                  *)
Probe(i) ==
  /\ pc[i] = "probe"
  /\ \/ proc[got[i]] \in {"free", "foreign"} /\ Goto(i, "fork")
     \/ proc[got[i]] # "free" /\ Goto(i, "refused")
  /\ got' = [got EXCEPT ![i] = NoPid]
  /\ UNCHANGED <<file, proc, mypid, orphan, overlapped, abandoned>>

(* fork(), and in the child setsid(). *)
Fork(i) ==
  /\ pc[i] = "fork"
  /\ \/ /\ Goto(i, "failed")
        /\ UNCHANGED <<proc, mypid>>
     \/ \E p \in Pid : /\ proc[p] = "free"
                       /\ proc' = [proc EXCEPT ![p] = "daemon"]
                       /\ mypid' = [mypid EXCEPT ![i] = p]
                       /\ Goto(i, "open")
  /\ UNCHANGED <<file, got, orphan, overlapped, abandoned>>

(* fopen(pid_file, "w") creates the file or truncates it. *)
Open(i) ==
  /\ pc[i] = "open"
  /\ file' = Empty
  /\ Goto(i, "write")
  /\ UNCHANGED <<proc, got, mypid, orphan, overlapped, abandoned>>

(* Mutant: the number written is the one that was read. *)
WriteOldPid(i) ==
  /\ pc[i] = "write"
  /\ file' = got[i]
  /\ orphan' = orphan \ {i}
  /\ Goto(i, "config")
  /\ UNCHANGED <<proc, got, mypid, overlapped, abandoned>>

(* fclose() writes the buffered pid at offset 0 of the file that was       *)
(* opened; over a pid written meanwhile by another instance it may leave   *)
(* that one's last digits, and so any number.                              *)
Write(i) ==
  /\ pc[i] = "write"
  /\ IF i \in orphan THEN UNCHANGED file
     ELSE IF file = Empty THEN file' = mypid[i]
     ELSE file' \in Pid
  /\ orphan' = orphan \ {i}
  /\ Goto(i, "config")
  /\ UNCHANGED <<proc, got, mypid, overlapped, abandoned>>

(* The checks of root\log and freopen(). *)
CheckConfig(i) ==
  /\ pc[i] = "config"
  /\ Goto(i, "running")
  /\ UNCHANGED <<file, proc, got, mypid, orphan, overlapped, abandoned>>

(* DoMain returns after a SIGTERM. *)
Terminate(i) ==
  /\ pc[i] = "running"
  /\ Goto(i, "unlink")
  /\ UNCHANGED <<file, proc, got, mypid, orphan, overlapped, abandoned>>

(* Mutant: the file stays. *)
UnlinkForgotten(i) ==
  /\ pc[i] = "unlink"
  /\ Goto(i, "finish")
  /\ UNCHANGED <<file, proc, got, mypid, orphan, overlapped, abandoned>>

Unlink(i) ==
  /\ pc[i] = "unlink"
  /\ file' = NoFile
  /\ orphan' = {j \in Instance : pc[j] = "write"}
  /\ Goto(i, "finish")
  /\ UNCHANGED <<proc, got, mypid, overlapped, abandoned>>

(* The process of instance i ends. *)
Leave(i, how) ==
  /\ proc' = [proc EXCEPT ![mypid[i]] = "free"]
  /\ mypid' = [mypid EXCEPT ![i] = NoPid]
  /\ orphan' = orphan \ {i}
  /\ Goto(i, how)

Finish(i) ==
  /\ pc[i] = "finish"
  /\ Leave(i, "stopped")
  /\ UNCHANGED <<file, got, overlapped, abandoned>>

(* exit(EXIT_FAILURE) because root\log is ill: the file stays. *)
ConfigIll(i) ==
  /\ pc[i] = "config"
  /\ Leave(i, "failed")
  /\ abandoned' = TRUE
  /\ UNCHANGED <<file, got, overlapped>>

(* A kill, an exception out of InitializeBotEngine, a fault. *)
Crash(i) ==
  /\ pc[i] \in Forked
  /\ Leave(i, "crashed")
  /\ abandoned' = TRUE
  /\ UNCHANGED <<file, got, overlapped>>

Restart(i) ==
  /\ pc[i] \in Ended
  /\ Goto(i, "start")
  /\ UNCHANGED <<file, proc, got, mypid, orphan, overlapped, abandoned>>

(* Other programs come and go. *)
ForeignStart(p) ==
  /\ Foreign
  /\ proc[p] = "free"
  /\ proc' = [proc EXCEPT ![p] = "foreign"]
  /\ UNCHANGED <<file, pc, got, mypid, orphan, overlapped, abandoned>>

ForeignEnd(p) ==
  /\ proc[p] = "foreign"
  /\ proc' = [proc EXCEPT ![p] = "free"]
  /\ UNCHANGED <<file, pc, got, mypid, orphan, overlapped, abandoned>>

Start(i) == ReadPidFile(i) \/ Probe(i) \/ Fork(i) \/ Open(i) \/ Write(i) \/ CheckConfig(i)

Stop(i) == Terminate(i) \/ Unlink(i) \/ Finish(i) \/ ConfigIll(i) \/ Crash(i)

Next ==
  \/ \E i \in Instance : Start(i) \/ Stop(i) \/ Restart(i)
  \/ \E p \in Pid : ForeignStart(p) \/ ForeignEnd(p)

Spec == Init /\ [][Next]_vars

-----------------------------------------------------------------------------
(* Properties.                                                             *)

TypeOK ==
  /\ file \in Pid \cup {NoFile, Empty}
  /\ proc \in [Pid -> {"free", "daemon", "foreign"}]
  /\ pc \in [Instance -> {"start"} \cup Starting \cup Forked \cup Ended]
  /\ got \in [Instance -> Pid \cup {NoPid}]
  /\ mypid \in [Instance -> Pid \cup {NoPid}]
  /\ orphan \subseteq Instance
  /\ overlapped \in BOOLEAN
  /\ abandoned \in BOOLEAN

(* Unless two starts overlapped, at most one daemon of the bot runs: the   *)
(* probe of the pid file excludes a second one, through crashes, restarts  *)
(* and reused pids.                                                        *)
OneDaemon ==
  ~overlapped => \A i, j \in Instance : pc[i] \in Owning /\ pc[j] \in Owning => i = j

(* Unless two starts overlapped, the file holds the pid of the daemon that *)
(* runs; nobody truncates or unlinks it under a running daemon.            *)
FileNamesDaemon ==
  ~overlapped => \A i \in Instance : pc[i] \in Owning => file = mypid[i]

(* Unless two starts overlapped, a file without a daemon is left only by   *)
(* one that crashed or exited on a bad configuration.                      *)
NoStaleFile ==
  ~overlapped /\ ~abandoned /\ (\A i \in Instance : pc[i] \notin Forked) => file = NoFile

(* main.cpp:30, "Same bot is running?", and main.cpp:49: the daemon start  *)
(* fails when the bot is running.                                          *)
SameBotRunsOnce ==
  \A i, j \in Instance : pc[i] = "running" /\ pc[j] = "running" => i = j
=============================================================================
