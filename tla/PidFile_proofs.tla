--------------------------- MODULE PidFile_proofs ---------------------------
(***************************************************************************)
(* The pid file for any number of instances and pids.                      *)
(***************************************************************************)
EXTENDS PidFile, TLAPS

(***************************************************************************)
(* Facts that hold through any overlap: a forked instance has a pid of its *)
(* own, and only a file that is being written can be an orphan.            *)
(***************************************************************************)
ProcInv ==
  /\ \A i \in Instance :
       /\ pc[i] \in Forked => mypid[i] \in Pid /\ proc[mypid[i]] = "daemon"
       /\ pc[i] = "probe" => got[i] \in Pid
       /\ i \in orphan => pc[i] = "write"
  /\ \A i, j \in Instance :
       i # j /\ pc[i] \in Forked /\ pc[j] \in Forked => mypid[i] # mypid[j]

TypeInv == TypeOK /\ ProcInv

LEMMA TypeInit == Init => TypeInv
  BY PidAssumption DEF Init, TypeInv, TypeOK, ProcInv, Starting, Forked, Ended

LEMMA TypeStep == TypeInv /\ [Next]_vars => TypeInv'
<1> SUFFICES ASSUME TypeInv, [Next]_vars
             PROVE  TypeInv'
  OBVIOUS
<1> USE DEF TypeInv, TypeOK, ProcInv, Starting, Forked, Ended, Goto
<1>1. ASSUME NEW i \in Instance, Start(i)
      PROVE  TypeInv'
  <2>1. CASE ReadPidFile(i)
    BY <2>1 DEF ReadPidFile
  <2>2. CASE Probe(i)
    BY <2>2 DEF Probe
  <2>3. CASE Fork(i)
    <3>1. CASE pc' = [pc EXCEPT ![i] = "failed"] /\ UNCHANGED <<proc, mypid>>
      BY <2>3, <3>1 DEF Fork
    <3>2. ASSUME NEW p \in Pid, proc[p] = "free", proc' = [proc EXCEPT ![p] = "daemon"],
                 mypid' = [mypid EXCEPT ![i] = p], pc' = [pc EXCEPT ![i] = "open"]
          PROVE  TypeInv'
      BY <2>3, <3>2 DEF Fork
    <3>3. QED
      BY <2>3, <3>1, <3>2 DEF Fork
  <2>4. CASE Open(i)
    BY <2>4 DEF Open
  <2>5. CASE Write(i)
    BY <2>5 DEF Write
  <2>6. CASE CheckConfig(i)
    BY <2>6 DEF CheckConfig
  <2>7. QED
    BY <1>1, <2>1, <2>2, <2>3, <2>4, <2>5, <2>6 DEF Start
<1>2. ASSUME NEW i \in Instance, Stop(i)
      PROVE  TypeInv'
  <2>1. CASE Terminate(i)
    BY <2>1 DEF Terminate
  <2>2. CASE Unlink(i)
    BY <2>2 DEF Unlink
  <2>3. CASE Finish(i)
    BY <2>3 DEF Finish, Leave
  <2>4. CASE ConfigIll(i)
    BY <2>4 DEF ConfigIll, Leave
  <2>5. CASE Crash(i)
    BY <2>5 DEF Crash, Leave
  <2>6. QED
    BY <1>2, <2>1, <2>2, <2>3, <2>4, <2>5 DEF Stop
<1>3. ASSUME NEW i \in Instance, Restart(i)
      PROVE  TypeInv'
  BY <1>3 DEF Restart
<1>4. ASSUME NEW p \in Pid, ForeignStart(p) \/ ForeignEnd(p)
      PROVE  TypeInv'
  BY <1>4 DEF ForeignStart, ForeignEnd
<1>5. CASE UNCHANGED vars
  BY <1>5 DEF vars
<1>6. QED
  BY <1>1, <1>2, <1>3, <1>4, <1>5 DEF Next

(* The file, the processes and the instances keep their types. *)
THEOREM TypeCorrect == Spec => []TypeOK
<1>1. Init => TypeInv
  BY TypeInit
<1>2. TypeInv /\ [Next]_vars => TypeInv'
  BY TypeStep
<1>3. TypeInv => TypeOK
  BY DEF TypeInv
<1>4. QED
  BY <1>1, <1>2, <1>3, PTL DEF Spec

-----------------------------------------------------------------------------
(***************************************************************************)
(* One instance starts at a time.  Past the probe it knows that no daemon  *)
(* owns the file; before it, that the file it read names the daemon there  *)
(* is.  A file nobody owns is there only for the instance that opened it.  *)
(***************************************************************************)
Owns(i) == pc[i] \in Owning

AloneInv ==
  \A i \in Instance :
    /\ Owns(i) => file = mypid[i]
    /\ pc[i] = "write" => file = Empty /\ i \notin orphan
    /\ \A j \in Instance :
         i # j =>
           /\ ~(pc[i] \in Starting /\ pc[j] \in Starting)
           /\ ~(Owns(i) /\ Owns(j))
           /\ pc[j] \in {"fork", "open", "write"} => ~Owns(i)
           /\ pc[j] = "probe" /\ Owns(i) => got[j] = mypid[i]

StaleInv ==
  abandoned \/ file = NoFile \/ \E i \in Instance : pc[i] = "write" \/ Owns(i)

OverlapInv == ~overlapped => AloneInv /\ StaleInv

LEMMA OverlapInit == Init => OverlapInv
  BY DEF Init, OverlapInv, AloneInv, StaleInv, Owns, Owning, Starting

LEMMA OverlapStep == TypeInv /\ OverlapInv /\ [Next]_vars => OverlapInv'
<1> SUFFICES ASSUME TypeInv, OverlapInv, [Next]_vars, ~overlapped'
             PROVE  (AloneInv /\ StaleInv)'
  BY DEF OverlapInv
<1>0. ~overlapped /\ AloneInv /\ StaleInv
  <2>1. overlapped => overlapped'
    BY DEF Next, vars, Start, Stop, Leave, ReadPidFile, Probe, Fork, Open, Write,
           CheckConfig, Terminate, Unlink, Finish, ConfigIll, Crash, Restart,
           ForeignStart, ForeignEnd
  <2>2. QED
    BY <2>1 DEF OverlapInv
<1> USE <1>0 DEF TypeInv, TypeOK, ProcInv, AloneInv, StaleInv, Owns, Owning, Starting,
                 Forked, Ended, Goto
<1>1. ASSUME NEW i \in Instance, Start(i)
      PROVE  (AloneInv /\ StaleInv)'
  <2>1. CASE ReadPidFile(i)
    <3>1. \A j \in Instance : pc[j] \notin Starting
      BY <2>1 DEF ReadPidFile
    <3>2. CASE file \in {NoFile, Empty}
      <4>1. \A j \in Instance : ~Owns(j)
        BY <3>2, PidAssumption
      <4>2. QED
        BY <2>1, <3>1, <3>2, <4>1 DEF ReadPidFile
    <3>3. CASE file \notin {NoFile, Empty}
      BY <2>1, <3>1, <3>3 DEF ReadPidFile
    <3>4. QED
      BY <3>2, <3>3
  <2>2. CASE Probe(i)
    <3>1. proc[got[i]] \in {"free", "foreign"} => \A j \in Instance : ~Owns(j)
      BY <2>2 DEF Probe
    <3>2. QED
      BY <2>2, <3>1 DEF Probe
  <2>3. CASE Fork(i)
    <3>1. CASE pc' = [pc EXCEPT ![i] = "failed"] /\ UNCHANGED <<proc, mypid>>
      BY <2>3, <3>1 DEF Fork
    <3>2. ASSUME NEW p \in Pid, mypid' = [mypid EXCEPT ![i] = p],
                 pc' = [pc EXCEPT ![i] = "open"]
          PROVE  (AloneInv /\ StaleInv)'
      BY <2>3, <3>2 DEF Fork
    <3>3. QED
      BY <2>3, <3>1, <3>2 DEF Fork
  <2>4. CASE Open(i)
    BY <2>4 DEF Open
  <2>5. CASE Write(i)
    BY <2>5 DEF Write
  <2>6. CASE CheckConfig(i)
    BY <2>6 DEF CheckConfig
  <2>7. QED
    BY <1>1, <2>1, <2>2, <2>3, <2>4, <2>5, <2>6 DEF Start
<1>2. ASSUME NEW i \in Instance, Stop(i)
      PROVE  (AloneInv /\ StaleInv)'
  <2>1. CASE Terminate(i)
    BY <2>1 DEF Terminate
  <2>2. CASE Unlink(i)
    BY <2>2 DEF Unlink
  <2>3. CASE Finish(i)
    BY <2>3 DEF Finish, Leave
  <2>4. CASE ConfigIll(i)
    BY <2>4 DEF ConfigIll, Leave
  <2>5. CASE Crash(i)
    BY <2>5 DEF Crash, Leave
  <2>6. QED
    BY <1>2, <2>1, <2>2, <2>3, <2>4, <2>5 DEF Stop
<1>3. ASSUME NEW i \in Instance, Restart(i)
      PROVE  (AloneInv /\ StaleInv)'
  BY <1>3 DEF Restart
<1>4. ASSUME NEW p \in Pid, ForeignStart(p) \/ ForeignEnd(p)
      PROVE  (AloneInv /\ StaleInv)'
  BY <1>4 DEF ForeignStart, ForeignEnd
<1>5. CASE UNCHANGED vars
  BY <1>5 DEF vars
<1>6. QED
  BY <1>1, <1>2, <1>3, <1>4, <1>5 DEF Next

LEMMA OverlapHolds == Spec => [](TypeInv /\ OverlapInv)
<1>1. Init => TypeInv /\ OverlapInv
  BY TypeInit, OverlapInit
<1>2. TypeInv /\ OverlapInv /\ [Next]_vars => (TypeInv /\ OverlapInv)'
  BY TypeStep, OverlapStep
<1>3. QED
  BY <1>1, <1>2, PTL DEF Spec

(* At most one daemon, for any number of starts that do not overlap, with  *)
(* crashes and pid reuse at any point.                                     *)
THEOREM AtMostOneDaemon == Spec => []OneDaemon
<1>1. TypeInv /\ OverlapInv => OneDaemon
  BY DEF OverlapInv, AloneInv, OneDaemon, Owns
<1>2. QED
  BY <1>1, OverlapHolds, PTL

(* The pid file names the running daemon as long as no starts overlap. *)
THEOREM FileIsTheDaemons == Spec => []FileNamesDaemon
<1>1. TypeInv /\ OverlapInv => FileNamesDaemon
  BY DEF OverlapInv, AloneInv, FileNamesDaemon, Owns
<1>2. QED
  BY <1>1, OverlapHolds, PTL

(* Clean stops leave no pid file behind. *)
THEOREM CleanStopsLeaveNoFile == Spec => []NoStaleFile
<1>1. TypeInv /\ OverlapInv => NoStaleFile
  BY DEF OverlapInv, StaleInv, NoStaleFile, Owns, Owning, Forked
<1>2. QED
  BY <1>1, OverlapHolds, PTL
=============================================================================
