----------------------- MODULE DaemonLifecycleProofs -----------------------
(***************************************************************************)
(* What holds of starting and stopping daemons for any number of them.     *)
(* The files are only two, so everything rests on one fact: as long as     *)
(* commands are not given at the same time at most one daemon process is   *)
(* alive, and from the moment it has written the PID file until it has     *)
(* removed it, the file names it.                                          *)
(***************************************************************************)
EXTENDS DaemonLifecycle, FiniteSetTheorems, TLAPS

\* A daemon never runs a stop's code, nor a stop a daemon's.
Kinds ==
  /\ \A d \in Daemon : pc[d] \notin Stopping
  /\ \A k \in Stop : ~Alive(k)

\* One command at a time.
OneCommand ==
  \A p, q \in Daemon \cup Stop :
    (pc[p] \in Starting \cup Stopping /\ pc[q] \in Starting \cup Stopping) => p = q

OneAlive == \A d, e \in Daemon : (Alive(d) /\ Alive(e)) => d = e

\* The PID file names the daemon that wrote it ...
Named ==
  \A d \in Daemon :
    pc[d] \in {"bind", "bindPort", "undoSocket", "undoPid"} \cup Serving \cup Leaving
      => pidFile = d

\* ... and the socket is its own, the path free until it binds it.
Bound ==
  \A d \in Daemon :
    /\ pc[d] \in {"bindPort", "rmSocket"} \cup Serving => socket = d
    /\ pc[d] \in {"writePid", "bind"} => socket = None

\* A stop waits for the one daemon there is, and sweeps when there is none.
Awaited ==
  \A k \in Stop :
    /\ pc[k] = "wait" => /\ target[k] \in Daemon
                         /\ \A d \in Daemon : Alive(d) => d = target[k]
    /\ pc[k] \in {"sweepPid", "sweepSocket"} => \A d \in Daemon : ~Alive(d)

\* Nothing is promised once commands overlap, but these hold even then.
Targeted == \A k \in Stop : pc[k] = "wait" => target[k] \in Daemon

Shape == TypeOK /\ Kinds /\ Targeted

Apart == OneCommand /\ OneAlive /\ Named /\ Bound /\ Awaited /\ ~inTheWay

IInv == Shape /\ (~overlap => Apart)

-----------------------------------------------------------------------------
(* Types, whoever overlaps. *)

\* Nothing runs and no file is there, at first.
LEMMA InitIInv == Init => IInv
<1> SUFFICES ASSUME Init PROVE IInv
  OBVIOUS
<1>1. TypeOK
  <2>1. inTheWay \in BOOLEAN /\ overlap \in BOOLEAN
    BY DEF Init
  <2>2. kills \in 0..MaxKills
    BY BoundAssumption DEF Init
  <2>. QED BY <2>1, <2>2 DEF Init, TypeOK
<1>2. Kinds /\ Targeted
  BY DEF Init, Kinds, Targeted, Alive, Starting, Serving, Leaving, Stopping
<1>3. Apart
  BY DEF Init, Apart, OneCommand, OneAlive, Named, Bound, Awaited, Alive, Starting,
         Serving, Leaving, Stopping
<1>. QED BY <1>1, <1>2, <1>3 DEF IInv, Shape

\* Every step keeps the types, and daemons and stops in their own code.
LEMMA ShapeStep == ASSUME Shape, [Next]_vars PROVE Shape'
<1> USE ProcessAssumption, BoundAssumption
    DEF Shape, TypeOK, Kinds, Targeted, Alive, Starting, Serving, Leaving, Stopping, Over, Goto,
        RemovePidFile, RemoveSocket
<1>1. ASSUME NEW d \in Daemon, Check(d) PROVE Shape'
  BY <1>1 DEF Check, Begin
<1>2. ASSUME NEW d \in Daemon, StartStep(d) PROVE Shape'
  <2>1. CASE RemoveStalePid(d) \/ RemoveStaleSocket(d) \/ CleanSocket(d)
    BY <2>1 DEF RemoveStalePid, RemoveStaleSocket, CleanSocket
  <2>2. CASE WritePid(d) \/ Bind(d) \/ BindPort(d)
    BY <2>2 DEF WritePid, Bind, BindPort
  <2>3. CASE UndoSocket(d) \/ UndoPid(d)
    BY <2>3 DEF UndoSocket, UndoPid
  <2> QED BY ONLY <1>2, <2>1, <2>2, <2>3 DEF StartStep
<1>3. ASSUME NEW d \in Daemon, Shutdown(d) \/ Drain(d) \/ LeaveStep(d) PROVE Shape'
  BY <1>3 DEF Shutdown, Terminated, Drain, LeaveStep, LeaveRemovingSocket, LeaveRemovingPid
<1>4. ASSUME NEW k \in Stop, ReadPid(k) PROVE Shape'
  BY <1>4 DEF ReadPid, Begin, Running
<1>5. ASSUME NEW k \in Stop, Signal(k) PROVE Shape'
  BY <1>5 DEF Signal, Running, Terminated
<1>6. ASSUME NEW k \in Stop, Wait(k) \/ SweepPid(k) \/ SweepSocket(k) PROVE Shape'
  BY <1>6 DEF Wait, SweepPid, SweepSocket
<1>7. ASSUME NEW p \in Daemon \cup Stop, Kill(p) PROVE Shape'
  BY <1>7 DEF Kill
<1>8. CASE UNCHANGED vars
  BY <1>8 DEF vars
<1>. QED BY <1>1, <1>2, <1>3, <1>4, <1>5, <1>6, <1>7, <1>8 DEF Next, StopStep

-----------------------------------------------------------------------------
(* One command after the other. *)

\* A command that begins alone and finds no running daemon has none beside it:
\* one that serves or leaves still has the PID file.
LEMMA NobodyAlive ==
  ASSUME Shape, Apart, NEW p \in Daemon \cup Stop, Begin(p), ~overlap', ~Running
  PROVE  \A d \in Daemon : ~Alive(d)
<1>1. \A q \in Daemon \cup Stop : pc[q] \notin Starting \cup Stopping
  BY DEF Begin
<1>2. \A d \in Daemon : Alive(d) => pidFile = d
  BY <1>1 DEF Apart, Named, Alive
<1>. QED BY <1>2, ProcessAssumption DEF Running

\* startDaemon() keeps commands apart.
LEMMA StartApart ==
  ASSUME Shape, Apart, NEW d \in Daemon, Check(d) \/ StartStep(d), ~overlap'
  PROVE  Apart'
<1> USE DEF Alive, Starting, Serving, Leaving, Stopping, Over, Goto, Shape, TypeOK
<1>1. CASE Check(d)
  <2>1. \A p \in Daemon \cup Stop : pc[p] \notin Starting \cup Stopping
    BY <1>1 DEF Check, Begin
  <2>2. CASE Running
    <3>1. pc' = [pc EXCEPT ![d] = "refused"]
      BY <1>1, <2>2 DEF Check
    <3>. QED BY <1>1, <2>1, <3>1
             DEF Check, Apart, OneCommand, OneAlive, Named, Bound, Awaited
  <2>3. CASE ~Running
    <3>1. \A e \in Daemon : ~Alive(e)
      BY <1>1, <2>3, NobodyAlive DEF Check
    <3>2. \E l \in {"stalePid", "init"} : pc' = [pc EXCEPT ![d] = l]
      BY <1>1, <2>3 DEF Check
    <3>. QED BY <1>1, <2>1, <3>1, <3>2, ProcessAssumption
             DEF Check, Apart, OneCommand, OneAlive, Named, Bound, Awaited
  <2>. QED BY <2>2, <2>3
<1>2. CASE StartStep(d)
  <2>1. pc[d] \in Starting /\ \A e \in Daemon : Alive(e) => e = d
    BY <1>2 DEF StartStep, RemoveStalePid, RemoveStaleSocket, CleanSocket, WritePid, Bind,
                BindPort, UndoSocket, UndoPid, Apart, OneAlive
  <2>2. \A k \in Stop : pc[k] \notin Stopping
    BY <2>1, ProcessAssumption DEF Apart, OneCommand
  <2>3. OneCommand' /\ OneAlive'
    BY <1>2, <2>1 DEF StartStep, RemoveStalePid, RemoveStaleSocket, CleanSocket, WritePid, Bind,
                BindPort, UndoSocket, UndoPid, Apart, OneCommand, OneAlive
  <2>4. Awaited'
    BY <1>2, <2>2, ProcessAssumption
       DEF StartStep, RemoveStalePid, RemoveStaleSocket, CleanSocket, WritePid, Bind,
           BindPort, UndoSocket, UndoPid, Awaited
  <2>5. Named'
    BY <1>2, <2>1
       DEF StartStep, RemoveStalePid, RemoveStaleSocket, CleanSocket, WritePid, Bind,
           BindPort, UndoSocket, UndoPid, Apart, Named, RemovePidFile
  <2>6. Bound' /\ ~inTheWay'
    BY <1>2, <2>1
       DEF StartStep, RemoveStalePid, RemoveStaleSocket, CleanSocket, WritePid, Bind,
           BindPort, UndoSocket, UndoPid, Apart, Bound, RemoveSocket
  <2>. QED BY <2>3, <2>4, <2>5, <2>6 DEF Apart
<1>. QED BY <1>1, <1>2

\* A daemon that leaves keeps commands apart: until its last step the files are
\* its own.
LEMMA LeaveApart ==
  ASSUME Shape, Apart, NEW d \in Daemon, Shutdown(d) \/ Drain(d) \/ LeaveStep(d)
  PROVE  Apart'
<1> USE DEF Alive, Starting, Serving, Leaving, Stopping, Over, Goto, Shape, TypeOK
<1>1. \A e \in Daemon : Alive(e) => e = d
  BY DEF Shutdown, Drain, LeaveStep, LeaveRemovingSocket, LeaveRemovingPid, Apart, OneAlive
<1>2. OneCommand' /\ OneAlive' /\ Awaited'
  BY <1>1, ProcessAssumption
     DEF Shutdown, Terminated, Drain, LeaveStep, LeaveRemovingSocket, LeaveRemovingPid, Apart,
         OneCommand, OneAlive, Awaited, Kinds
<1>3. Named'
  BY <1>1 DEF Shutdown, Terminated, Drain, LeaveStep, LeaveRemovingSocket, LeaveRemovingPid,
              Apart, Named, RemovePidFile
<1>4. Bound' /\ ~inTheWay'
  BY <1>1 DEF Shutdown, Terminated, Drain, LeaveStep, LeaveRemovingSocket, LeaveRemovingPid,
              Apart, Bound, RemoveSocket
<1>. QED BY <1>2, <1>3, <1>4 DEF Apart

\* stopDaemon() keeps commands apart: it sweeps when nobody is alive.
LEMMA StopApart ==
  ASSUME Shape, Apart, NEW k \in Stop, ReadPid(k) \/ StopStep(k), ~overlap'
  PROVE  Apart'
<1> USE DEF Alive, Starting, Serving, Leaving, Stopping, Over, Goto, Shape, TypeOK, Kinds
<1>1. CASE ReadPid(k)
  <2>1. \A p \in Daemon \cup Stop : pc[p] \notin Starting \cup Stopping
    BY <1>1 DEF ReadPid, Begin
  <2>2. ~Running => \A e \in Daemon : ~Alive(e)
    BY <1>1, NobodyAlive DEF ReadPid
  <2>3. \E l \in {"signal", "sweepPid", "sweepSocket"} :
          pc' = [pc EXCEPT ![k] = l] /\ (l # "signal" => ~Running)
    BY <1>1 DEF ReadPid
  <2>. QED BY <1>1, <2>1, <2>2, <2>3, ProcessAssumption
           DEF ReadPid, Apart, OneCommand, OneAlive, Named, Bound, Awaited
<1>2. ASSUME StopStep(k) PROVE \A p \in Daemon \cup Stop :
                               pc[p] \in Starting \cup Stopping => p = k
  BY <1>2 DEF StopStep, Signal, Wait, SweepPid, SweepSocket, Apart, OneCommand
<1>3. CASE Signal(k)
  <2>1. CASE Running
    <3>1. pidFile \in Daemon /\ \A e \in Daemon : Alive(e) => e = pidFile
      BY <2>1, ProcessAssumption DEF Running, Apart, OneAlive
    <3>2. pc[pidFile] \in Serving \cup Leaving
      BY <1>2, <1>3, <2>1, <3>1, ProcessAssumption DEF Running, StopStep
    <3>3. pc' = [pc EXCEPT ![k] = "wait", ![pidFile] = Terminated(pidFile)]
      BY <1>3, <2>1 DEF Signal
    <3>4. \A p \in Daemon \cup Stop :
            pc'[p] = IF p = k THEN "wait"
                     ELSE IF p = pidFile /\ pc[p] = "running" THEN "draining" ELSE pc[p]
      BY <3>1, <3>2, <3>3, ProcessAssumption DEF Terminated
    <3>. QED BY <1>2, <1>3, <2>1, <3>1, <3>4, ProcessAssumption
             DEF StopStep, Signal, Apart, OneCommand, OneAlive, Named, Bound, Awaited
  <2>2. CASE ~Running
    BY <1>3, <2>2, ProcessAssumption
       DEF Signal, Apart, OneCommand, OneAlive, Named, Bound, Awaited
  <2>. QED BY <2>1, <2>2
<1>4. CASE Wait(k)
  <2>1. target[k] \in Daemon /\ \A e \in Daemon : Alive(e) => e = target[k]
    BY <1>4 DEF Wait, Apart, Awaited
  <2>2. \A p \in Daemon \cup Stop :
          pc'[p] = IF p = k THEN "sweepPid"
                   ELSE IF p = target[k] /\ Alive(p) THEN "killed" ELSE pc[p]
    BY <1>4, <2>1, ProcessAssumption DEF Wait
  <2>. QED BY <1>2, <1>4, <2>1, <2>2, ProcessAssumption
           DEF StopStep, Wait, Apart, OneCommand, OneAlive, Named, Bound, Awaited
<1>5. CASE SweepPid(k) \/ SweepSocket(k)
  <2>1. \A e \in Daemon : ~Alive(e)
    BY <1>5 DEF SweepPid, SweepSocket, Apart, Awaited
  <2>. QED BY <1>2, <1>5, <2>1, ProcessAssumption
           DEF StopStep, SweepPid, SweepSocket, Apart, OneCommand, OneAlive, Named, Bound, Awaited
<1>. QED BY <1>1, <1>3, <1>4, <1>5 DEF StopStep

-----------------------------------------------------------------------------
(* The theorems. *)

\* The invariant is inductive.
LEMMA NextIInv == IInv /\ [Next]_vars => IInv'
<1> SUFFICES ASSUME IInv, [Next]_vars PROVE IInv'
  OBVIOUS
<1>1. Shape'
  BY ShapeStep DEF IInv
<1>2. ASSUME ~overlap' PROVE Apart'
  <2>1. Shape /\ Apart
    <3>1. overlap => overlap'
      BY DEF Next, vars, Check, Begin, StartStep, RemoveStalePid, RemoveStaleSocket, CleanSocket,
             WritePid, Bind, BindPort, UndoSocket, UndoPid, Shutdown, Drain, LeaveStep,
             LeaveRemovingSocket, LeaveRemovingPid, ReadPid, StopStep, Signal, Wait, SweepPid,
             SweepSocket, Kill
    <3>. QED BY <1>2, <3>1 DEF IInv
  <2>2. ASSUME NEW p \in Daemon \cup Stop, Kill(p) PROVE Apart'
    BY <2>1, <2>2, ProcessAssumption
       DEF Kill, Apart, OneCommand, OneAlive, Named, Bound, Awaited, Alive, Starting, Serving,
           Leaving, Stopping, Over, Goto, Shape, TypeOK
  <2>3. CASE UNCHANGED vars
    BY <2>1, <2>3 DEF vars, Apart, OneCommand, OneAlive, Named, Bound, Awaited, Alive
  <2>. QED BY <1>2, <2>1, <2>2, <2>3, StartApart, LeaveApart, StopApart DEF Next
<1>. QED BY <1>1, <1>2 DEF IInv

\* The inductive invariant, for any number of processes.
THEOREM IInvCorrect == Spec => []IInv
BY InitIInv, NextIInv, PTL DEF Spec

\* The files and the steps of daemons and stops have their types, for any
\* number of processes.
THEOREM TypeCorrect == Spec => []TypeOK
<1>1. IInv => TypeOK
  BY DEF IInv, Shape
<1>. QED BY <1>1, IInvCorrect, PTL

\* Commands given one after the other never leave two daemons with the sessions
\* and the config open.
THEOREM OneDaemon == Spec => []SingleDaemon
<1>1. ASSUME IInv PROVE SingleDaemon
  <2> DEFINE S == {d \in Daemon : pc[d] \in Serving}
  <2> SUFFICES ASSUME ~overlap PROVE Cardinality(S) <= 1
    BY DEF SingleDaemon
  <2>1. \A d, e \in S : d = e
    BY <1>1 DEF IInv, Apart, OneAlive, Alive
  <2>2. CASE S = {}
    BY <2>2, FS_EmptySet
  <2>3. CASE S # {}
    <3>1. PICK d : S = {d}
      BY <2>1, <2>3
    <3>. QED BY <3>1, FS_Singleton
  <2>. QED BY <2>2, <2>3
<1>2. IInv => SingleDaemon
  BY <1>1
<1>. QED BY <1>2, IInvCorrect, PTL

\* The PID file and the socket are those of the daemon that runs.
THEOREM RunningIsReachable == Spec => []Reachable
<1>1. IInv => Reachable
  BY DEF IInv, Apart, Named, Bound, Reachable, Serving
<1>. QED BY <1>1, IInvCorrect, PTL

\* Nothing a killed daemon or stop leaves behind keeps the next start from
\* binding its socket.
THEOREM NothingInTheWay == Spec => []StartsAgain
<1>1. IInv => StartsAgain
  BY DEF IInv, Apart, StartsAgain
<1>. QED BY <1>1, IInvCorrect, PTL
=============================================================================
