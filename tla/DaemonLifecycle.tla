-------------------------- MODULE DaemonLifecycle --------------------------
(***************************************************************************)
(* Starting and stopping the daemon (daemon/daemon.ts) through the files   *)
(* in the runtime directory: the PID file and the Unix socket, or address  *)
(* file (daemon/transport.ts).                                             *)
(*                                                                         *)
(* Every `abbenay daemon`, `web` or `chat` that starts a daemon is a       *)
(* process of its own, and so is every `abbenay stop`.  Nothing but those  *)
(* files keeps them apart; any two file operations may have other          *)
(* processes' between them.  Processes are killed at any point and leave   *)
(* their files behind.                                                     *)
(*                                                                         *)
(* Left out: what the daemon serves.  A daemon that shuts down waits for   *)
(* open streams, maybe for ever.  Process ids are never reused.            *)
(***************************************************************************)
EXTENDS Naturals, FiniteSets

CONSTANTS Daemon,    \* processes that start a daemon
          Stop,      \* processes that stop one
          MaxKills,  \* bound: how many processes are killed or crash
          None

ASSUME ProcessAssumption == None \notin Daemon \cup Stop /\ Daemon \cap Stop = {}
ASSUME BoundAssumption   == MaxKills \in Nat

VARIABLES
  pidFile,  \* the daemon whose id the PID file holds
  socket,   \* the daemon that bound the socket at the well-known path
  pc,       \* pc[p]: how far a process has come
  target,   \* target[k]: the daemon a stop is about
  kills,    \* bounded by MaxKills
  inTheWay, \* history: some daemon could not bind because of a socket file
  overlap   \* history: a start or a stop began before another had ended

vars == <<pidFile, socket, pc, target, kills, inTheWay, overlap>>

Starting == {"stalePid", "staleSocket", "init", "writePid", "bind", "bindPort",
             "undoSocket", "undoPid"}
Serving  == {"running", "draining"}
Leaving  == {"rmSocket", "rmPid"}
Stopping == {"signal", "wait", "sweepPid", "sweepSocket"}
Over     == {"refused", "failed", "gone", "killed"}

Alive(p) == pc[p] \in Starting \cup Serving \cup Leaving

TypeOK ==
  /\ pidFile \in Daemon \cup {None}
  /\ socket \in Daemon \cup {None}
  /\ pc \in [Daemon \cup Stop -> {"idle"} \cup Starting \cup Serving \cup Leaving
                                   \cup Stopping \cup Over]
  /\ target \in [Stop -> Daemon \cup {None}]
  /\ kills \in 0..MaxKills
  /\ inTheWay \in BOOLEAN
  /\ overlap \in BOOLEAN

Init ==
  /\ pidFile = None
  /\ socket = None
  /\ pc = [p \in Daemon \cup Stop |-> "idle"]
  /\ target = [k \in Stop |-> None]
  /\ kills = 0
  /\ inTheWay = FALSE
  /\ overlap = FALSE

Goto(p, l) == pc' = [pc EXCEPT ![p] = l]

\* A command begins.
Begin(p) ==
  /\ pc[p] = "idle"
  /\ overlap' = (overlap \/ \E q \in Daemon \cup Stop : pc[q] \in Starting \cup Stopping)

\* Mutant: the file is emptied, not removed.
EmptyPidFile == pidFile' = "empty"

RemovePidFile == pidFile' = None

RemoveSocket == socket' = None

-----------------------------------------------------------------------------
(* startDaemon(). *)

\* Mutant: a daemon counts only as long as its socket is there.
RunningBySocket == pidFile # None /\ Alive(pidFile) /\ socket # None

\* isDaemonRunningSync(), as far as what it returns.
Running == pidFile # None /\ Alive(pidFile)

Check(p) ==
  /\ Begin(p)
  /\ \/ /\ Running
        /\ Goto(p, "refused")
     \/ /\ ~Running /\ pidFile # None
        /\ Goto(p, "stalePid")
     \/ /\ ~Running /\ pidFile = None
        /\ Goto(p, "init")
  /\ UNCHANGED <<pidFile, socket, target, kills, inTheWay>>

\* It removes what a daemon that died has left.
RemoveStalePid(p) ==
  /\ pc[p] = "stalePid"
  /\ RemovePidFile
  /\ Goto(p, "staleSocket")
  /\ UNCHANGED <<socket, target, kills, inTheWay, overlap>>

RemoveStaleSocket(p) ==
  /\ pc[p] = "staleSocket"
  /\ RemoveSocket
  /\ Goto(p, "init")
  /\ UNCHANGED <<pidFile, target, kills, inTheWay, overlap>>

\* Mutant: a stale socket is left for the bind to find.
LeaveSocket(p) ==
  /\ pc[p] = "init"
  /\ Goto(p, "writePid")
  /\ UNCHANGED <<pidFile, socket, target, kills, inTheWay, overlap>>

\* After the first await: cleanupSocket() and writePidFile().
CleanSocket(p) ==
  /\ pc[p] = "init"
  /\ RemoveSocket
  /\ Goto(p, "writePid")
  /\ UNCHANGED <<pidFile, target, kills, inTheWay, overlap>>

WritePid(p) ==
  /\ pc[p] = "writePid"
  /\ pidFile' = p
  /\ Goto(p, "bind")
  /\ UNCHANGED <<socket, target, kills, inTheWay, overlap>>

\* bindAsync() on the socket, which fails when the path exists, or for another
\* reason.
Bind(p) ==
  /\ pc[p] = "bind"
  /\ \/ /\ socket = None
        /\ socket' = p
        /\ Goto(p, "bindPort")
     \/ /\ UNCHANGED socket
        /\ Goto(p, "undoSocket")
  /\ inTheWay' = (inTheWay \/ socket # None)
  /\ UNCHANGED <<pidFile, target, kills, overlap>>

\* bindTcpGrpc(), if there is a port; signals are handled from here on.
BindPort(p) ==
  /\ pc[p] = "bindPort"
  /\ Goto(p, "running") \/ Goto(p, "undoSocket")
  /\ UNCHANGED <<pidFile, socket, target, kills, inTheWay, overlap>>

\* After a failed bind: cleanupIpcArtifacts() and removePidFile().
UndoSocket(p) ==
  /\ pc[p] = "undoSocket"
  /\ RemoveSocket
  /\ Goto(p, "undoPid")
  /\ UNCHANGED <<pidFile, target, kills, inTheWay, overlap>>

UndoPid(p) ==
  /\ pc[p] = "undoPid"
  /\ RemovePidFile
  /\ Goto(p, "failed")
  /\ UNCHANGED <<socket, target, kills, inTheWay, overlap>>

-----------------------------------------------------------------------------
(* Shutting down. *)

\* Where SIGTERM leaves daemon d: only a running one has a handler.
Terminated(d) ==
  IF pc[d] = "running" THEN "draining"
  ELSE IF pc[d] \in Starting THEN "killed" ELSE pc[d]

\* Mutant: the PID file is removed before anything has shut down.
ShutdownForgotten(d) ==
  /\ pc[d] = "running"
  /\ Goto(d, "draining")
  /\ RemovePidFile
  /\ UNCHANGED <<socket, target, kills, inTheWay, overlap>>

\* Ctrl-C, or the Shutdown RPC.
Shutdown(d) ==
  /\ pc[d] = "running"
  /\ Goto(d, Terminated(d))
  /\ UNCHANGED <<pidFile, socket, target, kills, inTheWay, overlap>>

\* The MCP servers, the web server and, in stopDaemonInternal(), the gRPC server
\* have shut down.
Drain(d) ==
  /\ pc[d] = "draining"
  /\ Goto(d, "rmSocket")
  /\ UNCHANGED <<pidFile, socket, target, kills, inTheWay, overlap>>

LeaveRemovingSocket(d) ==
  /\ pc[d] = "rmSocket"
  /\ RemoveSocket
  /\ Goto(d, "rmPid")
  /\ UNCHANGED <<pidFile, target, kills, inTheWay, overlap>>

LeaveRemovingPid(d) ==
  /\ pc[d] = "rmPid"
  /\ RemovePidFile
  /\ Goto(d, "gone")
  /\ UNCHANGED <<socket, target, kills, inTheWay, overlap>>

-----------------------------------------------------------------------------
(* stopDaemon(), in a process of its own. *)

\* The PID file is read.  Without a live daemon the files are removed; without
\* a PID file, the socket only.
ReadPid(k) ==
  /\ Begin(k)
  /\ target' = [target EXCEPT ![k] = IF Running THEN pidFile ELSE None]
  /\ Goto(k, IF Running THEN "signal"
             ELSE IF pidFile # None THEN "sweepPid" ELSE "sweepSocket")
  /\ UNCHANGED <<pidFile, socket, kills, inTheWay>>

\* killDaemon() reads it again, and sends SIGTERM.
Signal(k) ==
  /\ pc[k] = "signal"
  /\ \/ /\ Running
        /\ target' = [target EXCEPT ![k] = pidFile]
        /\ pc' = [pc EXCEPT ![k] = "wait", ![pidFile] = Terminated(pidFile)]
     \/ /\ ~Running
        /\ Goto(k, "failed")
        /\ UNCHANGED target
  /\ UNCHANGED <<pidFile, socket, kills, inTheWay, overlap>>

\* Mutant: a daemon that does not end in time is left alone.
WaitOnly(k) ==
  /\ pc[k] = "wait"
  /\ Goto(k, "sweepPid")
  /\ UNCHANGED <<pidFile, socket, target, kills, inTheWay, overlap>>

\* The daemon has ended, or three seconds are over: SIGKILL.
Wait(k) ==
  /\ pc[k] = "wait"
  /\ pc' = [pc EXCEPT ![k] = "sweepPid",
                      ![target[k]] = IF Alive(target[k]) THEN "killed" ELSE @]
  /\ UNCHANGED <<pidFile, socket, target, kills, inTheWay, overlap>>

\* "Clean up files if process didn't".
SweepPid(k) ==
  /\ pc[k] = "sweepPid"
  /\ RemovePidFile
  /\ Goto(k, "sweepSocket")
  /\ UNCHANGED <<socket, target, kills, inTheWay, overlap>>

SweepSocket(k) ==
  /\ pc[k] = "sweepSocket"
  /\ RemoveSocket
  /\ Goto(k, IF target[k] = None THEN "failed" ELSE "gone")
  /\ UNCHANGED <<pidFile, target, kills, inTheWay, overlap>>

-----------------------------------------------------------------------------

\* A process is killed, or crashes.
Kill(p) ==
  /\ kills < MaxKills
  /\ pc[p] \notin Over \cup {"idle"}
  /\ kills' = kills + 1
  /\ Goto(p, "killed")
  /\ UNCHANGED <<pidFile, socket, target, inTheWay, overlap>>

StartStep(p) ==
  \/ RemoveStalePid(p) \/ RemoveStaleSocket(p) \/ CleanSocket(p) \/ WritePid(p)
  \/ Bind(p) \/ BindPort(p) \/ UndoSocket(p) \/ UndoPid(p)

LeaveStep(d) == LeaveRemovingSocket(d) \/ LeaveRemovingPid(d)

StopStep(k) == Signal(k) \/ Wait(k) \/ SweepPid(k) \/ SweepSocket(k)

Next ==
  \/ \E d \in Daemon : Check(d) \/ StartStep(d) \/ Shutdown(d) \/ Drain(d) \/ LeaveStep(d)
  \/ \E k \in Stop : ReadPid(k) \/ StopStep(k)
  \/ \E p \in Daemon \cup Stop : Kill(p)

Spec == Init /\ [][Next]_vars

\* Processes run on.  A daemon may drain for ever.
FairSpec == /\ Spec
            /\ \A d \in Daemon : WF_vars(StartStep(d)) /\ WF_vars(LeaveStep(d))
            /\ \A k \in Stop : WF_vars(StopStep(k))

-----------------------------------------------------------------------------
(* Properties. *)

\* As long as commands are not given at the same time, no two daemons have the
\* sessions and the config open, whatever was killed and left behind, and
\* however long one takes to shut down.
SingleDaemon ==
  ~overlap => Cardinality({d \in Daemon : pc[d] \in Serving}) <= 1

\* ... and the daemon that runs is the one its clients find.
Reachable ==
  ~overlap => \A d \in Daemon : pc[d] = "running" => pidFile = d /\ socket = d

\* ... and what processes that were killed have left is never in the way of a
\* start.
StartsAgain == ~overlap => ~inTheWay

\* A stop that found a daemon rids the system of it, even if it hangs, unless
\* the stop itself is killed.
StopStops ==
  \A k \in Stop :
    (pc[k] = "wait") ~> (pc[k] = "killed" \/ target[k] \in {d \in Daemon : ~Alive(d)})
=============================================================================
