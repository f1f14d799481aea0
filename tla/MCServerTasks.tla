---------------------------- MODULE MCServerTasks ----------------------------
(***************************************************************************)
(* What the server does for its clients: processes (ServerProcs), a service     *)
(* (ServerServices), files (ServerFiles), the login and the replies            *)
(* (ServerSession), and the log (ServerLog).  They share no state, and in a      *)
(* behaviour only one of them moves.  Processes come in two tasks: "process" with   *)
(* all workers but a process less than the bound, "pool" with all processes but   *)
(* fewer workers.                                                           *)
(***************************************************************************)
EXTENDS ServerProcs, Integers

CONSTANTS
  Quiet,          (* the workers that start no process in the task "pool"    *)
  MaxInstance,
  Threads, MaxLogs, MaxEntries,
  Data, MaxCalls,
  MaxRequests

VARIABLES
  task,           (* what moves                                            *)
  serviceStatus, instance, thread, work, threads, servicePc, todo, new, server, raced,
  logs, added, logging,
  path, made, content, handler, file, data, pos, calls, alone, before,
  authenticated, permissions, worker, request, requests, replies, running

Services == INSTANCE ServerServices WITH
  status <- serviceStatus, pc <- servicePc
Logs == INSTANCE ServerLog WITH at <- logging
Files == INSTANCE ServerFiles WITH at <- handler
Session == INSTANCE ServerSession WITH at <- worker, mine <- request
ASSUME ServiceAssumed == Services!ServiceAssumption
ASSUME LogAssumed == Logs!LogAssumption
ASSUME FilesAssumed == Files!FilesAssumption
ASSUME SessionAssumed == Session!SessionAssumption

(* Two files of different lengths.                                          *)
MCData == {<<1>>, <<2, 3>>}

serviceVars ==
  <<serviceStatus, instance, thread, work, threads, servicePc, todo, new, server,
    raced>>
logVars == <<logs, added, logging>>
fileVars == <<path, made, content, handler, file, data, pos, calls, alone, before>>
sessionVars ==
  <<authenticated, permissions, worker, request, requests, replies, running>>
taskVars == <<vars, serviceVars, logVars, fileVars, sessionVars, task>>

TaskInit ==
  /\ task \in {"process", "pool", "service", "log", "file", "session"}
  /\ Init /\ Services!Init /\ Logs!Init /\ Files!Init /\ Session!Init

Asked(A) ==
  /\ task \in {"process", "pool"} /\ A
  /\ task = "process" => Cardinality(DOMAIN os') < MaxHandle
  /\ task = "pool" => \A w \in Quiet : pc'[w] = "idle"
  /\ UNCHANGED <<task, serviceVars, logVars, fileVars, sessionVars>>

TaskNext ==
  \/ Asked(Next)
  \/ /\ task = "service" /\ Services!Next
     /\ UNCHANGED <<task, vars, logVars, fileVars, sessionVars>>
  \/ /\ task = "log" /\ Logs!Next
     /\ UNCHANGED <<task, vars, serviceVars, fileVars, sessionVars>>
  \/ /\ task = "file" /\ Files!Next
     /\ UNCHANGED <<task, vars, serviceVars, logVars, sessionVars>>
  \/ /\ task = "session" /\ Session!Next
     /\ UNCHANGED <<task, vars, serviceVars, logVars, fileVars>>

(* The fairness of ServerProcs.                                            *)
TaskSpec ==
  /\ TaskInit /\ [][TaskNext]_taskVars
  /\ \A w \in Workers : WF_taskVars(Asked(Start(w)))
  /\ \A h \in 1 .. MaxHandle : WF_taskVars(Asked(BeginWait(h) \/ Record(h)))

-----------------------------------------------------------------------------
(* The status of a process never tells a client of a stop that was not asked   *)
(* for, or of a failure that has not been (handleProcessStop, monitor); and as     *)
(* long as no start overlaps a start, no stop a stop, and no stop overtakes the     *)
(* thread of a start, one instance of a service is up at most and its status tells  *)
(* of it, as far as start and stop do not throw (startService, stopService).     *)
WhatRunsBacked ==
  TypeOK /\ StatusBacked /\ Services!TypeOK /\ Services!RunningBacked

(* The list that log trims is the newest part of what was logged, and as long as  *)
(* its limit but for the threads that are in log.                            *)
LogKept == Logs!TypeOK /\ Logs!LogNewest

(* handleFileRead and handleFileWrite give and leave the bytes, unless another    *)
(* request changes the file under them, and then no byte is of nowhere.        *)
FilesRight == Files!TypeOK /\ Files!FilesRight

(* However the messages of a client overlap, each is answered as the login          *)
(* allows, and once (processMessage, handleAuth, checkAuth, handleShutdown).    *)
RepliesRight == Session!TypeOK /\ Session!RepliesRight
=============================================================================
