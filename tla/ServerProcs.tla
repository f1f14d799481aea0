----------------------------- MODULE ServerProcs -----------------------------
(***************************************************************************)
(* The processes of the system server (src/System/Server.c): workers start   *)
(* and stop them for clients, and a monitor per process, in a pool with few  *)
(* threads, waits for its end and records how it ended.                     *)
(*                                                                         *)
(* A started process is known by a number of its own, its handle; the pid    *)
(* the server gives it is another matter, since nextPid++ is not atomic.     *)
(***************************************************************************)
EXTENDS Naturals, FiniteSets

CONSTANTS
  Workers,
  FirstPid,       (* 1000 in the code                                       *)
  MaxHandle,      (* bound: processes started                               *)
  Monitors        (* threads of the common pool that runAsync uses: two at   *)
                  (* least, or it would start one for each call. A process   *)
                  (* that runs on keeps one.                                *)

ASSUME ProcsAssumption ==
  FirstPid \in Nat /\ MaxHandle \in Nat /\ Monitors \in Nat \ {0, 1}

VARIABLES
  os,             (* what the process of each handle does: "running",       *)
                  (* "killed" (told to end), "ok" or "failed" (ended)        *)
  status,         (* Process.status of each handle                          *)
  monitor,        (* its monitor: "queued", "waiting", "done"               *)
  table,          (* processes: the handle registered for each pid          *)
  nextPid,
  pc,             (* where each worker is in handleProcessStart             *)
  mine,           (* the handle it has started                              *)
  pid,            (* the pid it has read                                    *)
  stopping,       (* the handle that a handler, in the lock of the table, has *)
                  (* told to end and not marked yet; 0 for none              *)
  asked           (* history: handles that a stop request has reached       *)

vars == <<os, status, monitor, table, nextPid, pc, mine, pid, stopping, asked>>

Handles == DOMAIN os
Pids == FirstPid .. FirstPid + MaxHandle - 1
Ended == {h \in Handles : os[h] \in {"ok", "failed"}}
RUNNING == 0
STOPPED == 1
ZOMBIE == 2

Init ==
  /\ os = [h \in {} |-> "running"]
  /\ status = [h \in {} |-> RUNNING]
  /\ monitor = [h \in {} |-> "queued"]
  /\ table = [p \in {} |-> 0]
  /\ nextPid = FirstPid
  /\ pc = [w \in Workers |-> "idle"]
  /\ mine = [w \in Workers |-> 0]
  /\ pid = [w \in Workers |-> FirstPid]
  /\ stopping = 0
  /\ asked = {}

Goto(w, from, to) == pc[w] = from /\ pc' = [pc EXCEPT ![w] = to]
With(f, x, v) == [y \in DOMAIN f \union {x} |-> IF y = x THEN v ELSE f[y]]

(* handleProcessStart starts the process; a failure to start it is an error *)
(* reply and changes nothing.                                               *)
Launch(w) ==
  /\ Goto(w, "idle", "read")
  /\ Cardinality(Handles) < MaxHandle
  /\ LET h == Cardinality(Handles) + 1
     IN os' = With(os, h, "running") /\ mine' = [mine EXCEPT ![w] = h]
  /\ UNCHANGED <<status, monitor, table, nextPid, pid, stopping, asked>>

(* nextPid++ reads the static field and writes it back.                     *)
ReadPid(w) ==
  /\ Goto(w, "read", "write")
  /\ pid' = [pid EXCEPT ![w] = nextPid]
  /\ UNCHANGED <<os, status, monitor, table, nextPid, mine, stopping, asked>>

WritePid(w) ==
  /\ Goto(w, "write", "put")
  /\ nextPid' = pid[w] + 1
  /\ UNCHANGED <<os, status, monitor, table, mine, pid, stopping, asked>>

(* The process enters the table as running, under the lock of the table.    *)
Register(w) ==
  /\ stopping = 0
  /\ Goto(w, "put", "monitor")
  /\ status' = With(status, mine[w], RUNNING)
  /\ table' = With(table, pid[w], mine[w])
  /\ UNCHANGED <<os, monitor, nextPid, mine, pid, stopping, asked>>

(* runAsync queues the monitor and the worker answers the client.           *)
RunAsync(w) ==
  /\ Goto(w, "monitor", "idle")
  /\ monitor' = With(monitor, mine[w], "queued")
  /\ UNCHANGED <<os, status, table, nextPid, mine, pid, stopping, asked>>

(* handleProcessStop holds the lock of the table throughout: destroy ...     *)
Destroy(p) ==
  /\ stopping = 0
  /\ p \in DOMAIN table
  /\ LET h == table[p]
     IN /\ os' = [os EXCEPT ![h] = IF @ = "running" THEN "killed" ELSE @]
        /\ stopping' = h
        /\ asked' = asked \union {h}
  /\ UNCHANGED <<status, monitor, table, nextPid, pc, mine, pid>>

(* ... and then the status, which the monitor writes without the lock. A      *)
(* process that has ended already is marked as stopped too.                 *)
MarkStopped ==
  /\ stopping # 0
  /\ status' = [status EXCEPT ![stopping] = STOPPED]
  /\ stopping' = 0
  /\ UNCHANGED <<os, monitor, table, nextPid, pc, mine, pid, asked>>

handleProcessStop == (\E p \in Pids : Destroy(p)) \/ MarkStopped

(* A process ends by itself or because it was told to.                      *)
Die(h) ==
  /\ h \in Handles
  /\ os[h] \in {"running", "killed"}
  /\ \E how \in {"ok", "failed"} : os' = [os EXCEPT ![h] = how]
  /\ UNCHANGED <<status, monitor, table, nextPid, pc, mine, pid, stopping, asked>>

(* A monitor holds a thread of the pool while it waits for its process.     *)
BeginWait(h) ==
  /\ h \in DOMAIN monitor
  /\ monitor[h] = "queued"
  /\ Cardinality({g \in DOMAIN monitor : monitor[g] = "waiting"}) < Monitors
  /\ monitor' = [monitor EXCEPT ![h] = "waiting"]
  /\ UNCHANGED <<os, status, table, nextPid, pc, mine, pid, stopping, asked>>

(* Mutant: a monitor that records an end it has not waited for.             *)
RecordEarly(h) ==
  /\ h \in DOMAIN monitor
  /\ monitor[h] = "waiting"
  /\ monitor' = [monitor EXCEPT ![h] = "done"]
  /\ status' = [status EXCEPT ![h] = IF os[h] = "ok" THEN RUNNING ELSE ZOMBIE]
  /\ UNCHANGED <<os, table, nextPid, pc, mine, pid, stopping, asked>>

(* Mutant: a monitor that leaves a process it finds marked as stopped alone, *)
(* and never ends.                                                          *)
RecordUnstopped(h) ==
  /\ h \in DOMAIN monitor
  /\ monitor[h] = "waiting"
  /\ h \in Ended
  /\ status[h] # STOPPED
  /\ monitor' = [monitor EXCEPT ![h] = "done"]
  /\ status' = [status EXCEPT ![h] = IF os[h] = "ok" THEN RUNNING ELSE ZOMBIE]
  /\ UNCHANGED <<os, table, nextPid, pc, mine, pid, stopping, asked>>

(* waitFor returns: status is 0 after exit code 0 and 2 after any other,     *)
(* whatever a stop has written there.                                       *)
Record(h) ==
  /\ h \in DOMAIN monitor
  /\ monitor[h] = "waiting"
  /\ h \in Ended
  /\ monitor' = [monitor EXCEPT ![h] = "done"]
  /\ status' = [status EXCEPT ![h] = IF os[h] = "ok" THEN RUNNING ELSE ZOMBIE]
  /\ UNCHANGED <<os, table, nextPid, pc, mine, pid, stopping, asked>>

Start(w) ==
  Launch(w) \/ ReadPid(w) \/ WritePid(w) \/ Register(w) \/ RunAsync(w)

Next ==
  \/ \E w \in Workers : Start(w)
  \/ handleProcessStop
  \/ \E h \in 1 .. MaxHandle : Die(h) \/ BeginWait(h) \/ Record(h)

Spec == Init /\ [][Next]_vars

-----------------------------------------------------------------------------
TypeOK ==
  /\ Handles \subseteq 1 .. MaxHandle
  /\ DOMAIN monitor \subseteq DOMAIN status
  /\ DOMAIN status \subseteq Handles
  /\ nextPid \in FirstPid .. FirstPid + MaxHandle
  /\ DOMAIN table \subseteq Pids
  /\ stopping \in Handles \union {0}
  /\ asked \subseteq Handles

(* Whatever the order in which a stop, the end of the process and its monitor *)
(* come, "stopped" says that a client asked for it, and "zombie" that the    *)
(* process has ended: it never shows a live process as dead.                *)
StatusBacked ==
  \A h \in DOMAIN status :
    /\ status[h] = STOPPED => h \in asked /\ os[h] # "running"
    /\ status[h] = ZOMBIE => os[h] = "failed"

(* Every thread of the pool waits for a process that goes on running.        *)
Exhausted ==
  Cardinality({h \in DOMAIN monitor : monitor[h] = "waiting" /\ h \notin Ended})
    = Monitors

(* The end of a process is recorded, also of one that has been stopped, that   *)
(* ended before its monitor had a thread, or that had to wait for a thread     *)
(* while others held them all: unless processes that run on keep every thread  *)
(* of the pool from some time on, and then the end is never noticed.          *)
EndRecorded ==
  []<>(~ Exhausted) =>
    \A h \in 1 .. MaxHandle :
      h \in DOMAIN monitor /\ h \in Ended ~> h \in DOMAIN monitor /\ monitor[h] = "done"

=============================================================================
